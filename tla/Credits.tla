------------------------------- MODULE Credits -------------------------------
(***************************************************************************)
(* How a credit that appears on or leaves a film becomes a card            *)
(* (ingest/sweep/credit_events.py, ingest/tmdb/credit_history.py,          *)
(* ingest/credit_holds.py, news/attachment_confirm.py and the casting half *)
(* of link/cluster.py).                                                    *)
(*                                                                         *)
(* Four actors share the tables.  An observation of TMDB replaces a film's *)
(* credits and appends what changed to the history.  The sweep reads the   *)
(* history of the last days again at every pass and cards what has         *)
(* outlived its quarantine, then what has stayed away.  The cluster stage  *)
(* cards the same beats from trade stories and stamps the changes they     *)
(* publish.  An administrator releases what a sanity check holds.          *)
(*                                                                         *)
(* One tick of the clock is one day of observation: the bucket of the      *)
(* burst check, and the instant every change seen on that day shares.      *)
(***************************************************************************)
EXTENDS Naturals, Sequences, FiniteSets

CONSTANTS
    Credits,      \* the recorded credits: one person in one role on one film
    FilmOf, PersonOf,
    TypeOf,       \* CREDIT_ROLE_EVENT_TYPES of the role: "casting" or "crew_attached"
    Impossible,   \* the persons whose dates contradict any credit observed now
    Quarantine,   \* SWEEP_CREDIT_QUARANTINE_HOURS, in ticks
    Dwell,        \* SWEEP_CREDIT_DWELL_DAYS
    Lookback,     \* SWEEP_EVENT_LOOKBACK_DAYS
    Window,       \* SWEEP_STORY_CONFIRM_DAYS
    Burst,        \* SWEEP_SANITY_MAX_FILMS_PER_DAY
    MaxTime, MaxRows, MaxStories, MaxFaults     \* bounds

Films   == {FilmOf[c] : c \in Credits}
Persons == {PersonOf[c] : c \in Credits}
Types   == {"casting", "crew_attached"}

\* CREDIT_REMOVAL_EVENT_TYPES.
Removal == [casting |-> "cast_removed", crew_attached |-> "crew_removed"]

\* The gates are on (0 turns one off, which is not modelled), and validate_sweep_configuration
\* leaves a pass between the end of the quarantine and the end of the lookback.
ASSUME CreditsAssumption ==
    /\ TypeOf \in [Credits -> Types]
    /\ DOMAIN FilmOf = Credits /\ DOMAIN PersonOf = Credits
    /\ Impossible \subseteq Persons
    /\ Quarantine \in Nat \ {0} /\ Dwell \in Nat \ {0} /\ Burst \in Nat \ {0}
    /\ Window \in Nat \ {0}
    /\ Lookback \in Nat /\ Quarantine + 2 <= Lookback
    /\ MaxTime \in Nat /\ MaxRows \in Nat /\ MaxStories \in Nat /\ MaxFaults \in Nat

VARIABLES
    clock,      \* the day
    live,       \* catalog.film_credit: the credits on their films now
    added,      \* film_credit_change rows with change = 'added': <<credit, day>> as records
    removed,    \* those with change = 'removed'
    stamp,      \* carded_by_event_id of the rows that have one
    hold,       \* ingest.credit_hold: the open reason or how the hold ended
    dated,      \* the persons of Impossible whose dates have been fetched
    cards,      \* the credit cards of news.event, in the order of their creation
    sweep,      \* the pass in progress
    stories,    \* story groups applied so far
    faults,     \* failures met so far
    told,       \* history: the persons of a film whom a story named or stamped
    dropped,    \* history: the rows a pass let go because the catalog had a card of the date
    swept       \* history: whole passes over a credit since its last change, up to 2

tables == <<live, added, removed, stamp, hold, dated, cards>>
vars   == <<clock, tables, sweep, stories, faults, told, dropped, swept>>

Film(r)   == FilmOf[r.credit]
Person(r) == PersonOf[r.credit]
Type(r)   == TypeOf[r.credit]

Rows  == [credit : Credits, at : 0..MaxTime]
\* `names` is the subject key, a set to all its readers; `body` the attachments whose persons
\* a catalog card's text lists, one by one.
Card  == [film : Films, type : Types \cup {Removal[t] : t \in Types}, at : 0..MaxTime,
          names : SUBSET Persons, body : SUBSET Rows, by : {"story", "catalog"},
          published : BOOLEAN]
Open  == {"burst", "dates"}
Holds == Open \cup {"manual", "cleared", "expired"}

\* The locals of run_sweep_stage and the two phases: `at` is the now of the pass, `todo`
\* the attachments that may card, `gone` the detachments read, `scooped` the rows a story
\* stamped since the pass read them, `clean` whether nothing has failed.
Idle == [pc |-> "idle", at |-> 0, todo |-> {}, gone |-> {}, scooped |-> {}, clean |-> TRUE]

TypeOK ==
    /\ clock \in 0..MaxTime
    /\ live \subseteq Credits
    /\ added \subseteq Rows /\ removed \subseteq Rows
    /\ DOMAIN stamp \subseteq added /\ \A r \in DOMAIN stamp : stamp[r] \in 1..Len(cards)
    /\ DOMAIN hold \subseteq added /\ \A r \in DOMAIN hold : hold[r] \in Holds
    /\ dated \subseteq Impossible
    /\ cards \in Seq(Card)
    /\ sweep \in [pc : {"idle", "reconcile", "judge", "card", "remove"}, at : 0..MaxTime,
                  todo : SUBSET added, gone : SUBSET removed, scooped : SUBSET added,
                  clean : BOOLEAN]
    /\ stories \in 0..MaxStories /\ faults \in 0..MaxFaults
    /\ told \subseteq Films \X Persons /\ dropped \subseteq added
    /\ swept \in [Credits -> 0..2]

\* The first observation of a film is a baseline: its credits, and no row.
Init ==
    /\ clock = 0
    /\ live \in SUBSET Credits
    /\ added = {} /\ removed = {}
    /\ stamp = <<>> /\ hold = <<>> /\ dated = {}
    /\ cards = <<>>
    /\ sweep = Idle
    /\ stories = 0 /\ faults = 0
    /\ told = {} /\ dropped = {}
    /\ swept = [c \in Credits |-> 0]
-----------------------------------------------------------------------------
(***************************************************************************)
(* What the readers of the tables ask.                                     *)
(***************************************************************************)

OpenHold(r) == r \in DOMAIN hold /\ hold[r] \in Open
Stamped(r)  == r \in DOMAIN stamp

\* The film's attachment cards of a type, and the cards of the class: those and its removals.
AttachCards(f, type) == {i \in 1..Len(cards) : cards[i].film = f /\ cards[i].type = type}
ClassCards(f, type)  == AttachCards(f, type) \cup AttachCards(f, Removal[type])

\* order_by(occurred_at desc, created_at desc): i comes no later than j.
NoOlder(i, j) == cards[i].at > cards[j].at \/ (cards[i].at = cards[j].at /\ i >= j)

Newest(I) == {i \in I : \A j \in I : NoOlder(i, j)}

\* _latest_credit_event_types: the person's newest card of the class is an attachment.
CurrentlyCarded(f, type, p) ==
    \E i \in Newest({j \in ClassCards(f, type) : p \in cards[j].names}) : cards[i].type = type

\* _already_carded, and the unique index under it.
Taken(f, type, at) ==
    \E i \in 1..Len(cards) : /\ cards[i].film = f /\ cards[i].type = type
                             /\ cards[i].at = at /\ cards[i].by = "catalog"

LatestOf(rows) == {r \in rows : \A u \in rows : u.at <= r.at}
-----------------------------------------------------------------------------
(***************************************************************************)
(* An observation of TMDB, by the sweep's refresh or by a tmdb pass.       *)
(***************************************************************************)

\* diff_recorded_credits and record_credit_changes: rows are only ever appended.
RecordChanges(arrived, left) ==
    /\ added' = added \cup {[credit |-> c, at |-> clock] : c \in arrived}
    /\ removed' = removed \cup {[credit |-> c, at |-> clock] : c \in left}

\* upsert_film: the film's credits are replaced and the difference goes to the history.
\* One observation that changes something per film and day.
Observe(f, present) ==
    LET before  == {c \in live : FilmOf[c] = f}
        changed == (present \ before) \cup (before \ present)
    IN  /\ changed # {}
        /\ Cardinality(added) + Cardinality(removed) + Cardinality(changed) <= MaxRows
        /\ \A r \in added \cup removed : Film(r) = f => r.at # clock
        /\ live' = (live \ before) \cup present
        /\ RecordChanges(present \ before, before \ present)
        /\ swept' = [c \in Credits |-> IF c \in changed THEN 0 ELSE swept[c]]
        /\ UNCHANGED <<clock, stamp, hold, dated, cards, sweep, stories, faults, told, dropped>>
-----------------------------------------------------------------------------
(***************************************************************************)
(* The cluster stage on a story about a credit.                            *)
(***************************************************************************)

\* _pending_changes: a row under an open hold is read past.
Pending(r) == r \in added /\ ~Stamped(r) /\ ~OpenHold(r)

\* stamp_story_confirmed_changes: the recent rows of the named whose credit is still there.
Published(f, names) ==
    {r \in added : /\ Pending(r) /\ Film(r) = f /\ Person(r) \in names
                   /\ r.at + Window >= clock /\ r.credit \in live}

\* The story landed on card i, whose names are now these.
StampForward(f, i, names, new) ==
    LET rows == Published(f, names)
    IN  /\ stamp' = [r \in DOMAIN stamp \cup rows |-> IF Stamped(r) THEN stamp[r] ELSE i]
        /\ told' = told \cup {<<f, p>> : p \in new \cup {Person(r) : r \in rows}}
        /\ sweep' = [sweep EXCEPT !.scooped = @ \cup (rows \cap sweep.todo)]
        /\ stories' = stories + 1
        /\ UNCHANGED <<clock, live, added, removed, hold, dated, faults, dropped, swept>>

\* recorded_subject_names: everybody on a casting card of the film.
Recorded(f) == UNION {cards[i].names : i \in AttachCards(f, "casting")}

\* _catalog_dedup_target: the latest of the catalog's cards that names one of them.
CatalogTargets(f, names) ==
    LET naming == {i \in AttachCards(f, "casting") \cup AttachCards(f, "crew_attached") :
                     cards[i].by = "catalog" /\ cards[i].names \cap names # {}}
    IN  {i \in naming : \A j \in naming : cards[j].at <= cards[i].at}

\* apply_cluster_decisions on a casting group nobody has carded: a card of its own.
StoryCreates(f, names) ==
    LET new == names \ Recorded(f)
    IN  /\ stories < MaxStories
        /\ new # {} /\ CatalogTargets(f, names) = {}
        /\ cards' = Append(cards, [film |-> f, type |-> "casting", at |-> clock,
                                   names |-> new, body |-> {}, by |-> "story",
                                   published |-> TRUE])
        /\ StampForward(f, Len(cards) + 1, new, new)

\* The catalog was first: the story joins its card and adds whom it names besides.
StoryJoins(f, names, i) ==
    LET new == names \ Recorded(f)
    IN  /\ stories < MaxStories
        /\ i \in CatalogTargets(f, names)
        /\ cards' = [cards EXCEPT ![i].names = @ \cup new]
        /\ StampForward(f, i, cards[i].names \cup new, new)

\* The model attached the story to a card it was shown.
StoryAttaches(f, i) ==
    /\ stories < MaxStories
    /\ i \in AttachCards(f, "casting") \cup AttachCards(f, "crew_attached")
    /\ Published(f, cards[i].names) # {}
    /\ cards' = cards
    /\ StampForward(f, i, cards[i].names, {})
-----------------------------------------------------------------------------
(***************************************************************************)
(* The administrator.                                                      *)
(***************************************************************************)

\* release_hold: a hold already closed is a conflict.
AdminReleases(r) ==
    /\ OpenHold(r)
    /\ hold' = [hold EXCEPT ![r] = "manual"]
    /\ swept' = [swept EXCEPT ![r.credit] = 0]
    /\ UNCHANGED <<clock, live, added, removed, stamp, dated, cards, sweep, stories, faults, told,
                   dropped>>
-----------------------------------------------------------------------------
(***************************************************************************)
(* The sweep: run_credit_attachment_events, then                           *)
(* run_credit_detachment_events.                                           *)
(***************************************************************************)

InWindow(r) == r.at + Lookback >= sweep.at

\* run_sweep_stage reads its clock once, before the refresh.
StartSweep ==
    /\ sweep.pc = "idle"
    /\ sweep' = [Idle EXCEPT !.pc = "reconcile", !.at = clock]
    /\ UNCHANGED <<clock, tables, stories, faults, told, dropped, swept>>

\* _burst_counts: the films the person reached on a day, among some credits.
FilmsReached(p, day, among) ==
    {Film(r) : r \in {u \in added : Person(u) = p /\ u.at = day /\ u.credit \in among}}

\* The condition of a burst lifts when TMDB has reverted enough of it.
Clears(r) ==
    hold[r] = "burst" /\ Cardinality(FilmsReached(Person(r), r.at, live)) < Burst

\* reconcile_holds.
Reconcile ==
    LET expired == {r \in DOMAIN hold : OpenHold(r) /\ ~InWindow(r)}
        cleared == {r \in DOMAIN hold : OpenHold(r) /\ InWindow(r) /\ Clears(r)}
    IN  /\ sweep.pc = "reconcile"
        /\ hold' = [r \in DOMAIN hold |-> IF r \in expired THEN "expired"
                                         ELSE IF r \in cleared THEN "cleared" ELSE hold[r]]
        /\ sweep' = [sweep EXCEPT !.pc = "judge"]
        /\ swept' = [c \in Credits |-> IF \E r \in cleared : r.credit = c THEN 0 ELSE swept[c]]
        /\ UNCHANGED <<clock, live, added, removed, stamp, dated, cards, stories, faults, told,
                       dropped>>

\* stamp_prior_story_cards: the story cards that may have published the row, whatever
\* their status, and the earliest of them.
StoryCards(r) ==
    {i \in AttachCards(Film(r), "casting") \cup AttachCards(Film(r), "crew_attached") :
        cards[i].by = "story" /\ Person(r) \in cards[i].names /\ cards[i].at + Window >= r.at}

Scoop(r) == CHOOSE i \in StoryCards(r) : \A j \in StoryCards(r) : NoOlder(j, i)

Scooped == {r \in added : Pending(r) /\ InWindow(r) /\ StoryCards(r) # {}}

\* load_attachment_backlog, after the stamps.
Backlog == {r \in added : Pending(r) /\ InWindow(r)} \ Scooped

\* Mutation: the quarantine only delays.
Outlived(r) == r.at + Quarantine <= sweep.at

\* Mutation: an attachment cards at a pass of the day before its quarantine ends.
OutlivedAlmost(r) == r.at + Quarantine <= sweep.at + 1 /\ r.credit \in live

\* quarantine_attachments: the window has passed and the credit is there.
Survives(r) == r.at + Quarantine <= sweep.at /\ r.credit \in live

\* _released_keys.
Immune(r) == r \in DOMAIN hold /\ hold[r] \in {"manual", "cleared"}

\* Stamps, backlog, quarantine, sanity_holds: one transaction.  TMDB being out of reach
\* costs the date checks of the persons not fetched yet.
Judge(outage) ==
    LET eligible  == {r \in Backlog : Survives(r)}
        burst     == {r \in eligible : ~Immune(r) /\
                        Cardinality(FilmsReached(Person(r), r.at, Credits)) >= Burst}
        survivors == eligible \ burst
        dates     == {r \in survivors : ~Immune(r) /\ Person(r) \in dated'}
    IN  /\ sweep.pc = "judge"
        /\ outage => faults < MaxFaults
        /\ faults' = IF outage THEN faults + 1 ELSE faults
        /\ dated' = IF outage THEN dated
                    ELSE dated \cup (Impossible \cap {Person(r) : r \in survivors})
        /\ stamp' = [r \in DOMAIN stamp \cup Scooped |->
                        IF Stamped(r) THEN stamp[r] ELSE Scoop(r)]
        /\ told' = told \cup {<<Film(r), Person(r)>> : r \in Scooped}
        /\ hold' = [r \in DOMAIN hold \cup burst \cup dates |->
                        IF r \in burst THEN "burst" ELSE IF r \in dates THEN "dates" ELSE hold[r]]
        /\ sweep' = [sweep EXCEPT !.pc = "card", !.todo = survivors \ dates]
        /\ UNCHANGED <<clock, live, added, removed, cards, stories, dropped, swept>>

\* _uncarded_attachments: an attachment is news unless the newest card of its class says so.
Uncarded(rows) == {r \in rows : ~CurrentlyCarded(Film(r), Type(r), Person(r))}

GroupOf(rows, f, type) == {r \in rows : Film(r) = f /\ Type(r) = type}

\* _card_group and its commit: whoever is left to name shares a card dated by the latest
\* of them, unless nobody is left or the catalog has a card of that date.
CardGroup(f, type) ==
    LET group == GroupOf(sweep.todo, f, type)
        kept  == Uncarded(group)
    IN  /\ sweep.pc = "card" /\ group # {}
        /\ \/ \E last \in LatestOf(kept) :
                /\ ~Taken(f, type, last.at)
                /\ cards' = Append(cards, [film |-> f, type |-> type, at |-> last.at,
                                           names |-> {Person(r) : r \in kept}, body |-> kept,
                                           by |-> "catalog", published |-> TRUE])
                /\ dropped' = dropped
           \/ /\ \A last \in LatestOf(kept) : Taken(f, type, last.at)
              /\ cards' = cards
              /\ dropped' = dropped \cup kept
        /\ sweep' = [sweep EXCEPT !.todo = @ \ group]
        /\ UNCHANGED <<clock, live, added, removed, stamp, hold, dated, stories, faults,
                       told, swept>>

\* The group's transaction is lost; the guard may end the phase over it.
GroupFails(f, type) ==
    LET group == GroupOf(sweep.todo, f, type)
    IN  /\ sweep.pc = "card" /\ group # {}
        /\ faults < MaxFaults /\ faults' = faults + 1
        /\ \E rest \in {sweep.todo \ group, {}} :
              sweep' = [sweep EXCEPT !.todo = rest, !.clean = FALSE]
        /\ UNCHANGED <<clock, tables, stories, told, dropped, swept>>

\* load_detachment_backlog.
LoadDetachments ==
    /\ sweep.pc = "card" /\ sweep.todo = {}
    /\ sweep' = [sweep EXCEPT !.pc = "remove", !.gone = {r \in removed : InWindow(r)}]
    /\ UNCHANGED <<clock, tables, stories, faults, told, dropped, swept>>

\* _has_prior_attachment_card.
HadCard(r) == \E i \in AttachCards(Film(r), Type(r)) :
                 Person(r) \in cards[i].names /\ cards[i].at < r.at

\* Mutation: an attachment from before the departure is taken for a return.
CameBackEver(r) == \E u \in added : u.credit = r.credit /\ u.at < r.at + Dwell

\* _has_forward_reattachment.
CameBack(r) == \E u \in added : u.credit = r.credit /\ r.at <= u.at /\ u.at < r.at + Dwell

\* Those whose departure is to be carded.
Departed(group) == {r \in group : HadCard(r) /\ ~CameBack(r)}

\* supersede_prior_attachment_cards: per person, the newest published attachment card
\* of the class before the removal.
Corrected(f, type, at, names) ==
    UNION {Newest({i \in AttachCards(f, type) :
                     p \in cards[i].names /\ cards[i].published /\ cards[i].at < at})
           : p \in names}

\* Mutation: the removal is carded, its original left as it is.
CardsWithRemovalOnly(f, type, at, names) ==
    Append(cards, [film |-> f, type |-> Removal[type], at |-> at, names |-> names,
                   body |-> {}, by |-> "catalog", published |-> TRUE])

\* One transaction: the removal's card and the marks on what it corrects.
CardsWithRemoval(f, type, at, names) ==
    Append([i \in 1..Len(cards) |-> IF i \in Corrected(f, type, at, names)
                                    THEN [cards[i] EXCEPT !.published = FALSE] ELSE cards[i]],
           [film |-> f, type |-> Removal[type], at |-> at, names |-> names,
            body |-> {}, by |-> "catalog", published |-> TRUE])

\* _card_detachment_group: one group per film, class and observation.
CardDetachment(f, type, at) ==
    LET group == {r \in GroupOf(sweep.gone, f, type) : r.at = at}
        names == {Person(r) : r \in Departed(group)}
    IN  /\ sweep.pc = "remove" /\ group # {}
        /\ cards' = IF Taken(f, Removal[type], at) \/ at + Dwell > sweep.at \/ names = {}
                    THEN cards ELSE CardsWithRemoval(f, type, at, names)
        /\ sweep' = [sweep EXCEPT !.gone = @ \ group]
        /\ UNCHANGED <<clock, live, added, removed, stamp, hold, dated, stories, faults,
                       told, dropped, swept>>

DetachmentFails(f, type, at) ==
    LET group == {r \in GroupOf(sweep.gone, f, type) : r.at = at}
    IN  /\ sweep.pc = "remove" /\ group # {}
        /\ faults < MaxFaults /\ faults' = faults + 1
        /\ \E rest \in {sweep.gone \ group, {}} :
              sweep' = [sweep EXCEPT !.gone = rest, !.clean = FALSE]
        /\ UNCHANGED <<clock, tables, stories, told, dropped, swept>>

\* The pass was whole for a credit whose last change it could settle.
Settled(c) ==
    \E r \in added \cup removed :
        /\ r.credit = c
        /\ \A u \in added \cup removed : u.credit = c => u.at <= r.at
        /\ r.at + Quarantine <= sweep.at /\ r.at + Dwell <= sweep.at /\ InWindow(r)

EndSweep ==
    /\ sweep.pc = "remove" /\ sweep.gone = {}
    /\ sweep' = Idle
    /\ swept' = [c \in Credits |-> IF sweep.clean /\ Settled(c) /\ swept[c] < 2
                                   THEN swept[c] + 1 ELSE swept[c]]
    /\ UNCHANGED <<clock, tables, stories, faults, told, dropped>>

\* The process dies; the next pass starts from the tables.
SweepDies ==
    /\ sweep.pc # "idle"
    /\ faults < MaxFaults /\ faults' = faults + 1
    /\ sweep' = Idle
    /\ UNCHANGED <<clock, tables, stories, told, dropped, swept>>

Tick ==
    /\ clock < MaxTime
    /\ clock' = clock + 1
    /\ UNCHANGED <<tables, sweep, stories, faults, told, dropped, swept>>

Next ==
    \/ Tick
    \/ \E f \in Films : \E present \in SUBSET {c \in Credits : FilmOf[c] = f} :
          Observe(f, present)
    \/ \E f \in Films : \E names \in SUBSET {PersonOf[c] : c \in {d \in Credits : FilmOf[d] = f}} :
          \/ StoryCreates(f, names)
          \/ \E i \in 1..Len(cards) : StoryJoins(f, names, i)
    \/ \E f \in Films, i \in 1..Len(cards) : StoryAttaches(f, i)
    \/ \E r \in DOMAIN hold : AdminReleases(r)
    \/ StartSweep \/ Reconcile \/ LoadDetachments \/ EndSweep \/ SweepDies
    \/ \E outage \in BOOLEAN : Judge(outage)
    \/ \E f \in Films, type \in Types : CardGroup(f, type) \/ GroupFails(f, type)
    \/ \E f \in Films, type \in Types, at \in 0..MaxTime :
          CardDetachment(f, type, at) \/ DetachmentFails(f, type, at)

Spec == Init /\ [][Next]_vars
-----------------------------------------------------------------------------
(***************************************************************************)
(* Safety.                                                                 *)
(***************************************************************************)

\* What a sanity check holds is out of the publishing path: while the hold is open no
\* story has published the row and the pass will not card it.
HoldsWithhold == \A r \in added : OpenHold(r) => ~Stamped(r) /\ r \notin sweep.todo

\* A release is final for the observation it names: no later pass opens the hold again,
\* though the person is still dead and the recorded count still a burst.
ReleaseIsFinal ==
    [][\A r \in DOMAIN hold : hold[r] \in {"manual", "cleared"} => hold'[r] = hold[r]]_vars

\* TMDB took the credit back inside the window of its quarantine.
Reverted(r) ==
    \E u \in removed : u.credit = r.credit /\ r.at < u.at /\ u.at < r.at + Quarantine

\* The person's only attachment of its kind to the film.
OnlyOne(r) ==
    \A u \in added : Film(u) = Film(r) /\ Type(u) = Type(r) /\ Person(u) = Person(r) => u = r

\* A person whose only attachment to a film was reverted inside its quarantine is on no
\* card of the film, whatever passes, releases and outages came in between, unless a story
\* named them.
RevertedStaysSilent ==
    \A r \in added :
        Reverted(r) /\ OnlyOne(r) /\ <<Film(r), Person(r)>> \notin told
        => \A i \in AttachCards(Film(r), Type(r)) : Person(r) \notin cards[i].names

\* The gates hold: an open hold keeps its observation out of the publishing path, and an
\* edit that was taken back in time leaves no trace on the feed.
GatesHold == HoldsWithhold /\ RevertedStaysSilent

\* Every name on a card the sweep writes rests on an attachment that has waited, that no
\* check holds and that no story had published when the pass read it (INV-4): the story
\* may only come first while the pass is under way.
NamesAreEarned ==
    [][\A i \in (Len(cards) + 1)..Len(cards') :
         LET k == cards'[i]
         IN  k.by = "catalog" /\ k.type \in Types =>
               \A p \in k.names : \E r \in GroupOf(added, k.film, k.type) :
                  /\ Person(r) = p /\ r.at <= k.at
                  /\ r.at + Quarantine <= sweep.at
                  /\ ~OpenHold(r)
                  /\ Stamped(r) => r \in sweep.scooped]_vars

\* A removal is never on the feed with its original still published: the newest of the
\* cards that attached the person before it, and were there when it was written, is
\* superseded; and nothing but such a removal supersedes.  Left out: a person of the crew
\* whom a casting story names joins the card of another that is older than the removal.
Corrects(k, type, p) ==
    \E i \in Newest({j \in AttachCards(cards[k].film, type) :
                       j < k /\ p \in cards[j].names /\ cards[j].at < cards[k].at}) :
       ~cards[i].published

CorrectionsMatch ==
    /\ \A k \in 1..Len(cards), type \in Types : cards[k].type = Removal[type] =>
          \A p \in cards[k].names :
             \/ Corrects(k, type, p)
             \/ type = "crew_attached" /\ <<cards[k].film, p>> \in told
    /\ \A i \in 1..Len(cards) : ~cards[i].published =>
          /\ cards[i].type \in Types
          /\ \E k \in AttachCards(cards[i].film, Removal[cards[i].type]) :
                cards[i].at < cards[k].at /\ cards[i].names \cap cards[k].names # {}

\* Whom other rules decide about: a person a story published, a credit a check has held, a
\* person with another credit of the kind on the film.
Elsewhere(c) ==
    \/ <<FilmOf[c], PersonOf[c]>> \in told
    \/ \E r \in DOMAIN hold : r.credit = c
    \/ \E d \in Credits \ {c} : /\ FilmOf[d] = FilmOf[c] /\ TypeOf[d] = TypeOf[c]
                                /\ PersonOf[d] = PersonOf[c]

\* The credit's last arrival was in a group whose date a card of the catalog's had.
DateTaken(c) == \E r \in LatestOf({u \in added : u.credit = c}) : r \in dropped

\* The latest card for a person reflects their current attachment state
\* (credit_events.py:925), two whole passes after the credit's last change settled, unless
\* its date was taken.
LatestCardIsCurrent ==
    \A c \in Credits : swept[c] = 2 /\ ~Elsewhere(c) =>
        LET carded == CurrentlyCarded(FilmOf[c], TypeOf[c], PersonOf[c])
        IN  /\ c \in live /\ ~DateTaken(c) => carded
            /\ c \notin live => ~carded
-----------------------------------------------------------------------------
(***************************************************************************)
(* What the code says of itself and does not do.                           *)
(***************************************************************************)

\* "An edit reverted inside the window ... must publish nothing at all"
\* (credit_events.py:431): no card of the catalog's is dated by it.
RevertedPublishesNothing ==
    \A r \in added :
        Reverted(r) /\ <<Film(r), Person(r)>> \notin told =>
          \A i \in AttachCards(Film(r), Type(r)) :
             ~(Person(r) \in cards[i].names /\ cards[i].at = r.at)

\* A body that reads "X and X join the crew" is what the dedupe of group_attachments stops
\* (credit_events.py:305): the text of a card lists a person once in a role.
ListedOnce ==
    \A i \in 1..Len(cards) : \A r, u \in cards[i].body : r.credit = u.credit => r = u

\* "Invariant: the latest card for a person reflects their current attachment state"
\* (credit_events.py:925): also when the date was taken.
LatestCardIsTrue ==
    \A c \in Credits : swept[c] = 2 /\ ~Elsewhere(c) =>
        (c \in live <=> CurrentlyCarded(FilmOf[c], TypeOf[c], PersonOf[c]))

\* "A hold that turns out to be real ... still publishes once the condition clears or an
\* admin releases it" (credit_events.py:51): after two whole passes over it.
ReleasedHoldPublishes ==
    \A r \in DOMAIN hold :
        /\ Immune(r) /\ r.credit \in live /\ swept[r.credit] = 2 /\ OnlyOne(r)
        /\ <<Film(r), Person(r)>> \notin told
        => CurrentlyCarded(Film(r), Type(r), Person(r))
=============================================================================
