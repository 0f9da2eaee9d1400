---------------------------- MODULE Organisations ----------------------------
(***************************************************************************)
(* How a studio or a franchise that joins or leaves a film becomes a card  *)
(* (ingest/sweep/company_events.py, collection_events.py and               *)
(* confirm_events.py, ingest/tmdb/company_history.py and                   *)
(* collection_history.py, the organisation half of                         *)
(* news/attachment_confirm.py, news/supersede.py).                         *)
(*                                                                         *)
(* An observation of TMDB appends what changed to the history, in both     *)
(* directions.  Every pass of the sweep reads the last days of it again:   *)
(* it stamps the changes a trade story has told, cards the others once     *)
(* they have outlived the quarantine and TMDB still agrees, and confirms   *)
(* the rumors TMDB has caught up with.  The link run forms story cards and *)
(* resolves, later, the organisations its stories name.                    *)
(*                                                                         *)
(* One tick of the clock is one day of observation, the bucket of the      *)
(* burst check; everything one observation finds shares its changed_at.    *)
(***************************************************************************)
EXTENDS Naturals, Sequences, FiniteSets

CONSTANTS
    Films, Companies, Collections,
    Quarantine,   \* SWEEP_CREDIT_QUARANTINE_HOURS, in days
    Lookback,     \* SWEEP_EVENT_LOOKBACK_DAYS
    Window,       \* SWEEP_STORY_CONFIRM_DAYS
    Burst,        \* SWEEP_COMPANY_SANITY_MAX_FILMS_PER_DAY
    MaxTime, MaxRows, MaxStories, MaxFaults     \* bounds

Entities == Companies \cup Collections
Dirs     == {"added", "removed"}

\* The two phases, each with its card types: <<kind, direction>>.
Kinds     == {"company", "collection"}
KindOf(e) == IF e \in Companies THEN "company" ELSE "collection"

\* validate_sweep_configuration: a pass fits between the end of the quarantine and the end of
\* the lookback.
SweepConfiguration == Quarantine + 2 <= Lookback

\* The gates are on (0 turns one off, which is not modelled).
ASSUME OrganisationsAssumption ==
    /\ IsFiniteSet(Films) /\ Companies \cap Collections = {}
    /\ Quarantine \in Nat \ {0} /\ Burst \in Nat \ {0} /\ Window \in Nat \ {0}
    /\ Lookback \in Nat /\ SweepConfiguration
    /\ MaxTime \in Nat /\ MaxRows \in Nat /\ MaxStories \in Nat /\ MaxFaults \in Nat

VARIABLES
    clock,      \* the day
    known,      \* the films of the catalog (companies_observed_at is set)
    live,       \* film_production_company and film.collection_id: <<film, entity>> pairs
    rows,       \* film_company_change, and film_field_change by direction
    stamp,      \* carded_by_event_id of the rows that have one
    cards,      \* the organisation cards of news.event, in the order of their creation
    sweep,      \* the pass in progress
    stories,    \* stories clustered so far
    faults      \* failures met so far

tables == <<known, live, rows, stamp, cards>>
vars   == <<clock, tables, sweep, stories, faults>>

\* `move`: one of the two directions of one collection_id row that has both.
Rows == [film : Films, ent : Entities, dir : Dirs, at : 0..MaxTime, move : BOOLEAN]

\* `names` are the subject tokens, which only the catalog's cards carry; `mentions` the
\* organisations resolved in the card's stories, under the card's own event type.
Card == [film : Films, kind : Kinds, dir : Dirs, at : 0..MaxTime, by : {"story", "catalog"},
         names : SUBSET Entities, mentions : SUBSET Entities,
         confirmed : BOOLEAN, published : BOOLEAN]

\* The locals of a pass: `at` is its now, `kind` the phase, `todo` the changes that may card,
\* `undone` those among them that undo an earlier change of the window, `clean` whether
\* nothing has failed.
Idle == [pc |-> "idle", at |-> 0, kind |-> "company", todo |-> {}, undone |-> {},
         clean |-> TRUE]

TypeOK ==
    /\ clock \in 0..MaxTime /\ known \subseteq Films
    /\ live \subseteq known \X Entities
    /\ \A f \in Films : Cardinality({c \in Collections : <<f, c>> \in live}) <= 1
    /\ rows \subseteq Rows
    /\ DOMAIN stamp \subseteq rows /\ \A r \in DOMAIN stamp : stamp[r] \in 1..Len(cards)
    /\ cards \in Seq(Card)
    /\ sweep \in [pc : {"idle", "stamp", "read", "card", "confirm"}, at : 0..MaxTime,
                  kind : Kinds, todo : SUBSET rows, undone : SUBSET rows, clean : BOOLEAN]
    /\ stories \in 0..MaxStories /\ faults \in 0..MaxFaults

Held(f) == {e \in Entities : <<f, e>> \in live}

\* What one film may hold: any number of studios, one franchise.
Holdings == {S \in SUBSET Entities : Cardinality(S \cap Collections) <= 1}

\* The films of the first day are a baseline: what they hold, and no row.
Init ==
    /\ clock = 0
    /\ known \in SUBSET Films
    /\ \E held \in [known -> Holdings] : live = {p \in known \X Entities : p[2] \in held[p[1]]}
    /\ rows = {} /\ stamp = <<>> /\ cards = <<>>
    /\ sweep = Idle /\ stories = 0 /\ faults = 0
-----------------------------------------------------------------------------
(***************************************************************************)
(* An observation of TMDB, by the sweep's refresh or by a tmdb pass.       *)
(***************************************************************************)

Record(new) == /\ Cardinality(rows) + Cardinality(new) <= MaxRows
               /\ rows' = rows \cup new

\* admission_company_attachments: what somebody follows is an arrival.
Admitted(f, present, followed) ==
    {[film |-> f, ent |-> e, dir |-> "added", at |-> clock, move |-> FALSE] :
       e \in present \cap followed}

\* The first observation is a baseline, except for the followed on a film that has yet to open
\* (record_collection_admission has the same rule for the franchise).
Admit(f, present, followed, unreleased) ==
    /\ f \notin known
    /\ known' = known \cup {f}
    /\ live' = live \cup ({f} \X present)
    /\ Record(IF unreleased THEN Admitted(f, present, followed) ELSE {})
    /\ UNCHANGED <<clock, stamp, cards, sweep, stories, faults>>

\* diff_companies, over set membership.
Arrived(f, present) == present \ Held(f)
Left(f, present)    == Held(f) \ present

\* collection_field_events on the row of the trigger: a franchise that takes the place of
\* another is one row with both directions.
Moves(f, present, e) ==
    /\ e \in Collections
    /\ Arrived(f, present) \cap Collections # {} /\ Left(f, present) \cap Collections # {}

Difference(f, present) ==
    LET Row(e, dir) == [film |-> f, ent |-> e, dir |-> dir, at |-> clock,
                        move |-> Moves(f, present, e)]
    IN  {Row(e, "added") : e \in Arrived(f, present)}
          \cup {Row(e, "removed") : e \in Left(f, present)}

\* upsert_film.  One observation that changes something per film and day.
Observe(f, present) ==
    /\ f \in known /\ present # Held(f)
    /\ \A r \in rows : r.film = f => r.at # clock
    /\ Record(Difference(f, present))
    /\ live' = (live \ ({f} \X Entities)) \cup ({f} \X present)
    /\ UNCHANGED <<clock, known, stamp, cards, sweep, stories, faults>>

Tick == clock < MaxTime /\ clock' = clock + 1 /\ UNCHANGED <<tables, sweep, stories, faults>>
-----------------------------------------------------------------------------
(***************************************************************************)
(* Which card names an organisation, and what a departure corrects.        *)
(***************************************************************************)

\* order_by(occurred_at desc, created_at desc): i comes no later than j.
NoOlder(i, j) == cards[i].at > cards[j].at \/ (cards[i].at = cards[j].at /\ i >= j)
Newest(I)     == {i \in I : \A j \in I : NoOlder(i, j)}

\* Mutant: only a card about this organisation alone names it.
NamesAlone(i, e) == cards[i].names = {e} \/ e \in cards[i].mentions

\* _names_entity: by its token, or by a resolved mention in one of its stories.
Names(i, e) == e \in cards[i].names \/ e \in cards[i].mentions

\* The published arrival cards before `at` that name e.
Arrivals(f, e, at) ==
    {i \in DOMAIN cards :
       /\ cards[i].film = f /\ cards[i].kind = KindOf(e) /\ cards[i].dir = "added"
       /\ Names(i, e) /\ cards[i].published /\ cards[i].at < at}

\* supersede_prior_entity_cards: the newest of them.
Corrected(f, e, at) == Newest(Arrivals(f, e, at))

Superseded(I) == [i \in DOMAIN cards |->
                    IF i \in I THEN [cards[i] EXCEPT !.published = FALSE] ELSE cards[i]]
-----------------------------------------------------------------------------
(***************************************************************************)
(* The link run.                                                           *)
(***************************************************************************)

\* A story about an organisation forms a card of its own, which names nobody yet.
Cluster(f, kind, dir, confirmed) ==
    /\ stories < MaxStories /\ stories' = stories + 1
    /\ f \in known
    /\ cards' = Append(cards, [film |-> f, kind |-> kind, dir |-> dir, at |-> clock,
                               by |-> "story", names |-> {}, mentions |-> {},
                               confirmed |-> confirmed, published |-> TRUE])
    /\ UNCHANGED <<clock, known, live, rows, stamp, sweep, faults>>

\* _resolve_mention: the mention gets its id; if its story is on a confirmed departure card,
\* the arrival that card contradicts is superseded at once, a rumor corrects nothing.
Resolve(i, e) ==
    /\ i \in DOMAIN cards /\ cards[i].by = "story" /\ cards[i].kind = KindOf(e)
    /\ e \notin cards[i].mentions
    /\ LET c == cards[i]
           corrected == IF c.dir = "removed" /\ c.confirmed /\ c.published
                        THEN Corrected(c.film, e, c.at) ELSE {}
       IN  cards' = [Superseded(corrected) EXCEPT ![i].mentions = @ \cup {e}]
    /\ UNCHANGED <<clock, known, live, rows, stamp, sweep, stories, faults>>
-----------------------------------------------------------------------------
(***************************************************************************)
(* A pass of the sweep: for the studios, then for the franchises, stamp,   *)
(* read, and card one group at a time; then confirm.                       *)
(***************************************************************************)

Start ==
    /\ sweep.pc = "idle"
    /\ sweep' = [Idle EXCEPT !.pc = "stamp", !.at = clock]
    /\ UNCHANGED <<clock, tables, stories, faults>>

InWindow(r) == r.at + Lookback >= sweep.at
Phase       == {r \in rows : KindOf(r.ent) = sweep.kind}

\* _resolved_organisation_cards: the published story cards of the change's own type that a
\* resolved mention ties to it, no older than the window before the change.
Telling(r) ==
    {i \in DOMAIN cards :
       /\ cards[i].by = "story" /\ cards[i].published
       /\ cards[i].film = r.film /\ cards[i].dir = r.dir /\ r.ent \in cards[i].mentions
       /\ cards[i].at + Window >= r.at}

\* Oldest first, the scoop; of two of one instant either.
Scoops(r) == {i \in Telling(r) : \A j \in Telling(r) : cards[i].at <= cards[j].at}

\* _pending_organisation_changes: half of a move is never stamped.
Pending == {r \in Phase : InWindow(r) /\ r \notin DOMAIN stamp /\ ~ r.move}

\* _stamp_prior_organisation_cards.
Stamp ==
    /\ sweep.pc = "stamp"
    /\ LET told == {r \in Pending : Telling(r) # {}}
       IN  \E by \in [told -> DOMAIN cards] :
             /\ \A r \in told : by[r] \in Scoops(r)
             /\ stamp' = [r \in DOMAIN stamp \cup told |->
                            IF r \in told THEN by[r] ELSE stamp[r]]
    /\ sweep' = [sweep EXCEPT !.pc = "read"]
    /\ UNCHANGED <<clock, known, live, rows, cards, stories, faults>>

\* Mutant: the loader does not know of the stamps.
WholeBacklog == {r \in Phase : InWindow(r)}

\* load_company_backlog and load_collection_backlog: what the window holds and no story told.
Backlog == {r \in Phase : InWindow(r) /\ r \notin DOMAIN stamp}

Follows(r, u) == u.film = r.film /\ u.ent = r.ent /\ u.dir # r.dir /\ u.at < r.at

\* mark_window_attachments: a departure after an arrival of the window.
AttachedInWindow(r) == r.dir = "removed" /\ \E u \in Backlog : Follows(r, u)

\* mark_window_reverts: either direction after the other.
RevertedInWindow(r) == \E u \in Backlog : Follows(r, u)

Undoes(r) == IF sweep.kind = "company" THEN AttachedInWindow(r) ELSE RevertedInWindow(r)

\* TMDB still says what the change says.
Agrees(r) == (<<r.film, r.ent>> \in live) = (r.dir = "added")

\* quarantine_company_changes, quarantine_collection_changes.
Outlived(r) == r.at + Quarantine <= sweep.at /\ Agrees(r)

\* _burst_days, on the arrivals of a studio that TMDB still backs.
InBurst(r) ==
    /\ sweep.kind = "company" /\ r.dir = "added"
    /\ Cardinality({f \in Films : /\ <<f, r.ent>> \in live
                                  /\ \E u \in rows : /\ u.film = f /\ u.ent = r.ent
                                                     /\ u.dir = "added" /\ u.at = r.at})
         >= Burst

\* sanity_holds on the survivors of the quarantine: arrivals only.
Eligible == {r \in Backlog : Outlived(r) /\ ~ InBurst(r)}

\* One session: the loader and both gates.
Read ==
    /\ sweep.pc = "read"
    /\ sweep' = [sweep EXCEPT !.pc = "card", !.todo = Eligible,
                              !.undone = {r \in Eligible : Undoes(r)}]
    /\ UNCHANGED <<clock, tables, stories, faults>>

Group(f, dir) == {r \in sweep.todo : r.film = f /\ r.dir = dir}

\* _latest_company_event_types: the cards that name e by its token and were dated last.
LastTold(f, e) == Newest({i \in DOMAIN cards : cards[i].film = f /\ e \in cards[i].names})

\* The reader was last told what the change would say.
SaidAlready(r) == \E i \in LastTold(r.film, r.ent) : cards[i].dir = r.dir

\* Mutant: a change that undoes another of the window is dropped, whatever was told.
NeverUndone(r) == r \in sweep.undone

\* It undoes what the reader was never told.
NobodyKnew(r) == r \in sweep.undone /\ LastTold(r.film, r.ent) = {}

\* _uncarded_changes.
Uncarded(f, dir) == {r \in Group(f, dir) : ~ SaidAlready(r) /\ ~ NobodyKnew(r)}

LatestOf(S) == {r \in S : \A u \in S : u.at <= r.at}

\* CompanyGroup.changed_at over the changes the card will name.
Dated(f, dir) == (CHOOSE r \in LatestOf(Uncarded(f, dir)) : TRUE).at

\* _already_carded, and the unique index under it.
Taken(f, kind, dir, at) ==
    \E i \in DOMAIN cards : /\ cards[i].film = f /\ cards[i].kind = kind /\ cards[i].dir = dir
                            /\ cards[i].at = at /\ cards[i].by = "catalog"

\* A rumor: a studio or a franchise is a claim any editor of TMDB can make.
CatalogCard(f, dir, at, names) ==
    [film |-> f, kind |-> sweep.kind, dir |-> dir, at |-> at, by |-> "catalog",
     names |-> names, mentions |-> {}, confirmed |-> FALSE, published |-> TRUE]

\* _card_group: one card per film and direction, with what a departure supersedes.
CardGroup(f, dir) ==
    /\ sweep.pc = "card" /\ Group(f, dir) # {}
    /\ LET kept  == Uncarded(f, dir)
           at    == Dated(f, dir)
           names == {r.ent : r \in kept}
           corrected == IF dir = "removed"
                        THEN UNION {Corrected(f, e, at) : e \in names} ELSE {}
       IN  IF kept = {} \/ Taken(f, sweep.kind, dir, at)
           THEN UNCHANGED cards
           ELSE cards' = Append(Superseded(corrected), CatalogCard(f, dir, at, names))
    /\ sweep' = [sweep EXCEPT !.todo = @ \ Group(f, dir), !.undone = @ \ Group(f, dir)]
    /\ UNCHANGED <<clock, known, live, rows, stamp, stories, faults>>

\* The group's transaction fails and the pass goes on.
CardFails(f, dir) ==
    /\ sweep.pc = "card" /\ Group(f, dir) # {}
    /\ faults < MaxFaults /\ faults' = faults + 1
    /\ sweep' = [sweep EXCEPT !.todo = @ \ Group(f, dir), !.undone = @ \ Group(f, dir),
                              !.clean = FALSE]
    /\ UNCHANGED <<clock, tables, stories>>

\* run_sweep_stage: the franchises after the studios, the confirmation after both.
NextPhase ==
    /\ sweep.pc = "card" /\ sweep.todo = {}
    /\ sweep' = IF sweep.kind = "company"
                THEN [sweep EXCEPT !.pc = "stamp", !.kind = "collection"]
                ELSE [sweep EXCEPT !.pc = "confirm"]
    /\ UNCHANGED <<clock, tables, stories, faults>>

\* _aged_candidates that TMDB agrees with.
Candidates ==
    {r \in DOMAIN stamp :
       LET c == cards[stamp[r]]
       IN  /\ r.at + Quarantine <= sweep.at
           /\ c.by = "story" /\ ~ c.confirmed /\ c.published
           /\ Agrees(r)}

\* The arrivals a confirmed departure of r.ent may correct.
Contradicted(r) == IF r.dir = "removed"
                   THEN Arrivals(r.film, r.ent, cards[stamp[r]].at) ELSE {}

\* The orders the candidates may come in.
Turns == {turn \in [Candidates -> 1..Cardinality(Candidates)] :
            \A r, u \in Candidates : turn[r] = turn[u] => r = u}

\* confirm_stamped_cards: every candidate's card is a fact, and what a departure supersedes
\* is gone.
Confirmed(gone) ==
    [i \in DOMAIN cards |->
       [Superseded(gone)[i] EXCEPT !.confirmed = @ \/ \E r \in Candidates : i = stamp[r]]]

\* One departure after the other supersedes the newest arrival it finds still published.
Confirm ==
    /\ sweep.pc = "confirm"
    /\ \E turn \in Turns :
         LET hit[r \in Candidates] ==
               Newest({i \in Contradicted(r) :
                         \A u \in Candidates : turn[u] < turn[r] => i \notin hit[u]})
         IN  cards' = Confirmed(UNION {hit[r] : r \in Candidates})
    /\ sweep' = Idle
    /\ UNCHANGED <<clock, known, live, rows, stamp, stories, faults>>

\* The process dies: the pass is over, and the next one reads the window again.
SweepDies ==
    /\ sweep.pc # "idle" /\ faults < MaxFaults /\ faults' = faults + 1
    /\ sweep' = Idle
    /\ UNCHANGED <<clock, tables, stories>>
-----------------------------------------------------------------------------
Next ==
    \/ Tick
    \/ \E f \in Films, present \in Holdings :
         \/ Observe(f, present)
         \/ \E followed \in SUBSET present, unreleased \in BOOLEAN :
              Admit(f, present, followed, unreleased)
    \/ \E f \in Films, kind \in Kinds, dir \in Dirs, confirmed \in BOOLEAN :
         Cluster(f, kind, dir, confirmed)
    \/ \E i \in DOMAIN cards, e \in Entities : Resolve(i, e)
    \/ Start \/ Stamp \/ Read
    \/ \E f \in Films, dir \in Dirs : CardGroup(f, dir) \/ CardFails(f, dir)
    \/ NextPhase \/ Confirm \/ SweepDies

Spec == Init /\ [][Next]_vars
-----------------------------------------------------------------------------
(***************************************************************************)
(* Properties.                                                             *)
(***************************************************************************)

LastChange(f, e) == LatestOf({r \in rows : r.film = f /\ r.ent = e})

\* What a pass that met no failure owes the readers: the last change, once it outlived the
\* quarantine, that no story told and no burst withheld (_burst_days), or did until TMDB moved
\* during the pass.
Withheld(r) ==
    /\ r.dir = "added" /\ r.ent \in Companies
    /\ \/ Cardinality({g \in Films : <<g, r.ent>> \in live}) >= Burst
       \/ \E u \in rows : u.ent = r.ent /\ u.at >= sweep.at

Due(r) == /\ r \notin DOMAIN stamp /\ InWindow(r) /\ r.at + Quarantine <= sweep.at
          /\ ~ Withheld(r)

\* The newest card that names the organisation says it, or it only undid what nobody was told
\* (_uncarded_changes).
Told(r) == \/ SaidAlready(r)
           \/ /\ LastTold(r.film, r.ent) = {}
              /\ \E u \in rows : Follows(r, u)

\* A card of the film without it had taken the date its own would have (_already_carded).
DateTaken(r) ==
    \E i \in DOMAIN cards :
      /\ cards[i].by = "catalog" /\ cards[i].film = r.film /\ cards[i].kind = KindOf(r.ent)
      /\ cards[i].dir = r.dir /\ cards[i].at >= r.at /\ r.ent \notin cards[i].names

\* The latest card of an organisation says where it stands: every pass that met no failure has
\* told what it owed, unless the date was taken.
EveryChangeIsTold ==
    sweep.pc = "confirm" /\ sweep.clean =>
      \A f \in Films, e \in Entities : \A r \in LastChange(f, e) :
        Due(r) => Told(r) \/ DateTaken(r)

\* A burst TMDB has reverted below the threshold cards its survivors on the next pass by
\* itself (the docstring of company_events.py).  It does not when the film's card of that
\* observation exists: _already_carded compares the film, the type and the date.
SurvivorsAreCarded ==
    sweep.pc = "confirm" /\ sweep.clean =>
      \A f \in Films, e \in Entities : \A r \in LastChange(f, e) : Due(r) => Told(r)

\* A departure never reaches the feed with its original still published (_card_group,
\* supersede_prior_entity_cards): an arrival card of the catalog that came before a departure
\* card naming one of its organisations is superseded, unless a later arrival card took its
\* place in the correction.
DeparturesCorrect == TypeOK /\
    \A i, j \in DOMAIN cards :
      (/\ i < j /\ cards[i].by = "catalog" /\ cards[j].by = "catalog"
       /\ cards[i].film = cards[j].film /\ cards[i].dir = "added" /\ cards[j].dir = "removed"
       /\ cards[i].at < cards[j].at /\ cards[i].names \cap cards[j].names # {}
       /\ cards[i].published)
      => \A e \in cards[i].names \cap cards[j].names :
           \E k \in DOMAIN cards : /\ cards[k].film = cards[i].film /\ cards[k].dir = "added"
                                   /\ e \in cards[k].names \cup cards[k].mentions
                                   /\ cards[i].at <= cards[k].at /\ cards[k].at < cards[j].at
                                   /\ ~ cards[k].published

\* The change a story published is retired (carded_by_event_id): whoever a new catalog card
\* names has, in that direction, a change no story had told, older than the quarantine.
CardsTellTheUntold ==
    [][Len(cards') > Len(cards) /\ cards'[Len(cards')].by = "catalog" =>
         LET c == cards'[Len(cards')]
         IN  \A e \in c.names :
               \E r \in rows : /\ r.film = c.film /\ r.ent = e /\ r.dir = c.dir
                               /\ r.at <= c.at /\ r.at + Quarantine <= clock
                               /\ r \notin DOMAIN stamp]_vars

\* A round trip inside the quarantine publishes nothing, in either direction
\* (mark_window_attachments, mark_window_reverts): an organisation whose whole history on a
\* film is an arrival and a departure that followed within the quarantine is on no card.
RoundTripIsSilent ==
    \A f \in Films, e \in Entities :
      LET history == {r \in rows : r.film = f /\ r.ent = e}
      IN  (/\ Cardinality(history) = 2
           /\ \E a, b \in history : /\ a.dir = "added" /\ b.dir = "removed" /\ a.at < b.at
                                    /\ b.at - a.at < Quarantine)
          => \A i \in DOMAIN cards : cards[i].film = f => e \notin cards[i].names
=============================================================================
