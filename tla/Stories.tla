------------------------------ MODULE Stories ------------------------------
(***************************************************************************)
(* How trade stories become cards of one film: the link stage judges them, *)
(* the source gate drops them, the cluster stage groups them into events   *)
(* (link/), the synthesize stage writes their text (synthesize/), and the  *)
(* moderator, the blocked-source cleanup and the sweep work on the same    *)
(* rows meanwhile.                                                         *)
(*                                                                         *)
(* Every stage reads what it will work on, waits for a model, and writes   *)
(* in a later transaction.  A run's locals are kept in `pass` and `synth`. *)
(* Days stand for all timestamps; titles, prompts, confidence, notes no    *)
(* rule reads and counters are left out, and a story linked to another     *)
(* film is a story rejected for this one.                                  *)
(***************************************************************************)
EXTENDS Naturals, Sequences, FiniteSets, SequencesExt

CONSTANTS
    Stories,     \* stories the feeds may bring
    Events,      \* numbers of events the film may come to have, never used twice
    NoEvent,     \* event_story has no row for the story
    Names,       \* performers, as normalized names
    Runners,     \* processes that run the link stage (the scheduler, the API)
    Beats,       \* the event types an answer or a change may be of
    AttachLimit, \* attach_limit
    Window,      \* release_change_window_days
    DedupDays,   \* dedup_days
    Recency,     \* recency_days
    MaxGroups,   \* bound: groups in one answer
    MaxDay       \* bound: days

ASSUME StoriesAssumption ==
    /\ Events \subseteq Nat /\ NoEvent \notin Events
    /\ AttachLimit \in Nat /\ Window \in Nat /\ DedupDays \in Nat /\ Recency \in Nat
    /\ MaxGroups \in Nat /\ MaxDay \in Nat \ {0}

VARIABLES
    day,      \* the present day
    wrapped,  \* film.status is Post Production or Released, or the date is past
    moves,    \* the days film_field_change holds a release-date change of
    uncarded, \* performers whose added credit no card has published
    blocked,  \* stories whose domain's effective tier is blocked
    story,    \* news.story: link_status, link_note where a rule reads it, day
    of,       \* news.event_story, whose story_id is unique
    event,    \* news.event
    text,     \* news.event_summary
    pass,     \* the link run of each process
    synth,    \* the synthesize run: what it selected and has still to write
    named     \* history: the shown event the model put a clustered story on

tmdbVars == <<wrapped, moves, uncarded>>
newsVars == <<story, of, event, text>>
storiesVars == <<day, tmdbVars, blocked, newsVars, pass, synth, named>>

Days     == 0..MaxDay
Singular == {"trailer", "first_look"}
Once     == {"production_start", "production_wrap", "canceled"}
Stale    == {"announced", "casting", "production_start", "production_wrap"}
Hidden   == {"other"}

NoText  == [by |-> "none", edited |-> FALSE, from |-> {}]
NoEvt   == [at |-> "absent", beat |-> "none", by |-> "none", day |-> 0, names |-> {}, move |-> 0]
Resting == [at |-> "idle", todo |-> {}, shown |-> <<>>, plan |-> {}]

Live      == {e \in Events : event[e].at = "live"}
Sources(e) == {s \in Stories : of[s] = e}
Unclustered == {s \in Stories : story[s].status = "linked" /\ of[s] = NoEvent}

\* What the cluster model may say of a group of stories: that it belongs to one of
\* the events shown, or that it is a new beat, with the performers of a casting and
\* the date a release-date story claims.
Joining(stories, n) ==
    [stories : SUBSET stories \ {{}}, existing : 1..n, beat : {"none"}, names : {{}}, claims : {"none"}]
NewBeat(stories, beats, names, claims) ==
    [stories : SUBSET stories \ {{}}, existing : {0}, beat : beats, names : names, claims : claims]
Groups(stories, n) ==
    Joining(stories, n)
    \cup NewBeat(stories, {"casting"} \cap Beats, SUBSET Names, {"none"})
    \cup NewBeat(stories, {"release_date"} \cap Beats, {{}}, {"none", "other"})
    \cup NewBeat(stories, (Beats \ {"casting", "release_date"}) \cup {"off_topic", "none"}, {{}}, {"none"})

StoriesTypeOK ==
    /\ day \in Days /\ wrapped \in BOOLEAN
    /\ moves \subseteq Days /\ uncarded \subseteq Names /\ blocked \subseteq Stories
    /\ story \in [Stories -> [status : {"absent", "pending", "linked", "rejected"},
                              manual : BOOLEAN, day : Days]]
    /\ of \in [Stories -> Events \cup {NoEvent}]
    /\ event \in [Events -> [at : {"absent", "live", "deleted"}, beat : Beats \cup {"none"},
                             by : {"none", "story", "catalog"}, day : Days,
                             names : SUBSET Names, move : Days]]
    /\ text \in [Events -> [by : {"none", "template", "model"}, edited : BOOLEAN,
                            from : SUBSET Stories]]
    /\ pass \in [Runners -> [at : {"idle", "linking", "clustering", "asked"}, todo : SUBSET Stories,
                             shown : Seq(Events), plan : SUBSET Stories]]
    /\ synth \subseteq [event : Events, from : SUBSET Stories]
    /\ named \in [Stories -> Events \cup {NoEvent}]

StoriesInit ==
    /\ day = 1 /\ wrapped = FALSE /\ moves = {} /\ uncarded = {} /\ blocked = {}
    /\ story = [s \in Stories |-> [status |-> "absent", manual |-> FALSE, day |-> 0]]
    /\ of = [s \in Stories |-> NoEvent]
    /\ event = [e \in Events |-> NoEvt]
    /\ text = [e \in Events |-> NoText]
    /\ pass = [r \in Runners |-> Resting]
    /\ synth = {}
    /\ named = [s \in Stories |-> NoEvent]
-----------------------------------------------------------------------------
(***************************************************************************)
(* The world.                                                              *)
(***************************************************************************)
NextDay ==
    /\ day < MaxDay
    /\ day' = day + 1
    /\ UNCHANGED <<tmdbVars, blocked, newsVars, pass, synth, named>>

Wrap ==
    /\ ~ wrapped
    /\ wrapped' = TRUE
    /\ UNCHANGED <<day, moves, uncarded, blocked, newsVars, pass, synth, named>>

\* An administrator blocks the domain of a story, or lets it through again.
SetBlocked(s) ==
    /\ blocked' = IF s \in blocked THEN blocked \ {s} ELSE blocked \cup {s}
    /\ UNCHANGED <<day, tmdbVars, newsVars, pass, synth, named>>

Fetch(s) ==
    /\ story[s].status = "absent"
    /\ story' = [story EXCEPT ![s].status = "pending", ![s].day = day]
    /\ UNCHANGED <<day, tmdbVars, blocked, of, event, text, pass, synth, named>>
-----------------------------------------------------------------------------
(***************************************************************************)
(* The link stage.                                                         *)
(***************************************************************************)
Rejected(s)   == [story[s] EXCEPT !.status = "rejected", !.manual = FALSE]
RejectedBy(s) == [story[s] EXCEPT !.status = "rejected", !.manual = TRUE]

\* Mutant: the run picks up what was rejected as well.
ReadUndecided == {s \in Stories : story[s].status \in {"pending", "rejected"}}

\* The stories a run will work on: read once, never checked again.
ReadPending == {s \in Stories : story[s].status = "pending" /\ story[s].day + Recency >= day}

StartLink(r) ==
    /\ pass[r].at = "idle"
    /\ pass' = [pass EXCEPT ![r].at = "linking", ![r].todo = ReadPending]
    /\ UNCHANGED <<day, tmdbVars, blocked, newsVars, synth, named>>

\* Retrieval finds no film for the story: rejected before any model is asked.
RejectUnmatched(r, s) ==
    /\ pass[r].at = "linking" /\ s \in pass[r].todo
    /\ pass' = [pass EXCEPT ![r].todo = @ \ {s}]
    /\ story' = [story EXCEPT ![s] = Rejected(s)]
    /\ UNCHANGED <<day, tmdbVars, blocked, of, event, text, synth, named>>

\* The classifier answers, or says nothing of the story.  Above the floor, about a
\* film of the story's own list: linked.  Anything else: rejected.
Judge(r, s) ==
    /\ pass[r].at = "linking" /\ s \in pass[r].todo
    /\ pass' = [pass EXCEPT ![r].todo = @ \ {s}]
    /\ \/ story' = [story EXCEPT ![s].status = "linked", ![s].manual = FALSE]
       \/ story' = [story EXCEPT ![s] = Rejected(s)]
    /\ UNCHANGED <<day, tmdbVars, blocked, of, event, text, synth, named>>

\* The call fails or its answer is unusable: the story stays as it is.
JudgeFails(r, s) ==
    /\ pass[r].at = "linking" /\ s \in pass[r].todo
    /\ pass' = [pass EXCEPT ![r].todo = @ \ {s}]
    /\ UNCHANGED <<day, tmdbVars, blocked, newsVars, synth, named>>

\* The source gate: whatever is linked, in no event and of a blocked domain goes.
GateSources(r) ==
    /\ pass[r].at = "linking" /\ pass[r].todo = {}
    /\ pass' = [pass EXCEPT ![r].at = "clustering"]
    /\ story' = [s \in Stories |-> IF s \in Unclustered \cap blocked THEN Rejected(s) ELSE story[s]]
    /\ UNCHANGED <<day, tmdbVars, blocked, of, event, text, synth, named>>
-----------------------------------------------------------------------------
(***************************************************************************)
(* The cluster stage: the plan, the question, and the transaction that     *)
(* applies the answer.                                                     *)
(***************************************************************************)

\* The latest AttachLimit events by occurred_at, oldest first, by number.
Recent(es) ==
    \/ es = <<>> /\ Live = {}
    \/ /\ Len(es) = IF Cardinality(Live) < AttachLimit THEN Cardinality(Live) ELSE AttachLimit
       /\ Range(es) \subseteq Live
       /\ \A i, j \in DOMAIN es : i < j => es[i] # es[j] /\ event[es[i]].day <= event[es[j]].day
       /\ \A e \in Live \ Range(es), i \in DOMAIN es : event[e].day <= event[es[i]].day

ClusterPlan == Unclustered

\* build_cluster_request, and the model is asked.
AskCluster(r) ==
    /\ pass[r].at = "clustering" /\ ClusterPlan # {}
    /\ \E es \in SeqOf(Live, AttachLimit) :
        /\ Recent(es)
        /\ pass' = [pass EXCEPT ![r] = [at |-> "asked", todo |-> {}, shown |-> es, plan |-> ClusterPlan]]
    /\ UNCHANGED <<day, tmdbVars, blocked, newsVars, synth, named>>

NothingToCluster(r) ==
    /\ pass[r].at = "clustering" /\ ClusterPlan = {}
    /\ pass' = [pass EXCEPT ![r] = Resting]
    /\ UNCHANGED <<day, tmdbVars, blocked, newsVars, synth, named>>

Latest(D) == CHOOSE d \in D : \A x \in D : x <= d
Least(D) == CHOOSE d \in D : \A x \in D : d <= x
Oldest(stories) == Least({story[s].day : s \in stories})
Near(a, b) == a <= b + Window /\ b <= a + Window

\* The transaction's view: story, of, event, uncarded as written so far, the stories that
\* were claimed, the events shown (`shown`), those that are still there and those of this very
\* answer (`known`), and whether it has failed: on the unique index, or at the bound on events.
LiveIn(db)   == {e \in Events : db.event[e].at = "live"}
Corroborated == moves # {} /\ day <= Latest(moves) + Window

\* Mutant: the names are read off the events that were shown.
ShownCast(db) == UNION {db.event[e].names : e \in {x \in db.known : db.event[x].beat = "casting"}}

\* recorded_subject_names: over the film's whole history, beyond what was shown.
RecordedCast(db) == UNION {db.event[e].names : e \in {x \in LiveIn(db) : db.event[x].beat = "casting"}}

\* The latest of some cards.
Newest(db, cards) == {e \in cards : \A x \in cards : db.event[x].day <= db.event[e].day}

\* _catalog_dedup_target: the latest catalog card the group would duplicate.
Duplicated(db, g) ==
    {e \in LiveIn(db) :
        /\ db.event[e].by = "catalog" /\ db.event[e].beat = g.beat
        /\ \/ g.beat = "casting" /\ db.event[e].names \cap g.names # {}
           \/ g.beat = "release_date" /\ Near(db.event[e].day, Latest(moves))
           \/ g.beat \in Once}
CatalogTargets(db, g) == Newest(db, Duplicated(db, g))

\* The singular beats of the last DedupDays, among the events that were shown and,
\* once created, of this very answer.
DedupTargets(db, g) ==
    IF g.beat \in Singular
    THEN Newest(db, {e \in db.known : db.event[e].beat = g.beat /\ db.event[e].day + DedupDays >= day})
    ELSE {}

\* The stories of the group join e, each by a row of its own: the index refuses that of a story
\* which has one.  A story on a credit card publishes the pending credits of whoever it names.
JoinEvent(db, mine, e) ==
    [db EXCEPT !.failed = @ \/ \E s \in mine : db.of[s] # NoEvent,
               !.of = [s \in Stories |-> IF s \in mine THEN e ELSE db.of[s]],
               !.assigned = @ \cup mine,
               !.uncarded = IF db.event[e].beat = "casting" THEN @ \ db.event[e].names ELSE @]

Drop(db, mine) ==
    [db EXCEPT !.story = [s \in Stories |-> IF s \in mine THEN [db.story[s] EXCEPT !.status = "rejected"]
                                            ELSE db.story[s]],
               !.assigned = @ \cup mine]

\* The card covers the performers it did not name before.
Extend(db, e, names) == [db EXCEPT !.event[e].names = @ \cup names]

Unused(db) == {e \in Events : db.event[e].at = "absent"}

NewCard(g, mine, names) ==
    [at |-> "live", beat |-> g.beat, by |-> "story", day |-> Oldest(mine), names |-> names,
     move |-> IF g.beat = "release_date" THEN Latest(moves) ELSE 0]
Create(db, g, mine, names) ==
    LET e == Least(Unused(db))
    IN  IF Unused(db) = {} THEN [db EXCEPT !.failed = TRUE]
        ELSE JoinEvent([db EXCEPT !.event[e] = NewCard(g, mine, names), !.known = @ \cup {e}], mine, e)

\* A new event, or the card it would repeat.
PlaceGroup(db, g, mine) ==
    LET names   == IF g.beat = "casting" THEN g.names \ RecordedCast(db) ELSE {}
        dedup   == DedupTargets(db, g)
        catalog == CatalogTargets(db, g)
    IN  CASE dedup # {} -> JoinEvent(db, mine, CHOOSE e \in dedup : TRUE)
          [] dedup = {} /\ catalog # {} ->
                LET e == CHOOSE x \in catalog : TRUE IN JoinEvent(Extend(db, e, names), mine, e)
          [] dedup = {} /\ catalog = {} /\ g.beat = "casting" /\ names = {} -> Drop(db, mine)
          [] OTHER -> Create(db, g, mine, names)

\* The number the model gives counts in what is left of the events shown, in their order.
Numbered(shown, n) ==
    {shown[k] : k \in {j \in DOMAIN shown :
        shown[j] \in Live /\ Cardinality({i \in 1..j : shown[i] \in Live}) = n}}

\* One group of the answer.
ApplyGroup(db, g) ==
    LET mine == g.stories \ db.assigned
        old  == Numbered(db.shown, g.existing)
        held == /\ g.claims = "other"
                /\ day <= Oldest(mine) + Window
    IN  CASE mine = {} -> db
          [] mine # {} /\ old # {} -> JoinEvent(db, mine, CHOOSE e \in old : TRUE)
          [] mine # {} /\ old = {} ->
              CASE g.beat = "off_topic" -> Drop(db, mine)
                [] g.beat = "none" -> db
                [] g.beat \in Stale /\ wrapped -> Drop(db, mine)
                [] g.beat = "release_date" /\ ~ Corroborated -> IF held THEN db ELSE Drop(db, mine)
                [] OTHER -> PlaceGroup(db, g, mine)

\* The groups in turn, each on what those before it wrote.
AtStart(shown) ==
    [story |-> story, of |-> of, event |-> event, uncarded |-> uncarded, assigned |-> {},
     shown |-> shown, known |-> Range(shown) \cap Live, failed |-> FALSE]
Written(shown, answer) ==
    LET db[i \in 0..Len(answer)] ==
            IF i = 0 THEN AtStart(shown) ELSE ApplyGroup(db[i - 1], answer[i])
    IN  db[Len(answer)]

\* The write half: all of the answer, or nothing.
Apply(r) ==
    /\ pass[r].at = "asked"
    /\ \E n \in 1..MaxGroups : \E answer \in [1..n -> Groups(pass[r].plan, Len(pass[r].shown))] :
        LET shown  == pass[r].shown
            after  == Written(shown, answer)
            said(s) == answer[Least({k \in 1..n : s \in answer[k].stories})].existing
        IN  /\ ~ after.failed
            /\ story' = after.story /\ of' = after.of
            /\ event' = after.event /\ uncarded' = after.uncarded
            /\ named' = [s \in Stories |->
                            IF s \notin after.assigned THEN named[s]
                            ELSE IF said(s) = 0 THEN NoEvent ELSE shown[said(s)]]
    /\ pass' = [pass EXCEPT ![r] = Resting]
    /\ UNCHANGED <<day, wrapped, moves, blocked, text, synth>>

\* The call failed, the answer does not parse, the index refused a row, or the run
\* died somewhere: the film is tried again by the next run.
LinkDies(r) ==
    /\ pass[r].at # "idle"
    /\ pass' = [pass EXCEPT ![r] = Resting]
    /\ UNCHANGED <<day, tmdbVars, blocked, newsVars, synth, named>>
-----------------------------------------------------------------------------
(***************************************************************************)
(* The moderator and the cleanup of blocked sources.                       *)
(***************************************************************************)

\* Deleting an event takes its rows with it; a story in it stays linked.
Deleting(E) ==
    /\ event' = [e \in Events |-> IF e \in E THEN [NoEvt EXCEPT !.at = "deleted"] ELSE event[e]]
    /\ of' = [s \in Stories |-> IF of[s] \in E THEN NoEvent ELSE of[s]]

\* Mutant: an event that has lost its last source stays.
DelinkAlone(s) ==
    /\ of[s] # NoEvent
    /\ story' = [story EXCEPT ![s] = RejectedBy(s)]
    /\ of' = [of EXCEPT ![s] = NoEvent]
    /\ text' = [text EXCEPT ![of[s]] = NoText]
    /\ UNCHANGED <<day, tmdbVars, blocked, event, pass, synth, named>>

Delink(s) ==
    /\ of[s] # NoEvent
    /\ story' = [story EXCEPT ![s] = RejectedBy(s)]
    /\ text' = [text EXCEPT ![of[s]] = NoText]
    /\ IF Sources(of[s]) = {s} THEN Deleting({of[s]})
       ELSE of' = [of EXCEPT ![s] = NoEvent] /\ event' = event
    /\ UNCHANGED <<day, tmdbVars, blocked, pass, synth, named>>

DeleteEvent(e) ==
    /\ e \in Live
    /\ story' = [s \in Stories |-> IF of[s] = e THEN RejectedBy(s) ELSE story[s]]
    /\ text' = [text EXCEPT ![e] = NoText]
    /\ Deleting({e})
    /\ UNCHANGED <<day, tmdbVars, blocked, pass, synth, named>>

EditSummary(e) ==
    /\ e \in Live /\ text[e].by # "none" /\ ~ text[e].edited
    /\ text' = [text EXCEPT ![e].edited = TRUE]
    /\ UNCHANGED <<day, tmdbVars, blocked, story, of, event, pass, synth, named>>

ResetSummary(e) ==
    /\ e \in Live /\ text[e].edited
    /\ text' = [text EXCEPT ![e] = NoText]
    /\ UNCHANGED <<day, tmdbVars, blocked, story, of, event, pass, synth, named>>

\* cleanup_blocked_sources: every linked story of a blocked domain leaves; its event
\* goes if that leaves it without sources, else takes the earliest of the rest for
\* its date and loses its text.
CleanupBlocked ==
    LET out   == {s \in blocked : story[s].status = "linked"}
        hit   == {of[s] : s \in out} \ {NoEvent}
        empty == {e \in hit : Sources(e) \subseteq out}
    IN  /\ out # {}
        /\ story' = [s \in Stories |-> IF s \in out THEN Rejected(s) ELSE story[s]]
        /\ of' = [s \in Stories |-> IF s \in out THEN NoEvent ELSE of[s]]
        /\ event' = [e \in Events |-> IF e \in empty THEN [NoEvt EXCEPT !.at = "deleted"]
                                      ELSE IF e \in hit THEN [event[e] EXCEPT !.day = Oldest(Sources(e) \ out)]
                                      ELSE event[e]]
        /\ text' = [e \in Events |-> IF e \in hit THEN NoText ELSE text[e]]
        /\ UNCHANGED <<day, tmdbVars, blocked, pass, synth, named>>
-----------------------------------------------------------------------------
(***************************************************************************)
(* The sweep: what TMDB's own changes card.                                *)
(***************************************************************************)
CardFromCatalog(beat, d, names, move) ==
    \E e \in Events :
        /\ event[e].at = "absent" /\ \A x \in Events : x < e => event[x].at # "absent"
        /\ event' = [event EXCEPT ![e] = [at |-> "live", beat |-> beat, by |-> "catalog", day |-> d,
                                          names |-> names, move |-> move]]
        /\ text' = [text EXCEPT ![e] = [by |-> "template", edited |-> FALSE, from |-> {}]]

MoveDate ==
    /\ "release_date" \in Beats /\ day \notin moves
    /\ moves' = moves \cup {day}
    /\ UNCHANGED <<day, wrapped, uncarded, blocked, newsVars, pass, synth, named>>

\* Mutant: a story's card is asked about on the day of the change alone.
CardedThatDay(d) == \E e \in Live : event[e].beat = "release_date" /\ event[e].day = d

\* release_events._already_carded: its own card on the day of the change, or a
\* story's within the window.
DateCarded(d) ==
    \E e \in Live :
        /\ event[e].beat = "release_date"
        /\ IF event[e].by = "catalog" THEN event[e].day = d ELSE Near(event[e].day, d)

CardMove(d) ==
    /\ d \in moves /\ ~ DateCarded(d)
    /\ CardFromCatalog("release_date", d, {}, d)
    /\ UNCHANGED <<day, tmdbVars, blocked, story, of, pass, synth, named>>

\* field_events: a milestone cards once for a film, whoever carded it.
CardMilestone(beat) ==
    /\ beat \in Beats \cap Once
    /\ \A e \in Live : event[e].beat # beat
    /\ CardFromCatalog(beat, day, {}, 0)
    /\ UNCHANGED <<day, tmdbVars, blocked, story, of, pass, synth, named>>

AttachCredit(n) ==
    /\ "casting" \in Beats /\ n \notin uncarded
    /\ uncarded' = uncarded \cup {n}
    /\ UNCHANGED <<day, wrapped, moves, blocked, newsVars, pass, synth, named>>

\* credit_events: a performer whose newest card is an attachment is not carded again.
CardCredit(n) ==
    /\ n \in uncarded
    /\ uncarded' = uncarded \ {n}
    /\ IF \E e \in Live : event[e].beat = "casting" /\ n \in event[e].names
       THEN UNCHANGED <<event, text>>
       ELSE CardFromCatalog("casting", day, {n}, 0)
    /\ UNCHANGED <<day, wrapped, moves, blocked, story, of, pass, synth, named>>
-----------------------------------------------------------------------------
(***************************************************************************)
(* The synthesize stage.                                                   *)
(***************************************************************************)

\* Write-once, but for the template of a card that stories have joined since.
Untold(e) == text[e].by = "none" \/ (text[e].by = "template" /\ ~ text[e].edited)

SelectPending ==
    /\ synth = {}
    /\ synth' = {[event |-> e, from |-> Sources(e)] :
                    e \in {x \in Live : Untold(x) /\ Sources(x) # {} /\ event[x].beat \notin Hidden}}
    /\ synth' # {}
    /\ UNCHANGED <<day, tmdbVars, blocked, newsVars, pass, named>>

\* upsert_summary, without looking at the row again; an event that is gone has no
\* row to write to.  edited_at and edited_by are left alone.
UpsertSummary(w) ==
    /\ w \in synth /\ w.event \in Live
    /\ text' = [text EXCEPT ![w.event].by = "model", ![w.event].from = w.from]
    /\ synth' = synth \ {w}
    /\ UNCHANGED <<day, tmdbVars, blocked, story, of, event, pass, named>>

SummarizeFails(w) ==
    /\ w \in synth
    /\ synth' = synth \ {w}
    /\ UNCHANGED <<day, tmdbVars, blocked, newsVars, pass, named>>
-----------------------------------------------------------------------------
StoriesNext ==
    \/ NextDay \/ Wrap \/ CleanupBlocked \/ MoveDate \/ SelectPending
    \/ \E s \in Stories : SetBlocked(s) \/ Fetch(s) \/ Delink(s)
    \/ \E r \in Runners, s \in Stories : RejectUnmatched(r, s) \/ Judge(r, s) \/ JudgeFails(r, s)
    \/ \E r \in Runners :
        StartLink(r) \/ GateSources(r) \/ AskCluster(r) \/ NothingToCluster(r) \/ Apply(r) \/ LinkDies(r)
    \/ \E e \in Events : DeleteEvent(e) \/ EditSummary(e) \/ ResetSummary(e)
    \/ \E d \in Days : CardMove(d)
    \/ \E b \in Beats : CardMilestone(b)
    \/ \E n \in Names : AttachCredit(n) \/ CardCredit(n)
    \/ \E w \in synth : UpsertSummary(w) \/ SummarizeFails(w)

StoriesSpec == StoriesInit /\ [][StoriesNext]_storiesVars
-----------------------------------------------------------------------------
(***************************************************************************)
(* Properties.                                                             *)
(***************************************************************************)

\* A story that is off its film: on no card, and not in the hands of a run that could put it
\* on one.
InHand(s) == \E r \in Runners : s \in pass[r].todo \cup pass[r].plan
Off(s)    == story[s].manual /\ of[s] = NoEvent /\ ~ InHand(s)

\* What a moderator takes off a card (link/moderation.py) is off its film for good, unless a
\* link run holds the story at that moment, which takes two runs that overlap: no run, cluster
\* answer or cleanup puts it on a film again.
ModerationStands ==
    [][\A s \in Stories :
        /\ ~ story[s].manual /\ story'[s].manual /\ ~ InHand(s) => Off(s)'
        /\ Off(s) => Off(s)']_storiesVars

\* A card that stories made has a source to show for it, whichever of them the
\* moderator, the gate or the cleanup took away, and a deleted card has none.
CardsHaveSources ==
    /\ StoriesTypeOK
    /\ \A e \in Live : event[e].by = "story" => Sources(e) # {}
    /\ \A s \in Stories : of[s] # NoEvent => of[s] \in Live

\* The sweep and the trade do not both announce one move of the release date
\* (ADR-0014): a card of that move never appears while the other side's card of it,
\* dated within the window of the change, is in the feed.
NoDoubleAnnounce ==
    [][\A a, b \in Events :
        /\ event[a].at = "live" /\ event[a].beat = "release_date" /\ Near(event[a].day, event[a].move)
        /\ event[b].at = "absent" /\ event'[b].at = "live"
        => ~ (/\ event'[b].beat = "release_date" /\ event'[b].move = event[a].move
              /\ event'[b].by # event[a].by)]_storiesVars

\* Whoever announces a performer, and however the stories about them arrive, one
\* casting card of the film names them.
OneCastingCardPerName ==
    \A n \in Names :
        Cardinality({e \in Live : event[e].beat = "casting" /\ n \in event[e].names}) <= 1

\* ingest/sweep/release_events.py: the catalog's card sits "exactly at changed_at",
\* so that one change is carded once.
OneCardPerChange ==
    \A a, b \in Live :
        a # b /\ event[a].beat = "release_date" /\ event[b].beat = "release_date"
        /\ event[a].by = "catalog" /\ event[b].by = "catalog" => event[a].move # event[b].move

\* link/cluster.py re-loads the shown events "preserving the supplied order for
\* positional index stability": a story the model put on one of them is on no other.
AttachesAsAnswered ==
    \A s \in Stories : of[s] # NoEvent /\ named[s] # NoEvent => of[s] = named[s]

\* link/moderation.py: a moderated story is rejected and detached, "so neither the link stage
\* (touches only `pending`) nor the cluster stage (touches only `linked` + unclustered)
\* reprocesses" it.
ModeratedIsLeftAlone ==
    [][\A s \in Stories :
        story[s].manual /\ of[s] = NoEvent => story'[s].manual /\ of'[s] = NoEvent]_storiesVars
=============================================================================
