-------------------------------- MODULE MCFeed --------------------------------
(***************************************************************************)
(* The world around Feed.  A behaviour is about what a studio's or a       *)
(* person's follow delivers, or about a reader who walks a list that       *)
(* changes.  The writers are what the link run, the summaries, the sweep   *)
(* and a moderator may do to the tables, one row at a time.                *)
(***************************************************************************)
EXTENDS Feed

CONSTANTS
    u1, f1, p1, c1, k1,     \* the reader, the film and the entities of a behaviour
    About,                  \* the questions
    MaxCards, MaxDay        \* bounds
VARIABLE about

\* Whom a behaviour is about.
Ent == IF about = "person" THEN p1 ELSE IF about = "franchise" THEN k1 ELSE c1

Walking == about \in Views

\* One story each; a story card names no organisation.
Told == LET Base == [film |-> f1, type |-> "canceled", names |-> {}, stories |-> {}, day |-> 1,
                     status |-> "published", summarized |-> TRUE, abroad |-> FALSE]
            Beats == Arrivals(Ent) \cup Departures(Ent)
        IN  {Base} \cup {[Base EXCEPT !.type = t, !.names = {Ent}] : t \in Beats}
              \cup {[Base EXCEPT !.type = t, !.stories = {s}, !.names = n] :
                      t \in Beats, s \in Stories, n \in SUBSET (People \cap {Ent})}

\* The cards of a studio and of release dates, some without their text yet.
Walked ==
    LET day == IF feed = <<>> THEN 1 ELSE feed[Len(feed)].day
    IN  {[film |-> f1, type |-> t, names |-> IF t = "company_attached" THEN {c1} ELSE {},
          stories |-> {}, day |-> d, status |-> "published", summarized |-> b,
          abroad |-> a] :
            t \in IF about = "entity" THEN {"company_attached"}
                  ELSE IF about = "feed" THEN {"release_date"}
                  ELSE {"release_date", "company_attached"},
            d \in IF about = "timeline" THEN day..MaxDay ELSE {1},
            b \in IF about = "timeline" THEN {TRUE} ELSE BOOLEAN,
            a \in IF about = "timeline" THEN BOOLEAN ELSE {FALSE}}

Publish ==
    /\ Len(feed) < MaxCards
    /\ \E c \in IF Walking THEN Walked ELSE Told :
         /\ c.type # "release_date" => ~ c.abroad
         /\ \A i \in DOMAIN feed : c.stories \cap feed[i].stories = {}
         /\ feed' = Append(feed, c)
    /\ UNCHANGED <<follows, mentions, live, stamped>>

Supersede(i) == /\ Published(i)
                /\ feed' = [feed EXCEPT ![i].status = "superseded"]
                /\ UNCHANGED <<follows, mentions, live, stamped>>

Summarize(i) == /\ ~ feed[i].summarized /\ feed[i].type # "other"
                /\ feed' = [feed EXCEPT ![i].summarized = TRUE]
                /\ UNCHANGED <<follows, mentions, live, stamped>>

\* A card that is gone is one nobody can see.
Withdraw(i) == /\ feed[i].type # "other" /\ Walking
             /\ feed' = [feed EXCEPT ![i] = [@ EXCEPT !.type = "other", !.names = {},
                                                  !.stories = {}, !.abroad = FALSE,
                                                  !.status = "superseded", !.summarized = TRUE]]
             /\ UNCHANGED <<follows, mentions, live, stamped>>

Resolve(s, beat, path) ==
    /\ ~ Walking
    /\ \A m \in mentions : m.story # s
    /\ \E i \in DOMAIN feed : s \in feed[i].stories
    /\ mentions' = mentions \cup {[story |-> s, ent |-> Ent, beat |-> beat, path |-> path]}
    /\ UNCHANGED <<follows, feed, live, stamped>>

Attach == /\ ~ Walking
          /\ live' = IF live = {} THEN {<<f1, Ent>>} ELSE {}
          /\ UNCHANGED <<follows, feed, mentions, stamped>>

\* _stamp_prior_organisation_cards and its counterparts: a story card that names the arrival.
StampArrival(i) == /\ ~ Walking /\ live # {} /\ stamped = {}
            /\ feed[i].type \in Arrivals(Ent) /\ CardNames(i, Ent, ArrivalBeats(Ent))
            /\ stamped' = {<<f1, Ent, i>>}
            /\ UNCHANGED <<follows, feed, mentions, live>>

ChangeFollows == /\ \E u \in Users, s \in {f1, Ent} : Follow(u, s) \/ Unfollow(u, s)
          /\ about = "timeline" /\ reader.pc \in {"closed", "page"}
          /\ UNCHANGED <<feed, mentions, live, stamped>>

Changes ==
    \/ Publish
    \/ \E i \in DOMAIN feed : Supersede(i) \/ Summarize(i) \/ Withdraw(i) \/ StampArrival(i)
    \/ \E s \in Stories, path \in {"tiebreak", "unlinked"} :
         \E beat \in ArrivalBeats(Ent) \cup DepartureBeats(Ent) : Resolve(s, beat, path)
    \/ Attach
    \/ ChangeFollows

Who == CASE about = "timeline" -> u1 [] about = "entity" -> c1 [] OTHER -> {}


Init ==
    /\ about \in About
    /\ follows = IF Walking THEN {} ELSE {<<u1, f1>>, <<u1, Ent>>}
    /\ feed = <<>> /\ mentions = {} /\ live = {} /\ stamped = {}
    /\ reader = Closed
    /\ steady = {} /\ shrunk = FALSE

\* Steps of Feed, of which each change is a Write.
Next ==
    /\ about' = about
    /\ \/ Walking /\ Len(feed) > 1 /\ Open(about, Who) /\ UNCHANGED tables
       \/ Read /\ UNCHANGED tables
       \/ Changes /\ Write
    /\ Watched

Spec == Init /\ [][Next]_<<feedVars, about>>
=============================================================================
