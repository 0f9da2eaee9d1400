--------------------------- MODULE SurfacesProofs ---------------------------
(***************************************************************************)
(* What readers look at: the calendars of a film, what the daily polls     *)
(* tell of it, and the lists of its cards.  Each has its own inductive     *)
(* invariant.                                                              *)
(*                                                                         *)
(* Dates, for any days, listings and windows: types, that a date still to  *)
(* come is carded before carding stops reading it, that stored dates are   *)
(* not news, and that the calendars agree.                                 *)
(*                                                                         *)
(* Polls, for any offers, videos and batches: what is recorded for good    *)
(* is told exactly once.                                                   *)
(*                                                                         *)
(* Follows and Feed, for any tables, follows and page size: an arrival is  *)
(* heard once, the surfaces agree on what a follow delivers, and a walk    *)
(* from page to page meets every card that stays on the list.              *)
(***************************************************************************)
EXTENDS Polls, Feed, FiniteSetTheorems, TLAPS

\* An observation is of one day, and its card names all that was to come on that day.
OneDay == \A g, h \in history : g.at = h.at => g.on = h.on
Whole  == \A h \in history, c \in cards : c.at = h.at /\ h.new >= h.on => h.of \in c.of

\* What no card has told was observed on or after the last day that carding got through.
Untold(h) == h.new >= h.on /\ ~ AlreadyCarded(h.at)
Waits(h)  == h.on + (IF passed THEN 0 ELSE missed + 1) >= today
Waiting   == \A h \in history : Untold(h) => Waits(h)

IInv == DatesTypeOK /\ OneDay /\ Whole /\ Waiting
-----------------------------------------------------------------------------
(***************************************************************************)
(* The operators.                                                          *)
(***************************************************************************)

LEMMA Constants ==
    /\ Days \subseteq Nat /\ 0 \notin Days /\ NoDay = 0
    /\ MaxMissed \in Nat /\ Lookback \in Nat /\ MaxMissed + 1 <= Lookback
    /\ SlateWindow \in Nat /\ PastWindow \in Nat /\ MaxEdits \in Nat
BY DatesAssumption DEF NoDay

\* A set of numbers has a least one, which is what Min chooses.
LEMMA MinIsLeast ==
    ASSUME NEW S \in SUBSET Nat, S # {}
    PROVE  Min(S) \in S /\ \A v \in S : Min(S) <= v
<1> DEFINE UpTo == {0..u : u \in S}
<1>1. UpTo \subseteq FiniteSubsetsOf(Nat) /\ UpTo # {}
  <2>1. \A u \in S : IsFiniteSet(0..u) /\ 0..u \subseteq Nat
    BY FS_Interval
  <2>2. \A X \in UpTo : IsFiniteSet(X) /\ X \in SUBSET Nat
    BY <2>1, Zenon
  <2>3. UpTo # {}
    OBVIOUS
  <2> HIDE DEF UpTo
  <2> QED
    BY <2>2, <2>3 DEF FiniteSubsetsOf
<1>2. PICK X \in UpTo : \A Y \in UpTo : <<Y, X>> \notin StrictSubsetOrdering(Nat)
  BY <1>1, WFMin, FS_StrictSubsetOrderingWellFounded
<1>3. PICK u \in S : X = 0..u
  BY <1>2, Zenon
<1>4. ASSUME NEW v \in S, v < u PROVE FALSE
  <2>1. 0..v \in UpTo
    BY Zenon
  <2>2. <<0..v, X>> \in StrictSubsetOrdering(Nat)
    BY <1>3, <1>4 DEF StrictSubsetOrdering
  <2> QED
    BY <1>2, <2>1, <2>2
<1>5. \A v \in S : u <= v
  BY <1>4
<1> QED
  BY <1>5, Zenon DEF Min

\* _governing_release returns a date of the subject.
LEMMA EarliestIsOne ==
    ASSUME NEW D \in SUBSET Days
    PROVE  /\ D = {} => Earliest(D) = NoDay
           /\ D # {} => Earliest(D) = Min(D) /\ Earliest(D) \in D
           /\ Earliest(D) \in Days \cup {NoDay}
BY MinIsLeast, Constants DEF Earliest

LEMMA GoverningIsOne ==
    ASSUME NEW slate \in ReleaseDates, NEW s \in Subjects, slate[s] # {}
    PROVE  Governing(slate, s) = Min(slate[s]) /\ Governing(slate, s) \in slate[s]
           /\ Governing(slate, s) \in Days
<1>1. slate[s] \in SUBSET Days
  BY DEF ReleaseDates
<1> QED
  BY <1>1, EarliestIsOne DEF Governing

\* A displayable subject keeps its dates, another has none to show.
LEMMA ShownDates ==
    ASSUME NEW slate \in ReleaseDates, NEW origin
    PROVE  /\ DisplayableFrom(slate, origin) \in ReleaseDates
           /\ \A s \in Subjects :
                 /\ DisplayableFrom(slate, origin)[s] \in {{}, slate[s]}
                 /\ Displayable(s, origin) => DisplayableFrom(slate, origin)[s] = slate[s]
                 /\ ~ Displayable(s, origin) => DisplayableFrom(slate, origin)[s] = {}
BY DEF DisplayableFrom, ReleaseDates

LEMMA PrimaryIsADay ==
    ASSUME NEW slate \in ReleaseDates
    PROVE  PrimaryDate(slate) \in Days \cup {NoDay}
<1>1. UNION {slate[s] : s \in Subjects} \in SUBSET Days
  BY DEF ReleaseDates
<1> QED
  BY <1>1, EarliestIsOne DEF PrimaryDate
-----------------------------------------------------------------------------
(***************************************************************************)
(* The steps.                                                              *)
(***************************************************************************)

\* What the history gains: rows of one new observation, made today, of dates that the
\* subject did not have.
LEMMA RecordedRows ==
    ASSUME DatesTypeOK, NEW origin,
           NEW h \in Recorded(DisplayableFrom(film.slate, origin), DisplayableFrom(tmdb.slate, origin))
    PROVE  /\ h.of \in Subjects /\ h.change \in {"set", "moved"}
           /\ h.previous \in Days \cup {NoDay} /\ h.new \in Days
           /\ h.at = at + 1 /\ h.on = today
           /\ h = [of |-> h.of, change |-> h.change, previous |-> h.previous, new |-> h.new,
                   at |-> h.at, on |-> h.on]
           /\ tmdb.slate[h.of] # film.slate[h.of] /\ h.new \notin film.slate[h.of]
<1> DEFINE old == DisplayableFrom(film.slate, origin)
           new == DisplayableFrom(tmdb.slate, origin)
<1>1. film.slate \in ReleaseDates /\ tmdb.slate \in ReleaseDates
  BY DEF DatesTypeOK
<1>2. /\ old \in ReleaseDates /\ new \in ReleaseDates
      /\ \A s \in Subjects : /\ Displayable(s, origin) => old[s] = film.slate[s] /\ new[s] = tmdb.slate[s]
                             /\ ~ Displayable(s, origin) => new[s] = {}
  BY <1>1, ShownDates
<1> HIDE DEF old, new
<1>3. PICK s \in Diff(old, new) :
         h = [of |-> s, change |-> IF old[s] = {} THEN "set" ELSE "moved",
              previous |-> Governing(old, s), new |-> Governing(new, s),
              at |-> at + 1, on |-> today]
  BY DEF Recorded, old, new
<1>4. /\ s \in Subjects /\ new[s] # {}
      /\ old[s] = {} \/ Governing(new, s) \notin old[s]
  BY DEF Diff
<1>5. Governing(new, s) = Min(new[s]) /\ Governing(new, s) \in new[s] /\ Governing(new, s) \in Days
  BY <1>2, <1>4, GoverningIsOne
<1>6. Governing(old, s) \in Days \cup {NoDay}
  <2>1. old[s] \in SUBSET Days
    BY <1>2, <1>4 DEF ReleaseDates
  <2> QED
    BY <2>1, EarliestIsOne DEF Governing
<1>7. old[s] = film.slate[s] /\ new[s] = tmdb.slate[s]
  BY <1>2, <1>4
<1>8. tmdb.slate[s] # film.slate[s] /\ Governing(new, s) \notin film.slate[s]
  BY <1>4, <1>5, <1>7
<1> QED
  BY <1>3, <1>4, <1>5, <1>6, <1>8

LEMMA RebuildWrites ==
    ASSUME DatesTypeOK, NEW origin \in SUBSET Regions, NEW primary \in Days \cup {NoDay},
           Rebuild(origin, primary)
    PROVE  /\ film' \in [slate : ReleaseDates, origin : SUBSET Regions,
                         primary : Days \cup {NoDay}, observed : BOOLEAN, since : 0..at']
           /\ film'.slate = tmdb.slate
           /\ at' \in {at, at + 1} /\ history \subseteq history' /\ history' \subseteq Change'
           /\ \A h \in history' \ history :
                 /\ h.at = at + 1 /\ h.on = today
                 /\ tmdb.slate[h.of] # film.slate[h.of] /\ h.new \notin film.slate[h.of]
<1> DEFINE rows == IF film.observed
                   THEN Recorded(DisplayableFrom(film.slate, origin), DisplayableFrom(tmdb.slate, origin))
                   ELSE {}
<1>1. /\ history' = history \cup rows
      /\ at' = IF rows = {} THEN at ELSE at + 1
      /\ film' = [slate |-> tmdb.slate, origin |-> origin, primary |-> primary, observed |-> TRUE,
                  since |-> IF film.observed THEN film.since ELSE at']
  BY Zenon DEF Rebuild
<1>2. at \in Nat /\ film.since \in 0..at /\ tmdb.slate \in ReleaseDates /\ history \subseteq Change
      /\ today \in Days
  BY DEF DatesTypeOK
<1>3. \A h \in rows :
           /\ h.of \in Subjects /\ h.change \in {"set", "moved"}
           /\ h.previous \in Days \cup {NoDay} /\ h.new \in Days
           /\ h.at = at + 1 /\ h.on = today
           /\ h = [of |-> h.of, change |-> h.change, previous |-> h.previous, new |-> h.new,
                   at |-> h.at, on |-> h.on]
           /\ tmdb.slate[h.of] # film.slate[h.of] /\ h.new \notin film.slate[h.of]
  BY RecordedRows
<1> HIDE DEF rows
<1>4. at' \in {at, at + 1} /\ at' \in Nat
  BY <1>1, <1>2
<1>5. film' \in [slate : ReleaseDates, origin : SUBSET Regions,
                 primary : Days \cup {NoDay}, observed : BOOLEAN, since : 0..at']
  BY <1>1, <1>2, <1>4
<1>6. history' \subseteq Change'
  <2>1. ASSUME NEW h \in history PROVE h \in Change'
    BY <1>2, <1>4 DEF Change
  <2>2. ASSUME NEW h \in rows PROVE h \in Change'
    <3>1. h.at \in 1..at'
      BY <1>1, <1>2, <1>3
    <3> QED
      BY <1>2, <1>3, <3>1 DEF Change
  <2> QED
    BY <1>1, <2>1, <2>2
<1>7. film'.slate = tmdb.slate
  BY <1>1
<1> QED
  BY <1>1, <1>3, <1>4, <1>5, <1>6, <1>7

\* Both ways of reading a slate: upsert_film's and the poll's.
LEMMA SlateIsRead ==
    ASSUME DatesTypeOK, Refresh \/ PollDates
    PROVE  \E origin \in SUBSET Regions, primary \in Days \cup {NoDay} :
              Rebuild(origin, primary) /\ UNCHANGED <<tmdb, cards, today, passed, missed, edits>>
<1>1. /\ tmdb.origin \in SUBSET Regions /\ film.origin \in SUBSET Regions
      /\ film.primary \in Days \cup {NoDay} /\ tmdb.slate \in ReleaseDates
  BY DEF DatesTypeOK
<1>2. PrimaryDate(tmdb.slate) \in Days \cup {NoDay}
  BY <1>1, PrimaryIsADay
<1>3. CASE Refresh
  BY <1>1, <1>2, <1>3, Zenon DEF Refresh
<1>4. CASE PollDates
  BY <1>1, <1>4, Zenon DEF PollDates
<1> QED
  BY <1>3, <1>4

\* _card_group: a card of this observation, for all of its dates that were to come.
LEMMA CardWrites ==
    ASSUME IInv, NEW a \in Groups, CardGroup(a)
    PROVE  \E c : /\ cards' = cards \cup {c} /\ c \in [at : 1..at, of : SUBSET Subjects, created : Days]
                  /\ c.at = a /\ \A h \in history : h.at = a /\ h.new >= h.on => h.of \in c.of
<1> DEFINE c == [at |-> a, of |-> {h.of : h \in WithoutPastMoves(a)}, created |-> today]
<1>1. cards' = cards \cup {c}
  BY DEF CardGroup
<1>2. history \subseteq Change /\ today \in Days
  BY DEF IInv, DatesTypeOK
<1>3. \A h \in history : h.of \in Subjects /\ h.at \in 1..at /\ h.on \in Days
  BY <1>2 DEF Change
<1>4. PICK g \in Backlog : a = g.at
  BY DEF Groups
<1>5. WithoutPastMoves(a) \subseteq history
  BY DEF WithoutPastMoves, Group, Backlog
<1>6. {h.of : h \in WithoutPastMoves(a)} \in SUBSET Subjects
  BY <1>3, <1>5
<1>7. c \in [at : 1..at, of : SUBSET Subjects, created : Days]
  BY <1>2, <1>3, <1>4, <1>6 DEF Backlog
<1>8. ASSUME NEW h \in history, h.at = a, h.new >= h.on
      PROVE  h.of \in c.of
  <2>1. g \in history /\ g.on + Lookback >= today
    BY DEF Backlog
  <2>2. h.on = g.on
    BY <1>4, <1>8, <2>1 DEF IInv, OneDay
  <2>3. h \in WithoutPastMoves(a)
    BY <1>8, <2>1, <2>2 DEF WithoutPastMoves, Group, Backlog
  <2> QED
    BY <2>3
<1>9. c.at = a
  OBVIOUS
<1> HIDE DEF c
<1> QED
  BY <1>1, <1>7, <1>8, <1>9

LEMMA TypeNext ==
    ASSUME IInv, DatesNext
    PROVE  DatesTypeOK'
<1>1. DatesTypeOK
  BY DEF IInv
<1>2. CASE Refresh \/ PollDates
  <2>1. PICK origin \in SUBSET Regions, primary \in Days \cup {NoDay} :
           Rebuild(origin, primary) /\ UNCHANGED <<tmdb, cards, today, passed, missed, edits>>
    BY <1>1, <1>2, SlateIsRead
  <2>2. /\ film' \in [slate : ReleaseDates, origin : SUBSET Regions,
                      primary : Days \cup {NoDay}, observed : BOOLEAN, since : 0..at']
        /\ at' \in {at, at + 1} /\ history' \subseteq Change'
    BY <1>1, <2>1, RebuildWrites
  <2>3. at' \in Nat /\ 1..at \subseteq 1..at'
    BY <1>1, <2>2 DEF DatesTypeOK
  <2>4. cards' \subseteq [at : 1..at', of : SUBSET Subjects, created : Days]
    BY <1>1, <2>1, <2>3 DEF DatesTypeOK
  <2> QED
    BY <1>1, <2>1, <2>2, <2>3, <2>4 DEF DatesTypeOK
<1>3. CASE Edit
  <2>1. tmdb' \in [slate : ReleaseDates, origin : SUBSET Regions]
    <3>1. tmdb \in [slate : ReleaseDates, origin : SUBSET Regions]
      BY <1>1 DEF DatesTypeOK
    <3>2. ASSUME NEW s \in Subjects, NEW D \in Listings, tmdb' = [tmdb EXCEPT !.slate[s] = D]
          PROVE  tmdb' \in [slate : ReleaseDates, origin : SUBSET Regions]
      BY <3>1, <3>2, DatesAssumption DEF ReleaseDates
    <3>3. ASSUME NEW O \in SUBSET (Regions \ {Primary}), tmdb' = [tmdb EXCEPT !.origin = O]
          PROVE  tmdb' \in [slate : ReleaseDates, origin : SUBSET Regions]
      BY <3>1, <3>3
    <3> QED
      BY <1>3, <3>2, <3>3 DEF Edit
  <2>2. edits' \in 0..MaxEdits
    BY <1>1, <1>3, Constants DEF DatesTypeOK, Edit
  <2> QED
    BY <1>1, <1>3, <2>1, <2>2 DEF DatesTypeOK, Edit, Change
<1>4. CASE NextDay
  <2>1. /\ UNCHANGED <<tmdb, film, history, cards, at, edits>> /\ today' \in Days /\ passed' = FALSE
        /\ passed \/ missed < MaxMissed
        /\ missed' = IF passed THEN 0 ELSE missed + 1
    BY <1>4 DEF NextDay
  <2>2. missed' \in 0..MaxMissed
    <3>1. missed \in 0..MaxMissed
      BY <1>1 DEF DatesTypeOK
    <3> QED
      BY <2>1, <3>1, Constants
  <2>3. Change' = Change
    BY <2>1 DEF Change
  <2> QED
    BY <1>1, <2>1, <2>2, <2>3 DEF DatesTypeOK
<1>5. CASE EndCarding
  BY <1>1, <1>5 DEF DatesTypeOK, EndCarding, Change
<1>6. CASE \E a \in Groups : CardGroup(a)
  <2>1. PICK a \in Groups : CardGroup(a)
    BY <1>6
  <2>2. cards' \subseteq [at : 1..at, of : SUBSET Subjects, created : Days]
    BY <1>1, <2>1, CardWrites DEF DatesTypeOK
  <2>3. UNCHANGED <<tmdb, film, history, at, today, passed, missed, edits>>
    BY <2>1 DEF CardGroup
  <2>4. Change' = Change
    BY <2>3 DEF Change
  <2> QED
    BY <1>1, <2>2, <2>3, <2>4 DEF DatesTypeOK
<1> QED
  BY <1>2, <1>3, <1>4, <1>5, <1>6 DEF DatesNext

\* A new row is of an observation that no card and no other row is of.
LEMMA OneDayNext ==
    ASSUME IInv, DatesNext
    PROVE  OneDay' /\ Whole'
<1>1. /\ DatesTypeOK /\ OneDay /\ Whole /\ at \in Nat
      /\ \A h \in history : h.at \in 1..at
      /\ \A c \in cards : c.at \in 1..at
  BY DEF IInv, DatesTypeOK, Change
<1>2. CASE Refresh \/ PollDates
  <2>1. PICK origin \in SUBSET Regions, primary \in Days \cup {NoDay} :
           Rebuild(origin, primary) /\ UNCHANGED <<tmdb, cards, today, passed, missed, edits>>
    BY <1>1, <1>2, SlateIsRead
  <2>2. /\ history \subseteq history'
        /\ \A h \in history' \ history : h.at = at + 1 /\ h.on = today
    BY <1>1, <2>1, RebuildWrites
  <2>3. \A h \in history' : h \in history \/ h.at \notin 1..at
    BY <1>1, <2>2
  <2>4. OneDay'
    BY <1>1, <2>2, <2>3 DEF OneDay
  <2>5. Whole'
    BY <1>1, <2>1, <2>3 DEF Whole
  <2> QED
    BY <2>4, <2>5
<1>3. CASE Edit
  BY <1>1, <1>3 DEF Edit, OneDay, Whole
<1>4. CASE NextDay
  BY <1>1, <1>4 DEF NextDay, OneDay, Whole
<1>5. CASE EndCarding
  BY <1>1, <1>5 DEF EndCarding, OneDay, Whole
<1>6. CASE \E a \in Groups : CardGroup(a)
  <2>1. PICK a \in Groups : CardGroup(a)
    BY <1>6
  <2>2. PICK c : /\ cards' = cards \cup {c}
                 /\ c.at = a /\ \A h \in history : h.at = a /\ h.new >= h.on => h.of \in c.of
    BY <2>1, CardWrites
  <2>3. history' = history
    BY <2>1 DEF CardGroup
  <2> QED
    BY <1>1, <2>2, <2>3 DEF OneDay, Whole
<1> QED
  BY <1>2, <1>3, <1>4, <1>5, <1>6 DEF DatesNext

\* A date that waits to be told is still in the backlog.
LEMMA WaitsInBacklog ==
    ASSUME IInv, NEW h \in history, Untold(h)
    PROVE  h \in Backlog
<1>1. missed \in 0..MaxMissed /\ today \in Days /\ history \subseteq Change
  BY DEF IInv, DatesTypeOK
<1>2. Waits(h)
  BY DEF IInv, Waiting
<1>3. h.on + Lookback >= today
  <2>1. h.on \in Nat /\ today \in Nat /\ missed \in Nat /\ missed + 1 <= Lookback
    <3>1. h.on \in Days
      BY <1>1 DEF Change
    <3>2. h.on \in Nat /\ today \in Nat
      BY <1>1, <3>1, Constants
    <3>3. missed \in Nat /\ missed + 1 <= Lookback
      BY <1>1, Constants
    <3> QED
      BY <3>2, <3>3
  <2>2. h.on + (missed + 1) >= today \/ h.on >= today
    BY <1>2, <2>1 DEF Waits
  <2> QED
    BY <2>1, <2>2, Constants
<1> QED
  BY <1>3 DEF Backlog

\* Carding that came to its end has told all that waited; a day it did not come through is
\* one day less, and there are fewer of those in a row than carding reads back.
LEMMA WaitingNext ==
    ASSUME IInv, DatesNext
    PROVE  Waiting'
<1>1. DatesTypeOK /\ Waiting
  BY DEF IInv
<1>2. today \in Nat /\ missed \in Nat /\ \A h \in history : h.on \in Nat
  <2>1. today \in Days /\ missed \in 0..MaxMissed /\ \A h \in history : h.on \in Days
    BY <1>1 DEF DatesTypeOK, Change
  <2>2. missed \in Nat
    BY <2>1, Constants
  <2> QED
    BY <2>1, <2>2, Constants
<1>3. CASE Refresh \/ PollDates
  <2>1. PICK origin \in SUBSET Regions, primary \in Days \cup {NoDay} :
           Rebuild(origin, primary) /\ UNCHANGED <<tmdb, cards, today, passed, missed, edits>>
    BY <1>1, <1>3, SlateIsRead
  <2>2. \A h \in history' : h \in history \/ h.on = today
    BY <1>1, <2>1, RebuildWrites
  <2> QED
    BY <1>1, <1>2, <2>1, <2>2 DEF Waiting, Untold, Waits, AlreadyCarded
<1>4. CASE Edit
  BY <1>1, <1>4 DEF Edit, Waiting, Untold, Waits, AlreadyCarded
<1>5. CASE NextDay
  <2>1. /\ history' = history /\ cards' = cards /\ today' = today + 1
        /\ passed' = FALSE /\ missed' = IF passed THEN 0 ELSE missed + 1
    BY <1>5 DEF NextDay
  <2>2. SUFFICES ASSUME NEW h \in history, Untold(h)
                 PROVE  h.on + (missed' + 1) >= today + 1
    BY <2>1 DEF Waiting, Untold, Waits, AlreadyCarded
  <2>3. Waits(h)
    BY <1>1, <2>2 DEF Waiting
  <2>4. CASE passed
    BY <1>2, <2>1, <2>3, <2>4 DEF Waits
  <2>5. CASE ~ passed
    BY <1>2, <2>1, <2>3, <2>5 DEF Waits
  <2> QED
    BY <2>4, <2>5
<1>6. CASE EndCarding
  <2>1. Owed = {} /\ history' = history /\ cards' = cards
    BY <1>6 DEF EndCarding
  <2>2. ASSUME NEW h \in history, Untold(h) PROVE FALSE
    <3>1. h \in Backlog
      BY <2>2, WaitsInBacklog
    <3>2. h.at \in Groups /\ h \in WithoutPastMoves(h.at)
      BY <2>2, <3>1 DEF Groups, WithoutPastMoves, Group, Untold
    <3>3. h.at \in Owed
      BY <2>2, <3>2 DEF Owed, Untold
    <3> QED
      BY <2>1, <3>3
  <2> QED
    BY <2>1, <2>2 DEF Waiting, Untold, AlreadyCarded
<1>7. CASE \E a \in Groups : CardGroup(a)
  BY <1>1, <1>7 DEF CardGroup, Waiting, Untold, Waits, AlreadyCarded
<1> QED
  BY <1>3, <1>4, <1>5, <1>6, <1>7 DEF DatesNext

LEMMA IInvInit == DatesInit => IInv
<1> SUFFICES ASSUME DatesInit PROVE IInv
  OBVIOUS
<1>1. history = {} /\ cards = {} /\ at = 0
  BY DEF DatesInit
<1>2. today \in Days
  BY Constants, DatesAssumption, MinIsLeast DEF DatesInit
<1>3. tmdb \in [slate : ReleaseDates, origin : SUBSET Regions]
  BY DEF DatesInit
<1>4. film \in [slate : ReleaseDates, origin : SUBSET Regions,
                primary : Days \cup {NoDay}, observed : BOOLEAN, since : 0..at]
  <2>1. Bare \in ReleaseDates
    BY DEF Bare, ReleaseDates
  <2> QED
    BY <1>3, <2>1 DEF DatesInit
<1>5. DatesTypeOK
  <2>1. passed = FALSE /\ missed \in 0..MaxMissed /\ edits \in 0..MaxEdits
    BY Constants DEF DatesInit
  <2> QED
    BY <1>1, <1>2, <1>3, <1>4, <2>1 DEF DatesTypeOK
<1> QED
  BY <1>1, <1>5 DEF IInv, OneDay, Whole, Waiting

LEMMA IInvNext == IInv /\ [DatesNext]_datesVars => IInv'
<1> SUFFICES ASSUME IInv, [DatesNext]_datesVars PROVE IInv'
  OBVIOUS
<1>1. CASE DatesNext
  BY <1>1, TypeNext, OneDayNext, WaitingNext DEF IInv
<1>2. CASE UNCHANGED datesVars
  BY <1>2 DEF datesVars, IInv, DatesTypeOK, Change, OneDay, Whole, Waiting, Untold, Waits,
              AlreadyCarded
<1> QED
  BY <1>1, <1>2

LEMMA Invariance == DatesSpec => []IInv
BY IInvInit, IInvNext, PTL DEF DatesSpec
-----------------------------------------------------------------------------
(***************************************************************************)
(* Theorems.                                                               *)
(***************************************************************************)

\* Whatever TMDB edits and whichever days carding does not get through, fewer in a row than
\* it reads back: a date set or moved to a day still to come is on a card before carding
\* stops reading it (run_release_date_events).
THEOREM MovesAreAlwaysToldInTime == DatesSpec => []MovesAreToldInTime
<1>1. ASSUME IInv PROVE MovesAreToldInTime
  <2>1. SUFFICES ASSUME NEW h \in history, h.on + Lookback < today, h.new >= h.on
                 PROVE  \E c \in cards : c.at = h.at /\ h.of \in c.of
    BY DEF MovesAreToldInTime
  <2>2. today \in Nat /\ h.on \in Nat /\ Lookback \in Nat
    BY <1>1, Constants DEF IInv, DatesTypeOK, Change
  <2>3. h \notin Backlog
    BY <2>1, <2>2 DEF Backlog
  <2>4. AlreadyCarded(h.at)
    BY <1>1, <2>1, <2>3, WaitsInBacklog DEF Untold
  <2> QED
    BY <1>1, <2>1, <2>4 DEF AlreadyCarded, IInv, Whole
<1> QED
  BY <1>1, Invariance, PTL

\* A step records a change of a subject only when that subject's own dates changed, whatever
\* its country of origin makes displayable meanwhile (rebuild_release_dates, "no backfill").
THEOREM StoredDatesAreNeverNews == DatesSpec => StoredDatesAreNotNews
<1>1. ASSUME IInv, [DatesNext]_datesVars
      PROVE  [\A h \in history' \ history :
                film'.slate[h.of] # film.slate[h.of] /\ h.new \notin film.slate[h.of]]_datesVars
  <2>1. DatesTypeOK
    BY <1>1 DEF IInv
  <2>2. CASE Refresh \/ PollDates
    BY <2>1, <2>2, SlateIsRead, RebuildWrites
  <2>3. CASE ~ (Refresh \/ PollDates)
    <3>1. history' = history \/ UNCHANGED datesVars
      BY <1>1, <2>3 DEF DatesNext, Edit, NextDay, EndCarding, CardGroup
    <3> QED
      BY <3>1
  <2> QED
    BY <2>2, <2>3
<1> QED
  BY <1>1, Invariance, PTL DEF DatesSpec, StoredDatesAreNotNews
-----------------------------------------------------------------------------
(***************************************************************************)
(* The surfaces.                                                           *)
(***************************************************************************)

\* Every American subject shows, at the date the calendar gives it.
LEMMA AmericanShows ==
    ASSUME DatesTypeOK, NEW s \in {Primary} \X BothKinds
    PROVE  /\ s \in Subjects /\ s[1] = Primary
           /\ DisplayableFrom(film.slate, film.origin)[s] = film.slate[s]
           /\ film.slate[s] \in SUBSET Days
<1>1. s \in Subjects /\ s[1] = Primary
  BY DEF Subjects, Regions, BothKinds
<1>2. Displayable(s, film.origin)
  BY <1>1 DEF Displayable, DisplayableRegions
<1>3. film.slate \in ReleaseDates
  BY DEF DatesTypeOK
<1> QED
  BY <1>1, <1>2, <1>3, ShownDates DEF ReleaseDates

\* A row of a calendar is an American subject of its kinds at the least of its dates.
LEMMA RowsOfCalendar ==
    ASSUME DatesTypeOK, NEW types \in SUBSET BothKinds, NEW r \in CalendarRows(types)
    PROVE  /\ r = <<r[1], r[2]>> /\ r[1] \in {Primary} \X types /\ film.slate[r[1]] # {}
           /\ r[2] = Governing(film.slate, r[1]) /\ r[2] = Min(film.slate[r[1]])
           /\ r[2] \in Days
<1>1. PICK s \in {Primary} \X types : film.slate[s] # {} /\ r = <<s, Governing(film.slate, s)>>
  BY DEF CalendarRows
<1>2. s \in {Primary} \X BothKinds
  OBVIOUS
<1>3. s \in Subjects /\ film.slate \in ReleaseDates
  BY <1>2, AmericanShows DEF DatesTypeOK
<1>4. Governing(film.slate, s) = Min(film.slate[s]) /\ Governing(film.slate, s) \in Days
  BY <1>1, <1>3, GoverningIsOne
<1> QED
  BY <1>1, <1>4

\* The subscribed feed, from today on, is the calendar page.
LEMMA FeedIsCalendar ==
    ASSUME DatesTypeOK
    PROVE  MyFilms(BothKinds) = {r \in IcalRows : r[2] >= today}
<1> DEFINE governing == {<<s, Min(film.slate[s])>> :
                            s \in {t \in {Primary} \X (Theatrical \cup Home) : film.slate[t] # {}}}
<1>1. governing = CalendarRows(BothKinds)
  <2>1. ASSUME NEW s \in {Primary} \X BothKinds, film.slate[s] # {}
        PROVE  Min(film.slate[s]) = Governing(film.slate, s)
    BY <2>1, AmericanShows, EarliestIsOne DEF Governing
  <2> QED
    BY <2>1 DEF CalendarRows, BothKinds
<1>2. ASSUME NEW r \in CalendarRows(BothKinds), r[2] >= today PROVE r[2] + PastWindow >= today
  BY <1>2, RowsOfCalendar, Constants DEF DatesTypeOK
<1>3. IcalRows = {r \in governing : r[2] + PastWindow >= today}
  BY DEF IcalRows
<1> HIDE DEF governing
<1> QED
  BY <1>1, <1>2, <1>3 DEF MyFilms

\* The film page lists all of the calendar, and nothing else that is American and ahead.
LEMMA PageIsCalendar ==
    ASSUME DatesTypeOK
    PROVE  /\ MyFilms(BothKinds) \subseteq PageRows
           /\ \A r \in PageRows : r[1][1] = Primary /\ r[2] >= today => r \in MyFilms(BothKinds)
<1> DEFINE shown == DisplayableFrom(film.slate, film.origin)
<1>1. PageRows = {<<s, Governing(shown, s)>> : s \in {t \in Subjects : shown[t] # {}}}
  BY DEF PageRows
<1>2. \A s \in {Primary} \X BothKinds :
         s \in Subjects /\ shown[s] = film.slate[s] /\ Governing(shown, s) = Governing(film.slate, s)
  BY AmericanShows DEF Governing
<1>3. \A s \in Subjects : s[1] = Primary => s \in {Primary} \X BothKinds
  BY DEF Subjects, BothKinds
<1> HIDE DEF shown
<1>4. ASSUME NEW r \in MyFilms(BothKinds) PROVE r \in PageRows
  <2>1. PICK s \in {Primary} \X BothKinds : film.slate[s] # {} /\ r = <<s, Governing(film.slate, s)>>
    BY DEF MyFilms, CalendarRows
  <2> QED
    BY <1>1, <1>2, <2>1
<1>5. ASSUME NEW r \in PageRows, r[1][1] = Primary, r[2] >= today PROVE r \in MyFilms(BothKinds)
  <2>1. PICK s \in Subjects : shown[s] # {} /\ r = <<s, Governing(shown, s)>>
    BY <1>1
  <2>2. s \in {Primary} \X BothKinds
    BY <1>3, <1>5, <2>1
  <2>3. film.slate[s] # {} /\ r = <<s, Governing(film.slate, s)>>
    BY <1>2, <2>1, <2>2
  <2> QED
    BY <1>5, <2>2, <2>3 DEF MyFilms, CalendarRows
<1> QED
  BY <1>4, <1>5

\* One page of the window's length holds the whole window: before a date of it there are at
\* most as many others as there are days since today.
LEMMA SlateIsWhole ==
    ASSUME DatesTypeOK
    PROVE  Slate = {r \in MyFilms(BothKinds) : r[2] < today + SlateWindow}
<1> DEFINE rows == {r \in MyFilms(BothKinds) : r[2] < today + SlateWindow}
           before(r) == {q[2] : q \in {p \in rows : p[2] < r[2]}}
<1>1. today \in Nat /\ SlateWindow \in Nat
  BY Constants DEF DatesTypeOK
<1>2. \A r \in rows : r[2] \in Nat /\ today <= r[2] /\ r[2] < today + SlateWindow
  <2>1. \A r \in rows : r \in CalendarRows(BothKinds) /\ today <= r[2] /\ r[2] < today + SlateWindow
    BY DEF MyFilms
  <2> QED
    BY <2>1, RowsOfCalendar, Constants
<1> HIDE DEF rows
<1>3. ASSUME NEW r \in rows PROVE Cardinality(before(r)) \in 0..(0 + SlateWindow - 1)
  <2>1. r[2] \in Nat /\ today <= r[2] /\ r[2] < today + SlateWindow
    BY <1>2
  <2>2. before(r) \subseteq today..(r[2] - 1)
    BY <1>1, <1>2, <2>1
  <2>3. IsFiniteSet(today..(r[2] - 1)) /\ Cardinality(today..(r[2] - 1)) = r[2] - today
    <3>1. today \in Int /\ r[2] - 1 \in Int
      BY <1>1, <2>1
    <3>2. /\ IsFiniteSet(today..(r[2] - 1))
          /\ Cardinality(today..(r[2] - 1)) = IF today > r[2] - 1 THEN 0 ELSE (r[2] - 1) - today + 1
      BY <3>1, FS_Interval, Zenon
    <3>3. (IF today > r[2] - 1 THEN 0 ELSE (r[2] - 1) - today + 1) = r[2] - today
      BY <1>1, <2>1
    <3> QED
      BY <3>2, <3>3
  <2> HIDE DEF before
  <2>4. IsFiniteSet(before(r)) /\ Cardinality(before(r)) <= r[2] - today
    BY <2>2, <2>3, FS_Subset
  <2>5. Cardinality(before(r)) \in Nat
    BY <2>4, FS_CardinalityType
  <2> QED
    BY <1>1, <2>1, <2>4, <2>5
<1>4. CalendarPage(rows, SlateWindow, 0) = {r \in rows : Cardinality(before(r)) \in 0..(0 + SlateWindow - 1)}
  BY DEF CalendarPage
<1>5. CalendarPage(rows, SlateWindow, 0) = rows
  <2> HIDE DEF before
  <2> QED
    BY <1>3, <1>4
<1> QED
  BY <1>5 DEF Slate, rows

\* Kind by kind: a kind's rows are among both kinds' rows.
LEMMA SlateOfKind ==
    ASSUME DatesTypeOK, NEW K \in Kinds
    PROVE  SlateOf(K) = {r \in MyFilms(K) : r[2] < today + SlateWindow}
<1>1. K \in SUBSET BothKinds
  BY DEF Kinds, BothKinds
<1>2. \A r : r \in CalendarRows(K) <=> r \in CalendarRows(BothKinds) /\ r[1][2] \in K
  <2>1. ASSUME NEW r \in CalendarRows(K)
        PROVE  r \in CalendarRows(BothKinds) /\ r[1][2] \in K
    BY <1>1, RowsOfCalendar DEF CalendarRows
  <2>2. ASSUME NEW r \in CalendarRows(BothKinds), r[1][2] \in K
        PROVE  r \in CalendarRows(K)
    BY <2>2, RowsOfCalendar DEF CalendarRows
  <2> QED
    BY <2>1, <2>2
<1> QED
  BY <1>2, SlateIsWhole DEF SlateOf, MyFilms

\* The subscribed feed, the calendar page, the film page and the digest's slate name the same
\* dates (get_ical_feed, get_my_films_calendar, get_film, load_slate), for any dates.
THEOREM CalendarsAlwaysAgree == DatesSpec => []CalendarsAgree
<1>1. ASSUME IInv PROVE CalendarsAgree
  BY <1>1, FeedIsCalendar, PageIsCalendar, SlateOfKind DEF CalendarsAgree, IInv
<1> QED
  BY <1>1, Invariance, PTL
-----------------------------------------------------------------------------
(***************************************************************************)
(* The lists of cards: what a reader's walk has found.                     *)
(***************************************************************************)

Pcs == {"closed", "page", "groups", "rows", "entities", "served", "end"}

\* The cards of the page that is being put together.
Pending == UNION {row.cards : row \in reader.rows}

ReaderShape ==
    /\ DOMAIN reader = DOMAIN Closed
    /\ reader.pc \in Pcs /\ reader.view \in Views /\ reader.next \in Nat
    /\ reader.shown \subseteq DOMAIN feed /\ Pending \subseteq DOMAIN feed /\ steady \subseteq DOMAIN feed
    /\ reader.pc \in {"groups", "rows", "entities"} => reader.view \in {"grouped", "timeline"}
    /\ reader.pc = "entities" => reader.view = "timeline"
    /\ reader.pc = "page" => Pending = {}
    /\ reader.pc = "end" => ~ reader.more

\* How many members of a list come before x, newest first.
Before(S, x) == {y \in S : y > x}
Rank(S, x)   == Cardinality(Before(S, x))

\* A card that a later page will show: the list goes on, and the card is not behind the offset
\* or the cursor.
Place(i) == IF reader.view = "feed" THEN Rank(List, i) ELSE Rank(DaysOf(List), feed[i].day)

Ahead(i) ==
    /\ reader.pc = "page" \/ reader.more
    /\ IF reader.view = "entity" THEN i < reader.next ELSE reader.next <= Place(i)

\* A card that the statements of this page have found or will find: with its film's rows, or
\* on the day with an entity's.
WithFilm(i) == reader.view = "timeline" => feed[i].film \in TitleFilms(reader.who)
OnDay(i)    == feed[i].day \in reader.days

Underway(i) ==
    \/ reader.pc = "groups" /\ OnDay(i)
    \/ reader.pc = "rows" /\ WithFilm(i) /\ <<feed[i].film, feed[i].day>> \in reader.groups
    \/ reader.pc \in {"rows", "entities"} /\ ~ WithFilm(i) /\ OnDay(i)
    \/ reader.pc \in {"entities", "served"} /\ i \in Pending

Found ==
    reader.pc # "closed" /\ (reader.view = "entity" \/ ~ shrunk) =>
        \A i \in steady : i \in reader.shown \/ Ahead(i) \/ Underway(i)

\* What the cursor has passed is behind it, and no page repeats it.
Cursor ==
    reader.pc # "closed" /\ reader.view = "entity" =>
        /\ \A i \in reader.shown \cup Pending : reader.next <= i
        /\ reader.pc = "served" => Pending \cap reader.shown = {}

WalkInv == TypeOK /\ ReaderShape /\ Found /\ Cursor
-----------------------------------------------------------------------------
(***************************************************************************)
(* Pages.                                                                  *)
(***************************************************************************)

\* The rank of a member of a list is less than the list's length, and grows with the list.
LEMMA Ranks ==
    ASSUME NEW S \in SUBSET Nat, IsFiniteSet(S), NEW x \in Nat
    PROVE  /\ IsFiniteSet(Before(S, x)) /\ Rank(S, x) \in Nat /\ Cardinality(S) \in Nat
           /\ x \in S => Rank(S, x) < Cardinality(S)
           /\ \A T \in SUBSET S : IsFiniteSet(T) /\ Rank(T, x) \in Nat /\ Rank(T, x) <= Rank(S, x)
<1>1. Before(S, x) \in SUBSET S /\ x \notin Before(S, x)
  BY DEF Before
<1>2. /\ IsFiniteSet(Before(S, x)) /\ Rank(S, x) \in Nat /\ Cardinality(S) \in Nat
      /\ Rank(S, x) <= Cardinality(S) /\ (Cardinality(S) = Rank(S, x) => S = Before(S, x))
  BY <1>1, FS_Subset, FS_CardinalityType DEF Rank
<1>3. x \in S => Rank(S, x) < Cardinality(S)
  BY <1>1, <1>2
<1>4. ASSUME NEW T \in SUBSET S
      PROVE  IsFiniteSet(T) /\ Rank(T, x) \in Nat /\ Rank(T, x) <= Rank(S, x)
  <2>1. IsFiniteSet(T)
    BY FS_Subset
  <2>2. Before(T, x) \in SUBSET Before(S, x)
    BY DEF Before
  <2> QED
    BY <1>2, <2>1, <2>2, FS_Subset, FS_CardinalityType DEF Rank
<1> QED
  BY <1>2, <1>3, <1>4

\* Whoever is not behind the offset is on the page, or the list goes on and they are not
\* behind the next one.
LEMMA OnThePage ==
    ASSUME NEW S \in SUBSET Nat, IsFiniteSet(S), NEW x \in S, NEW offset \in Nat,
           NEW limit \in Nat, offset <= Rank(S, x)
    PROVE  \/ x \in Slice(S, offset, limit)
           \/ offset + limit <= Rank(S, x) /\ offset + limit < Cardinality(S)
<1>1. Rank(S, x) \in Nat /\ Rank(S, x) < Cardinality(S) /\ Cardinality(S) \in Nat
  BY Ranks
<1>2. Slice(S, offset, limit) = {y \in S : offset <= Rank(S, y) /\ Rank(S, y) < offset + limit}
  BY DEF Slice, Rank, Before
<1> QED
  BY <1>1, <1>2

\* A list of cards is finite.
LEMMA UpToFinite ==
    ASSUME NEW n \in Nat, NEW S \in SUBSET (1..n)
    PROVE  S \in SUBSET Nat /\ IsFiniteSet(S)
<1>1. IsFiniteSet(1..n)
  BY 1 \in Int, n \in Int, FS_Interval
<1>2. IsFiniteSet(S)
  BY <1>1, FS_Subset, Zenon
<1> QED
  BY <1>2

\* The first page of a list.
LEMMA FirstPage ==
    ASSUME NEW S \in SUBSET Nat, IsFiniteSet(S), NEW limit \in Nat
    PROVE  Slice(S, 0, limit) = {y \in S : Rank(S, y) < limit}
<1>1. \A y \in S : Rank(S, y) \in Nat
  BY Ranks
<1>2. \A y \in S : 0 <= Rank(S, y) /\ Rank(S, y) < 0 + limit <=> Rank(S, y) < limit
  BY <1>1
<1>3. Slice(S, 0, limit) = {y \in S : 0 <= Rank(S, y) /\ Rank(S, y) < 0 + limit}
  BY DEF Slice, Rank, Before
<1> QED
  BY <1>2, <1>3, Zenon

\* A list longer than its first page has so many members on it.
LEMMA PageIsFull ==
    ASSUME NEW n \in Nat, NEW S \in SUBSET (1..n), NEW limit \in Nat, NEW x \in S,
           x \notin Slice(S, 0, limit)
    PROVE  limit <= Cardinality(Slice(S, 0, limit))
<1> DEFINE page == Slice(S, 0, limit)
           out  == S \ page
           low  == {n - y : y \in out}
<1>1. S \in SUBSET Nat /\ IsFiniteSet(S)
  BY UpToFinite
<1>2. page = {y \in S : Rank(S, y) < limit}
  BY <1>1, FirstPage
<1> HIDE DEF page
<1>3. low \in SUBSET Nat /\ low # {}
  <2>1. \A y \in out : n - y \in Nat
    BY DEF out
  <2>2. x \in out
    BY DEF page, out
  <2> QED
    BY <2>1, <2>2
<1>4. PICK m \in out : Min(low) = n - m
  BY <1>3, MinIsLeast
<1>5. \A y \in out : y <= m
  <2> SUFFICES ASSUME NEW y \in out PROVE y <= m
    OBVIOUS
  <2>1. n - m <= n - y
    BY <1>3, <1>4, MinIsLeast
  <2>2. y \in 1..n /\ m \in 1..n
    OBVIOUS
  <2> QED
    BY <2>1, <2>2
<1>6. Before(S, m) \in SUBSET page
  <2> SUFFICES ASSUME NEW y \in S, y > m PROVE y \in page
    BY DEF Before
  <2>1. y \in out => FALSE
    BY <1>1, <1>5
  <2> QED
    BY <2>1 DEF out
<1>7. limit <= Rank(S, m) /\ Rank(S, m) \in Nat
  BY <1>1, <1>2, Ranks
<1>8. IsFiniteSet(page)
  BY <1>1, <1>2, FS_Subset
<1>9. Rank(S, m) <= Cardinality(page) /\ Cardinality(page) \in Nat
  BY <1>6, <1>8, FS_Subset, FS_CardinalityType DEF Rank
<1> QED
  BY <1>7, <1>9 DEF page

\* A page by the cursor: whoever is not on it is beyond the next cursor, and there is a next
\* page.
LEMMA CursorPage ==
    ASSUME NEW n \in Nat, NEW S \in SUBSET (1..n), NEW x \in S, x \notin Slice(S, 0, Limit)
    PROVE  /\ Slice(S, 0, Limit) # {} /\ x < Min(Slice(S, 0, Limit))
           /\ Cardinality(Slice(S, 0, Limit + 1)) > Limit
<1> DEFINE page == Slice(S, 0, Limit)
           rows == Slice(S, 0, Limit + 1)
<1>0. Limit \in Nat /\ Limit # 0
  BY FeedAssumption
<1>1. S \in SUBSET Nat /\ IsFiniteSet(S)
  BY UpToFinite
<1>2. page = {y \in S : Rank(S, y) < Limit} /\ rows = {y \in S : Rank(S, y) < Limit + 1}
  BY <1>0, <1>1, FirstPage
<1>3. Limit <= Cardinality(page)
  BY <1>0, PageIsFull
<1> HIDE DEF page, rows
<1>4. page # {}
  BY <1>0, <1>3, FS_EmptySet
<1>5. \A y \in page : x < y
  <2> SUFFICES ASSUME NEW y \in page, ~ (x < y) PROVE FALSE
    OBVIOUS
  <2>1. y \in S /\ y \in Nat /\ x \in Nat /\ y <= x
    BY <1>1, <1>2
  <2>2. Before(S, x) \in SUBSET Before(S, y)
    <3>1. \A z \in S : z \in Nat
      BY <1>1
    <3>2. \A z \in S : z > x => z > y
      BY <2>1, <3>1
    <3> QED
      BY <3>2, Zenon DEF Before
  <2>3. Rank(S, x) <= Rank(S, y)
    BY <1>1, <2>1, <2>2, Ranks, FS_Subset DEF Rank
  <2>4. Rank(S, y) < Limit /\ ~ (Rank(S, x) < Limit)
    BY <1>2 DEF page
  <2>5. Rank(S, y) \in Nat /\ Rank(S, x) \in Nat
    BY <1>1, <2>1, Ranks
  <2> QED
    BY <1>0, <2>3, <2>4, <2>5
<1>6. page \in SUBSET Nat
  BY <1>1, <1>2
<1>7. x < Min(page)
  BY <1>4, <1>5, <1>6, MinIsLeast
<1>8. Cardinality(rows) > Limit
  <2>1. CASE rows = S
    <3>1. Rank(S, x) < Cardinality(S) /\ ~ (Rank(S, x) < Limit)
      BY <1>1, <1>2, Ranks DEF page
    <3>2. Rank(S, x) \in Nat /\ Cardinality(S) \in Nat
      BY <1>1, Ranks
    <3> QED
      BY <1>0, <2>1, <3>1, <3>2
  <2>2. CASE rows # S
    <3>1. PICK y \in S : y \notin rows
      BY <1>2, <2>2
    <3>2. Limit + 1 <= Cardinality(rows)
      <4>1. Limit + 1 \in Nat
        BY <1>0
      <4> QED
        BY <3>1, <4>1, PageIsFull, Zenon DEF rows
    <3>3. Cardinality(rows) \in Nat
      BY <1>1, <1>2, FS_Subset, FS_CardinalityType
    <3> QED
      BY <1>0, <3>2, <3>3
  <2> QED
    BY <2>1, <2>2
<1> QED
  BY <1>4, <1>7, <1>8 DEF page, rows
-----------------------------------------------------------------------------
(***************************************************************************)
(* The tables.                                                             *)
(***************************************************************************)

LEMMA Cards ==
    ASSUME TypeOK
    PROVE  /\ Len(feed) \in Nat /\ DOMAIN feed = 1..Len(feed)
           /\ \A i \in DOMAIN feed : i \in Nat /\ feed[i].film \in Films /\ feed[i].day \in Nat
<1>1. feed \in Seq(Card)
  BY DEF TypeOK
<1>2. Len(feed) \in Nat /\ DOMAIN feed = 1..Len(feed) /\ \A i \in DOMAIN feed : feed[i] \in Card
  BY <1>1
<1>3. \A c \in Card : c.film \in Films /\ c.day \in Nat
  BY DEF Card
<1> QED
  BY <1>2, <1>3

LEMMA OpenLists ==
    ASSUME TypeOK, NEW view, NEW who
    PROVE  /\ OnTheList(view, who) \in SUBSET (DOMAIN feed)
           /\ OnTheList(view, who) \in SUBSET Nat /\ IsFiniteSet(OnTheList(view, who))
           /\ \A i \in OnTheList(view, who) : FeedVisible(i)
<1>1. Selected(view, who) \in SUBSET (DOMAIN feed)
  <2>1. Scope(who) \in SUBSET (DOMAIN feed)
    BY DEF Scope, ReachByTitle, ReachByEntity, EntityPairs
  <2>2. EntityCards(who) \in SUBSET (DOMAIN feed)
    BY DEF EntityCards
  <2> QED
    BY <2>1, <2>2 DEF Selected
<1>2. OnTheList(view, who) \in SUBSET (DOMAIN feed)
  BY <1>1 DEF OnTheList
<1> QED
  BY <1>2, Cards, UpToFinite DEF OnTheList

LEMMA DaysFinite ==
    ASSUME TypeOK, NEW I \in SUBSET (DOMAIN feed)
    PROVE  DaysOf(I) \in SUBSET Nat /\ IsFiniteSet(DaysOf(I))
<1> DEFINE day == [i \in I |-> feed[i].day]
<1>1. IsFiniteSet(I)
  BY Cards, UpToFinite
<1>2. day \in Surjection(I, DaysOf(I))
  BY DEF Surjection, DaysOf
<1>3. IsFiniteSet(DaysOf(I))
  BY <1>1, <1>2, FS_Surjection, Zenon
<1> QED
  BY <1>3, Cards DEF DaysOf

LEMMA ListShape ==
    TypeOK => /\ List \in SUBSET (DOMAIN feed) /\ List \in SUBSET Nat /\ IsFiniteSet(List)
              /\ DaysOf(List) \in SUBSET Nat /\ IsFiniteSet(DaysOf(List))
              /\ \A i \in List : FeedVisible(i) /\ feed[i].day \in Nat
              /\ \A i \in List : Place(i) \in Nat
<1> SUFFICES ASSUME TypeOK
             PROVE  /\ List \in SUBSET (DOMAIN feed) /\ List \in SUBSET Nat /\ IsFiniteSet(List)
                    /\ DaysOf(List) \in SUBSET Nat /\ IsFiniteSet(DaysOf(List))
                    /\ \A i \in List : FeedVisible(i) /\ feed[i].day \in Nat
                    /\ \A i \in List : Place(i) \in Nat
  OBVIOUS
<1>1. List = {} \/ List = OnTheList(reader.view, reader.who)
  BY DEF List
<1>2. /\ List \in SUBSET (DOMAIN feed) /\ List \in SUBSET Nat /\ IsFiniteSet(List)
      /\ \A i \in List : FeedVisible(i)
  BY <1>1, OpenLists, FS_EmptySet
<1>3. \A i \in List : feed[i].day \in Nat
  BY <1>2, Cards
<1>4. DaysOf(List) \in SUBSET Nat /\ IsFiniteSet(DaysOf(List))
  BY <1>2, DaysFinite
<1>5. \A i \in List : Rank(List, i) \in Nat /\ Rank(DaysOf(List), feed[i].day) \in Nat
  BY <1>2, <1>3, <1>4, Ranks
<1> QED
  BY <1>2, <1>3, <1>4, <1>5 DEF Place

\* A list is read off the tables.
LEMMA SameDelivery ==
    ASSUME UNCHANGED tables
    PROVE  \A e, i : Delivers(e, i)' <=> Delivers(e, i)
<1>1. /\ feed' = feed /\ mentions' = mentions /\ live' = live /\ stamped' = stamped
  BY DEF tables
<1>2. \A e, i, beats : CardNames(i, e, beats)' <=> CardNames(i, e, beats)
  BY <1>1 DEF CardNames, HasToken, MentionedIn, Mentions
<1>3. \A e, i, beats : MentionedIn(i, e, beats)' <=> MentionedIn(i, e, beats)
  BY <1>1 DEF MentionedIn, Mentions
<1>4. \A j, f, e, types, beats : Tells(j, f, e, types, beats)' <=> Tells(j, f, e, types, beats)
  BY <1>1, <1>2, Zenon DEF Tells, Published
<1>5. \A e, i : FirstArrival(e, i)' <=> FirstArrival(e, i)
  BY <1>1, <1>3, <1>4, Zenon DEF FirstArrival, EarlierArrival, KnownBefore, AttachedNow, CardedBy
<1>6. \A e, i : FirstDeparture(e, i)' <=> FirstDeparture(e, i)
  <2>1. \A e, i : Answered(e, i)' = Answered(e, i)
    BY <1>1, <1>4, Zenon DEF Answered
  <2> QED
    BY <1>1, <1>3, <1>4, <2>1, Zenon DEF FirstDeparture, AlreadyLeft
<1> QED
  BY <1>1, <1>5, <1>6, Zenon
  DEF Delivers, Published, PersonNamed, OrganisationNamed, HasToken, CanceledOf, AttachedNow

LEMMA SameList ==
    ASSUME UNCHANGED tables, NEW CONSTANT view, NEW CONSTANT who
    PROVE  OnTheList(view, who)' = OnTheList(view, who)
<1>1. feed' = feed /\ follows' = follows
  BY DEF tables
<1>2. \A e, i : Delivers(e, i)' <=> Delivers(e, i)
  BY SameDelivery
<1>3. EntityCards(who)' = EntityCards(who)
  BY <1>1, <1>2, Zenon DEF EntityCards
<1>4. Scope(who)' = Scope(who)
  <2>1. EntityPairs(who)' = EntityPairs(who)
    BY <1>1, <1>2, Zenon DEF EntityPairs, FollowedEntities
  <2> QED
    BY <1>1, <2>1, Zenon DEF Scope, ReachByTitle, ReachByEntity, TitleFilms
<1>5. \A i : FeedVisible(i)' <=> FeedVisible(i)
  BY <1>1, Zenon DEF FeedVisible, Readable, InMarket
<1> QED
  BY <1>1, <1>3, <1>4, <1>5, Zenon DEF OnTheList, Selected
-----------------------------------------------------------------------------
(***************************************************************************)
(* What a follow delivers.                                                 *)
(***************************************************************************)

\* Of two cards that only a story ties to an arrival, the first keeps the second from being
\* one.
LEMMA HeardOnce == TypeOK => ArrivalIsHeardOnce
<1> SUFFICES ASSUME TypeOK PROVE ArrivalIsHeardOnce
  OBVIOUS
<1>1. ASSUME NEW e \in Entities, NEW i \in DOMAIN feed, NEW j \in DOMAIN feed, i < j,
             Published(i), feed[i].film = feed[j].film, FirstArrival(e, i), FirstArrival(e, j)
      PROVE  FALSE
  <2>1. i \in 1..(j - 1)
    BY <1>1, Cards
  <2>2. Tells(i, feed[j].film, e, Arrivals(e), ArrivalBeats(e))
    BY <1>1 DEF Tells, FirstArrival, CardNames
  <2> QED
    BY <1>1, <2>1, <2>2 DEF FirstArrival, EarlierArrival
<1> SUFFICES ASSUME NEW e \in Entities, NEW i \in DOMAIN feed, NEW j \in DOMAIN feed, i # j,
                    Published(i), Published(j), feed[i].film = feed[j].film,
                    FirstArrival(e, i), FirstArrival(e, j)
             PROVE  FALSE
  BY DEF ArrivalIsHeardOnce
<1>2. i < j \/ j < i
  BY Cards
<1> QED
  BY <1>1, <1>2

\* The three queries select from the same pairs of a follow and a card.
LEMMA OneAnswer == TypeOK => SurfacesAgree
<1> SUFFICES ASSUME TypeOK, NEW u \in Users
             PROVE  LET told == {i \in OnTheList("timeline", u) : Published(i)}
                    IN  /\ told = {p[2] : p \in {q \in Attribution(u) : FeedVisible(q[2])}}
                        /\ told = UNION {Activity(s) : s \in {r \in Followable : <<u, r>> \in follows}}
  BY DEF SurfacesAgree
<1> DEFINE told == {i \in OnTheList("timeline", u) : Published(i)}
           By(s, i) == IF s \in Films THEN feed[i].film = s /\ Published(i) ELSE Delivers(s, i)
           Reached(i) == \E s \in Followable : <<u, s>> \in follows /\ By(s, i)
<1>1. Films \cap Entities = {} /\ follows \subseteq Users \X Followable
  BY FollowsAssumption DEF TypeOK
<1>2. \A s, i : Delivers(s, i) => Published(i)
  BY DEF Delivers
<1>3. \A i \in DOMAIN feed :
        Reached(i) <=> Published(i) /\ (\/ feed[i].film \in TitleFilms(u)
                                        \/ \E e \in FollowedEntities(u) : Delivers(e, i))
  <2> SUFFICES ASSUME NEW i \in DOMAIN feed
               PROVE  Reached(i) <=> Published(i) /\ (\/ feed[i].film \in TitleFilms(u)
                                        \/ \E e \in FollowedEntities(u) : Delivers(e, i))
    OBVIOUS
  <2>1. feed[i].film \in Films
    BY Cards
  <2>2. \A e \in Entities : e \notin Films
    BY <1>1
  <2>3. Followable = Films \cup Entities
    BY DEF Followable
  <2> QED
    BY <1>2, <2>1, <2>2, <2>3, Zenon DEF TitleFilms, FollowedEntities
<1>4. told = {i \in DOMAIN feed : FeedVisible(i) /\ Reached(i)}
  <2>1. \A i : i \in Scope(u) <=> i \in DOMAIN feed /\ (\/ feed[i].film \in TitleFilms(u)
                                        \/ \E e \in FollowedEntities(u) : Delivers(e, i))
    <3>1. \A i : i \in ReachByEntity(u) <=>
                   i \in DOMAIN feed /\ \E e \in FollowedEntities(u) : Delivers(e, i)
      <4>1. \A e \in FollowedEntities(u), i \in DOMAIN feed : Delivers(e, i) => i \in ReachByEntity(u)
        <5> SUFFICES ASSUME NEW e \in FollowedEntities(u), NEW i \in DOMAIN feed, Delivers(e, i)
                     PROVE  i \in ReachByEntity(u)
          OBVIOUS
        <5>1. <<e, i>> \in EntityPairs(u) /\ <<e, i>>[2] = i
          BY DEF EntityPairs
        <5> QED
          BY <5>1 DEF ReachByEntity
      <4>2. \A i \in ReachByEntity(u) : i \in DOMAIN feed /\ \E e \in FollowedEntities(u) : Delivers(e, i)
        BY DEF ReachByEntity, EntityPairs
      <4> QED
        BY <4>1, <4>2, Zenon
    <3> QED
      BY <3>1, Zenon DEF Scope, ReachByTitle
  <2>2. OnTheList("timeline", u) = {i \in Scope(u) : FeedVisible(i)}
    BY DEF OnTheList, Selected
  <2> HIDE DEF Reached
  <2> QED
    BY <1>3, <2>1, <2>2, Zenon
<1>5. told = {p[2] : p \in {q \in Attribution(u) : FeedVisible(q[2])}}
  <2> DEFINE paired == {p[2] : p \in {q \in Attribution(u) : FeedVisible(q[2])}}
  <2>1. \A i : i \in paired => i \in DOMAIN feed /\ FeedVisible(i) /\ Published(i)
                 /\ (feed[i].film \in TitleFilms(u) \/ \E e \in FollowedEntities(u) : Delivers(e, i))
    BY <1>2 DEF Attribution, EntityPairs
  <2>2. ASSUME NEW i \in DOMAIN feed, FeedVisible(i), Published(i),
               feed[i].film \in TitleFilms(u) \/ \E e \in FollowedEntities(u) : Delivers(e, i)
        PROVE  i \in paired
    <3>1. PICK s : <<s, i>> \in Attribution(u)
      BY <2>2 DEF Attribution, EntityPairs
    <3>2. <<s, i>>[2] = i
      OBVIOUS
    <3> QED
      BY <2>2, <3>1, <3>2
  <2> HIDE DEF Reached, paired, told
  <2>3. \A i : i \in told <=> i \in paired
    BY <1>3, <1>4, <2>1, <2>2
  <2> QED
    BY <2>3 DEF paired
<1>6. told = UNION {Activity(s) : s \in {r \in Followable : <<u, r>> \in follows}}
  <2>1. \A s, i : i \in Activity(s) <=> i \in DOMAIN feed /\ FeedVisible(i) /\ By(s, i)
    BY DEF Activity
  <2> HIDE DEF By, told
  <2>2. \A i : i \in told <=> i \in UNION {Activity(s) : s \in {r \in Followable : <<u, r>> \in follows}}
    BY <1>4, <2>1, Zenon
  <2> QED
    BY <2>2
<1> QED
  BY <1>5, <1>6
-----------------------------------------------------------------------------
(***************************************************************************)
(* A walk.                                                                 *)
(***************************************************************************)

LEMMA WalkInit == FeedInit => WalkInv
<1> SUFFICES ASSUME FeedInit PROVE WalkInv
  OBVIOUS
<1>1. reader = Closed /\ TypeOK
  BY DEF FeedInit
<1>2. /\ reader.rows = {} /\ reader.shown = {} /\ reader.pc = "closed" /\ reader.view = "feed"
      /\ steady = {}
  BY <1>1 DEF Closed, FeedInit
<1>3. ReaderShape
  BY <1>1, <1>2 DEF ReaderShape, Closed, Pcs, Views, Pending
<1> QED
  BY <1>1, <1>2, <1>3 DEF WalkInv, Found, Cursor

\* What a step of the reader finds as it was: the tables, the list and the places on it.
LEMMA Reading ==
    ASSUME WalkInv, UNCHANGED tables, Watched, reader.pc # "closed", reader'.pc # "closed",
           reader'.view = reader.view, reader'.who = reader.who
    PROVE  /\ feed' = feed /\ TypeOK'
           /\ List = OnTheList(reader.view, reader.who) /\ List' = List
           /\ List \in SUBSET (DOMAIN feed) /\ List \in SUBSET Nat /\ IsFiniteSet(List)
           /\ \A i \in List : FeedVisible(i)
           /\ steady' = steady \cap List /\ (shrunk' <=> shrunk)
           /\ \A i : Place(i)' = Place(i) /\ (WithFilm(i)' <=> WithFilm(i))
<1>1. feed' = feed /\ follows' = follows
  BY DEF tables
<1>2. TypeOK'
  BY Zenon DEF WalkInv, TypeOK, tables
<1>3. List = OnTheList(reader.view, reader.who)
  BY DEF List
<1>4. List' = List
  <2>1. PICK view : view = reader.view
    OBVIOUS
  <2>2. PICK who : who = reader.who
    OBVIOUS
  <2>3. OnTheList(view, who)' = OnTheList(view, who)
    BY SameList
  <2>4. List' = OnTheList(view, who)'
    BY <2>1, <2>2, Zenon DEF List
  <2> QED
    BY <1>3, <2>1, <2>2, <2>3, <2>4, Zenon
<1>5. steady' = steady \cap List /\ (shrunk' <=> shrunk)
  BY <1>4 DEF Watched
<1>6. \A i : Place(i)' = Place(i)
  BY <1>1, <1>4, Zenon DEF Place, Rank, Before, DaysOf
<1>7. \A i : WithFilm(i)' <=> WithFilm(i)
  BY <1>1, Zenon DEF WithFilm, TitleFilms
<1>8. /\ List \in SUBSET (DOMAIN feed) /\ List \in SUBSET Nat /\ IsFiniteSet(List)
      /\ \A i \in List : FeedVisible(i)
  BY <1>3, OpenLists, Zenon DEF WalkInv
<1> QED
  BY <1>1, <1>2, <1>3, <1>4, <1>5, <1>6, <1>7, <1>8

\* The rows made of some cards hold these.
LEMMA RowsHold ==
    ASSUME NEW via, NEW I
    PROVE  UNION {row.cards : row \in RowsOf(via, I)} = I
<1> DEFINE like(i) == {j \in I : /\ feed[j].film = feed[i].film /\ feed[j].day = feed[i].day
                                 /\ Section(j) = Section(i)}
<1>1. RowsOf(via, I) = {Row(via, like(i)) : i \in I}
  BY DEF RowsOf
<1>2. \A i \in I : Row(via, like(i)).cards = like(i)
  BY DEF Row
<1>3. \A i \in I : i \in like(i) /\ like(i) \subseteq I
  OBVIOUS
<1> HIDE DEF like
<1> QED
  BY <1>1, <1>2, <1>3

\* A row for each card, as the flat lists have it.
Singly(via, I) == {Row(via, {i}) : i \in I}

LEMMA RowsOfOne ==
    ASSUME NEW via, NEW I
    PROVE  UNION {row.cards : row \in Singly(via, I)} = I
<1> DEFINE one(i) == {i}
           rows   == {Row(via, one(i)) : i \in I}
<1>1. \A i \in I : Row(via, one(i)).cards = one(i)
  BY DEF Row
<1>2. \A i, j : j \in one(i) <=> j = i
  OBVIOUS
<1> HIDE DEF one
<1>3. UNION {row.cards : row \in rows} = I
  BY <1>1, <1>2
<1> QED
  BY <1>3 DEF one, Singly

LEMMA OpenStep ==
    ASSUME WalkInv, UNCHANGED tables, Watched, NEW view \in Views, NEW who, Open(view, who)
    PROVE  WalkInv'
<1> USE DEF WalkInv
<1>1. /\ reader.pc = "closed" /\ reader'.pc = "page" /\ reader'.view = view /\ reader'.who = who
      /\ reader'.next = (IF view = "entity" THEN Len(feed) + 1 ELSE 0)
      /\ reader'.shown = {} /\ reader'.rows = {} /\ reader'.more = FALSE
      /\ DOMAIN reader' = DOMAIN Closed
  BY DEF Open, Closed
<1>2. feed' = feed /\ TypeOK'
  BY Zenon DEF TypeOK, tables
<1>3. Pending' = {}
  BY <1>1 DEF Pending
<1>4. /\ steady' = List' /\ List' \in SUBSET (DOMAIN feed') /\ List' \in SUBSET Nat
      /\ \A i \in List' : Place(i)' \in Nat
  <2>1. TypeOK' => (/\ List \in SUBSET (DOMAIN feed) /\ List \in SUBSET Nat /\ IsFiniteSet(List)
                    /\ DaysOf(List) \in SUBSET Nat /\ IsFiniteSet(DaysOf(List))
                    /\ \A i \in List : FeedVisible(i) /\ feed[i].day \in Nat
                    /\ \A i \in List : Place(i) \in Nat)'
    BY ListShape, PTL
  <2> QED
    BY <1>1, <1>2, <2>1 DEF Watched
<1>5. ReaderShape'
  <2>1. reader'.next \in Nat
    BY <1>1, Cards
  <2> QED
    BY <1>1, <1>3, <1>4, <2>1 DEF ReaderShape, Pcs
<1>6. \A i \in steady' : Ahead(i)'
  <2>1. CASE view = "entity"
    BY <1>1, <1>2, <1>4, <2>1, Cards DEF Ahead
  <2>2. CASE view # "entity"
    BY <1>1, <1>4, <2>2 DEF Ahead
  <2> QED
    BY <2>1, <2>2
<1>7. Found' /\ Cursor'
  BY <1>1, <1>3, <1>6 DEF Found, Cursor
<1> QED
  BY <1>2, <1>5, <1>7

LEMMA FlatPageStep ==
    ASSUME WalkInv, UNCHANGED tables, Watched, FlatPage
    PROVE  WalkInv'
<1> USE DEF WalkInv
<1> DEFINE page == Slice(List, reader.next, Limit)
<1>0. Limit \in Nat
  BY FeedAssumption
<1>1. reader.pc = "page" /\ reader.view = "feed" /\ DOMAIN reader = DOMAIN Closed
      /\ reader.next \in Nat /\ Pending = {} /\ reader.shown \subseteq DOMAIN feed
  BY DEF FlatPage, ReaderShape
<1>2. PICK rows : rows = Singly(NoVia, page)
  OBVIOUS
<1>3. PICK more : more = (reader.next + Limit < Cardinality(List))
  OBVIOUS
<1>4. reader' = [reader EXCEPT !.pc = "served", !.next = @ + Limit, !.more = more, !.rows = rows]
  BY <1>1, <1>2, <1>3 DEF FlatPage, List, Singly
<1>5. /\ reader'.pc = "served" /\ reader'.view = "feed" /\ reader'.who = reader.who
      /\ reader'.next = reader.next + Limit /\ reader'.more = more /\ reader'.rows = rows
      /\ reader'.shown = reader.shown /\ DOMAIN reader' = DOMAIN Closed
  BY <1>1, <1>4 DEF Closed
<1>6. /\ feed' = feed /\ TypeOK'
      /\ List \in SUBSET (DOMAIN feed) /\ List \in SUBSET Nat /\ IsFiniteSet(List)
      /\ steady' = steady \cap List /\ (shrunk' <=> shrunk)
      /\ \A i : Place(i)' = Place(i)
  BY <1>1, <1>5, Reading
<1>7. Pending' = page /\ page \in SUBSET List
  <2>1. page \in SUBSET List
    BY DEF Slice
  <2> HIDE DEF page
  <2>2. UNION {row.cards : row \in rows} = page
    BY <1>2, RowsOfOne
  <2> QED
    BY <1>5, <2>1, <2>2 DEF Pending
<1>8. ReaderShape'
  BY <1>0, <1>1, <1>3, <1>5, <1>6, <1>7 DEF ReaderShape, Pcs, Views
<1>9. ASSUME NEW i \in steady', ~ shrunk' PROVE i \in reader'.shown \/ Ahead(i)' \/ Underway(i)'
  <2>1. i \in List /\ (i \in reader.shown \/ reader.next <= Rank(List, i))
    BY <1>1, <1>6, <1>9 DEF Found, Ahead, Underway, Place
  <2>2. CASE i \in page
    BY <1>5, <1>7, <2>2 DEF Underway
  <2>3. CASE reader.next + Limit <= Rank(List, i) /\ reader.next + Limit < Cardinality(List)
    <3>1. Place(i) = Rank(List, i)
      BY <1>1 DEF Place
    <3> QED
      BY <1>3, <1>5, <1>6, <2>3, <3>1 DEF Ahead
  <2> HIDE DEF page
  <2>4. reader.next <= Rank(List, i) =>
          i \in page \/ (reader.next + Limit <= Rank(List, i) /\ reader.next + Limit < Cardinality(List))
    BY <1>0, <1>1, <1>6, <2>1, OnThePage DEF page
  <2> QED
    BY <1>5, <2>1, <2>2, <2>3, <2>4
<1>10. Found' /\ Cursor'
  BY <1>5, <1>9 DEF Found, Cursor
<1> QED
  BY <1>6, <1>8, <1>10

LEMMA EntityPageStep ==
    ASSUME WalkInv, UNCHANGED tables, Watched, EntityPage
    PROVE  WalkInv'
<1> USE DEF WalkInv
<1> DEFINE all  == {i \in List : i < reader.next}
           page == Slice(all, 0, Limit)
<1>0. Limit \in Nat
  BY FeedAssumption
<1>1. reader.pc = "page" /\ reader.view = "entity" /\ DOMAIN reader = DOMAIN Closed
      /\ reader.next \in Nat /\ Pending = {} /\ reader.shown \subseteq DOMAIN feed
  BY DEF EntityPage, ReaderShape
<1>2. PICK rows : rows = Singly(reader.who, page)
  OBVIOUS
<1>3. PICK more : more = (Cardinality(Slice(all, 0, Limit + 1)) > Limit)
  OBVIOUS
<1>4. PICK next : next = (IF page # {} THEN Min(page) ELSE reader.next)
  OBVIOUS
<1>5. reader' = [reader EXCEPT !.pc = "served", !.more = more, !.next = next, !.rows = rows]
  <2>1. all = {i \in OnTheList("entity", reader.who) : BeyondCursor(i)}
    BY <1>1 DEF List, BeyondCursor
  <2> HIDE DEF all
  <2> QED
    BY <1>1, <1>2, <1>3, <1>4, <2>1 DEF EntityPage, Singly
<1>6. /\ reader'.pc = "served" /\ reader'.view = "entity" /\ reader'.who = reader.who
      /\ reader'.next = next /\ reader'.more = more /\ reader'.rows = rows
      /\ reader'.shown = reader.shown /\ DOMAIN reader' = DOMAIN Closed
  BY <1>1, <1>5 DEF Closed
<1>7. /\ feed' = feed /\ TypeOK' /\ List \in SUBSET (DOMAIN feed) /\ List \in SUBSET Nat
      /\ steady' = steady \cap List
  BY <1>1, <1>6, Reading
<1>8. page \in SUBSET all /\ all \in SUBSET List
  BY DEF Slice
<1>9. Len(feed) \in Nat /\ all \in SUBSET (1..Len(feed))
  BY <1>7, <1>8, Cards
<1>10. Pending' = page
  <2> HIDE DEF page
  <2>1. UNION {row.cards : row \in rows} = page
    BY <1>2, RowsOfOne
  <2> QED
    BY <1>6, <2>1 DEF Pending
<1>11. next \in Nat /\ next <= reader.next /\ \A i \in page : next <= i /\ i < reader.next
  <2>1. page \in SUBSET Nat /\ \A i \in page : i < reader.next
    BY <1>7, <1>8
  <2> HIDE DEF page
  <2>2. CASE page = {}
    BY <1>1, <1>4, <2>2
  <2>3. CASE page # {}
    <3>1. next \in page /\ \A i \in page : next <= i
      BY <1>4, <2>1, <2>3, MinIsLeast
    <3>2. next \in Nat /\ next < reader.next
      BY <2>1, <3>1
    <3>3. next <= reader.next
      BY <1>1, <3>2
    <3> HIDE DEF all
    <3> QED
      BY <2>1, <3>1, <3>2, <3>3
  <2> QED
    BY <2>2, <2>3
<1>12. ReaderShape'
  BY <1>1, <1>6, <1>7, <1>8, <1>10, <1>11 DEF ReaderShape, Pcs, Views
<1>13. ASSUME NEW i \in steady' PROVE i \in reader'.shown \/ Ahead(i)' \/ Underway(i)'
  <2>1. i \in List /\ (i \in reader.shown \/ i < reader.next)
    BY <1>1, <1>7, <1>13 DEF Found, Ahead, Underway
  <2>2. CASE i \in page
    BY <1>6, <1>10, <2>2 DEF Underway
  <2>3. CASE i \in all /\ i \notin page
    <3>1. page # {} /\ i < Min(page) /\ Cardinality(Slice(all, 0, Limit + 1)) > Limit
      <4> HIDE DEF all
      <4> QED
        BY <1>9, <2>3, CursorPage
    <3>2. i < next /\ more
      BY <1>3, <1>4, <3>1
    <3> QED
      BY <1>6, <3>2 DEF Ahead
  <2> QED
    BY <1>6, <2>1, <2>2, <2>3
<1>14. Found'
  BY <1>13 DEF Found
<1>15. Cursor'
  <2>1. \A i \in reader.shown : reader.next <= i /\ i \in Nat
    BY <1>1, Cards DEF Cursor
  <2>2. \A i \in reader.shown : next <= i
    BY <1>1, <1>11, <2>1
  <2>3. \A i \in page : i \notin reader.shown
    <3>1. \A i \in page : i \in Nat
      BY <1>7, <1>8
    <3> HIDE DEF page
    <3> QED
      BY <1>1, <1>11, <2>1, <3>1
  <2> HIDE DEF page
  <2> QED
    BY <1>6, <1>10, <1>11, <2>2, <2>3 DEF Cursor
<1> QED
  BY <1>7, <1>12, <1>14, <1>15

LEMMA DayWindowStep ==
    ASSUME WalkInv, UNCHANGED tables, Watched, DayWindow
    PROVE  WalkInv'
<1> USE DEF WalkInv
<1>0. Limit \in Nat
  BY FeedAssumption
<1>1. reader.pc = "page" /\ reader.view \in {"grouped", "timeline"} /\ DOMAIN reader = DOMAIN Closed
      /\ reader.next \in Nat /\ Pending = {} /\ reader.shown \subseteq DOMAIN feed
  BY DEF DayWindow, ReaderShape
<1>2. PICK days : days = Slice(DaysOf(List), reader.next, Limit)
  OBVIOUS
<1>3. PICK more : more = (reader.next + Limit < Cardinality(DaysOf(List)))
  OBVIOUS
<1>4. reader' = [reader EXCEPT !.pc = "groups", !.next = @ + Limit, !.more = more, !.days = days]
  BY <1>1, <1>2, <1>3 DEF DayWindow, List
<1>5. /\ reader'.pc = "groups" /\ reader'.view = reader.view /\ reader'.who = reader.who
      /\ reader'.next = reader.next + Limit /\ reader'.more = more /\ reader'.rows = reader.rows
      /\ reader'.shown = reader.shown /\ reader'.days = days /\ DOMAIN reader' = DOMAIN Closed
  BY <1>1, <1>4 DEF Closed
<1>6. /\ feed' = feed /\ TypeOK' /\ List \in SUBSET (DOMAIN feed)
      /\ steady' = steady \cap List /\ (shrunk' <=> shrunk)
      /\ \A i : Place(i)' = Place(i)
  BY <1>1, <1>5, Reading
<1>7. Pending' = {}
  BY <1>1, <1>5 DEF Pending
<1>8. ReaderShape'
  BY <1>0, <1>1, <1>5, <1>6, <1>7 DEF ReaderShape, Pcs, Views
<1>9. ASSUME NEW i \in steady', ~ shrunk' PROVE i \in reader'.shown \/ Ahead(i)' \/ Underway(i)'
  <2>1. i \in List /\ (i \in reader.shown \/ reader.next <= Rank(DaysOf(List), feed[i].day))
    BY <1>1, <1>6, <1>9 DEF Found, Ahead, Underway, Place
  <2>2. CASE feed[i].day \in days
    BY <1>5, <1>6, <2>2 DEF Underway, OnDay
  <2>3. CASE /\ reader.next + Limit <= Rank(DaysOf(List), feed[i].day)
             /\ reader.next + Limit < Cardinality(DaysOf(List))
    <3>1. Place(i) = Rank(DaysOf(List), feed[i].day)
      BY <1>1 DEF Place
    <3> QED
      BY <1>1, <1>3, <1>5, <1>6, <2>3, <3>1 DEF Ahead
  <2>4. DaysOf(List) \in SUBSET Nat /\ IsFiniteSet(DaysOf(List)) /\ feed[i].day \in DaysOf(List)
    BY <1>6, <2>1, DaysFinite DEF DaysOf
  <2>5. reader.next <= Rank(DaysOf(List), feed[i].day) =>
          \/ feed[i].day \in days
          \/ /\ reader.next + Limit <= Rank(DaysOf(List), feed[i].day)
             /\ reader.next + Limit < Cardinality(DaysOf(List))
    BY <1>0, <1>1, <1>2, <2>4, OnThePage
  <2> QED
    BY <1>5, <2>1, <2>2, <2>3, <2>5
<1>10. Found' /\ Cursor'
  BY <1>1, <1>5, <1>9 DEF Found, Cursor
<1> QED
  BY <1>6, <1>8, <1>10

LEMMA FindGroupsStep ==
    ASSUME WalkInv, UNCHANGED tables, Watched, FindGroups
    PROVE  WalkInv'
<1> USE DEF WalkInv
<1>1. /\ reader.pc = "groups" /\ reader.view \in {"grouped", "timeline"} /\ DOMAIN reader = DOMAIN Closed
      /\ reader.next \in Nat /\ reader.shown \subseteq DOMAIN feed /\ Pending \subseteq DOMAIN feed
  BY DEF FindGroups, ReaderShape
<1>2. /\ reader'.pc = "rows" /\ reader'.view = reader.view /\ reader'.who = reader.who
      /\ reader'.next = reader.next /\ reader'.more = reader.more /\ reader'.rows = reader.rows
      /\ reader'.shown = reader.shown /\ reader'.days = reader.days /\ DOMAIN reader' = DOMAIN Closed
      /\ reader'.groups = FilmDays(reader.view, reader.who, reader.days)
  BY <1>1, Zenon DEF FindGroups, Closed
<1>3. /\ feed' = feed /\ TypeOK' /\ List \in SUBSET (DOMAIN feed)
      /\ steady' = steady \cap List /\ (shrunk' <=> shrunk)
      /\ \A i \in List : FeedVisible(i)
      /\ \A i : Place(i)' = Place(i) /\ (WithFilm(i)' <=> WithFilm(i))
  BY <1>1, <1>2, Reading
<1>4. Pending' = Pending
  BY <1>2 DEF Pending
<1>5. ReaderShape'
  BY <1>1, <1>2, <1>3, <1>4 DEF ReaderShape, Pcs, Views
<1>6. ASSUME NEW i \in steady', ~ shrunk' PROVE i \in reader'.shown \/ Ahead(i)' \/ Underway(i)'
  <2>1. i \in List /\ (i \in reader.shown \/ Ahead(i) \/ OnDay(i))
    BY <1>1, <1>3, <1>6 DEF Found, Underway
  <2>2. CASE Ahead(i)
    BY <1>1, <1>2, <1>3, <2>2 DEF Ahead
  <2>3. CASE OnDay(i) /\ WithFilm(i)
    <3>1. i \in TitleScope(reader.view, reader.who)
      BY <1>1, <1>3, <2>1, <2>3 DEF TitleScope, ReachByTitle, WithFilm
    <3>2. <<feed[i].film, feed[i].day>> \in FilmDays(reader.view, reader.who, reader.days)
      BY <1>3, <2>1, <2>3, <3>1 DEF FilmDays, OnDay
    <3> QED
      BY <1>2, <1>3, <2>3, <3>2 DEF Underway
  <2>4. CASE OnDay(i) /\ ~ WithFilm(i)
    BY <1>2, <1>3, <2>4 DEF Underway, OnDay
  <2> QED
    BY <1>2, <2>1, <2>2, <2>3, <2>4
<1>7. Found' /\ Cursor'
  BY <1>1, <1>2, <1>6 DEF Found, Cursor
<1> QED
  BY <1>3, <1>5, <1>7

LEMMA FetchRowsStep ==
    ASSUME WalkInv, UNCHANGED tables, Watched, FetchRows
    PROVE  WalkInv'
<1> USE DEF WalkInv
<1> DEFINE fetched == {i \in TitleScope(reader.view, reader.who) :
                         Readable(i) /\ <<feed[i].film, feed[i].day>> \in reader.groups}
<1>1. /\ reader.pc = "rows" /\ reader.view \in {"grouped", "timeline"} /\ DOMAIN reader = DOMAIN Closed
      /\ reader.next \in Nat /\ reader.shown \subseteq DOMAIN feed
  BY DEF FetchRows, ReaderShape
<1>2. /\ reader'.pc = (IF reader.view = "timeline" THEN "entities" ELSE "served")
      /\ reader'.view = reader.view /\ reader'.who = reader.who
      /\ reader'.next = reader.next /\ reader'.more = reader.more
      /\ reader'.shown = reader.shown /\ reader'.days = reader.days /\ DOMAIN reader' = DOMAIN Closed
      /\ reader'.rows = FilmRows(reader.view, reader.who, reader.groups)
  <2>1. PICK rows : rows = FilmRows(reader.view, reader.who, reader.groups)
    OBVIOUS
  <2>2. PICK pc : pc = (IF reader.view = "timeline" THEN "entities" ELSE "served")
    OBVIOUS
  <2>3. reader' = [reader EXCEPT !.pc = pc, !.rows = rows]
    BY <2>1, <2>2, Zenon DEF FetchRows
  <2> QED
    BY <1>1, <2>1, <2>2, <2>3 DEF Closed
<1>3. /\ feed' = feed /\ TypeOK' /\ List \in SUBSET (DOMAIN feed)
      /\ steady' = steady \cap List /\ (shrunk' <=> shrunk)
      /\ \A i \in List : FeedVisible(i)
      /\ \A i : Place(i)' = Place(i) /\ (WithFilm(i)' <=> WithFilm(i))
  <2>1. reader'.pc # "closed"
    BY <1>2
  <2> QED
    BY <1>1, <1>2, <2>1, Reading
<1>4. Pending' = fetched /\ fetched \in SUBSET (DOMAIN feed)
  <2>1. fetched \in SUBSET (DOMAIN feed)
    BY DEF TitleScope, ReachByTitle
  <2>2. FilmRows(reader.view, reader.who, reader.groups) = RowsOf(NoVia, fetched)
    BY DEF FilmRows
  <2> HIDE DEF fetched
  <2>3. UNION {row.cards : row \in RowsOf(NoVia, fetched)} = fetched
    BY RowsHold
  <2> QED
    BY <1>2, <2>1, <2>2, <2>3 DEF Pending
<1>5. ReaderShape'
  <2> HIDE DEF fetched
  <2> QED
    BY <1>1, <1>2, <1>3, <1>4 DEF ReaderShape, Pcs, Views
<1>6. ASSUME NEW i \in steady', ~ shrunk' PROVE i \in reader'.shown \/ Ahead(i)' \/ Underway(i)'
  <2>1. /\ i \in List
        /\ \/ i \in reader.shown \/ Ahead(i)
           \/ WithFilm(i) /\ <<feed[i].film, feed[i].day>> \in reader.groups
           \/ ~ WithFilm(i) /\ OnDay(i)
    BY <1>1, <1>3, <1>6 DEF Found, Underway
  <2>2. CASE Ahead(i)
    BY <1>1, <1>2, <1>3, <2>2 DEF Ahead
  <2>3. CASE WithFilm(i) /\ <<feed[i].film, feed[i].day>> \in reader.groups
    <3>1. i \in TitleScope(reader.view, reader.who)
      BY <1>1, <1>3, <2>1, <2>3 DEF TitleScope, ReachByTitle, WithFilm
    <3>2. i \in fetched
      BY <1>3, <2>1, <2>3, <3>1 DEF FeedVisible
    <3> QED
      BY <1>2, <1>4, <3>2 DEF Underway
  <2>4. CASE ~ WithFilm(i) /\ OnDay(i)
    <3>1. reader.view = "timeline"
      BY <2>4 DEF WithFilm
    <3> QED
      BY <1>2, <1>3, <2>4, <3>1 DEF Underway, OnDay
  <2> QED
    BY <1>2, <2>1, <2>2, <2>3, <2>4
<1>7. Found' /\ Cursor'
  BY <1>1, <1>2, <1>6 DEF Found, Cursor
<1> QED
  BY <1>3, <1>5, <1>7

LEMMA FetchEntityRowsStep ==
    ASSUME WalkInv, UNCHANGED tables, Watched, FetchEntityRows
    PROVE  WalkInv'
<1> USE DEF WalkInv
<1> DEFINE found(e) == {i \in EntityCards(e) : FeedVisible(i) /\ feed[i].day \in reader.days}
           fetched == UNION {row.cards : row \in EntityRows(reader.who, reader.days)}
<1>1. /\ reader.pc = "entities" /\ reader.view = "timeline" /\ DOMAIN reader = DOMAIN Closed
      /\ reader.next \in Nat /\ reader.shown \subseteq DOMAIN feed /\ Pending \subseteq DOMAIN feed
  BY DEF FetchEntityRows, ReaderShape
<1>2. /\ reader'.pc = "served" /\ reader'.view = reader.view /\ reader'.who = reader.who
      /\ reader'.next = reader.next /\ reader'.more = reader.more
      /\ reader'.shown = reader.shown /\ reader'.days = reader.days /\ DOMAIN reader' = DOMAIN Closed
      /\ reader'.rows = reader.rows \cup EntityRows(reader.who, reader.days)
  <2>1. PICK rows : rows = EntityRows(reader.who, reader.days)
    OBVIOUS
  <2>2. reader' = [reader EXCEPT !.pc = "served", !.rows = @ \cup rows]
    BY <2>1, Zenon DEF FetchEntityRows
  <2> QED
    BY <1>1, <2>1, <2>2 DEF Closed
<1>3. /\ feed' = feed /\ TypeOK' /\ List \in SUBSET (DOMAIN feed)
      /\ List = OnTheList(reader.view, reader.who)
      /\ steady' = steady \cap List /\ (shrunk' <=> shrunk)
      /\ \A i \in List : FeedVisible(i)
      /\ \A i : Place(i)' = Place(i) /\ (WithFilm(i)' <=> WithFilm(i))
  BY <1>1, <1>2, Reading
<1>4. \A i : i \in fetched <=> \E e \in FollowedEntities(reader.who) : i \in found(e)
  <2>1. EntityRows(reader.who, reader.days) =
          UNION {RowsOf(e, found(e)) : e \in FollowedEntities(reader.who)}
    BY DEF EntityRows
  <2>2. \A e : UNION {row.cards : row \in RowsOf(e, found(e))} = found(e)
    <3> HIDE DEF found
    <3> QED
      BY RowsHold
  <2> HIDE DEF found
  <2>3. \A i, e : i \in found(e) <=> \E row \in RowsOf(e, found(e)) : i \in row.cards
    BY <2>2
  <2>4. \A row : row \in EntityRows(reader.who, reader.days) <=>
                 \E e \in FollowedEntities(reader.who) : row \in RowsOf(e, found(e))
    BY <2>1
  <2>5. \A i : i \in fetched <=> \E row \in EntityRows(reader.who, reader.days) : i \in row.cards
    OBVIOUS
  <2> HIDE DEF fetched
  <2> QED
    BY <2>3, <2>4, <2>5, Zenon
<1>5. Pending' = Pending \cup fetched
  BY <1>2 DEF Pending
<1>6. fetched \in SUBSET (DOMAIN feed)
  <2>1. \A e : found(e) \in SUBSET (DOMAIN feed)
    BY DEF EntityCards
  <2> HIDE DEF found, fetched
  <2> QED
    BY <1>4, <2>1
<1> HIDE DEF fetched
<1>7. ReaderShape'
  BY <1>1, <1>2, <1>3, <1>5, <1>6 DEF ReaderShape, Pcs, Views
<1>8. ASSUME NEW i \in steady', ~ shrunk' PROVE i \in reader'.shown \/ Ahead(i)' \/ Underway(i)'
  <2>1. i \in List /\ (i \in reader.shown \/ Ahead(i) \/ (~ WithFilm(i) /\ OnDay(i)) \/ i \in Pending)
    BY <1>1, <1>3, <1>8 DEF Found, Underway
  <2>2. CASE Ahead(i)
    BY <1>1, <1>2, <1>3, <2>2 DEF Ahead
  <2>3. CASE ~ WithFilm(i) /\ OnDay(i)
    <3>1. i \in ReachByEntity(reader.who)
      <4>1. i \in Scope(reader.who)
        BY <1>1, <1>3, <2>1 DEF OnTheList, Selected
      <4>2. i \notin ReachByTitle(reader.who)
        BY <2>3 DEF ReachByTitle, WithFilm
      <4> QED
        BY <4>1, <4>2 DEF Scope
    <3>2. PICK e \in FollowedEntities(reader.who) : i \in DOMAIN feed /\ Delivers(e, i)
      BY <3>1 DEF ReachByEntity, EntityPairs
    <3>3. i \in found(e)
      BY <1>3, <2>1, <2>3, <3>2 DEF EntityCards, OnDay
    <3>4. i \in fetched
      <4> HIDE DEF found
      <4> QED
        BY <1>4, <3>3
    <3> QED
      BY <1>2, <1>5, <3>4 DEF Underway
  <2>4. CASE i \in Pending
    BY <1>2, <1>5, <2>4 DEF Underway
  <2> QED
    BY <1>2, <2>1, <2>2, <2>3, <2>4
<1>9. Found' /\ Cursor'
  BY <1>1, <1>2, <1>8 DEF Found, Cursor
<1> QED
  BY <1>3, <1>7, <1>9

LEMMA TurnStep ==
    ASSUME WalkInv, UNCHANGED tables, Watched, Turn
    PROVE  WalkInv'
<1> USE DEF WalkInv
<1>1. /\ reader.pc = "served" /\ reader.view \in Views /\ DOMAIN reader = DOMAIN Closed
      /\ reader.next \in Nat /\ reader.shown \subseteq DOMAIN feed /\ Pending \subseteq DOMAIN feed
  BY DEF Turn, ReaderShape
<1>2. /\ reader'.pc = (IF reader.more THEN "page" ELSE "end")
      /\ reader'.view = reader.view /\ reader'.who = reader.who
      /\ reader'.next = reader.next /\ reader'.more = reader.more /\ reader'.rows = {}
      /\ reader'.shown = reader.shown \cup Pending /\ DOMAIN reader' = DOMAIN Closed
  <2>1. PICK pc : pc = (IF reader.more THEN "page" ELSE "end")
    OBVIOUS
  <2>2. reader' = [reader EXCEPT !.pc = pc, !.days = {}, !.groups = {}, !.rows = {},
                                 !.shown = @ \cup Pending]
    BY <2>1, Zenon DEF Turn, Served, Pending
  <2> QED
    BY <1>1, <2>1, <2>2 DEF Closed
<1>3. /\ feed' = feed /\ TypeOK' /\ List \in SUBSET (DOMAIN feed)
      /\ steady' = steady \cap List /\ (shrunk' <=> shrunk)
      /\ \A i : Place(i)' = Place(i)
  <2>1. reader'.pc # "closed"
    BY <1>2
  <2> QED
    BY <1>1, <1>2, <2>1, Reading
<1>4. Pending' = {}
  BY <1>2 DEF Pending
<1>5. ReaderShape'
  BY <1>1, <1>2, <1>3, <1>4 DEF ReaderShape, Pcs
<1>6. ASSUME NEW i \in steady', reader.view = "entity" \/ ~ shrunk'
      PROVE  i \in reader'.shown \/ Ahead(i)'
  <2>1. i \in reader.shown \/ Ahead(i) \/ i \in Pending
    BY <1>1, <1>3, <1>6 DEF Found, Underway
  <2>2. CASE Ahead(i)
    <3>1. reader.more /\ reader'.pc = "page"
      BY <1>1, <1>2, <2>2 DEF Ahead
    <3> QED
      BY <1>2, <1>3, <2>2, <3>1 DEF Ahead
  <2> QED
    BY <1>2, <2>1, <2>2
<1>7. Found'
  BY <1>2, <1>6 DEF Found
<1>8. Cursor'
  BY <1>1, <1>2, <1>4 DEF Cursor
<1> QED
  BY <1>3, <1>5, <1>7, <1>8

LEMMA CloseStep ==
    ASSUME WalkInv, UNCHANGED tables, Watched, Close
    PROVE  WalkInv'
<1> USE DEF WalkInv
<1>1. reader' = Closed /\ reader.pc # "closed"
  BY DEF Close
<1>2. reader'.rows = {} /\ reader'.shown = {} /\ reader'.pc = "closed" /\ reader'.view = "feed"
  BY <1>1 DEF Closed
<1>3. feed' = feed /\ TypeOK'
  BY Zenon DEF TypeOK, tables
<1>4. steady' = {}
  BY <1>1, <1>2 DEF Watched, List
<1>5. ReaderShape'
  BY <1>1, <1>2, <1>4 DEF ReaderShape, Closed, Pcs, Views, Pending
<1> QED
  BY <1>2, <1>3, <1>5 DEF Found, Cursor

\* What the others do moves nothing ahead of the reader, unless something leaves the list.
LEMMA WriteStep ==
    ASSUME WalkInv, TypeOK', reader' = reader,
           \A i \in DOMAIN feed : /\ i \in DOMAIN feed'
                                  /\ feed'[i].film = feed[i].film /\ feed'[i].day = feed[i].day,
           reader.pc \in {"groups", "rows", "entities"} => follows' = follows,
           Watched
    PROVE  WalkInv'
<1> USE DEF WalkInv
<1>1. Pending' = Pending /\ DOMAIN feed \subseteq DOMAIN feed'
  BY DEF Pending
<1>2. /\ List' \in SUBSET (DOMAIN feed') /\ List' \in SUBSET Nat /\ IsFiniteSet(List')
      /\ DaysOf(List)' \in SUBSET Nat /\ IsFiniteSet(DaysOf(List)')
  <2>1. TypeOK' => (/\ List \in SUBSET (DOMAIN feed) /\ List \in SUBSET Nat /\ IsFiniteSet(List)
                    /\ DaysOf(List) \in SUBSET Nat /\ IsFiniteSet(DaysOf(List))
                    /\ \A i \in List : FeedVisible(i) /\ feed[i].day \in Nat
                    /\ \A i \in List : Place(i) \in Nat)'
    BY ListShape, PTL
  <2> QED
    BY <2>1
<1>3. ReaderShape'
  <2>1. steady' \subseteq DOMAIN feed'
    BY <1>1, <1>2 DEF Watched, ReaderShape
  <2> QED
    BY <1>1, <2>1 DEF ReaderShape
<1>4. ASSUME reader.pc # "closed", NEW i \in steady', reader.view = "entity" \/ ~ shrunk'
      PROVE  i \in reader'.shown \/ Ahead(i)' \/ Underway(i)'
  <2>1. /\ i \in steady /\ i \in DOMAIN feed /\ feed'[i].film = feed[i].film /\ feed'[i].day = feed[i].day
        /\ (~ shrunk' => ~ shrunk /\ List \subseteq List')
    BY <1>4 DEF Watched, ReaderShape
  <2>2. i \in reader.shown \/ Ahead(i) \/ Underway(i)
    BY <1>4, <2>1 DEF Found
  <2>3. CASE Ahead(i) /\ reader.view = "entity"
    BY <2>3 DEF Ahead
  <2>4. CASE Ahead(i) /\ reader.view # "entity"
    <3>1. List \subseteq List'
      BY <1>4, <2>1, <2>4
    <3>2. DaysOf(List) \subseteq DaysOf(List)'
      <4>1. \A j \in List : j \in List' /\ feed'[j].day = feed[j].day
        BY <3>1, ListShape
      <4> QED
        BY <4>1 DEF DaysOf
    <3>3. Rank(List, i) <= Rank(List', i) /\ Rank(List, i) \in Nat /\ Rank(List', i) \in Nat
      BY <1>2, <2>1, <3>1, Cards, Ranks
    <3>4. /\ Rank(DaysOf(List), feed[i].day) <= Rank(DaysOf(List)', feed[i].day)
          /\ Rank(DaysOf(List), feed[i].day) \in Nat /\ Rank(DaysOf(List)', feed[i].day) \in Nat
      BY <1>2, <2>1, <3>2, Cards, Ranks
    <3>5. Place(i)' = IF reader.view = "feed" THEN Rank(List', i) ELSE Rank(DaysOf(List)', feed[i].day)
      BY <2>1 DEF Place, Rank, Before
    <3>6. Place(i) <= Place(i)' /\ Place(i) \in Nat /\ Place(i)' \in Nat
      BY <3>3, <3>4, <3>5 DEF Place
    <3>7. reader.next <= Place(i) /\ reader.next \in Nat
      BY <2>4 DEF Ahead, ReaderShape
    <3>8. reader.next <= Place(i)'
      BY <3>6, <3>7
    <3> QED
      BY <2>4, <3>8 DEF Ahead
  <2>5. CASE Underway(i)
    <3>1. OnDay(i)' <=> OnDay(i)
      BY <2>1 DEF OnDay
    <3>2. reader.pc \in {"rows", "entities"} => (WithFilm(i)' <=> WithFilm(i))
      BY <2>1 DEF WithFilm, TitleFilms
    <3> QED
      BY <1>1, <2>1, <2>5, <3>1, <3>2 DEF Underway
  <2> QED
    BY <2>2, <2>3, <2>4, <2>5
<1>5. Found' /\ Cursor'
  BY <1>1, <1>4 DEF Found, Cursor
<1> QED
  BY <1>3, <1>5

LEMMA WalkNext == WalkInv /\ [FeedNext]_feedVars => WalkInv'
<1> SUFFICES ASSUME WalkInv, [FeedNext]_feedVars PROVE WalkInv'
  OBVIOUS
<1>1. CASE UNCHANGED feedVars
  <2>1. UNCHANGED tables /\ reader' = reader /\ steady' = steady /\ shrunk' = shrunk
    BY <1>1 DEF feedVars
  <2>2. TypeOK'
    BY <2>1, Zenon DEF WalkInv, TypeOK, tables
  <2>3. ReaderShape' /\ Cursor'
    BY <2>1 DEF WalkInv, ReaderShape, Cursor, Pending, tables
  <2>4. Found'
    <3> SUFFICES ASSUME reader.pc # "closed", reader.view = "entity" \/ ~ shrunk, NEW i \in steady
                 PROVE  i \in reader'.shown \/ Ahead(i)' \/ Underway(i)'
      BY <2>1 DEF Found
    <3>1. List' = List
      <4>1. PICK view : view = reader.view
        OBVIOUS
      <4>2. PICK who : who = reader.who
        OBVIOUS
      <4>3. OnTheList(view, who)' = OnTheList(view, who)
        BY <2>1, SameList
      <4> QED
        BY <2>1, <4>1, <4>2, <4>3, Zenon DEF List
    <3>2. feed' = feed /\ follows' = follows
      BY <2>1 DEF tables
    <3>3. Place(i)' = Place(i) /\ (WithFilm(i)' <=> WithFilm(i))
      BY <2>1, <3>1, <3>2, Zenon DEF Place, Rank, Before, DaysOf, WithFilm, TitleFilms
    <3>4. i \in reader.shown \/ Ahead(i) \/ Underway(i)
      BY DEF WalkInv, Found
    <3> QED
      BY <2>1, <3>2, <3>3, <3>4 DEF Ahead, Underway, OnDay, Pending
  <2> QED
    BY <2>2, <2>3, <2>4 DEF WalkInv
<1>2. CASE FeedNext
  <2>1. Watched
    BY <1>2 DEF FeedNext
  <2>2. CASE \E view \in Views : \E who \in Owners(view) : Open(view, who) /\ UNCHANGED tables
    BY <2>1, <2>2, OpenStep
  <2>3. CASE Read /\ UNCHANGED tables
    BY <2>1, <2>3, FlatPageStep, EntityPageStep, DayWindowStep, FindGroupsStep, FetchRowsStep,
       FetchEntityRowsStep, TurnStep, CloseStep DEF Read
  <2>4. CASE Write
    BY <2>1, <2>4, WriteStep DEF Write
  <2> QED
    BY <1>2, <2>2, <2>3, <2>4 DEF FeedNext
<1> QED
  BY <1>1, <1>2

LEMMA WalkInvariance == FeedSpec => []WalkInv
BY WalkInit, WalkNext, PTL DEF FeedSpec

\* Whatever the other components do to the tables between the statements of a page and between
\* two pages: a walk by cursor meets every card that stays on the list and repeats none, and
\* one by offset does unless something leaves the list.
THEOREM WalksAreFaithful == FeedSpec => []WalkIsFaithful
<1>1. WalkInv => WalkIsFaithful
  <2> SUFFICES ASSUME WalkInv PROVE WalkIsFaithful
    OBVIOUS
  <2>1. ASSUME reader.pc = "end", reader.view = "entity" \/ ~ shrunk, NEW i \in steady
        PROVE  i \in reader.shown
    BY <2>1 DEF WalkInv, Found, Ahead, Underway, ReaderShape
  <2>2. ASSUME reader.pc = "served", reader.view = "entity", NEW row \in reader.rows
        PROVE  row.cards \cap reader.shown = {}
    BY <2>2 DEF WalkInv, Cursor, Pending
  <2> QED
    BY <2>1, <2>2 DEF WalkIsFaithful
<1> QED
  BY <1>1, WalkInvariance, PTL

\* Of the cards of a film that only stories tie to an entity's arrival, a follower gets one at
\* most, in whatever order outlets, resolutions and confirmations come.
THEOREM ArrivalsAreHeardOnce == FeedSpec => []ArrivalIsHeardOnce
<1>1. WalkInv => ArrivalIsHeardOnce
  BY HeardOnce DEF WalkInv
<1> QED
  BY <1>1, WalkInvariance, PTL

\* The timeline, the mail and the follows page give one answer about what a follow delivers.
THEOREM SurfacesAlwaysAgree == FeedSpec => []SurfacesAgree
<1>1. WalkInv => SurfacesAgree
  BY OneAnswer DEF WalkInv
<1> QED
  BY <1>1, WalkInvariance, PTL
-----------------------------------------------------------------------------
(***************************************************************************)
(* The polls.                                                              *)
(***************************************************************************)

\* The ledger has one row for each video, and a trailer's card is of a row that owed one.
OneRowEach == \A v, w \in seen : Identity(v) = Identity(w) => v = w
Owing(v)   == Cardable(v) /\ ~ v.baseline
CardsAreOwed == \A c \in trailers : \E v \in seen : Owing(v) /\ v.key = c.key
OwedAreCarded == \A v \in seen : Owing(v) => \E c \in trailers : c.key = v.key

\* Cards of a key of their own, at a moment of their own.
Apart(C) == \A c, d \in C : c.key = d.key \/ c.occurred = d.occurred => c = d

PollsInv ==
    /\ PollsTypeOK /\ EachTypeIsToldOnce
    /\ IsFiniteSet(trailers) /\ Apart(trailers)
    /\ OneRowEach /\ CardsAreOwed /\ OwedAreCarded

LEMMA PollConstants ==
    /\ LastKey \in Nat /\ Keys = 1..LastKey /\ Seconds \subseteq Nat /\ Unpublished = 0
    /\ Unpublished \notin Seconds
    /\ {} \in Offers /\ {} \in Listed
    /\ \A L \in Listed : L \subseteq Entry({"YouTube", "youtube", "Vimeo"})
BY PollsAssumption DEF Keys, Unpublished

\* Of as many moments as there are cards and one more, one is free.
LEMMA FreeMoment ==
    ASSUME NEW taken, IsFiniteSet(taken), NEW second
    PROVE  /\ Min(FreeAt(taken, second)) \in Nat
           /\ \A c \in taken : c.occurred # <<second, Min(FreeAt(taken, second))>>
<1> DEFINE n == Cardinality(taken)
           free == FreeAt(taken, second)
<1>1. n \in Nat
  BY FS_CardinalityType
<1>2. ASSUME free = {} PROVE FALSE
  <2>1. \A m \in 0..n : \E c \in taken : c.occurred = <<second, m>>
    BY <1>2 DEF FreeAt
  <2> DEFINE holder == [m \in 0..n |-> CHOOSE c \in taken : c.occurred = <<second, m>>]
  <2>2. \A m \in 0..n : holder[m] \in taken /\ holder[m].occurred = <<second, m>>
    BY <2>1
  <2>3. holder \in [0..n -> taken]
    BY <2>2
  <2>4. IsFiniteSet(0..n) /\ n < Cardinality(0..n)
    <3>1. 0 \in Int /\ n \in Int /\ ~ (0 > n)
      BY <1>1
    <3>2. IsFiniteSet(0..n) /\ Cardinality(0..n) = n - 0 + 1
      BY <3>1, FS_Interval
    <3> QED
      BY <1>1, <3>2
  <2>5. PICK a \in 0..n, b \in 0..n : a # b /\ holder[a] = holder[b]
    <3> HIDE DEF holder
    <3> QED
      BY <2>3, <2>4, FS_PigeonHole
  <2>6. <<second, a>> = <<second, b>>
    BY <2>2, <2>5
  <2> QED
    BY <2>5, <2>6
<1>3. free \in SUBSET Nat
  BY <1>1 DEF FreeAt
<1>4. Min(free) \in free
  BY <1>2, <1>3, MinIsLeast
<1> QED
  BY <1>3, <1>4 DEF FreeAt

\* The cards after each key's turn, up to n.
Carding(f, new, n) ==
    f = [k \in 0..n |->
           IF k = 0 THEN trailers
           ELSE f[k - 1] \cup {TrailerCard(f[k - 1], v) : v \in Candidates(new, k)}]

\* Turn by turn they are defined.
LEMMA EachHasItsTurn ==
    ASSUME NEW new, NEW n \in Nat
    PROVE  \E f : Carding(f, new, n)
<1> DEFINE Fails == {m \in 0..n : ~ \E f : Carding(f, new, m)}
<1>1. SUFFICES ASSUME Fails # {} PROVE FALSE
  OBVIOUS
<1>2. Fails \in SUBSET Nat
  OBVIOUS
<1>3. PICK m \in Fails : \A l \in Fails : m <= l
  BY <1>1, <1>2, MinIsLeast
<1>4. m \in Nat /\ m <= n /\ ~ \E f : Carding(f, new, m)
  OBVIOUS
<1>5. CASE m = 0
  <2> DEFINE g == [k \in 0..0 |-> trailers]
  <2>1. Carding(g, new, 0)
    BY DEF Carding
  <2> QED
    BY <1>4, <1>5, <2>1
<1>6. CASE m # 0
  <2>1. m - 1 \in 0..n /\ m - 1 \notin Fails
    BY <1>3, <1>4, <1>6
  <2>2. PICK f : Carding(f, new, m - 1)
    BY <2>1
  <2> DEFINE After(c, k) == c \cup {TrailerCard(c, v) : v \in Candidates(new, k)}
             g == [k \in 0..m |-> IF k = m THEN After(f[m - 1], m) ELSE f[k]]
  <2>3. \A k \in 0..(m - 1) : f[k] = IF k = 0 THEN trailers ELSE After(f[k - 1], k)
    BY <2>2 DEF Carding
  <2>4. \A k \in 0..m : g[k] = IF k = 0 THEN trailers ELSE After(g[k - 1], k)
    <3> HIDE DEF After
    <3>1. \A k \in 0..(m - 1) : k # m /\ k \in 0..m /\ (k # 0 => k - 1 \in 0..(m - 1))
      BY <1>4, <1>6
    <3>2. \A k \in 0..m : k = m \/ k \in 0..(m - 1)
      BY <1>4
    <3>3. m - 1 \in 0..(m - 1)
      BY <1>4, <1>6
    <3>4. \A k \in 0..(m - 1) : g[k] = f[k]
      BY <3>1
    <3>5. g[m] = After(f[m - 1], m) /\ g[m - 1] = f[m - 1]
      BY <1>4, <3>3, <3>4
    <3>6. \A k \in 0..(m - 1) : g[k] = IF k = 0 THEN trailers ELSE After(g[k - 1], k)
      BY <2>3, <3>1, <3>4
    <3> HIDE DEF g
    <3> QED
      BY <1>6, <3>2, <3>5, <3>6
  <2>5. g = [k \in 0..m |-> g[k]]
    OBVIOUS
  <2>6. Carding(g, new, m)
    <3> HIDE DEF g
    <3> QED
      BY <2>4, <2>5 DEF Carding
  <2> QED
    BY <1>4, <2>6
<1> QED
  BY <1>5, <1>6

TurnByTurn(f, new) ==
    /\ f[0] = trailers /\ CardTrailers(new) = f[LastKey]
    /\ \A k \in 1..LastKey :
          f[k] = f[k - 1] \cup {TrailerCard(f[k - 1], v) : v \in Candidates(new, k)}

LEMMA TrailersInTurn ==
    ASSUME NEW new
    PROVE  \E f : TurnByTurn(f, new)
<1> DEFINE f == CHOOSE f : Carding(f, new, LastKey)
<1>1. LastKey \in Nat
  BY PollConstants
<1>2. Carding(f, new, LastKey)
  BY <1>1, EachHasItsTurn
<1>3. CardTrailers(new) = f[LastKey]
  BY DEF CardTrailers, Carding
<1> HIDE DEF f
<1>4. \A k \in 0..LastKey :
         f[k] = IF k = 0 THEN trailers
                ELSE f[k - 1] \cup {TrailerCard(f[k - 1], v) : v \in Candidates(new, k)}
  BY <1>2 DEF Carding
<1>5. f[0] = trailers
  <2>1. 0 \in 0..LastKey
    BY <1>1
  <2> QED
    BY <1>4, <2>1, Zenon
<1>6. \A k \in 1..LastKey : k \in 0..LastKey /\ k # 0
  BY <1>1
<1> QED
  BY <1>3, <1>4, <1>5, <1>6 DEF TurnByTurn

TrailerCards == [key : Keys, occurred : Seconds \X Nat]

\* After the turn of key k: one card for each video up to k that owes one.
InTurn(C, new, k) ==
    /\ C \subseteq TrailerCards /\ IsFiniteSet(C) /\ Apart(C) /\ trailers \subseteq C
    /\ \A c \in C \ trailers : \E v \in new : Cardable(v) /\ v.key = c.key /\ v.key <= k
    /\ \A v \in new : Cardable(v) /\ v.key <= k => \E c \in C : c.key = v.key

\* What is new is typed, once for each key, and no card has told it.
Fresh(new) ==
    /\ \A v \in new : Cardable(v) => v.key \in Keys /\ v.published \in Seconds
    /\ \A v, w \in new : Cardable(v) /\ Cardable(w) /\ v.key = w.key => v = w
    /\ \A v \in new, c \in trailers : Cardable(v) => c.key # v.key

LEMMA OneTurn ==
    ASSUME NEW new, Fresh(new), NEW k \in 1..LastKey, NEW C, InTurn(C, new, k - 1)
    PROVE  InTurn(C \cup {TrailerCard(C, v) : v \in Candidates(new, k)}, new, k)
<1>1. LastKey \in Nat /\ k \in Nat /\ Keys = 1..LastKey /\ k \in Keys
  BY PollConstants
<1>2. \A v \in new : Cardable(v) => v.key \in Nat
  BY <1>1 DEF Fresh
<1>3. CASE Candidates(new, k) = {}
  <2>1. C \cup {TrailerCard(C, v) : v \in Candidates(new, k)} = C
    BY <1>3
  <2>2. \A v \in new : Cardable(v) => v.key # k
    BY <1>3 DEF Candidates
  <2>3. \A v \in new : Cardable(v) => (v.key <= k <=> v.key <= k - 1)
    BY <1>1, <1>2, <2>2
  <2>4. InTurn(C, new, k)
    BY <2>3 DEF InTurn
  <2> QED
    BY <2>1, <2>4
<1>4. CASE Candidates(new, k) # {}
  <2>1. PICK v \in new : Cardable(v) /\ v.key = k
    BY <1>4 DEF Candidates
  <2>2. Candidates(new, k) = {v}
    BY <2>1 DEF Candidates, Fresh
  <2> DEFINE t == TrailerCard(C, v)
             m == Min(FreeAt(C, v.published))
             D == C \cup {t}
  <2>3. C \cup {TrailerCard(C, w) : w \in Candidates(new, k)} = D
    BY <2>2
  <2>4. m \in Nat /\ \A c \in C : c.occurred # <<v.published, m>>
    BY FreeMoment DEF InTurn
  <2>5. t.key = k /\ t.occurred = <<v.published, m>> /\ t \in TrailerCards
    <3>1. t = [key |-> k, occurred |-> <<v.published, m>>]
      BY <2>1 DEF TrailerCard
    <3>2. <<v.published, m>> \in Seconds \X Nat
      BY <2>1, <2>4 DEF Fresh
    <3> HIDE DEF t, m
    <3> QED
      BY <1>1, <3>1, <3>2 DEF TrailerCards
  <2>6. \A c \in C : c.key # k
    <3>1. ASSUME NEW c \in C, c.key = k PROVE FALSE
      <4>1. CASE c \in trailers
        BY <2>1, <3>1, <4>1 DEF Fresh
      <4>2. CASE c \notin trailers
        <5>1. PICK w \in new : Cardable(w) /\ w.key = c.key /\ w.key <= k - 1
          BY <4>2 DEF InTurn
        <5> QED
          BY <1>1, <3>1, <5>1
      <4> QED
        BY <4>1, <4>2
    <3> QED
      BY <3>1
  <2> HIDE DEF t, m
  <2>7. D \subseteq TrailerCards /\ trailers \subseteq D
    BY <2>5 DEF InTurn
  <2>8. IsFiniteSet(D)
    BY FS_AddElement DEF InTurn
  <2>9. Apart(D)
    BY <2>4, <2>5, <2>6 DEF InTurn, Apart
  <2>10. ASSUME NEW c \in D \ trailers
         PROVE  \E w \in new : Cardable(w) /\ w.key = c.key /\ w.key <= k
    <3>1. CASE c = t
      BY <1>1, <2>1, <2>5, <3>1
    <3>2. CASE c \in C
      <4>1. PICK w \in new : Cardable(w) /\ w.key = c.key /\ w.key <= k - 1
        BY <2>10, <3>2 DEF InTurn
      <4> QED
        BY <1>1, <1>2, <4>1
    <3> QED
      BY <3>1, <3>2
  <2>11. ASSUME NEW w \in new, Cardable(w), w.key <= k
         PROVE  \E c \in D : c.key = w.key
    <3>1. CASE w.key = k
      BY <2>5, <3>1
    <3>2. CASE w.key # k
      <4>1. w.key <= k - 1
        BY <1>1, <1>2, <2>11, <3>2
      <4> QED
        BY <2>11, <4>1 DEF InTurn
    <3> QED
      BY <3>1, <3>2
  <2>12. InTurn(D, new, k)
    <3> HIDE DEF D
    <3> QED
      BY <2>7, <2>8, <2>9, <2>10, <2>11 DEF InTurn
  <2> QED
    BY <2>3, <2>12
<1> QED
  BY <1>3, <1>4

\* A batch of videos: every one that owes a card has one, at a moment of its own.
LEMMA BatchIsTold ==
    ASSUME NEW new, Fresh(new), trailers \subseteq TrailerCards, IsFiniteSet(trailers), Apart(trailers)
    PROVE  InTurn(CardTrailers(new), new, LastKey)
<1>0. PICK f : TurnByTurn(f, new)
  BY TrailersInTurn
<1>1. /\ f[0] = trailers /\ CardTrailers(new) = f[LastKey]
      /\ \A k \in 1..LastKey :
            f[k] = f[k - 1] \cup {TrailerCard(f[k - 1], v) : v \in Candidates(new, k)}
  BY <1>0, Zenon DEF TurnByTurn
<1>2. LastKey \in Nat /\ \A v \in new : Cardable(v) => v.key \in Nat /\ v.key >= 1
  BY PollConstants DEF Fresh
<1> DEFINE Fails == {k \in 0..LastKey : ~ InTurn(f[k], new, k)}
<1>3. ASSUME Fails # {} PROVE FALSE
  <2>1. Fails \in SUBSET Nat
    OBVIOUS
  <2>2. PICK k \in Fails : \A l \in Fails : k <= l
    BY <1>3, <2>1, MinIsLeast
  <2>3. k \in Nat /\ k <= LastKey /\ ~ InTurn(f[k], new, k)
    OBVIOUS
  <2>4. CASE k = 0
    <3>1. \A v \in new : Cardable(v) => ~ (v.key <= 0)
      BY <1>2
    <3>2. InTurn(trailers, new, 0)
      BY <3>1 DEF InTurn
    <3> QED
      BY <1>1, <2>3, <2>4, <3>2
  <2>5. CASE k # 0
    <3>1. k - 1 \in 0..LastKey /\ k \in 1..LastKey /\ k - 1 \notin Fails
      BY <1>2, <2>2, <2>3, <2>5
    <3>2. InTurn(f[k - 1], new, k - 1)
      BY <3>1
    <3>3. InTurn(f[k - 1] \cup {TrailerCard(f[k - 1], v) : v \in Candidates(new, k)}, new, k)
      BY <3>1, <3>2, OneTurn
    <3> QED
      BY <1>1, <2>3, <3>1, <3>3, Zenon
  <2> QED
    BY <2>4, <2>5
<1>4. LastKey \in 0..LastKey
  BY <1>2
<1> QED
  BY <1>1, <1>3, <1>4

LEMMA ProvidersStep ==
    ASSUME PollsInv, PollProviders
    PROVE  PollsInv'
<1>1. /\ ledger' = ledger \cup (offers \ ledger) /\ UNCHANGED <<offers, videos, seen, watched, trailers>>
      /\ available' = IF NewTypes = {} THEN available ELSE Append(available, NewTypes)
  BY DEF PollProviders, NewOffers, CardNowAvailable
<1>2. offers \subseteq FirstSeen /\ ledger \subseteq FirstSeen /\ available \in Seq(SUBSET Types(FirstSeen))
  BY DEF PollsInv, PollsTypeOK, FirstSeen
<1>3. NewTypes \subseteq Types(FirstSeen) /\ NewTypes \cap Types(ledger) = {}
  BY <1>2 DEF NewTypes, NewOffers, Types
<1>4. Types(ledger') = Types(ledger) \cup NewTypes
  BY <1>1 DEF NewTypes, NewOffers, Types
<1>5. /\ \A i, j \in DOMAIN available : i # j => available[i] \cap available[j] = {}
      /\ UNION ToSet(available) = Types(ledger)
  BY DEF PollsInv, EachTypeIsToldOnce
<1>6. \A i \in DOMAIN available : available[i] \subseteq Types(ledger)
  BY <1>5 DEF ToSet
<1>7. EachTypeIsToldOnce' /\ available' \in Seq(SUBSET Types(FirstSeen))
  <2>1. CASE NewTypes = {}
    BY <1>1, <1>2, <1>4, <1>5, <2>1 DEF EachTypeIsToldOnce
  <2>2. CASE NewTypes # {}
    <3> DEFINE n == Len(available)
    <3>1. available' = Append(available, NewTypes)
      BY <1>1, <2>2
    <3>2. /\ n \in Nat /\ DOMAIN available = 1..n /\ DOMAIN available' = 1..(n + 1)
          /\ \A i \in 1..n : available'[i] = available[i]
          /\ available'[n + 1] = NewTypes
          /\ available' \in Seq(SUBSET Types(FirstSeen))
      BY <1>2, <1>3, <3>1
    <3> HIDE DEF n
    <3>3. \A i \in 1..(n + 1) : i \in 1..n \/ i = n + 1
      BY <3>2
    <3>4. \A i, j \in DOMAIN available' : i # j => available'[i] \cap available'[j] = {}
      <4>1. \A i \in 1..n : available'[i] \cap NewTypes = {}
        BY <1>3, <1>6, <3>2
      <4> QED
        BY <1>5, <3>2, <3>3, <4>1
    <3>5. UNION ToSet(available') = Types(ledger')
      <4>1. ToSet(available') = ToSet(available) \cup {NewTypes}
        <5>1. ToSet(available') = {available'[i] : i \in 1..(n + 1)}
          BY <3>2 DEF ToSet
        <5>2. ToSet(available) = {available[i] : i \in 1..n}
          BY <3>2 DEF ToSet
        <5>3. \A i \in 1..n : i \in 1..(n + 1)
          BY <3>2
        <5>4. n + 1 \in 1..(n + 1)
          BY <3>2
        <5> QED
          BY <3>2, <3>3, <5>1, <5>2, <5>3, <5>4
      <4> QED
        BY <1>4, <1>5, <4>1
    <3> QED
      BY <3>2, <3>4, <3>5 DEF EachTypeIsToldOnce
  <2> QED
    BY <2>1, <2>2
<1>8. PollsTypeOK'
  BY <1>1, <1>2, <1>7 DEF PollsInv, PollsTypeOK, FirstSeen
<1> QED
  BY <1>1, <1>7, <1>8 DEF PollsInv, Apart, OneRowEach, CardsAreOwed, OwedAreCarded, Owing

\* What a payload comes to: rows of the ledger's sites.
LEMMA PayloadIs ==
    ASSUME PollsTypeOK, NEW V \in FromPayload
    PROVE  /\ V \subseteq Entry({"youtube", "vimeo"})
           /\ \A v, w \in V : Identity(v) = Identity(w) => v = w
<1>1. \A v \in videos : [v EXCEPT !.site = Folded(@)] \in Entry({"youtube", "vimeo"})
  BY PollConstants DEF PollsTypeOK, Entry, Folded
<1> QED
  BY <1>1 DEF FromPayload

\* The row of a video.
Seen(v) == [key |-> v.key, site |-> v.site, type |-> v.type, published |-> v.published,
            baseline |-> ~ watched]

LEMMA VideosStep ==
    ASSUME PollsInv, PollVideos
    PROVE  PollsInv'
<1>1. PICK V \in FromPayload :
        /\ seen' = seen \cup {Seen(v) : v \in NewVideos(V)}
        /\ trailers' = IF watched THEN CardTrailers(NewVideos(V)) ELSE trailers
  BY DEF PollVideos, Seen
<1>2. UNCHANGED <<offers, ledger, available, videos>> /\ watched' = TRUE
  BY DEF PollVideos
<1> DEFINE new == NewVideos(V)
<1>3. /\ new \subseteq Entry({"youtube", "vimeo"})
      /\ \A v, w \in new : Identity(v) = Identity(w) => v = w
      /\ \A v \in new, w \in seen : Identity(w) # Identity(v)
  BY PayloadIs DEF PollsInv, NewVideos
<1> HIDE DEF new
<1>4. watched \in BOOLEAN /\ seen \subseteq FilmVideo /\ trailers \subseteq TrailerCards
  BY DEF PollsInv, PollsTypeOK, TrailerCards
<1>5. \A v \in new : /\ Seen(v) \in FilmVideo /\ Identity(Seen(v)) = Identity(v)
                     /\ Seen(v).key = v.key /\ Seen(v).baseline = ~ watched
                     /\ Cardable(Seen(v)) <=> Cardable(v)
  <2>1. \A v \in new : v.key \in Keys /\ v.site \in {"youtube", "vimeo"} /\ v.type \in {"Trailer", "Teaser"}
                       /\ v.published \in Seconds \cup {Unpublished}
    BY <1>3 DEF Entry
  <2> QED
    BY <1>4, <2>1 DEF Seen, FilmVideo, Identity, Cardable, IsTrailer
<1>6. seen' \subseteq FilmVideo
  BY <1>1, <1>4, <1>5 DEF new
<1>7. OneRowEach'
  <2>1. \A v, w \in seen : Identity(v) = Identity(w) => v = w
    BY DEF PollsInv, OneRowEach
  <2>2. seen' = seen \cup {Seen(v) : v \in new}
    BY <1>1 DEF new
  <2> SUFFICES ASSUME NEW a \in seen', NEW b \in seen', Identity(a) = Identity(b) PROVE a = b
    BY DEF OneRowEach
  <2>3. CASE a \in seen /\ b \in seen
    BY <2>1, <2>3
  <2>4. ASSUME NEW v \in new, a = Seen(v), b \in seen PROVE FALSE
    BY <1>3, <1>5, <2>4
  <2>5. ASSUME NEW v \in new, b = Seen(v), a \in seen PROVE FALSE
    BY <1>3, <1>5, <2>5
  <2>6. ASSUME NEW v \in new, NEW w \in new, a = Seen(v), b = Seen(w) PROVE a = b
    BY <1>3, <1>5, <2>6
  <2> QED
    BY <2>2, <2>3, <2>4, <2>5, <2>6
<1>8. /\ trailers' \subseteq TrailerCards /\ IsFiniteSet(trailers') /\ Apart(trailers')
      /\ CardsAreOwed' /\ OwedAreCarded'
  <2>1. seen' = seen \cup {Seen(v) : v \in new}
    BY <1>1 DEF new
  <2>2. CASE ~ watched
    <3>1. trailers' = trailers /\ \A v \in new : ~ Owing(Seen(v))
      BY <1>1, <1>5, <2>2 DEF Owing
    <3> QED
      BY <1>4, <2>1, <3>1 DEF PollsInv, CardsAreOwed, OwedAreCarded
  <2>3. CASE watched
    <3>1. trailers' = CardTrailers(new) /\ \A v \in new : Owing(Seen(v)) <=> Cardable(v)
      BY <1>1, <1>5, <2>3 DEF Owing, new
    <3>2. \A v \in new : Cardable(v) => v.key \in Keys /\ v.published \in Seconds
      BY <1>3 DEF Entry, Cardable
    <3>3. \A v, w : Cardable(v) /\ Cardable(w) /\ v.key = w.key => Identity(v) = Identity(w)
      BY DEF Cardable, IsTrailer, Identity
    <3>4. Fresh(new)
      <4>1. \A v, w \in new : Cardable(v) /\ Cardable(w) /\ v.key = w.key => v = w
        BY <1>3, <3>3
      <4>2. ASSUME NEW v \in new, NEW c \in trailers, Cardable(v), c.key = v.key PROVE FALSE
        <5>1. PICK w \in seen : Owing(w) /\ w.key = c.key
          BY DEF PollsInv, CardsAreOwed
        <5> QED
          BY <1>3, <3>3, <4>2, <5>1 DEF Owing
      <4> QED
        BY <3>2, <4>1, <4>2 DEF Fresh
    <3>5. InTurn(trailers', new, LastKey)
      BY <1>4, <3>1, <3>4, BatchIsTold DEF PollsInv
    <3>6. \A v \in new : Cardable(v) => v.key <= LastKey
      BY <3>2, PollConstants
    <3>7. ASSUME NEW c \in trailers'
          PROVE  \E r \in seen' : Owing(r) /\ r.key = c.key
      <4>1. CASE c \in trailers
        BY <2>1, <4>1 DEF PollsInv, CardsAreOwed
      <4>2. CASE c \notin trailers
        <5>1. PICK v \in new : Cardable(v) /\ v.key = c.key
          BY <3>5, <4>2 DEF InTurn
        <5> QED
          BY <1>5, <2>1, <3>1, <5>1
      <4> QED
        BY <4>1, <4>2
    <3>8. ASSUME NEW r \in seen', Owing(r)
          PROVE  \E c \in trailers' : c.key = r.key
      <4>1. CASE r \in seen
        BY <3>5, <3>8, <4>1 DEF PollsInv, OwedAreCarded, InTurn
      <4>2. CASE r \notin seen
        <5>1. PICK v \in new : r = Seen(v)
          BY <2>1, <4>2
        <5> QED
          BY <1>5, <3>1, <3>5, <3>6, <3>8, <5>1 DEF InTurn
      <4> QED
        BY <4>1, <4>2
    <3> QED
      BY <3>5, <3>7, <3>8 DEF InTurn, CardsAreOwed, OwedAreCarded
  <2> QED
    BY <2>2, <2>3
<1>9. PollsTypeOK' /\ EachTypeIsToldOnce'
  BY <1>2, <1>6, <1>8 DEF PollsInv, PollsTypeOK, EachTypeIsToldOnce, TrailerCards
<1> QED
  BY <1>7, <1>8, <1>9 DEF PollsInv, Apart

LEMMA PollsNextHolds == PollsInv /\ [PollsNext]_pollVars => PollsInv'
<1> SUFFICES ASSUME PollsInv, [PollsNext]_pollVars PROVE PollsInv'
  OBVIOUS
<1>1. ASSUME UNCHANGED <<ledger, available, seen, watched, trailers>>,
             offers' \in Offers, videos' \in Listed
      PROVE  PollsInv'
  BY <1>1 DEF PollsInv, PollsTypeOK, EachTypeIsToldOnce, Apart, OneRowEach, CardsAreOwed, OwedAreCarded
<1>2. CASE Relist
  <2>1. offers' \in Offers /\ videos' \in Listed
    BY <1>2 DEF Relist, PollsInv, PollsTypeOK
  <2> QED
    BY <1>1, <1>2, <2>1 DEF Relist
<1>3. CASE UNCHANGED pollsVars
  BY <1>1, <1>3 DEF pollsVars, PollsInv, PollsTypeOK
<1> QED
  BY <1>2, <1>3, ProvidersStep, VideosStep DEF PollsNext, pollVars, pollsVars

LEMMA PollsInvInit == PollsInit => PollsInv
<1> SUFFICES ASSUME PollsInit PROVE PollsInv
  OBVIOUS
<1>1. /\ offers = {} /\ ledger = {} /\ available = <<>>
      /\ videos = {} /\ seen = {} /\ watched = FALSE /\ trailers = {}
  BY DEF PollsInit
<1>2. available \in Seq(SUBSET Types(FirstSeen)) /\ DOMAIN available = {}
  BY <1>1
<1>3. PollsTypeOK
  BY <1>1, <1>2, PollConstants DEF PollsTypeOK
<1>4. EachTypeIsToldOnce
  BY <1>1, <1>2 DEF EachTypeIsToldOnce, ToSet, Types
<1> QED
  BY <1>1, <1>3, <1>4, FS_EmptySet DEF PollsInv, Apart, OneRowEach, CardsAreOwed, OwedAreCarded

\* Every way a film can be had and every dated trailer after the baseline is told exactly
\* once, however offers and videos come, go and return, and whatever a batch holds
\* (run_provider_poll, run_video_poll).
THEOREM PollsAlwaysTellOnce == PollsSpec => []PollsTellOnce
<1>1. ASSUME PollsInv PROVE PollsTellOnce
  <2>1. ASSUME NEW v \in seen
        PROVE  Cardinality({c \in trailers : c.key = v.key /\ v.site = "youtube"})
                 = IF Cardable(v) /\ ~ v.baseline THEN 1 ELSE 0
    <3> DEFINE told == {c \in trailers : c.key = v.key /\ v.site = "youtube"}
    <3>1. CASE Owing(v)
      <4>1. PICK c \in trailers : c.key = v.key
        BY <1>1, <3>1 DEF PollsInv, OwedAreCarded
      <4>2. told = {c}
        BY <1>1, <3>1, <4>1 DEF PollsInv, Apart, Owing, Cardable, IsTrailer
      <4>3. Cardinality(told) = 1
        BY <4>2, FS_Singleton
      <4> QED
        BY <3>1, <4>3 DEF Owing
    <3>2. CASE ~ Owing(v)
      <4>1. ASSUME NEW c \in told PROVE FALSE
        <5>1. PICK w \in seen : Owing(w) /\ w.key = c.key
          BY <1>1 DEF PollsInv, CardsAreOwed
        <5>2. Identity(w) = Identity(v)
          BY <5>1 DEF Owing, Cardable, IsTrailer, Identity
        <5> QED
          BY <1>1, <3>2, <5>1, <5>2 DEF PollsInv, OneRowEach
      <4>2. told = {}
        BY <4>1
      <4>3. Cardinality(told) = 0
        BY <4>2, FS_EmptySet
      <4> QED
        BY <3>2, <4>3 DEF Owing
    <3> QED
      BY <3>1, <3>2
  <2>2. TrailersAreToldOnce
    BY <1>1, <2>1 DEF TrailersAreToldOnce, PollsInv, Apart
  <2> QED
    BY <1>1, <2>2 DEF PollsTellOnce, PollsInv
<1> QED
  BY <1>1, PollsInvInit, PollsNextHolds, PTL DEF PollsSpec
=============================================================================
