---------------------------- MODULE CreditsProofs ----------------------------
(***************************************************************************)
(* Credits, for any credits, films and persons, any windows and any number *)
(* of stories and failures: types, what a hold withholds, that a release   *)
(* is final, what a name on a card rests on, that a credit reverted inside *)
(* its quarantine stays silent, and what a removal corrects.               *)
(*                                                                         *)
(* What carries the silence is that time and the tables agree: a credit    *)
(* that is on its film although a removal is recorded has been added again *)
(* since (Returned), so a reverted row that passes the presence check is   *)
(* not the person's only one; and a row whose quarantine is over can no    *)
(* longer be reverted inside it.                                           *)
(*                                                                         *)
(* That the latest card is current rests on what each of two whole passes  *)
(* leaves behind: the first no departure to card (Departures), the second  *)
(* nobody who is back uncarded, unless the date was taken (Returns).       *)
(***************************************************************************)
EXTENDS Credits, FiniteSetTheorems, TLAPS

\* No change, and no pass, is dated after the day.
Days ==
    /\ sweep.at <= clock
    /\ \A r \in added \cup removed : r.at <= clock

\* A credit that was removed and is on its film was added again.
Returned ==
    \A u \in removed : u.credit \in live => \E v \in added : v.credit = u.credit /\ v.at > u.at

\* A row whose quarantine is over at `day`, and which, if it was reverted inside it, is not
\* the only attachment of its credit.
Outlasted(r, day) ==
    /\ r.at + Quarantine <= day
    /\ Reverted(r) => \E v \in added : v.credit = r.credit /\ v # r

\* What the pass is about to card.
Todo ==
    \A r \in sweep.todo :
        Outlasted(r, sweep.at) /\ ~OpenHold(r) /\ (Stamped(r) => r \in sweep.scooped)

\* Who is on an attachment card, and no story told of, has such a row.
Earned ==
    \A i \in 1..Len(cards) : cards[i].type \in Types =>
        \A p \in cards[i].names : <<cards[i].film, p>> \in told \/
            \E r \in GroupOf(added, cards[i].film, cards[i].type) :
                Person(r) = p /\ Outlasted(r, clock)

IInv == TypeOK /\ Days /\ Returned /\ HoldsWithhold /\ Todo /\ Earned
-----------------------------------------------------------------------------
(***************************************************************************)
(* Types.                                                                  *)
(***************************************************************************)

\* A finite set has a minimal element in any strict order.
LEMMA Minimal ==
    ASSUME NEW I, IsFiniteSet(I), I # {}, NEW R,
           \A i \in I : <<i, i>> \notin R,
           \A i, j, k \in I : <<i, j>> \in R /\ <<j, k>> \in R => <<i, k>> \in R
    PROVE  \E i \in I : \A j \in I : <<j, i>> \notin R
<1> DEFINE Below == [i \in I |-> {j \in I : <<j, i>> \in R}]
           Sets  == {Below[i] : i \in I}
<1>1. Sets \subseteq FiniteSubsetsOf(I) /\ Sets # {}
  <2>1. FiniteSubsetsOf(I) = SUBSET I
    BY FS_FiniteSubsetsOfFinite
  <2>2. \A i \in I : Below[i] \in SUBSET I
    OBVIOUS
  <2>3. ASSUME NEW X \in Sets PROVE X \in SUBSET I
    <3>1. PICK i \in I : X = Below[i]
      OBVIOUS
    <3> QED
      BY <2>2, <3>1, Zenon
  <2>4. Sets # {}
    <3>1. PICK i \in I : TRUE
      OBVIOUS
    <3>2. Below[i] \in Sets
      BY Zenon
    <3> HIDE DEF Sets
    <3> QED
      BY <3>2
  <2> HIDE DEF Sets
  <2> QED
    BY <2>1, <2>3, <2>4
<1>2. PICK X \in Sets : \A Y \in Sets : <<Y, X>> \notin StrictSubsetOrdering(I)
  BY <1>1, WFMin, FS_StrictSubsetOrderingWellFounded
<1>3. PICK i \in I : X = Below[i]
  OBVIOUS
<1>4. SUFFICES ASSUME NEW j \in I, <<j, i>> \in R
               PROVE  FALSE
  BY <1>3
<1>5. Below[j] \subseteq Below[i]
  BY <1>4, Zenon
<1>6. j \in Below[i] /\ j \notin Below[j]
  BY <1>4, Zenon
<1>7. <<Below[j], Below[i]>> \in StrictSubsetOrdering(I)
  BY <1>5, <1>6 DEF StrictSubsetOrdering
<1> QED
  BY <1>2, <1>3, <1>7

LEMMA SomeCards ==
    ASSUME TypeOK, NEW I \in SUBSET (1..Len(cards))
    PROVE  IsFiniteSet(I) /\ Len(cards) \in Nat /\ \A i \in I : i \in Nat /\ cards[i].at \in Nat
<1>1. cards \in Seq(Card) /\ Len(cards) \in Nat
  BY DEF TypeOK
<1>2. ASSUME NEW i \in I PROVE i \in Nat /\ cards[i].at \in Nat
  <2>1. cards[i] \in Card
    BY <1>1
  <2>2. cards[i].at \in 0..MaxTime
    BY <2>1 DEF Card
  <2> QED
    BY <1>1, <2>2, CreditsAssumption
<1>3. IsFiniteSet(I)
  <2>1. IsFiniteSet(1..Len(cards))
    BY <1>1, FS_Interval
  <2> QED
    BY <2>1, FS_Subset
<1> QED
  BY <1>1, <1>2, <1>3

\* Every set of cards has an earliest: the choice of stamp_prior_story_cards is defined.
LEMMA Earliest ==
    ASSUME TypeOK, NEW I \in SUBSET (1..Len(cards)), I # {}
    PROVE  \E i \in I : \A j \in I : NoOlder(j, i)
<1> DEFINE R == {x \in I \X I : ~ NoOlder(x[1], x[2])}
<1>1. \A i \in I : <<i, i>> \notin R
  BY SomeCards DEF NoOlder
<1>2. ASSUME NEW i \in I, NEW j \in I, NEW k \in I, <<i, j>> \in R, <<j, k>> \in R
      PROVE  <<i, k>> \in R
  <2>1. /\ cards[i].at \in Nat /\ cards[j].at \in Nat /\ cards[k].at \in Nat
        /\ i \in Nat /\ j \in Nat /\ k \in Nat
    BY SomeCards
  <2>2. ~ NoOlder(i, j) /\ ~ NoOlder(j, k)
    BY <1>2
  <2>3. ~ NoOlder(i, k)
    BY <2>1, <2>2 DEF NoOlder
  <2> QED
    BY <2>3
<1>3. \A i, j \in I : <<j, i>> \notin R => NoOlder(j, i)
  OBVIOUS
<1> HIDE DEF R
<1>4. \E i \in I : \A j \in I : <<j, i>> \notin R
  BY <1>1, <1>2, SomeCards, Minimal
<1> QED
  BY <1>3, <1>4

\* And a newest: what _latest_credit_event_types and the supersession read.
LEMMA HasNewest ==
    ASSUME TypeOK, NEW I \in SUBSET (1..Len(cards)), I # {}
    PROVE  Newest(I) # {}
<1> DEFINE R == {x \in I \X I : ~ NoOlder(x[2], x[1])}
<1>1. \A i \in I : <<i, i>> \notin R
  BY SomeCards DEF NoOlder
<1>2. ASSUME NEW i \in I, NEW j \in I, NEW k \in I, <<i, j>> \in R, <<j, k>> \in R
      PROVE  <<i, k>> \in R
  <2>1. /\ cards[i].at \in Nat /\ cards[j].at \in Nat /\ cards[k].at \in Nat
        /\ i \in Nat /\ j \in Nat /\ k \in Nat
    BY SomeCards
  <2>2. ~ NoOlder(j, i) /\ ~ NoOlder(k, j)
    BY <1>2
  <2>3. ~ NoOlder(k, i)
    BY <2>1, <2>2 DEF NoOlder
  <2> QED
    BY <2>3
<1>3. \A i, j \in I : <<j, i>> \notin R => NoOlder(i, j)
  OBVIOUS
<1> HIDE DEF R
<1>4. \E i \in I : \A j \in I : <<j, i>> \notin R
  BY <1>1, <1>2, SomeCards, Minimal
<1> QED
  BY <1>3, <1>4 DEF Newest

LEMMA Constants ==
    /\ \A c \in Credits : FilmOf[c] \in Films /\ PersonOf[c] \in Persons /\ TypeOf[c] \in Types
    /\ \A r \in Rows : /\ r.credit \in Credits /\ r.at \in 0..MaxTime
                       /\ Film(r) \in Films /\ Person(r) \in Persons /\ Type(r) \in Types
    /\ \A c \in Credits, d \in 0..MaxTime : [credit |-> c, at |-> d] \in Rows
BY CreditsAssumption DEF Films, Persons, Rows, Film, Person, Type

LEMMA TypeInit == Init => TypeOK
<1> SUFFICES ASSUME Init PROVE TypeOK
  OBVIOUS
<1>1. clock \in 0..MaxTime /\ stories \in 0..MaxStories /\ faults \in 0..MaxFaults
  BY CreditsAssumption DEF Init
<1>2. /\ live \subseteq Credits /\ added \subseteq Rows /\ removed \subseteq Rows
      /\ dated \subseteq Impossible /\ told \subseteq Films \X Persons /\ dropped \subseteq added
  BY DEF Init
<1>3. DOMAIN stamp = {} /\ DOMAIN hold = {} /\ cards \in Seq(Card) /\ Len(cards) = 0
  BY DEF Init
<1>4. sweep \in [pc : {"idle", "reconcile", "judge", "card", "remove"}, at : 0..MaxTime,
                 todo : SUBSET added, gone : SUBSET removed, scooped : SUBSET added,
                 clean : BOOLEAN]
  BY CreditsAssumption DEF Init, Idle
<1>5. swept \in [Credits -> 0..2]
  BY DEF Init
<1> QED
  BY <1>1, <1>2, <1>3, <1>4, <1>5 DEF TypeOK

\* The steps of a story, and those that leave the tables alone.
Story(f) ==
    \/ \E names \in SUBSET Persons :
          StoryCreates(f, names) \/ \E i \in 1..Len(cards) : StoryJoins(f, names, i)
    \/ \E i \in 1..Len(cards) : StoryAttaches(f, i)

Passing ==
    \/ Tick \/ StartSweep \/ LoadDetachments \/ EndSweep \/ SweepDies
    \/ \E f \in Films, type \in Types : GroupFails(f, type)
    \/ \E f \in Films, type \in Types, at \in 0..MaxTime : DetachmentFails(f, type, at)
    \/ UNCHANGED vars

LEMMA Actions ==
    ASSUME [Next]_vars
    PROVE  \/ \E f \in Films : \E present \in SUBSET {c \in Credits : FilmOf[c] = f} :
                 Observe(f, present)
           \/ \E f \in Films : Story(f)
           \/ \E r \in DOMAIN hold : AdminReleases(r)
           \/ Reconcile
           \/ \E outage \in BOOLEAN : Judge(outage)
           \/ \E f \in Films, type \in Types : CardGroup(f, type)
           \/ \E f \in Films, type \in Types, at \in 0..MaxTime : CardDetachment(f, type, at)
           \/ Passing
<1>1. CASE Next
  <2>1. \A f : {PersonOf[c] : c \in {d \in Credits : FilmOf[d] = f}} \subseteq Persons
    BY DEF Persons
  <2>2. ASSUME NEW f \in Films,
               NEW names \in SUBSET {PersonOf[c] : c \in {d \in Credits : FilmOf[d] = f}},
               StoryCreates(f, names) \/ \E i \in 1..Len(cards) : StoryJoins(f, names, i)
        PROVE  Story(f)
    <3>1. names \in SUBSET Persons
      BY <2>1
    <3> QED
      BY <3>1, <2>2 DEF Story
  <2>3. \A f \in Films, i \in 1..Len(cards) : StoryAttaches(f, i) => Story(f)
    BY DEF Story
  <2> QED
    BY <1>1, <2>2, <2>3, Zenon DEF Next, Passing
<1>2. CASE UNCHANGED vars
  BY <1>2 DEF Passing
<1> QED
  BY <1>1, <1>2

\* Cards are appended, and keep their film and type.
CardsGrow(by) ==
    /\ cards' \in Seq(Card) /\ Len(cards) <= Len(cards')
    /\ \A j \in 1..Len(cards) : /\ cards'[j].film = cards[j].film /\ cards'[j].type = cards[j].type
                               /\ cards'[j].by = cards[j].by
    /\ \A j \in (Len(cards) + 1)..Len(cards') : cards'[j].by = by

\* Only these names are new on a card, and only on cards of this film.
Names(f, new) ==
    \A j \in 1..Len(cards') : \A p \in cards'[j].names :
        \/ j \in 1..Len(cards) /\ p \in cards[j].names
        \/ cards'[j].film = f /\ p \in new

\* What a story writes: its card, and stamps that point at it.
LEMMA StoryWrites ==
    ASSUME TypeOK, NEW f \in Films, Story(f)
    PROVE  /\ CardsGrow("story") /\ stories < MaxStories
           /\ \E i \in 1..Len(cards'), names \in SUBSET Persons, new \in SUBSET Persons :
                 StampForward(f, i, names, new) /\ Names(f, new)
<1>1. cards \in Seq(Card) /\ Len(cards) \in Nat /\ clock \in 0..MaxTime
  BY DEF TypeOK
<1>2. \A j \in 1..Len(cards) : cards[j] \in Card /\ cards[j].names \in SUBSET Persons
  <2>1. \A j \in 1..Len(cards) : cards[j] \in Card
    BY <1>1
  <2> QED
    BY <2>1 DEF Card
<1>3. ASSUME NEW names \in SUBSET Persons, StoryCreates(f, names)
      PROVE  /\ CardsGrow("story") /\ stories < MaxStories
             /\ \E new \in SUBSET Persons :
                   StampForward(f, Len(cards'), new, new) /\ Names(f, new) /\ Len(cards') >= 1
  <2> DEFINE new == names \ Recorded(f)
             k   == [film |-> f, type |-> "casting", at |-> clock, names |-> new,
                     body |-> {}, by |-> "story", published |-> TRUE]
  <2>1. k \in Card
    BY <1>1 DEF Card, Types
  <2>2. /\ cards' = Append(cards, k) /\ StampForward(f, Len(cards) + 1, new, new)
        /\ stories < MaxStories
    BY <1>3 DEF StoryCreates
  <2>3. k.names = new /\ k.film = f /\ k.by = "story" /\ new \in SUBSET Persons
    OBVIOUS
  <2> HIDE DEF k, new
  <2>4. /\ Len(cards') = Len(cards) + 1 /\ cards'[Len(cards) + 1] = k
        /\ \A j \in 1..Len(cards) : cards'[j] = cards[j]
        /\ cards' \in Seq(Card)
    BY <1>1, <2>1, <2>2
  <2>5. CardsGrow("story")
    BY <1>1, <2>3, <2>4 DEF CardsGrow
  <2>6. Names(f, new)
    BY <1>1, <2>3, <2>4 DEF Names
  <2> QED
    BY <1>1, <2>2, <2>3, <2>4, <2>5, <2>6
<1>4. ASSUME NEW names \in SUBSET Persons, NEW i \in 1..Len(cards), StoryJoins(f, names, i)
      PROVE  /\ CardsGrow("story") /\ stories < MaxStories /\ i \in 1..Len(cards')
             /\ \E new \in SUBSET Persons, all \in SUBSET Persons :
                   StampForward(f, i, all, new) /\ Names(f, new)
  <2> DEFINE new == names \ Recorded(f)
             k   == [cards[i] EXCEPT !.names = @ \cup new]
  <2>1. /\ cards' = [cards EXCEPT ![i] = k]
        /\ StampForward(f, i, cards[i].names \cup new, new)
        /\ stories < MaxStories /\ cards[i].film = f
    BY <1>4 DEF StoryJoins, CatalogTargets, AttachCards
  <2>2. k \in Card
    BY <1>2 DEF Card
  <2>3. /\ k.names = cards[i].names \cup new /\ k.film = cards[i].film
        /\ k.type = cards[i].type /\ k.by = cards[i].by
        /\ new \in SUBSET Persons
    BY <1>2 DEF Card
  <2> HIDE DEF k, new
  <2>4. /\ Len(cards') = Len(cards) /\ cards'[i] = k
        /\ \A j \in 1..Len(cards) : j # i => cards'[j] = cards[j]
        /\ cards' \in Seq(Card)
    BY <1>1, <2>1, <2>2
  <2>5. CardsGrow("story")
    BY <1>1, <2>3, <2>4 DEF CardsGrow
  <2>6. Names(f, new)
    BY <1>1, <2>1, <2>3, <2>4 DEF Names
  <2> QED
    BY <1>2, <2>1, <2>3, <2>4, <2>5, <2>6
<1>5. ASSUME NEW i \in 1..Len(cards), StoryAttaches(f, i)
      PROVE  /\ CardsGrow("story") /\ stories < MaxStories /\ i \in 1..Len(cards')
             /\ StampForward(f, i, cards[i].names, {}) /\ Names(f, {})
  BY <1>1, <1>5 DEF StoryAttaches, CardsGrow, Names
<1>6. CASE \E names \in SUBSET Persons : StoryCreates(f, names)
  <2>1. Len(cards') \in Nat
    BY <1>3, <1>6 DEF CardsGrow
  <2> QED
    BY <1>3, <1>6, <2>1
<1>7. CASE \E names \in SUBSET Persons, i \in 1..Len(cards) : StoryJoins(f, names, i)
  BY <1>4, <1>7
<1>8. CASE \E i \in 1..Len(cards) : StoryAttaches(f, i)
  BY <1>2, <1>5, <1>8
<1> QED
  BY <1>6, <1>7, <1>8 DEF Story

\* What the sweep's attachment phase writes: the name of a row of the pass, at its date or
\* later.
LEMMA GroupWrites ==
    ASSUME TypeOK, NEW f \in Films, NEW type \in Types, CardGroup(f, type)
    PROVE  /\ CardsGrow("catalog")
           /\ \A j \in 1..Len(cards') : \A p \in cards'[j].names :
                 \/ j \in 1..Len(cards) /\ p \in cards[j].names
                 \/ /\ cards'[j].film = f /\ cards'[j].type = type
                    /\ \E r \in GroupOf(sweep.todo, f, type) :
                          Person(r) = p /\ r.at <= cards'[j].at
<1> DEFINE kept == Uncarded(GroupOf(sweep.todo, f, type))
<1>1. cards \in Seq(Card) /\ Len(cards) \in Nat
  BY DEF TypeOK
<1>2. sweep.todo \subseteq Rows /\ kept \subseteq sweep.todo
  BY DEF TypeOK, GroupOf, Uncarded
<1>3. kept \subseteq GroupOf(sweep.todo, f, type)
  BY DEF Uncarded
<1>4. CASE cards' = cards
  BY <1>1, <1>4 DEF CardsGrow
<1>5. ASSUME NEW last \in LatestOf(kept),
             cards' = Append(cards, [film |-> f, type |-> type, at |-> last.at,
                                     names |-> {Person(r) : r \in kept}, body |-> kept,
                                     by |-> "catalog", published |-> TRUE])
      PROVE  /\ CardsGrow("catalog")
             /\ \A j \in 1..Len(cards') : \A p \in cards'[j].names :
                   \/ j \in 1..Len(cards) /\ p \in cards[j].names
                   \/ /\ cards'[j].film = f /\ cards'[j].type = type
                      /\ \E r \in GroupOf(sweep.todo, f, type) :
                            Person(r) = p /\ r.at <= cards'[j].at
  <2> DEFINE k == [film |-> f, type |-> type, at |-> last.at,
                   names |-> {Person(r) : r \in kept}, body |-> kept,
                   by |-> "catalog", published |-> TRUE]
  <2>1. last \in kept /\ \A u \in kept : u.at <= last.at
    BY DEF LatestOf
  <2>2. last.at \in 0..MaxTime /\ {Person(r) : r \in kept} \subseteq Persons
    BY <1>2, <2>1, Constants
  <2>3. k \in Card
    <3> HIDE DEF kept
    <3> QED
      BY <1>2, <2>2 DEF Card
  <2>4. /\ k.film = f /\ k.type = type /\ k.by = "catalog" /\ k.at = last.at
        /\ \A p \in k.names : \E r \in kept : Person(r) = p
    OBVIOUS
  <2> HIDE DEF k, kept
  <2>5. /\ Len(cards') = Len(cards) + 1 /\ cards'[Len(cards) + 1] = k
        /\ \A j \in 1..Len(cards) : cards'[j] = cards[j]
        /\ cards' \in Seq(Card)
    BY <1>1, <1>5, <2>3 DEF k
  <2>6. CardsGrow("catalog")
    BY <1>1, <2>4, <2>5 DEF CardsGrow
  <2> QED
    BY <1>1, <1>3, <2>1, <2>4, <2>5, <2>6
<1> QED
  BY <1>4, <1>5, Zenon DEF CardGroup

\* The removal's card, and the marks on what it corrects (_card_detachment_group).
LEMMA RemovalWrites ==
    ASSUME TypeOK, NEW f \in Films, NEW type \in Types, NEW at \in 0..MaxTime,
           NEW names \in SUBSET Persons, cards' = CardsWithRemoval(f, type, at, names)
    PROVE  LET k == cards'[Len(cards) + 1] IN
           /\ cards' \in Seq(Card) /\ Len(cards') = Len(cards) + 1 /\ Len(cards) \in Nat
           /\ k.film = f /\ k.type = Removal[type] /\ k.at = at /\ k.names = names
           /\ k.by = "catalog" /\ k.published
           /\ \A j \in 1..Len(cards) :
                 /\ cards'[j].film = cards[j].film /\ cards'[j].type = cards[j].type
                 /\ cards'[j].by = cards[j].by /\ cards'[j].names = cards[j].names
                 /\ cards'[j].at = cards[j].at
                 /\ cards'[j].published <=>
                       cards[j].published /\ j \notin Corrected(f, type, at, names)
<1> DEFINE k == [film |-> f, type |-> Removal[type], at |-> at, names |-> names,
                 body |-> {}, by |-> "catalog", published |-> TRUE]
           marked == [i \in 1..Len(cards) |-> IF i \in Corrected(f, type, at, names)
                                             THEN [cards[i] EXCEPT !.published = FALSE]
                                             ELSE cards[i]]
<1>1. cards \in Seq(Card) /\ Len(cards) \in Nat
  BY DEF TypeOK
<1>2. k \in Card
  BY DEF Card
<1>3. \A i \in 1..Len(cards) :
         /\ marked[i] \in Card
         /\ marked[i].film = cards[i].film /\ marked[i].type = cards[i].type
         /\ marked[i].by = cards[i].by /\ marked[i].names = cards[i].names
         /\ marked[i].at = cards[i].at
         /\ marked[i].published <=>
               cards[i].published /\ i \notin Corrected(f, type, at, names)
  <2> SUFFICES ASSUME NEW i \in 1..Len(cards)
               PROVE  /\ marked[i] \in Card
                      /\ marked[i].film = cards[i].film /\ marked[i].type = cards[i].type
                      /\ marked[i].by = cards[i].by /\ marked[i].names = cards[i].names
                      /\ marked[i].at = cards[i].at
                      /\ marked[i].published <=>
                            cards[i].published /\ i \notin Corrected(f, type, at, names)
    OBVIOUS
  <2>1. cards[i] \in Card
    BY <1>1
  <2>2. CASE i \in Corrected(f, type, at, names)
    <3>1. marked[i] = [cards[i] EXCEPT !.published = FALSE]
      BY <2>2
    <3> QED
      BY <2>1, <2>2, <3>1 DEF Card
  <2>3. CASE i \notin Corrected(f, type, at, names)
    <3>1. marked[i] = cards[i]
      BY <2>3
    <3> HIDE DEF marked
    <3> QED
      BY <2>1, <2>3, <3>1
  <2> QED
    BY <2>2, <2>3
<1>4. cards' = Append(marked, k)
  BY DEF CardsWithRemoval
<1>5. marked = [i \in 1..Len(cards) |-> marked[i]]
  OBVIOUS
<1>6. /\ k.film = f /\ k.type = Removal[type] /\ k.at = at /\ k.names = names
      /\ k.by = "catalog" /\ k.published
  OBVIOUS
<1> HIDE DEF k, marked
<1>7. marked \in Seq(Card) /\ Len(marked) = Len(cards)
  BY <1>1, <1>3, <1>5
<1>8. /\ Len(cards') = Len(cards) + 1 /\ cards'[Len(cards) + 1] = k
      /\ \A j \in 1..Len(cards) : cards'[j] = marked[j]
      /\ cards' \in Seq(Card)
  BY <1>1, <1>2, <1>4, <1>7
<1> QED
  BY <1>1, <1>3, <1>6, <1>8

\* What its detachment phase writes: removals, whose types are no attachment's.
LEMMA DetachmentWrites ==
    ASSUME TypeOK, NEW f \in Films, NEW type \in Types, NEW at \in 0..MaxTime,
           CardDetachment(f, type, at)
    PROVE  /\ CardsGrow("catalog")
           /\ \A j \in 1..Len(cards') : \A p \in cards'[j].names :
                 \/ j \in 1..Len(cards) /\ p \in cards[j].names
                 \/ cards'[j].type \notin Types
           /\ \A j \in (Len(cards) + 1)..Len(cards') : cards'[j].type \notin Types
<1> DEFINE names == {Person(r) : r \in Departed({r \in GroupOf(sweep.gone, f, type) : r.at = at})}
<1>1. cards \in Seq(Card) /\ Len(cards) \in Nat
  BY DEF TypeOK
<1>2. names \subseteq Persons
  <2>1. sweep.gone \subseteq Rows
    BY DEF TypeOK
  <2> QED
    BY <2>1, Constants DEF Departed, GroupOf
<1>3. Removal[type] \in {Removal[t] : t \in Types} /\ Removal[type] \notin Types
  BY DEF Removal, Types
<1> HIDE DEF names
<1>4. CASE cards' = cards
  BY <1>1, <1>4 DEF CardsGrow
<1>5. CASE cards' = CardsWithRemoval(f, type, at, names)
  <2>1. CardsGrow("catalog")
    BY <1>2, <1>5, RemovalWrites DEF CardsGrow
  <2> QED
    BY <1>2, <1>3, <1>5, <2>1, RemovalWrites
<1> QED
  BY <1>4, <1>5, Zenon DEF CardDetachment, names

LEMMA TypeNext ==
    ASSUME TypeOK, [Next]_vars
    PROVE  TypeOK'
<1>1. ASSUME NEW f \in Films, NEW present \in SUBSET {c \in Credits : FilmOf[c] = f},
             Observe(f, present)
      PROVE  TypeOK'
  <2>1. added' \subseteq Rows /\ removed' \subseteq Rows
    BY <1>1, Constants DEF Observe, RecordChanges, TypeOK
  <2>2. added \subseteq added' /\ removed \subseteq removed' /\ live' \subseteq Credits
    BY <1>1 DEF Observe, RecordChanges, TypeOK
  <2>3. swept' \in [Credits -> 0..2]
    BY <1>1 DEF Observe, TypeOK
  <2>4. UNCHANGED <<clock, stamp, hold, dated, cards, sweep, stories, faults, told, dropped>>
    BY <1>1 DEF Observe
  <2> QED
    BY <2>1, <2>2, <2>3, <2>4 DEF TypeOK
<1>2. ASSUME NEW f \in Films, Story(f)
      PROVE  TypeOK'
  <2>1. CardsGrow("story") /\ stories < MaxStories
    BY <1>2, StoryWrites
  <2>2. PICK i \in 1..Len(cards'), names \in SUBSET Persons, new \in SUBSET Persons :
           StampForward(f, i, names, new)
    BY <1>2, StoryWrites
  <2>3. Published(f, names) \subseteq added
    BY DEF Published
  <2>4. /\ cards' \in Seq(Card) /\ Len(cards) \in Nat
        /\ Len(cards') \in Nat /\ Len(cards) <= Len(cards')
    BY <2>1 DEF CardsGrow, TypeOK
  <2>5. DOMAIN stamp' \subseteq added /\ \A r \in DOMAIN stamp' : stamp'[r] \in 1..Len(cards')
    BY <2>2, <2>3, <2>4 DEF StampForward, TypeOK, Stamped
  <2>6. told' \subseteq Films \X Persons
    <3>1. {Person(r) : r \in Published(f, names)} \subseteq Persons
      BY <2>3, Constants DEF TypeOK
    <3> QED
      BY <2>2, <3>1 DEF StampForward, TypeOK
  <2>7. stories' \in 0..MaxStories
    <3>1. stories' = stories + 1
      BY <2>2 DEF StampForward
    <3>2. stories \in 0..MaxStories /\ MaxStories \in Nat
      BY CreditsAssumption DEF TypeOK
    <3> QED
      BY <2>1, <3>1, <3>2
  <2>8. /\ sweep' = [sweep EXCEPT !.scooped = @ \cup (Published(f, names) \cap sweep.todo)]
        /\ UNCHANGED <<clock, live, added, removed, hold, dated, faults, dropped, swept>>
    BY <2>2 DEF StampForward
  <2> QED
    BY <2>3, <2>4, <2>5, <2>6, <2>7, <2>8 DEF TypeOK
<1>3. ASSUME NEW r \in DOMAIN hold, AdminReleases(r)
      PROVE  TypeOK'
  <2>1. DOMAIN hold' = DOMAIN hold /\ \A u \in DOMAIN hold' : hold'[u] \in Holds
    BY <1>3 DEF AdminReleases, TypeOK, Holds
  <2>2. swept' \in [Credits -> 0..2]
    <3>1. swept' = [swept EXCEPT ![r.credit] = 0]
      BY <1>3 DEF AdminReleases
    <3>2. swept \in [Credits -> 0..2] /\ 0 \in 0..2
      BY DEF TypeOK
    <3> QED
      BY <3>1, <3>2
  <2> QED
    BY <1>3, <2>1, <2>2 DEF AdminReleases, TypeOK
<1>4. CASE Reconcile
  <2>1. DOMAIN hold' = DOMAIN hold /\ \A u \in DOMAIN hold' : hold'[u] \in Holds
    BY <1>4 DEF Reconcile, TypeOK, Holds
  <2>2. swept' \in [Credits -> 0..2]
    BY <1>4 DEF Reconcile, TypeOK
  <2>3. sweep' = [sweep EXCEPT !.pc = "judge"]
    BY <1>4 DEF Reconcile
  <2> QED
    BY <1>4, <2>1, <2>2, <2>3 DEF Reconcile, TypeOK
<1>5. ASSUME NEW outage \in BOOLEAN, Judge(outage)
      PROVE  TypeOK'
  <2> DEFINE eligible == {r \in Backlog : Survives(r)}
             burst     == {r \in eligible : ~Immune(r) /\
                             Cardinality(FilmsReached(Person(r), r.at, Credits)) >= Burst}
             survivors == eligible \ burst
             dates     == {r \in survivors : ~Immune(r) /\ Person(r) \in dated'}
  <2>1. /\ hold' = [r \in DOMAIN hold \cup burst \cup dates |->
                       IF r \in burst THEN "burst" ELSE IF r \in dates THEN "dates" ELSE hold[r]]
        /\ sweep' = [sweep EXCEPT !.pc = "card", !.todo = survivors \ dates]
        /\ dated' = IF outage THEN dated
                    ELSE dated \cup (Impossible \cap {Person(r) : r \in survivors})
    BY <1>5, Zenon DEF Judge
  <2>2. burst \subseteq added /\ dates \subseteq added /\ survivors \subseteq added
    BY DEF Backlog
  <2>3. dated' \subseteq Impossible
    BY <2>1 DEF TypeOK
  <2> HIDE DEF eligible, burst, survivors, dates
  <2>4. DOMAIN hold' \subseteq added /\ \A u \in DOMAIN hold' : hold'[u] \in Holds
    BY <2>1, <2>2 DEF TypeOK, Holds, Open
  <2>5. Scooped \subseteq added /\ \A r \in Scooped : Scoop(r) \in 1..Len(cards)
    <3>1. ASSUME NEW r \in Scooped PROVE Scoop(r) \in 1..Len(cards)
      <4>1. StoryCards(r) \in SUBSET (1..Len(cards)) /\ StoryCards(r) # {}
        BY DEF StoryCards, AttachCards, Scooped
      <4>2. \E i \in StoryCards(r) : \A j \in StoryCards(r) : NoOlder(j, i)
        BY <4>1, Earliest
      <4> QED
        BY <4>1, <4>2 DEF Scoop
    <3> QED
      BY <3>1 DEF Scooped
  <2>6. stamp' = [r \in DOMAIN stamp \cup Scooped |-> IF Stamped(r) THEN stamp[r] ELSE Scoop(r)]
    BY <1>5 DEF Judge
  <2>7. DOMAIN stamp' \subseteq added /\ \A r \in DOMAIN stamp' : stamp'[r] \in 1..Len(cards)
    BY <2>5, <2>6 DEF TypeOK, Stamped
  <2>8. told' \subseteq Films \X Persons
    <3>1. {<<Film(r), Person(r)>> : r \in Scooped} \subseteq Films \X Persons
      BY <2>5, Constants DEF TypeOK
    <3> QED
      <4>1. told' = told \cup {<<Film(r), Person(r)>> : r \in Scooped}
        BY <1>5 DEF Judge
      <4> QED
        BY <3>1, <4>1 DEF TypeOK
  <2>9. faults' \in 0..MaxFaults
    <3>1. faults' = faults \/ (faults < MaxFaults /\ faults' = faults + 1)
      BY <1>5, Zenon DEF Judge
    <3>2. faults \in 0..MaxFaults /\ MaxFaults \in Nat
      BY CreditsAssumption DEF TypeOK
    <3> QED
      BY <3>1, <3>2
  <2>10. UNCHANGED <<clock, live, added, removed, cards, stories, dropped, swept>>
    BY <1>5 DEF Judge
  <2>11. sweep' \in [pc : {"idle", "reconcile", "judge", "card", "remove"}, at : 0..MaxTime,
                     todo : SUBSET added, gone : SUBSET removed, scooped : SUBSET added,
                     clean : BOOLEAN]
    BY <2>1, <2>2 DEF TypeOK
  <2> QED
    BY <2>3, <2>4, <2>7, <2>8, <2>9, <2>10, <2>11 DEF TypeOK
<1>6. ASSUME NEW f \in Films, NEW type \in Types, CardGroup(f, type)
      PROVE  TypeOK'
  <2>1. CardsGrow("catalog")
    BY <1>6, GroupWrites
  <2>2. /\ sweep' = [sweep EXCEPT !.todo = @ \ GroupOf(sweep.todo, f, type)]
        /\ UNCHANGED <<clock, live, added, removed, stamp, hold, dated, stories, faults,
                      told, swept>>
    BY <1>6 DEF CardGroup
  <2>3. /\ cards' \in Seq(Card) /\ Len(cards) \in Nat
        /\ Len(cards') \in Nat /\ Len(cards) <= Len(cards')
    BY <2>1 DEF CardsGrow, TypeOK
  <2>4. sweep' \in [pc : {"idle", "reconcile", "judge", "card", "remove"}, at : 0..MaxTime,
                    todo : SUBSET added, gone : SUBSET removed, scooped : SUBSET added,
                    clean : BOOLEAN]
    BY <2>2 DEF TypeOK
  <2>5. \A r \in DOMAIN stamp : stamp[r] \in 1..Len(cards')
    BY <2>3 DEF TypeOK
  <2>6. dropped' \subseteq added
    <3>1. dropped' = dropped \/ dropped' = dropped \cup Uncarded(GroupOf(sweep.todo, f, type))
      BY <1>6, Zenon DEF CardGroup
    <3> QED
      BY <3>1 DEF TypeOK, GroupOf, Uncarded
  <2> QED
    BY <2>2, <2>3, <2>4, <2>5, <2>6 DEF TypeOK
<1>7. ASSUME NEW f \in Films, NEW type \in Types, NEW at \in 0..MaxTime,
             CardDetachment(f, type, at)
      PROVE  TypeOK'
  <2>1. CardsGrow("catalog")
    BY <1>7, DetachmentWrites
  <2>2. PICK group : sweep' = [sweep EXCEPT !.gone = @ \ group]
    BY <1>7 DEF CardDetachment
  <2>3. UNCHANGED <<clock, live, added, removed, stamp, hold, dated, stories, faults, told, dropped,
                   swept>>
    BY <1>7 DEF CardDetachment
  <2>4. /\ cards' \in Seq(Card) /\ Len(cards) \in Nat
        /\ Len(cards') \in Nat /\ Len(cards) <= Len(cards')
    BY <2>1 DEF CardsGrow, TypeOK
  <2>5. sweep' \in [pc : {"idle", "reconcile", "judge", "card", "remove"}, at : 0..MaxTime,
                    todo : SUBSET added, gone : SUBSET removed, scooped : SUBSET added,
                    clean : BOOLEAN]
    BY <2>2 DEF TypeOK
  <2>6. \A r \in DOMAIN stamp : stamp[r] \in 1..Len(cards')
    BY <2>4 DEF TypeOK
  <2> QED
    BY <2>3, <2>4, <2>5, <2>6 DEF TypeOK
<1>8. CASE Passing
  <2>1. CASE Tick
    BY <2>1, CreditsAssumption DEF Tick, tables, TypeOK
  <2>2. CASE StartSweep
    BY <2>2 DEF StartSweep, tables, TypeOK, Idle
  <2>3. CASE LoadDetachments
    BY <2>3 DEF LoadDetachments, tables, TypeOK
  <2>4. CASE EndSweep
    BY <2>4, CreditsAssumption DEF EndSweep, tables, TypeOK, Idle
  <2>5. CASE SweepDies
    <3>1. faults' \in 0..MaxFaults
      <4>1. faults < MaxFaults /\ faults' = faults + 1
        BY <2>5 DEF SweepDies
      <4>2. faults \in 0..MaxFaults /\ MaxFaults \in Nat
        BY CreditsAssumption DEF TypeOK
      <4> QED
        BY <4>1, <4>2
    <3>2. sweep' \in [pc : {"idle", "reconcile", "judge", "card", "remove"}, at : 0..MaxTime,
                      todo : SUBSET added, gone : SUBSET removed, scooped : SUBSET added,
                      clean : BOOLEAN]
      BY <2>5, CreditsAssumption DEF SweepDies, Idle
    <3>3. UNCHANGED <<clock, tables, stories, told, dropped, swept>>
      BY <2>5 DEF SweepDies
    <3> QED
      BY <3>1, <3>2, <3>3 DEF tables, TypeOK
  <2>6. ASSUME NEW f \in Films, NEW type \in Types, GroupFails(f, type)
        PROVE  TypeOK'
    <3>1. PICK rest \in {sweep.todo \ GroupOf(sweep.todo, f, type), {}} :
             sweep' = [sweep EXCEPT !.todo = rest, !.clean = FALSE]
      BY <2>6, Zenon DEF GroupFails
    <3>2. rest \subseteq sweep.todo
      OBVIOUS
    <3>3. faults' \in 0..MaxFaults
      <4>1. faults < MaxFaults /\ faults' = faults + 1
        BY <2>6 DEF GroupFails
      <4>2. faults \in 0..MaxFaults /\ MaxFaults \in Nat
        BY CreditsAssumption DEF TypeOK
      <4> QED
        BY <4>1, <4>2
    <3>4. sweep' \in [pc : {"idle", "reconcile", "judge", "card", "remove"}, at : 0..MaxTime,
                      todo : SUBSET added, gone : SUBSET removed, scooped : SUBSET added,
                      clean : BOOLEAN]
      BY <3>1, <3>2 DEF TypeOK
    <3>5. UNCHANGED <<clock, tables, stories, told, dropped, swept>>
      BY <2>6 DEF GroupFails
    <3> QED
      BY <3>3, <3>4, <3>5 DEF tables, TypeOK
  <2>7. ASSUME NEW f \in Films, NEW type \in Types, NEW at \in 0..MaxTime,
               DetachmentFails(f, type, at)
        PROVE  TypeOK'
    <3>1. PICK rest \in SUBSET sweep.gone :
             sweep' = [sweep EXCEPT !.gone = rest, !.clean = FALSE]
      BY <2>7 DEF DetachmentFails
    <3>2. faults' \in 0..MaxFaults
      <4>1. faults < MaxFaults /\ faults' = faults + 1
        BY <2>7 DEF DetachmentFails
      <4>2. faults \in 0..MaxFaults /\ MaxFaults \in Nat
        BY CreditsAssumption DEF TypeOK
      <4> QED
        BY <4>1, <4>2
    <3>3. sweep' \in [pc : {"idle", "reconcile", "judge", "card", "remove"}, at : 0..MaxTime,
                      todo : SUBSET added, gone : SUBSET removed, scooped : SUBSET added,
                      clean : BOOLEAN]
      BY <3>1 DEF TypeOK
    <3>4. UNCHANGED <<clock, tables, stories, told, dropped, swept>>
      BY <2>7 DEF DetachmentFails
    <3> QED
      BY <3>2, <3>3, <3>4 DEF tables, TypeOK
  <2>8. CASE UNCHANGED vars
    BY <2>8 DEF vars, tables, TypeOK
  <2> QED
    BY <1>8, <2>1, <2>2, <2>3, <2>4, <2>5, <2>6, <2>7, <2>8 DEF Passing
<1> QED
  BY <1>1, <1>2, <1>3, <1>4, <1>5, <1>6, <1>7, <1>8, Actions
-----------------------------------------------------------------------------
(***************************************************************************)
(* The invariant.                                                          *)
(***************************************************************************)

\* The history only grows, by rows of the day; a pass keeps its date while it has work.
LEMMA History ==
    ASSUME TypeOK, Days, [Next]_vars
    PROVE  /\ added \subseteq added' /\ removed \subseteq removed'
           /\ \A u \in added' : u \in added \/ u.at = clock
           /\ \A u \in removed' : u \in removed \/ u.at = clock
           /\ clock <= clock' /\ sweep'.at <= clock'
           /\ sweep'.at = sweep.at \/ sweep'.todo = {}
<1>0. clock \in Nat /\ sweep.at \in Nat
  BY CreditsAssumption DEF TypeOK
<1> DEFINE Kept == UNCHANGED <<added, removed>> /\ clock <= clock' /\ sweep'.at <= clock'
                   /\ (sweep'.at = sweep.at \/ sweep'.todo = {})
<1>1. ASSUME NEW f \in Films, NEW present \in SUBSET {c \in Credits : FilmOf[c] = f},
             Observe(f, present)
      PROVE  /\ added \subseteq added' /\ removed \subseteq removed'
             /\ \A u \in added' : u \in added \/ u.at = clock
             /\ \A u \in removed' : u \in removed \/ u.at = clock
             /\ UNCHANGED <<clock, sweep>>
  BY <1>1 DEF Observe, RecordChanges
<1>2. ASSUME NEW f \in Films, Story(f)
      PROVE  Kept
  <2>1. PICK i \in 1..Len(cards'), names \in SUBSET Persons, new \in SUBSET Persons :
           StampForward(f, i, names, new)
    BY <1>2, StoryWrites
  <2> QED
    BY <1>0, <2>1 DEF StampForward, TypeOK, Days
<1>3. \A r \in DOMAIN hold : AdminReleases(r) => Kept
  BY <1>0 DEF AdminReleases, Days
<1>4. Reconcile => Kept
  BY <1>0 DEF Reconcile, TypeOK, Days
<1>5. ASSUME NEW outage \in BOOLEAN, Judge(outage)
      PROVE  Kept
  <2>1. UNCHANGED <<clock, added, removed>> /\ sweep'.at = sweep.at
    BY <1>5 DEF Judge, TypeOK
  <2> QED
    BY <1>0, <2>1 DEF Days
<1>6. \A f \in Films, type \in Types : CardGroup(f, type) => Kept
  BY <1>0 DEF CardGroup, TypeOK, Days
<1>7. \A f \in Films, type \in Types, at \in 0..MaxTime : CardDetachment(f, type, at) => Kept
  BY <1>0 DEF CardDetachment, TypeOK, Days
<1>8. ASSUME Passing
      PROVE  Kept
  <2>1. CASE Tick \/ UNCHANGED vars
    BY <1>0, <2>1 DEF Tick, vars, tables, Days
  <2>2. CASE StartSweep \/ EndSweep \/ SweepDies
    <3>1. UNCHANGED <<clock, added, removed>>
      BY <2>2 DEF StartSweep, EndSweep, SweepDies, tables
    <3>2. sweep'.todo = {} /\ sweep'.at \in {0, clock}
      <4>1. StartSweep => sweep'.todo = {} /\ sweep'.at = clock
        BY DEF StartSweep, Idle
      <4>2. EndSweep \/ SweepDies => sweep' = Idle
        BY DEF EndSweep, SweepDies
      <4> QED
        BY <2>2, <4>1, <4>2 DEF Idle
    <3> QED
      BY <1>0, <3>1, <3>2
  <2>3. CASE LoadDetachments
    BY <1>0, <2>3 DEF LoadDetachments, tables, TypeOK, Days
  <2>4. ASSUME NEW f \in Films, NEW type \in Types, GroupFails(f, type)
        PROVE  Kept
    BY <1>0, <2>4 DEF GroupFails, tables, TypeOK, Days
  <2>5. ASSUME NEW f \in Films, NEW type \in Types, NEW at \in 0..MaxTime,
               DetachmentFails(f, type, at)
        PROVE  Kept
    BY <1>0, <2>5 DEF DetachmentFails, tables, TypeOK, Days
  <2> QED
    BY <1>8, <2>1, <2>2, <2>3, <2>4, <2>5 DEF Passing
<1> QED
  <2>1. CASE Kept
    BY <2>1
  <2>2. CASE \E f \in Films : \E present \in SUBSET {c \in Credits : FilmOf[c] = f} :
                Observe(f, present)
    BY <1>0, <1>1, <2>2 DEF Days
  <2> HIDE DEF Kept
  <2> QED
    BY <1>2, <1>3, <1>4, <1>5, <1>6, <1>7, <1>8, <2>1, <2>2, Actions

LEMMA DaysNext ==
    ASSUME TypeOK, Days, [Next]_vars
    PROVE  Days'
<1>1. clock \in Nat /\ clock' \in Nat
  BY TypeNext, CreditsAssumption DEF TypeOK
<1>2. \A r \in added \cup removed : r.at \in Nat
  BY Constants, CreditsAssumption DEF TypeOK
<1> QED
  BY <1>1, <1>2, History DEF Days

\* Only an observation touches the credits and their history.
LEMMA Observed ==
    ASSUME TypeOK, [Next]_vars
    PROVE  \/ \E f \in Films : \E present \in SUBSET {c \in Credits : FilmOf[c] = f} :
                 Observe(f, present)
           \/ UNCHANGED <<live, added, removed>>
<1>1. \A f \in Films : Story(f) => UNCHANGED <<live, added, removed>>
  BY StoryWrites DEF StampForward
<1>2. \A r \in DOMAIN hold : AdminReleases(r) => UNCHANGED <<live, added, removed>>
  BY DEF AdminReleases
<1>3. Reconcile => UNCHANGED <<live, added, removed>>
  BY DEF Reconcile
<1>4. \A outage \in BOOLEAN : Judge(outage) => UNCHANGED <<live, added, removed>>
  BY DEF Judge
<1>5. \A f \in Films, type \in Types : CardGroup(f, type) => UNCHANGED <<live, added, removed>>
  BY DEF CardGroup
<1>6. \A f \in Films, type \in Types, at \in 0..MaxTime :
         CardDetachment(f, type, at) => UNCHANGED <<live, added, removed>>
  BY DEF CardDetachment
<1>7. Passing => UNCHANGED <<live, added, removed>>
  BY DEF Passing, Tick, StartSweep, LoadDetachments, EndSweep, SweepDies, GroupFails,
         DetachmentFails, vars, tables
<1> QED
  BY <1>1, <1>2, <1>3, <1>4, <1>5, <1>6, <1>7, Actions

LEMMA ReturnedNext ==
    ASSUME TypeOK, Days, Returned, [Next]_vars
    PROVE  Returned'
<1>1. ASSUME NEW f \in Films, NEW present \in SUBSET {c \in Credits : FilmOf[c] = f},
             Observe(f, present)
      PROVE  Returned'
  <2> DEFINE before == {c \in live : FilmOf[c] = f}
  <2>1. /\ live' = (live \ before) \cup present
        /\ added' = added \cup {[credit |-> c, at |-> clock] : c \in present \ before}
        /\ removed' = removed \cup {[credit |-> c, at |-> clock] : c \in before \ present}
        /\ \A r \in added \cup removed : Film(r) = f => r.at # clock
    BY <1>1 DEF Observe, RecordChanges
  <2>2. SUFFICES ASSUME NEW u \in removed', u.credit \in live'
                 PROVE  \E v \in added' : v.credit = u.credit /\ v.at > u.at
    BY DEF Returned
  <2>3. u \in removed
    <3>1. \A c \in before \ present : c \notin live'
      BY <2>1
    <3> QED
      BY <2>1, <2>2, <3>1
  <2>4. CASE u.credit \in live
    BY <2>1, <2>3, <2>4 DEF Returned
  <2>5. CASE u.credit \notin live
    <3>1. u.credit \in present \ before /\ Film(u) = f
      BY <2>1, <2>2, <2>5 DEF Film
    <3>2. u.at < clock
      <4>1. u.at \in Nat /\ clock \in Nat
        BY <2>3, Constants, CreditsAssumption DEF TypeOK
      <4>2. u.at <= clock /\ u.at # clock
        BY <2>1, <2>3, <3>1 DEF Days
      <4> QED
        BY <4>1, <4>2
    <3>3. [credit |-> u.credit, at |-> clock] \in added'
      BY <2>1, <3>1
    <3> QED
      BY <3>2, <3>3
  <2> QED
    BY <2>4, <2>5
<1>2. CASE UNCHANGED <<live, added, removed>>
  BY <1>2 DEF Returned
<1> QED
  BY <1>1, <1>2, Observed

\* Time alone cannot make a row that has outlasted its quarantine a reverted one.
LEMMA OutlastsOn ==
    ASSUME TypeOK, Days, [Next]_vars,
           NEW r \in added, NEW day \in Nat, NEW later \in Nat, day <= clock, day <= later,
           Outlasted(r, day)
    PROVE  /\ r.at + Quarantine <= later
           /\ Reverted(r)' => \E v \in added' : v.credit = r.credit /\ v # r
<1>1. /\ r.at \in Nat /\ clock \in Nat /\ Quarantine \in Nat
      /\ r.at + Quarantine <= day
  BY Constants, CreditsAssumption DEF TypeOK, Outlasted
<1>2. Reverted(r)' => Reverted(r)
  <2>1. ASSUME NEW u \in removed', u.at < r.at + Quarantine
        PROVE  u \in removed
    BY <1>1, <2>1, History
  <2> QED
    BY <2>1 DEF Reverted
<1> QED
  BY <1>1, <1>2, History DEF Outlasted

LEMMA JudgeWrites ==
    ASSUME TypeOK, NEW outage \in BOOLEAN, Judge(outage)
    PROVE  /\ \A r \in sweep'.todo : /\ r \in Backlog /\ Survives(r)
                                     /\ ~OpenHold(r)' /\ ~Stamped(r)'
           /\ \A r : OpenHold(r)' => OpenHold(r) \/ r \in Backlog
           /\ \A r : Stamped(r)' => Stamped(r) \/ r \in Scooped
           /\ UNCHANGED <<clock, live, added, removed, cards>> /\ told \subseteq told'
           /\ sweep'.at = sweep.at
<1> DEFINE eligible == {r \in Backlog : Survives(r)}
           burst     == {r \in eligible : ~Immune(r) /\
                           Cardinality(FilmsReached(Person(r), r.at, Credits)) >= Burst}
           survivors == eligible \ burst
           dates     == {r \in survivors : ~Immune(r) /\ Person(r) \in dated'}
<1>1. /\ hold' = [r \in DOMAIN hold \cup burst \cup dates |->
                     IF r \in burst THEN "burst" ELSE IF r \in dates THEN "dates" ELSE hold[r]]
      /\ sweep' = [sweep EXCEPT !.pc = "card", !.todo = survivors \ dates]
      /\ stamp' = [r \in DOMAIN stamp \cup Scooped |-> IF Stamped(r) THEN stamp[r] ELSE Scoop(r)]
  BY Zenon DEF Judge
<1>2. UNCHANGED <<clock, live, added, removed, cards>> /\ told \subseteq told'
  BY DEF Judge
<1>3. /\ burst \subseteq eligible /\ dates \subseteq survivors /\ survivors = eligible \ burst
      /\ \A r \in eligible : r \in Backlog /\ Survives(r)
  OBVIOUS
<1>4. \A r \in Backlog : ~OpenHold(r) /\ ~Stamped(r) /\ r \notin Scooped
  BY DEF Backlog, Pending
<1> HIDE DEF eligible, burst, survivors, dates
<1>5. \A r : OpenHold(r)' => r \in burst \/ r \in dates \/ OpenHold(r)
  BY <1>1 DEF OpenHold
<1>6. \A r : Stamped(r)' => Stamped(r) \/ r \in Scooped
  BY <1>1 DEF Stamped
<1>7. sweep'.todo = survivors \ dates /\ sweep'.at = sweep.at
  BY <1>1 DEF TypeOK
<1> QED
  BY <1>2, <1>3, <1>4, <1>5, <1>6, <1>7

\* Every other step opens no hold, stamps no row and gives the pass no work.
LEMMA Quiet ==
    ASSUME TypeOK, [Next]_vars
    PROVE  \/ \E f \in Films : Story(f)
           \/ \E outage \in BOOLEAN : Judge(outage)
           \/ /\ \A r : OpenHold(r)' => OpenHold(r)
              /\ stamp' = stamp
              /\ \/ sweep'.todo = {}
                 \/ /\ sweep'.todo \subseteq sweep.todo
                    /\ sweep'.at = sweep.at /\ sweep'.scooped = sweep.scooped
<1> DEFINE Settling ==
      \/ sweep'.todo = {}
      \/ /\ sweep'.todo \subseteq sweep.todo
         /\ sweep'.at = sweep.at /\ sweep'.scooped = sweep.scooped
<1>1. ASSUME NEW f \in Films, NEW present \in SUBSET {c \in Credits : FilmOf[c] = f},
             Observe(f, present)
      PROVE  UNCHANGED <<hold, stamp>> /\ Settling
  BY <1>1 DEF Observe
<1>2. ASSUME NEW r \in DOMAIN hold, AdminReleases(r)
      PROVE  (\A u : OpenHold(u)' => OpenHold(u)) /\ stamp' = stamp /\ Settling
  <2>1. \A u : OpenHold(u)' => OpenHold(u)
    BY <1>2 DEF AdminReleases, OpenHold, Open
  <2> QED
    BY <1>2, <2>1 DEF AdminReleases
<1>3. ASSUME Reconcile
      PROVE  (\A u : OpenHold(u)' => OpenHold(u)) /\ stamp' = stamp /\ Settling
  <2>1. \A u : OpenHold(u)' => OpenHold(u)
    BY <1>3 DEF Reconcile, OpenHold, Open
  <2> QED
    BY <1>3, <2>1 DEF Reconcile, TypeOK
<1>4. \A f \in Films, type \in Types : CardGroup(f, type) => UNCHANGED <<hold, stamp>> /\ Settling
  BY DEF CardGroup, TypeOK
<1>5. \A f \in Films, type \in Types, at \in 0..MaxTime :
         CardDetachment(f, type, at) => UNCHANGED <<hold, stamp>> /\ Settling
  BY DEF CardDetachment, TypeOK
<1>6. ASSUME Passing
      PROVE  UNCHANGED <<hold, stamp>> /\ Settling
  <2>1. CASE Tick \/ UNCHANGED vars
    BY <2>1 DEF Tick, vars, tables
  <2>2. CASE StartSweep
    BY <2>2 DEF StartSweep, tables, Idle
  <2>3. CASE EndSweep \/ SweepDies
    BY <2>3 DEF EndSweep, SweepDies, tables, Idle
  <2>4. CASE LoadDetachments
    BY <2>4 DEF LoadDetachments, tables, TypeOK
  <2>5. ASSUME NEW f \in Films, NEW type \in Types, GroupFails(f, type)
        PROVE  UNCHANGED <<hold, stamp>> /\ Settling
    BY <2>5 DEF GroupFails, tables, TypeOK
  <2>6. ASSUME NEW f \in Films, NEW type \in Types, NEW at \in 0..MaxTime,
               DetachmentFails(f, type, at)
        PROVE  UNCHANGED <<hold, stamp>> /\ Settling
    BY <2>6 DEF DetachmentFails, tables, TypeOK
  <2> QED
    BY <1>6, <2>1, <2>2, <2>3, <2>4, <2>5, <2>6 DEF Passing
<1>7. UNCHANGED hold => \A r : OpenHold(r)' => OpenHold(r)
  BY DEF OpenHold
<1> HIDE DEF Settling
<1>8. \/ \E f \in Films : Story(f)
      \/ \E outage \in BOOLEAN : Judge(outage)
      \/ (\A r : OpenHold(r)' => OpenHold(r)) /\ stamp' = stamp /\ Settling
  BY <1>1, <1>2, <1>3, <1>4, <1>5, <1>6, <1>7, Actions
<1> QED
  BY <1>8 DEF Settling

\* A story's stamps go to rows that nobody holds, and the pass will know of them.
LEMMA StoryStamps ==
    ASSUME TypeOK, NEW f \in Films, Story(f)
    PROVE  /\ \A r : Stamped(r)' => \/ Stamped(r)
                                    \/ /\ r \in added /\ ~OpenHold(r)
                                       /\ r \in sweep.todo => r \in sweep'.scooped
           /\ \A r : OpenHold(r)' => OpenHold(r)
           /\ sweep'.todo = sweep.todo /\ sweep'.at = sweep.at
           /\ sweep.scooped \subseteq sweep'.scooped
<1>1. PICK i \in 1..Len(cards'), names \in SUBSET Persons, new \in SUBSET Persons :
         StampForward(f, i, names, new)
  BY StoryWrites
<1>2. \A r \in Published(f, names) : r \in added /\ ~OpenHold(r)
  BY DEF Published, Pending
<1>3. /\ DOMAIN stamp' = DOMAIN stamp \cup Published(f, names)
      /\ sweep' = [sweep EXCEPT !.scooped = @ \cup (Published(f, names) \cap sweep.todo)]
      /\ hold' = hold
  BY <1>1 DEF StampForward
<1>4. sweep'.scooped = sweep.scooped \cup (Published(f, names) \cap sweep.todo)
  BY <1>3 DEF TypeOK
<1>5. sweep'.todo = sweep.todo /\ sweep'.at = sweep.at
  BY <1>3 DEF TypeOK
<1>6. \A r : OpenHold(r)' => OpenHold(r)
  BY <1>3 DEF OpenHold
<1>7. ASSUME NEW r, Stamped(r)', ~Stamped(r)
      PROVE  r \in added /\ ~OpenHold(r) /\ (r \in sweep.todo => r \in sweep'.scooped)
  <2>1. r \in Published(f, names)
    BY <1>3, <1>7 DEF Stamped
  <2> QED
    BY <1>2, <1>4, <2>1
<1>8. sweep.scooped \subseteq sweep'.scooped
  BY <1>4
<1> QED
  BY <1>5, <1>6, <1>7, <1>8

LEMMA HoldsNext ==
    ASSUME TypeOK, HoldsWithhold, [Next]_vars
    PROVE  HoldsWithhold'
<1>1. ASSUME NEW r, OpenHold(r) PROVE r \in added /\ ~Stamped(r) /\ r \notin sweep.todo
  BY <1>1 DEF TypeOK, HoldsWithhold, OpenHold
<1>2. ASSUME NEW f \in Films, Story(f)
      PROVE  HoldsWithhold'
  BY <1>1, <1>2, StoryStamps DEF HoldsWithhold
<1>3. ASSUME NEW outage \in BOOLEAN, Judge(outage)
      PROVE  HoldsWithhold'
  <2>1. \A r : OpenHold(r) \/ r \in Backlog => ~Stamped(r) /\ r \notin Scooped
    BY <1>1 DEF Backlog, Scooped, Pending
  <2> QED
    BY <1>3, <2>1, JudgeWrites DEF HoldsWithhold
<1>4. CASE /\ \A r : OpenHold(r)' => OpenHold(r)
           /\ stamp' = stamp
           /\ sweep'.todo = {} \/ sweep'.todo \subseteq sweep.todo
  BY <1>1, <1>4 DEF HoldsWithhold, Stamped
<1> QED
  BY <1>2, <1>3, <1>4, Quiet

LEMMA TodoNext ==
    ASSUME TypeOK, Days, Returned, Todo, [Next]_vars
    PROVE  Todo'
<1>1. /\ clock \in Nat /\ sweep.at \in Nat /\ sweep.at <= clock /\ sweep.todo \subseteq added
      /\ Quarantine \in Nat
  BY CreditsAssumption DEF TypeOK, Days
<1>2. ASSUME NEW r \in sweep.todo, sweep'.at = sweep.at
      PROVE  Outlasted(r, sweep.at)'
  <2>1. Outlasted(r, sweep.at)
    BY DEF Todo
  <2>2. /\ r.at + Quarantine <= sweep.at
        /\ Reverted(r)' => \E v \in added' : v.credit = r.credit /\ v # r
    BY <1>1, <2>1, OutlastsOn
  <2> QED
    BY <1>2, <2>2 DEF Outlasted
<1>3. ASSUME NEW f \in Films, Story(f)
      PROVE  Todo'
  <2>1. SUFFICES ASSUME NEW r \in sweep'.todo
                 PROVE  (/\ Outlasted(r, sweep.at) /\ ~OpenHold(r)
                         /\ Stamped(r) => r \in sweep.scooped)'
    BY DEF Todo
  <2>2. r \in sweep.todo /\ Outlasted(r, sweep.at)'
    BY <1>2, <1>3, StoryStamps
  <2>3. ~OpenHold(r) /\ (Stamped(r) => r \in sweep.scooped)
    BY <2>2 DEF Todo
  <2>4. ~OpenHold(r)' /\ (Stamped(r)' => r \in sweep'.scooped)
    BY <1>3, <2>2, <2>3, StoryStamps
  <2> QED
    BY <2>2, <2>4
<1>4. ASSUME NEW outage \in BOOLEAN, Judge(outage)
      PROVE  Todo'
  <2>1. SUFFICES ASSUME NEW r \in sweep'.todo
                 PROVE  (/\ Outlasted(r, sweep.at) /\ ~OpenHold(r)
                         /\ Stamped(r) => r \in sweep.scooped)'
    BY DEF Todo
  <2>2. /\ r \in Backlog /\ Survives(r) /\ ~OpenHold(r)' /\ ~Stamped(r)'
        /\ UNCHANGED <<live, added, removed>> /\ sweep'.at = sweep.at
    BY <1>4, <2>1, JudgeWrites
  <2>3. r \in Rows /\ r.at \in Nat /\ r.at + Quarantine <= sweep.at /\ r.credit \in live
    BY <2>2, Constants, CreditsAssumption DEF Backlog, Survives, TypeOK
  <2>4. ASSUME NEW u \in removed, u.credit = r.credit, r.at < u.at
        PROVE  \E v \in added : v.credit = r.credit /\ v # r
    <3>1. PICK v \in added : v.credit = u.credit /\ v.at > u.at
      BY <2>3, <2>4 DEF Returned
    <3>2. v.at \in Nat /\ u.at \in Nat
      BY Constants, CreditsAssumption DEF TypeOK
    <3> QED
      BY <2>3, <2>4, <3>1, <3>2
  <2>5. Outlasted(r, sweep.at)'
    BY <2>2, <2>3, <2>4 DEF Outlasted, Reverted
  <2> QED
    BY <2>2, <2>5
<1>5. CASE /\ \A r : OpenHold(r)' => OpenHold(r)
           /\ stamp' = stamp
           /\ sweep'.todo \subseteq sweep.todo
           /\ sweep'.at = sweep.at /\ sweep'.scooped = sweep.scooped
  <2>1. SUFFICES ASSUME NEW r \in sweep'.todo
                 PROVE  (/\ Outlasted(r, sweep.at) /\ ~OpenHold(r)
                         /\ Stamped(r) => r \in sweep.scooped)'
    BY DEF Todo
  <2>2. ~OpenHold(r) /\ (Stamped(r) => r \in sweep.scooped)
    BY <1>5, <2>1 DEF Todo
  <2>3. ~OpenHold(r)' /\ (Stamped(r)' => r \in sweep'.scooped)
    BY <1>5, <2>2 DEF Stamped
  <2> QED
    BY <1>2, <1>5, <2>1, <2>3
<1>6. CASE sweep'.todo = {}
  BY <1>6 DEF Todo
<1> QED
  BY <1>3, <1>4, <1>5, <1>6, Quiet

LEMMA EarnedNext ==
    ASSUME TypeOK, Days, Todo, Earned, [Next]_vars
    PROVE  Earned'
<1>1. /\ clock \in Nat /\ clock' \in Nat /\ clock <= clock' /\ sweep.at \in Nat
      /\ sweep.at <= clock /\ sweep.todo \subseteq added /\ Len(cards) \in Nat
  BY TypeNext, History, CreditsAssumption DEF TypeOK, Days
<1>2. ASSUME NEW r \in added, NEW day \in Nat, day <= clock, Outlasted(r, day)
      PROVE  Outlasted(r, clock)' /\ r \in added'
  <2>1. /\ r.at + Quarantine <= clock'
        /\ Reverted(r)' => \E v \in added' : v.credit = r.credit /\ v # r
    BY <1>1, <1>2, OutlastsOn
  <2> QED
    BY <2>1, History DEF Outlasted
<1>3. ASSUME NEW i \in 1..Len(cards), cards[i].type \in Types, NEW p \in cards[i].names,
             <<cards[i].film, p>> \notin told
      PROVE  \E r \in GroupOf(added', cards[i].film, cards[i].type) :
                Person(r) = p /\ Outlasted(r, clock)'
  <2>1. PICK r \in GroupOf(added, cards[i].film, cards[i].type) :
           Person(r) = p /\ Outlasted(r, clock)
    BY <1>3 DEF Earned
  <2>2. r \in added /\ Film(r) = cards[i].film /\ Type(r) = cards[i].type
    BY DEF GroupOf
  <2>3. Outlasted(r, clock)' /\ r \in added'
    BY <1>1, <1>2, <2>1, <2>2
  <2> QED
    BY <2>1, <2>2, <2>3 DEF GroupOf
<1>4. ASSUME told \subseteq told',
             NEW by, CardsGrow(by),
             \A j \in 1..Len(cards') : \A p \in cards'[j].names :
                \/ j \in 1..Len(cards) /\ p \in cards[j].names
                \/ cards'[j].type \in Types => \/ <<cards'[j].film, p>> \in told'
                      \/ \E r \in GroupOf(added', cards'[j].film, cards'[j].type) :
                            Person(r) = p /\ Outlasted(r, clock)'
      PROVE  Earned'
  <2>1. SUFFICES ASSUME NEW j \in 1..Len(cards'), cards'[j].type \in Types,
                        NEW p \in cards'[j].names, <<cards'[j].film, p>> \notin told',
                        j \in 1..Len(cards), p \in cards[j].names
                 PROVE  \E r \in GroupOf(added', cards'[j].film, cards'[j].type) :
                           Person(r) = p /\ Outlasted(r, clock)'
    BY <1>4 DEF Earned, GroupOf
  <2>2. cards'[j].film = cards[j].film /\ cards'[j].type = cards[j].type
    BY <1>4, <2>1 DEF CardsGrow
  <2> QED
    BY <1>3, <1>4, <2>1, <2>2
<1>5. ASSUME UNCHANGED <<cards, told>>
      PROVE  Earned'
  <2>1. SUFFICES ASSUME NEW j \in 1..Len(cards'), cards'[j].type \in Types,
                        NEW p \in cards'[j].names, <<cards'[j].film, p>> \notin told'
                 PROVE  \E r \in GroupOf(added', cards'[j].film, cards'[j].type) :
                           Person(r) = p /\ Outlasted(r, clock)'
    BY DEF Earned, GroupOf
  <2> QED
    BY <1>3, <1>5, <2>1
<1>6. ASSUME NEW f \in Films, Story(f)
      PROVE  Earned'
  <2>1. PICK i \in 1..Len(cards'), names \in SUBSET Persons, new \in SUBSET Persons :
           StampForward(f, i, names, new) /\ Names(f, new)
    BY <1>6, StoryWrites
  <2>2. told \subseteq told' /\ \A p \in new : <<f, p>> \in told'
    BY <2>1 DEF StampForward
  <2>3. CardsGrow("story")
    BY <1>6, StoryWrites
  <2>4. ASSUME NEW j \in 1..Len(cards'), NEW p \in cards'[j].names
        PROVE  \/ j \in 1..Len(cards) /\ p \in cards[j].names
               \/ <<cards'[j].film, p>> \in told'
    BY <2>1, <2>2 DEF Names
  <2> QED
    BY <1>4, <2>2, <2>3, <2>4
<1>7. ASSUME NEW f \in Films, NEW type \in Types, CardGroup(f, type)
      PROVE  Earned'
  <2>1. CardsGrow("catalog") /\ told' = told
    BY <1>7, GroupWrites DEF CardGroup
  <2>2. ASSUME NEW j \in 1..Len(cards'), NEW p \in cards'[j].names,
               ~(j \in 1..Len(cards) /\ p \in cards[j].names)
        PROVE  \E r \in GroupOf(added', cards'[j].film, cards'[j].type) :
                  Person(r) = p /\ Outlasted(r, clock)'
    <3>1. cards'[j].film = f /\ cards'[j].type = type
      BY <1>7, <2>2, GroupWrites
    <3>2. PICK r \in GroupOf(sweep.todo, f, type) : Person(r) = p
      BY <1>7, <2>2, GroupWrites
    <3>3. r \in sweep.todo /\ Film(r) = f /\ Type(r) = type
      BY DEF GroupOf
    <3>4. Outlasted(r, clock)' /\ r \in added'
      BY <1>1, <1>2, <3>3 DEF Todo
    <3> QED
      BY <3>1, <3>2, <3>3, <3>4 DEF GroupOf
  <2> QED
    BY <1>4, <2>1, <2>2
<1>8. ASSUME NEW f \in Films, NEW type \in Types, NEW at \in 0..MaxTime,
             CardDetachment(f, type, at)
      PROVE  Earned'
  <2>1. told' = told
    BY <1>8 DEF CardDetachment
  <2> QED
    BY <1>4, <1>8, <2>1, DetachmentWrites
<1>9. ASSUME NEW outage \in BOOLEAN, Judge(outage)
      PROVE  Earned'
  <2>1. cards' = cards /\ told \subseteq told'
    BY <1>9, JudgeWrites
  <2>2. CardsGrow("story")
    BY <1>1, <2>1 DEF CardsGrow, TypeOK
  <2> QED
    BY <1>4, <2>1, <2>2
<1>10. CASE UNCHANGED <<cards, told>>
  BY <1>5, <1>10
<1> QED
  <2>1. \A f \in Films : \A present \in SUBSET {c \in Credits : FilmOf[c] = f} :
           Observe(f, present) => UNCHANGED <<cards, told>>
    BY DEF Observe
  <2>2. \A r \in DOMAIN hold : AdminReleases(r) => UNCHANGED <<cards, told>>
    BY DEF AdminReleases
  <2>3. Reconcile => UNCHANGED <<cards, told>>
    BY DEF Reconcile
  <2>4. Passing => UNCHANGED <<cards, told>>
    BY DEF Passing, Tick, StartSweep, LoadDetachments, EndSweep, SweepDies, GroupFails,
           DetachmentFails, vars, tables
  <2> QED
    BY <1>6, <1>7, <1>8, <1>9, <1>10, <2>1, <2>2, <2>3, <2>4, Actions

LEMMA IInvInit == Init => IInv
<1>1. Init => Days /\ Returned /\ HoldsWithhold /\ Todo /\ Earned
  BY DEF Init, Idle, Days, Returned, HoldsWithhold, Todo, Earned
<1> QED
  BY <1>1, TypeInit DEF IInv

LEMMA IInvNext == IInv /\ [Next]_vars => IInv'
BY TypeNext, DaysNext, ReturnedNext, HoldsNext, TodoNext, EarnedNext DEF IInv

LEMMA Invariance == Spec => []IInv
BY IInvInit, IInvNext, PTL DEF Spec
-----------------------------------------------------------------------------
(***************************************************************************)
(* The theorems.                                                           *)
(***************************************************************************)

\* Every table keeps its types: a stamp points at a card, a hold and a pass at rows of the
\* history, and Scoop's choice is always defined.
THEOREM TypeCorrect == Spec => []TypeOK
<1>1. IInv => TypeOK
  BY DEF IInv
<1> QED
  BY <1>1, Invariance, PTL

\* What a sanity check holds stays out of the publishing path for as long as the hold is
\* open: no story can stamp the row, and no pass can card it.
THEOREM HeldIsWithheld == Spec => []HoldsWithhold
<1>1. IInv => HoldsWithhold
  BY DEF IInv
<1> QED
  BY <1>1, Invariance, PTL

\* A release, by an administrator or because the condition cleared, is never taken back.
THEOREM ReleasesAreFinal == Spec => ReleaseIsFinal
<1> DEFINE Final == \A r \in DOMAIN hold : hold[r] \in {"manual", "cleared"} => hold'[r] = hold[r]
<1>1. IInv /\ [Next]_vars => [Final]_vars
  <2> SUFFICES ASSUME IInv, [Next]_vars PROVE Final
    OBVIOUS
  <2>1. ASSUME NEW u \in DOMAIN hold, AdminReleases(u)
        PROVE  Final
    BY <2>1 DEF AdminReleases, OpenHold, Open
  <2>2. ASSUME Reconcile
        PROVE  Final
    BY <2>2 DEF Reconcile, OpenHold, Open
  <2>3. ASSUME NEW outage \in BOOLEAN, Judge(outage)
        PROVE  Final
    <3> DEFINE eligible == {r \in Backlog : Survives(r)}
               burst     == {r \in eligible : ~Immune(r) /\
                               Cardinality(FilmsReached(Person(r), r.at, Credits)) >= Burst}
               survivors == eligible \ burst
               dates     == {r \in survivors : ~Immune(r) /\ Person(r) \in dated'}
    <3>1. hold' = [r \in DOMAIN hold \cup burst \cup dates |->
                      IF r \in burst THEN "burst" ELSE IF r \in dates THEN "dates" ELSE hold[r]]
      BY <2>3, Zenon DEF Judge
    <3>2. \A r \in burst \cup dates : ~Immune(r)
      OBVIOUS
    <3> HIDE DEF burst, dates
    <3> QED
      BY <3>1, <3>2 DEF Immune
  <2>4. hold' = hold => Final
    OBVIOUS
  <2>5. \A f \in Films : \A present \in SUBSET {c \in Credits : FilmOf[c] = f} :
           Observe(f, present) => hold' = hold
    BY DEF Observe
  <2>6. \A f \in Films : Story(f) => hold' = hold
    BY StoryWrites DEF StampForward, IInv
  <2>7. \A f \in Films, type \in Types : CardGroup(f, type) => hold' = hold
    BY DEF CardGroup
  <2>8. \A f \in Films, type \in Types, at \in 0..MaxTime :
           CardDetachment(f, type, at) => hold' = hold
    BY DEF CardDetachment
  <2>9. Passing => hold' = hold
    BY DEF Passing, Tick, StartSweep, LoadDetachments, EndSweep, SweepDies, GroupFails,
           DetachmentFails, vars, tables
  <2> HIDE DEF Final
  <2> QED
    BY <2>1, <2>2, <2>3, <2>4, <2>5, <2>6, <2>7, <2>8, <2>9, Actions
<1> QED
  BY <1>1, Invariance, PTL DEF Spec, ReleaseIsFinal

\* Every name the sweep cards rests on an attachment that has waited out its quarantine,
\* that no check holds and that no story had published when the pass read it.
THEOREM NamesEarned == Spec => NamesAreEarned
<1> DEFINE Rest ==
       \A i \in (Len(cards) + 1)..Len(cards') :
          LET k == cards'[i]
          IN  k.by = "catalog" /\ k.type \in Types =>
                \A p \in k.names : \E r \in GroupOf(added, k.film, k.type) :
                   /\ Person(r) = p /\ r.at <= k.at
                   /\ r.at + Quarantine <= sweep.at
                   /\ ~OpenHold(r)
                   /\ Stamped(r) => r \in sweep.scooped
<1>1. IInv /\ [Next]_vars => [Rest]_vars
  <2> SUFFICES ASSUME IInv, [Next]_vars PROVE Rest
    OBVIOUS
  <2>1. TypeOK /\ Len(cards) \in Nat
    BY DEF IInv, TypeOK
  <2>2. cards' = cards => Rest
    BY <2>1
  <2>3. ASSUME NEW f \in Films, Story(f)
        PROVE  Rest
    <3>1. CardsGrow("story")
      BY <2>1, <2>3, StoryWrites
    <3> QED
      BY <3>1 DEF CardsGrow
  <2>4. ASSUME NEW f \in Films, NEW type \in Types, CardGroup(f, type)
        PROVE  Rest
    <3>1. SUFFICES ASSUME NEW j \in (Len(cards) + 1)..Len(cards'), NEW p \in cards'[j].names
                   PROVE  \E r \in GroupOf(added, cards'[j].film, cards'[j].type) :
                             /\ Person(r) = p /\ r.at <= cards'[j].at
                             /\ r.at + Quarantine <= sweep.at
                             /\ ~OpenHold(r)
                             /\ Stamped(r) => r \in sweep.scooped
      OBVIOUS
    <3>2. j \in 1..Len(cards') /\ j \notin 1..Len(cards)
      BY <2>1
    <3>3. /\ cards'[j].film = f /\ cards'[j].type = type
          /\ \E r \in GroupOf(sweep.todo, f, type) : Person(r) = p /\ r.at <= cards'[j].at
      BY <2>1, <2>4, <3>1, <3>2, GroupWrites
    <3>4. PICK r \in GroupOf(sweep.todo, f, type) : Person(r) = p /\ r.at <= cards'[j].at
      BY <3>3
    <3>5. r \in sweep.todo /\ r \in GroupOf(added, f, type)
      BY <2>1 DEF GroupOf, TypeOK
    <3>6. /\ r.at + Quarantine <= sweep.at /\ ~OpenHold(r)
          /\ Stamped(r) => r \in sweep.scooped
      BY <3>5 DEF IInv, Todo, Outlasted
    <3> QED
      BY <3>3, <3>4, <3>5, <3>6
  <2>5. ASSUME NEW f \in Films, NEW type \in Types, NEW at \in 0..MaxTime,
               CardDetachment(f, type, at)
        PROVE  Rest
    BY <2>1, <2>5, DetachmentWrites
  <2>6. \A f \in Films : \A present \in SUBSET {c \in Credits : FilmOf[c] = f} :
           Observe(f, present) => cards' = cards
    BY DEF Observe
  <2>7. \A r \in DOMAIN hold : AdminReleases(r) => cards' = cards
    BY DEF AdminReleases
  <2>8. Reconcile \/ Passing \/ (\E outage \in BOOLEAN : Judge(outage)) => cards' = cards
    BY DEF Reconcile, Judge, Passing, Tick, StartSweep, LoadDetachments, EndSweep, SweepDies,
           GroupFails, DetachmentFails, vars, tables
  <2> HIDE DEF Rest
  <2> QED
    BY <2>2, <2>3, <2>4, <2>5, <2>6, <2>7, <2>8, Actions
<1> QED
  BY <1>1, Invariance, PTL DEF Spec, NamesAreEarned

\* A person whose only attachment to a film TMDB took back inside its quarantine is on no
\* card of the film unless a story named them.
THEOREM RevertedIsSilent == Spec => []RevertedStaysSilent
<1>1. IInv => RevertedStaysSilent
  <2> SUFFICES ASSUME IInv,
                      NEW r \in added, Reverted(r), OnlyOne(r),
                      <<Film(r), Person(r)>> \notin told,
                      NEW i \in AttachCards(Film(r), Type(r)), Person(r) \in cards[i].names
               PROVE  FALSE
    BY DEF RevertedStaysSilent
  <2>1. /\ i \in 1..Len(cards) /\ cards[i].film = Film(r) /\ cards[i].type = Type(r)
        /\ Type(r) \in Types
    BY Constants DEF AttachCards, IInv, TypeOK
  <2>2. PICK w \in GroupOf(added, Film(r), Type(r)) :
           Person(w) = Person(r) /\ Outlasted(w, clock)
    BY <2>1 DEF IInv, Earned
  <2>3. w = r
    BY <2>2 DEF OnlyOne, GroupOf
  <2>4. PICK v \in added : v.credit = r.credit /\ v # r
    BY <2>2, <2>3 DEF Outlasted
  <2>5. Film(v) = Film(r) /\ Type(v) = Type(r) /\ Person(v) = Person(r)
    BY <2>4 DEF Film, Type, Person
  <2> QED
    BY <2>4, <2>5 DEF OnlyOne
<1> QED
  BY <1>1, Invariance, PTL

\* Both gates hold, for any credits, persons, films, delays and bounds (sanity_holds,
\* quarantine_attachments).
THEOREM GatesAreKept == Spec => []GatesHold
BY HeldIsWithheld, RevertedIsSilent, PTL DEF GatesHold
-----------------------------------------------------------------------------
(***************************************************************************)
(* Corrections: what a removal supersedes.                                 *)
(***************************************************************************)

\* Cards keep what they are, names are added, and nothing is published again.
Steady ==
    /\ Len(cards') \in Nat /\ Len(cards) <= Len(cards')
    /\ \A j \in 1..Len(cards) :
          /\ cards'[j].film = cards[j].film /\ cards'[j].type = cards[j].type
          /\ cards'[j].at = cards[j].at /\ cards[j].names \subseteq cards'[j].names
          /\ cards'[j].published => cards[j].published

\* Who is named besides was on no casting card of the film, or is told of on a crew card.
NamedLater ==
    \A j \in 1..Len(cards) : \A p \in cards'[j].names \ cards[j].names :
        \/ cards[j].type = "casting" /\ p \notin Recorded(cards[j].film)
        \/ cards[j].type = "crew_attached" /\ <<cards[j].film, p>> \in told'

\* A card is published when it is new, and a new removal has corrected what it ends.
NewCards ==
    \A k \in (Len(cards) + 1)..Len(cards') :
        /\ cards'[k].published
        /\ \A type \in Types : cards'[k].type = Removal[type] =>
              \A p \in cards'[k].names : Corrects(k, type, p)'

\* A removal that is older than k, on its film, and shares a name with it.
Supersedes(k, i) ==
    /\ cards[i].type \in Types
    /\ k \in AttachCards(cards[i].film, Removal[cards[i].type])
    /\ cards[i].at < cards[k].at /\ cards[i].names \cap cards[k].names # {}

Marked ==
    \A i \in 1..Len(cards) : cards[i].published /\ ~ cards'[i].published =>
        \E k \in 1..Len(cards') : Supersedes(k, i)'

LEMMA RemovalTypes ==
    /\ \A type \in Types : Removal[type] \notin Types
    /\ \A s, t \in Types : Removal[s] = Removal[t] => s = t
BY DEF Removal, Types

\* What a removal has corrected stays so.
LEMMA StaysCorrected ==
    ASSUME TypeOK, Steady, NamedLater, NEW k \in 1..Len(cards), NEW type \in Types,
           NEW p \in Persons, Corrects(k, type, p)
    PROVE  Corrects(k, type, p)' \/ (type = "crew_attached" /\ <<cards[k].film, p>> \in told')
<1> DEFINE S == {j \in AttachCards(cards[k].film, type) :
                   j < k /\ p \in cards[j].names /\ cards[j].at < cards[k].at}
<1>1. Len(cards) \in Nat
  BY DEF TypeOK
<1>2. PICK i \in Newest(S) : ~ cards[i].published
  BY DEF Corrects
<1>3. i \in S /\ \A j \in S : NoOlder(i, j)
  BY <1>2 DEF Newest
<1>4. S' = {j \in 1..Len(cards) : /\ cards[j].film = cards[k].film /\ cards[j].type = type
                                  /\ j < k /\ p \in cards'[j].names /\ cards[j].at < cards[k].at}
  <2>1. ASSUME NEW j
        PROVE  j \in S' <=>
                  /\ j \in 1..Len(cards) /\ cards[j].film = cards[k].film /\ cards[j].type = type
                  /\ j < k /\ p \in cards'[j].names /\ cards[j].at < cards[k].at
    <3>1. j \in 1..Len(cards') /\ j < k => j \in 1..Len(cards)
      BY <1>1
    <3>2. j \in 1..Len(cards) => j \in 1..Len(cards')
      BY <1>1 DEF Steady
    <3> QED
      BY <3>1, <3>2 DEF Steady, AttachCards
  <2> HIDE DEF S
  <2> QED
    BY <2>1
<1>5. S \subseteq S'
  BY <1>4 DEF Steady, AttachCards
<1>6. CASE S' \subseteq S
  <2>1. i \in S' /\ \A j \in S' : NoOlder(i, j)'
    <3>1. ASSUME NEW j \in S' PROVE NoOlder(i, j)'
      <4>1. j \in S /\ i \in 1..Len(cards) /\ j \in 1..Len(cards)
        BY <1>3, <1>6 DEF AttachCards
      <4>2. NoOlder(i, j) /\ cards'[i].at = cards[i].at /\ cards'[j].at = cards[j].at
        BY <1>3, <4>1 DEF Steady
      <4> QED
        BY <4>2 DEF NoOlder
    <3> QED
      BY <1>3, <1>5, <3>1
  <2>2. ~ cards'[i].published
    BY <1>2, <1>3 DEF Steady, AttachCards
  <2> QED
    BY <2>1, <2>2 DEF Corrects, Newest
<1>7. CASE ~ (S' \subseteq S)
  <2>1. PICK j \in S' : j \notin S
    BY <1>7
  <2>2. /\ j \in 1..Len(cards) /\ cards[j].film = cards[k].film /\ cards[j].type = type
        /\ p \in cards'[j].names \ cards[j].names
    BY <1>4, <2>1 DEF AttachCards
  <2>3. CASE type = "casting"
    <3>1. p \in Recorded(cards[k].film)
      BY <1>3, <2>3 DEF Recorded, AttachCards
    <3> QED
      BY <2>2, <2>3, <3>1 DEF NamedLater
  <2>4. CASE type # "casting"
    BY <2>2, <2>4 DEF NamedLater
  <2> QED
    BY <2>3, <2>4
<1> QED
  BY <1>6, <1>7

LEMMA CorrectionsKept ==
    ASSUME TypeOK, CorrectionsMatch, Steady, told \subseteq told', NamedLater, NewCards, Marked
    PROVE  CorrectionsMatch'
<1>1. Len(cards) \in Nat /\ \A j \in 1..Len(cards) : cards[j].names \subseteq Persons
  <2>1. \A j \in 1..Len(cards) : cards[j] \in Card
    BY DEF TypeOK
  <2> QED
    BY <2>1 DEF TypeOK, Card
<1>2. ASSUME NEW k \in 1..Len(cards'), NEW type \in Types, cards'[k].type = Removal[type],
             NEW p \in cards'[k].names
      PROVE  Corrects(k, type, p)' \/ (type = "crew_attached" /\ <<cards'[k].film, p>> \in told')
  <2>1. CASE k \in 1..Len(cards)
    <3>1. cards[k].type = Removal[type] /\ p \in cards[k].names /\ cards'[k].film = cards[k].film
      BY <1>2, <2>1, RemovalTypes DEF Steady, NamedLater, Types
    <3>2. \/ Corrects(k, type, p)
          \/ type = "crew_attached" /\ <<cards[k].film, p>> \in told
      BY <2>1, <3>1 DEF CorrectionsMatch
    <3>3. p \in Persons
      BY <1>1, <2>1, <3>1
    <3> QED
      BY <2>1, <3>1, <3>2, <3>3, StaysCorrected
  <2>2. CASE k \notin 1..Len(cards)
    <3>1. k \in (Len(cards) + 1)..Len(cards')
      BY <1>1, <2>2 DEF Steady
    <3> QED
      BY <1>2, <3>1 DEF NewCards
  <2> QED
    BY <2>1, <2>2
<1>3. ASSUME NEW i \in 1..Len(cards'), ~ cards'[i].published
      PROVE  \E k \in 1..Len(cards') : Supersedes(k, i)'
  <2>1. i \in 1..Len(cards)
    BY <1>1, <1>3 DEF NewCards, Steady
  <2>2. CASE cards[i].published
    BY <1>3, <2>1, <2>2 DEF Marked
  <2>3. CASE ~ cards[i].published
    <3>1. PICK k \in AttachCards(cards[i].film, Removal[cards[i].type]) :
             cards[i].at < cards[k].at /\ cards[i].names \cap cards[k].names # {}
      BY <2>1, <2>3 DEF CorrectionsMatch
    <3>2. cards[i].type \in Types /\ k \in 1..Len(cards)
          /\ cards[k].film = cards[i].film /\ cards[k].type = Removal[cards[i].type]
      BY <2>1, <2>3, <3>1 DEF CorrectionsMatch, AttachCards
    <3>3. k \in 1..Len(cards')
      BY <1>1, <3>2 DEF Steady
    <3>4. /\ cards'[i].film = cards[i].film /\ cards'[i].type = cards[i].type
          /\ cards'[i].at = cards[i].at /\ cards[i].names \subseteq cards'[i].names
          /\ cards'[k].film = cards[k].film /\ cards'[k].type = cards[k].type
          /\ cards'[k].at = cards[k].at /\ cards[k].names \subseteq cards'[k].names
      BY <2>1, <3>2 DEF Steady
    <3>5. Supersedes(k, i)'
      BY <3>1, <3>2, <3>3, <3>4 DEF Supersedes, AttachCards
    <3> QED
      BY <3>3, <3>5
  <2> QED
    BY <2>2, <2>3
<1>4. \A i \in 1..Len(cards') : ~ cards'[i].published =>
         /\ cards'[i].type \in Types
         /\ \E k \in AttachCards(cards[i].film, Removal[cards[i].type])' :
               cards'[i].at < cards'[k].at /\ cards'[i].names \cap cards'[k].names # {}
  BY <1>3 DEF Supersedes
<1> QED
  BY <1>2, <1>4 DEF CorrectionsMatch

\* An attachment's card, appended: nothing is corrected by it.
LEMMA AppendCorrects ==
    ASSUME TypeOK, NEW card \in Card, card.published, card.type \in Types,
           cards' = Append(cards, card)
    PROVE  Steady /\ NamedLater /\ NewCards /\ Marked
<1>1. /\ cards \in Seq(Card) /\ Len(cards) \in Nat
      /\ Len(cards') = Len(cards) + 1 /\ cards'[Len(cards) + 1] = card
      /\ \A j \in 1..Len(cards) : cards'[j] = cards[j]
  BY DEF TypeOK
<1>2. Steady /\ NamedLater /\ Marked
  BY <1>1 DEF Steady, NamedLater, Marked
<1>3. NewCards
  BY <1>1, RemovalTypes DEF NewCards
<1> QED
  BY <1>2, <1>3

LEMMA SameCorrects ==
    ASSUME TypeOK, cards' = cards
    PROVE  Steady /\ NamedLater /\ NewCards /\ Marked
<1>1. Len(cards) \in Nat
  BY DEF TypeOK
<1> QED
  BY <1>1 DEF Steady, NamedLater, NewCards, Marked

LEMMA StoryCorrects ==
    ASSUME TypeOK, NEW f \in Films, Story(f)
    PROVE  Steady /\ NamedLater /\ NewCards /\ Marked /\ told \subseteq told'
<1>1. told \subseteq told'
  BY StoryWrites DEF StampForward
<1>2. ASSUME NEW names \in SUBSET Persons, StoryCreates(f, names)
      PROVE  Steady /\ NamedLater /\ NewCards /\ Marked
  <2>1. PICK card : card = [film |-> f, type |-> "casting", at |-> clock,
                            names |-> names \ Recorded(f), body |-> {}, by |-> "story",
                            published |-> TRUE]
    OBVIOUS
  <2>2. card \in Card /\ card.published /\ card.type \in Types
    BY <2>1 DEF Card, Types, TypeOK
  <2>3. cards' = Append(cards, card)
    BY <1>2, <2>1 DEF StoryCreates
  <2> QED
    BY <2>2, <2>3, AppendCorrects
<1>3. ASSUME NEW names \in SUBSET Persons, NEW i \in 1..Len(cards), StoryJoins(f, names, i)
      PROVE  Steady /\ NamedLater /\ NewCards /\ Marked
  <2>1. PICK new : new = names \ Recorded(f)
    OBVIOUS
  <2>2. /\ cards' = [cards EXCEPT ![i].names = @ \cup new]
        /\ told' = told \cup {<<f, p>> : p \in new \cup {Person(r) : r \in Published(f, cards[i].names \cup new)}}
        /\ cards[i].film = f /\ cards[i].type \in Types
    BY <1>3, <2>1 DEF StoryJoins, StampForward, CatalogTargets, AttachCards, Types
  <2>3. cards \in Seq(Card) /\ Len(cards) \in Nat /\ cards[i] \in Card
    BY DEF TypeOK
  <2>4. PICK card \in Card : /\ card.film = cards[i].film /\ card.type = cards[i].type
                             /\ card.at = cards[i].at /\ card.names = cards[i].names \cup new
                             /\ card.published = cards[i].published
                             /\ cards' = [cards EXCEPT ![i] = card]
    <3>1. PICK card : card = [cards[i] EXCEPT !.names = @ \cup new]
      OBVIOUS
    <3>2. /\ card \in Card /\ card.film = cards[i].film /\ card.type = cards[i].type
          /\ card.at = cards[i].at /\ card.names = cards[i].names \cup new
          /\ card.published = cards[i].published
      BY <2>1, <2>3, <3>1 DEF Card
    <3>3. cards' = [cards EXCEPT ![i] = card]
      BY <2>2, <3>1
    <3> QED
      BY <3>2, <3>3
  <2>5. /\ Len(cards') = Len(cards) /\ cards'[i] = card
        /\ \A j \in 1..Len(cards) : j # i => cards'[j] = cards[j]
    BY <2>3, <2>4
  <2>6. Steady /\ Marked /\ NewCards
    <3>1. (Len(cards) + 1)..Len(cards') = {}
      BY <2>3, <2>5
    <3>2. \A j \in 1..Len(cards) :
             /\ cards'[j].film = cards[j].film /\ cards'[j].type = cards[j].type
             /\ cards'[j].at = cards[j].at /\ cards[j].names \subseteq cards'[j].names
             /\ cards'[j].published = cards[j].published
      BY <2>4, <2>5
    <3> QED
      BY <2>3, <2>5, <3>1, <3>2 DEF Steady, Marked, NewCards
  <2>7. NamedLater
    <3> SUFFICES ASSUME NEW j \in 1..Len(cards), NEW p \in cards'[j].names \ cards[j].names
                 PROVE  \/ cards[j].type = "casting" /\ p \notin Recorded(cards[j].film)
                        \/ cards[j].type = "crew_attached" /\ <<cards[j].film, p>> \in told'
      BY DEF NamedLater
    <3>1. j = i /\ p \in new
      BY <2>4, <2>5
    <3>2. <<f, p>> \in told'
      BY <2>2, <3>1
    <3> QED
      BY <2>1, <2>2, <3>1, <3>2 DEF Types
  <2> QED
    BY <2>6, <2>7
<1>4. ASSUME NEW i \in 1..Len(cards), StoryAttaches(f, i)
      PROVE  Steady /\ NamedLater /\ NewCards /\ Marked
  BY <1>4, SameCorrects DEF StoryAttaches
<1> QED
  BY <1>1, <1>2, <1>3, <1>4, Zenon DEF Story

LEMMA GroupCorrects ==
    ASSUME TypeOK, NEW f \in Films, NEW type \in Types, CardGroup(f, type)
    PROVE  Steady /\ NamedLater /\ NewCards /\ Marked
<1>1. PICK kept : kept = Uncarded(GroupOf(sweep.todo, f, type))
  OBVIOUS
<1>2. kept \subseteq Rows
  BY <1>1 DEF TypeOK, GroupOf, Uncarded
<1>3. ASSUME NEW last \in LatestOf(kept),
             cards' = Append(cards, [film |-> f, type |-> type, at |-> last.at,
                                     names |-> {Person(r) : r \in kept}, body |-> kept,
                                     by |-> "catalog", published |-> TRUE])
      PROVE  Steady /\ NamedLater /\ NewCards /\ Marked
  <2>1. PICK card : card = [film |-> f, type |-> type, at |-> last.at,
                            names |-> {Person(r) : r \in kept}, body |-> kept,
                            by |-> "catalog", published |-> TRUE]
    OBVIOUS
  <2>2. last.at \in 0..MaxTime /\ {Person(r) : r \in kept} \subseteq Persons
    BY <1>2, Constants DEF LatestOf
  <2>3. card \in Card /\ card.published /\ card.type \in Types
    BY <1>2, <2>1, <2>2 DEF Card
  <2> QED
    BY <1>3, <2>1, <2>3, AppendCorrects
<1> QED
  BY <1>1, <1>3, SameCorrects, Zenon DEF CardGroup

\* The removal is younger than what it corrects, and each name on it had a card to correct.
LEMMA DetachmentCorrects ==
    ASSUME TypeOK, NEW f \in Films, NEW type \in Types, NEW at \in 0..MaxTime,
           CardDetachment(f, type, at)
    PROVE  Steady /\ NamedLater /\ NewCards /\ Marked
<1>1. PICK group : group = {r \in GroupOf(sweep.gone, f, type) : r.at = at}
  OBVIOUS
<1>2. PICK names : names = {Person(r) : r \in Departed(group)}
  OBVIOUS
<1>3. names \in SUBSET Persons
  <2>1. group \subseteq Rows
    BY <1>1 DEF TypeOK, GroupOf
  <2> QED
    BY <1>2, <2>1, Constants DEF Departed
<1>4. CASE cards' = CardsWithRemoval(f, type, at, names)
  <2>1. PICK k : k = Len(cards) + 1
    OBVIOUS
  <2>2. /\ Len(cards') = k /\ Len(cards) \in Nat /\ k \in 1..Len(cards')
        /\ cards'[k].film = f /\ cards'[k].type = Removal[type] /\ cards'[k].at = at
        /\ cards'[k].names = names /\ cards'[k].published
    BY <1>3, <1>4, <2>1, RemovalWrites
  <2>3. \A j \in 1..Len(cards) :
           /\ cards'[j].film = cards[j].film /\ cards'[j].type = cards[j].type
           /\ cards'[j].names = cards[j].names /\ cards'[j].at = cards[j].at
           /\ cards'[j].published <=> cards[j].published /\ j \notin Corrected(f, type, at, names)
    BY <1>3, <1>4, RemovalWrites
  <2>4. Steady /\ NamedLater
    BY <2>1, <2>2, <2>3 DEF Steady, NamedLater
  <2>5. Marked
    <3> SUFFICES ASSUME NEW i \in 1..Len(cards), i \in Corrected(f, type, at, names)
                 PROVE  Supersedes(k, i)'
      BY <2>2, <2>3 DEF Marked
    <3>1. PICK p \in names : i \in Newest({j \in AttachCards(f, type) :
                                p \in cards[j].names /\ cards[j].published /\ cards[j].at < at})
      BY DEF Corrected
    <3>2. /\ cards[i].film = f /\ cards[i].type = type /\ p \in cards[i].names
          /\ cards[i].at < at
      BY <3>1 DEF Newest, AttachCards
    <3> QED
      BY <2>2, <2>3, <3>1, <3>2 DEF Supersedes, AttachCards
  <2>6. ASSUME NEW p \in names PROVE Corrects(k, type, p)'
    <3> DEFINE S == {j \in AttachCards(f, type) : p \in cards[j].names /\ cards[j].at < at}
               Shown == {j \in AttachCards(f, type) :
                          p \in cards[j].names /\ cards[j].published /\ cards[j].at < at}
    <3>1. PICK r \in group : Person(r) = p /\ HadCard(r)
      BY <1>2, <2>6 DEF Departed
    <3>2. Film(r) = f /\ Type(r) = type /\ r.at = at
      BY <1>1, <3>1 DEF GroupOf
    <3>3. S # {} /\ S \subseteq 1..Len(cards)
      BY <3>1, <3>2 DEF HadCard, AttachCards
    <3>4. PICK i \in Newest(S) : TRUE
      BY <3>3, HasNewest
    <3>5. i \in S /\ \A j \in S : NoOlder(i, j)
      BY <3>4 DEF Newest
    <3>6. ~ cards'[i].published
      <4>1. CASE cards[i].published
        <5>1. i \in Shown /\ Shown \subseteq S
          BY <3>5, <4>1
        <5>2. i \in Newest(Shown)
          BY <3>5, <5>1 DEF Newest
        <5>3. i \in Corrected(f, type, at, names)
          BY <2>6, <5>2 DEF Corrected
        <5> QED
          BY <2>3, <3>3, <3>5, <5>3
      <4>2. CASE ~ cards[i].published
        BY <2>3, <3>3, <3>5, <4>2
      <4> QED
        BY <4>1, <4>2
    <3>7. {j \in AttachCards(f, type)' : j < k /\ p \in cards'[j].names /\ cards'[j].at < at} = S
      <4>1. ASSUME NEW j
            PROVE  (j \in 1..Len(cards') /\ j < k) <=> j \in 1..Len(cards)
        BY <2>1, <2>2
      <4> QED
        BY <2>3, <4>1 DEF AttachCards
    <3>8. \A j \in S : NoOlder(i, j)'
      BY <2>3, <3>3, <3>5 DEF NoOlder
    <3> HIDE DEF S, Shown
    <3> QED
      BY <2>2, <3>5, <3>6, <3>7, <3>8 DEF Corrects, Newest
  <2>7. NewCards
    <3>1. \A j \in (Len(cards) + 1)..Len(cards') : j = k
      BY <2>1, <2>2
    <3>2. \A t \in Types : cards'[k].type = Removal[t] => t = type
      BY <2>2, RemovalTypes
    <3> QED
      BY <2>2, <2>6, <3>1, <3>2 DEF NewCards
  <2> QED
    BY <2>4, <2>5, <2>7
<1>5. CASE cards' = cards
  BY <1>5, SameCorrects
<1> QED
  BY <1>1, <1>2, <1>4, <1>5, Zenon DEF CardDetachment

LEMMA CorrectionsNext ==
    ASSUME TypeOK, CorrectionsMatch, [Next]_vars
    PROVE  CorrectionsMatch'
<1>1. ASSUME NEW f \in Films, Story(f)
      PROVE  CorrectionsMatch'
  BY <1>1, StoryCorrects, CorrectionsKept
<1>2. ASSUME NEW f \in Films, NEW type \in Types, CardGroup(f, type)
      PROVE  CorrectionsMatch'
  <2>1. told' = told
    BY <1>2 DEF CardGroup
  <2> QED
    BY <1>2, <2>1, GroupCorrects, CorrectionsKept
<1>3. ASSUME NEW f \in Films, NEW type \in Types, NEW at \in 0..MaxTime,
             CardDetachment(f, type, at)
      PROVE  CorrectionsMatch'
  <2>1. told' = told
    BY <1>3 DEF CardDetachment
  <2> QED
    BY <1>3, <2>1, DetachmentCorrects, CorrectionsKept
<1>4. cards' = cards /\ told \subseteq told' => CorrectionsMatch'
  BY SameCorrects, CorrectionsKept
<1>5. \A f \in Films : \A present \in SUBSET {c \in Credits : FilmOf[c] = f} :
         Observe(f, present) => cards' = cards /\ told' = told
  BY DEF Observe
<1>6. \A r \in DOMAIN hold : AdminReleases(r) => cards' = cards /\ told' = told
  BY DEF AdminReleases
<1>7. Reconcile => cards' = cards /\ told' = told
  BY DEF Reconcile
<1>8. \A outage \in BOOLEAN : Judge(outage) => cards' = cards /\ told \subseteq told'
  <2>1. ASSUME NEW outage \in BOOLEAN, Judge(outage)
        PROVE  cards' = cards /\ \E T : told' = told \cup T
    BY <2>1, Zenon DEF Judge
  <2> QED
    BY <2>1
<1>9. Passing => cards' = cards /\ told' = told
  BY DEF Passing, Tick, StartSweep, LoadDetachments, EndSweep, SweepDies, GroupFails,
         DetachmentFails, vars, tables
<1> QED
  BY <1>1, <1>2, <1>3, <1>4, <1>5, <1>6, <1>7, <1>8, <1>9, Actions

\* A removal is never on the feed with its original still published, and nothing but a
\* removal supersedes, whatever stories, passes and deaths come between (D-2,
\* supersede_prior_attachment_cards).
THEOREM RemovalsCorrect == Spec => []CorrectionsMatch
<1>1. Init => CorrectionsMatch
  BY DEF Init, CorrectionsMatch
<1>2. TypeOK /\ CorrectionsMatch /\ [Next]_vars => CorrectionsMatch'
  BY CorrectionsNext
<1> QED
  BY <1>1, <1>2, TypeCorrect, PTL DEF Spec
-----------------------------------------------------------------------------
(***************************************************************************)
(* What the latest card says.                                              *)
(***************************************************************************)

\* The day as the pass sees it: a pass keeps the day it started on.
Today == IF sweep.pc = "idle" THEN clock ELSE sweep.at

\* One observation finds a credit there or gone, and one that is gone was seen to go.
Away ==
    /\ \A a \in added : a.credit \notin live =>
          \E x \in removed : x.credit = a.credit /\ x.at > a.at
    /\ \A a \in added, x \in removed : a.credit = x.credit => a.at # x.at

\* Whom a story's card names, and whose row is stamped, is told.
Telling ==
    /\ \A i \in 1..Len(cards) : cards[i].by = "story" =>
          \A p \in cards[i].names : <<cards[i].film, p>> \in told
    /\ \A r \in DOMAIN stamp : <<Film(r), Person(r)>> \in told

\* The pass reads departures of the window, those of one observation together.
Whole ==
    \A r \in sweep.gone :
        /\ InWindow(r)
        /\ \A u \in removed : Film(u) = Film(r) /\ Type(u) = Type(r) /\ u.at = r.at
                              => u \in sweep.gone

Arrivals(c) == {r \in added : r.credit = c}
Left(c)     == {r \in removed : r.credit = c}
Attached(c) == {i \in AttachCards(FilmOf[c], TypeOf[c]) : PersonOf[c] \in cards[i].names}
Removals(c) == AttachCards(FilmOf[c], Removal[TypeOf[c]])
Carded(c)   == CurrentlyCarded(FilmOf[c], TypeOf[c], PersonOf[c])

\* A departure no pass will card from now on, or none that the reader was not told of.
Handled(x) ==
    \/ x.at + Lookback < Today
    \/ Taken(Film(x), Removal[Type(x)], x.at)
    \/ ~HadCard(x)
    \/ CameBack(x)

\* An attachment's card is older than the departure that took the credit away.
CardsPrecede(c) ==
    \A i \in Attached(c) :
        cards[i].at < clock /\ (c \in live \/ \E x \in Left(c) : x.at > cards[i].at)

\* A removal's card is of a departure, and the last departure's leaves nobody out.
RemovalsName(c) ==
    \A k \in Removals(c) :
        /\ cards[k].at < Today
        /\ PersonOf[c] \in cards[k].names => [credit |-> c, at |-> cards[k].at] \in removed
        /\ c \notin live /\ (\E x \in LatestOf(Left(c)) : x.at = cards[k].at)
           => PersonOf[c] \in cards[k].names \/ Attached(c) = {}

\* A pass that settles a credit sees its last change.
Rested(c) ==
    swept[c] >= 1 => \E r \in LatestOf(Arrivals(c) \cup Left(c)) : r.at + Quarantine <= Today

\* A whole pass leaves no departure to card, and no credit that is gone still carded.
Departures(c) ==
    swept[c] >= 1 => IF c \in live THEN \A x \in Left(c) : Handled(x) ELSE ~Carded(c)

\* Two of them leave no credit that is there uncarded, unless the date was taken.
Returns(c) == swept[c] = 2 /\ c \in live /\ ~DateTaken(c) => Carded(c)

Tables(c) == CardsPrecede(c) /\ RemovalsName(c) /\ Rested(c) /\ Departures(c) /\ Returns(c)

\* What the pass has read of a credit: the rows of one that was there, up to the last.
TodoWhole(c) ==
    \A r \in sweep.todo : r.credit = c =>
        /\ c \in live \/ \E x \in Left(c) : x.at >= sweep.at
        /\ \A b \in Arrivals(c) :
              b.at >= r.at /\ b.at + Quarantine <= sweep.at => b \in sweep.todo

\* Its departures are handled, once read, as the pass goes on.
Removing(c) ==
    sweep.pc = "remove" /\ sweep.clean /\ Settled(c) =>
        \A x \in Left(c) : x \in sweep.gone \/ Handled(x)

\* The second pass cards who is back, or finds the date taken.
Carding(c) ==
    swept[c] >= 1 /\ c \in live /\ sweep.clean /\ Settled(c) /\ sweep.pc \in {"card", "remove"} =>
        \/ Carded(c)
        \/ \E b \in LatestOf(Arrivals(c)) :
              b \in dropped \/ (sweep.pc = "card" /\ b \in sweep.todo)

Pass(c) == TodoWhole(c) /\ Removing(c) /\ Carding(c)

Current == \A c \in Credits : ~Elsewhere(c) => Tables(c) /\ Pass(c)

LInv == Away /\ Telling /\ Whole /\ Current

LEMMA Numbers ==
    ASSUME TypeOK, Days
    PROVE  /\ clock \in Nat /\ sweep.at \in Nat /\ Today \in Nat
           /\ sweep.at <= Today /\ Today <= clock
           /\ sweep.pc # "idle" => Today = sweep.at
           /\ Quarantine \in Nat \ {0} /\ Dwell \in Nat \ {0} /\ Lookback \in Nat
           /\ \A r \in added \cup removed :
                 /\ r \in Rows /\ r.at \in Nat /\ r.credit \in Credits /\ r.at <= clock
                 /\ r = [credit |-> r.credit, at |-> r.at]
           /\ sweep.todo \subseteq added /\ sweep.gone \subseteq removed
           /\ Len(cards) \in Nat /\ \A i \in 1..Len(cards) : cards[i].at \in Nat
<1>1. clock \in Nat /\ sweep.at \in Nat /\ sweep.at <= clock
  BY CreditsAssumption DEF TypeOK, Days
<1>2. /\ Today \in Nat /\ sweep.at <= Today /\ Today <= clock
      /\ sweep.pc # "idle" => Today = sweep.at
  BY <1>1 DEF Today
<1>3. Quarantine \in Nat \ {0} /\ Dwell \in Nat \ {0} /\ Lookback \in Nat
  BY CreditsAssumption
<1>4. ASSUME NEW r \in added \cup removed
      PROVE  /\ r \in Rows /\ r.at \in Nat /\ r.credit \in Credits /\ r.at <= clock
             /\ r = [credit |-> r.credit, at |-> r.at]
  <2>1. r \in Rows /\ r.at <= clock
    BY DEF TypeOK, Days
  <2> QED
    BY <2>1, CreditsAssumption DEF Rows
<1>5. sweep.todo \subseteq added /\ sweep.gone \subseteq removed
  BY DEF TypeOK
<1>6. Len(cards) \in Nat /\ \A i \in 1..Len(cards) : cards[i].at \in Nat
  BY SomeCards DEF TypeOK
<1> QED
  BY <1>1, <1>2, <1>3, <1>4, <1>5, <1>6

\* A row of the person's kind on the film is the credit's own.
LEMMA Own ==
    ASSUME NEW c \in Credits, ~Elsewhere(c), NEW r \in Rows
    PROVE  Film(r) = FilmOf[c] /\ Type(r) = TypeOf[c] /\ Person(r) = PersonOf[c] <=> r.credit = c
<1>1. r.credit \in Credits
  BY DEF Rows
<1> QED
  BY <1>1 DEF Elsewhere, Film, Type, Person

\* A person is carded if an attachment's card of theirs is no older than any removal's.
StandsOut(c) ==
    \E i \in Attached(c) : \A k \in Removals(c) : PersonOf[c] \in cards[k].names => NoOlder(i, k)

LEMMA CardedIs == TypeOK => \A c \in Credits : Carded(c) <=> StandsOut(c)
<1> SUFFICES ASSUME TypeOK, NEW c \in Credits
             PROVE  Carded(c) <=> StandsOut(c)
  OBVIOUS
<1> DEFINE f == FilmOf[c]
           t == TypeOf[c]
           p == PersonOf[c]
           All == {j \in ClassCards(f, t) : p \in cards[j].names}
<1>1. Removal[t] # t
  BY Constants DEF Types, Removal
<1>2. All = Attached(c) \cup {k \in Removals(c) : p \in cards[k].names}
  BY DEF ClassCards, Attached, Removals
<1>3. /\ \A i \in Attached(c) : i \in 1..Len(cards) /\ cards[i].type = t
      /\ \A k \in Removals(c) : k \in 1..Len(cards) /\ cards[k].type # t
  BY <1>1 DEF Attached, Removals, AttachCards
<1>4. ASSUME Carded(c)
      PROVE  \E i \in Attached(c) : \A k \in Removals(c) : p \in cards[k].names => NoOlder(i, k)
  <2>1. PICK i \in Newest(All) : cards[i].type = t
    BY <1>4 DEF Carded, CurrentlyCarded
  <2>2. i \in All /\ \A j \in All : NoOlder(i, j)
    BY DEF Newest
  <2> QED
    BY <1>2, <1>3, <2>1, <2>2
<1>5. ASSUME NEW i \in Attached(c),
             \A k \in Removals(c) : p \in cards[k].names => NoOlder(i, k)
      PROVE  Carded(c)
  <2>1. Attached(c) \in SUBSET (1..Len(cards)) /\ Attached(c) # {}
    BY <1>3
  <2>2. PICK m \in Newest(Attached(c)) : TRUE
    BY <2>1, HasNewest
  <2>3. m \in Attached(c) /\ \A j \in Attached(c) : NoOlder(m, j)
    BY DEF Newest
  <2>4. ASSUME NEW k \in Removals(c), p \in cards[k].names
        PROVE  NoOlder(m, k)
    <3>1. NoOlder(m, i) /\ NoOlder(i, k)
      BY <1>5, <2>3, <2>4
    <3>2. /\ cards[m].at \in Nat /\ cards[i].at \in Nat /\ cards[k].at \in Nat
          /\ m \in Nat /\ i \in Nat /\ k \in Nat
      <4>1. {m, i, k} \in SUBSET (1..Len(cards))
        BY <1>3, <2>3
      <4> QED
        BY <4>1, SomeCards
    <3> QED
      BY <3>1, <3>2 DEF NoOlder
  <2>5. m \in Newest(All)
    <3> HIDE DEF All, p
    <3>1. m \in All
      BY <1>2, <2>3
    <3>2. \A j \in All : NoOlder(m, j)
      BY <1>2, <2>3, <2>4 DEF p
    <3> QED
      BY <3>1, <3>2 DEF Newest
  <2> QED
    BY <1>3, <2>3, <2>5 DEF Carded, CurrentlyCarded
<1> QED
  BY <1>4, <1>5 DEF StandsOut

LEMMA CardedIsNext == (TypeOK => \A c \in Credits : Carded(c) <=> StandsOut(c))'
BY CardedIs, PTL

\* What a step that does not concern the credit leaves alone.
SameCards(c) ==
    /\ Attached(c)' = Attached(c) /\ Removals(c)' = Removals(c)
    /\ \A i \in Attached(c) \cup Removals(c) : cards'[i].at = cards[i].at
    /\ \A k \in Removals(c) :
          /\ cards'[k].by = cards[k].by
          /\ PersonOf[c] \in cards'[k].names <=> PersonOf[c] \in cards[k].names

Aside(c) ==
    /\ c \in live' <=> c \in live
    /\ Arrivals(c)' = Arrivals(c) /\ Left(c)' = Left(c)
    /\ swept'[c] = swept[c] /\ dropped \subseteq dropped'
    /\ clock <= clock' /\ Today <= Today'

SamePass ==
    /\ sweep'.pc = sweep.pc /\ sweep'.at = sweep.at /\ sweep'.todo = sweep.todo
    /\ sweep'.gone = sweep.gone /\ sweep'.clean = sweep.clean

LEMMA SameCarded ==
    ASSUME TypeOK, TypeOK', NEW c \in Credits, SameCards(c)
    PROVE  Carded(c)' <=> Carded(c)
<1>1. StandsOut(c)' <=> StandsOut(c)
  BY DEF StandsOut, SameCards, NoOlder
<1> QED
  BY <1>1, CardedIs, CardedIsNext

LEMMA RowsOf ==
    ASSUME NEW c \in Credits
    PROVE  \A x : x.credit = c => /\ Film(x) = FilmOf[c] /\ Type(x) = TypeOf[c]
                                  /\ Person(x) = PersonOf[c]
BY DEF Film, Type, Person

\* The reader was told of a credit before a departure of its.
LEMMA HadCardIs ==
    ASSUME NEW c \in Credits, NEW x, x.credit = c
    PROVE  HadCard(x) <=> \E i \in Attached(c) : cards[i].at < x.at
BY RowsOf DEF HadCard, Attached

LEMMA CameBackIs ==
    ASSUME NEW c \in Credits, NEW x, x.credit = c
    PROVE  CameBack(x) <=> \E u \in Arrivals(c) : x.at <= u.at /\ u.at < x.at + Dwell
BY DEF CameBack, Arrivals

LEMMA HandledStays ==
    ASSUME TypeOK, TypeOK', Days, Days', NEW c \in Credits, Arrivals(c)' = Arrivals(c),
           Today <= Today', NEW x \in Left(c), Handled(x),
           Taken(FilmOf[c], Removal[TypeOf[c]], x.at) => Taken(FilmOf[c], Removal[TypeOf[c]], x.at)',
           HadCard(x)' => HadCard(x)
    PROVE  Handled(x)'
<1>1. x.credit = c /\ x.at \in Nat /\ Lookback \in Nat /\ Today \in Nat
  BY Numbers DEF Left
<1>2. Today' \in Nat
  BY CreditsAssumption DEF TypeOK, Today
<1>3. CameBack(x) => CameBack(x)'
  BY <1>1 DEF CameBack, Arrivals
<1>4. Film(x) = FilmOf[c] /\ Type(x) = TypeOf[c]
  BY <1>1, RowsOf
<1>5. x.at + Lookback < Today => x.at + Lookback < Today'
  BY <1>1, <1>2
<1>6. (x.at + Lookback < Today)' <=> x.at + Lookback < Today'
  OBVIOUS
<1> QED
  BY <1>3, <1>4, <1>5 DEF Handled, Film, Type

\* What the last change of a credit says of it.
LEMMA LastChange ==
    ASSUME TypeOK, Days, Returned, Away, NEW c \in Credits,
           NEW r \in LatestOf(Arrivals(c) \cup Left(c))
    PROVE  /\ r.credit = c /\ r.at \in Nat
           /\ c \in live => /\ r \in LatestOf(Arrivals(c)) /\ \A x \in Left(c) : x.at < r.at
           /\ c \notin live => r \in LatestOf(Left(c)) /\ ~CameBack(r)
<1>1. /\ r \in Arrivals(c) \cup Left(c) /\ \A u \in Arrivals(c) \cup Left(c) : u.at <= r.at
  BY DEF LatestOf
<1>2. r.credit = c /\ \A u \in Arrivals(c) \cup Left(c) : u.at \in Nat
  BY <1>1, Numbers DEF Arrivals, Left
<1>3. ASSUME c \in live
      PROVE  r \in LatestOf(Arrivals(c)) /\ \A x \in Left(c) : x.at < r.at
  <2>1. r \notin Left(c)
    <3> SUFFICES ASSUME r \in Left(c) PROVE FALSE
      OBVIOUS
    <3>1. PICK v \in added : v.credit = c /\ v.at > r.at
      BY <1>2, <1>3 DEF Left, Returned
    <3>2. v \in Arrivals(c)
      BY <3>1 DEF Arrivals
    <3> QED
      BY <1>1, <1>2, <3>1, <3>2
  <2>2. \A x \in Left(c) : x.at # r.at
    BY <1>1, <1>2, <2>1 DEF Away, Left, Arrivals
  <2> QED
    BY <1>1, <1>2, <2>1, <2>2 DEF LatestOf
<1>4. ASSUME c \notin live
      PROVE  r \in LatestOf(Left(c)) /\ ~CameBack(r)
  <2>1. ASSUME NEW a \in Arrivals(c)
        PROVE  \E x \in Left(c) : x.at > a.at
    BY <1>4 DEF Away, Arrivals, Left
  <2>2. r \notin Arrivals(c)
    <3> SUFFICES ASSUME r \in Arrivals(c) PROVE FALSE
      OBVIOUS
    <3>1. PICK x \in Left(c) : x.at > r.at
      BY <2>1
    <3> QED
      BY <1>1, <1>2, <3>1
  <2>3. ~CameBack(r)
    <3> SUFFICES ASSUME NEW u \in added, u.credit = c, r.at <= u.at
                 PROVE  FALSE
      BY <1>2 DEF CameBack
    <3>1. u \in Arrivals(c)
      BY DEF Arrivals
    <3>2. PICK x \in Left(c) : x.at > u.at
      BY <2>1, <3>1
    <3> QED
      BY <1>1, <1>2, <3>1, <3>2
  <2> QED
    BY <1>1, <2>2, <2>3 DEF LatestOf
<1> QED
  BY <1>1, <1>2, <1>3, <1>4

LEMMA SettledIs ==
    ASSUME NEW c \in Credits
    PROVE  Settled(c) <=> \E r \in LatestOf(Arrivals(c) \cup Left(c)) :
              r.at + Quarantine <= sweep.at /\ r.at + Dwell <= sweep.at /\ InWindow(r)
BY DEF Settled, LatestOf, Arrivals, Left

LEMMA SameSettled ==
    ASSUME NEW c \in Credits, Arrivals(c)' = Arrivals(c), Left(c)' = Left(c),
           sweep'.at = sweep.at
    PROVE  Settled(c)' <=> Settled(c)
<1>1. Settled(c)' <=> \E r \in LatestOf(Arrivals(c)' \cup Left(c)') :
         r.at + Quarantine <= sweep'.at /\ r.at + Dwell <= sweep'.at /\ r.at + Lookback >= sweep'.at
  BY DEF Settled, LatestOf, Arrivals, Left, InWindow
<1> QED
  BY <1>1, SettledIs DEF InWindow

LEMMA TablesAside ==
    ASSUME TypeOK, TypeOK', Days, Days', NEW c \in Credits, Tables(c), Aside(c), SameCards(c)
    PROVE  Tables(c)'
<1>1. /\ Arrivals(c)' = Arrivals(c) /\ Left(c)' = Left(c) /\ Attached(c)' = Attached(c)
      /\ Removals(c)' = Removals(c) /\ swept'[c] = swept[c]
      /\ c \in live' <=> c \in live
  BY DEF Aside, SameCards
<1>2. /\ clock \in Nat /\ clock' \in Nat /\ clock <= clock'
      /\ Today \in Nat /\ Today' \in Nat /\ Today <= Today' /\ Quarantine \in Nat
  BY CreditsAssumption DEF TypeOK, Aside, Today
<1>3. /\ \A i \in Attached(c) \cup Removals(c) :
            i \in 1..Len(cards) /\ cards[i].at \in Nat /\ cards'[i].at = cards[i].at
      /\ \A r \in Arrivals(c) \cup Left(c) : r.at \in Nat /\ r.credit = c
  BY Numbers DEF SameCards, Attached, Removals, AttachCards, Arrivals, Left
<1>4. CardsPrecede(c)'
  BY <1>1, <1>2, <1>3 DEF CardsPrecede, Tables
<1>5. RemovalsName(c)'
  <2> SUFFICES ASSUME NEW k \in Removals(c)
               PROVE  /\ cards'[k].at < Today'
                      /\ PersonOf[c] \in cards'[k].names => [credit |-> c, at |-> cards'[k].at] \in removed'
                      /\ c \notin live' /\ (\E x \in LatestOf(Left(c)) : x.at = cards'[k].at)
                         => PersonOf[c] \in cards'[k].names \/ Attached(c)' = {}
    BY <1>1 DEF RemovalsName, LatestOf
  <2>1. /\ cards[k].at < Today
        /\ PersonOf[c] \in cards[k].names => [credit |-> c, at |-> cards[k].at] \in removed
        /\ c \notin live /\ (\E x \in LatestOf(Left(c)) : x.at = cards[k].at)
           => PersonOf[c] \in cards[k].names \/ Attached(c) = {}
    BY DEF Tables, RemovalsName
  <2>2. /\ cards'[k].at = cards[k].at /\ cards[k].at \in Nat
        /\ PersonOf[c] \in cards'[k].names <=> PersonOf[c] \in cards[k].names
    BY <1>3 DEF SameCards
  <2>3. [credit |-> c, at |-> cards[k].at] \in removed => [credit |-> c, at |-> cards[k].at] \in removed'
    <3> SUFFICES ASSUME [credit |-> c, at |-> cards[k].at] \in removed
                 PROVE  [credit |-> c, at |-> cards[k].at] \in removed'
      OBVIOUS
    <3>1. [credit |-> c, at |-> cards[k].at] \in Left(c)'
      BY <1>1 DEF Left
    <3> QED
      BY <3>1 DEF Left
  <2> QED
    BY <1>1, <1>2, <2>1, <2>2, <2>3
<1>6. Rested(c)'
  <2> SUFFICES ASSUME swept[c] >= 1
               PROVE  \E r \in LatestOf(Arrivals(c) \cup Left(c)) : r.at + Quarantine <= Today'
    BY <1>1 DEF Rested, LatestOf
  <2>1. PICK r \in LatestOf(Arrivals(c) \cup Left(c)) : r.at + Quarantine <= Today
    BY DEF Tables, Rested
  <2>2. r.at \in Nat
    BY <1>3 DEF LatestOf
  <2> QED
    BY <1>2, <2>1, <2>2
<1>7. Departures(c)'
  <2>1. SUFFICES ASSUME swept[c] >= 1
                 PROVE  IF c \in live THEN \A x \in Left(c) : Handled(x)' ELSE ~Carded(c)'
    BY <1>1 DEF Departures
  <2>2. CASE c \in live
    <3> SUFFICES ASSUME NEW x \in Left(c) PROVE Handled(x)'
      BY <2>2
    <3>1. Handled(x) /\ x.credit = c
      BY <1>3, <2>1, <2>2 DEF Tables, Departures
    <3>2. ASSUME Taken(FilmOf[c], Removal[TypeOf[c]], x.at)
          PROVE  Taken(FilmOf[c], Removal[TypeOf[c]], x.at)'
      <4>1. PICK k \in Removals(c) : cards[k].at = x.at /\ cards[k].by = "catalog"
        BY <3>2 DEF Taken, Removals, AttachCards
      <4>2. k \in Removals(c)' /\ cards'[k].at = x.at /\ cards'[k].by = "catalog"
        BY <4>1 DEF SameCards
      <4> QED
        BY <4>2 DEF Taken, Removals, AttachCards
    <3>3. HadCard(x)' => HadCard(x)
      <4>1. HadCard(x)' <=> \E i \in Attached(c)' : cards'[i].at < x.at
        BY <3>1, RowsOf DEF HadCard, Attached, Film, Type, Person
      <4> QED
        BY <1>1, <1>3, <3>1, <4>1, HadCardIs
    <3> QED
      BY <1>1, <1>2, <3>1, <3>2, <3>3, HandledStays
  <2>3. CASE c \notin live
    BY <2>1, <2>3, SameCarded DEF Tables, Departures
  <2> QED
    BY <2>2, <2>3
<1>8. Returns(c)'
  <2> SUFFICES ASSUME swept[c] = 2, c \in live, ~DateTaken(c)'
               PROVE  Carded(c)'
    BY <1>1 DEF Returns
  <2>1. ~DateTaken(c)
    <3>1. DateTaken(c)' <=> \E r \in LatestOf(Arrivals(c)') : r \in dropped'
      BY DEF DateTaken, Arrivals, LatestOf
    <3> QED
      BY <1>1, <3>1 DEF DateTaken, Arrivals, Aside
  <2> QED
    BY <2>1, SameCarded DEF Tables, Returns
<1> QED
  BY <1>4, <1>5, <1>6, <1>7, <1>8 DEF Tables

LEMMA PassAside ==
    ASSUME TypeOK, TypeOK', Days, Days', NEW c \in Credits, Pass(c), Aside(c), SameCards(c),
           SamePass
    PROVE  Pass(c)'
<1>1. /\ Arrivals(c)' = Arrivals(c) /\ Left(c)' = Left(c)
      /\ c \in live' <=> c \in live
      /\ swept'[c] = swept[c] /\ dropped \subseteq dropped'
      /\ sweep'.pc = sweep.pc /\ sweep'.at = sweep.at /\ sweep'.todo = sweep.todo
      /\ sweep'.gone = sweep.gone /\ sweep'.clean = sweep.clean
      /\ Settled(c)' <=> Settled(c)
  BY SameSettled DEF Aside, SamePass
<1>2. TodoWhole(c)'
  BY <1>1 DEF Pass, TodoWhole
<1>3. Removing(c)'
  <2> SUFFICES ASSUME sweep.pc = "remove", sweep.clean, Settled(c), NEW x \in Left(c),
                      x \notin sweep.gone
               PROVE  Handled(x)'
    BY <1>1 DEF Removing
  <2>1. Handled(x) /\ x.credit = c
    BY DEF Pass, Removing, Left
  <2>2. ASSUME Taken(FilmOf[c], Removal[TypeOf[c]], x.at)
        PROVE  Taken(FilmOf[c], Removal[TypeOf[c]], x.at)'
    <3>1. PICK k \in Removals(c) : cards[k].at = x.at /\ cards[k].by = "catalog"
      BY <2>2 DEF Taken, Removals, AttachCards
    <3>2. k \in Removals(c)' /\ cards'[k].at = x.at /\ cards'[k].by = "catalog"
      BY <3>1 DEF SameCards
    <3> QED
      BY <3>2 DEF Taken, Removals, AttachCards
  <2>3. HadCard(x)' => HadCard(x)
    <3>1. HadCard(x)' <=> \E i \in Attached(c)' : cards'[i].at < x.at
      BY <2>1, RowsOf DEF HadCard, Attached, Film, Type, Person
    <3> QED
      BY <2>1, <3>1, HadCardIs DEF SameCards
  <2> QED
    BY <1>1, <2>1, <2>2, <2>3, HandledStays DEF Aside
<1>4. Carding(c)'
  <2> SUFFICES ASSUME swept[c] >= 1, c \in live, sweep.clean, Settled(c),
                      sweep.pc \in {"card", "remove"}, ~Carded(c)'
               PROVE  \E b \in LatestOf(Arrivals(c)) :
                         b \in dropped' \/ (sweep.pc = "card" /\ b \in sweep.todo)
    BY <1>1 DEF Carding, LatestOf
  <2>1. ~Carded(c)
    BY SameCarded
  <2> QED
    BY <1>1, <2>1 DEF Pass, Carding
<1> QED
  BY <1>2, <1>3, <1>4 DEF Pass

LEMMA NoCards ==
    ASSUME NEW c \in Credits, cards' = cards
    PROVE  SameCards(c)
BY DEF SameCards, Attached, Removals, AttachCards

LEMMA NoRows ==
    ASSUME NEW c \in Credits, UNCHANGED <<live, added, removed>>
    PROVE  Arrivals(c)' = Arrivals(c) /\ Left(c)' = Left(c) /\ (c \in live' <=> c \in live)
BY DEF Arrivals, Left

LEMMA TodayOn ==
    ASSUME TypeOK, Days, TypeOK', Days', clock <= clock',
           \/ sweep'.pc = "idle"
           \/ sweep'.at = clock
           \/ sweep.pc # "idle" /\ sweep'.at = sweep.at
    PROVE  Today <= Today'
<1>1. /\ clock \in Nat /\ Today \in Nat /\ Today <= clock
      /\ sweep.pc # "idle" => Today = sweep.at
  BY Numbers
<1>2. clock' \in Nat /\ sweep'.at <= clock'
  BY CreditsAssumption DEF TypeOK, Days
<1> QED
  BY <1>1, <1>2 DEF Today

\* Nothing told is forgotten, and no hold is deleted.
LEMMA Grows ==
    ASSUME TypeOK, [Next]_vars
    PROVE  /\ told \subseteq told' /\ DOMAIN hold \subseteq DOMAIN hold'
           /\ \A c \in Credits : Elsewhere(c) => Elsewhere(c)'
<1>1. told \subseteq told'
  <2>1. \A f \in Films : Story(f) => told \subseteq told'
    BY StoryWrites DEF StampForward
  <2>2. \A outage \in BOOLEAN : Judge(outage) => told \subseteq told'
    BY JudgeWrites
  <2>3. \A f \in Films : \A present \in SUBSET {c \in Credits : FilmOf[c] = f} :
           Observe(f, present) => told' = told
    BY DEF Observe
  <2>4. \A r \in DOMAIN hold : AdminReleases(r) => told' = told
    BY DEF AdminReleases
  <2>5. Reconcile => told' = told
    BY DEF Reconcile
  <2>6. \A f \in Films, type \in Types : CardGroup(f, type) => told' = told
    BY DEF CardGroup
  <2>7. \A f \in Films, type \in Types, at \in 0..MaxTime :
           CardDetachment(f, type, at) => told' = told
    BY DEF CardDetachment
  <2>8. Passing => told' = told
    BY DEF Passing, Tick, StartSweep, LoadDetachments, EndSweep, SweepDies, GroupFails,
           DetachmentFails, vars
  <2> QED
    BY <2>1, <2>2, <2>3, <2>4, <2>5, <2>6, <2>7, <2>8, Actions
<1>2. DOMAIN hold \subseteq DOMAIN hold'
  <2>1. \A f \in Films : Story(f) => hold' = hold
    BY StoryWrites DEF StampForward
  <2>2. ASSUME NEW outage \in BOOLEAN, Judge(outage)
        PROVE  DOMAIN hold \subseteq DOMAIN hold'
    <3>1. PICK burst, dates : hold' = [r \in DOMAIN hold \cup burst \cup dates |->
                 IF r \in burst THEN "burst" ELSE IF r \in dates THEN "dates" ELSE hold[r]]
      BY <2>2, Zenon DEF Judge
    <3> QED
      BY <3>1
  <2>3. \A f \in Films : \A present \in SUBSET {c \in Credits : FilmOf[c] = f} :
           Observe(f, present) => hold' = hold
    BY DEF Observe
  <2>4. \A r \in DOMAIN hold : AdminReleases(r) => DOMAIN hold \subseteq DOMAIN hold'
    BY DEF AdminReleases
  <2>5. Reconcile => DOMAIN hold \subseteq DOMAIN hold'
    BY DEF Reconcile
  <2>6. \A f \in Films, type \in Types : CardGroup(f, type) => hold' = hold
    BY DEF CardGroup
  <2>7. \A f \in Films, type \in Types, at \in 0..MaxTime :
           CardDetachment(f, type, at) => hold' = hold
    BY DEF CardDetachment
  <2>8. Passing => hold' = hold
    BY DEF Passing, Tick, StartSweep, LoadDetachments, EndSweep, SweepDies, GroupFails,
           DetachmentFails, vars, tables
  <2> QED
    BY <2>1, <2>2, <2>3, <2>4, <2>5, <2>6, <2>7, <2>8, Actions
<1> QED
  BY <1>1, <1>2 DEF Elsewhere

LEMMA AwayNext ==
    ASSUME TypeOK, Days, Away, [Next]_vars
    PROVE  Away'
<1>1. ASSUME NEW f \in Films, NEW present \in SUBSET {c \in Credits : FilmOf[c] = f},
             Observe(f, present)
      PROVE  Away'
  <2> DEFINE before == {c \in live : FilmOf[c] = f}
  <2>1. /\ live' = (live \ before) \cup present
        /\ added' = added \cup {[credit |-> c, at |-> clock] : c \in present \ before}
        /\ removed' = removed \cup {[credit |-> c, at |-> clock] : c \in before \ present}
        /\ \A r \in added \cup removed : Film(r) = f => r.at # clock
    BY <1>1 DEF Observe, RecordChanges
  <2>2. \A r \in added \cup removed : Film(r) = f => r.at < clock
    <3>1. \A r \in added \cup removed : r.at \in Nat /\ clock \in Nat /\ r.at <= clock
      BY Numbers
    <3> QED
      BY <2>1, <3>1
  <2>3. ASSUME NEW a \in added', a.credit \notin live'
        PROVE  \E x \in removed' : x.credit = a.credit /\ x.at > a.at
    <3>1. a \in added
      BY <2>1, <2>3
    <3>2. CASE a.credit \notin live
      BY <2>1, <3>1, <3>2 DEF Away
    <3>3. CASE a.credit \in live
      <4>1. a.credit \in before \ present /\ Film(a) = f
        BY <2>1, <2>3, <3>3 DEF Film
      <4>2. [credit |-> a.credit, at |-> clock] \in removed' /\ a.at < clock
        BY <2>1, <2>2, <3>1, <4>1
      <4>3. a.at \in Nat /\ clock \in Nat
        BY <3>1, Numbers
      <4> QED
        BY <4>2, <4>3
    <3> QED
      BY <3>2, <3>3
  <2>4. ASSUME NEW a \in added', NEW x \in removed', a.credit = x.credit
        PROVE  a.at # x.at
    <3>1. CASE a \in added /\ x \in removed
      BY <2>4, <3>1 DEF Away
    <3>2. CASE a \in added /\ x \notin removed
      <4>1. x.credit \in before /\ x.at = clock
        BY <2>1, <3>2
      <4> QED
        BY <2>1, <2>4, <3>2, <4>1 DEF Film
    <3>3. CASE a \notin added /\ x \in removed
      <4>1. a.credit \in present /\ a.at = clock
        BY <2>1, <3>3
      <4> QED
        BY <2>1, <2>4, <3>3, <4>1 DEF Film
    <3>4. CASE a \notin added /\ x \notin removed
      BY <2>1, <2>4, <3>4
    <3> QED
      BY <3>1, <3>2, <3>3, <3>4
  <2> QED
    BY <2>3, <2>4 DEF Away
<1>2. CASE UNCHANGED <<live, added, removed>>
  BY <1>2 DEF Away
<1> QED
  BY <1>1, <1>2, Observed

LEMMA TellingNext ==
    ASSUME TypeOK, Telling, [Next]_vars
    PROVE  Telling'
<1>1. /\ \A i \in 1..Len(cards) : cards[i].by = "story" =>
            \A p \in cards[i].names : <<cards[i].film, p>> \in told
      /\ \A r : Stamped(r) => <<Film(r), Person(r)>> \in told
      /\ told \subseteq told' /\ Len(cards) \in Nat
  BY Grows DEF Telling, Stamped, TypeOK
<1>2. ASSUME NEW f \in Films, Story(f)
      PROVE  Telling'
  <2>1. PICK i \in 1..Len(cards'), names \in SUBSET Persons, new \in SUBSET Persons :
           StampForward(f, i, names, new) /\ Names(f, new)
    BY <1>2, StoryWrites
  <2>2. CardsGrow("story")
    BY <1>2, StoryWrites
  <2>3. /\ \A p \in new : <<f, p>> \in told'
        /\ \A r \in Published(f, names) : <<f, Person(r)>> \in told' /\ Film(r) = f
        /\ DOMAIN stamp' = DOMAIN stamp \cup Published(f, names)
    BY <2>1 DEF StampForward, Published
  <2>4. ASSUME NEW j \in 1..Len(cards'), cards'[j].by = "story", NEW p \in cards'[j].names
        PROVE  <<cards'[j].film, p>> \in told'
    <3>1. CASE j \in 1..Len(cards) /\ p \in cards[j].names
      BY <1>1, <2>2, <2>4, <3>1 DEF CardsGrow
    <3>2. CASE cards'[j].film = f /\ p \in new
      BY <2>3, <3>2
    <3> QED
      BY <2>1, <3>1, <3>2 DEF Names
  <2>5. ASSUME NEW r \in DOMAIN stamp'
        PROVE  <<Film(r), Person(r)>> \in told'
    BY <1>1, <2>3 DEF Stamped
  <2> QED
    BY <2>4, <2>5 DEF Telling
<1>3. ASSUME NEW outage \in BOOLEAN, Judge(outage)
      PROVE  Telling'
  <2>1. told' = told \cup {<<Film(r), Person(r)>> : r \in Scooped} /\ cards' = cards
    BY <1>3 DEF Judge
  <2>2. \A r : Stamped(r)' => Stamped(r) \/ r \in Scooped
    BY <1>3, JudgeWrites
  <2> QED
    BY <1>1, <2>1, <2>2 DEF Telling, Stamped
<1>4. ASSUME stamp' = stamp, CardsGrow("catalog"),
             \A j \in 1..Len(cards) : cards'[j].names = cards[j].names
      PROVE  Telling'
  <2>1. ASSUME NEW j \in 1..Len(cards'), cards'[j].by = "story"
        PROVE  j \in 1..Len(cards)
    <3>1. j \notin (Len(cards) + 1)..Len(cards')
      BY <1>4, <2>1 DEF CardsGrow
    <3>2. Len(cards') \in Nat
      BY <1>4 DEF CardsGrow
    <3> QED
      BY <1>1, <3>1, <3>2
  <2> QED
    BY <1>1, <1>4, <2>1 DEF Telling, CardsGrow, Stamped
<1>5. ASSUME NEW f \in Films, NEW type \in Types, CardGroup(f, type)
      PROVE  Telling'
  <2>1. stamp' = stamp /\ CardsGrow("catalog")
    BY <1>5, GroupWrites DEF CardGroup
  <2>2. \A j \in 1..Len(cards) : cards'[j].names = cards[j].names
    <3>1. cards' = cards \/ \E k : cards' = Append(cards, k)
      BY <1>5, Zenon DEF CardGroup
    <3>2. cards \in Seq(Card)
      BY DEF TypeOK
    <3> QED
      BY <3>1, <3>2
  <2> QED
    BY <1>4, <2>1, <2>2
<1>6. ASSUME NEW f \in Films, NEW type \in Types, NEW at \in 0..MaxTime,
             CardDetachment(f, type, at)
      PROVE  Telling'
  <2>1. stamp' = stamp /\ CardsGrow("catalog")
    BY <1>6, DetachmentWrites DEF CardDetachment
  <2>2. \A j \in 1..Len(cards) : cards'[j].names = cards[j].names
    <3>1. PICK names : /\ names = {Person(r) : r \in Departed({r \in GroupOf(sweep.gone, f, type) : r.at = at})}
                       /\ cards' = cards \/ cards' = CardsWithRemoval(f, type, at, names)
      BY <1>6, Zenon DEF CardDetachment
    <3>2. names \in SUBSET Persons
      <4>1. sweep.gone \subseteq Rows
        BY DEF TypeOK
      <4> QED
        BY <3>1, <4>1, Constants DEF Departed, GroupOf
    <3> QED
      BY <3>1, <3>2, RemovalWrites
  <2> QED
    BY <1>4, <2>1, <2>2
<1>7. cards' = cards /\ stamp' = stamp => Telling'
  BY <1>1 DEF Telling, Stamped
<1>8. \A f \in Films : \A present \in SUBSET {c \in Credits : FilmOf[c] = f} :
         Observe(f, present) => cards' = cards /\ stamp' = stamp
  BY DEF Observe
<1>9. \A r \in DOMAIN hold : AdminReleases(r) => cards' = cards /\ stamp' = stamp
  BY DEF AdminReleases
<1>10. Reconcile => cards' = cards /\ stamp' = stamp
  BY DEF Reconcile
<1>11. Passing => cards' = cards /\ stamp' = stamp
  BY DEF Passing, Tick, StartSweep, LoadDetachments, EndSweep, SweepDies, GroupFails,
         DetachmentFails, vars, tables
<1> QED
  BY <1>2, <1>3, <1>5, <1>6, <1>7, <1>8, <1>9, <1>10, <1>11, Actions

LEMMA WholeNext ==
    ASSUME TypeOK, Days, Whole, [Next]_vars
    PROVE  Whole'
<1>1. ASSUME NEW f \in Films, NEW present \in SUBSET {c \in Credits : FilmOf[c] = f},
             Observe(f, present)
      PROVE  Whole'
  <2> DEFINE before == {c \in live : FilmOf[c] = f}
  <2>1. /\ removed' = removed \cup {[credit |-> c, at |-> clock] : c \in before \ present}
        /\ \A r \in added \cup removed : Film(r) = f => r.at # clock
        /\ sweep' = sweep
    BY <1>1 DEF Observe, RecordChanges
  <2>2. ASSUME NEW r \in sweep.gone, NEW u \in removed', Film(u) = Film(r), Type(u) = Type(r),
               u.at = r.at
        PROVE  u \in sweep.gone
    <3>1. r \in removed
      BY Numbers
    <3>2. u \in removed
      <4> SUFFICES ASSUME u \notin removed PROVE FALSE
        OBVIOUS
      <4>1. u.credit \in before /\ u.at = clock
        BY <2>1
      <4> QED
        BY <2>1, <2>2, <3>1, <4>1 DEF Film
    <3> QED
      BY <2>2, <3>2 DEF Whole
  <2> QED
    BY <2>1, <2>2 DEF Whole, InWindow
<1>2. ASSUME UNCHANGED removed, sweep'.at = sweep.at, sweep'.gone = sweep.gone
      PROVE  Whole'
  BY <1>2 DEF Whole, InWindow
<1>3. ASSUME UNCHANGED removed, sweep'.at = sweep.at,
             NEW group, sweep'.gone = sweep.gone \ group,
             \A r, u \in removed : /\ r.at = u.at /\ Film(r) = Film(u) /\ Type(r) = Type(u)
                                   /\ u \in sweep.gone /\ r \in sweep.gone /\ u \in group
                                   => r \in group
      PROVE  Whole'
  <2>1. sweep.gone \subseteq removed
    BY Numbers
  <2> QED
    BY <1>3, <2>1 DEF Whole, InWindow
<1>4. sweep'.gone = {} => Whole'
  BY DEF Whole
<1>5. \A f \in Films : Story(f) => Whole'
  <2>1. ASSUME NEW f \in Films, Story(f)
        PROVE  UNCHANGED removed /\ sweep'.at = sweep.at /\ sweep'.gone = sweep.gone
    <3>1. \E S : sweep' = [sweep EXCEPT !.scooped = S]
      BY <2>1, StoryWrites DEF StampForward
    <3>2. UNCHANGED removed
      BY <2>1, StoryWrites DEF StampForward
    <3> QED
      BY <3>1, <3>2 DEF TypeOK
  <2> QED
    BY <1>2, <2>1
<1>6. \A r \in DOMAIN hold : AdminReleases(r) => Whole'
  BY <1>2 DEF AdminReleases
<1>7. Reconcile => Whole'
  BY <1>2 DEF Reconcile, TypeOK
<1>8. \A outage \in BOOLEAN : Judge(outage) => Whole'
  <2>1. ASSUME NEW outage \in BOOLEAN, Judge(outage)
        PROVE  sweep'.at = sweep.at /\ sweep'.gone = sweep.gone /\ removed' = removed
    BY <2>1 DEF Judge, TypeOK
  <2> QED
    BY <1>2, <2>1
<1>9. \A f \in Films, type \in Types : CardGroup(f, type) => Whole'
  BY <1>2 DEF CardGroup, TypeOK
<1>10. ASSUME NEW f \in Films, NEW type \in Types, NEW at \in 0..MaxTime,
              CardDetachment(f, type, at)
       PROVE  Whole'
  <2>1. PICK group : /\ group = {r \in GroupOf(sweep.gone, f, type) : r.at = at}
                     /\ sweep' = [sweep EXCEPT !.gone = @ \ group] /\ removed' = removed
    BY <1>10 DEF CardDetachment
  <2>2. sweep'.at = sweep.at /\ sweep'.gone = sweep.gone \ group
    BY <2>1 DEF TypeOK
  <2> QED
    BY <1>3, <2>1, <2>2 DEF GroupOf
<1>11. CASE Passing
  <2>1. CASE Tick \/ UNCHANGED vars
    BY <1>2, <2>1 DEF Tick, vars, tables
  <2>2. CASE StartSweep \/ EndSweep \/ SweepDies
    <3>1. StartSweep => sweep'.gone = {}
      BY DEF StartSweep, Idle
    <3>2. EndSweep \/ SweepDies => sweep' = Idle
      BY DEF EndSweep, SweepDies
    <3>3. sweep'.gone = {}
      BY <2>2, <3>1, <3>2 DEF Idle
    <3> QED
      BY <1>4, <3>3
  <2>3. CASE LoadDetachments
    <3>1. /\ sweep'.gone = {r \in removed : InWindow(r)} /\ sweep'.at = sweep.at
          /\ removed' = removed
      BY <2>3 DEF LoadDetachments, tables, TypeOK
    <3> QED
      BY <3>1 DEF Whole, InWindow
  <2>4. ASSUME NEW f \in Films, NEW type \in Types, GroupFails(f, type)
        PROVE  Whole'
    <3>1. PICK rest : sweep' = [sweep EXCEPT !.todo = rest, !.clean = FALSE]
      BY <2>4 DEF GroupFails
    <3>2. sweep'.at = sweep.at /\ sweep'.gone = sweep.gone /\ removed' = removed
      BY <2>4, <3>1 DEF GroupFails, tables, TypeOK
    <3> QED
      BY <1>2, <3>2
  <2>5. ASSUME NEW f \in Films, NEW type \in Types, NEW at \in 0..MaxTime,
               DetachmentFails(f, type, at)
        PROVE  Whole'
    <3>1. PICK group : /\ group = {r \in GroupOf(sweep.gone, f, type) : r.at = at}
                       /\ \E rest \in {sweep.gone \ group, {}} :
                             sweep' = [sweep EXCEPT !.gone = rest, !.clean = FALSE]
      BY <2>5 DEF DetachmentFails
    <3>2. /\ sweep'.at = sweep.at /\ removed' = removed
          /\ sweep'.gone = sweep.gone \ group \/ sweep'.gone = {}
      BY <2>5, <3>1 DEF DetachmentFails, tables, TypeOK
    <3> QED
      BY <1>3, <1>4, <3>1, <3>2 DEF GroupOf
  <2> QED
    BY <1>11, <2>1, <2>2, <2>3, <2>4, <2>5 DEF Passing
<1> QED
  BY <1>1, <1>5, <1>6, <1>7, <1>8, <1>9, <1>10, <1>11, Actions
-----------------------------------------------------------------------------
\* The steps, for one credit that no story, hold or other credit concerns.

LEMMA ObserveCurrent ==
    ASSUME TypeOK, TypeOK', Days, Days', NEW c \in Credits, Tables(c), Pass(c),
           NEW f \in Films, NEW present \in SUBSET {d \in Credits : FilmOf[d] = f},
           Observe(f, present)
    PROVE  Tables(c)' /\ Pass(c)'
<1> DEFINE before == {d \in live : FilmOf[d] = f}
           changed == (present \ before) \cup (before \ present)
<1>1. /\ live' = (live \ before) \cup present
      /\ added' = added \cup {[credit |-> d, at |-> clock] : d \in present \ before}
      /\ removed' = removed \cup {[credit |-> d, at |-> clock] : d \in before \ present}
      /\ \A r \in added \cup removed : Film(r) = f => r.at # clock
      /\ swept' = [d \in Credits |-> IF d \in changed THEN 0 ELSE swept[d]]
      /\ UNCHANGED <<clock, cards, sweep, dropped>>
  BY DEF Observe, RecordChanges
<1>2. SameCards(c) /\ SamePass /\ Today' = Today
  BY <1>1, NoCards DEF SamePass, Today
<1>3. /\ clock \in Nat /\ sweep.at \in Nat /\ Today \in Nat /\ Today <= clock
      /\ sweep.at <= clock /\ Quarantine \in Nat \ {0}
      /\ \A r \in added \cup removed : r.at \in Nat /\ r.at <= clock
      /\ \A i \in 1..Len(cards) : cards[i].at \in Nat
      /\ sweep.todo \subseteq added
  BY Numbers
<1>4. CASE c \notin changed
  <2>1. c \in live' <=> c \in live
    BY <1>1, <1>4
  <2>2. Arrivals(c)' = Arrivals(c) /\ Left(c)' = Left(c)
    BY <1>1, <1>4 DEF Arrivals, Left
  <2>3. Aside(c)
    BY <1>1, <1>2, <1>3, <1>4, <2>1, <2>2 DEF Aside
  <2> QED
    BY <1>2, <2>3, TablesAside, PassAside
<1>5. CASE c \in changed
  <2>1. swept'[c] = 0
    BY <1>1, <1>5
  <2>2. PICK r \in added' \cup removed' : /\ r.credit = c /\ r.at = clock
                                          /\ c \notin live' => r \in removed'
    <3>1. CASE c \in present \ before
      <4>1. [credit |-> c, at |-> clock] \in added'
        BY <1>1, <3>1
      <4> QED
        BY <1>1, <3>1, <4>1
    <3>2. CASE c \in before \ present
      <4>1. [credit |-> c, at |-> clock] \in removed'
        BY <1>1, <3>2
      <4> QED
        BY <4>1
    <3> QED
      BY <1>5, <3>1, <3>2
  <2>3. ~Settled(c)'
    <3> SUFFICES ASSUME NEW u \in added' \cup removed', r.at <= u.at, u.at + Quarantine <= sweep.at
                 PROVE  FALSE
      BY <1>1, <2>2 DEF Settled
    <3>1. u.at \in Nat
      BY CreditsAssumption DEF TypeOK, Rows
    <3> QED
      BY <1>3, <2>2, <3>1
  <2>4. CardsPrecede(c)'
    <3> SUFFICES ASSUME NEW i \in Attached(c)
                 PROVE  /\ cards[i].at < clock
                        /\ c \in live' \/ \E x \in Left(c)' : x.at > cards[i].at
      BY <1>1, <1>2 DEF CardsPrecede, SameCards
    <3>1. cards[i].at < clock
      BY DEF Tables, CardsPrecede
    <3>2. CASE c \notin live'
      <4>1. r \in Left(c)'
        BY <2>2, <3>2 DEF Left
      <4>2. cards[i].at \in Nat
        BY <1>3 DEF Attached, AttachCards
      <4> QED
        BY <1>3, <2>2, <3>1, <4>1, <4>2
    <3> QED
      BY <3>1, <3>2
  <2>5. RemovalsName(c)'
    <3> SUFFICES ASSUME NEW k \in Removals(c)
                 PROVE  /\ cards[k].at < Today
                        /\ PersonOf[c] \in cards[k].names => [credit |-> c, at |-> cards[k].at] \in removed'
                        /\ ~ (c \notin live' /\ \E x \in LatestOf(Left(c)') : x.at = cards[k].at)
      BY <1>1, <1>2 DEF RemovalsName, SameCards, LatestOf
    <3>1. /\ cards[k].at < Today /\ cards[k].at \in Nat
          /\ PersonOf[c] \in cards[k].names => [credit |-> c, at |-> cards[k].at] \in removed
      BY <1>3 DEF Tables, RemovalsName, Removals, AttachCards
    <3>2. ASSUME c \notin live', NEW x \in LatestOf(Left(c)'), x.at = cards[k].at
          PROVE  FALSE
      <4>1. r \in Left(c)'
        BY <2>2, <3>2 DEF Left
      <4>2. r.at <= x.at
        BY <4>1 DEF LatestOf
      <4> QED
        BY <1>3, <2>2, <3>1, <3>2, <4>2
    <3> QED
      BY <1>1, <3>1, <3>2
  <2>6. Rested(c)' /\ Departures(c)' /\ Returns(c)'
    BY <2>1 DEF Rested, Departures, Returns
  <2>7. TodoWhole(c)'
    <3> SUFFICES ASSUME NEW u \in sweep.todo, u.credit = c
                 PROVE  /\ c \in live' \/ \E x \in Left(c)' : x.at >= sweep.at
                        /\ \A b \in Arrivals(c)' :
                              b.at >= u.at /\ b.at + Quarantine <= sweep.at => b \in sweep.todo
      BY <1>1 DEF TodoWhole
    <3>1. c \notin live' => r \in Left(c)' /\ r.at >= sweep.at
      BY <1>3, <2>2 DEF Left
    <3>2. ASSUME NEW b \in Arrivals(c)', b.at >= u.at, b.at + Quarantine <= sweep.at
          PROVE  b \in sweep.todo
      <4>1. b \in Arrivals(c) \/ b.at = clock
        BY <1>1 DEF Arrivals
      <4>2. b.at # clock
        BY <1>3, <3>2
      <4> QED
        BY <3>2, <4>1, <4>2 DEF Pass, TodoWhole
    <3> QED
      BY <3>1, <3>2
  <2>8. Removing(c)' /\ Carding(c)'
    BY <2>3 DEF Removing, Carding
  <2> QED
    BY <2>4, <2>5, <2>6, <2>7, <2>8 DEF Tables, Pass
<1> QED
  BY <1>4, <1>5

\* A story that does not name the person leaves their cards alone.
LEMMA StoryCurrent ==
    ASSUME TypeOK, TypeOK', Days, Days', NEW c \in Credits, Tables(c), Pass(c),
           ~Elsewhere(c)', NEW f \in Films, Story(f)
    PROVE  Tables(c)' /\ Pass(c)'
<1>1. PICK i \in 1..Len(cards'), names \in SUBSET Persons, new \in SUBSET Persons :
         StampForward(f, i, names, new) /\ Names(f, new)
  BY StoryWrites
<1>2. /\ UNCHANGED <<clock, live, added, removed, hold, dated, faults, dropped, swept>>
      /\ \E S : sweep' = [sweep EXCEPT !.scooped = S]
      /\ \A p \in new : <<f, p>> \in told'
  BY <1>1 DEF StampForward
<1>3. SamePass /\ Today' = Today
  BY <1>2 DEF SamePass, TypeOK, Today
<1>4. Aside(c)
  <2>1. Today \in Nat /\ clock \in Nat
    BY Numbers
  <2> QED
    BY <1>2, <1>3, <2>1, NoRows DEF Aside
<1>5. CardsGrow("story") /\ Steady
  BY StoryWrites, StoryCorrects
<1>6. \A j \in (Len(cards) + 1)..Len(cards') : cards'[j].type = "casting"
  <2>1. cards \in Seq(Card) /\ Len(cards) \in Nat
    BY DEF TypeOK
  <2>2. ASSUME NEW all \in SUBSET Persons, StoryCreates(f, all)
        PROVE  \A j \in (Len(cards) + 1)..Len(cards') : cards'[j].type = "casting"
    <3>1. \E k : cards' = Append(cards, k) /\ k.type = "casting"
      BY <2>2 DEF StoryCreates
    <3> QED
      BY <2>1, <3>1
  <2>3. ASSUME NEW all \in SUBSET Persons, NEW j \in 1..Len(cards), StoryJoins(f, all, j)
        PROVE  Len(cards') = Len(cards)
    <3>1. \E k : cards' = [cards EXCEPT ![j] = k]
      BY <2>3 DEF StoryJoins
    <3> QED
      BY <2>1, <3>1
  <2>4. \A j \in 1..Len(cards) : StoryAttaches(f, j) => Len(cards') = Len(cards)
    BY DEF StoryAttaches
  <2> QED
    BY <2>1, <2>2, <2>3, <2>4 DEF Story
<1>7. ASSUME NEW j \in 1..Len(cards'), cards'[j].film = FilmOf[c], PersonOf[c] \in cards'[j].names
      PROVE  j \in 1..Len(cards) /\ PersonOf[c] \in cards[j].names
  BY <1>1, <1>2, <1>7 DEF Names, Elsewhere
<1>8. \A j \in 1..Len(cards) :
         /\ j \in 1..Len(cards') /\ cards'[j].film = cards[j].film /\ cards'[j].type = cards[j].type
         /\ cards'[j].at = cards[j].at /\ cards'[j].by = cards[j].by
         /\ cards[j].names \subseteq cards'[j].names
  <2>1. Len(cards) \in Nat
    BY DEF TypeOK
  <2> QED
    BY <1>5, <2>1 DEF CardsGrow, Steady
<1>9. Attached(c)' = Attached(c)
  <2>1. Attached(c) \subseteq Attached(c)'
    BY <1>8 DEF Attached, AttachCards
  <2>2. Attached(c)' \subseteq Attached(c)
    BY <1>7, <1>8 DEF Attached, AttachCards
  <2> QED
    BY <2>1, <2>2
<1>10. Removals(c)' = Removals(c)
  <2>1. Removal[TypeOf[c]] # "casting"
    BY Constants DEF Removal, Types
  <2>2. ASSUME NEW j \in 1..Len(cards'), cards'[j].type = Removal[TypeOf[c]]
        PROVE  j \in 1..Len(cards)
    <3>1. j \notin (Len(cards) + 1)..Len(cards')
      BY <1>6, <2>1, <2>2
    <3>2. Len(cards) \in Nat /\ Len(cards') \in Nat
      BY <1>5 DEF TypeOK, CardsGrow
    <3> QED
      BY <3>1, <3>2
  <2>3. Removals(c) \subseteq Removals(c)'
    BY <1>8 DEF Removals, AttachCards
  <2>4. Removals(c)' \subseteq Removals(c)
    BY <1>8, <2>2 DEF Removals, AttachCards
  <2> QED
    BY <2>3, <2>4
<1>11. SameCards(c)
  <2>1. \A j \in Attached(c) \cup Removals(c) :
           j \in 1..Len(cards) /\ j \in 1..Len(cards') /\ cards'[j].film = FilmOf[c]
    BY <1>8 DEF Attached, Removals, AttachCards
  <2> QED
    BY <1>7, <1>8, <1>9, <1>10, <2>1 DEF SameCards
<1> QED
  BY <1>3, <1>4, <1>11, TablesAside, PassAside

\* A pass that has nothing on its list, or that has failed, owes nothing.
LEMMA NothingRead ==
    ASSUME NEW c \in Credits, sweep'.todo = {},
           sweep'.pc \notin {"card", "remove"} \/ ~sweep'.clean
    PROVE  Pass(c)'
BY DEF Pass, TodoWhole, Removing, Carding

LEMMA ReleaseCurrent ==
    ASSUME TypeOK, TypeOK', Days, Days', NEW c \in Credits, Tables(c), Pass(c),
           ~Elsewhere(c), NEW r \in DOMAIN hold, AdminReleases(r)
    PROVE  Tables(c)' /\ Pass(c)'
<1>1. /\ UNCHANGED <<clock, live, added, removed, cards, sweep, dropped>>
      /\ swept' = [swept EXCEPT ![r.credit] = 0]
  BY DEF AdminReleases
<1>2. swept'[c] = swept[c]
  BY <1>1 DEF Elsewhere, TypeOK
<1>3. SamePass /\ Today' = Today
  BY <1>1 DEF SamePass, Today
<1>4. Aside(c)
  <2>1. Today \in Nat /\ clock \in Nat
    BY Numbers
  <2> QED
    BY <1>1, <1>2, <1>3, <2>1, NoRows DEF Aside
<1> QED
  BY <1>1, <1>3, <1>4, NoCards, TablesAside, PassAside

LEMMA ReconcileCurrent ==
    ASSUME TypeOK, TypeOK', Days, Days', NEW c \in Credits, Tables(c), Pass(c),
           ~Elsewhere(c), Reconcile
    PROVE  Tables(c)' /\ Pass(c)'
<1>1. /\ UNCHANGED <<clock, live, added, removed, cards, dropped>>
      /\ sweep' = [sweep EXCEPT !.pc = "judge"] /\ sweep.pc = "reconcile"
  BY DEF Reconcile
<1>2. PICK cleared \in SUBSET DOMAIN hold :
         swept' = [d \in Credits |-> IF \E r \in cleared : r.credit = d THEN 0 ELSE swept[d]]
  BY DEF Reconcile
<1>3. swept'[c] = swept[c]
  BY <1>2 DEF Elsewhere
<1>4. sweep'.at = sweep.at /\ sweep'.pc = "judge" /\ sweep'.todo = sweep.todo
  BY <1>1 DEF TypeOK
<1>5. Aside(c)
  <2>1. Today <= Today' /\ clock <= clock'
    <3>1. clock \in Nat
      BY Numbers
    <3> QED
      BY <1>1, <1>4, <3>1, TodayOn
  <2> QED
    BY <1>1, <1>3, <2>1, NoRows DEF Aside
<1>6. Pass(c)'
  <2>1. TodoWhole(c)'
    BY <1>1, <1>4, <1>5 DEF Pass, TodoWhole, Aside
  <2> QED
    BY <1>4, <2>1 DEF Pass, Removing, Carding
<1> QED
  BY <1>1, <1>5, <1>6, NoCards, TablesAside

\* What the pass reads: nothing keeps a change that has outlived its quarantine from it.
LEMMA JudgeReads ==
    ASSUME TypeOK, Telling, NEW c \in Credits, ~Elsewhere(c)', NEW outage \in BOOLEAN,
           Judge(outage), c \in live, NEW b \in Arrivals(c), InWindow(b),
           b.at + Quarantine <= sweep.at
    PROVE  b \in sweep'.todo
<1> DEFINE eligible == {r \in Backlog : Survives(r)}
           burst     == {r \in eligible : ~Immune(r) /\
                           Cardinality(FilmsReached(Person(r), r.at, Credits)) >= Burst}
           survivors == eligible \ burst
           dates     == {r \in survivors : ~Immune(r) /\ Person(r) \in dated'}
<1>1. /\ hold' = [r \in DOMAIN hold \cup burst \cup dates |->
                     IF r \in burst THEN "burst" ELSE IF r \in dates THEN "dates" ELSE hold[r]]
      /\ sweep' = [sweep EXCEPT !.pc = "card", !.todo = survivors \ dates]
  BY Zenon DEF Judge
<1>2. /\ <<FilmOf[c], PersonOf[c]>> \notin told' /\ told \subseteq told'
      /\ \A r \in DOMAIN hold' : r.credit # c
  BY JudgeWrites DEF Elsewhere
<1>3. b \in added /\ b.credit = c /\ Film(b) = FilmOf[c] /\ Person(b) = PersonOf[c]
  BY RowsOf DEF Arrivals
<1>4. Pending(b)
  <2>1. DOMAIN hold \subseteq DOMAIN hold'
    <3> HIDE DEF burst, dates
    <3> QED
      BY <1>1
  <2> QED
    BY <1>2, <1>3, <2>1 DEF Pending, Stamped, OpenHold, Telling
<1>5. StoryCards(b) = {}
  <2> SUFFICES ASSUME NEW i \in StoryCards(b) PROVE FALSE
    OBVIOUS
  <2>1. /\ i \in 1..Len(cards) /\ cards[i].film = FilmOf[c] /\ cards[i].by = "story"
        /\ PersonOf[c] \in cards[i].names
    BY <1>3 DEF StoryCards, AttachCards
  <2> QED
    BY <1>2, <2>1 DEF Telling
<1>6. b \in eligible
  BY <1>3, <1>4, <1>5 DEF Backlog, Scooped, Survives
<1>7. burst \cup dates \subseteq DOMAIN hold'
  <2> HIDE DEF burst, dates
  <2> QED
    BY <1>1
<1>8. b \in survivors \ dates
  BY <1>2, <1>3, <1>6, <1>7
<1> HIDE DEF eligible, burst, survivors, dates
<1> QED
  BY <1>1, <1>8 DEF TypeOK

LEMMA JudgeCurrent ==
    ASSUME TypeOK, TypeOK', Days, Days', Returned, Away, Telling,
           NEW c \in Credits, Tables(c), ~Elsewhere(c)', NEW outage \in BOOLEAN, Judge(outage)
    PROVE  Tables(c)' /\ Pass(c)'
<1>1. /\ UNCHANGED <<clock, live, added, removed, cards>> /\ sweep'.at = sweep.at
      /\ \A r \in sweep'.todo : r \in Backlog /\ Survives(r)
  BY JudgeWrites
<1>2. UNCHANGED <<dropped, swept>> /\ sweep.pc = "judge" /\ sweep'.pc = "card"
  BY DEF Judge, TypeOK
<1>3. Aside(c)
  <2>1. Today <= Today' /\ clock <= clock'
    <3>1. clock \in Nat
      BY Numbers
    <3> QED
      BY <1>1, <1>2, <3>1, TodayOn
  <2> QED
    BY <1>1, <1>2, <2>1, NoRows DEF Aside
<1>4. Tables(c)'
  BY <1>1, <1>3, NoCards, TablesAside
<1>5. Arrivals(c)' = Arrivals(c) /\ Left(c)' = Left(c)
  BY <1>3 DEF Aside
<1>6. TodoWhole(c)'
  <2> SUFFICES ASSUME NEW r \in sweep'.todo, r.credit = c
               PROVE  /\ c \in live
                      /\ \A b \in Arrivals(c) :
                            b.at >= r.at /\ b.at + Quarantine <= sweep.at => b \in sweep'.todo
    BY <1>1, <1>5 DEF TodoWhole
  <2>1. c \in live /\ InWindow(r) /\ r \in added
    BY <1>1 DEF Backlog, Survives
  <2>2. ASSUME NEW b \in Arrivals(c), b.at >= r.at, b.at + Quarantine <= sweep.at
        PROVE  b \in sweep'.todo
    <3>1. InWindow(b)
      <4>1. r.at \in Nat /\ b.at \in Nat /\ sweep.at \in Nat /\ Lookback \in Nat
        BY <2>1, Numbers DEF Arrivals
      <4> QED
        BY <2>1, <2>2, <4>1 DEF InWindow
    <3> QED
      BY <2>1, <2>2, <3>1, JudgeReads
  <2> QED
    BY <2>1, <2>2
<1>7. Carding(c)'
  <2> SUFFICES ASSUME c \in live, Settled(c)
               PROVE  \E b \in LatestOf(Arrivals(c)) : b \in sweep'.todo
    <3>1. Settled(c)' <=> Settled(c)
      BY <1>1, <1>5, SameSettled
    <3> QED
      BY <1>1, <1>2, <1>5, <3>1 DEF Carding, LatestOf
  <2>1. PICK r \in LatestOf(Arrivals(c) \cup Left(c)) :
           r.at + Quarantine <= sweep.at /\ InWindow(r)
    BY SettledIs
  <2>2. r \in LatestOf(Arrivals(c))
    BY LastChange
  <2>3. r \in Arrivals(c)
    BY <2>2 DEF LatestOf
  <2> QED
    BY <2>1, <2>2, <2>3, JudgeReads
<1>8. Removing(c)'
  BY <1>2 DEF Removing
<1> QED
  BY <1>4, <1>6, <1>7, <1>8 DEF Pass

\* An attachment's card is appended: the person's newest, if it names them.
LEMMA GroupCurrent ==
    ASSUME TypeOK, TypeOK', Days, Days', Returned, Away, Todo,
           NEW c \in Credits, Tables(c), Pass(c), ~Elsewhere(c),
           NEW f \in Films, NEW type \in Types, CardGroup(f, type)
    PROVE  Tables(c)' /\ Pass(c)'
<1> DEFINE group == GroupOf(sweep.todo, f, type)
           kept  == Uncarded(group)
           n     == Len(cards) + 1
<1>1. /\ UNCHANGED <<clock, live, added, removed, swept>>
      /\ sweep' = [sweep EXCEPT !.todo = @ \ group] /\ sweep.pc = "card"
      /\ dropped' = dropped \/ dropped' = dropped \cup kept
  BY Zenon DEF CardGroup
<1>2. /\ sweep'.pc = "card" /\ sweep'.at = sweep.at /\ sweep'.todo = sweep.todo \ group
      /\ sweep'.clean = sweep.clean
  BY <1>1 DEF TypeOK
<1>3. Aside(c)
  <2>1. Today <= Today' /\ clock <= clock'
    <3>1. clock \in Nat
      BY Numbers
    <3> QED
      BY <1>1, <1>2, <3>1, TodayOn
  <2> QED
    BY <1>1, <2>1, NoRows DEF Aside
<1>4. /\ Arrivals(c)' = Arrivals(c) /\ Left(c)' = Left(c)
      /\ Settled(c)' <=> Settled(c)
  BY <1>2, <1>3, SameSettled DEF Aside
<1>5. sweep.todo \subseteq Rows /\ kept \subseteq group /\ group \subseteq sweep.todo
  BY DEF TypeOK, Uncarded, GroupOf
<1>6. TodoWhole(c)'
  <2> SUFFICES ASSUME NEW r \in sweep.todo \ group, r.credit = c
               PROVE  /\ c \in live \/ \E x \in Left(c) : x.at >= sweep.at
                      /\ \A b \in Arrivals(c) :
                            b.at >= r.at /\ b.at + Quarantine <= sweep.at => b \in sweep.todo \ group
    BY <1>1, <1>2, <1>4 DEF TodoWhole
  <2>1. /\ c \in live \/ \E x \in Left(c) : x.at >= sweep.at
        /\ \A b \in Arrivals(c) :
              b.at >= r.at /\ b.at + Quarantine <= sweep.at => b \in sweep.todo
    BY DEF Pass, TodoWhole
  <2>2. \A b \in Arrivals(c) : b \notin group
    BY DEF GroupOf, Arrivals, Film, Type
  <2> QED
    BY <2>1, <2>2
<1>7. Removing(c)'
  BY <1>2 DEF Removing
<1>8. CASE cards' = cards
  <2>1. SameCards(c)
    BY <1>8, NoCards
  <2>2. Tables(c)'
    BY <1>3, <2>1, TablesAside
  <2>3. Carding(c)'
    <3> SUFFICES ASSUME swept[c] >= 1, c \in live, sweep.clean, Settled(c), ~Carded(c)
                 PROVE  \E b \in LatestOf(Arrivals(c)) : b \in dropped' \/ b \in sweep'.todo
      BY <1>1, <1>2, <1>4, <2>1, SameCarded DEF Carding, LatestOf
    <3>1. PICK b \in LatestOf(Arrivals(c)) : b \in dropped \/ b \in sweep.todo
      BY <1>1 DEF Pass, Carding
    <3>2. ASSUME b \in group, b \notin dropped
          PROVE  b \in dropped'
      <4>1. b.credit = c
        BY DEF LatestOf, Arrivals
      <4>2. b \in kept
        BY <3>2, <4>1, RowsOf DEF Uncarded, Carded
      <4>3. dropped' = dropped \cup kept
        <5>1. ASSUME NEW last \in LatestOf(kept),
                     cards' = Append(cards, [film |-> f, type |-> type, at |-> last.at,
                                     names |-> {Person(r) : r \in kept}, body |-> kept,
                                     by |-> "catalog", published |-> TRUE])
              PROVE  FALSE
          <6>1. \E k : cards' = Append(cards, k)
            BY <5>1
          <6>2. cards \in Seq(Card)
            BY DEF TypeOK
          <6> QED
            BY <1>8, <6>1, <6>2
        <5> HIDE DEF kept
        <5> QED
          BY <5>1, Zenon DEF CardGroup, kept, group
      <4> QED
        BY <4>2, <4>3
    <3> QED
      BY <1>1, <1>2, <3>1, <3>2
  <2> QED
    BY <1>6, <1>7, <2>2, <2>3 DEF Pass
<1>9. ASSUME NEW last \in LatestOf(kept),
             cards' = Append(cards, [film |-> f, type |-> type, at |-> last.at,
                                     names |-> {Person(r) : r \in kept}, body |-> kept,
                                     by |-> "catalog", published |-> TRUE])
      PROVE  Tables(c)' /\ Carding(c)'
  <2>1. PICK k : k = [film |-> f, type |-> type, at |-> last.at,
                      names |-> {Person(r) : r \in kept}, body |-> kept,
                      by |-> "catalog", published |-> TRUE]
    OBVIOUS
  <2>2. /\ k.film = f /\ k.type = type /\ k.at = last.at /\ k.by = "catalog"
        /\ \A p : p \in k.names <=> \E r \in kept : Person(r) = p
    BY <2>1
  <2>3. last \in kept /\ \A u \in kept : u.at <= last.at
    BY DEF LatestOf
  <2> HIDE DEF kept, group
  <2>4. /\ Len(cards) \in Nat /\ Len(cards') = n /\ cards'[n] = k
        /\ \A j \in 1..Len(cards) : cards'[j] = cards[j]
    <3>1. cards \in Seq(Card)
      BY DEF TypeOK
    <3>2. cards' = Append(cards, k)
      BY <1>9, <2>1
    <3> QED
      BY <3>1, <3>2
  <2>5. /\ \A j : j \in 1..Len(cards') <=> j \in 1..Len(cards) \/ j = n
        /\ n \notin 1..Len(cards)
    BY <2>4
  <2>6. Removals(c)' = Removals(c)
    <3>1. Removal[TypeOf[c]] # type
      BY Constants DEF Types, Removal
    <3> QED
      BY <2>2, <2>4, <2>5, <3>1 DEF Removals, AttachCards
  <2>7. \A i \in Attached(c) \cup Removals(c) : i \in 1..Len(cards) /\ cards'[i] = cards[i]
    BY <2>4 DEF Attached, Removals, AttachCards
  <2>8. CASE ~ (f = FilmOf[c] /\ type = TypeOf[c] /\ PersonOf[c] \in k.names)
    <3>1. Attached(c)' = Attached(c)
      BY <2>2, <2>4, <2>5, <2>8 DEF Attached, AttachCards
    <3>2. SameCards(c)
      BY <2>6, <2>7, <3>1 DEF SameCards
    <3>3. Tables(c)'
      BY <1>3, <3>2, TablesAside
    <3>4. Carding(c)'
      <4> SUFFICES ASSUME swept[c] >= 1, c \in live, sweep.clean, Settled(c), ~Carded(c)
                   PROVE  \E b \in LatestOf(Arrivals(c)) : b \in dropped' \/ b \in sweep'.todo
        BY <1>1, <1>2, <1>4, <3>2, SameCarded DEF Carding, LatestOf
      <4>1. PICK b \in LatestOf(Arrivals(c)) : b \in dropped \/ b \in sweep.todo
        BY <1>1 DEF Pass, Carding
      <4>2. b \notin group
        <5> SUFFICES ASSUME b \in group PROVE FALSE
          OBVIOUS
        <5>1. b.credit = c
          BY DEF LatestOf, Arrivals
        <5>2. Film(b) = FilmOf[c] /\ Type(b) = TypeOf[c] /\ Person(b) = PersonOf[c]
          BY <5>1, RowsOf
        <5>3. f = FilmOf[c] /\ type = TypeOf[c]
          BY <5>2 DEF group, GroupOf
        <5>4. b \in kept
          BY <5>2 DEF kept, Uncarded, Carded
        <5> QED
          BY <2>2, <2>8, <5>2, <5>3, <5>4
      <4> QED
        BY <1>1, <1>2, <4>1, <4>2
    <3> QED
      BY <3>3, <3>4
  <2>9. CASE f = FilmOf[c] /\ type = TypeOf[c] /\ PersonOf[c] \in k.names
    <3>1. PICK a \in kept : Person(a) = PersonOf[c]
      BY <2>2, <2>9
    <3>2. a \in group /\ a \in sweep.todo /\ a \in Rows
      BY <1>5, <3>1
    <3>3. a.credit = c
      BY <2>9, <3>1, <3>2, Own DEF group, GroupOf
    <3>4. /\ last \in Rows /\ last.at + Quarantine <= sweep.at
          /\ last.at \in Nat /\ sweep.at \in Nat /\ Quarantine \in Nat \ {0}
          /\ sweep.at <= clock /\ clock \in Nat /\ Today = sweep.at /\ a.at \in Nat
          /\ a.at <= last.at
      <4>1. last \in sweep.todo
        BY <1>5, <2>3
      <4>2. last \in added /\ a \in added
        BY <3>2, <4>1, Numbers
      <4>3. last.at + Quarantine <= sweep.at
        BY <4>1 DEF Todo, Outlasted
      <4> QED
        BY <1>1, <1>5, <2>3, <3>1, <4>1, <4>2, <4>3, Numbers
    <3>5. Attached(c)' = Attached(c) \cup {n}
      BY <2>2, <2>4, <2>5, <2>9 DEF Attached, AttachCards
    <3>6. /\ c \in live \/ \E x \in Left(c) : x.at >= sweep.at
          /\ \A b \in Arrivals(c) : b.at >= a.at /\ b.at + Quarantine <= sweep.at => b \in sweep.todo
      BY <3>2, <3>3 DEF Pass, TodoWhole
    <3>7. ASSUME swept[c] >= 1
          PROVE  /\ c \in live
                 /\ \A x \in Left(c) : x.at <= last.at
      <4>1. PICK r \in LatestOf(Arrivals(c) \cup Left(c)) : r.at + Quarantine <= sweep.at
        BY <3>4, <3>7 DEF Tables, Rested
      <4>2. /\ r.at \in Nat /\ \A u \in Arrivals(c) \cup Left(c) : u.at <= r.at /\ u.at \in Nat
        BY LastChange, Numbers DEF LatestOf, Arrivals, Left
      <4>3. c \in live
        BY <3>4, <3>6, <4>1, <4>2
      <4>4. r \in Arrivals(c) /\ r.credit = c
        BY <4>3, LastChange DEF LatestOf
      <4>5. a.at <= r.at
        BY <3>2, <3>3, <4>2, Numbers DEF Arrivals
      <4>6. r \in sweep.todo
        BY <3>6, <4>1, <4>4, <4>5
      <4>7. r \in kept
        <5>1. Film(r) = Film(a) /\ Type(r) = Type(a) /\ Person(r) = Person(a)
          BY <3>3, <4>4 DEF Film, Type, Person
        <5> QED
          BY <3>1, <3>2, <4>6, <5>1 DEF kept, group, Uncarded, GroupOf
      <4> QED
        BY <2>3, <4>2, <4>3, <4>7, <3>4
    <3>8. ASSUME swept[c] >= 1
          PROVE  Carded(c)'
      <4>1. ASSUME NEW j \in Removals(c), PersonOf[c] \in cards[j].names
            PROVE  \/ cards'[n].at > cards'[j].at
                   \/ cards'[n].at = cards'[j].at /\ n >= j
        <5>1. [credit |-> c, at |-> cards[j].at] \in Left(c)
          BY <4>1 DEF Tables, RemovalsName, Left
        <5>2. cards[j].at <= last.at
          BY <3>7, <3>8, <5>1
        <5>3. j \in 1..Len(cards) /\ cards[j].at \in Nat
          BY <4>1, Numbers DEF Removals, AttachCards
        <5>4. n >= j /\ cards'[n].at = last.at /\ cards'[j].at = cards[j].at
          BY <2>2, <2>4, <5>3
        <5> QED
          BY <3>4, <5>2, <5>3, <5>4
      <4>2. StandsOut(c)'
        <5>1. PICK m : m = n
          OBVIOUS
        <5>2. m \in Attached(c)'
          BY <3>5, <5>1
        <5>3. ASSUME NEW j \in Removals(c)', PersonOf[c] \in cards'[j].names
              PROVE  \/ cards'[m].at > cards'[j].at
                     \/ cards'[m].at = cards'[j].at /\ m >= j
          BY <2>6, <2>7, <4>1, <5>1, <5>3
        <5> QED
          BY <5>2, <5>3 DEF StandsOut, NoOlder
      <4> QED
        BY <4>2, CardedIsNext
    <3>9. CardsPrecede(c)'
      <4>1. ASSUME NEW i \in Attached(c)
            PROVE  /\ cards'[i].at < clock
                   /\ c \in live \/ \E x \in Left(c) : x.at > cards'[i].at
        BY <2>7 DEF Tables, CardsPrecede
      <4>2. last.at < clock /\ last.at < sweep.at
        BY <3>4
      <4>3. c \in live \/ \E x \in Left(c) : x.at > last.at
        <5> SUFFICES ASSUME NEW x \in Left(c), x.at >= sweep.at PROVE x.at > last.at
          BY <3>6
        <5>1. x.at \in Nat
          BY Numbers DEF Left
        <5> QED
          BY <3>4, <5>1
      <4> QED
        BY <1>1, <1>4, <2>2, <2>4, <3>5, <4>1, <4>2, <4>3 DEF CardsPrecede
    <3>10. RemovalsName(c)'
      <4> SUFFICES ASSUME NEW j \in Removals(c)
                   PROVE  /\ cards[j].at < Today'
                          /\ PersonOf[c] \in cards[j].names => [credit |-> c, at |-> cards[j].at] \in removed
                          /\ ~ (c \notin live /\ \E x \in LatestOf(Left(c)) : x.at = cards[j].at)
        BY <1>1, <1>4, <2>6, <2>7 DEF RemovalsName, LatestOf
      <4>1. /\ cards[j].at < Today /\ cards[j].at \in Nat
            /\ PersonOf[c] \in cards[j].names => [credit |-> c, at |-> cards[j].at] \in removed
        BY Numbers DEF Tables, RemovalsName, Removals, AttachCards
      <4>2. Today' = Today
        BY <1>1, <1>2, <3>4 DEF Today
      <4>3. ASSUME c \notin live, NEW x \in LatestOf(Left(c)), x.at = cards[j].at
            PROVE  FALSE
        <5>1. PICK y \in Left(c) : y.at >= sweep.at
          BY <3>6, <4>3
        <5>2. y.at <= x.at /\ y.at \in Nat
          BY Numbers DEF LatestOf, Left
        <5> QED
          BY <3>4, <4>1, <4>3, <5>1, <5>2
      <4> QED
        BY <4>1, <4>2, <4>3
    <3>11. Rested(c)'
      <4>1. Today' = Today
        BY <1>1, <1>2, <3>4 DEF Today
      <4> QED
        BY <1>1, <1>4, <4>1 DEF Rested, Tables, LatestOf
    <3>12. Departures(c)'
      <4> SUFFICES ASSUME swept[c] >= 1, NEW x \in Left(c) PROVE Handled(x)'
        BY <1>1, <1>4, <3>7 DEF Departures
      <4>1. Handled(x) /\ x.credit = c
        BY <3>7 DEF Tables, Departures, Left
      <4>2. Taken(FilmOf[c], Removal[TypeOf[c]], x.at) => Taken(FilmOf[c], Removal[TypeOf[c]], x.at)'
        BY <2>4, <2>5 DEF Taken
      <4>3. HadCard(x)' => HadCard(x)
        <5>1. HadCard(x)' <=> \E i \in Attached(c)' : cards'[i].at < x.at
          BY <4>1, RowsOf DEF HadCard, Attached, Film, Type, Person
        <5>2. ~ (last.at < x.at)
          <6>1. x.at \in Nat /\ x.at <= last.at
            BY <3>7, Numbers DEF Left
          <6> QED
            BY <3>4, <6>1
        <5> QED
          BY <2>2, <2>4, <2>7, <3>5, <4>1, <5>1, <5>2, HadCardIs
      <4> QED
        BY <1>3, <1>4, <4>1, <4>2, <4>3, HandledStays DEF Aside
    <3>13. Returns(c)' /\ Carding(c)'
      BY <1>1, <3>8 DEF Returns, Carding
    <3> QED
      BY <3>9, <3>10, <3>11, <3>12, <3>13 DEF Tables
  <2> QED
    BY <2>8, <2>9
<1> QED
  <2>1. (\E last \in LatestOf(kept) :
           cards' = Append(cards, [film |-> f, type |-> type, at |-> last.at,
                                   names |-> {Person(r) : r \in kept}, body |-> kept,
                                   by |-> "catalog", published |-> TRUE]))
        \/ cards' = cards
    BY Zenon DEF CardGroup
  <2> QED
    BY <1>6, <1>7, <1>8, <1>9, <2>1 DEF Pass

\* A step that only moves the pass leaves the tables right.
LEMMA QuietCurrent ==
    ASSUME TypeOK, TypeOK', Days, Days', NEW c \in Credits, Tables(c),
           UNCHANGED <<live, added, removed, cards, swept, dropped>>, clock <= clock',
           \/ sweep'.pc = "idle"
           \/ sweep'.at = clock
           \/ sweep.pc # "idle" /\ sweep'.at = sweep.at
    PROVE  Aside(c) /\ SameCards(c) /\ Tables(c)'
<1>1. Aside(c)
  BY TodayOn, NoRows DEF Aside
<1> QED
  BY <1>1, NoCards, TablesAside

\* Ticks, starts, deaths and failures: what the pass loses, it loses in whole groups.
LEMMA PassingCurrent ==
    ASSUME TypeOK, TypeOK', Days, Days', NEW c \in Credits, Tables(c), Pass(c), Passing,
           ~EndSweep
    PROVE  Tables(c)' /\ Pass(c)'
<1>1. clock \in Nat /\ Lookback \in Nat /\ sweep.at \in Nat
  BY Numbers
<1>2. CASE Tick \/ UNCHANGED vars
  <2>1. UNCHANGED <<live, added, removed, cards, swept, dropped, sweep>> /\ clock <= clock'
    BY <1>1, <1>2 DEF Tick, vars, tables
  <2>2. Aside(c) /\ SameCards(c) /\ Tables(c)'
    BY <2>1, QuietCurrent
  <2> QED
    BY <2>1, <2>2, PassAside DEF SamePass
<1>3. CASE StartSweep
  <2>1. UNCHANGED <<live, added, removed, cards, swept, dropped, clock>>
    BY <1>3 DEF StartSweep, tables
  <2>2. sweep'.pc = "reconcile" /\ sweep'.at = clock /\ sweep'.todo = {}
    BY <1>3 DEF StartSweep, Idle
  <2> QED
    BY <1>1, <2>1, <2>2, QuietCurrent, NothingRead
<1>4. CASE SweepDies
  <2>1. /\ UNCHANGED <<live, added, removed, cards, swept, dropped, clock>>
        /\ sweep'.pc = "idle" /\ sweep'.todo = {}
    BY <1>4 DEF SweepDies, Idle, tables
  <2> QED
    BY <1>1, <2>1, QuietCurrent, NothingRead
<1>5. CASE LoadDetachments
  <2>1. /\ UNCHANGED <<live, added, removed, cards, swept, dropped, clock>>
        /\ sweep.pc = "card" /\ sweep.todo = {} /\ sweep'.pc = "remove" /\ sweep'.at = sweep.at
        /\ sweep'.gone = {r \in removed : InWindow(r)} /\ sweep'.todo = {}
        /\ sweep'.clean = sweep.clean
    <3>1. PICK window : window = {r \in removed : InWindow(r)}
      OBVIOUS
    <3>2. /\ UNCHANGED <<live, added, removed, cards, swept, dropped, clock>>
          /\ sweep.pc = "card" /\ sweep.todo = {}
          /\ sweep' = [sweep EXCEPT !.pc = "remove", !.gone = window]
      BY <1>5, <3>1, Zenon DEF LoadDetachments, tables
    <3>3. DOMAIN sweep = {"pc", "at", "todo", "gone", "scooped", "clean"}
      BY DEF TypeOK
    <3>4. /\ sweep'.pc = "remove" /\ sweep'.at = sweep.at /\ sweep'.gone = window
          /\ sweep'.todo = sweep.todo /\ sweep'.clean = sweep.clean
      BY <3>2, <3>3
    <3> QED
      BY <3>1, <3>2, <3>4, Zenon
  <2>2. Aside(c) /\ SameCards(c) /\ Tables(c)'
    BY <1>1, <2>1, QuietCurrent
  <2>3. /\ Arrivals(c)' = Arrivals(c) /\ Left(c)' = Left(c)
        /\ Settled(c)' <=> Settled(c)
    BY <2>1, <2>2, SameSettled DEF Aside
  <2>4. TodoWhole(c)'
    BY <2>1 DEF TodoWhole
  <2>5. Removing(c)'
    <3> SUFFICES ASSUME NEW x \in Left(c), x \notin sweep'.gone PROVE Handled(x)'
      BY <2>3 DEF Removing
    <3>1. x \in removed /\ x.at \in Nat /\ ~InWindow(x)
      BY <2>1, Numbers DEF Left
    <3>2. x.at + Lookback < Today'
      BY <1>1, <2>1, <3>1 DEF InWindow, Today
    <3> QED
      BY <3>2 DEF Handled
  <2>6. Carding(c)'
    <3> SUFFICES ASSUME swept[c] >= 1, c \in live, sweep.clean, Settled(c), ~Carded(c)
                 PROVE  \E b \in LatestOf(Arrivals(c)) : b \in dropped
      BY <2>1, <2>2, <2>3, SameCarded DEF Carding, LatestOf
    <3> QED
      BY <2>1 DEF Pass, Carding
  <2> QED
    BY <2>2, <2>4, <2>5, <2>6 DEF Pass
<1>6. ASSUME NEW f \in Films, NEW type \in Types, GroupFails(f, type)
      PROVE  Tables(c)' /\ Pass(c)'
  <2> DEFINE group == GroupOf(sweep.todo, f, type)
  <2>1. PICK rest \in {sweep.todo \ group, {}} :
           sweep' = [sweep EXCEPT !.todo = rest, !.clean = FALSE]
    BY <1>6, Zenon DEF GroupFails
  <2>2. /\ UNCHANGED <<live, added, removed, cards, swept, dropped, clock>> /\ sweep.pc = "card"
        /\ sweep'.at = sweep.at /\ sweep'.todo = rest /\ ~sweep'.clean
    BY <1>6, <2>1 DEF GroupFails, tables, TypeOK
  <2>3. Aside(c) /\ Tables(c)'
    BY <1>1, <2>2, QuietCurrent
  <2>4. TodoWhole(c)'
    <3> SUFFICES ASSUME NEW r \in sweep.todo \ group, rest = sweep.todo \ group, r.credit = c
                 PROVE  /\ c \in live \/ \E x \in Left(c) : x.at >= sweep.at
                        /\ \A b \in Arrivals(c) : b.at >= r.at /\ b.at + Quarantine <= sweep.at
                                                  => b \in sweep.todo \ group
      BY <2>1, <2>2, <2>3 DEF TodoWhole, Aside
    <3>1. \A b \in Arrivals(c) : b \notin group
      BY <2>1 DEF GroupOf, Arrivals, Film, Type
    <3> QED
      BY <3>1 DEF Pass, TodoWhole
  <2> QED
    BY <2>2, <2>3, <2>4 DEF Pass, Removing, Carding
<1>7. ASSUME NEW f \in Films, NEW type \in Types, NEW at \in 0..MaxTime,
             DetachmentFails(f, type, at)
      PROVE  Tables(c)' /\ Pass(c)'
  <2>1. PICK rest \in {sweep.gone \ {r \in GroupOf(sweep.gone, f, type) : r.at = at}, {}} :
           sweep' = [sweep EXCEPT !.gone = rest, !.clean = FALSE]
    BY <1>7, Zenon DEF DetachmentFails
  <2>2. /\ UNCHANGED <<live, added, removed, cards, swept, dropped, clock>> /\ sweep.pc = "remove"
        /\ sweep'.at = sweep.at /\ sweep'.todo = sweep.todo /\ ~sweep'.clean
    BY <1>7, <2>1 DEF DetachmentFails, tables, TypeOK
  <2>3. Aside(c) /\ Tables(c)'
    BY <1>1, <2>2, QuietCurrent
  <2>4. TodoWhole(c)'
    BY <2>2, <2>3 DEF TodoWhole, Pass, Aside
  <2> QED
    BY <2>2, <2>3, <2>4 DEF Pass, Removing, Carding
<1> QED
  BY <1>2, <1>3, <1>4, <1>5, <1>6, <1>7 DEF Passing

\* A removal's card is appended: of everybody who was carded and has not come back.
LEMMA DetachmentCurrent ==
    ASSUME TypeOK, TypeOK', Days, Days', Returned, Away, Whole,
           NEW c \in Credits, Tables(c), Pass(c), ~Elsewhere(c),
           NEW f \in Films, NEW type \in Types, NEW at \in 0..MaxTime,
           CardDetachment(f, type, at)
    PROVE  Tables(c)' /\ Pass(c)'
<1> DEFINE group == {r \in GroupOf(sweep.gone, f, type) : r.at = at}
           names == {Person(r) : r \in Departed(group)}
           n     == Len(cards) + 1
<1>1. /\ UNCHANGED <<clock, live, added, removed, swept, dropped>>
      /\ sweep' = [sweep EXCEPT !.gone = @ \ group] /\ sweep.pc = "remove" /\ group # {}
  BY Zenon DEF CardDetachment
<1>2. /\ sweep'.pc = "remove" /\ sweep'.at = sweep.at /\ sweep'.todo = sweep.todo
      /\ sweep'.clean = sweep.clean /\ sweep'.gone = sweep.gone \ group
  <2> HIDE DEF group
  <2>1. DOMAIN sweep = {"pc", "at", "todo", "gone", "scooped", "clean"}
    BY DEF TypeOK
  <2> QED
    BY <1>1, <2>1
<1>3. /\ Today' = Today /\ Today = sweep.at /\ sweep.at \in Nat /\ Dwell \in Nat \ {0}
      /\ Lookback \in Nat /\ at \in Nat /\ clock \in Nat
  BY <1>1, <1>2, Numbers, CreditsAssumption DEF Today
<1>4. Aside(c)
  BY <1>1, <1>3, NoRows DEF Aside
<1>5. /\ Arrivals(c)' = Arrivals(c) /\ Left(c)' = Left(c)
      /\ Settled(c)' <=> Settled(c)
  BY <1>2, <1>4, SameSettled DEF Aside
<1>6. group \subseteq sweep.gone /\ sweep.gone \subseteq removed /\ group \subseteq Rows
  BY DEF TypeOK, GroupOf
<1>7. TodoWhole(c)'
  BY <1>1, <1>2, <1>5 DEF TodoWhole, Pass
<1>8. \A x \in group : Film(x) = f /\ Type(x) = type /\ x.at = at
  BY DEF GroupOf
<1>9. names \in SUBSET Persons
  <2>1. Departed(group) \subseteq Rows
    BY <1>6 DEF Departed
  <2> QED
    BY <2>1, Constants
<1>10. \/ cards' = cards /\ (Taken(f, Removal[type], at) \/ at + Dwell > sweep.at \/ names = {})
       \/ /\ cards' = CardsWithRemoval(f, type, at, names)
          /\ ~Taken(f, Removal[type], at) /\ at + Dwell <= sweep.at
  <2>1. cards' = IF Taken(f, Removal[type], at) \/ at + Dwell > sweep.at \/ names = {}
                 THEN cards ELSE CardsWithRemoval(f, type, at, names)
    BY Zenon DEF CardDetachment
  <2> HIDE DEF names
  <2> QED
    BY <1>3, <2>1
\* Who is named was carded before, has not come back, and left at the group's hour.
<1>11. ASSUME NEW x \in Left(c)
       PROVE  /\ x.credit = c /\ x.at \in Nat /\ x \in removed
              /\ Film(x) = FilmOf[c] /\ Type(x) = TypeOf[c] /\ Person(x) = PersonOf[c]
              /\ x \in group => f = FilmOf[c] /\ type = TypeOf[c] /\ x.at = at
              /\ x \in group /\ HadCard(x) /\ ~CameBack(x) => PersonOf[c] \in names
  <2>1. x.credit = c /\ x.at \in Nat /\ x \in removed
    BY Numbers DEF Left
  <2>2. Film(x) = FilmOf[c] /\ Type(x) = TypeOf[c] /\ Person(x) = PersonOf[c]
    BY <2>1, RowsOf
  <2> QED
    BY <1>8, <2>1, <2>2 DEF Departed
<1> HIDE DEF group
<1>12. ASSUME f = FilmOf[c], type = TypeOf[c], PersonOf[c] \in names
       PROVE  \E x \in Left(c) : x \in group /\ x.at = at /\ HadCard(x) /\ ~CameBack(x)
  <2>1. PICK x \in Departed(group) : Person(x) = PersonOf[c]
    BY <1>12
  <2>2. x \in group /\ HadCard(x) /\ ~CameBack(x)
    BY <2>1 DEF Departed
  <2>3. x \in Rows /\ x \in removed /\ Film(x) = FilmOf[c] /\ Type(x) = TypeOf[c] /\ x.at = at
    BY <1>6, <1>8, <1>12, <2>2
  <2>4. x.credit = c
    BY <2>1, <2>3, Own
  <2> QED
    BY <2>2, <2>3, <2>4 DEF Left
<1> HIDE DEF names
<1>13. ASSUME SameCards(c), cards' = cards \/ ~ (f = FilmOf[c] /\ type = TypeOf[c])
       PROVE  Tables(c)' /\ Pass(c)'
  <2>1. Tables(c)'
    BY <1>4, <1>13, TablesAside
  <2>2. Carding(c)'
    <3> SUFFICES ASSUME swept[c] >= 1, c \in live, sweep.clean, Settled(c), ~Carded(c)
                 PROVE  \E b \in LatestOf(Arrivals(c)) : b \in dropped
      BY <1>1, <1>2, <1>5, <1>13, SameCarded DEF Carding, LatestOf
    <3> QED
      BY <1>1 DEF Pass, Carding
  <2>3. Removing(c)'
    <3> SUFFICES ASSUME sweep.clean, Settled(c), NEW x \in Left(c), x \notin sweep.gone \ group
                 PROVE  Handled(x)'
      BY <1>2, <1>5 DEF Removing
    <3>1. Handled(x)
      <4>1. CASE x \notin sweep.gone
        BY <1>1, <4>1 DEF Pass, Removing
      <4>2. CASE x \in group
        <5>1. cards' = cards /\ Film(x) = f /\ Type(x) = type /\ x.at = at
          BY <1>8, <1>11, <1>13, <4>2
        <5>2. PICK r \in LatestOf(Arrivals(c) \cup Left(c)) : r.at + Dwell <= sweep.at
          BY SettledIs
        <5>3. x.at <= r.at /\ r.at \in Nat
          BY LastChange DEF LatestOf
        <5>4. ~ (at + Dwell > sweep.at)
          BY <1>3, <5>1, <5>2, <5>3
        <5>5. cards' # CardsWithRemoval(f, type, at, names)
          <6> SUFFICES ASSUME cards' = CardsWithRemoval(f, type, at, names) PROVE FALSE
            OBVIOUS
          <6>1. Len(cards') = Len(cards) + 1 /\ Len(cards) \in Nat
            BY <1>9, RemovalWrites
          <6> QED
            BY <5>1, <6>1
        <5>6. Taken(f, Removal[type], at) \/ names = {}
          BY <1>10, <5>4, <5>5
        <5> QED
          BY <1>11, <4>2, <5>1, <5>6 DEF Handled
      <4> QED
        BY <4>1, <4>2
    <3>2. ASSUME Taken(FilmOf[c], Removal[TypeOf[c]], x.at)
          PROVE  Taken(FilmOf[c], Removal[TypeOf[c]], x.at)'
      <4>1. PICK k \in Removals(c) : cards[k].at = x.at /\ cards[k].by = "catalog"
        BY <3>2 DEF Taken, Removals, AttachCards
      <4>2. k \in Removals(c)' /\ cards'[k].at = x.at /\ cards'[k].by = "catalog"
        BY <1>13, <4>1 DEF SameCards
      <4> QED
        BY <4>2 DEF Taken, Removals, AttachCards
    <3>3. HadCard(x)' => HadCard(x)
      <4>1. HadCard(x)' <=> \E i \in Attached(c)' : cards'[i].at < x.at
        BY <1>11, RowsOf DEF HadCard, Attached, Film, Type, Person
      <4> QED
        BY <1>11, <1>13, <4>1, HadCardIs DEF SameCards
    <3>4. Today <= Today'
      BY <1>3
    <3> QED
      BY <1>5, <3>1, <3>2, <3>3, <3>4, HandledStays
  <2> QED
    BY <1>7, <2>1, <2>2, <2>3 DEF Pass
<1>14. CASE cards' = cards
  BY <1>13, <1>14, NoCards
<1>15. ASSUME cards' = CardsWithRemoval(f, type, at, names), ~Taken(f, Removal[type], at),
              at + Dwell <= sweep.at
       PROVE  Tables(c)' /\ Pass(c)'
  <2>1. PICK m : m = n
    OBVIOUS
  <2>2. /\ Len(cards) \in Nat /\ Len(cards') = m
        /\ cards'[m].film = f /\ cards'[m].type = Removal[type] /\ cards'[m].at = at
        /\ cards'[m].names = names /\ cards'[m].by = "catalog"
        /\ \A j \in 1..Len(cards) :
              /\ cards'[j].film = cards[j].film /\ cards'[j].type = cards[j].type
              /\ cards'[j].by = cards[j].by /\ cards'[j].names = cards[j].names
              /\ cards'[j].at = cards[j].at
    BY <1>9, <1>15, <2>1, RemovalWrites
  <2>3. /\ \A j : j \in 1..Len(cards') <=> j \in 1..Len(cards) \/ j = m
        /\ m \notin 1..Len(cards)
    BY <2>1, <2>2
  <2>4. Attached(c)' = Attached(c)
    <3>1. Removal[type] # TypeOf[c]
      BY Constants, RemovalTypes
    <3> QED
      BY <2>2, <2>3, <3>1 DEF Attached, AttachCards
  <2>5. \A i \in Attached(c) \cup Removals(c) : i \in 1..Len(cards) /\ cards[i].at \in Nat
    BY Numbers DEF Attached, Removals, AttachCards
  <2>6. CASE ~ (f = FilmOf[c] /\ type = TypeOf[c])
    <3>1. Removal[type] = Removal[TypeOf[c]] => type = TypeOf[c]
      BY Constants, RemovalTypes
    <3>2. Removals(c)' = Removals(c)
      BY <2>2, <2>3, <2>6, <3>1 DEF Removals, AttachCards
    <3>3. SameCards(c)
      BY <2>2, <2>4, <2>5, <3>2 DEF SameCards
    <3> QED
      BY <1>13, <2>6, <3>3
  <2>7. CASE f = FilmOf[c] /\ type = TypeOf[c]
    <3>1. Removals(c)' = Removals(c) \cup {m}
      BY <2>2, <2>3, <2>7 DEF Removals, AttachCards
    <3>2. CardsPrecede(c)'
      BY <1>1, <1>5, <2>2, <2>4, <2>5 DEF CardsPrecede, Tables
    <3>3. RemovalsName(c)'
      <4> SUFFICES ASSUME NEW k \in Removals(c) \cup {m}
                   PROVE  /\ cards'[k].at < Today
                          /\ PersonOf[c] \in cards'[k].names => [credit |-> c, at |-> cards'[k].at] \in removed
                          /\ c \notin live /\ (\E x \in LatestOf(Left(c)) : x.at = cards'[k].at)
                             => PersonOf[c] \in cards'[k].names \/ Attached(c) = {}
        BY <1>1, <1>3, <1>5, <2>4, <3>1 DEF RemovalsName, LatestOf
      <4>1. CASE k \in Removals(c)
        BY <2>2, <2>5, <4>1 DEF Tables, RemovalsName
      <4>2. CASE k = m
        <5>1. at < Today
          BY <1>3, <1>15
        <5>2. PersonOf[c] \in names => [credit |-> c, at |-> at] \in removed
          <6> SUFFICES ASSUME PersonOf[c] \in names PROVE [credit |-> c, at |-> at] \in removed
            OBVIOUS
          <6>1. PICK x \in Left(c) : x.at = at
            BY <1>12, <2>7
          <6> QED
            BY <6>1, <1>11, Numbers
        <5>3. ASSUME c \notin live, NEW x \in LatestOf(Left(c)), x.at = at, NEW i \in Attached(c)
              PROVE  PersonOf[c] \in names
          <6>1. x \in Left(c) /\ \A y \in Left(c) : y.at <= x.at
            BY DEF LatestOf
          <6>2. PICK r \in group : TRUE
            BY <1>1
          <6>3. x \in sweep.gone
            BY <1>6, <1>8, <1>11, <2>7, <5>3, <6>1, <6>2 DEF Whole
          <6>4. x \in group
            BY <1>11, <2>7, <5>3, <6>1, <6>3 DEF group, GroupOf
          <6>5. HadCard(x)
            <7>1. PICK y \in Left(c) : y.at > cards[i].at
              BY <5>3 DEF Tables, CardsPrecede
            <7>2. cards[i].at < x.at
              BY <1>11, <2>5, <6>1, <7>1
            <7> QED
              BY <1>11, <6>1, <7>2, HadCardIs
          <6>6. ~CameBack(x)
            <7> SUFFICES ASSUME NEW u \in Arrivals(c), x.at <= u.at PROVE FALSE
              BY <1>11, <6>1, CameBackIs
            <7>1. PICK y \in removed : y.credit = c /\ y.at > u.at
              BY <5>3 DEF Away, Arrivals
            <7>2. y \in Left(c) /\ u.at \in Nat
              BY <7>1, Numbers DEF Left, Arrivals
            <7> QED
              BY <1>11, <6>1, <7>1, <7>2
          <6> QED
            BY <1>11, <6>1, <6>4, <6>5, <6>6
        <5> QED
          BY <2>2, <4>2, <5>1, <5>2, <5>3
      <4> QED
        BY <4>1, <4>2
    <3>4. Rested(c)'
      BY <1>1, <1>3, <1>5 DEF Rested, Tables, LatestOf
    <3>5. ASSUME NEW x \in Left(c), Handled(x)
          PROVE  Handled(x)'
      <4>1. Taken(FilmOf[c], Removal[TypeOf[c]], x.at) => Taken(FilmOf[c], Removal[TypeOf[c]], x.at)'
        BY <2>2, <2>3 DEF Taken
      <4>2. HadCard(x)' => HadCard(x)
        <5>1. HadCard(x)' <=> \E i \in Attached(c)' : cards'[i].at < x.at
          BY <1>11, RowsOf DEF HadCard, Attached, Film, Type, Person
        <5> QED
          BY <1>11, <2>2, <2>4, <2>5, <5>1, HadCardIs
      <4>3. Today <= Today'
        BY <1>3
      <4> QED
        BY <1>5, <3>5, <4>1, <4>2, <4>3, HandledStays
    <3>6. Carded(c)' => Carded(c)
      <4>1. StandsOut(c)' => StandsOut(c)
        BY <2>2, <2>4, <2>5, <3>1 DEF StandsOut, NoOlder
      <4> QED
        BY <4>1, CardedIs, CardedIsNext
    <3>7. ASSUME swept[c] >= 1, c \in live, Carded(c)
          PROVE  Carded(c)'
      <4>1. PersonOf[c] \notin names
        <5> SUFFICES ASSUME PersonOf[c] \in names PROVE FALSE
          OBVIOUS
        <5>1. PICK x \in Left(c) : x \in group /\ x.at = at /\ HadCard(x) /\ ~CameBack(x)
          BY <1>12, <2>7
        <5>2. Handled(x)
          BY <3>7 DEF Tables, Departures
        <5>3. InWindow(x)
          BY <1>6, <5>1 DEF Whole
        <5>4. ~ (x.at + Lookback < Today)
          BY <1>3, <1>11, <5>3 DEF InWindow
        <5>5. Film(x) = f /\ Type(x) = type
          BY <1>8, <5>1
        <5> QED
          BY <1>15, <5>1, <5>2, <5>4, <5>5 DEF Handled
      <4>2. StandsOut(c)
        BY <3>7, CardedIs
      <4>3. StandsOut(c)'
        BY <2>2, <2>4, <2>5, <3>1, <4>1, <4>2 DEF StandsOut, NoOlder
      <4> QED
        BY <4>3, CardedIsNext
    <3>8. Departures(c)'
      BY <1>1, <1>5, <3>5, <3>6 DEF Departures, Tables
    <3>9. Returns(c)'
      <4> SUFFICES ASSUME swept[c] = 2, c \in live, ~DateTaken(c)' PROVE Carded(c)'
        BY <1>1 DEF Returns
      <4>1. ~DateTaken(c)
        BY <1>1 DEF DateTaken
      <4> QED
        BY <3>7, <4>1 DEF Tables, Returns
    <3>10. Carding(c)'
      <4> SUFFICES ASSUME swept[c] >= 1, c \in live, sweep.clean, Settled(c), ~Carded(c)'
                   PROVE  \E b \in LatestOf(Arrivals(c)) : b \in dropped
        BY <1>1, <1>2, <1>5 DEF Carding, LatestOf
      <4>1. ~Carded(c)
        BY <3>7
      <4> QED
        BY <1>1, <4>1 DEF Pass, Carding
    <3>11. Removing(c)'
      <4> SUFFICES ASSUME sweep.clean, Settled(c), NEW x \in Left(c), x \notin sweep.gone \ group
                   PROVE  Handled(x)'
        BY <1>2, <1>5 DEF Removing
      <4>1. CASE x \notin sweep.gone
        BY <1>1, <3>5, <4>1 DEF Pass, Removing
      <4>2. CASE x \in group
        <5>1. Film(x) = f /\ Type(x) = type /\ x.at = at
          BY <1>8, <4>2
        <5>2. Taken(f, Removal[type], at)'
          BY <2>2, <2>3 DEF Taken
        <5> QED
          BY <5>1, <5>2 DEF Handled, Film, Type
      <4> QED
        BY <4>1, <4>2
    <3> QED
      BY <1>7, <3>2, <3>3, <3>4, <3>8, <3>9, <3>10, <3>11 DEF Tables, Pass
  <2> QED
    BY <2>6, <2>7
<1> QED
  BY <1>10, <1>14, <1>15

\* A whole pass over a settled credit has handled its departures; the second has carded it.
LEMMA EndSweepCurrent ==
    ASSUME TypeOK, TypeOK', Days, Days', Returned, Away, NEW c \in Credits, Tables(c), Pass(c),
           EndSweep
    PROVE  Tables(c)' /\ Pass(c)'
<1>1. /\ UNCHANGED <<clock, live, added, removed, cards, dropped>>
      /\ sweep'.pc = "idle" /\ sweep'.todo = {} /\ sweep.pc = "remove" /\ sweep.gone = {}
  BY DEF EndSweep, tables, Idle
<1>2. swept'[c] = IF sweep.clean /\ Settled(c) /\ swept[c] < 2 THEN swept[c] + 1 ELSE swept[c]
  BY DEF EndSweep
<1>3. Pass(c)'
  BY <1>1, NothingRead
<1>4. /\ clock \in Nat /\ sweep.at \in Nat /\ Today = sweep.at /\ Today \in Nat
      /\ Quarantine \in Nat /\ Lookback \in Nat
  BY <1>1, Numbers
<1>5. Today <= Today' /\ Today' \in Nat
  BY <1>1, <1>4, TodayOn, CreditsAssumption DEF TypeOK, Today
<1>6. CASE swept'[c] = swept[c]
  <2>1. Aside(c)
    BY <1>1, <1>4, <1>5, <1>6, NoRows DEF Aside
  <2> QED
    BY <1>1, <1>3, <2>1, NoCards, TablesAside
<1>7. CASE sweep.clean /\ Settled(c) /\ swept[c] < 2 /\ swept'[c] = swept[c] + 1
  <2>1. /\ SameCards(c) /\ Arrivals(c)' = Arrivals(c) /\ Left(c)' = Left(c)
        /\ Attached(c)' = Attached(c) /\ Removals(c)' = Removals(c)
    BY <1>1, NoCards, NoRows DEF SameCards
  <2>2. PICK r \in LatestOf(Arrivals(c) \cup Left(c)) :
           r.at + Quarantine <= sweep.at /\ InWindow(r)
    BY <1>7, SettledIs
  <2>3. /\ r.credit = c /\ r.at \in Nat
        /\ c \notin live => r \in LatestOf(Left(c)) /\ ~CameBack(r)
    BY LastChange
  <2>4. \A x \in Left(c) : Handled(x) /\ x.credit = c /\ x.at \in Nat
    BY <1>1, <1>7, Numbers DEF Pass, Removing, Left
  <2>5. \A i \in Attached(c) \cup Removals(c) : i \in 1..Len(cards) /\ cards[i].at \in Nat
    BY Numbers DEF Attached, Removals, AttachCards
  <2>6. CardsPrecede(c)'
    BY <1>1, <2>1 DEF CardsPrecede, Tables
  <2>7. RemovalsName(c)'
    <3> SUFFICES ASSUME NEW k \in Removals(c)
                 PROVE  /\ cards[k].at < Today'
                        /\ PersonOf[c] \in cards[k].names => [credit |-> c, at |-> cards[k].at] \in removed
                        /\ c \notin live /\ (\E x \in LatestOf(Left(c)) : x.at = cards[k].at)
                           => PersonOf[c] \in cards[k].names \/ Attached(c) = {}
      BY <1>1, <2>1 DEF RemovalsName, LatestOf
    <3>1. cards[k].at < Today'
      <4>1. cards[k].at < Today /\ cards[k].at \in Nat
        BY <2>5 DEF Tables, RemovalsName
      <4> QED
        BY <1>4, <1>5, <4>1
    <3> QED
      BY <3>1 DEF Tables, RemovalsName
  <2>8. Rested(c)'
    <3>1. r.at + Quarantine <= Today'
      BY <1>4, <1>5, <2>2, <2>3
    <3> QED
      BY <2>1, <2>2, <3>1 DEF Rested, LatestOf
  <2>9. ASSUME c \in live, NEW x \in Left(c)
        PROVE  Handled(x)'
    <3>1. Taken(FilmOf[c], Removal[TypeOf[c]], x.at) => Taken(FilmOf[c], Removal[TypeOf[c]], x.at)'
      BY <1>1 DEF Taken
    <3>2. HadCard(x)' => HadCard(x)
      BY <1>1 DEF HadCard, AttachCards
    <3> QED
      BY <1>5, <2>1, <2>4, <3>1, <3>2, HandledStays
  <2>10. ASSUME c \notin live
         PROVE  ~Carded(c)
    <3> SUFFICES ASSUME NEW i \in Attached(c),
                        \A k \in Removals(c) : PersonOf[c] \in cards[k].names => NoOlder(i, k)
                 PROVE  FALSE
      BY CardedIs DEF StandsOut
    <3>1. r \in Left(c) /\ \A x \in Left(c) : x.at <= r.at
      BY <2>3, <2>10 DEF LatestOf
    <3>2. PICK x \in Left(c) : x.at > cards[i].at
      BY <2>10 DEF Tables, CardsPrecede
    <3>3. cards[i].at < r.at
      BY <2>3, <2>4, <2>5, <3>1, <3>2
    <3>4. HadCard(r) /\ ~CameBack(r)
      BY <2>3, <2>10, <3>3, HadCardIs
    <3>5. ~ (r.at + Lookback < Today)
      BY <1>4, <2>2, <2>3 DEF InWindow
    <3>6. Taken(FilmOf[c], Removal[TypeOf[c]], r.at)
      BY <2>3, <2>4, <3>1, <3>4, <3>5, RowsOf DEF Handled
    <3>7. PICK k \in Removals(c) : cards[k].at = r.at
      BY <3>6 DEF Taken, Removals, AttachCards
    <3>8. PersonOf[c] \in cards[k].names
      BY <2>3, <2>10, <3>7 DEF Tables, RemovalsName
    <3>9. NoOlder(i, k)
      BY <3>8
    <3> QED
      BY <2>3, <2>5, <3>3, <3>7, <3>9 DEF NoOlder
  <2>11. Departures(c)'
    <3>1. c \notin live => ~Carded(c)'
      BY <2>1, <2>10, SameCarded
    <3> QED
      BY <1>1, <2>1, <2>9, <3>1 DEF Departures
  <2>12. Returns(c)'
    <3> SUFFICES ASSUME swept'[c] = 2, c \in live, ~DateTaken(c)' PROVE Carded(c)'
      BY <1>1 DEF Returns
    <3>1. swept[c] >= 1
      BY <1>7 DEF TypeOK
    <3>2. ~DateTaken(c)
      BY <1>1 DEF DateTaken
    <3>3. Carded(c)
      BY <1>1, <1>7, <3>1, <3>2 DEF Pass, Carding, DateTaken, Arrivals
    <3> QED
      BY <2>1, <3>3, SameCarded
  <2> QED
    BY <1>3, <2>6, <2>7, <2>8, <2>11, <2>12 DEF Tables
<1> QED
  BY <1>2, <1>6, <1>7

LEMMA CurrentNext ==
    ASSUME IInv, IInv', LInv, [Next]_vars
    PROVE  Current'
<1> SUFFICES ASSUME NEW c \in Credits, ~Elsewhere(c)'
             PROVE  Tables(c)' /\ Pass(c)'
  BY DEF Current
<1>1. TypeOK /\ TypeOK' /\ Days /\ Days' /\ Returned /\ Todo /\ Away /\ Telling /\ Whole
  BY DEF IInv, LInv
<1>2. ~Elsewhere(c)
  BY <1>1, Grows
<1>3. Tables(c) /\ Pass(c)
  BY <1>2 DEF LInv, Current
<1>4. \A f \in Films : \A present \in SUBSET {d \in Credits : FilmOf[d] = f} :
         Observe(f, present) => Tables(c)' /\ Pass(c)'
  BY <1>1, <1>3, ObserveCurrent
<1>5. \A f \in Films : Story(f) => Tables(c)' /\ Pass(c)'
  BY <1>1, <1>3, StoryCurrent
<1>6. \A r \in DOMAIN hold : AdminReleases(r) => Tables(c)' /\ Pass(c)'
  BY <1>1, <1>2, <1>3, ReleaseCurrent
<1>7. Reconcile => Tables(c)' /\ Pass(c)'
  BY <1>1, <1>2, <1>3, ReconcileCurrent
<1>8. \A outage \in BOOLEAN : Judge(outage) => Tables(c)' /\ Pass(c)'
  BY <1>1, <1>3, JudgeCurrent
<1>9. \A f \in Films, type \in Types : CardGroup(f, type) => Tables(c)' /\ Pass(c)'
  BY <1>1, <1>2, <1>3, GroupCurrent
<1>10. \A f \in Films, type \in Types, at \in 0..MaxTime :
          CardDetachment(f, type, at) => Tables(c)' /\ Pass(c)'
  BY <1>1, <1>2, <1>3, DetachmentCurrent
<1>11. Passing => Tables(c)' /\ Pass(c)'
  BY <1>1, <1>3, PassingCurrent, EndSweepCurrent
<1> QED
  BY <1>4, <1>5, <1>6, <1>7, <1>8, <1>9, <1>10, <1>11, Actions

LEMMA LInvNext == IInv /\ IInv' /\ LInv /\ [Next]_vars => LInv'
BY AwayNext, TellingNext, WholeNext, CurrentNext DEF IInv, LInv

LEMMA LInvInit == Init => LInv
<1> SUFFICES ASSUME Init PROVE LInv
  OBVIOUS
<1>1. /\ added = {} /\ removed = {} /\ stamp = <<>> /\ cards = <<>> /\ Len(cards) = 0
      /\ sweep.todo = {} /\ sweep.gone = {} /\ sweep.pc = "idle"
      /\ \A c \in Credits : swept[c] = 0
  BY DEF Init, Idle
<1>2. 1..Len(cards) = {} /\ DOMAIN stamp = {}
  BY <1>1
<1>3. Away /\ Telling /\ Whole
  BY <1>1, <1>2 DEF Away, Telling, Whole
<1>4. ASSUME NEW c \in Credits
      PROVE  Tables(c) /\ Pass(c)
  <2>1. Attached(c) = {} /\ Removals(c) = {}
    BY <1>2 DEF Attached, Removals, AttachCards
  <2>2. CardsPrecede(c) /\ RemovalsName(c)
    BY <2>1 DEF CardsPrecede, RemovalsName
  <2>3. Rested(c) /\ Departures(c) /\ Returns(c)
    BY <1>1 DEF Rested, Departures, Returns
  <2> QED
    BY <1>1, <2>2, <2>3 DEF Tables, Pass, TodoWhole, Removing, Carding
<1> QED
  BY <1>3, <1>4 DEF LInv, Current

\* "Invariant: the latest card for a person reflects their current attachment state"
\* (credit_events.py:925): two whole passes after a credit's last change settled, a person
\* is carded if they are on the film, unless the catalog had a card of the date, and is not
\* carded if they are not.  For any credits, passes, failures, outages and deaths.
THEOREM LatestCardsAreCurrent == Spec => []LatestCardIsCurrent
<1>1. LInv /\ IInv => LatestCardIsCurrent
  <2> SUFFICES ASSUME LInv, NEW c \in Credits, swept[c] = 2, ~Elsewhere(c)
               PROVE  /\ c \in live /\ ~DateTaken(c) => Carded(c)
                      /\ c \notin live => ~Carded(c)
    BY DEF LatestCardIsCurrent, Carded
  <2>1. Departures(c) /\ Returns(c)
    BY DEF LInv, Current, Tables
  <2> QED
    BY <2>1 DEF Departures, Returns
<1> QED
  BY <1>1, LInvInit, LInvNext, Invariance, PTL DEF Spec
=============================================================================
