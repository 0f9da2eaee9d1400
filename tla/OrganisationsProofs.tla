------------------------- MODULE OrganisationsProofs -------------------------
(***************************************************************************)
(* Organisations, for any films, studios and franchises, any windows and   *)
(* any number of stories and failures: types, what a catalog card rests    *)
(* on, what a departure corrects, and that a pass tells what it owes.      *)
(*                                                                         *)
(* What carries the last is that the tables agree: the last change of an   *)
(* organisation is what TMDB says now (LiveIsLast), so of what a pass is   *)
(* about to card about one organisation of one film every change has the   *)
(* direction of the last (Pass), and a card that says otherwise is dated   *)
(* before it (Cards).                                                      *)
(***************************************************************************)
EXTENDS Organisations, FiniteSetTheorems, TLAPS

\* The last change of an organisation on a film.
Final == {r \in rows : \A u \in rows : u.film = r.film /\ u.ent = r.ent => u.at <= r.at}

\* No change, and no pass, is dated after the day, and only the catalog's films change.
Days ==
    /\ sweep.at <= clock
    /\ \A r \in rows : r.at <= clock /\ r.film \in known

\* One observation of a film finds one change of an organisation.
OneADay ==
    \A r, u \in rows : r.film = u.film /\ r.ent = u.ent /\ r.at = u.at => r = u

\* TMDB says what the last change says.
LiveIsLast == \A r \in Final : Agrees(r)

\* The locals of a pass, between its steps.
Pass ==
    /\ sweep.todo # {} => sweep.pc = "card"
    /\ sweep.pc = "confirm" => sweep.kind = "collection"
    /\ sweep.undone \subseteq sweep.todo
    /\ \A r \in sweep.undone : \E u \in rows : Follows(r, u)
    /\ \A r \in sweep.todo :
         /\ KindOf(r.ent) = sweep.kind /\ r \notin DOMAIN stamp
         /\ r.at + Quarantine <= sweep.at
         /\ \A u \in Final : u.film = r.film /\ u.ent = r.ent
                               => u.dir = r.dir \/ sweep.at <= u.at

\* Who a token names: a card of their kind, older than the quarantine, and older than the
\* change that contradicts it.
Cards ==
    \A i \in 1..Len(cards) : \A e \in cards[i].names :
      /\ cards[i].by = "catalog" /\ cards[i].kind = KindOf(e)
      /\ cards[i].at + Quarantine <= clock
      /\ \A r \in Final : r.film = cards[i].film /\ r.ent = e
                            => r.dir = cards[i].dir \/ cards[i].at < r.at

\* The phases of a pass that have read what they may card.
HasRead(kind) == \/ sweep.pc \in {"card", "confirm"} /\ sweep.kind = kind
                 \/ kind = "company" /\ sweep.kind = "collection"

\* What a pass owes it is about to card, or has told.
Owed ==
    sweep.clean =>
      \A r \in Final : HasRead(KindOf(r.ent)) /\ Due(r)
                         => r \in sweep.todo \/ Told(r) \/ DateTaken(r)

IInv == TypeOK /\ Days /\ OneADay /\ LiveIsLast /\ Pass /\ Cards /\ Owed
-----------------------------------------------------------------------------
(***************************************************************************)
(* Orders of cards and of changes.                                         *)
(***************************************************************************)

\* A finite set has a minimal element in any strict order.
LEMMA Minimal ==
    ASSUME NEW I, IsFiniteSet(I), I # {}, NEW R,
           \A i \in I : <<i, i>> \notin R,
           \A i, j, k \in I : <<i, j>> \in R /\ <<j, k>> \in R => <<i, k>> \in R
    PROVE  \E i \in I : \A j \in I : <<j, i>> \notin R
<1> DEFINE Below == [i \in I |-> {j \in I : <<j, i>> \in R}]
           Sets  == {Below[i] : i \in I}
<1>1. Sets \subseteq FiniteSubsetsOf(I) /\ Sets # {}
  <2>1. FiniteSubsetsOf(I) = SUBSET I
    BY FS_FiniteSubsetsOfFinite
  <2>2. \A i \in I : Below[i] \in SUBSET I
    OBVIOUS
  <2>3. ASSUME NEW X \in Sets PROVE X \in SUBSET I
    <3>1. PICK i \in I : X = Below[i]
      OBVIOUS
    <3> QED
      BY <2>2, <3>1, Zenon
  <2>4. Sets # {}
    <3>1. PICK i \in I : TRUE
      OBVIOUS
    <3>2. Below[i] \in Sets
      BY Zenon
    <3> HIDE DEF Sets
    <3> QED
      BY <3>2
  <2> HIDE DEF Sets
  <2> QED
    BY <2>1, <2>3, <2>4
<1>2. PICK X \in Sets : \A Y \in Sets : <<Y, X>> \notin StrictSubsetOrdering(I)
  BY <1>1, WFMin, FS_StrictSubsetOrderingWellFounded
<1>3. PICK i \in I : X = Below[i]
  OBVIOUS
<1>4. SUFFICES ASSUME NEW j \in I, <<j, i>> \in R
               PROVE  FALSE
  BY <1>3
<1>5. Below[j] \subseteq Below[i]
  BY <1>4, Zenon
<1>6. j \in Below[i] /\ j \notin Below[j]
  BY <1>4, Zenon
<1>7. <<Below[j], Below[i]>> \in StrictSubsetOrdering(I)
  BY <1>5, <1>6 DEF StrictSubsetOrdering
<1> QED
  BY <1>2, <1>3, <1>7

LEMMA CardFields ==
    ASSUME TypeOK, NEW i \in 1..Len(cards)
    PROVE  /\ cards[i] \in Card /\ i \in Nat /\ Len(cards) \in Nat
           /\ cards[i].film \in Films /\ cards[i].kind \in Kinds /\ cards[i].dir \in Dirs
           /\ cards[i].at \in 0..MaxTime /\ cards[i].at \in Nat
           /\ cards[i].names \subseteq Entities /\ cards[i].mentions \subseteq Entities
<1>1. cards \in Seq(Card) /\ Len(cards) \in Nat
  BY DEF TypeOK
<1>2. cards[i] \in Card
  BY <1>1
<1> QED
  BY <1>1, <1>2, OrganisationsAssumption DEF Card

LEMMA RowFields ==
    ASSUME NEW r \in Rows
    PROVE  /\ r.film \in Films /\ r.ent \in Entities /\ r.dir \in Dirs
           /\ r.at \in 0..MaxTime /\ r.at \in Nat
BY OrganisationsAssumption DEF Rows

\* Of any cards one is the newest: what order_by and limit(1) give.
LEMMA HasNewest ==
    ASSUME TypeOK, NEW I \in SUBSET (1..Len(cards)), I # {}
    PROVE  Newest(I) # {}
<1> DEFINE R == {x \in I \X I : ~ NoOlder(x[2], x[1])}
<1>1. \A i \in I : cards[i].at \in Nat /\ i \in Nat
  BY CardFields
<1>2. \A i \in I : <<i, i>> \notin R
  BY <1>1 DEF NoOlder
<1>3. ASSUME NEW i \in I, NEW j \in I, NEW k \in I, <<i, j>> \in R, <<j, k>> \in R
      PROVE  <<i, k>> \in R
  <2>1. ~ NoOlder(j, i) /\ ~ NoOlder(k, j)
    BY <1>3
  <2>2. ~ NoOlder(k, i)
    BY <1>1, <2>1 DEF NoOlder
  <2> QED
    BY <2>2
<1>4. \A i, j \in I : <<j, i>> \notin R => NoOlder(i, j)
  OBVIOUS
<1>5. IsFiniteSet(I)
  <2>1. IsFiniteSet(1..Len(cards))
    <3>1. Len(cards) \in Nat
      BY DEF TypeOK
    <3> QED
      BY <3>1, FS_Interval
  <2> QED
    BY <2>1, FS_Subset
<1> HIDE DEF R
<1>6. \E i \in I : \A j \in I : <<j, i>> \notin R
  BY <1>2, <1>3, <1>5, Minimal
<1> QED
  BY <1>4, <1>6 DEF Newest

\* Of any changes one is the latest: the date of a group is defined.
LEMMA HasLatest ==
    ASSUME NEW S \in SUBSET Rows, S # {}
    PROVE  LatestOf(S) # {}
<1> DEFINE T == {r.at : r \in S}
           R == {x \in T \X T : x[2] < x[1]}
<1>1. T \subseteq 0..MaxTime /\ T # {}
  BY RowFields
<1>2. IsFiniteSet(T)
  <2>1. IsFiniteSet(0..MaxTime)
    BY FS_Interval, OrganisationsAssumption
  <2> HIDE DEF T
  <2> QED
    BY <1>1, <2>1, FS_Subset
<1>3. T \subseteq Nat
  BY <1>1
<1> HIDE DEF T
<1>4. \A i \in T : <<i, i>> \notin R
  BY <1>3
<1>5. \A i, j, k \in T : <<i, j>> \in R /\ <<j, k>> \in R => <<i, k>> \in R
  BY <1>3
<1>6. \A i, j \in T : <<j, i>> \notin R => j <= i
  BY <1>3
<1> HIDE DEF R
<1>7. PICK t \in T : \A u \in T : <<u, t>> \notin R
  BY <1>1, <1>2, <1>4, <1>5, Minimal
<1>8. \A u \in T : u <= t
  BY <1>6, <1>7
<1>9. PICK r \in S : r.at = t
  BY DEF T
<1>10. \A u \in S : u.at \in T
  BY DEF T
<1> QED
  BY <1>8, <1>9, <1>10 DEF LatestOf

\* The date of a group's card is a change's, and no other of its changes came later.
LEMMA DatedByLatest ==
    ASSUME TypeOK, NEW f, NEW dir, Uncarded(f, dir) # {}
    PROVE  /\ \E r \in Uncarded(f, dir) : Dated(f, dir) = r.at
           /\ \A r \in Uncarded(f, dir) : r.at <= Dated(f, dir)
<1>1. Uncarded(f, dir) \in SUBSET Rows
  BY DEF TypeOK, Uncarded, Group
<1>2. (CHOOSE r \in LatestOf(Uncarded(f, dir)) : TRUE) \in LatestOf(Uncarded(f, dir))
  BY <1>1, HasLatest
<1> QED
  BY <1>2 DEF Dated, LatestOf
-----------------------------------------------------------------------------
(***************************************************************************)
(* What the steps write, and types.                                        *)
(***************************************************************************)

LEMMA TypeInit == Init => TypeOK
<1> SUFFICES ASSUME Init PROVE TypeOK
  OBVIOUS
<1>1. PICK held \in [known -> Holdings] :
        live = {p \in known \X Entities : p[2] \in held[p[1]]}
  BY DEF Init
<1>2. live \subseteq known \X Entities /\ known \subseteq Films
  BY <1>1 DEF Init
<1>3. ASSUME NEW f \in Films
      PROVE  Cardinality({c \in Collections : <<f, c>> \in live}) <= 1
  <2>1. CASE f \in known
    <3>1. held[f] \in Holdings
      BY <1>1, <2>1
    <3>2. \A c \in Collections : <<f, c>> \in live <=> c \in held[f]
      BY <1>1, <2>1 DEF Entities
    <3>3. {c \in Collections : <<f, c>> \in live} = held[f] \cap Collections
      BY <3>2
    <3> QED
      BY <3>1, <3>3 DEF Holdings
  <2>2. CASE f \notin known
    <3>1. {c \in Collections : <<f, c>> \in live} = {}
      BY <1>2, <2>2
    <3>2. Cardinality({}) = 0
      BY FS_EmptySet
    <3>3. Cardinality({c \in Collections : <<f, c>> \in live}) = 0
      BY <3>1, <3>2, Zenon
    <3> QED
      BY <3>3
  <2> QED
    BY <2>1, <2>2
<1>4. /\ clock \in 0..MaxTime /\ stories \in 0..MaxStories /\ faults \in 0..MaxFaults
      /\ rows = {} /\ stamp = <<>> /\ cards = <<>> /\ sweep = Idle
  BY OrganisationsAssumption DEF Init
<1>5. DOMAIN stamp = {} /\ cards \in Seq(Card)
  BY <1>4
<1>6. sweep \in [pc : {"idle", "stamp", "read", "card", "confirm"}, at : 0..MaxTime,
                 kind : Kinds, todo : SUBSET rows, undone : SUBSET rows, clean : BOOLEAN]
  BY <1>4, OrganisationsAssumption DEF Idle, Kinds
<1> QED
  BY <1>2, <1>3, <1>4, <1>5, <1>6 DEF TypeOK
\* What one observation of a film finds.
Finds(f, new) ==
    /\ rows' = rows \cup new /\ new \in SUBSET Rows
    /\ known' = known \cup {f} /\ live' \subseteq known' \X Entities
    /\ \A g \in Films : Cardinality({c \in Collections : <<g, c>> \in live'}) <= 1
    /\ \A r \in rows : r.film = f /\ f \in known => r.at # clock
    /\ \A r \in new : r.film = f /\ r.at = clock /\ Agrees(r)'
    /\ \A r, u \in new : r.ent = u.ent => r = u
    /\ \A g \in Films, e \in Entities :
         \/ g = f /\ \E r \in new : r.ent = e
         \/ g \in known /\ (<<g, e>> \in live' <=> <<g, e>> \in live)
         \/ g \notin known /\ <<g, e>> \notin live
    /\ UNCHANGED <<clock, stamp, cards, sweep, stories, faults>>

\* One franchise at most: the film's, or the one it had.
LEMMA OneFranchise ==
    ASSUME TypeOK, NEW f \in Films, NEW present \in Holdings,
           \A g \in Films, e \in Entities :
             <<g, e>> \in live' <=> IF g = f THEN e \in present ELSE <<g, e>> \in live
    PROVE  \A g \in Films : Cardinality({c \in Collections : <<g, c>> \in live'}) <= 1
<1> SUFFICES ASSUME NEW g \in Films
             PROVE  Cardinality({c \in Collections : <<g, c>> \in live'}) <= 1
  OBVIOUS
<1>1. CASE g = f
  <2>1. {c \in Collections : <<g, c>> \in live'} = present \cap Collections
    BY <1>1 DEF Entities
  <2> QED
    BY <2>1 DEF Holdings
<1>2. CASE g # f
  <2>1. {c \in Collections : <<g, c>> \in live'} = {c \in Collections : <<g, c>> \in live}
    BY <1>2 DEF Entities
  <2> QED
    BY <2>1 DEF TypeOK
<1> QED
  BY <1>1, <1>2

LEMMA AdmitFinds ==
    ASSUME TypeOK, NEW f \in Films, NEW present \in Holdings, NEW followed \in SUBSET present,
           NEW unreleased \in BOOLEAN, Admit(f, present, followed, unreleased)
    PROVE  \E new : Finds(f, new)
<1> DEFINE new == IF unreleased THEN Admitted(f, present, followed) ELSE {}
<1>1. f \notin known /\ live \subseteq known \X Entities /\ present \subseteq Entities
  BY DEF Admit, TypeOK, Holdings
<1>2. live' = live \cup ({f} \X present) /\ rows' = rows \cup new /\ known' = known \cup {f}
  BY DEF Admit, Record
<1>3. clock \in 0..MaxTime
  BY DEF TypeOK
<1>4. \A r \in new : /\ r \in Rows /\ r.film = f /\ r.at = clock /\ r.dir = "added"
                     /\ r.ent \in present
                     /\ r = [film |-> f, ent |-> r.ent, dir |-> "added", at |-> clock,
                             move |-> FALSE]
  <2>1. ASSUME NEW r \in new
        PROVE  \E e \in present : r = [film |-> f, ent |-> e, dir |-> "added", at |-> clock,
                                       move |-> FALSE]
    BY DEF Admitted
  <2>2. \A e \in present : [film |-> f, ent |-> e, dir |-> "added", at |-> clock,
                            move |-> FALSE] \in Rows
    BY <1>1, <1>3 DEF Rows, Dirs
  <2> HIDE DEF new
  <2> QED
    BY <2>1, <2>2
<1> HIDE DEF new
<1>5. \A r \in new : Agrees(r)'
  BY <1>2, <1>4 DEF Agrees
<1>6. \A r, u \in new : r.ent = u.ent => r = u
  BY <1>4
<1>7. ASSUME NEW g \in Films, NEW e \in Entities
      PROVE  \/ g \in known /\ (<<g, e>> \in live' <=> <<g, e>> \in live)
             \/ g \notin known /\ <<g, e>> \notin live
  BY <1>1, <1>2
<1>8. UNCHANGED <<clock, stamp, cards, sweep, stories, faults>>
  BY DEF Admit
<1>9. new \in SUBSET Rows /\ \A r \in new : r.film = f /\ r.at = clock
  BY <1>4
<1>10. /\ live' \subseteq known' \X Entities
       /\ \A g \in Films : Cardinality({c \in Collections : <<g, c>> \in live'}) <= 1
  <2>1. \A g \in Films, e \in Entities :
          <<g, e>> \in live' <=> IF g = f THEN e \in present ELSE <<g, e>> \in live
    BY <1>1, <1>2
  <2> QED
    BY <1>1, <1>2, <2>1, OneFranchise
<1>11. Finds(f, new)
  BY <1>1, <1>2, <1>5, <1>6, <1>7, <1>8, <1>9, <1>10 DEF Finds
<1> QED
  BY <1>11

LEMMA ObserveFinds ==
    ASSUME TypeOK, NEW f \in Films, NEW present \in Holdings, Observe(f, present)
    PROVE  \E new : Finds(f, new)
<1> DEFINE new == Difference(f, present)
           Row(e, dir) == [film |-> f, ent |-> e, dir |-> dir, at |-> clock,
                           move |-> Moves(f, present, e)]
<1>1. f \in known /\ live \subseteq known \X Entities /\ present \subseteq Entities
  BY DEF Observe, TypeOK, Holdings
<1>2. /\ live' = (live \ ({f} \X Entities)) \cup ({f} \X present)
      /\ rows' = rows \cup new /\ known' = known \cup {f}
      /\ \A r \in rows : r.film = f => r.at # clock
  BY <1>1 DEF Observe, Record
<1>3. clock \in 0..MaxTime /\ \A e \in Entities : Moves(f, present, e) \in BOOLEAN
  BY DEF TypeOK, Moves
<1>4. new = {Row(e, "added") : e \in present \ Held(f)}
              \cup {Row(e, "removed") : e \in Held(f) \ present}
  BY DEF Difference, Arrived, Left
<1>5. \A e \in Entities : e \in Held(f) <=> <<f, e>> \in live
  BY DEF Held
<1>6. \A e \in Entities, dir \in Dirs :
        /\ Row(e, dir) \in Rows /\ Row(e, dir).film = f /\ Row(e, dir).at = clock
        /\ Row(e, dir).ent = e /\ Row(e, dir).dir = dir
  BY <1>3 DEF Rows
<1>7. Held(f) \subseteq Entities /\ "added" \in Dirs /\ "removed" \in Dirs
  BY DEF Held, Dirs
<1> HIDE DEF Row, new
<1>8. \A r \in new :
        \E e \in Entities : \/ e \in present \ Held(f) /\ r = Row(e, "added")
                            \/ e \in Held(f) \ present /\ r = Row(e, "removed")
  BY <1>1, <1>4, <1>7
<1>9. \A r \in new : /\ r \in Rows /\ r.film = f /\ r.at = clock
                     /\ r.ent \in Entities
                     /\ \/ r.ent \in present \ Held(f) /\ r = Row(r.ent, "added")
                                                       /\ r.dir = "added"
                        \/ r.ent \in Held(f) \ present /\ r = Row(r.ent, "removed")
                                                       /\ r.dir = "removed"
  BY <1>6, <1>7, <1>8
<1>10. \A e \in Entities : <<f, e>> \in live' <=> e \in present
  BY <1>1, <1>2
<1>11. \A r \in new : Agrees(r)'
  BY <1>9, <1>10 DEF Agrees
<1>12. \A r, u \in new : r.ent = u.ent => r = u
  BY <1>9
<1>13. ASSUME NEW g \in Films, NEW e \in Entities
       PROVE  \/ g = f /\ \E r \in new : r.ent = e
              \/ g \in known /\ (<<g, e>> \in live' <=> <<g, e>> \in live)
              \/ g \notin known /\ <<g, e>> \notin live
  <2>1. CASE g # f
    BY <1>1, <1>2, <2>1
  <2>2. CASE g = f /\ (e \in present <=> e \in Held(f))
    BY <1>1, <1>5, <1>10, <2>2
  <2>3. CASE g = f /\ ~ (e \in present <=> e \in Held(f))
    <3>1. Row(e, "added") \in new \/ Row(e, "removed") \in new
      BY <1>4, <2>3
    <3>2. Row(e, "added").ent = e /\ Row(e, "removed").ent = e
      BY <1>6, <1>7
    <3> QED
      BY <2>3, <3>1, <3>2
  <2> QED
    BY <2>1, <2>2, <2>3
<1>14. UNCHANGED <<clock, stamp, cards, sweep, stories, faults>>
  BY DEF Observe
<1>15. new \in SUBSET Rows /\ \A r \in new : r.film = f /\ r.at = clock
  BY <1>9
<1>16. /\ live' \subseteq known' \X Entities
       /\ \A g \in Films : Cardinality({c \in Collections : <<g, c>> \in live'}) <= 1
  <2>1. \A g \in Films, e \in Entities :
          <<g, e>> \in live' <=> IF g = f THEN e \in present ELSE <<g, e>> \in live
    BY <1>1, <1>2
  <2> QED
    BY <1>1, <1>2, <2>1, OneFranchise
<1>17. Finds(f, new)
  BY <1>1, <1>2, <1>11, <1>12, <1>13, <1>14, <1>15, <1>16 DEF Finds
<1> QED
  BY <1>17
\* Cards are appended; a card keeps what it says, and is superseded for good.
Grow ==
    /\ cards' \in Seq(Card) /\ Len(cards) <= Len(cards')
    /\ \A i \in 1..Len(cards) :
         /\ cards'[i].film = cards[i].film /\ cards'[i].kind = cards[i].kind
         /\ cards'[i].dir = cards[i].dir /\ cards'[i].at = cards[i].at
         /\ cards'[i].by = cards[i].by /\ cards'[i].names = cards[i].names
         /\ cards[i].mentions \subseteq cards'[i].mentions
         /\ cards'[i].published => cards[i].published

\* No catalog card is appended.
Silent == /\ Grow
          /\ \A i \in (Len(cards) + 1)..Len(cards') :
               cards'[i].by = "story" /\ cards'[i].names = {}

LEMMA SameCards == ASSUME TypeOK, UNCHANGED cards PROVE Silent
BY DEF TypeOK, Silent, Grow

\* A card that is withdrawn, by its fields.
LEMMA Withdrawn ==
    ASSUME NEW card \in Card, NEW p \in BOOLEAN
    PROVE  /\ [card EXCEPT !.published = p] \in Card
           /\ [card EXCEPT !.published = p] =
                [film |-> card.film, kind |-> card.kind, dir |-> card.dir, at |-> card.at,
                 by |-> card.by, names |-> card.names, mentions |-> card.mentions,
                 confirmed |-> card.confirmed, published |-> p]
<1>1. [card EXCEPT !.published = p] \in Card
  BY SMT DEF Card
<1>2. [card EXCEPT !.published = p] =
        [film |-> card.film, kind |-> card.kind, dir |-> card.dir, at |-> card.at,
         by |-> card.by, names |-> card.names, mentions |-> card.mentions,
         confirmed |-> card.confirmed, published |-> p]
  BY SMT DEF Card
<1> QED
  BY <1>1, <1>2, Zenon

\* A card with a mention more.
LEMMA Mentioned ==
    ASSUME NEW card \in Card, NEW e \in Entities
    PROVE  /\ [card EXCEPT !.mentions = @ \cup {e}] \in Card
           /\ [card EXCEPT !.mentions = @ \cup {e}] =
                [film |-> card.film, kind |-> card.kind, dir |-> card.dir, at |-> card.at,
                 by |-> card.by, names |-> card.names, mentions |-> card.mentions \cup {e},
                 confirmed |-> card.confirmed, published |-> card.published]
<1>1. [card EXCEPT !.mentions = @ \cup {e}] \in Card
  BY SMT DEF Card
<1>2. [card EXCEPT !.mentions = @ \cup {e}] =
        [film |-> card.film, kind |-> card.kind, dir |-> card.dir, at |-> card.at,
         by |-> card.by, names |-> card.names, mentions |-> card.mentions \cup {e},
         confirmed |-> card.confirmed, published |-> card.published]
  BY SMT DEF Card
<1> QED
  BY <1>1, <1>2, Zenon

\* A table with the cards of this one, some of them superseded.
SameBut(table, I) ==
    /\ table \in Seq(Card) /\ Len(table) = Len(cards)
    /\ \A i \in 1..Len(cards) :
         /\ table[i].film = cards[i].film /\ table[i].kind = cards[i].kind
         /\ table[i].dir = cards[i].dir /\ table[i].at = cards[i].at
         /\ table[i].by = cards[i].by /\ table[i].names = cards[i].names
         /\ table[i].mentions = cards[i].mentions
         /\ table[i].published <=> cards[i].published /\ i \notin I

LEMMA SupersededCards == ASSUME TypeOK, NEW I PROVE SameBut(Superseded(I), I)
<1>1. cards \in Seq(Card) /\ Len(cards) \in Nat /\ DOMAIN cards = 1..Len(cards)
  BY DEF TypeOK
<1>2. ASSUME NEW i \in 1..Len(cards)
      PROVE  /\ Superseded(I)[i] \in Card
             /\ Superseded(I)[i].film = cards[i].film /\ Superseded(I)[i].kind = cards[i].kind
             /\ Superseded(I)[i].dir = cards[i].dir /\ Superseded(I)[i].at = cards[i].at
             /\ Superseded(I)[i].by = cards[i].by /\ Superseded(I)[i].names = cards[i].names
             /\ Superseded(I)[i].mentions = cards[i].mentions
             /\ Superseded(I)[i].published <=> cards[i].published /\ i \notin I
  <2>1. PICK card \in Card : card = cards[i]
    BY <1>1
  <2>2. Superseded(I)[i] = IF i \in I THEN [card EXCEPT !.published = FALSE] ELSE card
    BY <1>1, <2>1 DEF Superseded
  <2> DEFINE q == FALSE
  <2>0. q \in BOOLEAN
    OBVIOUS
  <2>3. PICK new : new = [card EXCEPT !.published = q]
    OBVIOUS
  <2> HIDE DEF q
  <2>4. new \in Card
    BY <2>0, <2>3, Withdrawn, Zenon
  <2>5. new = [film |-> card.film, kind |-> card.kind, dir |-> card.dir, at |-> card.at,
               by |-> card.by, names |-> card.names, mentions |-> card.mentions,
               confirmed |-> card.confirmed, published |-> q]
    BY <2>0, <2>3, Withdrawn, Zenon
  <2> QED
    BY <2>1, <2>2, <2>3, <2>4, <2>5 DEF q
<1>3. Superseded(I) = [i \in 1..Len(cards) |-> Superseded(I)[i]]
  BY <1>1, Zenon DEF Superseded
<1>4. Superseded(I) \in [1..Len(cards) -> Card]
  BY <1>2, <1>3, Zenon
<1>5. Superseded(I) \in Seq(Card) /\ Len(Superseded(I)) = Len(cards)
  BY <1>1, <1>4
<1> QED
  BY <1>2, <1>5 DEF SameBut

LEMMA ClusterWrites ==
    ASSUME TypeOK, NEW f \in Films, NEW kind \in Kinds, NEW dir \in Dirs,
           NEW confirmed \in BOOLEAN, Cluster(f, kind, dir, confirmed)
    PROVE  Silent
<1> DEFINE k == [film |-> f, kind |-> kind, dir |-> dir, at |-> clock, by |-> "story",
                 names |-> {}, mentions |-> {}, confirmed |-> confirmed, published |-> TRUE]
<1>1. cards \in Seq(Card) /\ Len(cards) \in Nat
  BY DEF TypeOK
<1>2. k \in Card /\ k.by = "story" /\ k.names = {}
  BY DEF TypeOK, Card
<1>3. cards' = Append(cards, k)
  BY DEF Cluster
<1> HIDE DEF k
<1>4. /\ cards' \in Seq(Card) /\ Len(cards') = Len(cards) + 1
      /\ cards'[Len(cards) + 1] = k /\ \A i \in 1..Len(cards) : cards'[i] = cards[i]
  BY <1>1, <1>2, <1>3
<1> QED
  BY <1>1, <1>2, <1>4 DEF Silent, Grow

LEMMA ResolveWrites ==
    ASSUME TypeOK, NEW i \in 1..Len(cards), NEW e \in Entities, Resolve(i, e)
    PROVE  Silent /\ Len(cards') = Len(cards)
<1>1. cards \in Seq(Card) /\ Len(cards) \in Nat
  BY DEF TypeOK
<1>2. PICK I : cards' = [Superseded(I) EXCEPT ![i].mentions = @ \cup {e}]
  BY DEF Resolve
<1>3. PICK table : table = Superseded(I) /\ SameBut(table, I)
  BY SupersededCards
<1>4. PICK card \in Card : card = table[i]
  BY <1>3 DEF SameBut
<1>5. PICK new : new = [card EXCEPT !.mentions = @ \cup {e}]
  OBVIOUS
<1>6. /\ new \in Card
      /\ new = [film |-> card.film, kind |-> card.kind, dir |-> card.dir, at |-> card.at,
                by |-> card.by, names |-> card.names, mentions |-> card.mentions \cup {e},
                confirmed |-> card.confirmed, published |-> card.published]
  BY <1>5, Mentioned, Zenon
<1>7. cards' = [table EXCEPT ![i] = new]
  BY <1>2, <1>3, <1>4, <1>5
<1>8. /\ cards' \in Seq(Card) /\ Len(cards') = Len(cards)
      /\ \A j \in 1..Len(cards) : cards'[j] = IF j = i THEN new ELSE table[j]
  BY <1>1, <1>3, <1>6, <1>7 DEF SameBut
<1>9. /\ new.film = card.film /\ new.kind = card.kind /\ new.dir = card.dir
      /\ new.at = card.at /\ new.by = card.by /\ new.names = card.names
      /\ card.mentions \subseteq new.mentions /\ new.published = card.published
  BY <1>6
<1> QED
  BY <1>1, <1>3, <1>4, <1>8, <1>9 DEF SameBut, Silent, Grow

LEMMA ConfirmWrites ==
    ASSUME TypeOK, Confirm
    PROVE  Silent /\ Len(cards') = Len(cards)
<1> DEFINE flip(i) == \E r \in Candidates : i = stamp[r]
<1>1. PICK I : cards' = Confirmed(I)
  BY DEF Confirm
<1>2. PICK table : table = Superseded(I) /\ SameBut(table, I)
  BY SupersededCards
<1>3. cards \in Seq(Card) /\ Len(cards) \in Nat /\ DOMAIN cards = 1..Len(cards)
  BY DEF TypeOK
<1>4. cards' = [i \in 1..Len(cards) |-> [table[i] EXCEPT !.confirmed = @ \/ flip(i)]]
  BY <1>1, <1>2, <1>3 DEF Confirmed
<1> HIDE DEF flip
<1>5. ASSUME NEW i \in 1..Len(cards)
      PROVE  /\ cards'[i] \in Card
             /\ cards'[i].film = table[i].film /\ cards'[i].kind = table[i].kind
             /\ cards'[i].dir = table[i].dir /\ cards'[i].at = table[i].at
             /\ cards'[i].by = table[i].by /\ cards'[i].names = table[i].names
             /\ cards'[i].mentions = table[i].mentions
             /\ cards'[i].published = table[i].published
  <2>1. PICK card \in Card : card = table[i]
    BY <1>2 DEF SameBut
  <2>2. PICK q \in BOOLEAN : q = (card.confirmed \/ flip(i))
    OBVIOUS
  <2>3. PICK new : new = [card EXCEPT !.confirmed = q]
    OBVIOUS
  <2>4. cards'[i] = new
    BY <1>4, <2>1, <2>2, <2>3
  <2>5. new \in Card
    BY <2>3, SMT DEF Card
  <2>6. new = [film |-> card.film, kind |-> card.kind, dir |-> card.dir, at |-> card.at,
               by |-> card.by, names |-> card.names, mentions |-> card.mentions,
               confirmed |-> q, published |-> card.published]
    BY <2>3, SMT DEF Card
  <2> QED
    BY <2>1, <2>4, <2>5, <2>6
<1>6. cards' = [i \in 1..Len(cards) |-> cards'[i]]
  BY <1>4, Zenon
<1>7. cards' \in [1..Len(cards) -> Card]
  BY <1>5, <1>6, Zenon
<1>8. cards' \in Seq(Card) /\ Len(cards') = Len(cards)
  BY <1>3, <1>7
<1> QED
  BY <1>2, <1>3, <1>5, <1>8 DEF SameBut, Silent, Grow

\* The card of a group, and what a departure supersedes.
Appends(f, dir) ==
    /\ Grow /\ Len(cards') = Len(cards) + 1
    /\ cards'[Len(cards) + 1] = CatalogCard(f, dir, Dated(f, dir),
                                            {r.ent : r \in Uncarded(f, dir)})
    /\ dir = "removed" =>
         \A i \in 1..Len(cards), e \in cards'[Len(cards) + 1].names :
           i \in Corrected(f, e, Dated(f, dir)) => ~ cards'[i].published

LEMMA GroupWrites ==
    ASSUME TypeOK, NEW f \in Films, NEW dir \in Dirs, CardGroup(f, dir)
    PROVE  \/ /\ UNCHANGED cards
              /\ \/ Uncarded(f, dir) = {}
                 \/ Taken(f, sweep.kind, dir, Dated(f, dir))
           \/ Uncarded(f, dir) # {} /\ Appends(f, dir)
<1> DEFINE kept  == Uncarded(f, dir)
           at    == Dated(f, dir)
           names == {r.ent : r \in kept}
           k     == CatalogCard(f, dir, at, names)
           corrected == IF dir = "removed"
                        THEN UNION {Corrected(f, e, at) : e \in names} ELSE {}
<1>1. cards \in Seq(Card) /\ Len(cards) \in Nat
  BY DEF TypeOK
<1>2. \/ (kept = {} \/ Taken(f, sweep.kind, dir, at)) /\ UNCHANGED cards
      \/ kept # {} /\ cards' = Append(Superseded(corrected), k)
  BY Zenon DEF CardGroup
<1>3. CASE kept # {} /\ cards' = Append(Superseded(corrected), k)
  <2>1. PICK table : table = Superseded(corrected) /\ SameBut(table, corrected)
    BY SupersededCards
  <2>2. k \in Card
    <3>1. kept \subseteq Rows
      BY DEF TypeOK, Uncarded, Group
    <3>2. at \in 0..MaxTime
      BY <1>3, <3>1, DatedByLatest, RowFields
    <3>3. names \in SUBSET Entities
      BY <3>1, RowFields
    <3>4. sweep.kind \in Kinds
      BY DEF TypeOK
    <3> HIDE DEF at, names, kept
    <3> QED
      BY <3>2, <3>3, <3>4 DEF CatalogCard, Card
  <2>3. cards' = Append(table, k)
    BY <1>3, <2>1
  <2> HIDE DEF k, corrected
  <2>4. /\ cards' \in Seq(Card) /\ Len(cards') = Len(cards) + 1
        /\ cards'[Len(cards) + 1] = k /\ \A i \in 1..Len(cards) : cards'[i] = table[i]
    BY <1>1, <2>1, <2>2, <2>3 DEF SameBut
  <2>5. Grow
    BY <1>1, <2>1, <2>4 DEF SameBut, Grow
  <2>6. ASSUME dir = "removed", NEW i \in 1..Len(cards), NEW e \in cards'[Len(cards) + 1].names,
               i \in Corrected(f, e, at)
        PROVE  ~ cards'[i].published
    <3>1. k.names = names
      BY DEF k, CatalogCard
    <3>2. i \in corrected
      BY <2>4, <2>6, <3>1 DEF corrected
    <3> QED
      BY <2>1, <2>4, <3>2 DEF SameBut
  <2>7. Appends(f, dir)
    BY <2>4, <2>5, <2>6 DEF Appends, k
  <2> QED
    BY <1>3, <2>7
<1> QED
  BY <1>2, <1>3
LEMMA Actions ==
    ASSUME TypeOK, [Next]_vars
    PROVE  \/ \E f, new : f \in Films /\ Finds(f, new)
           \/ Tick \/ UNCHANGED vars
           \/ \E f \in Films, kind \in Kinds, dir \in Dirs, confirmed \in BOOLEAN :
                Cluster(f, kind, dir, confirmed)
           \/ \E i \in 1..Len(cards), e \in Entities : Resolve(i, e)
           \/ Start \/ Stamp \/ Read \/ NextPhase \/ Confirm \/ SweepDies
           \/ \E f \in Films, dir \in Dirs : CardGroup(f, dir)
           \/ \E f \in Films, dir \in Dirs : CardFails(f, dir)
<1>1. DOMAIN cards = 1..Len(cards)
  BY DEF TypeOK
<1>2. ASSUME NEW f \in Films, NEW present \in Holdings,
             \/ Observe(f, present)
             \/ \E followed \in SUBSET present, unreleased \in BOOLEAN :
                  Admit(f, present, followed, unreleased)
      PROVE  \E new : Finds(f, new)
  BY <1>2, AdmitFinds, ObserveFinds
<1> QED
  BY <1>1, <1>2, Zenon DEF Next

\* The link run and the confirmation append no card of the catalog; a group appends one.
LEMMA CardsStep ==
    ASSUME TypeOK, [Next]_vars
    PROVE  \/ Silent
           \/ \E f \in Films, dir \in Dirs :
                CardGroup(f, dir) /\ Uncarded(f, dir) # {} /\ Appends(f, dir)
<1>1. CASE \E f, new : f \in Films /\ Finds(f, new)
  BY <1>1, SameCards, Zenon DEF Finds
<1>2. CASE Tick \/ UNCHANGED vars \/ Start \/ Stamp \/ Read \/ NextPhase \/ SweepDies
  <2>1. UNCHANGED cards
    BY <1>2 DEF Tick, vars, tables, Start, Stamp, Read, NextPhase, SweepDies
  <2> QED
    BY <2>1, SameCards
<1>3. CASE \E f \in Films, kind \in Kinds, dir \in Dirs, confirmed \in BOOLEAN :
             Cluster(f, kind, dir, confirmed)
  BY <1>3, ClusterWrites, Zenon
<1>4. CASE \E i \in 1..Len(cards), e \in Entities : Resolve(i, e)
  BY <1>4, ResolveWrites, Zenon
<1>5. CASE Confirm
  BY <1>5, ConfirmWrites, Zenon
<1>6. CASE \E f \in Films, dir \in Dirs : CardGroup(f, dir)
  BY <1>6, GroupWrites, SameCards, Zenon
<1>7. CASE \E f \in Films, dir \in Dirs : CardFails(f, dir)
  <2>1. UNCHANGED cards
    BY <1>7 DEF CardFails, tables
  <2> QED
    BY <2>1, SameCards
<1> QED
  BY <1>1, <1>2, <1>3, <1>4, <1>5, <1>6, <1>7, Actions, Zenon

\* A pass between two steps; the rest of TypeOK.
PassType(pass, all) ==
    pass \in [pc : {"idle", "stamp", "read", "card", "confirm"}, at : 0..MaxTime,
              kind : Kinds, todo : SUBSET all, undone : SUBSET all, clean : BOOLEAN]

TypesBut(all) ==
    /\ clock' \in 0..MaxTime /\ known' \subseteq Films
    /\ live' \subseteq known' \X Entities
    /\ \A f \in Films : Cardinality({c \in Collections : <<f, c>> \in live'}) <= 1
    /\ rows' \subseteq Rows /\ rows' = all
    /\ stories' \in 0..MaxStories /\ faults' \in 0..MaxFaults

LEMMA TypeNext ==
    ASSUME TypeOK, [Next]_vars
    PROVE  TypeOK'
<1>0. /\ clock \in 0..MaxTime /\ known \subseteq Films /\ live \subseteq known \X Entities
      /\ \A f \in Films : Cardinality({c \in Collections : <<f, c>> \in live}) <= 1
      /\ rows \subseteq Rows /\ cards \in Seq(Card) /\ Len(cards) \in Nat
      /\ DOMAIN stamp \subseteq rows /\ \A r \in DOMAIN stamp : stamp[r] \in 1..Len(cards)
      /\ PassType(sweep, rows)
      /\ stories \in 0..MaxStories /\ faults \in 0..MaxFaults
  BY DEF TypeOK, PassType
<1>1. cards' \in Seq(Card) /\ Len(cards') \in Nat /\ Len(cards) <= Len(cards')
  <2>1. Grow
    BY CardsStep DEF Silent, Appends
  <2> QED
    BY <2>1 DEF Grow
<1>2. ASSUME rows \subseteq rows', stamp' = stamp, TypesBut(rows'), PassType(sweep', rows')
      PROVE  TypeOK'
  BY <1>0, <1>1, <1>2 DEF TypeOK, TypesBut, PassType
<1>3. ASSUME UNCHANGED <<clock, known, live, rows>>,
             stories' \in 0..MaxStories, faults' \in 0..MaxFaults
      PROVE  TypesBut(rows') /\ rows \subseteq rows'
  BY <1>0, <1>3 DEF TypesBut
<1>4. CASE \E f, new : f \in Films /\ Finds(f, new)
  <2>1. PICK f, new : f \in Films /\ Finds(f, new)
    BY <1>4
  <2>2. rows \subseteq rows' /\ stamp' = stamp /\ sweep' = sweep /\ known' \subseteq Films
    BY <1>0, <2>1 DEF Finds
  <2>3. TypesBut(rows')
    BY <1>0, <2>1 DEF Finds, TypesBut
  <2>4. PassType(sweep', rows')
    BY <1>0, <2>2 DEF PassType
  <2> QED
    BY <1>2, <2>2, <2>3, <2>4
<1>5. CASE Tick \/ UNCHANGED vars
  <2>1. rows' = rows /\ stamp' = stamp /\ sweep' = sweep
    BY <1>5 DEF Tick, vars, tables
  <2>2. TypesBut(rows')
    <3>1. clock' \in 0..MaxTime
      BY <1>0, <1>5, OrganisationsAssumption DEF Tick, vars
    <3>2. UNCHANGED <<known, live, rows, stories, faults>>
      BY <1>5 DEF Tick, vars, tables
    <3> QED
      BY <1>0, <3>1, <3>2 DEF TypesBut
  <2> QED
    BY <1>0, <1>2, <2>1, <2>2
<1>6. CASE \/ \E f \in Films, kind \in Kinds, dir \in Dirs, confirmed \in BOOLEAN :
                Cluster(f, kind, dir, confirmed)
           \/ \E i \in 1..Len(cards), e \in Entities : Resolve(i, e)
  <2>1. UNCHANGED <<clock, known, live, rows, stamp, sweep, faults>>
    BY <1>6 DEF Cluster, Resolve
  <2>2. stories' \in 0..MaxStories
    <3>1. stories' = stories \/ (stories < MaxStories /\ stories' = stories + 1)
      BY <1>6, Zenon DEF Cluster, Resolve
    <3> QED
      BY <1>0, <3>1, OrganisationsAssumption
  <2> QED
    BY <1>0, <1>2, <1>3, <2>1, <2>2
<1>7. CASE Start \/ Read \/ NextPhase \/ Confirm
  <2>1. UNCHANGED <<clock, known, live, rows, stamp, stories, faults>>
    BY <1>7 DEF Start, Read, NextPhase, Confirm, tables
  <2>2. PassType(sweep', rows)
    <3>1. CASE Start
      BY <1>0, <3>1 DEF Start, PassType, Idle, Kinds
    <3>2. CASE Read
      <4>1. Eligible \subseteq rows
        BY DEF Eligible, Backlog, Phase
      <4> HIDE DEF Eligible
      <4>2. {r \in Eligible : Undoes(r)} \subseteq rows
        BY <4>1
      <4> QED
        BY <1>0, <3>2, <4>1, <4>2 DEF Read, PassType
    <3>3. CASE NextPhase
      BY <1>0, <3>3 DEF NextPhase, PassType, Kinds
    <3>4. CASE Confirm
      BY <1>0, <3>4, OrganisationsAssumption DEF Confirm, PassType, Idle, Kinds
    <3> QED
      BY <1>7, <3>1, <3>2, <3>3, <3>4
  <2> QED
    BY <1>0, <1>2, <1>3, <2>1, <2>2
<1>8. CASE SweepDies \/ \E f \in Films, dir \in Dirs : CardFails(f, dir)
  <2>1. UNCHANGED <<clock, known, live, rows, stamp, stories>>
    BY <1>8 DEF SweepDies, CardFails, tables
  <2>2. faults' \in 0..MaxFaults
    <3>1. faults < MaxFaults /\ faults' = faults + 1
      BY <1>8, Zenon DEF SweepDies, CardFails
    <3> QED
      BY <1>0, <3>1, OrganisationsAssumption
  <2>3. PassType(sweep', rows)
    <3>1. CASE SweepDies
      BY <1>0, <3>1, OrganisationsAssumption DEF SweepDies, PassType, Idle, Kinds
    <3>2. CASE \E f \in Films, dir \in Dirs : CardFails(f, dir)
      <4>1. PICK f \in Films, dir \in Dirs : CardFails(f, dir)
        BY <3>2
      <4>2. PICK g : g = Group(f, dir)
        OBVIOUS
      <4> QED
        BY <1>0, <4>1, <4>2 DEF CardFails, PassType
    <3> QED
      BY <1>8, <3>1, <3>2
  <2> QED
    BY <1>0, <1>2, <1>3, <2>1, <2>2, <2>3
<1>9. CASE \E f \in Films, dir \in Dirs : CardGroup(f, dir)
  <2>1. UNCHANGED <<clock, known, live, rows, stamp, stories, faults>>
    BY <1>9 DEF CardGroup
  <2>2. PassType(sweep', rows)
    <3>1. PICK f \in Films, dir \in Dirs : CardGroup(f, dir)
      BY <1>9
    <3>2. PICK g : sweep' = [sweep EXCEPT !.todo = @ \ g, !.undone = @ \ g]
      BY <3>1 DEF CardGroup
    <3> QED
      BY <1>0, <3>2 DEF PassType
  <2> QED
    BY <1>0, <1>2, <1>3, <2>1, <2>2
<1>10. CASE Stamp
  <2>1. UNCHANGED <<clock, known, live, rows, cards, stories, faults>>
    BY <1>10 DEF Stamp
  <2>2. PassType(sweep', rows)
    BY <1>0, <1>10 DEF Stamp, PassType
  <2>3. DOMAIN stamp' \subseteq rows /\ \A r \in DOMAIN stamp' : stamp'[r] \in 1..Len(cards)
    <3>1. PICK told \in SUBSET Pending : \E by \in [told -> DOMAIN cards] :
            stamp' = [r \in DOMAIN stamp \cup told |->
                        IF r \in told THEN by[r] ELSE stamp[r]]
      BY <1>10 DEF Stamp
    <3>2. told \subseteq rows
      BY <3>1 DEF Pending, Phase
    <3>3. DOMAIN cards = 1..Len(cards)
      BY <1>0
    <3> QED
      BY <1>0, <3>1, <3>2, <3>3
  <2>4. TypesBut(rows')
    BY <1>0, <1>3, <2>1
  <2> QED
    BY <1>0, <1>1, <2>1, <2>2, <2>3, <2>4 DEF TypeOK, TypesBut, PassType
<1> QED
  BY <1>4, <1>5, <1>6, <1>7, <1>8, <1>9, <1>10, Actions, Zenon

-----------------------------------------------------------------------------
(***************************************************************************)
(* The history and the catalog.                                            *)
(***************************************************************************)

\* Everything but an observation leaves the history alone.
LEMMA History ==
    ASSUME TypeOK, [Next]_vars
    PROVE  \/ \E f, new : f \in Films /\ Finds(f, new)
           \/ UNCHANGED <<known, live, rows>> /\ (clock' = clock \/ clock' = clock + 1)
<1>1. CASE Tick \/ UNCHANGED vars
  BY <1>1 DEF Tick, vars, tables
<1>2. CASE \E f \in Films, kind \in Kinds, dir \in Dirs, confirmed \in BOOLEAN :
             Cluster(f, kind, dir, confirmed)
  BY <1>2, Zenon DEF Cluster
<1>3. CASE \E i \in 1..Len(cards), e \in Entities : Resolve(i, e)
  BY <1>3, Zenon DEF Resolve
<1>4. CASE Start \/ Stamp \/ Read \/ NextPhase \/ Confirm \/ SweepDies
  BY <1>4, Zenon DEF Start, Stamp, Read, NextPhase, Confirm, SweepDies, tables
<1>5. CASE \E f \in Films, dir \in Dirs : CardGroup(f, dir)
  BY <1>5, Zenon DEF CardGroup
<1>6. CASE \E f \in Films, dir \in Dirs : CardFails(f, dir)
  BY <1>6, Zenon DEF CardFails, tables
<1> QED
  BY <1>1, <1>2, <1>3, <1>4, <1>5, <1>6, Actions, Zenon

\* A pass that goes on keeps its day, and its end is another start.
LEMMA PassDay ==
    ASSUME TypeOK, Days, [Next]_vars
    PROVE  sweep'.at <= clock' /\ (sweep'.at = sweep.at \/ sweep'.at \in {0, clock})
<1>1. clock \in Nat /\ sweep.at \in Nat /\ sweep.at <= clock /\ (clock' = clock \/ clock' = clock + 1)
  BY OrganisationsAssumption, History DEF TypeOK, Days, Finds
<1>2. sweep'.at = sweep.at \/ sweep'.at \in {0, clock}
  <2>1. CASE \E f, new : f \in Films /\ Finds(f, new)
    BY <2>1, Zenon DEF Finds
  <2>2. CASE Tick \/ UNCHANGED vars
    BY <2>2 DEF Tick, vars
  <2>3. CASE \E f \in Films, kind \in Kinds, dir \in Dirs, confirmed \in BOOLEAN :
               Cluster(f, kind, dir, confirmed)
    BY <2>3, Zenon DEF Cluster
  <2>4. CASE \E i \in 1..Len(cards), e \in Entities : Resolve(i, e)
    BY <2>4, Zenon DEF Resolve
  <2>5. CASE Start
    BY <2>5 DEF Start, Idle
  <2>6. CASE Confirm \/ SweepDies
    BY <2>6 DEF Confirm, SweepDies, Idle
  <2>7. CASE Stamp \/ Read \/ NextPhase
    BY <2>7 DEF Stamp, Read, NextPhase, TypeOK
  <2>8. CASE \E f \in Films, dir \in Dirs : CardGroup(f, dir)
    <3>1. PICK g : sweep' = [sweep EXCEPT !.todo = @ \ g, !.undone = @ \ g]
      BY <2>8 DEF CardGroup
    <3> QED
      BY <3>1 DEF TypeOK
  <2>9. CASE \E f \in Films, dir \in Dirs : CardFails(f, dir)
    <3>1. PICK g : sweep' = [sweep EXCEPT !.todo = @ \ g, !.undone = @ \ g, !.clean = FALSE]
      BY <2>9 DEF CardFails
    <3> QED
      BY <3>1 DEF TypeOK
  <2> QED
    BY <2>1, <2>2, <2>3, <2>4, <2>5, <2>6, <2>7, <2>8, <2>9, Actions, Zenon
<1> QED
  BY <1>1, <1>2

LEMMA DaysNext ==
    ASSUME TypeOK, Days, [Next]_vars
    PROVE  Days'
<1>1. clock \in Nat /\ \A r \in rows : r.at \in Nat
  BY RowFields, OrganisationsAssumption DEF TypeOK
<1>2. CASE \E f, new : f \in Films /\ Finds(f, new)
  <2>1. PICK f, new : f \in Films /\ Finds(f, new)
    BY <1>2
  <2>2. \A r \in rows' : r.at <= clock' /\ r.film \in known'
    BY <1>1, <2>1 DEF Finds, Days
  <2> QED
    BY <2>2, PassDay DEF Days
<1>3. CASE UNCHANGED <<known, live, rows>> /\ (clock' = clock \/ clock' = clock + 1)
  BY <1>1, <1>3, PassDay DEF Days
<1> QED
  BY <1>2, <1>3, History

\* The last change is another one only on the day of an observation that found it.
LEMMA FinalFinds ==
    ASSUME TypeOK, Days, NEW f \in Films, NEW new, Finds(f, new), NEW r \in Final'
    PROVE  \/ r \in Final /\ \A u \in new : ~ (u.film = r.film /\ u.ent = r.ent)
           \/ r \in new
<1>1. r \in rows \cup new /\ \A u \in rows \cup new : u.film = r.film /\ u.ent = r.ent => u.at <= r.at
  BY DEF Final, Finds
<1>2. CASE r \in rows
  <2>1. r \in Final
    BY <1>1, <1>2 DEF Final
  <2>2. ASSUME NEW u \in new, u.film = r.film, u.ent = r.ent
        PROVE  FALSE
    <3>1. u.at = clock /\ u.film = f /\ u.at <= r.at
      BY <1>1, <2>2 DEF Finds
    <3>2. r.at <= clock /\ r.film \in known /\ r.at \in Nat /\ clock \in Nat
      BY <1>2, RowFields, OrganisationsAssumption DEF Days, TypeOK
    <3>3. r.at # clock
      BY <1>2, <2>2, <3>1, <3>2 DEF Finds
    <3> QED
      BY <3>1, <3>2, <3>3
  <2> QED
    BY <2>1, <2>2
<1> QED
  BY <1>1, <1>2

LEMMA OneADayNext ==
    ASSUME TypeOK, Days, OneADay, [Next]_vars
    PROVE  OneADay'
<1>1. CASE \E f, new : f \in Films /\ Finds(f, new)
  <2>1. PICK f, new : f \in Films /\ Finds(f, new)
    BY <1>1
  <2>2. ASSUME NEW r \in rows, NEW u \in new, r.film = u.film
        PROVE  r.at # u.at
    <3>1. r.film = f /\ f \in known /\ u.at = clock
      BY <2>1, <2>2 DEF Finds, Days
    <3> QED
      BY <2>1, <3>1 DEF Finds
  <2>3. \A r, u \in new : r.ent = u.ent => r = u
    BY <2>1 DEF Finds
  <2>4. rows' = rows \cup new
    BY <2>1 DEF Finds
  <2> QED
    BY <2>2, <2>3, <2>4 DEF OneADay
<1>2. CASE UNCHANGED rows
  BY <1>2 DEF OneADay
<1> QED
  BY <1>1, <1>2, History

LEMMA LiveIsLastNext ==
    ASSUME TypeOK, Days, LiveIsLast, [Next]_vars
    PROVE  LiveIsLast'
<1>1. CASE \E f, new : f \in Films /\ Finds(f, new)
  <2>1. PICK f, new : f \in Films /\ Finds(f, new)
    BY <1>1
  <2>2. ASSUME NEW r \in Final'
        PROVE  Agrees(r)'
    <3>1. CASE r \in new
      BY <2>1, <3>1 DEF Finds
    <3>2. CASE r \in Final /\ \A u \in new : ~ (u.film = r.film /\ u.ent = r.ent)
      <4>1. r.film \in known /\ r.film \in Films /\ r.ent \in Entities
        BY <3>2, RowFields DEF Final, Days, TypeOK
      <4>2. <<r.film, r.ent>> \in live' <=> <<r.film, r.ent>> \in live
        BY <2>1, <3>2, <4>1 DEF Finds
      <4> QED
        BY <3>2, <4>2 DEF LiveIsLast, Agrees
    <3> QED
      BY <2>1, <3>1, <3>2, FinalFinds
  <2> QED
    BY <2>2 DEF LiveIsLast
<1>2. CASE UNCHANGED <<known, live, rows>>
  BY <1>2 DEF LiveIsLast, Final, Agrees
<1> QED
  BY <1>1, <1>2, History
-----------------------------------------------------------------------------
(***************************************************************************)
(* A pass, and the cards it leaves.                                        *)
(***************************************************************************)

\* What the pass reads to card agrees with TMDB, and so with the last change.
LEMMA ReadsTheLast ==
    ASSUME TypeOK, LiveIsLast, NEW r \in Eligible, NEW u \in Final,
           u.film = r.film, u.ent = r.ent
    PROVE  u.dir = r.dir
<1>1. Agrees(r) /\ Agrees(u)
  BY DEF Eligible, Outlived, LiveIsLast
<1>2. r.dir \in Dirs /\ u.dir \in Dirs
  BY RowFields DEF Eligible, Backlog, Phase, Final, TypeOK
<1> QED
  BY <1>1, <1>2 DEF Agrees, Dirs

LEMMA PassNext ==
    ASSUME TypeOK, Days, LiveIsLast, Pass, [Next]_vars
    PROVE  Pass'
<1>0. /\ clock \in Nat /\ sweep.at \in Nat /\ sweep.at <= clock
      /\ sweep.todo \subseteq rows /\ sweep.undone \subseteq rows
  BY OrganisationsAssumption DEF TypeOK, Days
<1>1. ASSUME rows' = rows, sweep'.todo = {}, sweep'.undone = {},
             sweep'.pc = "confirm" => sweep'.kind = "collection"
      PROVE  Pass'
  BY <1>1 DEF Pass
<1>2. CASE \E f, new : f \in Films /\ Finds(f, new)
  <2>1. PICK f, new : f \in Films /\ Finds(f, new)
    BY <1>2
  <2>2. rows' = rows \cup new /\ sweep' = sweep /\ stamp' = stamp
    BY <2>1 DEF Finds
  <2>3. \A r \in sweep.undone : \E u \in rows' : Follows(r, u)
    BY <2>2 DEF Pass
  <2>4. ASSUME NEW r \in sweep.todo, NEW u \in Final', u.film = r.film, u.ent = r.ent
        PROVE  u.dir = r.dir \/ sweep.at <= u.at
    <3>1. u \in Final \/ u \in new
      BY <2>1, FinalFinds
    <3>2. u \in new => u.at = clock
      BY <2>1 DEF Finds
    <3> QED
      BY <1>0, <2>4, <3>1, <3>2 DEF Pass
  <2> QED
    BY <2>2, <2>3, <2>4 DEF Pass, Follows
<1>3. ASSUME UNCHANGED <<rows, sweep, stamp>>
      PROVE  Pass'
  BY <1>3 DEF Pass, Final, Follows
<1>4. CASE Start \/ Confirm \/ SweepDies
  <2>1. rows' = rows
    BY <1>4, Zenon DEF Start, Confirm, SweepDies, tables
  <2>2. sweep' = Idle \/ sweep' = [Idle EXCEPT !.pc = "stamp", !.at = clock]
    BY <1>4, Zenon DEF Start, Confirm, SweepDies
  <2>3. /\ sweep'.todo = {} /\ sweep'.undone = {}
        /\ sweep'.pc = "idle" \/ sweep'.pc = "stamp"
    <3>1. /\ Idle.todo = {} /\ Idle.undone = {} /\ Idle.pc = "idle"
          /\ [Idle EXCEPT !.pc = "stamp", !.at = clock].todo = {}
          /\ [Idle EXCEPT !.pc = "stamp", !.at = clock].undone = {}
          /\ [Idle EXCEPT !.pc = "stamp", !.at = clock].pc = "stamp"
      BY DEF Idle
    <3> QED
      BY <2>2, <3>1, Zenon
  <2> QED
    BY <1>1, <2>1, <2>3
<1>5. CASE Stamp \/ NextPhase
  <2>1. sweep.todo = {} /\ sweep.undone = {}
    BY <1>5 DEF Stamp, NextPhase, Pass
  <2>2. sweep'.todo = {} /\ sweep'.undone = {} /\ rows' = rows
    BY <1>5, <2>1 DEF Stamp, NextPhase, TypeOK, tables
  <2>3. sweep'.pc = "confirm" => sweep'.kind = "collection"
    BY <1>5 DEF Stamp, NextPhase, TypeOK, Kinds
  <2> QED
    BY <1>1, <2>2, <2>3
<1>6. CASE Read
  <2>1. /\ sweep' = [sweep EXCEPT !.pc = "card", !.todo = Eligible,
                                  !.undone = {r \in Eligible : Undoes(r)}]
        /\ rows' = rows /\ stamp' = stamp
    BY <1>6 DEF Read, tables
  <2>2. PICK todo, undone : todo = Eligible /\ undone = {r \in Eligible : Undoes(r)}
    OBVIOUS
  <2>3. /\ sweep'.pc = "card" /\ sweep'.todo = todo /\ sweep'.undone = undone
        /\ sweep'.kind = sweep.kind /\ sweep'.at = sweep.at
    BY <2>1, <2>2 DEF TypeOK
  <2>4. \A r \in undone : \E u \in rows : Follows(r, u)
    BY <2>2 DEF Undoes, AttachedInWindow, RevertedInWindow, Backlog, Phase
  <2>5. \A r \in todo : /\ KindOf(r.ent) = sweep.kind /\ r \notin DOMAIN stamp
                        /\ r.at + Quarantine <= sweep.at
    BY <2>2 DEF Eligible, Backlog, Phase, Outlived
  <2>6. \A r \in todo, u \in Final : u.film = r.film /\ u.ent = r.ent => u.dir = r.dir
    BY <2>2, ReadsTheLast
  <2>7. Final' = Final /\ undone \subseteq todo
    BY <2>1, <2>2 DEF Final
  <2> QED
    BY <2>1, <2>3, <2>4, <2>5, <2>6, <2>7 DEF Pass, Follows
<1>7. CASE \/ \E f \in Films, dir \in Dirs : CardGroup(f, dir)
           \/ \E f \in Films, dir \in Dirs : CardFails(f, dir)
  <2>1. PICK g, clean : sweep' = [sweep EXCEPT !.todo = @ \ g, !.undone = @ \ g, !.clean = clean]
    <3>1. CASE \E f \in Films, dir \in Dirs : CardGroup(f, dir)
      <4>1. PICK g : sweep' = [sweep EXCEPT !.todo = @ \ g, !.undone = @ \ g]
        BY <3>1 DEF CardGroup
      <4>2. sweep' = [sweep EXCEPT !.todo = @ \ g, !.undone = @ \ g, !.clean = sweep.clean]
        BY <4>1 DEF TypeOK
      <4> QED
        BY <4>2
    <3>2. CASE \E f \in Films, dir \in Dirs : CardFails(f, dir)
      BY <3>2 DEF CardFails
    <3> QED
      BY <1>7, <3>1, <3>2
  <2>2. rows' = rows /\ stamp' = stamp /\ sweep.pc = "card"
    BY <1>7, Zenon DEF CardGroup, CardFails, tables
  <2>3. /\ sweep'.pc = sweep.pc /\ sweep'.kind = sweep.kind /\ sweep'.at = sweep.at
        /\ sweep'.todo = sweep.todo \ g /\ sweep'.undone = sweep.undone \ g
    BY <2>1 DEF TypeOK
  <2>4. Final' = Final
    BY <2>2 DEF Final
  <2> QED
    BY <2>2, <2>3, <2>4 DEF Pass, Follows
<1>8. CASE \/ Tick \/ UNCHANGED vars
           \/ \E f \in Films, kind \in Kinds, dir \in Dirs, confirmed \in BOOLEAN :
                Cluster(f, kind, dir, confirmed)
           \/ \E i \in 1..Len(cards), e \in Entities : Resolve(i, e)
  <2>1. UNCHANGED <<rows, sweep, stamp>>
    BY <1>8, Zenon DEF Tick, vars, tables, Cluster, Resolve
  <2> QED
    BY <1>3, <2>1
<1> QED
  BY <1>2, <1>4, <1>5, <1>6, <1>7, <1>8, Actions, Zenon

\* A group's card is older than the quarantine, and than what contradicts it.
LEMMA CardRests ==
    ASSUME TypeOK, Days, Pass, NEW f \in Films, NEW dir \in Dirs, Uncarded(f, dir) # {},
           NEW u \in Uncarded(f, dir)
    PROVE  /\ Dated(f, dir) \in Nat /\ Dated(f, dir) + Quarantine <= sweep.at
           /\ u \in sweep.todo /\ u.film = f /\ u.dir = dir /\ KindOf(u.ent) = sweep.kind
           /\ u.at <= Dated(f, dir)
           /\ \A r \in Final : r.film = f /\ r.ent = u.ent
                                 => r.dir = dir \/ Dated(f, dir) < r.at
<1>1. \A r \in Uncarded(f, dir) : r \in sweep.todo /\ r.film = f /\ r.dir = dir
  BY DEF Uncarded, Group
<1>2. PICK r \in Uncarded(f, dir) : Dated(f, dir) = r.at
  BY DatedByLatest
<1>3. r \in Rows /\ r.at \in Nat /\ r.at + Quarantine <= sweep.at
  BY <1>1, RowFields DEF TypeOK, Pass
<1>4. u.at <= Dated(f, dir)
  BY DatedByLatest
<1>5. ASSUME NEW v \in Final, v.film = f, v.ent = u.ent
      PROVE  v.dir = dir \/ Dated(f, dir) < v.at
  <2>1. v.dir = dir \/ sweep.at <= v.at
    BY <1>1, <1>5 DEF Pass
  <2>2. v.at \in Nat /\ sweep.at \in Nat /\ Quarantine \in Nat \ {0}
    BY RowFields, OrganisationsAssumption DEF Final, TypeOK
  <2> QED
    BY <1>2, <1>3, <2>1, <2>2
<1> QED
  BY <1>1, <1>2, <1>3, <1>4, <1>5 DEF Pass

LEMMA CardsNext ==
    ASSUME TypeOK, Days, Pass, Cards, [Next]_vars
    PROVE  Cards'
<1>0. clock \in Nat /\ clock' \in Nat /\ clock <= clock' /\ Quarantine \in Nat \ {0}
  BY History, OrganisationsAssumption DEF TypeOK, Finds
<1>1. ASSUME Grow, NEW i \in 1..Len(cards), NEW e \in cards'[i].names
      PROVE  /\ cards'[i].by = "catalog" /\ cards'[i].kind = KindOf(e)
             /\ cards'[i].at + Quarantine <= clock'
             /\ \A r \in Final' : r.film = cards'[i].film /\ r.ent = e
                                    => r.dir = cards'[i].dir \/ cards'[i].at < r.at
  <2>1. /\ e \in cards[i].names /\ cards'[i].by = cards[i].by /\ cards'[i].kind = cards[i].kind
        /\ cards'[i].at = cards[i].at /\ cards'[i].film = cards[i].film
        /\ cards'[i].dir = cards[i].dir
    BY <1>1 DEF Grow
  <2>2. /\ cards[i].by = "catalog" /\ cards[i].kind = KindOf(e)
        /\ cards[i].at + Quarantine <= clock
        /\ \A r \in Final : r.film = cards[i].film /\ r.ent = e
                              => r.dir = cards[i].dir \/ cards[i].at < r.at
    BY <2>1 DEF Cards
  <2>3. cards[i].at \in Nat
    BY CardFields
  <2>4. ASSUME NEW r \in Final'
        PROVE  r \in Final \/ cards[i].at < r.at
    <3>1. CASE \E f, new : f \in Films /\ Finds(f, new)
      <4>1. PICK f, new : f \in Films /\ Finds(f, new)
        BY <3>1
      <4>2. r \in Final \/ r.at = clock
        BY <4>1, FinalFinds DEF Finds
      <4> QED
        BY <1>0, <2>2, <2>3, <4>2
    <3>2. CASE UNCHANGED rows
      BY <3>2 DEF Final
    <3> QED
      BY <3>1, <3>2, History
  <2> QED
    BY <1>0, <2>1, <2>2, <2>3, <2>4
<1>2. CASE Silent
  <2>1. ASSUME NEW i \in 1..Len(cards'), NEW e \in cards'[i].names
        PROVE  i \in 1..Len(cards)
    <3>1. Len(cards) \in Nat /\ Len(cards') \in Nat
      BY <1>2 DEF TypeOK, Silent, Grow
    <3> QED
      BY <1>2, <2>1, <3>1 DEF Silent
  <2> QED
    BY <1>1, <1>2, <2>1 DEF Cards, Silent
<1>3. ASSUME NEW f \in Films, NEW dir \in Dirs, CardGroup(f, dir),
             Uncarded(f, dir) # {}, Appends(f, dir)
      PROVE  Cards'
  <2>1. PICK k : k = Len(cards) + 1
    OBVIOUS
  <2>2. /\ Grow /\ Len(cards) \in Nat /\ Len(cards') = k
        /\ cards'[k] = CatalogCard(f, dir, Dated(f, dir), {r.ent : r \in Uncarded(f, dir)})
    BY <1>3, <2>1 DEF Appends, TypeOK
  <2>3. /\ cards'[k].by = "catalog" /\ cards'[k].kind = sweep.kind /\ cards'[k].film = f
        /\ cards'[k].at = Dated(f, dir) /\ cards'[k].dir = dir
        /\ cards'[k].names = {r.ent : r \in Uncarded(f, dir)}
    BY <2>2 DEF CatalogCard
  <2>4. ASSUME NEW e \in cards'[k].names
        PROVE  /\ cards'[k].by = "catalog" /\ cards'[k].kind = KindOf(e)
               /\ cards'[k].at + Quarantine <= clock'
               /\ \A r \in Final' : r.film = cards'[k].film /\ r.ent = e
                                      => r.dir = cards'[k].dir \/ cards'[k].at < r.at
    <3>1. PICK u \in Uncarded(f, dir) : u.ent = e
      BY <2>3
    <3>2. Final' = Final /\ clock' = clock /\ sweep.at <= clock /\ sweep.at \in Nat
      BY <1>3, OrganisationsAssumption DEF CardGroup, Final, Days, TypeOK
    <3>3. /\ Dated(f, dir) \in Nat /\ Dated(f, dir) + Quarantine <= sweep.at
          /\ KindOf(e) = sweep.kind
          /\ \A r \in Final : r.film = f /\ r.ent = e => r.dir = dir \/ Dated(f, dir) < r.at
      BY <1>3, <3>1, CardRests
    <3> QED
      BY <1>0, <2>3, <3>2, <3>3
  <2>5. \A i \in 1..Len(cards') : i \in 1..Len(cards) \/ i = k
    BY <2>1, <2>2
  <2> QED
    BY <1>1, <2>2, <2>4, <2>5 DEF Cards
<1> QED
  BY <1>2, <1>3, CardsStep
-----------------------------------------------------------------------------
(***************************************************************************)
(* What a pass owes.                                                       *)
(***************************************************************************)

\* A card that names the organisation and is no older than its last change says that change:
\* whatever says otherwise is older.
LEMMA SaysIt ==
    TypeOK /\ Cards =>
      \A r \in Final, i \in 1..Len(cards) :
        cards[i].film = r.film /\ r.ent \in cards[i].names /\ r.at <= cards[i].at
          => SaidAlready(r)
<1> SUFFICES ASSUME TypeOK, Cards, NEW r \in Final, NEW i \in 1..Len(cards),
                    cards[i].film = r.film, r.ent \in cards[i].names, r.at <= cards[i].at
             PROVE  SaidAlready(r)
  OBVIOUS
<1> DEFINE I == {j \in 1..Len(cards) : cards[j].film = r.film /\ r.ent \in cards[j].names}
<1>1. LastTold(r.film, r.ent) = Newest(I)
  <2>1. DOMAIN cards = 1..Len(cards)
    BY DEF TypeOK
  <2> QED
    BY <2>1 DEF LastTold
<1>2. i \in I
  OBVIOUS
<1>3. PICK j \in Newest(I) : TRUE
  BY <1>2, HasNewest
<1>4. j \in I /\ NoOlder(j, i)
  BY <1>2, <1>3 DEF Newest
<1>5. cards[j].at \in Nat /\ cards[i].at \in Nat /\ r.at \in Nat
  BY <1>4, CardFields, RowFields DEF Final, TypeOK
<1>6. cards[i].at <= cards[j].at
  BY <1>4, <1>5 DEF NoOlder
<1>7. r.dir = cards[j].dir
  BY <1>4, <1>5, <1>6 DEF Cards
<1> QED
  BY <1>1, <1>3, <1>7 DEF SaidAlready

\* The same after the step.
LEMMA SaysItThen ==
    TypeOK' /\ Cards' =>
      (\A r \in Final, i \in 1..Len(cards) :
         cards[i].film = r.film /\ r.ent \in cards[i].names /\ r.at <= cards[i].at
           => SaidAlready(r))'
BY SaysIt, PTL

\* Cards about others change nothing.
LEMMA SameNews ==
    ASSUME TypeOK, Grow, NEW f, NEW e,
           \A i \in (Len(cards) + 1)..Len(cards') :
             ~ (cards'[i].film = f /\ e \in cards'[i].names)
    PROVE  /\ LastTold(f, e)' = LastTold(f, e)
           /\ \A i \in LastTold(f, e) : cards'[i].dir = cards[i].dir
<1> DEFINE I == {i \in 1..Len(cards) : cards[i].film = f /\ e \in cards[i].names}
           J == {i \in 1..Len(cards') : cards'[i].film = f /\ e \in cards'[i].names}
<1>1. Len(cards) \in Nat /\ Len(cards') \in Nat /\ DOMAIN cards' = 1..Len(cards')
      /\ DOMAIN cards = 1..Len(cards) /\ Len(cards) <= Len(cards')
  BY DEF TypeOK, Grow
<1>2. I = J
  <2>1. \A i \in 1..Len(cards') : i \in 1..Len(cards) \/ i \in (Len(cards) + 1)..Len(cards')
    BY <1>1
  <2>2. \A i \in 1..Len(cards) : i \in 1..Len(cards')
    BY <1>1
  <2> QED
    BY <2>1, <2>2 DEF Grow
<1>3. LastTold(f, e) = {i \in I : \A j \in I : NoOlder(i, j)}
  BY <1>1 DEF LastTold, Newest
<1>4. LastTold(f, e)' = {i \in J : \A j \in J : NoOlder(i, j)'}
  BY <1>1 DEF LastTold, Newest
<1>5. \A i, j \in I : NoOlder(i, j)' <=> NoOlder(i, j)
  BY DEF NoOlder, Grow
<1> HIDE DEF I, J
<1>6. LastTold(f, e)' = LastTold(f, e)
  BY <1>2, <1>3, <1>4, <1>5
<1>7. \A i \in LastTold(f, e) : i \in 1..Len(cards)
  BY <1>3 DEF I
<1> QED
  BY <1>6, <1>7 DEF Grow

LEMMA ToldStays ==
    ASSUME TypeOK, Grow, rows \subseteq rows', NEW r, Told(r),
           \A i \in (Len(cards) + 1)..Len(cards') :
             ~ (cards'[i].film = r.film /\ r.ent \in cards'[i].names)
    PROVE  Told(r)'
<1>1. /\ LastTold(r.film, r.ent)' = LastTold(r.film, r.ent)
      /\ \A i \in LastTold(r.film, r.ent) : cards'[i].dir = cards[i].dir
  BY SameNews
<1> QED
  BY <1>1 DEF Told, SaidAlready, Follows

LEMMA TakenStays ==
    ASSUME TypeOK, Grow, NEW r, DateTaken(r)
    PROVE  DateTaken(r)'
<1>1. PICK i \in DOMAIN cards :
        /\ cards[i].by = "catalog" /\ cards[i].film = r.film /\ cards[i].kind = KindOf(r.ent)
        /\ cards[i].dir = r.dir /\ cards[i].at >= r.at /\ r.ent \notin cards[i].names
  BY DEF DateTaken
<1>2. i \in 1..Len(cards) /\ i \in DOMAIN cards'
  BY DEF TypeOK, Grow
<1> QED
  BY <1>1, <1>2 DEF Grow, DateTaken

LEMMA SilentStays ==
    ASSUME TypeOK, Silent, rows \subseteq rows', NEW r, Told(r) \/ DateTaken(r)
    PROVE  Told(r)' \/ DateTaken(r)'
<1>1. \A i \in (Len(cards) + 1)..Len(cards') :
        ~ (cards'[i].film = r.film /\ r.ent \in cards'[i].names)
  BY DEF Silent
<1> QED
  BY <1>1, ToldStays, TakenStays DEF Silent
\* The steps that leave a pass where it was, but for what it has not read yet.
LEMMA OwedStays ==
    ASSUME TypeOK, Owed, Silent, UNCHANGED <<rows, live>>, DOMAIN stamp \subseteq DOMAIN stamp',
           sweep'.at = sweep.at, sweep'.clean => sweep.clean, sweep.todo \subseteq sweep'.todo,
           \A kind \in Kinds : HasRead(kind)' => HasRead(kind)
    PROVE  Owed'
<1> SUFFICES ASSUME sweep'.clean, NEW r \in Final', HasRead(KindOf(r.ent))', Due(r)'
             PROVE  r \in sweep'.todo \/ Told(r)' \/ DateTaken(r)'
  BY DEF Owed, KindOf
<1>1. r \in Final
  BY DEF Final
<1>2. KindOf(r.ent) \in Kinds
  BY DEF KindOf, Kinds
<1>3. HasRead(KindOf(r.ent))
  <2>1. PICK kind \in Kinds : kind = KindOf(r.ent)
    BY <1>2
  <2>2. HasRead(kind)'
    BY <2>1 DEF HasRead, KindOf
  <2> QED
    BY <2>1, <2>2
<1>4. Due(r)
  BY DEF Due, InWindow, Withheld
<1>5. r \in sweep.todo \/ Told(r) \/ DateTaken(r)
  BY <1>1, <1>3, <1>4 DEF Owed
<1> QED
  BY <1>5, SilentStays

\* Between passes, and before a pass has read, nothing is owed.
LEMMA NotOwed ==
    ASSUME sweep'.pc \in {"idle", "stamp"}, sweep'.kind = "company"
    PROVE  Owed'
BY DEF Owed, HasRead

\* An observation changes what is owed only where it withholds the debt.
LEMMA FindsOwes ==
    ASSUME TypeOK, Days, Owed, NEW f \in Films, NEW new, Finds(f, new)
    PROVE  Owed'
<1> SUFFICES ASSUME sweep'.clean, NEW r \in Final', HasRead(KindOf(r.ent))', Due(r)'
             PROVE  r \in sweep'.todo \/ Told(r)' \/ DateTaken(r)'
  BY DEF Owed, KindOf
<1>0. /\ sweep' = sweep /\ stamp' = stamp /\ cards' = cards /\ rows' = rows \cup new
      /\ clock \in Nat /\ sweep.at \in Nat /\ sweep.at <= clock
      /\ rows' \subseteq Rows
  BY OrganisationsAssumption DEF Finds, TypeOK, Days
<1>1. r.at + Quarantine <= sweep.at /\ r.at \in Nat /\ Quarantine \in Nat \ {0}
  BY <1>0, RowFields, OrganisationsAssumption DEF Due, Final
<1>2. r \in Final
  BY <1>0, <1>1, FinalFinds DEF Finds
<1>3. r.film \in Films /\ r.ent \in Entities
  BY <1>0, <1>2, RowFields DEF Final
<1>4. ~ Withheld(r)
  <2>1. SUFFICES ASSUME r.dir = "added", r.ent \in Companies,
                        \A u \in new : u.ent # r.ent,
                        Cardinality({g \in Films : <<g, r.ent>> \in live}) >= Burst
                 PROVE  Cardinality({g \in Films : <<g, r.ent>> \in live'}) >= Burst
    <3>1. ASSUME Withheld(r) PROVE FALSE
      <4>1. r.dir = "added" /\ r.ent \in Companies
        BY <3>1 DEF Withheld
      <4>2. /\ ~ Cardinality({g \in Films : <<g, r.ent>> \in live'}) >= Burst
            /\ \A u \in rows' : ~ (u.ent = r.ent /\ u.at >= sweep.at)
        BY <1>0, <4>1 DEF Due, Withheld
      <4>3. \A u \in new : u.ent # r.ent
        BY <1>0, <4>2 DEF Finds
      <4>4. Cardinality({g \in Films : <<g, r.ent>> \in live}) >= Burst
        BY <1>0, <3>1, <4>2 DEF Withheld
      <4> QED
        BY <2>1, <4>1, <4>2, <4>3, <4>4
    <3> QED
      BY <3>1
  <2> DEFINE S == {g \in Films : <<g, r.ent>> \in live}
             T == {g \in Films : <<g, r.ent>> \in live'}
  <2>2. S \subseteq T
    BY <1>3, <2>1 DEF Finds
  <2>3. IsFiniteSet(T)
    BY FS_Subset, OrganisationsAssumption
  <2>4. Cardinality(S) <= Cardinality(T) /\ Cardinality(S) \in Nat /\ Cardinality(T) \in Nat
    <3> HIDE DEF S, T
    <3> QED
      BY <2>2, <2>3, FS_Subset, FS_CardinalityType
  <2> QED
    BY <2>1, <2>4, OrganisationsAssumption
<1>5. Due(r) /\ HasRead(KindOf(r.ent))
  BY <1>0, <1>4 DEF Due, InWindow, HasRead, KindOf
<1>6. r \in sweep.todo \/ Told(r) \/ DateTaken(r)
  BY <1>0, <1>2, <1>5 DEF Owed
<1>7. Silent
  BY <1>0, SameCards
<1> QED
  BY <1>0, <1>6, <1>7, SilentStays

\* Of the changes of its kind a pass reads all it owes.
LEMMA ReadOwes ==
    ASSUME TypeOK, LiveIsLast, Pass, Owed, Read
    PROVE  Owed'
<1> SUFFICES ASSUME sweep'.clean, NEW r \in Final', HasRead(KindOf(r.ent))', Due(r)'
             PROVE  r \in sweep'.todo \/ Told(r)' \/ DateTaken(r)'
  BY DEF Owed, KindOf
<1>1. /\ UNCHANGED <<clock, live, rows, stamp, cards>> /\ sweep.pc = "read"
      /\ sweep'.kind = sweep.kind /\ sweep'.at = sweep.at /\ sweep'.clean = sweep.clean
      /\ sweep'.todo = Eligible
  <2>1. PICK undone : sweep' = [sweep EXCEPT !.pc = "card", !.todo = Eligible,
                                             !.undone = undone]
    BY DEF Read
  <2>2. UNCHANGED <<clock, live, rows, stamp, cards>> /\ sweep.pc = "read"
    BY DEF Read, tables
  <2> QED
    BY <2>1, <2>2 DEF TypeOK
<1>2. r \in Final /\ r \in rows
  BY <1>1 DEF Final
<1>3. Due(r)
  BY <1>1 DEF Due, InWindow, Withheld
<1>4. CASE KindOf(r.ent) = sweep.kind
  <2>1. r \in Backlog
    BY <1>2, <1>3, <1>4 DEF Backlog, Phase, Due
  <2>2. Outlived(r)
    BY <1>2, <1>3 DEF Outlived, Due, LiveIsLast
  <2>3. ~ InBurst(r)
    <3> DEFINE S == {g \in Films : /\ <<g, r.ent>> \in live
                                   /\ \E u \in rows : /\ u.film = g /\ u.ent = r.ent
                                                      /\ u.dir = "added" /\ u.at = r.at}
               T == {g \in Films : <<g, r.ent>> \in live}
    <3>1. S \subseteq T /\ IsFiniteSet(T)
      BY FS_Subset, OrganisationsAssumption
    <3>2. Cardinality(S) <= Cardinality(T) /\ Cardinality(S) \in Nat /\ Cardinality(T) \in Nat
      <4> HIDE DEF S, T
      <4> QED
        BY <3>1, FS_Subset, FS_CardinalityType
    <3>3. ASSUME InBurst(r) PROVE FALSE
      <4>1. r.dir = "added" /\ sweep.kind = "company" /\ Cardinality(S) >= Burst
        BY <3>3 DEF InBurst
      <4>2. r.ent \in Companies
        BY <1>4, <4>1 DEF KindOf
      <4>3. Cardinality(T) >= Burst
        BY <3>2, <4>1, OrganisationsAssumption
      <4> QED
        BY <1>3, <4>1, <4>2, <4>3 DEF Due, Withheld
    <3> QED
      BY <3>3
  <2> QED
    BY <1>1, <2>1, <2>2, <2>3 DEF Eligible
<1>5. CASE KindOf(r.ent) # sweep.kind
  <2>1. HasRead(KindOf(r.ent))
    BY <1>1, <1>5 DEF HasRead, KindOf
  <2>2. sweep.todo = {}
    BY <1>1 DEF Pass
  <2>3. Told(r) \/ DateTaken(r)
    BY <1>1, <1>2, <1>3, <2>1, <2>2 DEF Owed
  <2>4. Silent /\ rows \subseteq rows'
    BY <1>1, SameCards
  <2> QED
    BY <2>3, <2>4, SilentStays
<1> QED
  BY <1>4, <1>5
\* Of a group, what the reader knows or never knew is told, and the rest is on its card.
LEMMA GroupOwes ==
    ASSUME TypeOK, Days, Pass, Cards, Owed, TypeOK', Cards',
           NEW f \in Films, NEW dir \in Dirs, CardGroup(f, dir)
    PROVE  Owed'
<1> SUFFICES ASSUME sweep'.clean, NEW r \in Final', HasRead(KindOf(r.ent))', Due(r)'
             PROVE  r \in sweep'.todo \/ Told(r)' \/ DateTaken(r)'
  BY DEF Owed, KindOf
<1>1. /\ UNCHANGED <<clock, live, rows, stamp>>
      /\ sweep'.kind = sweep.kind /\ sweep'.at = sweep.at /\ sweep'.clean = sweep.clean
      /\ sweep'.pc = sweep.pc /\ sweep'.todo = sweep.todo \ Group(f, dir)
  <2>1. PICK g : /\ g = Group(f, dir)
                 /\ sweep' = [sweep EXCEPT !.todo = @ \ g, !.undone = @ \ g]
    BY DEF CardGroup
  <2>2. UNCHANGED <<clock, live, rows, stamp>>
    BY DEF CardGroup
  <2> QED
    BY <2>1, <2>2 DEF TypeOK
<1>2. r \in Final /\ r \in rows /\ r \in Rows
  BY <1>1 DEF Final, TypeOK
<1>3. Due(r) /\ HasRead(KindOf(r.ent))
  BY <1>1 DEF Due, InWindow, Withheld, HasRead, KindOf
<1>4. /\ r.at + Quarantine <= sweep.at /\ r.at \in Nat /\ sweep.at \in Nat
      /\ Quarantine \in Nat \ {0}
  BY <1>2, <1>3, RowFields, OrganisationsAssumption DEF Due, TypeOK
<1>5. r \in sweep.todo \/ Told(r) \/ DateTaken(r)
  BY <1>1, <1>2, <1>3 DEF Owed
<1>6. ASSUME r \in Group(f, dir)
      PROVE  Told(r) \/ (r \in Uncarded(f, dir) /\ r.film = f /\ r.dir = dir)
  <2>1. r.film = f /\ r.dir = dir
    BY <1>6 DEF Group
  <2>2. CASE NobodyKnew(r)
    BY <2>2 DEF NobodyKnew, Told, Pass
  <2>3. CASE SaidAlready(r)
    BY <2>3 DEF Told
  <2> QED
    BY <1>6, <2>1, <2>2, <2>3 DEF Uncarded
<1>7. CASE /\ UNCHANGED cards
           /\ Uncarded(f, dir) = {} \/ Taken(f, sweep.kind, dir, Dated(f, dir))
  <2>1. Silent /\ rows \subseteq rows'
    BY <1>1, <1>7, SameCards
  <2>2. ASSUME r \in Uncarded(f, dir), r.film = f, r.dir = dir
        PROVE  Told(r) \/ DateTaken(r)
    <3>1. PICK i \in 1..Len(cards) :
            /\ cards[i].film = f /\ cards[i].kind = sweep.kind /\ cards[i].dir = dir
            /\ cards[i].at = Dated(f, dir) /\ cards[i].by = "catalog"
      BY <1>7, <2>2 DEF Taken, TypeOK
    <3>2. r.at <= Dated(f, dir) /\ KindOf(r.ent) = sweep.kind /\ Dated(f, dir) \in Nat
      BY <2>2, CardRests
    <3>3. CASE r.ent \in cards[i].names
      BY <1>2, <2>2, <3>1, <3>2, <3>3, SaysIt DEF Told
    <3>4. CASE r.ent \notin cards[i].names
      BY <1>4, <2>2, <3>1, <3>2, <3>4 DEF DateTaken, TypeOK
    <3> QED
      BY <3>3, <3>4
  <2>3. r \in sweep'.todo \/ Told(r) \/ DateTaken(r)
    BY <1>1, <1>5, <1>6, <2>2
  <2> QED
    BY <2>1, <2>3, SilentStays
<1>8. CASE Uncarded(f, dir) # {} /\ Appends(f, dir)
  <2>1. PICK k : k = Len(cards) + 1
    OBVIOUS
  <2>2. /\ Grow /\ Len(cards) \in Nat /\ Len(cards') = k /\ k \in 1..Len(cards')
        /\ cards'[k] = CatalogCard(f, dir, Dated(f, dir), {u.ent : u \in Uncarded(f, dir)})
    BY <1>8, <2>1 DEF Appends, TypeOK
  <2>3. /\ cards'[k].film = f /\ cards'[k].at = Dated(f, dir) /\ cards'[k].dir = dir
        /\ cards'[k].names = {u.ent : u \in Uncarded(f, dir)}
    BY <2>2 DEF CatalogCard
  <2>4. \A i \in (Len(cards) + 1)..Len(cards') : i = k
    BY <2>1, <2>2
  <2>5. CASE ~ (r.film = f /\ r.ent \in cards'[k].names)
    <3>1. \A i \in (Len(cards) + 1)..Len(cards') :
            ~ (cards'[i].film = r.film /\ r.ent \in cards'[i].names)
      BY <2>3, <2>4, <2>5
    <3>2. r \in sweep'.todo \/ Told(r) \/ DateTaken(r)
      BY <1>1, <1>5, <1>6, <2>3, <2>5
    <3> QED
      BY <1>1, <2>2, <3>1, <3>2, ToldStays, TakenStays
  <2>6. CASE r.film = f /\ r.ent \in cards'[k].names
    <3>1. PICK u \in Uncarded(f, dir) : u.ent = r.ent
      BY <2>3, <2>6
    <3>2. /\ u \in sweep.todo /\ u.film = f /\ u.dir = dir
          /\ \A v \in Uncarded(f, dir) : v.at <= Dated(f, dir)
      BY <1>8, <3>1, CardRests
    <3>3. r.dir = dir
      <4>1. r.dir = u.dir \/ sweep.at <= r.at
        BY <1>2, <2>6, <3>1, <3>2 DEF Pass
      <4> QED
        BY <1>4, <3>2, <4>1
    <3>4. CASE r \in Uncarded(f, dir)
      <4>1. r.at <= cards'[k].at
        BY <2>3, <3>2, <3>4
      <4>2. SaidAlready(r)'
        BY <2>2, <2>3, <2>6, <4>1, SaysItThen
      <4> QED
        BY <4>2 DEF Told
    <3>5. CASE r \notin Uncarded(f, dir)
      <4>1. ~ SaidAlready(r)
        BY <2>6, <3>1, <3>2, <3>3 DEF Uncarded, SaidAlready
      <4>2. DateTaken(r) \/ Told(r)
        <5>1. r \in sweep.todo => r \in Group(f, dir)
          BY <2>6, <3>3 DEF Group
        <5> QED
          BY <1>5, <1>6, <3>5, <5>1
      <4>3. CASE Told(r)
        <5>1. /\ LastTold(r.film, r.ent) = {}
              /\ \E v \in rows : Follows(r, v)
          BY <4>1, <4>3 DEF Told
        <5> DEFINE I == {i \in 1..Len(cards) : cards[i].film = r.film /\ r.ent \in cards[i].names}
                   J == {i \in 1..Len(cards') : cards'[i].film = r.film
                                                  /\ r.ent \in cards'[i].names}
        <5>2. LastTold(r.film, r.ent) = Newest(I) /\ LastTold(r.film, r.ent)' = {i \in J : \A j \in J : NoOlder(i, j)'}
          <6>1. DOMAIN cards = 1..Len(cards) /\ DOMAIN cards' = 1..Len(cards')
            BY <2>2 DEF TypeOK, Grow
          <6> QED
            BY <6>1 DEF LastTold, Newest
        <5>3. I = {}
          BY <5>1, <5>2, HasNewest
        <5>4. J = {k}
          <6>1. k \in J
            BY <2>2, <2>3, <2>6
          <6>2. ASSUME NEW i \in J, i # k PROVE FALSE
            <7>1. i \in 1..Len(cards)
              BY <2>1, <2>2, <6>2
            <7>2. i \in I
              BY <2>2, <6>2, <7>1 DEF Grow
            <7> QED
              BY <5>3, <7>2
          <6> HIDE DEF J
          <6> QED
            BY <6>1, <6>2
        <5>5. NoOlder(k, k)'
          BY <2>2 DEF NoOlder
        <5>6. k \in LastTold(r.film, r.ent)'
          <6> HIDE DEF J
          <6> QED
            BY <5>2, <5>4, <5>5
        <5>7. SaidAlready(r)'
          BY <2>3, <3>3, <5>6 DEF SaidAlready
        <5> QED
          BY <5>7 DEF Told
      <4> QED
        BY <2>2, <4>2, <4>3, TakenStays
    <3> QED
      BY <3>4, <3>5
  <2> QED
    BY <2>5, <2>6
<1> QED
  BY <1>7, <1>8, GroupWrites
LEMMA OwedNext ==
    ASSUME IInv, TypeOK', Cards', [Next]_vars
    PROVE  Owed'
<1>0. TypeOK /\ Days /\ LiveIsLast /\ Pass /\ Cards /\ Owed
  BY DEF IInv
<1>1. CASE \E f, new : f \in Films /\ Finds(f, new)
  BY <1>0, <1>1, FindsOwes
<1>2. CASE \/ Tick \/ UNCHANGED vars
           \/ \E f \in Films, kind \in Kinds, dir \in Dirs, confirmed \in BOOLEAN :
                Cluster(f, kind, dir, confirmed)
           \/ \E i \in 1..Len(cards), e \in Entities : Resolve(i, e)
  <2>1. UNCHANGED <<rows, live, stamp, sweep>>
    BY <1>2, Zenon DEF Tick, vars, tables, Cluster, Resolve
  <2>2. Silent
    <3>1. CASE Tick \/ UNCHANGED vars
      <4>1. UNCHANGED cards
        BY <3>1 DEF Tick, vars, tables
      <4> QED
        BY <1>0, <4>1, SameCards
    <3>2. CASE \E f \in Films, kind \in Kinds, dir \in Dirs, confirmed \in BOOLEAN :
                 Cluster(f, kind, dir, confirmed)
      BY <1>0, <3>2, ClusterWrites
    <3>3. CASE \E i \in 1..Len(cards), e \in Entities : Resolve(i, e)
      BY <1>0, <3>3, ResolveWrites
    <3> QED
      BY <1>2, <3>1, <3>2, <3>3
  <2>3. \A kind \in Kinds : HasRead(kind)' => HasRead(kind)
    BY <2>1 DEF HasRead
  <2> QED
    BY <1>0, <2>1, <2>2, <2>3, OwedStays
<1>3. CASE Start \/ Confirm \/ SweepDies
  <2>1. sweep' = Idle \/ sweep' = [Idle EXCEPT !.pc = "stamp", !.at = clock]
    BY <1>3, Zenon DEF Start, Confirm, SweepDies
  <2>2. /\ Idle.pc = "idle" /\ Idle.kind = "company"
        /\ [Idle EXCEPT !.pc = "stamp", !.at = clock].pc = "stamp"
        /\ [Idle EXCEPT !.pc = "stamp", !.at = clock].kind = "company"
    BY DEF Idle
  <2>3. sweep'.pc \in {"idle", "stamp"} /\ sweep'.kind = "company"
    BY <2>1, <2>2
  <2> QED
    BY <2>3, NotOwed
<1>4. CASE Stamp \/ NextPhase
  <2>1. UNCHANGED <<rows, live, cards>> /\ DOMAIN stamp \subseteq DOMAIN stamp'
    BY <1>4 DEF Stamp, NextPhase, tables
  <2>2. sweep'.at = sweep.at /\ sweep'.clean = sweep.clean /\ sweep'.todo = sweep.todo
    BY <1>0, <1>4 DEF Stamp, NextPhase, TypeOK
  <2>3. \A kind \in Kinds : HasRead(kind)' => HasRead(kind)
    <3>1. CASE Stamp
      <4>1. sweep'.pc = "read" /\ sweep'.kind = sweep.kind
        BY <1>0, <3>1 DEF Stamp, TypeOK
      <4> QED
        BY <4>1 DEF HasRead
    <3>2. CASE NextPhase
      <4>1. /\ sweep.pc = "card" /\ sweep.kind \in Kinds
            /\ \/ sweep.kind = "company" /\ sweep'.pc = "stamp" /\ sweep'.kind = "collection"
               \/ sweep.kind # "company" /\ sweep'.pc = "confirm" /\ sweep'.kind = sweep.kind
        BY <1>0, <3>2 DEF NextPhase, TypeOK
      <4> QED
        BY <4>1 DEF HasRead, Kinds
    <3> QED
      BY <1>4, <3>1, <3>2
  <2>4. Silent
    BY <1>0, <2>1, SameCards
  <2> QED
    BY <1>0, <2>1, <2>2, <2>3, <2>4, OwedStays
<1>5. CASE Read
  BY <1>0, <1>5, ReadOwes
<1>6. CASE \E f \in Films, dir \in Dirs : CardGroup(f, dir)
  BY <1>0, <1>6, GroupOwes
<1>7. CASE \E f \in Films, dir \in Dirs : CardFails(f, dir)
  <2>1. PICK g : sweep' = [sweep EXCEPT !.todo = @ \ g, !.undone = @ \ g, !.clean = FALSE]
    BY <1>7 DEF CardFails
  <2>2. sweep'.clean = FALSE
    BY <1>0, <2>1 DEF TypeOK
  <2> QED
    BY <2>2 DEF Owed
<1> QED
  BY <1>0, <1>1, <1>2, <1>3, <1>4, <1>5, <1>6, <1>7, Actions, Zenon

LEMMA IInvInit == Init => IInv
<1> SUFFICES ASSUME Init PROVE IInv
  OBVIOUS
<1>1. clock = 0 /\ rows = {} /\ cards = <<>> /\ sweep = Idle
  BY DEF Init
<1>2. Idle.at = 0 /\ Idle.todo = {} /\ Idle.undone = {} /\ Idle.pc = "idle"
  BY DEF Idle
<1>3. Len(cards) = 0 /\ Final = {}
  BY <1>1 DEF Final
<1>4. Days /\ OneADay /\ LiveIsLast /\ Pass /\ Cards /\ Owed
  BY <1>1, <1>2, <1>3 DEF Days, OneADay, LiveIsLast, Pass, Cards, Owed
<1> QED
  BY <1>4, TypeInit DEF IInv

LEMMA IInvNext == IInv /\ [Next]_vars => IInv'
<1> SUFFICES ASSUME IInv, [Next]_vars PROVE IInv'
  OBVIOUS
<1>1. TypeOK /\ Days /\ OneADay /\ LiveIsLast /\ Pass /\ Cards
  BY DEF IInv
<1>2. TypeOK' /\ Days' /\ OneADay' /\ LiveIsLast' /\ Pass' /\ Cards'
  BY <1>1, TypeNext, DaysNext, OneADayNext, LiveIsLastNext, PassNext, CardsNext
<1>3. Owed'
  BY <1>2, OwedNext
<1> QED
  BY <1>2, <1>3 DEF IInv

LEMMA Invariance == Spec => []IInv
<1>1. Init => IInv
  BY IInvInit
<1>2. IInv /\ [Next]_vars => IInv'
  BY IInvNext
<1> QED
  BY <1>1, <1>2, PTL DEF Spec
-----------------------------------------------------------------------------
(***************************************************************************)
(* Theorems.                                                               *)
(***************************************************************************)

\* Every reachable state is well typed: a film has one franchise, a stamp is on a change of
\* the history and names a card that exists.
THEOREM TypeCorrect == Spec => []TypeOK
<1>1. IInv => TypeOK
  BY DEF IInv
<1> QED
  BY <1>1, Invariance, PTL

\* A pass that met no failure has told what it owed: the newest card of an organisation says
\* where it stands, unless a card without it had taken the date (_uncarded_changes,
\* _already_carded).
THEOREM PassesTellWhatTheyOwe == Spec => []EveryChangeIsTold
<1>1. IInv => EveryChangeIsTold
  <2> SUFFICES ASSUME IInv, sweep.pc = "confirm", sweep.clean,
                      NEW f \in Films, NEW e \in Entities, NEW r \in LastChange(f, e), Due(r)
               PROVE  Told(r) \/ DateTaken(r)
    BY DEF EveryChangeIsTold
  <2>1. r \in Final
    BY DEF LastChange, LatestOf, Final
  <2>2. sweep.todo = {} /\ sweep.kind = "collection"
    BY DEF IInv, Pass
  <2>3. HasRead(KindOf(r.ent))
    BY <2>2 DEF HasRead, KindOf
  <2> QED
    BY <2>1, <2>2, <2>3 DEF IInv, Owed
<1> QED
  BY <1>1, Invariance, PTL

\* Whoever a new catalog card names has a change in that direction that no story told and
\* that outlived the quarantine (the stamps, quarantine_company_changes).
THEOREM CardsTellOnlyTheUntold == Spec => CardsTellTheUntold
<1> DEFINE c == cards'[Len(cards')]
           Step == Len(cards') > Len(cards) /\ c.by = "catalog" =>
                     \A e \in c.names :
                       \E r \in rows : /\ r.film = c.film /\ r.ent = e /\ r.dir = c.dir
                                       /\ r.at <= c.at /\ r.at + Quarantine <= clock
                                       /\ r \notin DOMAIN stamp
<1>1. IInv /\ [Next]_vars => Step
  <2> SUFFICES ASSUME IInv, [Next]_vars, Len(cards') > Len(cards), c.by = "catalog",
                      NEW e \in c.names
               PROVE  \E r \in rows : /\ r.film = c.film /\ r.ent = e /\ r.dir = c.dir
                                      /\ r.at <= c.at /\ r.at + Quarantine <= clock
                                      /\ r \notin DOMAIN stamp
    OBVIOUS
  <2>1. TypeOK /\ Days /\ Pass
    BY DEF IInv
  <2>2. CASE Silent
    <3>1. Len(cards) \in Nat /\ Len(cards') \in Nat
      BY <2>1, <2>2 DEF Silent, Grow, TypeOK
    <3>2. Len(cards') \in (Len(cards) + 1)..Len(cards')
      BY <3>1
    <3> QED
      BY <2>2, <3>2 DEF Silent
  <2>3. ASSUME NEW f \in Films, NEW dir \in Dirs, CardGroup(f, dir),
               Uncarded(f, dir) # {}, Appends(f, dir)
        PROVE  \E r \in rows : /\ r.film = c.film /\ r.ent = e /\ r.dir = c.dir
                               /\ r.at <= c.at /\ r.at + Quarantine <= clock
                               /\ r \notin DOMAIN stamp
    <3>1. c = CatalogCard(f, dir, Dated(f, dir), {u.ent : u \in Uncarded(f, dir)})
      BY <2>3 DEF Appends
    <3>2. /\ c.film = f /\ c.dir = dir /\ c.at = Dated(f, dir)
          /\ c.names = {u.ent : u \in Uncarded(f, dir)}
      BY <3>1 DEF CatalogCard
    <3>3. PICK u \in Uncarded(f, dir) : u.ent = e
      BY <3>2
    <3>4. /\ u \in sweep.todo /\ u.film = f /\ u.dir = dir /\ u.at <= Dated(f, dir)
      BY <2>1, <2>3, CardRests
    <3>5. u \in rows /\ u.at + Quarantine <= clock /\ u \notin DOMAIN stamp
      <4>1. u \in rows /\ u \in Rows /\ clock \in Nat /\ sweep.at \in Nat /\ sweep.at <= clock
        BY <2>1, <3>4, OrganisationsAssumption DEF TypeOK, Days
      <4>2. u.at \in Nat /\ u.at + Quarantine <= sweep.at /\ u \notin DOMAIN stamp
        BY <2>1, <3>4, <4>1, RowFields DEF Pass
      <4> QED
        BY <4>1, <4>2, OrganisationsAssumption
    <3> QED
      BY <3>2, <3>3, <3>4, <3>5
  <2> QED
    BY <2>1, <2>2, <2>3, CardsStep
<1> QED
  BY <1>1, Invariance, PTL DEF Spec, CardsTellTheUntold
-----------------------------------------------------------------------------
\* The correction a departure's card j owes to the arrival card i.
Contradicts(i, j) ==
    /\ i < j /\ cards[i].by = "catalog" /\ cards[j].by = "catalog"
    /\ cards[i].film = cards[j].film /\ cards[i].dir = "added" /\ cards[j].dir = "removed"
    /\ cards[i].at < cards[j].at /\ cards[i].published

InItsPlace(i, j, e) ==
    \E k \in 1..Len(cards) :
      /\ cards[k].film = cards[i].film /\ cards[k].dir = "added"
      /\ e \in cards[k].names \cup cards[k].mentions
      /\ cards[i].at <= cards[k].at /\ cards[k].at < cards[j].at
      /\ ~ cards[k].published

Corrections ==
    \A i, j \in 1..Len(cards) : Contradicts(i, j) =>
      \A e \in cards[i].names \cap cards[j].names : InItsPlace(i, j, e)

LEMMA CorrectionsStay ==
    ASSUME TypeOK, Corrections, Grow, NEW i \in 1..Len(cards), NEW j \in 1..Len(cards),
           Contradicts(i, j)', NEW e \in cards'[i].names \cap cards'[j].names
    PROVE  InItsPlace(i, j, e)'
<1>1. Contradicts(i, j) /\ e \in cards[i].names \cap cards[j].names
  BY DEF Contradicts, Grow
<1>2. PICK k \in 1..Len(cards) :
        /\ cards[k].film = cards[i].film /\ cards[k].dir = "added"
        /\ e \in cards[k].names \cup cards[k].mentions
        /\ cards[i].at <= cards[k].at /\ cards[k].at < cards[j].at
        /\ ~ cards[k].published
  BY <1>1 DEF Corrections, InItsPlace
<1>3. k \in 1..Len(cards')
  BY DEF TypeOK, Grow
<1>4. /\ cards'[k].film = cards'[i].film /\ cards'[k].dir = "added"
      /\ e \in cards'[k].names \cup cards'[k].mentions
      /\ cards'[i].at <= cards'[k].at /\ cards'[k].at < cards'[j].at
      /\ ~ cards'[k].published
  BY <1>2 DEF Grow
<1> QED
  BY <1>3, <1>4 DEF InItsPlace

\* The card of a departure finds the arrival published, or a later one in its place.
LEMMA DepartureCorrects ==
    ASSUME TypeOK, Cards, NEW f \in Films, NEW dir \in Dirs, Appends(f, dir),
           NEW i \in 1..Len(cards), NEW n, n = Len(cards) + 1, Contradicts(i, n)',
           NEW e \in cards'[i].names \cap cards'[n].names
    PROVE  InItsPlace(i, n, e)'
<1>1. n = Len(cards) + 1
  OBVIOUS
<1>2. Grow /\ Len(cards) \in Nat /\ Len(cards') = n
  BY <1>1 DEF Appends, TypeOK
<1>3. cards'[n].film = f /\ cards'[n].dir = dir /\ cards'[n].at = Dated(f, dir)
  BY <1>1 DEF Appends, CatalogCard
<1>4. /\ cards'[i].film = f /\ cards'[i].dir = "added" /\ dir = "removed"
      /\ cards'[i].at < Dated(f, dir) /\ cards'[i].published /\ e \in cards'[i].names
      /\ e \in cards'[n].names
  BY <1>1, <1>3 DEF Contradicts
<1>5. i \in Arrivals(f, e, Dated(f, dir))
  <2>1. /\ cards[i].film = f /\ cards[i].dir = "added" /\ cards[i].at < Dated(f, dir)
        /\ cards[i].published /\ e \in cards[i].names
    BY <1>2, <1>4 DEF Grow
  <2>2. cards[i].kind = KindOf(e)
    BY <2>1 DEF Cards
  <2> QED
    BY <2>1, <2>2 DEF Arrivals, Names, TypeOK
<1>6. Arrivals(f, e, Dated(f, dir)) \subseteq 1..Len(cards)
  BY DEF Arrivals, TypeOK
<1>7. PICK m \in Newest(Arrivals(f, e, Dated(f, dir))) : TRUE
  BY <1>5, <1>6, HasNewest
<1>8. m \in Arrivals(f, e, Dated(f, dir)) /\ NoOlder(m, i) /\ m \in 1..Len(cards)
  BY <1>5, <1>6, <1>7 DEF Newest
<1>9. /\ cards[m].film = f /\ cards[m].dir = "added" /\ cards[m].at < Dated(f, dir)
      /\ e \in cards[m].names \cup cards[m].mentions
  BY <1>8 DEF Arrivals, Names
<1>10. cards[i].at <= cards[m].at
  <2>1. cards[i].at \in Nat /\ cards[m].at \in Nat
    BY <1>8, CardFields
  <2> QED
    BY <1>8, <2>1 DEF NoOlder
<1>11. ~ cards'[m].published
  BY <1>1, <1>4, <1>7, <1>8 DEF Appends, Corrected
<1>12. m \in 1..Len(cards')
  BY <1>1, <1>2, <1>8
<1>13. /\ cards'[m].film = cards[m].film /\ cards'[m].dir = cards[m].dir
       /\ cards'[m].at = cards[m].at /\ cards'[i].at = cards[i].at
       /\ e \in cards'[m].names \cup cards'[m].mentions
  BY <1>2, <1>8, <1>9 DEF Grow
<1> QED
  BY <1>3, <1>4, <1>9, <1>10, <1>11, <1>12, <1>13 DEF InItsPlace

LEMMA CorrectionsNext ==
    ASSUME TypeOK, Cards, Corrections, [Next]_vars
    PROVE  Corrections'
<1> SUFFICES ASSUME NEW i \in 1..Len(cards'), NEW j \in 1..Len(cards'), Contradicts(i, j)',
                    NEW e \in cards'[i].names \cap cards'[j].names
             PROVE  InItsPlace(i, j, e)'
  BY DEF Corrections
<1>1. Len(cards) \in Nat /\ i < j /\ cards'[j].by = "catalog"
  BY DEF TypeOK, Contradicts
<1>2. CASE j \in 1..Len(cards)
  <2>1. Grow
    BY CardsStep DEF Silent, Appends
  <2>2. i \in 1..Len(cards)
    BY <1>1, <1>2
  <2> QED
    BY <1>2, <2>1, <2>2, CorrectionsStay
<1>3. CASE j \notin 1..Len(cards)
  <2>1. ~ Silent
    <3>1. ASSUME Silent PROVE FALSE
      <4>1. j \in (Len(cards) + 1)..Len(cards')
        BY <1>1, <1>3, <3>1 DEF Silent, Grow
      <4> QED
        BY <1>1, <3>1, <4>1 DEF Silent
    <3> QED
      BY <3>1
  <2>2. PICK f \in Films, dir \in Dirs : Appends(f, dir)
    BY <2>1, CardsStep
  <2>3. j = Len(cards) + 1 /\ i \in 1..Len(cards)
    BY <1>1, <1>3, <2>2 DEF Appends
  <2> QED
    BY <2>2, <2>3, DepartureCorrects
<1> QED
  BY <1>2, <1>3

\* A departure never reaches the feed with its original still published, unless a later
\* arrival card took its place in the correction (_card_group,
\* supersede_prior_entity_cards).
THEOREM DeparturesAreCorrect == Spec => []DeparturesCorrect
<1>1. Init => Corrections
  <2> SUFFICES ASSUME Init PROVE Corrections
    OBVIOUS
  <2>1. Len(cards) = 0
    BY DEF Init
  <2> QED
    BY <2>1 DEF Corrections
<1>2. IInv /\ Corrections /\ [Next]_vars => Corrections'
  BY CorrectionsNext DEF IInv
<1>3. IInv /\ Corrections => DeparturesCorrect
  <2> SUFFICES ASSUME IInv, Corrections PROVE DeparturesCorrect
    OBVIOUS
  <2>1. TypeOK /\ DOMAIN cards = 1..Len(cards)
    BY DEF IInv, TypeOK
  <2> QED
    BY <2>1 DEF DeparturesCorrect, Corrections, Contradicts, InItsPlace
<1> QED
  BY <1>1, <1>2, <1>3, Invariance, PTL DEF Spec
=============================================================================
