----------------------------- MODULE LinkProofs -----------------------------
(***************************************************************************)
(* Resolution, for any mentions, entities, facts and failures: what is     *)
(* remembered is what the arithmetic said, no decision is more certain     *)
(* than its story's link, a decision names an entity the catalog has, and  *)
(* the usage row of a run is what its calls cost.                          *)
(*                                                                         *)
(* Then the stories of a film, for any stories, cards, performers, runs    *)
(* and answers: cards have sources, a performer has one casting card, a    *)
(* move of the date is announced by one side, and what the moderator takes *)
(* off a card while no run holds it stays off.                             *)
(***************************************************************************)
EXTENDS Resolve, Stories, FiniteSetTheorems, TLAPS

-----------------------------------------------------------------------------
(***************************************************************************)
(* Sets in an order.                                                       *)
(***************************************************************************)

StrictlyOrders(R, S) ==
    /\ \A a \in S : <<a, a>> \notin R
    /\ \A a, b, c \in S : <<a, b>> \in R /\ <<b, c>> \in R => <<a, c>> \in R
    /\ \A a, b \in S : a # b => <<a, b>> \in R \/ <<b, a>> \in R

\* In a finite set that is strictly ordered, the number of elements before one is its place.
LEMMA SortedIs ==
    ASSUME NEW S, IsFiniteSet(S), NEW R, StrictlyOrders(R, S)
    PROVE  /\ Sorted(S, R) \in Seq(S) /\ Len(Sorted(S, R)) = Cardinality(S)
           /\ Range(Sorted(S, R)) = S
<1> DEFINE n == Cardinality(S)
           Before(e) == {d \in S : <<d, e>> \in R}
           place == [e \in S |-> Cardinality(Before(e)) + 1]
<1>1. n \in Nat
  BY FS_CardinalityType
<1>2. \A e \in S : IsFiniteSet(Before(e)) /\ Cardinality(Before(e)) \in Nat /\ Cardinality(Before(e)) < n
  <2> SUFFICES ASSUME NEW e \in S
               PROVE  /\ IsFiniteSet(Before(e)) /\ Cardinality(Before(e)) \in Nat
                      /\ Cardinality(Before(e)) < n
    OBVIOUS
  <2>1. Before(e) \in SUBSET S /\ e \notin Before(e)
    BY DEF StrictlyOrders
  <2>2. IsFiniteSet(Before(e)) /\ Cardinality(Before(e)) <= n /\ (n = Cardinality(Before(e)) => S = Before(e))
    BY <2>1, FS_Subset
  <2>3. Cardinality(Before(e)) \in Nat
    BY <2>2, FS_CardinalityType
  <2> QED
    BY <1>1, <2>1, <2>2, <2>3
<1>3. ASSUME NEW a \in S, NEW b \in S, <<a, b>> \in R PROVE Cardinality(Before(a)) < Cardinality(Before(b))
  <2>1. Before(a) \in SUBSET Before(b)
    BY <1>3 DEF StrictlyOrders
  <2>2. a \in Before(b) /\ a \notin Before(a)
    BY <1>3 DEF StrictlyOrders
  <2>3. /\ IsFiniteSet(Before(b)) /\ Cardinality(Before(b)) \in Nat /\ Cardinality(Before(a)) \in Nat
    BY <1>2
  <2> HIDE DEF Before
  <2>4. /\ Cardinality(Before(a)) <= Cardinality(Before(b))
        /\ Cardinality(Before(b)) = Cardinality(Before(a)) => Before(b) = Before(a)
    BY <2>1, <2>3, FS_Subset
  <2> QED
    BY <2>2, <2>3, <2>4
<1>4. \A a, b \in S : Cardinality(Before(a)) = Cardinality(Before(b)) => a = b
  <2> SUFFICES ASSUME NEW a \in S, NEW b \in S, Cardinality(Before(a)) = Cardinality(Before(b)), a # b
               PROVE  FALSE
    OBVIOUS
  <2>1. Cardinality(Before(a)) \in Nat /\ Cardinality(Before(b)) \in Nat
    BY <1>2
  <2>2. <<a, b>> \in R \/ <<b, a>> \in R
    BY DEF StrictlyOrders
  <2>3. Cardinality(Before(a)) < Cardinality(Before(b)) \/ Cardinality(Before(b)) < Cardinality(Before(a))
    BY <1>3, <2>2
  <2> HIDE DEF Before
  <2> QED
    BY <2>1, <2>3
<1>5. Sorted(S, R) = [i \in 1..n |-> CHOOSE e \in S : Cardinality(Before(e)) = i - 1]
  BY DEF Sorted
<1> HIDE DEF Before, n
<1>6. place \in Injection(S, 1..n)
  <2>1. \A e \in S : place[e] = Cardinality(Before(e)) + 1 /\ place[e] \in 1..n
    BY <1>1, <1>2
  <2>2. place \in [S -> 1..n]
    BY <2>1
  <2>3. \A a, b \in S : place[a] = place[b] => a = b
    BY <1>2, <1>4, <2>1
  <2> QED
    BY <2>2, <2>3 DEF Injection, IsInjective
<1>7. place \in Surjection(S, 1..n)
  <2>1. IsFiniteSet(1..n) /\ Cardinality(1..n) = n
    BY <1>1, FS_Interval
  <2> HIDE DEF place
  <2> QED
    BY <1>6, <2>1, FS_Injection DEF n
<1>8. \A i \in 1..n : \E e \in S : Cardinality(Before(e)) = i - 1
  <2> SUFFICES ASSUME NEW i \in 1..n PROVE \E e \in S : Cardinality(Before(e)) = i - 1
    OBVIOUS
  <2>1. PICK e \in S : place[e] = i
    BY <1>7 DEF Surjection
  <2>2. Cardinality(Before(e)) \in Nat /\ Cardinality(Before(e)) + 1 = i
    BY <1>2, <2>1
  <2> QED
    BY <2>2
<1> DEFINE s == Sorted(S, R)
<1>9. \A i \in 1..n : s[i] \in S /\ Cardinality(Before(s[i])) = i - 1
  <2> SUFFICES ASSUME NEW i \in 1..n PROVE s[i] \in S /\ Cardinality(Before(s[i])) = i - 1
    OBVIOUS
  <2>1. s[i] = CHOOSE e \in S : Cardinality(Before(e)) = i - 1
    BY <1>5
  <2>2. \E e \in S : Cardinality(Before(e)) = i - 1
    BY <1>8
  <2> QED
    BY <2>1, <2>2
<1>10. s = [i \in 1..n |-> s[i]]
  BY <1>5
<1> HIDE DEF s
<1>11. s \in Seq(S) /\ Len(s) = n /\ DOMAIN s = 1..n
  BY <1>1, <1>9, <1>10
<1>12. \A e \in S : \E i \in 1..n : s[i] = e
  <2> SUFFICES ASSUME NEW e \in S PROVE \E i \in 1..n : s[i] = e
    OBVIOUS
  <2>1. Cardinality(Before(e)) + 1 \in 1..n /\ (Cardinality(Before(e)) + 1) - 1 = Cardinality(Before(e))
    BY <1>1, <1>2
  <2> QED
    BY <1>4, <1>9, <2>1
<1>13. Range(s) = S
  BY <1>9, <1>11, <1>12 DEF Range
<1> QED
  BY <1>11, <1>13 DEF s, n

\* Of a sequence, what is in a set, in the order of the sequence.
LEMMA WithinIs ==
    ASSUME NEW T, NEW s \in Seq(T), NEW S
    PROVE  Within(s, S) \in Seq(T) /\ Range(Within(s, S)) = Range(s) \cap S
<1> DEFINE kept == Range(s) \cap S
           order == {p \in Range(s) \X Range(s) : PlaceIn(s, p[1]) < PlaceIn(s, p[2])}
<1>1. DOMAIN s = 1..Len(s) /\ Len(s) \in Nat /\ \A i \in 1..Len(s) : s[i] \in T
  OBVIOUS
<1>2. \A e \in Range(s) : PlaceIn(s, e) \in DOMAIN s /\ s[PlaceIn(s, e)] = e
  BY DEF Range, PlaceIn
<1>3. \A e \in Range(s) : PlaceIn(s, e) \in Nat
  BY <1>1, <1>2
<1>4. \A d, e \in Range(s) : PlaceIn(s, d) = PlaceIn(s, e) => d = e
  BY <1>2
<1>5. IsFiniteSet(kept)
  <2>1. s \in Surjection(1..Len(s), Range(s))
    <3>1. s \in [1..Len(s) -> Range(s)]
      BY <1>1 DEF Range
    <3> QED
      BY <1>1, <3>1 DEF Surjection, Range
  <2>2. IsFiniteSet(1..Len(s))
    BY <1>1, FS_Interval
  <2>3. IsFiniteSet(Range(s))
    BY <2>1, <2>2, FS_Surjection
  <2> QED
    BY <2>3, FS_Subset
<1>6. StrictlyOrders(order, kept)
  <2>1. \A d, e \in Range(s) : <<d, e>> \in order <=> PlaceIn(s, d) < PlaceIn(s, e)
    OBVIOUS
  <2> HIDE DEF order
  <2>2. kept \subseteq Range(s)
    OBVIOUS
  <2> HIDE DEF kept
  <2>3. \A a \in kept : <<a, a>> \notin order
    BY <1>3, <2>1, <2>2
  <2>4. \A a, b, c \in kept : <<a, b>> \in order /\ <<b, c>> \in order => <<a, c>> \in order
    BY <1>3, <2>1, <2>2
  <2>5. \A a, b \in kept : a # b => <<a, b>> \in order \/ <<b, a>> \in order
    BY <1>3, <1>4, <2>1, <2>2
  <2> QED
    BY <2>3, <2>4, <2>5 DEF StrictlyOrders
<1>7. kept \subseteq T
  BY <1>1 DEF Range
<1>8. Within(s, S) = Sorted(kept, order)
  BY DEF Within
<1> HIDE DEF kept, order
<1>9. Sorted(kept, order) \in Seq(kept) /\ Range(Sorted(kept, order)) = kept
  BY <1>5, <1>6, SortedIs
<1>10. \A t \in Seq(kept) : t \in Seq(T)
  BY <1>7
<1> QED
  BY <1>8, <1>9, <1>10 DEF kept

LEMMA WithoutIs ==
    ASSUME NEW T, NEW s \in Seq(T), NEW S
    PROVE  Without(s, S) \in Seq(T) /\ Range(Without(s, S)) = Range(s) \ S
<1>1. Within(s, Range(s) \ S) \in Seq(T) /\ Range(Within(s, Range(s) \ S)) = Range(s) \cap (Range(s) \ S)
  BY WithinIs
<1> QED
  BY <1>1 DEF Without

LEMMA TakeIs ==
    ASSUME NEW T, NEW s \in Seq(T), NEW n \in Int
    PROVE  Take(s, n) \in Seq(T) /\ Range(Take(s, n)) \subseteq Range(s)
<1> DEFINE k == IF n < Len(s) THEN IF n < 0 THEN 0 ELSE n ELSE Len(s)
<1>1. k \in Nat /\ k <= Len(s) /\ Len(s) \in Nat /\ DOMAIN s = 1..Len(s)
  OBVIOUS
<1>2. Take(s, n) = SubSeq(s, 1, k)
  BY DEF Take
<1> HIDE DEF k
<1>3. /\ SubSeq(s, 1, k) \in Seq(T) /\ Len(SubSeq(s, 1, k)) = k
      /\ \A i \in 1..k : SubSeq(s, 1, k)[i] = s[i]
  BY <1>1
<1>4. DOMAIN SubSeq(s, 1, k) = 1..k
  BY <1>1, <1>3
<1> QED
  BY <1>1, <1>2, <1>3, <1>4 DEF Range

LEMMA ConcatIs ==
    ASSUME NEW T, NEW s \in Seq(T), NEW t \in Seq(T)
    PROVE  s \o t \in Seq(T) /\ Range(s \o t) \subseteq Range(s) \cup Range(t)
<1>1. /\ s \o t \in Seq(T) /\ Len(s \o t) = Len(s) + Len(t) /\ Len(s) \in Nat /\ Len(t) \in Nat
      /\ \A i \in 1..(Len(s) + Len(t)) : (s \o t)[i] = IF i <= Len(s) THEN s[i] ELSE t[i - Len(s)]
  OBVIOUS
<1>2. DOMAIN s = 1..Len(s) /\ DOMAIN t = 1..Len(t) /\ DOMAIN (s \o t) = 1..(Len(s) + Len(t))
  BY <1>1
<1>3. ASSUME NEW i \in 1..(Len(s) + Len(t)) PROVE (s \o t)[i] \in Range(s) \cup Range(t)
  <2>1. CASE i <= Len(s)
    BY <1>1, <1>2, <2>1 DEF Range
  <2>2. CASE ~ (i <= Len(s))
    <3>1. i - Len(s) \in 1..Len(t)
      BY <1>1, <2>2
    <3> QED
      BY <1>1, <1>2, <2>2, <3>1 DEF Range
  <2> QED
    BY <2>1, <2>2
<1> QED
  BY <1>1, <1>2, <1>3 DEF Range

-----------------------------------------------------------------------------
(***************************************************************************)
(* Who is considered.                                                      *)
(***************************************************************************)

\* Whoever is considered comes from one of the sources.
LEMMA PersonCandidatesAre ==
    ASSUME NEW T, NEW graded \in Seq(T), NEW changed \in Seq(T), NEW hits \in Seq(T), NEW cap \in Int
    PROVE  /\ PersonCandidates(graded, changed, hits, cap) \in Seq(T)
           /\ Range(PersonCandidates(graded, changed, hits, cap))
                \subseteq Range(graded) \cup Range(changed) \cup Range(hits)
<1> DEFINE stream == Without(changed, Range(graded))
           rest == Without(hits, Range(graded) \cup Range(changed))
<1>1. stream \in Seq(T) /\ Range(stream) \subseteq Range(changed)
  BY WithoutIs
<1>2. rest \in Seq(T) /\ Range(rest) \subseteq Range(hits)
  BY WithoutIs
<1>3. PersonCandidates(graded, changed, hits, cap) = Take(graded \o stream \o rest, cap)
  BY DEF PersonCandidates
<1> HIDE DEF stream, rest
<1>4. graded \o stream \in Seq(T) /\ Range(graded \o stream) \subseteq Range(graded) \cup Range(stream)
  BY <1>1, ConcatIs
<1>5. /\ graded \o stream \o rest \in Seq(T)
      /\ Range(graded \o stream \o rest) \subseteq Range(graded \o stream) \cup Range(rest)
  BY <1>2, <1>4, ConcatIs
<1>6. /\ Take(graded \o stream \o rest, cap) \in Seq(T)
      /\ Range(Take(graded \o stream \o rest, cap)) \subseteq Range(graded \o stream \o rest)
  BY <1>5, TakeIs
<1> QED
  BY <1>1, <1>2, <1>3, <1>4, <1>5, <1>6

LEMMA OrgCandidatesAre ==
    ASSUME NEW T, NEW attached \in Seq(T), NEW hits \in Seq(T), NEW cap \in Nat
    PROVE  /\ OrgCandidates(attached, hits, cap) \in Seq(T)
           /\ Range(OrgCandidates(attached, hits, cap)) \subseteq Range(attached) \cup Range(hits)
<1> DEFINE searched == Without(hits, Range(attached))
           reserved == IF Len(searched) < cap \div 2 THEN Len(searched) ELSE cap \div 2
           found == Within(attached, Range(hits))
           others == Without(attached, Range(hits))
           anchored == found \o others
           places == cap - reserved
           first == Take(anchored, places)
<1>1. searched \in Seq(T) /\ Range(searched) \subseteq Range(hits)
  BY WithoutIs
<1>2. found \in Seq(T) /\ Range(found) \subseteq Range(attached)
  BY WithinIs
<1>3. others \in Seq(T) /\ Range(others) \subseteq Range(attached)
  BY WithoutIs
<1>4. OrgCandidates(attached, hits, cap) = Take(first \o searched, cap)
  BY DEF OrgCandidates
<1>5. places \in Int
  <2>1. Len(searched) \in Int /\ cap \div 2 \in Int
    BY <1>1
  <2> QED
    BY <2>1
<1> HIDE DEF searched, found, others, places
<1>6. anchored \in Seq(T) /\ Range(anchored) \subseteq Range(attached)
  BY <1>2, <1>3, ConcatIs
<1> HIDE DEF anchored
<1>7. first \in Seq(T) /\ Range(first) \subseteq Range(attached)
  BY <1>5, <1>6, TakeIs
<1> HIDE DEF first
<1>8. first \o searched \in Seq(T) /\ Range(first \o searched) \subseteq Range(first) \cup Range(searched)
  BY <1>1, <1>7, ConcatIs
<1>9. /\ Take(first \o searched, cap) \in Seq(T)
      /\ Range(Take(first \o searched, cap)) \subseteq Range(first \o searched)
  <2>1. cap \in Int
    OBVIOUS
  <2> QED
    BY <1>8, <2>1, TakeIs
<1> QED
  BY <1>1, <1>4, <1>7, <1>8, <1>9

\* What is fixed.
LEMMA Fixed ==
    /\ SearchOrder \in Seq(Entities) /\ Range(SearchOrder) = Entities
    /\ Cap \in Nat /\ Cap \in Int /\ MaxChanges \in Nat
    /\ \A m \in All : Arm(m) \in Arms /\ LinkOf(m) \in Nat
    /\ \A e \in Entities : Facts[e].popularity \in Nat /\ Place(e) \in Nat
    /\ \A d, e \in Entities : Place(d) = Place(e) => d = e
    /\ \A p \in People : Facts[p].grade \in Nat /\ p \in Entities
<1>1. /\ SearchOrder \in Seq(Entities) /\ Range(SearchOrder) = Entities /\ Cap \in Nat /\ MaxChanges \in Nat
      /\ \A e \in Entities : Facts[e].popularity \in Nat
      /\ \A p \in People : Facts[p].grade \in Nat
  BY ResolveAssumption
<1>2. \A m \in All : Arm(m) \in Arms /\ LinkOf(m) \in Nat
  BY ResolveAssumption DEF All, Range, Arm, LinkOf
<1>3. \A e \in Entities : Place(e) \in DOMAIN SearchOrder /\ SearchOrder[Place(e)] = e
  BY <1>1 DEF Place, PlaceIn, Range
<1>4. \A e \in Entities : Place(e) \in Nat
  BY <1>1, <1>3
<1> QED
  BY <1>1, <1>2, <1>3, <1>4 DEF Entities

LEMMA FiniteEntities == IsFiniteSet(Entities)
<1>1. SearchOrder \in [1..Len(SearchOrder) -> Entities] /\ Len(SearchOrder) \in Nat
  BY Fixed
<1>2. SearchOrder \in Surjection(1..Len(SearchOrder), Entities)
  BY <1>1, Fixed DEF Surjection, Range
<1>3. IsFiniteSet(1..Len(SearchOrder))
  BY <1>1, FS_Interval
<1> QED
  BY <1>2, <1>3, FS_Surjection

LEMMA GradedIs ==
    ASSUME held \subseteq Entities
    PROVE  Graded \in Seq(Entities) /\ Range(Graded) \subseteq held
<1> DEFINE seeds == {p \in Credited : Facts[p].grade > 0}
           order == {pq \in seeds \X seeds : Stronger(pq[1], pq[2])}
<1>1. seeds \subseteq held /\ seeds \subseteq People /\ seeds \subseteq Entities
  BY DEF Credited, Entities
<1>2. Graded = Sorted(seeds, order)
  BY DEF Graded
<1>3. \A p, q \in seeds : <<p, q>> \in order <=> Stronger(p, q)
  OBVIOUS
<1> HIDE DEF seeds, order
<1>4. \A p \in seeds : Facts[p].grade \in Nat /\ Place(p) \in Nat
  BY <1>1, Fixed
<1>5. \A p, q \in seeds : Place(p) = Place(q) => p = q
  BY <1>1, Fixed
<1>6. StrictlyOrders(order, seeds)
  <2>1. \A a \in seeds : <<a, a>> \notin order
    BY <1>3, <1>4 DEF Stronger
  <2>2. \A a, b, c \in seeds : <<a, b>> \in order /\ <<b, c>> \in order => <<a, c>> \in order
    BY <1>3, <1>4 DEF Stronger
  <2>3. \A a, b \in seeds : a # b => <<a, b>> \in order \/ <<b, a>> \in order
    BY <1>3, <1>4, <1>5 DEF Stronger
  <2> QED
    BY <2>1, <2>2, <2>3 DEF StrictlyOrders
<1>7. IsFiniteSet(seeds)
  BY <1>1, FiniteEntities, FS_Subset
<1>8. Sorted(seeds, order) \in Seq(seeds) /\ Range(Sorted(seeds, order)) = seeds
  BY <1>6, <1>7, SortedIs
<1>9. \A t \in Seq(seeds) : t \in Seq(Entities)
  BY <1>1
<1> QED
  BY <1>1, <1>2, <1>8, <1>9

LEMMA HitsAre == ASSUME NEW m PROVE Hits(m) \in Seq(Entities) /\ Range(Hits(m)) \subseteq Entities
<1>1. SearchOrder \in Seq(Entities) /\ Range(SearchOrder) = Entities
  BY Fixed
<1> QED
  BY <1>1, WithinIs DEF Hits

LEMMA ConsideredAre ==
    ASSUME held \subseteq Entities, NEW m, NEW hits \in Seq(Entities)
    PROVE  /\ Considered(m, hits) \in Seq(Entities)
           /\ Range(Considered(m, hits)) \subseteq held \cup recent \cup Range(hits)
<1>1. SearchOrder \in Seq(Entities) /\ Cap \in Nat /\ Cap \in Int
  BY Fixed
<1>2. Graded \in Seq(Entities) /\ Range(Graded) \subseteq held
  BY GradedIs
<1>3. Stream \in Seq(Entities) /\ Range(Stream) \subseteq recent
  BY <1>1, WithinIs DEF Stream
<1>4. Attached \in Seq(Entities) /\ Range(Attached) \subseteq held
  BY <1>1, WithinIs DEF Attached
<1>5. /\ PersonCandidates(Graded, Stream, hits, Cap) \in Seq(Entities)
      /\ Range(PersonCandidates(Graded, Stream, hits, Cap)) \subseteq Range(Graded) \cup Range(Stream) \cup Range(hits)
  BY <1>1, <1>2, <1>3, PersonCandidatesAre
<1>6. /\ OrgCandidates(Attached, hits, Cap) \in Seq(Entities)
      /\ Range(OrgCandidates(Attached, hits, Cap)) \subseteq Range(Attached) \cup Range(hits)
  BY <1>1, <1>4, OrgCandidatesAre
<1> QED
  BY <1>2, <1>3, <1>4, <1>5, <1>6 DEF Considered

-----------------------------------------------------------------------------
(***************************************************************************)
(* Scores and routes.                                                      *)
(***************************************************************************)

LEMMA ScoreIsInt == ASSUME NEW c, NEW w PROVE Score(c, w) \in Int
<1>1. PersonQuality(c) \in Nat /\ OrgQuality(c) \in Nat
  BY DEF PersonQuality, OrgQuality
<1>2. AgePlausibility(c, w) \in {-1, 0, 1}
  BY DEF AgePlausibility
<1>3. DepartmentAgreement(c, w) \in {-1, 0, 1}
  BY DEF DepartmentAgreement
<1>4. /\ Weight.name = 55 /\ Weight.credited = 15 /\ Weight.age = 8 /\ Weight.changed = 8
      /\ Weight.department = 7 /\ Weight.films = 7
  BY DEF Weight
<1>5. PersonScore(c, w) \in Int
  <2> DEFINE a == IF c.credited THEN Weight.credited ELSE 0
             b == IF c.changed THEN Weight.changed ELSE 0
             g == Weight.age * AgePlausibility(c, w)
             d == Weight.department * DepartmentAgreement(c, w)
             f == IF c.films \cap w.films # {} THEN Weight.films ELSE 0
             q == PersonQuality(c)
  <2>1. a \in Int /\ b \in Int /\ f \in Int
    BY <1>4
  <2>2. g \in Int /\ d \in Int
    BY <1>2, <1>3, <1>4
  <2>3. PersonScore(c, w) = q * (Weight.name + (a + b + g + d + f))
    BY DEF PersonScore
  <2>4. q \in Int
    BY <1>1
  <2> HIDE DEF a, b, g, d, f, q
  <2>5. Weight.name + (a + b + g + d + f) \in Int
    BY <1>4, <2>1, <2>2
  <2> QED
    BY <2>3, <2>4, <2>5
<1>6. OrgScore(c, w) \in Int
  <2> DEFINE a == IF c.credited THEN Weight.credited ELSE 0
  <2>1. a \in Int /\ OrgScore(c, w) = OrgQuality(c) * (Weight.name + a)
    BY <1>4 DEF OrgScore
  <2> QED
    BY <1>1, <1>4, <2>1
<1> QED
  BY <1>5, <1>6 DEF Score

\* No answer is more certain than the link of its story.
LEMMA CappedIs ==
    ASSUME NEW score \in Int, NEW link \in Nat
    PROVE  Capped(score, link) \in Int /\ (link # Unknown => Capped(score, link) <= link)
  BY DEF Capped

\* Candidates that their places tell apart can be ranked.
LEMMA RankIs ==
    ASSUME NEW cs, NEW w, IsFiniteSet(cs),
           \A c \in cs : c.popularity \in Int /\ c.place \in Int,
           \A c, d \in cs : c.place = d.place => c = d
    PROVE  Rank(cs, w) \in Seq(cs)
<1> DEFINE order == {p \in cs \X cs : Outranks(p[1], p[2], w)}
<1>1. \A c, d \in cs : <<c, d>> \in order <=> Outranks(c, d, w)
  OBVIOUS
<1>2. Rank(cs, w) = Sorted(cs, order)
  BY DEF Rank
<1> HIDE DEF order
<1>3. \A c \in cs : Score(c, w) \in Int
  BY ScoreIsInt
<1>4. StrictlyOrders(order, cs)
  <2>1. \A a \in cs : <<a, a>> \notin order
    BY <1>1, <1>3 DEF Outranks
  <2>2. \A a, b, c \in cs : <<a, b>> \in order /\ <<b, c>> \in order => <<a, c>> \in order
    BY <1>1, <1>3 DEF Outranks
  <2>3. \A a, b \in cs : a # b => <<a, b>> \in order \/ <<b, a>> \in order
    BY <1>1, <1>3 DEF Outranks
  <2> QED
    BY <2>1, <2>2, <2>3 DEF StrictlyOrders
<1> QED
  BY <1>2, <1>4, SortedIs

-----------------------------------------------------------------------------
(***************************************************************************)
(* The invariant.                                                          *)
(***************************************************************************)

Answers == [path : Paths, entity : Entities \cup {Nobody}, conf : Int]

Certain(answer, m) == LinkOf(m) # Unknown => answer.conf <= LinkOf(m)

\* A mention is undecided, or names an entity the catalog has.
DecisionsHold ==
    /\ decided = [m \in All |-> decided[m]]
    /\ \A m \in All : /\ \/ decided[m] = Undecided
                         \/ decided[m] \in Answers /\ decided[m].entity \in catalog \cup {Nobody}
                      /\ Certain(decided[m], m)

\* The shape of a run.
Recorded(r) ==
    /\ DOMAIN r = {"pc", "arm", "queue", "job", "memo", "asked", "used", "carried"}
    /\ DOMAIN r.job = {"m", "hits", "ranked", "answer", "read"}

\* The mention at hand is nobody else's work: it stays undecided until it is written.
AtHand == run.pc \in {"search", "ask", "write"} => run.job.m \in All /\ decided[run.job.m] = Undecided

\* What a job carries to its transaction is still good there: the catalog only grows.
Carries(job) ==
    /\ job.hits \subseteq Entities /\ job.read \subseteq catalog
    /\ job.answer \in Answers /\ job.answer.entity \in catalog \cup job.hits \cup {Nobody}
    /\ Certain(job.answer, job.m)
    /\ \A i \in DOMAIN job.ranked :
          job.ranked[i].id \in catalog \cup job.hits /\ job.ranked[i].score \in Int

JobIsSound == run.pc \in {"ask", "write"} => Carries(run.job)

\* Of every call, this arm's or the other's, the run knows.
SpendingIsKnown ==
    /\ run.used \in Nat /\ run.carried \in Nat
    /\ run.used = 0 \/ run.asked = TRUE
    /\ run.pc \in {"next", "search", "ask", "write"} =>
          /\ spent = run.carried + run.used
          /\ row = run.carried /\ (run.arm = "person" => run.carried = 0)
    /\ run.pc = "over" => row = spent

IInv ==
    /\ TypeOK /\ CacheIsArithmetic /\ DecisionsHold
    /\ Recorded(run) /\ AtHand /\ JobIsSound /\ SpendingIsKnown

LEMMA DecideIs ==
    ASSUME NEW m \in All, NEW cs, NEW ranked \in Seq(cs), \A c \in cs : c.id \in Entities, NEW empty
    PROVE  /\ Decide(m, ranked, empty) \in Answers /\ Certain(Decide(m, ranked, empty), m)
           /\ Decide(m, ranked, empty).entity \in {Nobody} \cup {c.id : c \in cs}
<1> DEFINE w == Wrote[m]
           path == Route(ranked, w, empty)
           best == Best(ranked, w)
           entity == IF path = "accepted" THEN ranked[1].id ELSE Nobody
           conf == Capped(best, LinkOf(m))
<1>1. best \in Int
  BY ScoreIsInt DEF Best
<1>2. LinkOf(m) \in Nat
  BY Fixed
<1>3. path \in Paths
  BY DEF Route, RoutePerson, RouteOrg, Paths
<1>4. path = "accepted" => ranked # <<>>
  <2>1. path = "accepted" => ~ (best < Floor)
    BY DEF Route, RoutePerson, RouteOrg
  <2>2. ranked = <<>> => best < Floor
    BY DEF Best, Floor
  <2> HIDE DEF best, path
  <2> QED
    BY <2>1, <2>2
<1>5. path = "accepted" => ranked[1] \in cs
  BY <1>4
<1>6. Decide(m, ranked, empty) = [path |-> path, entity |-> entity, conf |-> conf]
  BY DEF Decide
<1>7. conf \in Int /\ (LinkOf(m) # Unknown => conf <= LinkOf(m))
  <2> HIDE DEF best
  <2> QED
    BY <1>1, <1>2, CappedIs
<1> HIDE DEF path, best, conf
<1>8. entity \in {Nobody} \cup {c.id : c \in cs} /\ entity \in Entities \cup {Nobody}
  BY <1>5
<1> HIDE DEF entity
<1> QED
  BY <1>3, <1>6, <1>7, <1>8 DEF Answers, Certain

-----------------------------------------------------------------------------
(***************************************************************************)
(* Steps.                                                                  *)
(***************************************************************************)

LEMMA InitInv == ASSUME Init PROVE IInv
<1>1. /\ linked = Articles /\ held \subseteq Entities /\ recent \subseteq People /\ listed \subseteq Entities
      /\ catalog = held \cup recent /\ dated \subseteq catalog \cap People
      /\ decided = [m \in All |-> Undecided] /\ cache = <<>> /\ run = NoRun /\ spent = 0 /\ row = 0
      /\ changes = 0
  BY DEF Init
<1>2. TypeOK
  BY <1>1, Fixed DEF TypeOK, NoRun, Arms, Entities
<1>3. CacheIsArithmetic
  BY <1>1 DEF CacheIsArithmetic
<1>4. DecisionsHold
  <2>1. \A m \in All : decided[m] = Undecided
    BY <1>1
  <2>2. \A m \in All : LinkOf(m) \in Nat
    BY Fixed
  <2>3. \A m \in All : Certain(decided[m], m)
    BY <2>1, <2>2 DEF Certain, Undecided
  <2> QED
    BY <1>1, <2>1, <2>3 DEF DecisionsHold
<1>5. Recorded(run) /\ AtHand /\ JobIsSound /\ SpendingIsKnown
  BY <1>1 DEF Recorded, AtHand, JobIsSound, SpendingIsKnown, NoRun, NoJob
<1> QED
  BY <1>2, <1>3, <1>4, <1>5 DEF IInv

\* The rest of the world goes on, and the catalog only grows.
LEMMA Elsewhere ==
    ASSUME IInv, UNCHANGED <<dated, decided, cache, run, spent, row>>, catalog \subseteq catalog',
           linked' \subseteq Articles, held' \subseteq catalog', recent' \subseteq catalog' \cap People,
           listed' \subseteq Entities, catalog' \subseteq Entities, changes' \in 0..MaxChanges
    PROVE  IInv'
<1>1. TypeOK'
  <2>1. \A m \in All : \/ decided[m] = Undecided
                       \/ decided[m].path \in Paths /\ decided[m].entity \in catalog' \cup {Nobody}
    BY DEF IInv, TypeOK
  <2> QED
    BY <2>1 DEF IInv, TypeOK
<1>2. CacheIsArithmetic'
  BY DEF IInv, CacheIsArithmetic, Key
<1>3. DecisionsHold'
  <2>1. \A m \in All : /\ \/ decided[m] = Undecided
                          \/ decided[m] \in Answers /\ decided[m].entity \in catalog' \cup {Nobody}
                       /\ Certain(decided[m], m)
    BY DEF IInv, DecisionsHold
  <2>2. decided = [m \in All |-> decided[m]]
    BY DEF IInv, DecisionsHold
  <2> QED
    BY <2>1, <2>2 DEF DecisionsHold, Certain, LinkOf
<1>4. Recorded(run') /\ AtHand' /\ SpendingIsKnown'
  BY DEF IInv, AtHand, SpendingIsKnown
<1>5. JobIsSound'
  <2> SUFFICES ASSUME run.pc \in {"ask", "write"} PROVE Carries(run.job)'
    BY DEF JobIsSound
  <2>1. Carries(run.job)
    BY DEF IInv, JobIsSound
  <2> QED
    BY <2>1 DEF Carries, Certain, LinkOf
<1> QED
  BY <1>1, <1>2, <1>3, <1>4, <1>5 DEF IInv

LEMMA WorldStep ==
    ASSUME IInv, \/ \E e \in Entities : Join(e) \/ Leave(e) \/ Forget(e) \/ List(e)
                 \/ \E s \in Articles : Unlink(s)
    PROVE  IInv'
<1>1. /\ linked \subseteq Articles /\ held \subseteq catalog /\ recent \subseteq catalog \cap People
      /\ listed \subseteq Entities /\ catalog \subseteq Entities /\ changes \in 0..MaxChanges
  BY DEF IInv, TypeOK
<1>2. changes < MaxChanges => changes + 1 \in 0..MaxChanges
  BY <1>1, Fixed
<1>3. UNCHANGED <<dated, decided, cache, run, spent, row>>
  BY DEF Join, Leave, Forget, List, Unlink, Rest
<1>4. changes' \in 0..MaxChanges
  BY <1>2 DEF Join, Leave, Forget, List, Unlink, Changes
<1> DEFINE Grown ==
             /\ linked' \subseteq Articles /\ held' \subseteq catalog' /\ recent' \subseteq catalog' \cap People
             /\ listed' \subseteq Entities /\ catalog' \subseteq Entities /\ catalog \subseteq catalog'
<1>5. Grown
  <2>1. ASSUME NEW e \in Entities, Join(e) PROVE Grown
    BY <1>1, <2>1 DEF Join
  <2>2. ASSUME NEW e \in Entities, Leave(e) PROVE Grown
    BY <1>1, <2>2 DEF Leave, Entities
  <2>3. ASSUME NEW e \in Entities, Forget(e) PROVE Grown
    BY <1>1, <2>3 DEF Forget
  <2>4. ASSUME NEW e \in Entities, List(e) PROVE Grown
    BY <1>1, <2>4 DEF List
  <2>5. ASSUME NEW s \in Articles, Unlink(s) PROVE Grown
    BY <1>1, <2>5 DEF Unlink
  <2> QED
    BY <2>1, <2>2, <2>3, <2>4, <2>5
<1> QED
  BY <1>3, <1>4, <1>5, Elsewhere

\* While nothing is written, only the run and what it cost are at stake.
LEMMA OnlyTheRun ==
    ASSUME IInv, UNCHANGED <<linked, held, recent, listed, catalog, dated, decided, cache>>,
           changes' \in 0..MaxChanges, row' \in Nat, spent' \in Nat,
           run'.pc \in {"idle", "next", "search", "ask", "write", "over"}, run'.arm \in Arms
    PROVE  TypeOK' /\ CacheIsArithmetic' /\ DecisionsHold'
<1>1. TypeOK'
  BY DEF IInv, TypeOK
<1>2. CacheIsArithmetic'
  BY DEF IInv, CacheIsArithmetic, Key
<1>3. DecisionsHold'
  BY DEF IInv, DecisionsHold, Certain, LinkOf
<1> QED
  BY <1>1, <1>2, <1>3

LEMMA NoRunIs ==
    /\ Recorded(NoRun) /\ NoRun.pc = "idle" /\ NoRun.arm = "person"
    /\ NoRun.used = 0 /\ NoRun.carried = 0
  BY DEF NoRun, NoJob, Recorded

\* The mention leaves the queue; nothing of the accounts changes.
LEMMA NextMention ==
    ASSUME NEW r, Recorded(r)
    PROVE  /\ Recorded(Next1(r)) /\ Next1(r).pc = "next" /\ Next1(r).arm = r.arm
           /\ Next1(r).carried = r.carried /\ Next1(r).used = r.used /\ Next1(r).asked = r.asked
  BY DEF Recorded, Next1, NoJob

LEMMA RunStep == ASSUME IInv, StartRun \/ EndArm \/ Kill PROVE IInv'
<1>1. /\ changes \in 0..MaxChanges /\ row \in Nat /\ spent \in Nat /\ MaxChanges \in Nat
      /\ run.pc \in {"idle", "next", "search", "ask", "write", "over"}
  BY Fixed DEF IInv, TypeOK
<1>2. SpendingIsKnown
  BY DEF IInv
<1>3. CASE StartRun
  <2>1. run' = [NoRun EXCEPT !.pc = "next", !.queue = Backlog("person")]
    BY <1>3 DEF StartRun
  <2>2. Recorded(run') /\ run'.pc = "next" /\ run'.arm = "person" /\ run'.carried = 0 /\ run'.used = 0
    BY <2>1, NoRunIs DEF Recorded
  <2>3. /\ UNCHANGED <<linked, held, recent, listed, catalog, dated, decided, cache, changes>>
        /\ spent' = 0 /\ row' = 0
    BY <1>3 DEF StartRun, facts
  <2>4. TypeOK' /\ CacheIsArithmetic' /\ DecisionsHold'
    BY <1>1, <2>2, <2>3, OnlyTheRun DEF Arms
  <2>5. AtHand' /\ JobIsSound' /\ SpendingIsKnown'
    <3>1. AtHand' /\ JobIsSound'
      BY <2>2, <2>3 DEF AtHand, JobIsSound
    <3>2. SpendingIsKnown'
      BY <2>2, <2>3 DEF SpendingIsKnown
    <3> QED
      BY <3>1, <3>2
  <2> QED
    BY <2>2, <2>4, <2>5 DEF IInv
<1>4. CASE EndArm
  <2>1. /\ UNCHANGED <<linked, held, recent, listed, catalog, dated, decided, cache, changes, spent>>
        /\ run.pc = "next" /\ row' = Usage(run)
    BY <1>4 DEF EndArm, facts
  <2>2. row' = run.carried + run.used /\ row' \in Nat /\ row' = spent /\ run.used \in Nat
    BY <1>1, <1>2, <2>1 DEF SpendingIsKnown, Usage
  <2>3. CASE run.arm = "person"
    <3>1. run' = [NoRun EXCEPT !.pc = "next", !.arm = "organisation",
                               !.queue = Backlog("organisation"), !.carried = run.used]
      BY <1>4, <2>3 DEF EndArm
    <3>2. Recorded(run') /\ run'.pc = "next" /\ run'.arm = "organisation" /\ run'.carried = run.used
          /\ run'.used = 0
      BY <3>1, NoRunIs DEF Recorded
    <3>3. TypeOK' /\ CacheIsArithmetic' /\ DecisionsHold'
      BY <1>1, <2>1, <2>2, <3>2, OnlyTheRun DEF Arms
    <3>4. run.carried = 0
      BY <1>2, <2>1, <2>3 DEF SpendingIsKnown
    <3>5. AtHand' /\ JobIsSound' /\ SpendingIsKnown'
      <4>1. AtHand' /\ JobIsSound'
        BY <1>1, <2>1, <2>2, <3>2, <3>4 DEF AtHand, JobIsSound
      <4>2. SpendingIsKnown'
        BY <1>1, <2>1, <2>2, <3>2, <3>4 DEF SpendingIsKnown
      <4> QED
        BY <4>1, <4>2
    <3> QED
      BY <3>2, <3>3, <3>5 DEF IInv
  <2>4. CASE run.arm # "person"
    <3>1. run' = [NoRun EXCEPT !.pc = "over"]
      BY <1>4, <2>4 DEF EndArm
    <3>2. Recorded(run') /\ run'.pc = "over" /\ run'.arm = "person" /\ run'.carried = 0
          /\ run'.used = 0
      BY <3>1, NoRunIs DEF Recorded
    <3>3. TypeOK' /\ CacheIsArithmetic' /\ DecisionsHold'
      BY <1>1, <2>1, <2>2, <3>2, OnlyTheRun DEF Arms
    <3>4. AtHand' /\ JobIsSound' /\ SpendingIsKnown'
      <4>1. AtHand' /\ JobIsSound'
        BY <1>1, <2>1, <2>2, <3>2 DEF AtHand, JobIsSound
      <4>2. SpendingIsKnown'
        BY <1>1, <2>1, <2>2, <3>2 DEF SpendingIsKnown
      <4> QED
        BY <4>1, <4>2
    <3> QED
      BY <3>2, <3>3, <3>4 DEF IInv
  <2> QED
    BY <2>3, <2>4
<1>5. CASE Kill
  <2>1. run' = NoRun
    BY <1>5 DEF Kill
  <2>2. Recorded(run') /\ run'.pc = "idle" /\ run'.arm = "person" /\ run'.carried = 0 /\ run'.used = 0
    BY <2>1, NoRunIs DEF Recorded
  <2>3. /\ UNCHANGED <<linked, held, recent, listed, catalog, dated, decided, cache, row, spent>>
        /\ changes < MaxChanges /\ changes' = changes + 1
    BY <1>5 DEF Kill, Changes
  <2>4. TypeOK' /\ CacheIsArithmetic' /\ DecisionsHold'
    BY <1>1, <2>2, <2>3, OnlyTheRun DEF Arms
  <2>5. AtHand' /\ JobIsSound' /\ SpendingIsKnown'
    <3>1. AtHand' /\ JobIsSound'
      BY <2>2, <2>3 DEF AtHand, JobIsSound
    <3>2. SpendingIsKnown'
      BY <2>2, <2>3 DEF SpendingIsKnown
    <3> QED
      BY <3>1, <3>2
  <2> QED
    BY <2>2, <2>4, <2>5 DEF IInv
<1> QED
  BY <1>3, <1>4, <1>5

LEMMA SameAccounts ==
    ASSUME SpendingIsKnown, UNCHANGED <<spent, row>>,
           run.pc \in {"next", "search", "ask", "write"}, run'.pc \in {"next", "search", "ask", "write"},
           run'.arm = run.arm, run'.carried = run.carried, run'.used = run.used,
           run.asked = TRUE => run'.asked = TRUE
    PROVE  SpendingIsKnown'
  BY DEF SpendingIsKnown

\* What is pending is undecided, and what is undecided is not what is remembered.
LEMMA PendingIs == ASSUME IInv, NEW m \in All, Pending(m) PROVE decided[m] = Undecided
<1>1. decided[m].path = "pending"
  BY DEF Pending
<1>2. decided[m] \in Answers => decided[m].path # "pending"
  BY DEF Answers, Paths
<1> QED
  BY <1>1, <1>2 DEF IInv, DecisionsHold

\* One mention is decided.
LEMMA MentionDecided ==
    ASSUME IInv, NEW m \in All, decided[m] = Undecided, NEW a \in Answers, Certain(a, m),
           decided' = [decided EXCEPT ![m] = a], a.entity \in catalog' \cup {Nobody},
           catalog \subseteq catalog', catalog' \subseteq Entities, dated' \subseteq catalog',
           UNCHANGED <<linked, held, recent, listed, spent, row, changes>>,
           \/ cache' = cache
           \/ a.path = "accepted" /\ cache' = Refreshed(m, a),
           run'.pc \in {"idle", "next", "search", "ask", "write", "over"}, run'.arm \in Arms
    PROVE  TypeOK' /\ CacheIsArithmetic' /\ DecisionsHold'
<1>1. /\ decided = [x \in All |-> decided[x]]
      /\ \A x \in All : /\ \/ decided[x] = Undecided
                           \/ decided[x] \in Answers /\ decided[x].entity \in catalog \cup {Nobody}
                        /\ Certain(decided[x], x)
  BY DEF IInv, DecisionsHold
<1>2. decided'[m] = a /\ \A x \in All : x # m => decided'[x] = decided[x]
  BY <1>1
<1>3. decided' = [x \in All |-> decided'[x]]
  BY <1>1
<1>4. DecisionsHold'
  <2>1. \A x \in All : /\ \/ decided'[x] = Undecided
                          \/ decided'[x] \in Answers /\ decided'[x].entity \in catalog' \cup {Nobody}
                       /\ Certain(decided'[x], x)
    BY <1>1, <1>2
  <2> QED
    BY <1>3, <2>1 DEF DecisionsHold, Certain, LinkOf
<1>5. TypeOK'
  <2>1. \A x \in All : \/ decided'[x] = Undecided
                       \/ decided'[x].path \in Paths /\ decided'[x].entity \in catalog' \cup {Nobody}
    BY <1>1, <1>2 DEF Answers
  <2> QED
    BY <2>1 DEF IInv, TypeOK
<1>6. Undecided.path # "accepted"
  BY DEF Undecided
<1>7. \A k \in DOMAIN cache : \E x \in All :
         /\ Key(x) = k /\ decided'[x].path = "accepted"
         /\ decided'[x].entity = cache[k].entity /\ decided'[x].conf = cache[k].conf
  BY <1>2, <1>6 DEF IInv, CacheIsArithmetic
<1>8. CacheIsArithmetic'
  <2>1. CASE cache' = cache
    BY <1>7, <2>1 DEF CacheIsArithmetic, Key
  <2>2. CASE a.path = "accepted" /\ cache' = Refreshed(m, a)
    <3>1. SUFFICES ASSUME NEW k \in DOMAIN cache'
                   PROVE  \E x \in All : /\ Key(x) = k /\ decided'[x].path = "accepted"
                                         /\ decided'[x].entity = cache'[k].entity
                                         /\ decided'[x].conf = cache'[k].conf
      BY DEF CacheIsArithmetic, Key
    <3>2. k \in DOMAIN cache \cup {Key(m)}
      BY <2>2 DEF Refreshed
    <3>3. k = Key(m) => cache'[k] = [entity |-> a.entity, conf |-> a.conf]
      BY <2>2, <3>2 DEF Refreshed
    <3>4. k # Key(m) => cache'[k] = cache[k]
      BY <2>2, <3>2 DEF Refreshed
    <3>5. CASE k = Key(m)
      BY <1>2, <2>2, <3>3, <3>5
    <3>6. CASE k # Key(m)
      BY <1>7, <3>2, <3>4, <3>6
    <3> QED
      BY <3>5, <3>6
  <2> QED
    BY <2>1, <2>2
<1> QED
  BY <1>4, <1>5, <1>8

LEMMA BeginStep == ASSUME IInv, NEW m \in All, Begin(m) PROVE IInv'
<1>1. /\ changes \in 0..MaxChanges /\ row \in Nat /\ spent \in Nat /\ run.arm \in Arms
      /\ catalog \subseteq Entities /\ dated \subseteq catalog
      /\ Recorded(run) /\ SpendingIsKnown
  BY DEF IInv, TypeOK
<1>2. /\ run.pc = "next"
      /\ UNCHANGED <<linked, held, recent, listed, changes, catalog, dated, cache, spent, row>>
  BY DEF Begin, facts
<1>3. ASSUME run' = Next1(run)
      PROVE  /\ Recorded(run') /\ run'.pc = "next" /\ run'.arm \in Arms
             /\ AtHand' /\ JobIsSound' /\ SpendingIsKnown'
  <2>1. /\ Recorded(run') /\ run'.pc = "next" /\ run'.arm = run.arm /\ run'.carried = run.carried
        /\ run'.used = run.used /\ run'.asked = run.asked
    BY <1>1, <1>3, NextMention
  <2>2. SpendingIsKnown'
    BY <1>1, <1>2, <2>1, SameAccounts
  <2> QED
    BY <1>1, <2>1, <2>2 DEF AtHand, JobIsSound
<1>4. CASE run' = Next1(run) /\ UNCHANGED decided
  BY <1>1, <1>2, <1>3, <1>4, OnlyTheRun DEF IInv
<1>5. CASE Pending(m) /\ Cached(m) /\ decided' = [decided EXCEPT ![m] = CachedDecision(m)] /\ run' = Next1(run)
  <2>1. decided[m] = Undecided
    BY <1>5, PendingIs
  <2>2. PICK x \in All : /\ decided[x].path = "accepted" /\ decided[x].entity = cache[Key(m)].entity
                         /\ decided[x].conf = cache[Key(m)].conf
    BY <1>5 DEF Cached, IInv, CacheIsArithmetic
  <2>3. decided[x] \in Answers /\ decided[x].entity \in catalog \cup {Nobody}
    BY <2>2 DEF IInv, DecisionsHold, Undecided
  <2>4. cache[Key(m)].entity \in catalog \cup {Nobody} /\ cache[Key(m)].conf \in Int
    BY <2>2, <2>3 DEF Answers
  <2>5. LinkOf(m) \in Nat
    BY Fixed
  <2>6. /\ Capped(cache[Key(m)].conf, LinkOf(m)) \in Int
        /\ LinkOf(m) # Unknown => Capped(cache[Key(m)].conf, LinkOf(m)) <= LinkOf(m)
    BY <2>4, <2>5, CappedIs
  <2>7. CachedDecision(m) \in Answers /\ CachedDecision(m).entity \in catalog \cup {Nobody}
        /\ Certain(CachedDecision(m), m)
    BY <1>1, <2>4, <2>6 DEF CachedDecision, Answers, Paths, Certain
  <2> DEFINE a == CachedDecision(m)
  <2>8. a \in Answers /\ a.entity \in catalog' \cup {Nobody} /\ Certain(a, m) /\ decided' = [decided EXCEPT ![m] = a]
    BY <1>2, <1>5, <2>7
  <2> HIDE DEF a
  <2>9. TypeOK' /\ CacheIsArithmetic' /\ DecisionsHold'
    BY <1>1, <1>2, <1>3, <1>5, <2>1, <2>8, MentionDecided
  <2> QED
    BY <1>3, <1>5, <2>9 DEF IInv
<1>6. CASE Pending(m) /\ run' = [run EXCEPT !.pc = "search", !.job.m = m] /\ UNCHANGED decided
  <2>1. /\ Recorded(run') /\ run'.pc = "search" /\ run'.arm = run.arm /\ run'.carried = run.carried
        /\ run'.used = run.used /\ run'.asked = run.asked /\ run'.job.m = m
    BY <1>1, <1>6 DEF Recorded
  <2>2. SpendingIsKnown'
    BY <1>1, <1>2, <2>1, SameAccounts
  <2>3. decided[m] = Undecided
    BY <1>6, PendingIs
  <2>4. AtHand' /\ JobIsSound'
    BY <1>6, <2>1, <2>3 DEF AtHand, JobIsSound
  <2>5. TypeOK' /\ CacheIsArithmetic' /\ DecisionsHold'
    BY <1>1, <1>2, <1>6, <2>1, OnlyTheRun
  <2> QED
    BY <2>1, <2>2, <2>4, <2>5 DEF IInv
<1> QED
  BY <1>4, <1>5, <1>6 DEF Begin

\* Candidates that the catalog or the search knows are judged.
LEMMA JudgedStep ==
    ASSUME IInv, run.pc = "search", NEW m \in All, m = run.job.m,
           NEW hits, Range(hits) \subseteq Entities, NEW cs, NEW ranked \in Seq(cs),
           \A c \in cs : c.id \in catalog \cup Range(hits),
           NEW read, read \subseteq catalog, NEW memo, Judged(m, hits, ranked, read, memo),
           UNCHANGED <<linked, facts, catalog, dated, decided, cache, spent, row>>
    PROVE  IInv'
<1> DEFINE answer == Decide(m, ranked, hits = <<>>)
           job == [m |-> m, hits |-> Range(hits), read |-> read,
                   ranked |-> Scored(ranked, m), answer |-> answer]
           pc == IF answer.path = "tiebreak" THEN "ask" ELSE "write"
<1>1. /\ changes \in 0..MaxChanges /\ row \in Nat /\ spent \in Nat /\ run.arm \in Arms
      /\ catalog \subseteq Entities /\ Recorded(run) /\ SpendingIsKnown /\ decided[m] = Undecided
  BY DEF IInv, TypeOK, AtHand
<1>2. run' = [run EXCEPT !.pc = pc, !.memo = memo, !.job = job]
  BY DEF Judged
<1>3. \A c \in cs : c.id \in Entities
  BY <1>1
<1>4. answer \in Answers /\ Certain(answer, m) /\ answer.entity \in {Nobody} \cup {c.id : c \in cs}
  BY <1>3, DecideIs
<1>5. answer.entity \in catalog \cup Range(hits) \cup {Nobody}
  BY <1>4
<1>6. pc \in {"ask", "write"}
  OBVIOUS
<1>7. \A i \in DOMAIN ranked : ranked[i] \in cs
  OBVIOUS
<1>8. \A i \in DOMAIN Scored(ranked, m) :
         Scored(ranked, m)[i].id \in catalog \cup Range(hits) /\ Scored(ranked, m)[i].score \in Int
  <2> SUFFICES ASSUME NEW i \in DOMAIN Scored(ranked, m)
               PROVE  /\ Scored(ranked, m)[i].id \in catalog \cup Range(hits)
                      /\ Scored(ranked, m)[i].score \in Int
    OBVIOUS
  <2>1. i \in DOMAIN ranked
    BY DEF Scored
  <2>2. Scored(ranked, m)[i] = [id |-> ranked[i].id, score |-> Score(ranked[i], Wrote[m])]
    BY <2>1 DEF Scored
  <2>3. ranked[i].id \in catalog \cup Range(hits)
    BY <1>7, <2>1
  <2>4. Score(ranked[i], Wrote[m]) \in Int
    BY ScoreIsInt
  <2> QED
    BY <2>2, <2>3, <2>4
<1> DEFINE scored == Scored(ranked, m)
           found == Range(hits)
<1>9. \A i \in DOMAIN scored : scored[i].id \in catalog \cup found /\ scored[i].score \in Int
  BY <1>8
<1>10. /\ job.m = m /\ job.hits = found /\ job.read = read /\ job.ranked = scored /\ job.answer = answer
       /\ DOMAIN job = {"m", "hits", "ranked", "answer", "read"}
  <2> HIDE DEF answer, scored, found
  <2>1. DEFINE j == [m |-> m, hits |-> found, read |-> read, ranked |-> scored, answer |-> answer]
  <2>2. j.m = m /\ j.hits = found /\ j.read = read /\ j.ranked = scored /\ j.answer = answer
        /\ DOMAIN j = {"m", "hits", "ranked", "answer", "read"}
    OBVIOUS
  <2> QED
    BY <2>2 DEF found, scored
<1> HIDE DEF answer, scored, found, pc, job
<1>11. found \subseteq Entities /\ answer.entity \in catalog \cup found \cup {Nobody}
  BY <1>5 DEF found
<1>12. /\ Recorded(run') /\ run'.pc = pc /\ run'.arm = run.arm /\ run'.carried = run.carried
       /\ run'.used = run.used /\ run'.asked = run.asked /\ run'.job = job
  BY <1>1, <1>2, <1>10 DEF Recorded
<1>13. Carries(job)
  BY <1>4, <1>9, <1>10, <1>11 DEF Carries
<1>14. UNCHANGED <<linked, held, recent, listed, changes, catalog, dated, decided, cache, spent, row>>
  BY DEF facts
<1>15. JobIsSound' /\ AtHand'
  <2>1. Carries(run.job)'
    BY <1>10, <1>12, <1>13, <1>14 DEF Carries, Certain, LinkOf
  <2>2. JobIsSound'
    BY <2>1 DEF JobIsSound
  <2>3. AtHand'
    BY <1>1, <1>10, <1>12, <1>14 DEF AtHand
  <2> QED
    BY <2>2, <2>3
<1>16. SpendingIsKnown'
  BY <1>1, <1>6, <1>12, <1>14, SameAccounts
<1>17. TypeOK' /\ CacheIsArithmetic' /\ DecisionsHold'
  BY <1>1, <1>6, <1>12, <1>14, OnlyTheRun
<1> QED
  BY <1>12, <1>15, <1>16, <1>17 DEF IInv

LEMMA GatherPersonStep == ASSUME IInv, NEW m \in All, GatherPerson(m) PROVE IInv'
<1>1. /\ run.pc = "search" /\ m = run.job.m
      /\ UNCHANGED <<linked, facts, catalog, dated, decided, cache, spent, row>>
  BY DEF GatherPerson
<1>2. /\ held \subseteq Entities /\ held \cup recent \subseteq catalog
  BY DEF IInv, TypeOK
<1>3. Hits(m) \in Seq(Entities) /\ Range(Hits(m)) \subseteq Entities
  BY HitsAre
<1> DEFINE ids == Range(Considered(m, Hits(m)))
<1>4. ids \subseteq Entities /\ ids \subseteq catalog \cup Range(Hits(m))
  <2>1. /\ Considered(m, Hits(m)) \in Seq(Entities)
        /\ ids \subseteq held \cup recent \cup Range(Hits(m))
    BY <1>2, <1>3, ConsideredAre
  <2> QED
    BY <1>2, <2>1 DEF Range
<1> DEFINE Memo(lost) == [p \in DOMAIN run.memo \cup Asked(ids, m) |->
                            IF p \in DOMAIN run.memo THEN run.memo[p] ELSE p \notin lost]
           Known(lost) == {p \in ids : p \in Stored \/ (p \in DOMAIN Memo(lost) /\ Memo(lost)[p])}
           Cs(lost) == {PersonCandidate(p, m, Known(lost)) : p \in ids}
<1>5. PICK lost : \E ranked \in {Rank(Cs(lost), Wrote[m])} :
                     Judged(m, Hits(m), ranked, (Fetched(ids, m) \ lost) \cap catalog, Memo(lost))
  BY DEF GatherPerson
<1> DEFINE known == Known(lost)
           cs == Cs(lost)
           memo == Memo(lost)
           read == (Fetched(ids, m) \ lost) \cap catalog
           ranked == Rank(cs, Wrote[m])
<1>6. Judged(m, Hits(m), ranked, read, memo) /\ read \subseteq catalog
  BY <1>5
<1>7. cs = {PersonCandidate(p, m, known) : p \in ids}
  OBVIOUS
<1> HIDE DEF ids, Memo, Known, Cs, known, cs, memo, read
<1>8. \A p : /\ PersonCandidate(p, m, known).id = p /\ PersonCandidate(p, m, known).place = Place(p)
             /\ PersonCandidate(p, m, known).popularity = Facts[p].popularity
  BY DEF PersonCandidate
<1>9. /\ IsFiniteSet(cs) /\ \A c \in cs : c.id \in ids /\ c.popularity \in Int /\ c.place \in Int
      /\ \A c, d \in cs : c.place = d.place => c = d
  <2> DEFINE F == [p \in ids |-> PersonCandidate(p, m, known)]
  <2>1. F \in Surjection(ids, cs)
    BY <1>7 DEF Surjection
  <2>2. IsFiniteSet(ids)
    BY <1>4, FiniteEntities, FS_Subset
  <2>3. IsFiniteSet(cs)
    BY <2>1, <2>2, FS_Surjection
  <2>4. \A p \in ids : Facts[p].popularity \in Int /\ Place(p) \in Int
    BY <1>4, Fixed
  <2>5. \A p, q \in ids : Place(p) = Place(q) => p = q
    BY <1>4, Fixed
  <2> QED
    BY <1>7, <1>8, <2>3, <2>4, <2>5
<1>10. ranked \in Seq(cs)
  BY <1>9, RankIs
<1> HIDE DEF ranked
<1>11. \A c \in cs : c.id \in catalog \cup Range(Hits(m))
  BY <1>4, <1>9
<1> QED
  BY <1>1, <1>3, <1>6, <1>10, <1>11, JudgedStep

LEMMA GatherOrgStep == ASSUME IInv, NEW m \in All, GatherOrg(m) PROVE IInv'
<1>1. /\ run.pc = "search" /\ m = run.job.m
      /\ UNCHANGED <<linked, facts, catalog, dated, decided, cache, spent, row>>
  BY DEF GatherOrg
<1>2. /\ held \subseteq Entities /\ held \cup recent \subseteq catalog
  BY DEF IInv, TypeOK
<1>3. Hits(m) \in Seq(Entities) /\ Range(Hits(m)) \subseteq Entities
  BY HitsAre
<1> DEFINE ids == Range(Considered(m, Hits(m)))
           cs == {OrgCandidate(o, m) : o \in ids}
           ranked == Rank(cs, Wrote[m])
<1>4. ids \subseteq Entities /\ ids \subseteq catalog \cup Range(Hits(m))
  <2>1. /\ Considered(m, Hits(m)) \in Seq(Entities)
        /\ ids \subseteq held \cup recent \cup Range(Hits(m))
    BY <1>2, <1>3, ConsideredAre
  <2> QED
    BY <1>2, <2>1 DEF Range
<1>5. Judged(m, Hits(m), ranked, {}, run.memo)
  BY DEF GatherOrg
<1>6. cs = {OrgCandidate(o, m) : o \in ids}
  OBVIOUS
<1> HIDE DEF ids, cs
<1>7. \A o : /\ OrgCandidate(o, m).id = o /\ OrgCandidate(o, m).place = Place(o)
             /\ OrgCandidate(o, m).popularity = Facts[o].popularity
  BY DEF OrgCandidate
<1>8. /\ IsFiniteSet(cs) /\ \A c \in cs : c.id \in ids /\ c.popularity \in Int /\ c.place \in Int
      /\ \A c, d \in cs : c.place = d.place => c = d
  <2> DEFINE F == [o \in ids |-> OrgCandidate(o, m)]
  <2>1. F \in Surjection(ids, cs)
    BY <1>6 DEF Surjection
  <2>2. IsFiniteSet(ids)
    BY <1>4, FiniteEntities, FS_Subset
  <2>3. IsFiniteSet(cs)
    BY <2>1, <2>2, FS_Surjection
  <2>4. \A p \in ids : Facts[p].popularity \in Int /\ Place(p) \in Int
    BY <1>4, Fixed
  <2>5. \A p, q \in ids : Place(p) = Place(q) => p = q
    BY <1>4, Fixed
  <2> QED
    BY <1>6, <1>7, <2>3, <2>4, <2>5
<1>9. ranked \in Seq(cs)
  BY <1>8, RankIs
<1> HIDE DEF ranked
<1>10. \A c \in cs : c.id \in catalog \cup Range(Hits(m))
  BY <1>4, <1>8
<1> QED
  BY <1>1, <1>3, <1>5, <1>9, <1>10, JudgedStep

LEMMA AskStep == ASSUME IInv, NEW m \in All, Ask(m) PROVE IInv'
<1>1. /\ changes \in 0..MaxChanges /\ row \in Nat /\ spent \in Nat /\ run.arm \in Arms /\ catalog \subseteq Entities
      /\ Recorded(run) /\ SpendingIsKnown
  BY DEF IInv, TypeOK
<1>2. /\ run.pc = "ask" /\ m = run.job.m /\ spent' = spent + 1
      /\ UNCHANGED <<linked, held, recent, listed, changes, catalog, dated, decided, cache, row>>
  BY DEF Ask, facts
<1>3. PICK answer \in Replies(run.job) :
        run' = [run EXCEPT !.pc = "write", !.job.answer = answer, !.asked = TRUE, !.used = @ + 1]
  BY DEF Ask
<1>4. Carries(run.job) /\ LinkOf(m) \in Nat
  BY <1>2, Fixed DEF IInv, JobIsSound
<1>5. answer \in Answers /\ answer.entity \in catalog \cup run.job.hits \cup {Nobody} /\ Certain(answer, m)
  <2> DEFINE Good(a) == a \in Answers /\ a.entity \in catalog \cup run.job.hits \cup {Nobody} /\ Certain(a, m)
  <2>1. Good(run.job.answer)
    BY <1>2, <1>4 DEF Carries
  <2>2. Good(Declined(run.job))
    <3>1. run.job.answer \in Answers
      BY <1>4 DEF Carries
    <3>2. Declined(run.job) = [path |-> "unlinked", entity |-> run.job.answer.entity, conf |-> run.job.answer.conf]
      BY <3>1 DEF Declined, Answers
    <3> QED
      BY <2>1, <3>2 DEF Answers, Paths, Certain
  <2>3. ASSUME NEW i \in DOMAIN run.job.ranked PROVE Good(Option(run.job, i))
    <3>1. /\ run.job.ranked[i].id \in catalog \cup run.job.hits /\ run.job.ranked[i].score \in Int
          /\ run.job.hits \subseteq Entities
      BY <1>4 DEF Carries
    <3> DEFINE conf == Capped(run.job.ranked[i].score, LinkOf(m))
               entity == run.job.ranked[i].id
    <3>2. conf \in Int /\ (LinkOf(m) # Unknown => conf <= LinkOf(m))
      BY <1>4, <3>1, CappedIs
    <3>3. Option(run.job, i) = [path |-> "tiebreak", entity |-> entity, conf |-> conf]
      BY <1>2 DEF Option
    <3> HIDE DEF conf
    <3> QED
      BY <1>1, <3>1, <3>2, <3>3 DEF Answers, Paths, Certain
  <2> HIDE DEF Good
  <2>4. Good(answer)
    BY <2>1, <2>2, <2>3 DEF Replies
  <2> QED
    BY <2>4 DEF Good
<1>6. /\ Recorded(run') /\ run'.pc = "write" /\ run'.arm = run.arm /\ run'.carried = run.carried
      /\ run'.used = run.used + 1 /\ run'.asked = TRUE
      /\ run'.job.m = m /\ run'.job.hits = run.job.hits /\ run'.job.ranked = run.job.ranked
      /\ run'.job.answer = answer /\ run'.job.read = run.job.read
  BY <1>1, <1>2, <1>3 DEF Recorded
<1>7. SpendingIsKnown'
  BY <1>1, <1>2, <1>6 DEF SpendingIsKnown
<1>8. JobIsSound'
  <2>1. Carries(run.job)'
    BY <1>2, <1>4, <1>5, <1>6 DEF Carries, Certain, LinkOf
  <2> QED
    BY <2>1 DEF JobIsSound
<1>9. AtHand'
  BY <1>2, <1>6 DEF AtHand, IInv
<1>10. TypeOK' /\ CacheIsArithmetic' /\ DecisionsHold'
  <2>1. spent' \in Nat /\ row' \in Nat /\ changes' \in 0..MaxChanges
    BY <1>1, <1>2
  <2> QED
    BY <1>1, <1>2, <1>6, <2>1, OnlyTheRun
<1> QED
  BY <1>6, <1>7, <1>8, <1>9, <1>10 DEF IInv

LEMMA WriteStep == ASSUME IInv, NEW m \in All, Write(m) PROVE IInv'
<1> DEFINE a == run.job.answer
<1>1. /\ changes \in 0..MaxChanges /\ row \in Nat /\ spent \in Nat /\ run.arm \in Arms /\ catalog \subseteq Entities
      /\ dated \subseteq catalog /\ Recorded(run) /\ SpendingIsKnown
  BY DEF IInv, TypeOK
<1>2. /\ run.pc = "write" /\ m = run.job.m /\ catalog' = Ensured(run.job) /\ dated' = dated \cup run.job.read
      /\ decided' = [decided EXCEPT ![m] = a]
      /\ cache' = IF Remembers(m, a) THEN Refreshed(m, a) ELSE cache
      /\ run' = Next1(run)
      /\ UNCHANGED <<linked, held, recent, listed, changes, spent, row>>
  BY DEF Write, facts
<1>3. Carries(run.job) /\ decided[m] = Undecided
  BY <1>2 DEF IInv, JobIsSound, AtHand
<1>4. /\ Recorded(run') /\ run'.pc = "next" /\ run'.arm = run.arm /\ run'.carried = run.carried
      /\ run'.used = run.used /\ run'.asked = run.asked
  BY <1>1, <1>2, NextMention
<1>5. /\ catalog \subseteq catalog' /\ catalog' \subseteq Entities /\ dated' \subseteq catalog'
      /\ a \in Answers /\ a.entity \in catalog' \cup {Nobody} /\ Certain(a, m)
  BY <1>1, <1>2, <1>3 DEF Ensured, Carries
<1>6. cache' = cache \/ (a.path = "accepted" /\ cache' = Refreshed(m, a))
  BY <1>2 DEF Remembers
<1> HIDE DEF a
<1>7. TypeOK' /\ CacheIsArithmetic' /\ DecisionsHold'
  BY <1>1, <1>2, <1>3, <1>4, <1>5, <1>6, MentionDecided
<1>8. SpendingIsKnown'
  BY <1>1, <1>2, <1>4, SameAccounts
<1>9. AtHand' /\ JobIsSound'
  BY <1>4 DEF AtHand, JobIsSound
<1> QED
  BY <1>4, <1>7, <1>8, <1>9 DEF IInv

LEMMA FailStep == ASSUME IInv, NEW m \in All, Fail(m) PROVE IInv'
<1>1. /\ changes \in 0..MaxChanges /\ row \in Nat /\ spent \in Nat /\ run.arm \in Arms
      /\ Recorded(run) /\ SpendingIsKnown
  BY DEF IInv, TypeOK
<1>2. /\ run.pc \in {"search", "ask", "write"}
      /\ run' = [Next1(run) EXCEPT !.asked = @ \/ run.pc = "ask"]
      /\ UNCHANGED <<linked, held, recent, listed, changes, catalog, dated, decided, cache, spent, row>>
  BY DEF Fail, facts
<1> DEFINE r == Next1(run)
           asked == r.asked \/ run.pc = "ask"
<1>3. /\ Recorded(r) /\ r.pc = "next" /\ r.arm = run.arm /\ r.carried = run.carried
      /\ r.used = run.used /\ r.asked = run.asked
  BY <1>1, NextMention
<1>4. run' = [r EXCEPT !.asked = asked]
  BY <1>2, <1>3 DEF Recorded
<1>5. run.asked = TRUE => asked = TRUE
  BY <1>3, Zenon
<1> HIDE DEF r, asked
<1>6. /\ Recorded(run') /\ run'.pc = "next" /\ run'.arm = run.arm /\ run'.carried = run.carried
      /\ run'.used = run.used /\ run'.asked = asked
  BY <1>3, <1>4 DEF Recorded
<1>7. SpendingIsKnown'
  <2>1. run.asked = TRUE => run'.asked = TRUE
    BY <1>5, <1>6
  <2> QED
    BY <1>1, <1>2, <1>6, <2>1, SameAccounts
<1>8. TypeOK' /\ CacheIsArithmetic' /\ DecisionsHold'
  BY <1>1, <1>2, <1>6, OnlyTheRun
<1>9. AtHand' /\ JobIsSound'
  BY <1>6 DEF AtHand, JobIsSound
<1> QED
  BY <1>6, <1>7, <1>8, <1>9 DEF IInv

LEMMA StepInv == ASSUME IInv, [Next]_vars PROVE IInv'
<1>1. ASSUME NEW m \in All, Begin(m) \/ GatherPerson(m) \/ GatherOrg(m) \/ Ask(m) \/ Write(m) \/ Fail(m)
      PROVE  IInv'
  BY <1>1, BeginStep, GatherPersonStep, GatherOrgStep, AskStep, WriteStep, FailStep
<1>2. CASE UNCHANGED vars
  <2>1. /\ changes' \in 0..MaxChanges /\ catalog \subseteq catalog' /\ linked' \subseteq Articles
        /\ held' \subseteq catalog' /\ recent' \subseteq catalog' \cap People
        /\ listed' \subseteq Entities /\ catalog' \subseteq Entities
    BY <1>2 DEF IInv, TypeOK, vars, facts
  <2> QED
    BY <1>2, <2>1, Elsewhere DEF vars
<1> QED
  BY <1>1, <1>2, RunStep, WorldStep DEF Next

LEMMA Invariant == Spec => []IInv
<1>1. Init => IInv
  BY InitInv
<1>2. IInv /\ [Next]_vars => IInv'
  BY StepInv
<1> QED
  BY <1>1, <1>2, PTL DEF Spec

\* What resolution leaves behind is sound, for any mentions, entities, facts, failures of the
\* search and of the model, and deaths of the process: what is remembered of an outlet is what
\* the arithmetic said of one of its mentions, no mention is more certain than the link of its
\* story, a decision names an entity the catalog has, and the usage row of a run that ends is
\* the sum of what the calls of both its arms cost (link/resolve/pipeline.py, _cache_decision,
\* cap_confidence; ingest/runs.py, record_llm_usage).
THEOREM RecordsAlwaysSound == Spec => []RecordsAreSound
<1>1. IInv => RecordsAreSound
  BY DEF IInv, RecordsAreSound, DecisionsHold, Certain, SpendingIsKnown
<1> QED
  BY <1>1, Invariant, PTL
-----------------------------------------------------------------------------
(***************************************************************************)
(* Stories.                                                                *)
(***************************************************************************)
LEMMA StoriesConstants ==
    /\ Events \subseteq Nat /\ NoEvent \notin Events
    /\ AttachLimit \in Nat /\ Window \in Nat /\ DedupDays \in Nat /\ Recency \in Nat
    /\ MaxGroups \in Nat /\ MaxDay \in Nat /\ MaxDay >= 1 /\ Days \subseteq Nat /\ 0 \in Days /\ 1 \in Days
BY StoriesAssumption DEF Days

\* A set of numbers has a least one, and a set of days a latest.
LEMMA LeastIs ==
    ASSUME NEW S \in SUBSET Nat, S # {}
    PROVE  Least(S) \in S /\ \A v \in S : Least(S) <= v
<1> DEFINE UpTo == {0..u : u \in S}
<1>1. UpTo \subseteq FiniteSubsetsOf(Nat) /\ UpTo # {}
  <2>1. \A u \in S : IsFiniteSet(0..u) /\ 0..u \subseteq Nat
    BY FS_Interval
  <2>2. \A X \in UpTo : IsFiniteSet(X) /\ X \in SUBSET Nat
    BY <2>1, Zenon
  <2>3. UpTo # {}
    OBVIOUS
  <2> HIDE DEF UpTo
  <2> QED
    BY <2>2, <2>3 DEF FiniteSubsetsOf
<1>2. PICK X \in UpTo : \A Y \in UpTo : <<Y, X>> \notin StrictSubsetOrdering(Nat)
  BY <1>1, WFMin, FS_StrictSubsetOrderingWellFounded
<1>3. PICK u \in S : X = 0..u
  BY <1>2, Zenon
<1>4. ASSUME NEW v \in S, v < u PROVE FALSE
  <2>1. 0..v \in UpTo
    BY Zenon
  <2>2. <<0..v, X>> \in StrictSubsetOrdering(Nat)
    BY <1>3, <1>4 DEF StrictSubsetOrdering
  <2> QED
    BY <1>2, <2>1, <2>2
<1>5. \A v \in S : u <= v
  BY <1>4
<1> QED
  BY <1>5, Zenon DEF Least

\* The latest of a set of days: the least of those that are no earlier than any of them.
LEMMA LatestIs ==
    ASSUME NEW D \in SUBSET Days, D # {}
    PROVE  Latest(D) \in D /\ \A d \in D : d <= Latest(D)
<1> DEFINE Above == {m \in Nat : \A x \in D : x <= m}
           u == Least(Above)
<1>1. D \in SUBSET Nat /\ MaxDay \in Above
  BY StoriesConstants DEF Days
<1>2. Above \in SUBSET Nat /\ Above # {}
  BY <1>1
<1>3. u \in Above /\ \A v \in Above : u <= v
  <2> HIDE DEF Above
  <2> QED
    BY <1>2, LeastIs
<1> HIDE DEF u
<1>4. ASSUME u \notin D PROVE FALSE
  <2>1. \A x \in D : x <= u - 1
    BY <1>1, <1>3, <1>4
  <2>2. u - 1 \in Above
    <3>1. PICK x \in D : TRUE
      OBVIOUS
    <3>2. x \in Nat /\ x <= u - 1 /\ u \in Nat
      BY <1>1, <1>3, <2>1
    <3>3. u - 1 \in Nat
      BY <3>2
    <3> QED
      BY <2>1, <3>3
  <2> QED
    BY <1>3, <2>2
<1> QED
  BY <1>1, <1>3, <1>4 DEF Latest
-----------------------------------------------------------------------------
\* The rows of the tables, and the transaction's view of them.
StoryRows == [status : {"absent", "pending", "linked", "rejected"}, manual : BOOLEAN, day : Days]

EventRows == [at : {"absent", "live", "deleted"}, beat : Beats \cup {"none"},
              by : {"none", "story", "catalog"}, day : Days, names : SUBSET Names, move : Days]

DBs == [story : [Stories -> StoryRows], of : [Stories -> Events \cup {NoEvent}],
        event : [Events -> EventRows], uncarded : SUBSET Names, assigned : SUBSET Stories,
        shown : Seq(Events), known : SUBSET Events, failed : BOOLEAN]

\* What was on the film before the answer is still there as it was, but for names it has gained.
Kept(db) ==
    \A e \in Live :
        /\ db.event[e].at = "live" /\ db.event[e].by = event[e].by /\ db.event[e].beat = event[e].beat
        /\ db.event[e].day = event[e].day /\ db.event[e].move = event[e].move

\* No card of the catalog tells of the film's last move.
Untaken ==
    \A x \in Live : event[x].by = "catalog" /\ event[x].beat = "release_date"
                      => ~ Near(event[x].day, Latest(moves))

\* What was not is of a story, and of a date nobody has told.
Added(db) ==
    \A e \in LiveIn(db) \ Live :
        /\ db.event[e].by = "story"
        /\ db.event[e].beat = "release_date" => db.event[e].move = Latest(moves) /\ Untaken

\* It has a source from the answer, unless it is one of E, which have none yet.
Sourced(db, E) ==
    \A e \in LiveIn(db) \ Live : e \in E \/ \E s \in db.assigned : db.of[s] = e

\* Rows are of events that are there, and were not moved.
Placed(db) ==
    /\ db.known \subseteq LiveIn(db)
    /\ \A s \in Stories : db.of[s] # NoEvent => db.of[s] \in LiveIn(db)
    /\ \A s \in Stories : s \notin db.assigned => db.of[s] = of[s]
    /\ ~ db.failed => \A s \in Stories : of[s] # NoEvent => db.of[s] = of[s]

\* No two casting cards share a performer.
OneCardEach(cards, live) ==
    \A e, f \in live :
        cards[e].beat = "casting" /\ cards[f].beat = "casting" /\ cards[e].names \cap cards[f].names # {}
            => e = f

\* A story is as it was, or rejected.
Standing(db) ==
    \A s \in Stories : /\ db.story[s].manual = story[s].manual
                       /\ db.story[s].status \in {story[s].status, "rejected"}
                       /\ s \notin db.assigned => db.story[s] = story[s]

\* What holds of the transaction after any of its groups.
Sound(db, plan, shown, E) ==
    /\ db \in DBs /\ db.assigned \subseteq plan /\ db.shown = shown /\ db.uncarded \subseteq uncarded
    /\ Kept(db) /\ Added(db) /\ Sourced(db, E) /\ Placed(db)
    /\ OneCardEach(db.event, LiveIn(db)) /\ Standing(db)

\* The fields of the view, one by one, for the provers.
DBFields == {"story", "of", "event", "uncarded", "assigned", "shown", "known", "failed"}

Typed(db) ==
    /\ db.story \in [Stories -> StoryRows] /\ db.of \in [Stories -> Events \cup {NoEvent}]
    /\ db.event \in [Events -> EventRows] /\ db.uncarded \in SUBSET Names
    /\ db.assigned \in SUBSET Stories /\ db.shown \in Seq(Events) /\ db.known \in SUBSET Events
    /\ db.failed \in BOOLEAN

LEMMA DBTyped == ASSUME NEW db \in DBs PROVE DOMAIN db = DBFields /\ Typed(db)
BY DEF DBs, DBFields, Typed

LEMMA TypedDB ==
    ASSUME NEW a, NEW b, NEW c, NEW d, NEW e, NEW f, NEW g, NEW h, NEW db,
           db = [story |-> a, of |-> b, event |-> c, uncarded |-> d, assigned |-> e, shown |-> f,
                 known |-> g, failed |-> h],
           Typed(db)
    PROVE  db \in DBs
BY DEF Typed, DBs

\* What joining the stories of a group to e does to the view.
Joined(db, mine, e, j) ==
    /\ j \in DBs /\ j.story = db.story /\ j.event = db.event /\ j.shown = db.shown /\ j.known = db.known
    /\ j.assigned = db.assigned \cup mine /\ j.uncarded \subseteq db.uncarded
    /\ (j.failed <=> (db.failed \/ \E s \in mine : db.of[s] # NoEvent))
    /\ j.of = [s \in Stories |-> IF s \in mine THEN e ELSE db.of[s]]

LEMMA JoinIs ==
    ASSUME NEW db \in DBs, NEW mine \in SUBSET Stories, NEW e \in Events
    PROVE  Joined(db, mine, e, JoinEvent(db, mine, e))
<1>j. PICK j : j = JoinEvent(db, mine, e)
  OBVIOUS
<1>1. PICK failed \in BOOLEAN : failed = (db.failed \/ \E s \in mine : db.of[s] # NoEvent)
  BY DEF DBs
<1>2. PICK owners : owners = [s \in Stories |-> IF s \in mine THEN e ELSE db.of[s]]
  OBVIOUS
<1>3. PICK left : left = IF db.event[e].beat = "casting" THEN db.uncarded \ db.event[e].names ELSE db.uncarded
  OBVIOUS
<1>0. DOMAIN db = DBFields /\ Typed(db)
  BY DBTyped
<1>4. j = [db EXCEPT !.failed = failed, !.of = owners, !.assigned = db.assigned \cup mine, !.uncarded = left]
  BY <1>j, <1>0, <1>1, <1>2, <1>3 DEF JoinEvent, DBFields
<1>5. /\ j.story = db.story /\ j.of = owners /\ j.event = db.event /\ j.uncarded = left
      /\ j.assigned = db.assigned \cup mine /\ j.shown = db.shown /\ j.known = db.known
      /\ j.failed = failed
  BY <1>0, <1>4 DEF DBFields
<1>6. owners \in [Stories -> Events \cup {NoEvent}] /\ left \in SUBSET db.uncarded
  BY <1>0, <1>2, <1>3 DEF Typed
<1>7. Typed(j)
  BY <1>0, <1>1, <1>5, <1>6 DEF Typed
<1>8. j \in DBs
  <2>1. j = [story |-> j.story, of |-> j.of, event |-> j.event, uncarded |-> j.uncarded,
             assigned |-> j.assigned, shown |-> j.shown, known |-> j.known, failed |-> j.failed]
    BY <1>0, <1>4 DEF DBFields
  <2> QED
    BY <1>7, <2>1, TypedDB
<1> QED
  BY <1>j, <1>1, <1>2, <1>5, <1>6, <1>8 DEF Joined

\* Stories that join a card leave the view sound, and the card with a source.
LEMMA JoinIsSound ==
    ASSUME NEW db, NEW plan \in SUBSET Stories, NEW shown, NEW E, Sound(db, plan, shown, E),
           NEW e \in LiveIn(db), NEW mine \in SUBSET (plan \ db.assigned), mine # {}
    PROVE  Sound(JoinEvent(db, mine, e), plan, shown, E \ {e})
<1>1. PICK j : j = JoinEvent(db, mine, e)
  OBVIOUS
<1>2. db \in DBs /\ e \in Events /\ mine \in SUBSET Stories
  BY DEF Sound, LiveIn
<1>3. /\ j \in DBs /\ j.story = db.story /\ j.event = db.event /\ j.shown = db.shown /\ j.known = db.known
      /\ j.assigned = db.assigned \cup mine /\ j.uncarded \subseteq db.uncarded
      /\ (j.failed <=> (db.failed \/ \E s \in mine : db.of[s] # NoEvent))
      /\ j.of = [s \in Stories |-> IF s \in mine THEN e ELSE db.of[s]]
  <2>1. Joined(db, mine, e, j)
    BY <1>1, <1>2, JoinIs
  <2> QED
    BY <2>1 DEF Joined
<1>4. LiveIn(j) = LiveIn(db)
  BY <1>3 DEF LiveIn
<1>5. Kept(j) /\ Added(j) /\ OneCardEach(j.event, LiveIn(j))
  BY <1>3, <1>4 DEF Sound, Kept, Added
<1>6. Standing(j)
  BY <1>3 DEF Sound, Standing
<1>7. Placed(j)
  <2>1. j.known \subseteq LiveIn(j) /\ \A s \in Stories : j.of[s] # NoEvent => j.of[s] \in LiveIn(j)
    BY <1>3, <1>4 DEF Sound, Placed
  <2>2. /\ \A s \in Stories : s \notin db.assigned => db.of[s] = of[s]
        /\ ~ db.failed => \A s \in Stories : of[s] # NoEvent => db.of[s] = of[s]
    BY DEF Sound, Placed
  <2>3. \A s \in Stories : s \notin j.assigned => j.of[s] = of[s]
    BY <1>3, <2>2
  <2>4. ASSUME ~ j.failed, NEW s \in Stories, of[s] # NoEvent PROVE j.of[s] = of[s]
    <3>1. ~ db.failed /\ s \notin mine
      BY <1>3, <2>2, <2>4
    <3> QED
      BY <1>3, <2>2, <2>4, <3>1
  <2> QED
    BY <2>1, <2>3, <2>4 DEF Placed
<1>8. Sourced(j, E \ {e})
  <2> SUFFICES ASSUME NEW x \in LiveIn(j) \ Live, x \notin E \ {e}
               PROVE  \E s \in j.assigned : j.of[s] = x
    BY DEF Sourced
  <2>1. CASE x = e
    BY <1>2, <1>3, <2>1
  <2>2. CASE x # e
    <3>1. PICK s \in db.assigned : db.of[s] = x
      BY <1>4, <2>2 DEF Sound, Sourced
    <3>2. s \in Stories /\ s \notin mine
      BY <1>2 DEF DBs
    <3> QED
      BY <1>3, <3>1, <3>2
  <2> QED
    BY <2>1, <2>2
<1>9. j.assigned \subseteq plan /\ j.shown = shown /\ j.uncarded \subseteq uncarded
  BY <1>3 DEF Sound
<1> QED
  BY <1>1, <1>3, <1>5, <1>6, <1>7, <1>8, <1>9 DEF Sound

\* What rejecting the stories of a group does to the view.
Dropped(db, mine, j) ==
    /\ j \in DBs /\ j.of = db.of /\ j.event = db.event /\ j.shown = db.shown /\ j.known = db.known
    /\ j.assigned = db.assigned \cup mine /\ j.uncarded = db.uncarded /\ (j.failed <=> db.failed)
    /\ j.story = [s \in Stories |-> IF s \in mine THEN [db.story[s] EXCEPT !.status = "rejected"]
                                    ELSE db.story[s]]

LEMMA DropIs ==
    ASSUME NEW db \in DBs, NEW mine \in SUBSET Stories
    PROVE  Dropped(db, mine, Drop(db, mine))
<1>j. PICK j : j = Drop(db, mine)
  OBVIOUS
<1>0. DOMAIN db = DBFields /\ Typed(db)
  BY DBTyped
<1>1. PICK rows : rows = [s \in Stories |-> IF s \in mine THEN [db.story[s] EXCEPT !.status = "rejected"]
                                            ELSE db.story[s]]
  OBVIOUS
<1>2. j = [db EXCEPT !.story = rows, !.assigned = db.assigned \cup mine]
  BY <1>j, <1>0, <1>1 DEF Drop, DBFields
<1>3. /\ j.story = rows /\ j.of = db.of /\ j.event = db.event /\ j.uncarded = db.uncarded
      /\ j.assigned = db.assigned \cup mine /\ j.shown = db.shown /\ j.known = db.known
      /\ j.failed = db.failed
  BY <1>0, <1>2 DEF DBFields
<1>4. rows \in [Stories -> StoryRows]
  BY <1>0, <1>1 DEF Typed, StoryRows
<1>5. Typed(j)
  BY <1>0, <1>3, <1>4 DEF Typed
<1>6. j \in DBs
  <2>1. j = [story |-> j.story, of |-> j.of, event |-> j.event, uncarded |-> j.uncarded,
             assigned |-> j.assigned, shown |-> j.shown, known |-> j.known, failed |-> j.failed]
    BY <1>0, <1>2 DEF DBFields
  <2> QED
    BY <1>5, <2>1, TypedDB
<1> QED
  BY <1>j, <1>1, <1>3, <1>6 DEF Dropped

\* A rejected group leaves the view sound.
LEMMA DropIsSound ==
    ASSUME NEW db, NEW plan \in SUBSET Stories, NEW shown, Sound(db, plan, shown, {}),
           NEW mine \in SUBSET (plan \ db.assigned)
    PROVE  Sound(Drop(db, mine), plan, shown, {})
<1>1. PICK j : j = Drop(db, mine)
  OBVIOUS
<1>2. db \in DBs /\ mine \in SUBSET Stories
  BY DEF Sound
<1>3. Dropped(db, mine, j)
  BY <1>1, <1>2, DropIs
<1>4. LiveIn(j) = LiveIn(db)
  BY <1>3 DEF LiveIn, Dropped
<1>5. Kept(j) /\ Added(j) /\ OneCardEach(j.event, LiveIn(j))
  BY <1>3, <1>4 DEF Sound, Kept, Added, Dropped
<1>6. Placed(j) /\ Sourced(j, {})
  <2>1. j.of = db.of /\ j.known = db.known /\ j.assigned = db.assigned \cup mine /\ (j.failed <=> db.failed)
    BY <1>3 DEF Dropped
  <2> QED
    BY <1>4, <2>1 DEF Sound, Placed, Sourced
<1>7. Standing(j)
  <2> SUFFICES ASSUME NEW s \in Stories
               PROVE  /\ j.story[s].manual = story[s].manual
                      /\ j.story[s].status \in {story[s].status, "rejected"}
                      /\ s \notin j.assigned => j.story[s] = story[s]
    BY DEF Standing
  <2>1. /\ db.story[s].manual = story[s].manual /\ db.story[s].status \in {story[s].status, "rejected"}
        /\ s \notin db.assigned => db.story[s] = story[s]
        /\ db.story[s] \in StoryRows
    BY <1>2, DBTyped DEF Sound, Standing, Typed
  <2>2. CASE s \in mine
    <3>1. j.story[s] = [db.story[s] EXCEPT !.status = "rejected"] /\ s \in j.assigned
      BY <1>3, <2>2 DEF Dropped
    <3> QED
      BY <2>1, <3>1 DEF StoryRows
  <2>3. CASE s \notin mine
    <3>1. j.story[s] = db.story[s] /\ (s \notin j.assigned => s \notin db.assigned)
      BY <1>3, <2>3 DEF Dropped
    <3> QED
      BY <2>1, <3>1
  <2> QED
    BY <2>2, <2>3
<1>8. j.assigned \subseteq plan /\ j.shown = shown /\ j.uncarded \subseteq uncarded /\ j \in DBs
  BY <1>3 DEF Sound, Dropped
<1> QED
  BY <1>1, <1>5, <1>6, <1>7, <1>8 DEF Sound

\* A row of news.event is written, and its event is one the rest of the answer knows of.
Rewritten(db, e, rec, known, j) ==
    /\ j \in DBs /\ j.story = db.story /\ j.of = db.of /\ j.shown = db.shown /\ j.known = known
    /\ j.assigned = db.assigned /\ j.uncarded = db.uncarded /\ (j.failed <=> db.failed)
    /\ j.event = [db.event EXCEPT ![e] = rec]

Rewrite(db, e, rec, known) == [db EXCEPT !.event = [db.event EXCEPT ![e] = rec], !.known = known]

LEMMA RewriteIs ==
    ASSUME NEW db \in DBs, NEW e \in Events, NEW rec \in EventRows, NEW known \in SUBSET Events
    PROVE  Rewritten(db, e, rec, known, Rewrite(db, e, rec, known))
<1> DEFINE rows == [db.event EXCEPT ![e] = rec]
<1>j. PICK j : j = [db EXCEPT !.event = rows, !.known = known]
  OBVIOUS
<1>r. j = Rewrite(db, e, rec, known)
  BY <1>j DEF Rewrite
<1>0. DOMAIN db = DBFields /\ Typed(db)
  BY DBTyped
<1>1. rows \in [Events -> EventRows]
  BY <1>0 DEF Typed
<1> HIDE DEF rows
<1>3. /\ j.story = db.story /\ j.of = db.of /\ j.event = rows /\ j.uncarded = db.uncarded
      /\ j.assigned = db.assigned /\ j.shown = db.shown /\ j.known = known /\ j.failed = db.failed
  BY <1>j, <1>0 DEF DBFields
<1>5. Typed(j)
  BY <1>0, <1>1, <1>3 DEF Typed
<1>6. j \in DBs
  <2>1. j = [story |-> j.story, of |-> j.of, event |-> j.event, uncarded |-> j.uncarded,
             assigned |-> j.assigned, shown |-> j.shown, known |-> j.known, failed |-> j.failed]
    BY <1>j, <1>0 DEF DBFields
  <2> QED
    BY <1>5, <2>1, TypedDB
<1> QED
  BY <1>r, <1>3, <1>6 DEF Rewritten, rows

\* A card that gains names none of the cards has leaves the view sound.
LEMMA ExtendIsSound ==
    ASSUME NEW db, NEW plan \in SUBSET Stories, NEW shown, Sound(db, plan, shown, {}),
           NEW e \in LiveIn(db), NEW names \in SUBSET Names, names \cap RecordedCast(db) = {}
    PROVE  /\ Sound(Extend(db, e, names), plan, shown, {})
           /\ LiveIn(Extend(db, e, names)) = LiveIn(db)
           /\ Extend(db, e, names).assigned = db.assigned
<1>0. DOMAIN db = DBFields /\ Typed(db) /\ db \in DBs /\ e \in Events
  BY DBTyped DEF Sound, LiveIn
<1>1. PICK rec : rec = [db.event[e] EXCEPT !.names = db.event[e].names \cup names]
  OBVIOUS
<1>2. db.event[e] \in EventRows
  BY <1>0 DEF Typed
<1>3. /\ rec \in EventRows /\ rec.names = db.event[e].names \cup names /\ rec.at = db.event[e].at
      /\ rec.beat = db.event[e].beat /\ rec.by = db.event[e].by /\ rec.day = db.event[e].day
      /\ rec.move = db.event[e].move
  BY <1>1, <1>2 DEF EventRows
<1>4. PICK j : j = Extend(db, e, names)
  OBVIOUS
<1>5. j = Rewrite(db, e, rec, db.known)
  BY <1>0, <1>1, <1>4 DEF Extend, Rewrite, DBFields, Typed
<1>6. Rewritten(db, e, rec, db.known, j)
  <2>1. db.known \in SUBSET Events
    BY <1>0 DEF Typed
  <2> QED
    BY <1>0, <1>3, <1>5, <2>1, RewriteIs
<1>7. \A x \in Events : j.event[x] = IF x = e THEN rec ELSE db.event[x]
  BY <1>0, <1>6 DEF Rewritten, Typed
<1>8. LiveIn(j) = LiveIn(db)
  BY <1>3, <1>7 DEF LiveIn
<1>9. Kept(j) /\ Added(j)
  <2>1. \A x \in Events : /\ j.event[x].at = db.event[x].at /\ j.event[x].by = db.event[x].by
                          /\ j.event[x].beat = db.event[x].beat /\ j.event[x].day = db.event[x].day
                          /\ j.event[x].move = db.event[x].move
    BY <1>3, <1>7
  <2> QED
    BY <1>8, <2>1 DEF Sound, Kept, Added, Live, LiveIn
<1>10. OneCardEach(j.event, LiveIn(j))
  <2> SUFFICES ASSUME NEW x \in LiveIn(db), NEW y \in LiveIn(db), x # y,
                      j.event[x].beat = "casting", j.event[y].beat = "casting",
                      NEW n \in j.event[x].names, n \in j.event[y].names
               PROVE  FALSE
    BY <1>8 DEF OneCardEach
  <2>1. x \in Events /\ y \in Events /\ db.event[x].beat = "casting" /\ db.event[y].beat = "casting"
    BY <1>3, <1>7 DEF LiveIn
  <2>2. ~ (n \in db.event[x].names /\ n \in db.event[y].names)
    BY <2>1 DEF Sound, OneCardEach
  <2>3. \A z \in {x, y} : n \in db.event[z].names => n \in RecordedCast(db)
    BY <2>1 DEF RecordedCast
  <2>4. CASE x = e
    <3>1. n \in db.event[y].names
      BY <1>7, <2>1, <2>4
    <3>2. n \in names
      BY <1>3, <1>7, <2>1, <2>2, <2>4, <3>1
    <3> QED
      BY <2>3, <3>1, <3>2
  <2>5. CASE x # e
    <3>1. n \in db.event[x].names
      BY <1>7, <2>1, <2>5
    <3>2. y = e /\ n \in names
      BY <1>3, <1>7, <2>1, <2>2, <3>1
    <3> QED
      BY <2>3, <3>1, <3>2
  <2> QED
    BY <2>4, <2>5
<1>11. Placed(j) /\ Sourced(j, {}) /\ Standing(j)
  <2>1. /\ j.of = db.of /\ j.known = db.known /\ j.assigned = db.assigned /\ (j.failed <=> db.failed)
        /\ j.story = db.story
    BY <1>6 DEF Rewritten
  <2> QED
    BY <1>8, <2>1 DEF Sound, Placed, Sourced, Standing
<1>12. /\ j.assigned = db.assigned /\ j.assigned \subseteq plan /\ j.shown = shown /\ j.uncarded \subseteq uncarded
       /\ j \in DBs
  BY <1>6 DEF Sound, Rewritten
<1> QED
  BY <1>4, <1>8, <1>9, <1>10, <1>11, <1>12 DEF Sound

\* The date of a new card is a day.
LEMMA OldestIs ==
    ASSUME NEW mine \in SUBSET Stories, mine # {}, story \in [Stories -> StoryRows]
    PROVE  Oldest(mine) \in Days
<1> DEFINE days == {story[s].day : s \in mine}
<1>1. \A s \in mine : story[s].day \in Days
  BY DEF StoryRows
<1>2. days \in SUBSET Nat /\ days # {} /\ days \in SUBSET Days
  BY <1>1, StoriesConstants
<1>3. Least(days) \in days
  <2> HIDE DEF days
  <2> QED
    BY <1>2, LeastIs
<1> QED
  BY <1>2, <1>3 DEF Oldest

\* What a group may make a new card of.
Cardworthy(g) ==
    /\ g.beat \in Beats /\ g.names \in SUBSET Names
    /\ g.beat = "release_date" => Corroborated

\* A new card leaves the view sound: its names are on no card, its date was told by none, and
\* the stories it is made of are its sources.
LEMMA CreateIsSound ==
    ASSUME NEW db, NEW plan \in SUBSET Stories, NEW shown, Sound(db, plan, shown, {}),
           NEW mine \in SUBSET (plan \ db.assigned), mine # {}, NEW g, Cardworthy(g),
           g.beat = "release_date" => Untaken,
           NEW names \in SUBSET Names, names \cap RecordedCast(db) = {},
           story \in [Stories -> StoryRows], moves \in SUBSET Days
    PROVE  Sound(Create(db, g, mine, names), plan, shown, {})
<1>0. DOMAIN db = DBFields /\ Typed(db) /\ db \in DBs /\ mine \in SUBSET Stories
  BY DBTyped DEF Sound
<1>1. CASE Unused(db) = {}
  <2>1. PICK j : j = [db EXCEPT !.failed = TRUE]
    OBVIOUS
  <2>2. /\ j.story = db.story /\ j.of = db.of /\ j.event = db.event /\ j.uncarded = db.uncarded
        /\ j.assigned = db.assigned /\ j.shown = db.shown /\ j.known = db.known /\ j.failed = TRUE
    BY <1>0, <2>1 DEF DBFields
  <2>3. Typed(j)
    BY <1>0, <2>2 DEF Typed
  <2>4. j \in DBs
    <3>1. j = [story |-> j.story, of |-> j.of, event |-> j.event, uncarded |-> j.uncarded,
               assigned |-> j.assigned, shown |-> j.shown, known |-> j.known, failed |-> j.failed]
      BY <1>0, <2>1 DEF DBFields
    <3> QED
      BY <2>3, <3>1, TypedDB
  <2>5. LiveIn(j) = LiveIn(db)
    BY <2>2 DEF LiveIn
  <2>6. Sound(j, plan, shown, {})
    BY <2>2, <2>4, <2>5 DEF Sound, Kept, Added, Sourced, Placed, Standing
  <2> QED
    BY <1>1, <2>1, <2>6 DEF Create
<1>2. CASE Unused(db) # {}
  <2>1. PICK e : e = Least(Unused(db))
    OBVIOUS
  <2>2. e \in Events /\ db.event[e].at = "absent" /\ e \notin Live /\ e \notin LiveIn(db)
    <3>1. Unused(db) \in SUBSET Nat
      BY StoriesConstants DEF Unused
    <3>2. e \in Unused(db)
      BY <1>2, <2>1, <3>1, LeastIs
    <3> QED
      BY <3>2 DEF Unused, Sound, Kept, LiveIn
  <2>3. PICK rec : rec = NewCard(g, mine, names)
    OBVIOUS
  <2>5. Oldest(mine) \in Days
    BY <1>0, OldestIs
  <2>6. g.beat = "release_date" => Latest(moves) \in Days
    <3>1. g.beat = "release_date" => moves # {}
      BY DEF Cardworthy, Corroborated
    <3> QED
      BY <3>1, LatestIs
  <2>8. /\ rec \in EventRows /\ rec.at = "live" /\ rec.beat = g.beat /\ rec.by = "story"
        /\ rec.names = names /\ (g.beat = "release_date" => rec.move = Latest(moves))
    BY <2>3, <2>5, <2>6, StoriesConstants DEF NewCard, EventRows, Cardworthy
  <2>9. PICK j : j = [db EXCEPT !.event[e] = rec, !.known = db.known \cup {e}]
    OBVIOUS
  <2>10. Create(db, g, mine, names) = JoinEvent(j, mine, e)
    <3>1. [db EXCEPT !.event[e] = rec, !.known = @ \cup {e}] = j
      BY <1>0, <2>9 DEF DBFields
    <3> QED
      BY <1>2, <2>1, <2>3, <3>1 DEF Create
  <2>11. Rewritten(db, e, rec, db.known \cup {e}, j)
    <3>1. db.known \cup {e} \in SUBSET Events
      BY <1>0, <2>2 DEF Typed
    <3>2. j = Rewrite(db, e, rec, db.known \cup {e})
      BY <1>0, <2>9 DEF Rewrite, DBFields
    <3> QED
      BY <1>0, <2>2, <2>8, <3>1, <3>2, RewriteIs
  <2>12. \A x \in Events : j.event[x] = IF x = e THEN rec ELSE db.event[x]
    BY <1>0, <2>11 DEF Rewritten, Typed
  <2>13. LiveIn(j) = LiveIn(db) \cup {e}
    BY <2>2, <2>8, <2>12 DEF LiveIn
  <2>14. Kept(j)
    BY <2>2, <2>12 DEF Sound, Kept, Live
  <2>15. Added(j)
    <3> SUFFICES ASSUME NEW x \in LiveIn(j) \ Live
                 PROVE  /\ j.event[x].by = "story"
                        /\ j.event[x].beat = "release_date" => j.event[x].move = Latest(moves) /\ Untaken
      BY DEF Added
    <3>1. CASE x = e
      BY <2>2, <2>8, <2>12, <3>1
    <3>2. CASE x # e
      <4>1. x \in LiveIn(db) \ Live /\ x \in Events /\ j.event[x] = db.event[x]
        BY <2>12, <2>13, <3>2 DEF LiveIn
      <4> QED
        BY <4>1 DEF Sound, Added
    <3> QED
      BY <3>1, <3>2
  <2>16. OneCardEach(j.event, LiveIn(j))
    <3> SUFFICES ASSUME NEW x \in LiveIn(j), NEW y \in LiveIn(j), x # y,
                        j.event[x].beat = "casting", j.event[y].beat = "casting",
                        NEW n \in j.event[x].names, n \in j.event[y].names
                 PROVE  FALSE
      BY DEF OneCardEach
    <3>1. \A z \in LiveIn(db) : db.event[z].beat = "casting" /\ n \in db.event[z].names => n \notin names
      BY DEF RecordedCast
    <3>2. x \in Events /\ y \in Events /\ (x = e \/ x \in LiveIn(db)) /\ (y = e \/ y \in LiveIn(db))
      BY <2>13 DEF LiveIn
    <3>3. CASE x = e
      BY <2>8, <2>12, <3>1, <3>2, <3>3
    <3>4. CASE y = e
      BY <2>8, <2>12, <3>1, <3>2, <3>4
    <3>5. CASE x # e /\ y # e
      <4>1. x \in LiveIn(db) /\ y \in LiveIn(db) /\ j.event[x] = db.event[x] /\ j.event[y] = db.event[y]
        BY <2>12, <3>2, <3>5
      <4> QED
        BY <4>1 DEF Sound, OneCardEach
    <3> QED
      BY <3>3, <3>4, <3>5
  <2>17. Placed(j) /\ Sourced(j, {e}) /\ Standing(j)
    <3>1. /\ j.of = db.of /\ j.known = db.known \cup {e} /\ j.assigned = db.assigned
          /\ (j.failed <=> db.failed) /\ j.story = db.story
      BY <2>11 DEF Rewritten
    <3>2. Standing(j)
      BY <3>1 DEF Sound, Standing
    <3>3. Placed(j)
      BY <2>13, <3>1 DEF Sound, Placed
    <3>4. Sourced(j, {e})
      BY <2>13, <3>1 DEF Sound, Sourced
    <3> QED
      BY <3>2, <3>3, <3>4
  <2>18. /\ j.assigned = db.assigned /\ j.assigned \subseteq plan /\ j.shown = shown
         /\ j.uncarded \subseteq uncarded /\ j \in DBs
    BY <2>11 DEF Sound, Rewritten
  <2>19. Sound(j, plan, shown, {e})
    BY <2>14, <2>15, <2>16, <2>17, <2>18 DEF Sound
  <2>20. Sound(JoinEvent(j, mine, e), plan, shown, {e} \ {e})
    BY <2>13, <2>18, <2>19, JoinIsSound
  <2> QED
    <3>1. {e} \ {e} = {}
      OBVIOUS
    <3> QED
      BY <2>10, <2>20, <3>1
<1> QED
  BY <1>1, <1>2

\* No catalog card to join: none tells of the last move.
LEMMA NoTargetIsUntaken ==
    ASSUME NEW db, NEW plan, NEW shown, Sound(db, plan, shown, {}), NEW g,
           g.beat = "release_date", CatalogTargets(db, g) = {}
    PROVE  Untaken
<1> DEFINE match == Duplicated(db, g)
           days == {db.event[e].day : e \in match}
<1>0. Typed(db)
  BY DBTyped DEF Sound
<1>2. \A e \in match : db.event[e].day \in Days
  BY <1>0 DEF Typed, EventRows, LiveIn, Duplicated
<1>3. ASSUME match # {} PROVE FALSE
  <2> HIDE DEF match
  <2>1. days \in SUBSET Days /\ days # {}
    BY <1>2, <1>3
  <2>2. Latest(days) \in days /\ \A d \in days : d <= Latest(days)
    <3> HIDE DEF days
    <3> QED
      BY <2>1, LatestIs
  <2>3. PICK last \in days : \A d \in days : d <= last
    <3> HIDE DEF days
    <3> QED
      BY <2>2
  <2>4. PICK e \in match : db.event[e].day = last
    OBVIOUS
  <2>5. \A x \in match : db.event[x].day <= db.event[e].day
    BY <2>3, <2>4
  <2> QED
    BY <2>4, <2>5 DEF match, CatalogTargets, Newest
<1>4. SUFFICES ASSUME NEW x \in Live, event[x].by = "catalog", event[x].beat = "release_date",
                      Near(event[x].day, Latest(moves))
               PROVE  FALSE
  BY DEF Untaken
<1>5. /\ x \in LiveIn(db) /\ db.event[x].by = "catalog" /\ db.event[x].beat = g.beat
      /\ db.event[x].day = event[x].day
  BY <1>4 DEF Sound, Kept, Live, LiveIn
<1>6. x \in match
  BY <1>4, <1>5 DEF Duplicated
<1> QED
  BY <1>3, <1>6

\* The card a group joins, extends or becomes leaves the view sound.
LEMMA PlaceIsSound ==
    ASSUME NEW db, NEW plan \in SUBSET Stories, NEW shown, Sound(db, plan, shown, {}),
           NEW mine \in SUBSET (plan \ db.assigned), mine # {}, NEW g, Cardworthy(g),
           story \in [Stories -> StoryRows], moves \in SUBSET Days
    PROVE  Sound(PlaceGroup(db, g, mine), plan, shown, {})
<1> DEFINE names == IF g.beat = "casting" THEN g.names \ RecordedCast(db) ELSE {}
<1>1. names \in SUBSET Names /\ names \cap RecordedCast(db) = {}
  BY DEF Cardworthy
<1>2. PICK dedup : dedup = DedupTargets(db, g)
  OBVIOUS
<1>3. PICK repeated : repeated = CatalogTargets(db, g)
  OBVIOUS
<1>4. dedup \subseteq LiveIn(db) /\ repeated \subseteq LiveIn(db)
  BY <1>2, <1>3 DEF Sound, Placed, DedupTargets, CatalogTargets, Duplicated, Newest
<1>5. CASE dedup # {}
  <2>1. PICK e \in LiveIn(db) : e = CHOOSE x \in dedup : TRUE
    BY <1>4, <1>5
  <2>2. PlaceGroup(db, g, mine) = JoinEvent(db, mine, e)
    BY <1>2, <1>5, <2>1 DEF PlaceGroup
  <2>3. Sound(JoinEvent(db, mine, e), plan, shown, {} \ {e})
    BY JoinIsSound
  <2> QED
    <3>1. {} \ {e} = {}
      OBVIOUS
    <3> QED
      BY <2>2, <2>3, <3>1
<1>6. CASE dedup = {} /\ repeated # {}
  <2>1. PICK e \in LiveIn(db) : e = CHOOSE x \in repeated : TRUE
    BY <1>4, <1>6
  <2>2. PICK j : j = Extend(db, e, names)
    OBVIOUS
  <2>3. PlaceGroup(db, g, mine) = JoinEvent(j, mine, e)
    BY <1>2, <1>3, <1>6, <2>1, <2>2 DEF PlaceGroup
  <2>4. Sound(j, plan, shown, {}) /\ LiveIn(j) = LiveIn(db) /\ j.assigned = db.assigned
    <3> HIDE DEF names
    <3> QED
      BY <1>1, <2>2, ExtendIsSound
  <2>5. e \in LiveIn(j) /\ mine \in SUBSET (plan \ j.assigned)
    BY <2>4
  <2>6. Sound(JoinEvent(j, mine, e), plan, shown, {} \ {e})
    BY <2>4, <2>5, JoinIsSound
  <2> QED
    <3>1. {} \ {e} = {}
      OBVIOUS
    <3> QED
      BY <2>3, <2>6, <3>1
<1>7. CASE dedup = {} /\ repeated = {}
  <2>1. \/ PlaceGroup(db, g, mine) = Drop(db, mine)
        \/ PlaceGroup(db, g, mine) = Create(db, g, mine, names)
    BY <1>2, <1>3, <1>7 DEF PlaceGroup
  <2>2. Sound(Drop(db, mine), plan, shown, {})
    BY DropIsSound
  <2>3. g.beat = "release_date" => Untaken
    BY <1>3, <1>7, NoTargetIsUntaken
  <2>4. Sound(Create(db, g, mine, names), plan, shown, {})
    <3> HIDE DEF names
    <3> QED
      BY <1>1, <2>3, CreateIsSound
  <2> QED
    BY <2>1, <2>2, <2>4
<1> QED
  BY <1>5, <1>6, <1>7

\* So does one group, whatever it says.
LEMMA GroupIsSound ==
    ASSUME NEW db, NEW plan \in SUBSET Stories, NEW shown, Sound(db, plan, shown, {}),
           NEW n, NEW g \in Groups(plan, n),
           story \in [Stories -> StoryRows], moves \in SUBSET Days
    PROVE  Sound(ApplyGroup(db, g), plan, shown, {})
<1>1. /\ g.stories \in SUBSET plan /\ g.names \in SUBSET Names
      /\ g.beat \in Beats \cup {"off_topic", "none"}
  BY DEF Groups, Joining, NewBeat
<1>2. PICK mine : mine = g.stories \ db.assigned
  OBVIOUS
<1>3. mine \in SUBSET (plan \ db.assigned)
  BY <1>1, <1>2
<1>4. PICK old : old = Numbered(db.shown, g.existing)
  OBVIOUS
<1>5. old \subseteq LiveIn(db)
  BY <1>4 DEF Sound, Kept, Numbered, Live, LiveIn
<1>6. CASE mine = {}
  BY <1>2, <1>6 DEF ApplyGroup
<1>7. CASE mine # {} /\ old # {}
  <2>1. PICK e \in LiveIn(db) : e = CHOOSE x \in old : TRUE
    BY <1>5, <1>7
  <2>2. ApplyGroup(db, g) = JoinEvent(db, mine, e)
    BY <1>2, <1>4, <1>7, <2>1 DEF ApplyGroup
  <2>3. Sound(JoinEvent(db, mine, e), plan, shown, {} \ {e})
    BY <1>3, <1>7, JoinIsSound
  <2> QED
    <3>1. {} \ {e} = {}
      OBVIOUS
    <3> QED
      BY <2>2, <2>3, <3>1
<1>8. CASE mine # {} /\ old = {}
  <2>1. \/ ApplyGroup(db, g) = db
        \/ ApplyGroup(db, g) = Drop(db, mine)
        \/ Cardworthy(g) /\ ApplyGroup(db, g) = PlaceGroup(db, g, mine)
    <3>1. CASE g.beat = "off_topic"
      BY <1>2, <1>4, <1>8, <3>1 DEF ApplyGroup
    <3>2. CASE g.beat = "none"
      BY <1>2, <1>4, <1>8, <3>2 DEF ApplyGroup
    <3>3. CASE g.beat \notin {"off_topic", "none"} /\ g.beat \in Stale /\ wrapped
      BY <1>2, <1>4, <1>8, <3>3 DEF ApplyGroup, Stale
    <3> QED
      BY <1>1, <1>2, <1>4, <1>8, <3>1, <3>2, <3>3 DEF ApplyGroup, Cardworthy
  <2>2. Sound(Drop(db, mine), plan, shown, {})
    BY <1>3, DropIsSound
  <2>3. Cardworthy(g) => Sound(PlaceGroup(db, g, mine), plan, shown, {})
    BY <1>3, <1>8, PlaceIsSound
  <2> QED
    BY <2>1, <2>2, <2>3
<1> QED
  BY <1>6, <1>7, <1>8

\* The transaction after each of the first n groups.
Writing(f, shown, answer, n) ==
    f = [i \in 0..n |-> IF i = 0 THEN AtStart(shown) ELSE ApplyGroup(f[i - 1], answer[i])]

\* The function that gives the view after each group exists: had it no value for some number of
\* groups, take the least, which is not 0, and extend the function for one group fewer.
LEMMA EachGroupHasItsTurn ==
    ASSUME NEW shown, NEW answer, NEW n \in Nat
    PROVE  \E f : Writing(f, shown, answer, n)
<1> DEFINE Fails == {m \in 0..n : ~ \E f : Writing(f, shown, answer, m)}
<1>1. SUFFICES ASSUME Fails # {} PROVE FALSE
  OBVIOUS
<1>2. Fails \in SUBSET Nat
  OBVIOUS
<1>3. PICK m \in Fails : \A l \in Fails : m <= l
  BY <1>1, <1>2, LeastIs
<1>4. m \in Nat /\ m <= n /\ ~ \E f : Writing(f, shown, answer, m)
  OBVIOUS
<1>5. CASE m = 0
  <2> DEFINE g == [k \in 0..0 |-> AtStart(shown)]
  <2>1. Writing(g, shown, answer, 0)
    BY DEF Writing
  <2> QED
    BY <1>4, <1>5, <2>1
<1>6. CASE m # 0
  <2>1. m - 1 \in 0..n /\ m - 1 \notin Fails
    BY <1>3, <1>4, <1>6
  <2>2. PICK f : Writing(f, shown, answer, m - 1)
    BY <2>1
  <2> DEFINE After(db, k) == ApplyGroup(db, answer[k])
             g == [k \in 0..m |-> IF k = m THEN After(f[m - 1], m) ELSE f[k]]
  <2>3. \A k \in 0..(m - 1) : f[k] = IF k = 0 THEN AtStart(shown) ELSE After(f[k - 1], k)
    BY <2>2 DEF Writing
  <2>4. \A k \in 0..m : g[k] = IF k = 0 THEN AtStart(shown) ELSE After(g[k - 1], k)
    <3> HIDE DEF After
    <3>1. \A k \in 0..(m - 1) : k # m /\ k \in 0..m /\ (k # 0 => k - 1 \in 0..(m - 1))
      BY <1>4, <1>6
    <3>2. \A k \in 0..m : k = m \/ k \in 0..(m - 1)
      BY <1>4
    <3>3. m - 1 \in 0..(m - 1)
      BY <1>4, <1>6
    <3>4. \A k \in 0..(m - 1) : g[k] = f[k]
      BY <3>1
    <3>5. g[m] = After(f[m - 1], m) /\ g[m - 1] = f[m - 1]
      BY <1>4, <3>3, <3>4
    <3>6. \A k \in 0..(m - 1) : g[k] = IF k = 0 THEN AtStart(shown) ELSE After(g[k - 1], k)
      BY <2>3, <3>1, <3>4
    <3> HIDE DEF g
    <3> QED
      BY <1>6, <3>2, <3>5, <3>6
  <2>5. g = [k \in 0..m |-> g[k]]
    OBVIOUS
  <2>6. Writing(g, shown, answer, m)
    <3> HIDE DEF g
    <3> QED
      BY <2>4, <2>5 DEF Writing
  <2> QED
    BY <1>4, <2>6
<1> QED
  BY <1>5, <1>6

\* Written is the last value of such a function.
GroupByGroup(f, shown, answer, n) ==
    /\ f[0] = AtStart(shown) /\ Written(shown, answer) = f[n]
    /\ \A i \in 1..n : f[i] = ApplyGroup(f[i - 1], answer[i])

LEMMA GroupsInTurn ==
    ASSUME NEW shown, NEW answer, Len(answer) \in Nat
    PROVE  \E f : GroupByGroup(f, shown, answer, Len(answer))
<1> DEFINE n == Len(answer)
           f == CHOOSE f : Writing(f, shown, answer, n)
<1>2. Writing(f, shown, answer, n)
  BY EachGroupHasItsTurn
<1>3. Written(shown, answer) = f[n]
  BY DEF Written, Writing
<1> HIDE DEF f, n
<1>4. \A i \in 0..n : f[i] = IF i = 0 THEN AtStart(shown) ELSE ApplyGroup(f[i - 1], answer[i])
  BY <1>2 DEF Writing
<1>5. f[0] = AtStart(shown)
  <2>1. 0 \in 0..n
    BY DEF n
  <2> QED
    BY <1>4, <2>1, Zenon
<1>6. \A i \in 1..n : i \in 0..n /\ i # 0
  BY DEF n
<1> QED
  BY <1>3, <1>4, <1>5, <1>6 DEF GroupByGroup, n

\* The whole answer leaves the view sound: consider the first group that would not.
LEMMA AnswerIsSound ==
    ASSUME NEW plan \in SUBSET Stories, NEW shown, Sound(AtStart(shown), plan, shown, {}),
           NEW n \in Nat, NEW answer \in [1..n -> Groups(plan, Len(shown))],
           story \in [Stories -> StoryRows], moves \in SUBSET Days
    PROVE  Sound(Written(shown, answer), plan, shown, {})
<1>1. Len(answer) = n
  OBVIOUS
<1>2. PICK f : GroupByGroup(f, shown, answer, n)
  BY <1>1, GroupsInTurn
<1>3. /\ f[0] = AtStart(shown) /\ Written(shown, answer) = f[n]
      /\ \A i \in 1..n : f[i] = ApplyGroup(f[i - 1], answer[i])
  BY <1>2 DEF GroupByGroup
<1> DEFINE Fails == {m \in 0..n : ~ Sound(f[m], plan, shown, {})}
<1>4. ASSUME Fails # {} PROVE FALSE
  <2>1. Fails \in SUBSET Nat
    OBVIOUS
  <2>2. PICK m \in Fails : \A l \in Fails : m <= l
    <3> HIDE DEF Fails
    <3> QED
      BY <1>4, <2>1, LeastIs
  <2>3. m # 0 /\ m \in 1..n /\ m - 1 \in 0..n
    BY <1>3
  <2>4. Sound(f[m - 1], plan, shown, {})
    <3>1. m - 1 \notin Fails
      BY <2>2, <2>3
    <3> QED
      BY <2>3, <3>1
  <2>5. Sound(ApplyGroup(f[m - 1], answer[m]), plan, shown, {})
    <3>1. answer[m] \in Groups(plan, Len(shown))
      BY <2>3
    <3> QED
      BY <2>4, <3>1, GroupIsSound
  <2> QED
    BY <1>3, <2>3, <2>5
<1>5. n \in 0..n
  OBVIOUS
<1> QED
  BY <1>3, <1>4, <1>5
-----------------------------------------------------------------------------
(***************************************************************************)
(* What holds of the tables and of the runs.                               *)
(***************************************************************************)

\* Cards and their sources.
Owners ==
    /\ \A e \in Live : event[e].by \in {"story", "catalog"}
    /\ \A e \in Live : event[e].by = "story" => \E s \in Stories : of[s] = e
    /\ \A s \in Stories : of[s] # NoEvent => of[s] \in Live

\* Changes are recorded only of a kind that answers and cards are of.
InScope ==
    /\ moves # {} => "release_date" \in Beats
    /\ uncarded # {} => "casting" \in Beats

\* What a story's status says of its row and of the plans it is in.
Judgements ==
    /\ \A s \in Stories : story[s].manual => story[s].status = "rejected"
    /\ \A s \in Stories : story[s].status \in {"absent", "pending"} => of[s] = NoEvent
    /\ \A r \in Runners : \A s \in pass[r].plan : story[s].status \notin {"absent", "pending"}

\* A run that is alone has no story of a card in hand.
LoneRunner == \A q, r \in Runners : q = r

Alone ==
    LoneRunner => \A s \in Stories : /\ InHand(s) => of[s] = NoEvent
                                     /\ story[s].manual => Off(s)

\* The inductive invariant.
StoriesInv ==
    StoriesTypeOK /\ Owners /\ OneCardEach(event, Live) /\ InScope /\ Judgements /\ Alone

\* What a step may not do, as NoDoubleAnnounce and ModerationStands state it of every step.
AnnouncedOnce ==
    \A a, b \in Events :
        /\ event[a].at = "live" /\ event[a].beat = "release_date" /\ Near(event[a].day, event[a].move)
        /\ event[b].at = "absent" /\ event'[b].at = "live"
        => ~ (/\ event'[b].beat = "release_date" /\ event'[b].move = event[a].move
              /\ event'[b].by # event[a].by)

StaysOff ==
    \A s \in Stories :
        /\ ~ story[s].manual /\ story'[s].manual /\ ~ InHand(s) => Off(s)'
        /\ Off(s) => Off(s)'

\* What is to be shown of every step.
Holds == StoriesInv' /\ AnnouncedOnce /\ StaysOff

PassRows == [at : {"idle", "linking", "clustering", "asked"}, todo : SUBSET Stories,
             shown : Seq(Events), plan : SUBSET Stories]

TextRows == [by : {"none", "template", "model"}, edited : BOOLEAN, from : SUBSET Stories]

\* Steps of the world and of the texts.
LEMMA QuietStep ==
    ASSUME StoriesInv, UNCHANGED <<story, of, event, pass, named>>,
           day' \in Days, wrapped' \in BOOLEAN, moves' \in SUBSET Days, uncarded' \in SUBSET Names,
           InScope', blocked' \in SUBSET Stories, text' \in [Events -> TextRows],
           synth' \in SUBSET [event : Events, from : SUBSET Stories]
    PROVE  Holds
<1>1. StoriesTypeOK'
  BY DEF StoriesInv, StoriesTypeOK, TextRows
<1>2. Owners' /\ OneCardEach(event, Live)' /\ Judgements'
  BY DEF StoriesInv, Owners, OneCardEach, Judgements, Live
<1>3. Live' = Live /\ \A s \in Stories : InHand(s)' <=> InHand(s)
  BY DEF Live, InHand
<1>4. Alone' /\ StaysOff
  BY <1>3 DEF StoriesInv, Alone, Off, StaysOff
<1>5. AnnouncedOnce
  BY DEF AnnouncedOnce
<1> QED
  BY <1>1, <1>2, <1>4, <1>5 DEF Holds, StoriesInv

\* Steps of a link run up to its answer, and what the feeds bring.
LEMMA RunningStep ==
    ASSUME StoriesInv, UNCHANGED <<day, tmdbVars, blocked, of, event, text, synth, named>>,
           story' \in [Stories -> StoryRows], pass' \in [Runners -> PassRows],
           \A s \in Stories :
              \/ story'[s] = story[s]
              \/ story[s].status = "absent" /\ ~ story'[s].manual
              \/ /\ InHand(s) \/ story[s].status = "linked"
                 /\ story'[s].status \in {"linked", "rejected"} /\ ~ story'[s].manual,
           \A s \in Stories :
              InHand(s)' => InHand(s) \/ (of[s] = NoEvent /\ story[s].status \in {"pending", "linked"}),
           \A r \in Runners : \A s \in pass'[r].plan :
              s \in pass[r].plan \/ story'[s].status = "linked"
    PROVE  Holds
<1>1. StoriesTypeOK'
  BY DEF StoriesInv, StoriesTypeOK, PassRows, StoryRows, tmdbVars
<1>2. Owners' /\ OneCardEach(event, Live)' /\ InScope' /\ AnnouncedOnce
  BY DEF StoriesInv, Owners, OneCardEach, InScope, AnnouncedOnce, Live, tmdbVars
<1>3. Judgements'
  <2>1. \A s \in Stories : story'[s].manual => story'[s].status = "rejected"
    BY DEF StoriesInv, Judgements
  <2>2. \A s \in Stories : story'[s].status \in {"absent", "pending"} => of'[s] = NoEvent
    BY DEF StoriesInv, Judgements
  <2>3. ASSUME NEW r \in Runners, NEW s \in pass'[r].plan PROVE story'[s].status \notin {"absent", "pending"}
    <3>1. CASE s \in pass[r].plan
      <4>1. s \in Stories /\ story[s].status \notin {"absent", "pending"}
        BY <3>1 DEF StoriesInv, StoriesTypeOK, Judgements
      <4> QED
        BY <4>1
    <3> QED
      BY <2>3, <3>1
  <2> QED
    BY <2>1, <2>2, <2>3 DEF Judgements
<1>4. \A s \in Stories : Off(s) => Off(s)'
  BY DEF StoriesInv, Judgements, Off
<1>5. \A s \in Stories : story'[s].manual => story[s].manual
  OBVIOUS
<1>6. StaysOff
  BY <1>4, <1>5 DEF StaysOff
<1>7. Alone'
  <2> SUFFICES ASSUME LoneRunner, NEW s \in Stories
               PROVE  (InHand(s)' => of'[s] = NoEvent) /\ (story'[s].manual => Off(s)')
    BY DEF Alone, LoneRunner
  <2> QED
    BY <1>4, <1>5 DEF StoriesInv, Alone
<1> QED
  BY <1>1, <1>2, <1>3, <1>6, <1>7 DEF Holds, StoriesInv

\* Steps that take stories off cards, or put no story on one.
LEMMA CardStep ==
    ASSUME StoriesInv, UNCHANGED <<day, wrapped, moves, blocked, pass, synth, named>>,
           uncarded' \in SUBSET uncarded, story' \in [Stories -> StoryRows],
           of' \in [Stories -> Events \cup {NoEvent}], event' \in [Events -> EventRows],
           text' \in [Events -> TextRows],
           \A s \in Stories :
              \/ story'[s] = story[s]
              \/ /\ of[s] # NoEvent \/ story[s].status = "linked"
                 /\ story'[s].status = "rejected" /\ (story'[s].manual => of[s] # NoEvent /\ of'[s] = NoEvent),
           \A s \in Stories : of'[s] \in {of[s], NoEvent},
           Owners', OneCardEach(event, Live)', AnnouncedOnce
    PROVE  Holds
<1>1. StoriesTypeOK'
  BY DEF StoriesInv, StoriesTypeOK, StoryRows, EventRows, TextRows
<1>2. InScope'
  BY DEF StoriesInv, InScope
<1>3. Judgements'
  <2>1. \A s \in Stories : story'[s].manual => story'[s].status = "rejected"
    BY DEF StoriesInv, Judgements
  <2>2. \A s \in Stories : story'[s].status \in {"absent", "pending"} => of'[s] = NoEvent
    BY DEF StoriesInv, Judgements
  <2>3. ASSUME NEW r \in Runners, NEW s \in pass'[r].plan PROVE story'[s].status \notin {"absent", "pending"}
    <3>1. s \in Stories /\ story[s].status \notin {"absent", "pending"}
      BY <2>3 DEF StoriesInv, StoriesTypeOK, Judgements
    <3> QED
      BY <3>1
  <2> QED
    BY <2>1, <2>2, <2>3 DEF Judgements
<1>4. \A s \in Stories : InHand(s)' <=> InHand(s)
  BY DEF InHand
<1>5. \A s \in Stories : Off(s) => Off(s)'
  BY <1>4 DEF StoriesInv, Judgements, Off
<1>6. \A s \in Stories : story'[s].manual => story[s].manual \/ (of[s] # NoEvent /\ of'[s] = NoEvent)
  OBVIOUS
<1>7. StaysOff
  BY <1>4, <1>5, <1>6 DEF StaysOff, Off
<1>8. Alone'
  <2> SUFFICES ASSUME LoneRunner, NEW s \in Stories
               PROVE  (InHand(s)' => of'[s] = NoEvent) /\ (story'[s].manual => Off(s)')
    BY DEF Alone, LoneRunner
  <2>1. InHand(s)' => of'[s] = NoEvent
    BY <1>4 DEF StoriesInv, Alone
  <2>2. CASE story[s].manual
    BY <1>5, <2>1, <2>2 DEF StoriesInv, Alone
  <2>3. CASE ~ story[s].manual
    BY <1>4, <1>6, <2>1, <2>3 DEF StoriesInv, Alone, Off
  <2> QED
    BY <2>1, <2>2, <2>3
<1> QED
  BY <1>1, <1>2, <1>3, <1>7, <1>8 DEF Holds, StoriesInv

\* The types, one variable at a time.
LEMMA Types ==
    ASSUME StoriesInv
    PROVE  /\ day \in Days /\ wrapped \in BOOLEAN /\ moves \in SUBSET Days /\ uncarded \in SUBSET Names
           /\ blocked \in SUBSET Stories /\ story \in [Stories -> StoryRows]
           /\ of \in [Stories -> Events \cup {NoEvent}] /\ event \in [Events -> EventRows]
           /\ text \in [Events -> TextRows] /\ pass \in [Runners -> PassRows]
           /\ synth \in SUBSET [event : Events, from : SUBSET Stories]
           /\ named \in [Stories -> Events \cup {NoEvent}] /\ InScope
BY DEF StoriesInv, StoriesTypeOK, StoryRows, EventRows, TextRows, PassRows

\* The world, the texts and what the sweep records.
LEMMA FeedStep ==
    ASSUME StoriesInv,
           \/ NextDay \/ Wrap \/ MoveDate \/ SelectPending
           \/ \E s \in Stories : SetBlocked(s)
           \/ \E e \in Events : EditSummary(e) \/ ResetSummary(e)
           \/ \E n \in Names : AttachCredit(n)
           \/ \E w \in synth : UpsertSummary(w) \/ SummarizeFails(w)
    PROVE  Holds
<1>1. CASE NextDay
  <2>1. day' \in Days
    BY <1>1, Types, StoriesConstants DEF NextDay, Days
  <2> QED
    BY <1>1, <2>1, Types, QuietStep DEF NextDay, tmdbVars, newsVars, InScope
<1>2. CASE Wrap
  BY <1>2, Types, QuietStep DEF Wrap, newsVars, InScope
<1>3. CASE MoveDate
  <2>1. moves' \in SUBSET Days /\ InScope'
    BY <1>3, Types DEF MoveDate, InScope
  <2> QED
    BY <1>3, <2>1, Types, QuietStep DEF MoveDate, newsVars
<1>4. CASE SelectPending
  <2>1. synth' \in SUBSET [event : Events, from : SUBSET Stories]
    BY <1>4 DEF SelectPending, Live, Sources
  <2> QED
    BY <1>4, <2>1, Types, QuietStep DEF SelectPending, tmdbVars, newsVars, InScope
<1>5. ASSUME NEW s \in Stories, SetBlocked(s) PROVE Holds
  <2>1. blocked' \in SUBSET Stories
    BY <1>5, Types DEF SetBlocked
  <2> QED
    BY <1>5, <2>1, Types, QuietStep DEF SetBlocked, tmdbVars, newsVars, InScope
<1>6. ASSUME NEW e \in Events, EditSummary(e) \/ ResetSummary(e) PROVE Holds
  <2>1. PICK rec \in TextRows : text' = [text EXCEPT ![e] = rec]
    <3>1. text[e] \in TextRows /\ NoText \in TextRows
      BY Types DEF TextRows, NoText
    <3>2. [text[e] EXCEPT !.edited = TRUE] \in TextRows
      BY <3>1 DEF TextRows
    <3> QED
      BY <1>6, <3>1, <3>2 DEF EditSummary, ResetSummary
  <2>2. text' \in [Events -> TextRows]
    BY <2>1, Types
  <2> QED
    BY <1>6, <2>2, Types, QuietStep DEF EditSummary, ResetSummary, tmdbVars, InScope
<1>7. ASSUME NEW n \in Names, AttachCredit(n) PROVE Holds
  <2>1. uncarded' \in SUBSET Names /\ InScope'
    BY <1>7, Types DEF AttachCredit, InScope
  <2> QED
    BY <1>7, <2>1, Types, QuietStep DEF AttachCredit, newsVars
<1>8. ASSUME NEW w \in synth, UpsertSummary(w) \/ SummarizeFails(w) PROVE Holds
  <2>1. synth' \in SUBSET [event : Events, from : SUBSET Stories]
    BY <1>8, Types DEF UpsertSummary, SummarizeFails
  <2>2. w.event \in Events /\ w.from \in SUBSET Stories
    BY Types
  <2>3. text' \in [Events -> TextRows]
    BY <1>8, <2>2, Types DEF UpsertSummary, SummarizeFails, TextRows, newsVars
  <2> QED
    BY <1>8, <2>1, <2>3, Types, QuietStep DEF UpsertSummary, SummarizeFails, tmdbVars, newsVars, InScope
<1> QED
  BY <1>1, <1>2, <1>3, <1>4, <1>5, <1>6, <1>7, <1>8

\* A story leaves a run's list, and may have been judged.
LEMMA JudgeStep ==
    ASSUME StoriesInv, NEW r \in Runners, NEW s \in Stories,
           RejectUnmatched(r, s) \/ Judge(r, s) \/ JudgeFails(r, s)
    PROVE  Holds
<1>1. /\ UNCHANGED <<day, tmdbVars, blocked, of, event, text, synth, named>> /\ s \in pass[r].todo
      /\ pass' = [pass EXCEPT ![r].todo = @ \ {s}]
  BY DEF RejectUnmatched, Judge, JudgeFails, newsVars
<1>2. pass' \in [Runners -> PassRows] /\ \A q \in Runners : /\ pass'[q].plan = pass[q].plan
                                                            /\ pass'[q].todo \subseteq pass[q].todo
  BY <1>1, Types DEF PassRows
<1>3. \A q \in Stories : InHand(q)' => InHand(q)
  BY <1>2 DEF InHand
<1>4. InHand(s)
  BY <1>1 DEF InHand
<1>5. PICK rec \in StoryRows : /\ story' = [story EXCEPT ![s] = rec]
                               /\ \/ rec = story[s]
                                  \/ rec.status \in {"linked", "rejected"} /\ ~ rec.manual
  <2>1. story[s] \in StoryRows
    BY Types
  <2>2. CASE JudgeFails(r, s)
    BY <2>1, <2>2, Types DEF JudgeFails, newsVars
  <2>3. /\ Rejected(s) \in StoryRows /\ Rejected(s).status = "rejected" /\ ~ Rejected(s).manual
    BY <2>1 DEF Rejected, StoryRows
  <2>4. CASE story' = [story EXCEPT ![s] = Rejected(s)]
    BY <2>3, <2>4
  <2>5. CASE story' = [story EXCEPT ![s].status = "linked", ![s].manual = FALSE]
    <3> DEFINE rec == [story[s] EXCEPT !.status = "linked", !.manual = FALSE]
    <3>1. rec \in StoryRows /\ rec.status = "linked" /\ ~ rec.manual
      BY <2>1 DEF StoryRows
    <3>2. story' = [story EXCEPT ![s] = rec]
      BY <2>5, Types
    <3> QED
      BY <3>1, <3>2
  <2> QED
    BY <2>2, <2>4, <2>5 DEF RejectUnmatched, Judge
<1>6. story' \in [Stories -> StoryRows]
  BY <1>5, Types
<1>7. \A q \in Stories : \/ story'[q] = story[q]
                         \/ InHand(q) /\ story'[q].status \in {"linked", "rejected"} /\ ~ story'[q].manual
  BY <1>4, <1>5, Types
<1> QED
  BY <1>1, <1>2, <1>3, <1>6, <1>7, RunningStep

\* A story is fetched, or a run goes on to its next stage or ends.
LEMMA LinkStep ==
    ASSUME StoriesInv,
           \/ \E s \in Stories : Fetch(s)
           \/ \E r \in Runners : \/ StartLink(r) \/ GateSources(r) \/ AskCluster(r)
                                 \/ NothingToCluster(r) \/ LinkDies(r)
    PROVE  Holds
<1>r. Resting \in PassRows /\ Resting.todo = {} /\ Resting.plan = {}
  BY DEF Resting, PassRows
<1>1. ASSUME NEW s \in Stories, Fetch(s) PROVE Holds
  <2>1. /\ UNCHANGED <<day, tmdbVars, blocked, of, event, text, synth, named, pass>>
        /\ story[s].status = "absent" /\ story[s].manual = FALSE
    BY <1>1, Types DEF Fetch, StoriesInv, Judgements, StoryRows
  <2>2. story' \in [Stories -> StoryRows] /\ ~ story'[s].manual
        /\ \A q \in Stories : q # s => story'[q] = story[q]
    BY <1>1, <2>1, Types DEF Fetch, StoryRows
  <2>3. \A q \in Stories : InHand(q)' <=> InHand(q)
    BY <2>1 DEF InHand
  <2> QED
    BY <2>1, <2>2, <2>3, Types, RunningStep
<1>2. ASSUME NEW r \in Runners, StartLink(r) PROVE Holds
  <2>1. /\ UNCHANGED <<day, tmdbVars, blocked, of, event, text, synth, named, story>>
        /\ pass' = [pass EXCEPT ![r].at = "linking", ![r].todo = ReadPending]
    BY <1>2 DEF StartLink, newsVars
  <2>2. \A s \in ReadPending : s \in Stories /\ story[s].status = "pending" /\ of[s] = NoEvent
    BY DEF ReadPending, StoriesInv, Judgements
  <2>3. ReadPending \in SUBSET Stories
    BY DEF ReadPending
  <2> HIDE DEF ReadPending
  <2>4. /\ pass' \in [Runners -> PassRows]
        /\ \A q \in Runners : pass'[q].plan = pass[q].plan /\ pass'[q].todo \in {pass[q].todo, ReadPending}
    <3>1. PICK rec : rec = [pass[r] EXCEPT !.at = "linking", !.todo = ReadPending]
      OBVIOUS
    <3>2. pass[r] \in PassRows
      BY Types
    <3>3. rec \in PassRows /\ rec.plan = pass[r].plan /\ rec.todo = ReadPending
      BY <2>3, <3>1, <3>2 DEF PassRows
    <3>4. pass' = [pass EXCEPT ![r] = rec]
      BY <2>1, <3>1, Types
    <3> QED
      BY <3>3, <3>4, Types
  <2>5. \A s \in Stories : InHand(s)' => InHand(s) \/ (of[s] = NoEvent /\ story[s].status = "pending")
    BY <2>2, <2>4 DEF InHand
  <2> QED
    BY <2>1, <2>4, <2>5, Types, RunningStep
<1>3. ASSUME NEW r \in Runners, GateSources(r) PROVE Holds
  <2>1. /\ UNCHANGED <<day, tmdbVars, blocked, of, event, text, synth, named>>
        /\ pass' = [pass EXCEPT ![r].at = "clustering"]
    BY <1>3 DEF GateSources
  <2>2. story' = [s \in Stories |-> IF s \in Unclustered \cap blocked THEN Rejected(s) ELSE story[s]]
    BY <1>3 DEF GateSources
  <2>3. \A s \in Stories : /\ Rejected(s) \in StoryRows /\ Rejected(s).status = "rejected"
                           /\ ~ Rejected(s).manual
    BY Types DEF Rejected, StoryRows
  <2>4. story' \in [Stories -> StoryRows]
    BY <2>2, <2>3, Types
  <2>5. \A s \in Stories : \/ story'[s] = story[s]
                           \/ /\ story[s].status = "linked"
                              /\ story'[s].status = "rejected" /\ ~ story'[s].manual
    BY <2>2, <2>3 DEF Unclustered
  <2>6. /\ pass' \in [Runners -> PassRows]
        /\ \A q \in Runners : pass'[q].plan = pass[q].plan /\ pass'[q].todo = pass[q].todo
    BY <2>1, Types DEF PassRows
  <2>7. \A s \in Stories : InHand(s)' <=> InHand(s)
    BY <2>6 DEF InHand
  <2> QED
    BY <2>1, <2>4, <2>5, <2>6, <2>7, RunningStep
<1>4. ASSUME NEW r \in Runners, AskCluster(r) PROVE Holds
  <2>1. UNCHANGED <<day, tmdbVars, blocked, of, event, text, synth, named, story>>
    BY <1>4 DEF AskCluster, newsVars
  <2>2. PICK es \in SeqOf(Live, AttachLimit) :
           pass' = [pass EXCEPT ![r] = [at |-> "asked", todo |-> {}, shown |-> es, plan |-> ClusterPlan]]
    BY <1>4 DEF AskCluster
  <2>3. es \in Seq(Events)
    BY <2>2, StoriesConstants DEF SeqOf, Live
  <2>4. ClusterPlan \in SUBSET Stories
    BY DEF ClusterPlan, Unclustered
  <2>5. /\ pass' \in [Runners -> PassRows]
        /\ \A q \in Runners : \/ pass'[q].plan = pass[q].plan /\ pass'[q].todo = pass[q].todo
                              \/ pass'[q].plan = ClusterPlan /\ pass'[q].todo = {}
    BY <2>2, <2>3, <2>4, Types DEF PassRows
  <2>6. \A s \in ClusterPlan : s \in Stories /\ of[s] = NoEvent /\ story[s].status = "linked"
    BY DEF ClusterPlan, Unclustered
  <2>7. \A s \in Stories : InHand(s)' => InHand(s) \/ (of[s] = NoEvent /\ story[s].status = "linked")
    BY <2>5, <2>6 DEF InHand
  <2>8. \A q \in Runners : \A s \in pass'[q].plan : s \in pass[q].plan \/ story'[s].status = "linked"
    BY <2>1, <2>5, <2>6
  <2> QED
    BY <2>1, <2>5, <2>7, <2>8, Types, RunningStep
<1>5. ASSUME NEW r \in Runners, NothingToCluster(r) \/ LinkDies(r) PROVE Holds
  <2>1. UNCHANGED <<day, tmdbVars, blocked, of, event, text, synth, named, story>>
    BY <1>5 DEF NothingToCluster, LinkDies, newsVars
  <2>2. pass' = [pass EXCEPT ![r] = Resting]
    BY <1>5 DEF NothingToCluster, LinkDies
  <2>3. /\ pass' \in [Runners -> PassRows]
        /\ \A q \in Runners : pass'[q].plan \subseteq pass[q].plan /\ pass'[q].todo \subseteq pass[q].todo
    BY <1>r, <2>2, Types
  <2>4. \A s \in Stories : InHand(s)' => InHand(s)
    BY <2>3 DEF InHand
  <2> QED
    BY <2>1, <2>3, <2>4, Types, RunningStep
<1> QED
  BY <1>1, <1>2, <1>3, <1>4, <1>5

\* The cards of E go, with their rows; the others stay, and keep a source.
Removes(E) ==
    /\ \A x \in Events : event'[x].at = "live" => x \in Live \ E
    /\ \A x \in Live \ E : /\ event'[x].at = "live" /\ event'[x].by = event[x].by
                           /\ event'[x].beat = event[x].beat /\ event'[x].names = event[x].names
                           /\ (\E s \in Stories : of[s] = x) => (\E s \in Stories : of'[s] = x)
    /\ \A s \in Stories : of'[s] \in {of[s], NoEvent} /\ (of[s] \in E => of'[s] = NoEvent)

\* Removing cards keeps what is said of those that stay.
LEMMA RemovalKeepsOwners ==
    ASSUME StoriesInv, event' \in [Events -> EventRows], NEW E, Removes(E)
    PROVE  Owners' /\ OneCardEach(event, Live)' /\ AnnouncedOnce
<1>1. Live' = Live \ E
  BY DEF Removes, Live
<1>2. Owners'
  BY <1>1 DEF StoriesInv, Owners, Removes
<1>3. OneCardEach(event, Live)'
  BY <1>1 DEF StoriesInv, OneCardEach, Removes
<1>4. AnnouncedOnce
  BY DEF AnnouncedOnce, Live, Removes
<1> QED
  BY <1>2, <1>3, <1>4

LEMMA DeletedCard == LET gone == [NoEvt EXCEPT !.at = "deleted"]
                     IN  gone \in EventRows /\ gone.at = "deleted"
BY StoriesConstants DEF NoEvt, EventRows

LEMMA ByTheModerator ==
    ASSUME StoriesInv, NEW s \in Stories
    PROVE  RejectedBy(s) \in StoryRows /\ RejectedBy(s).status = "rejected"
BY Types DEF RejectedBy, StoryRows

LEMMA DeletingIs ==
    ASSUME StoriesInv, NEW E \in SUBSET Events, Deleting(E)
    PROVE  /\ event' \in [Events -> EventRows] /\ of' \in [Stories -> Events \cup {NoEvent}]
           /\ \A x \in Events : event'[x].at = "live" => x \in Live \ E
           /\ \A x \in Live \ E : event'[x] = event[x]
           /\ \A s \in Stories : of'[s] = IF of[s] \in E THEN NoEvent ELSE of[s]
<1> DEFINE gone == [NoEvt EXCEPT !.at = "deleted"]
<1>1. gone \in EventRows /\ gone.at = "deleted"
  BY DeletedCard
<1>2. event' = [e \in Events |-> IF e \in E THEN gone ELSE event[e]]
  BY DEF Deleting
<1> HIDE DEF gone
<1>3. /\ event' \in [Events -> EventRows] /\ \A x \in Events : event'[x].at = "live" => x \in Live \ E
      /\ \A x \in Live \ E : event'[x] = event[x]
  BY <1>1, <1>2, Types DEF Live
<1>4. of' \in [Stories -> Events \cup {NoEvent}]
      /\ \A s \in Stories : of'[s] = IF of[s] \in E THEN NoEvent ELSE of[s]
  BY Types DEF Deleting
<1> QED
  BY <1>3, <1>4

LEMMA Untexted == NoText \in TextRows
BY DEF NoText, TextRows

\* The moderator takes one story off its card, which goes if it was the only one.
LEMMA DelinkStep ==
    ASSUME StoriesInv, NEW s \in Stories, Delink(s)
    PROVE  Holds
<1> DEFINE e == of[s]
<1>1. e # NoEvent /\ e \in Live /\ e \in Events
  BY DEF Delink, StoriesInv, Owners, Live
<1>2. story' \in [Stories -> StoryRows] /\ story'[s].status = "rejected"
      /\ \A q \in Stories : q # s => story'[q] = story[q]
  BY ByTheModerator, Types DEF Delink
<1>3. text' \in [Events -> TextRows] /\ UNCHANGED <<day, tmdbVars, blocked, pass, synth, named>>
  BY Untexted, Types DEF Delink
<1>4. CASE Sources(e) = {s}
  <2>1. {e} \in SUBSET Events /\ Deleting({e})
    BY <1>1, <1>4 DEF Delink
  <2>2. /\ event' \in [Events -> EventRows] /\ of' \in [Stories -> Events \cup {NoEvent}]
        /\ \A x \in Events : event'[x].at = "live" => x \in Live \ {e}
        /\ \A x \in Live \ {e} : event'[x] = event[x]
        /\ \A q \in Stories : of'[q] = IF of[q] \in {e} THEN NoEvent ELSE of[q]
    BY <2>1, DeletingIs
  <2>3. /\ \A x \in Live \ {e} : (\E q \in Stories : of[q] = x) => (\E q \in Stories : of'[q] = x)
        /\ \A q \in Stories : of'[q] \in {of[q], NoEvent} /\ (of[q] \in {e} => of'[q] = NoEvent)
        /\ of'[s] = NoEvent /\ \A x \in Live \ {e} : event'[x].at = "live"
    BY <2>2 DEF Live
  <2>4. Owners' /\ OneCardEach(event, Live)' /\ AnnouncedOnce
    <3>1. Removes({e})
      <4> HIDE DEF e
      <4> QED
        BY <2>2, <2>3 DEF Removes
    <3> QED
      BY <2>2, <3>1, RemovalKeepsOwners
  <2> QED
    BY <1>1, <1>2, <1>3, <2>2, <2>3, <2>4, CardStep DEF tmdbVars
<1>5. CASE Sources(e) # {s}
  <2>1. of' = [of EXCEPT ![s] = NoEvent] /\ event' = event
    BY <1>5 DEF Delink
  <2>2. /\ event' \in [Events -> EventRows] /\ of' \in [Stories -> Events \cup {NoEvent}]
        /\ \A q \in Stories : of'[q] \in {of[q], NoEvent} /\ of'[s] = NoEvent
        /\ \A x \in Events : event'[x].at = "live" => x \in Live \ {}
    BY <2>1, Types DEF Live
  <2>3. PICK other \in Stories : other # s /\ of[other] = e
    BY <1>5 DEF Sources
  <2>4. \A x \in Live \ {} : (\E q \in Stories : of[q] = x) => (\E q \in Stories : of'[q] = x)
    <3> SUFFICES ASSUME NEW x \in Live, NEW q \in Stories, of[q] = x PROVE \E p \in Stories : of'[p] = x
      OBVIOUS
    <3>1. CASE x = e
      BY <2>1, <2>3, <3>1, Types
    <3>2. CASE x # e
      BY <2>1, <3>2, Types
    <3> QED
      BY <3>1, <3>2
  <2>5. \A q \in Stories : of[q] \in {} => of'[q] = NoEvent
    OBVIOUS
  <2>6. \A x \in Live \ {} : /\ event'[x].at = "live" /\ event'[x].by = event[x].by
                             /\ event'[x].beat = event[x].beat /\ event'[x].names = event[x].names
    BY <2>1 DEF Live
  <2>7. Owners' /\ OneCardEach(event, Live)' /\ AnnouncedOnce
    <3>1. Removes({})
      BY <2>2, <2>4, <2>5, <2>6 DEF Removes
    <3> QED
      BY <2>2, <3>1, RemovalKeepsOwners
  <2> QED
    BY <1>1, <1>2, <1>3, <2>2, <2>7, CardStep DEF tmdbVars
<1> QED
  BY <1>4, <1>5

\* The moderator deletes a card.
LEMMA DeleteEventStep ==
    ASSUME StoriesInv, NEW e \in Events, DeleteEvent(e)
    PROVE  Holds
<1>1. e \in Live /\ Deleting({e}) /\ UNCHANGED <<day, tmdbVars, blocked, pass, synth, named>>
  BY DEF DeleteEvent
<1>2. /\ story' = [s \in Stories |-> IF of[s] = e THEN RejectedBy(s) ELSE story[s]]
      /\ text' \in [Events -> TextRows]
  BY Untexted, Types DEF DeleteEvent
<1>3. /\ story' \in [Stories -> StoryRows]
      /\ \A s \in Stories : story'[s] = story[s] \/ (of[s] = e /\ story'[s].status = "rejected")
  BY <1>2, ByTheModerator, Types
<1>4. /\ event' \in [Events -> EventRows] /\ of' \in [Stories -> Events \cup {NoEvent}]
      /\ \A x \in Events : event'[x].at = "live" => x \in Live \ {e}
      /\ \A x \in Live \ {e} : event'[x] = event[x]
      /\ \A q \in Stories : of'[q] = IF of[q] \in {e} THEN NoEvent ELSE of[q]
  <2>1. {e} \in SUBSET Events
    OBVIOUS
  <2> QED
    BY <1>1, <2>1, DeletingIs
<1>5. /\ \A x \in Live \ {e} : (\E q \in Stories : of[q] = x) => (\E q \in Stories : of'[q] = x)
      /\ \A q \in Stories : of'[q] \in {of[q], NoEvent} /\ (of[q] \in {e} => of'[q] = NoEvent)
      /\ \A x \in Live \ {e} : event'[x].at = "live"
  BY <1>4 DEF Live
<1>6. Owners' /\ OneCardEach(event, Live)' /\ AnnouncedOnce
  <2>1. Removes({e})
    BY <1>4, <1>5 DEF Removes
  <2> QED
    BY <1>4, <2>1, RemovalKeepsOwners
<1>7. e # NoEvent
  BY StoriesConstants
<1> QED
  BY <1>1, <1>2, <1>3, <1>4, <1>5, <1>6, <1>7, CardStep DEF tmdbVars

\* The cleanup of blocked sources removes the cards it empties and redates the others.
LEMMA CleanupStep == ASSUME StoriesInv, CleanupBlocked PROVE Holds
<1> DEFINE out   == {s \in blocked : story[s].status = "linked"}
           hit   == {of[s] : s \in out} \ {NoEvent}
           empty == {e \in hit : Sources(e) \subseteq out}
           gone  == [NoEvt EXCEPT !.at = "deleted"]
           moved(e) == [event[e] EXCEPT !.day = Oldest(Sources(e) \ out)]
<1>1. /\ story' = [s \in Stories |-> IF s \in out THEN Rejected(s) ELSE story[s]]
      /\ of' = [s \in Stories |-> IF s \in out THEN NoEvent ELSE of[s]]
      /\ event' = [e \in Events |-> IF e \in empty THEN gone
                                    ELSE IF e \in hit THEN moved(e) ELSE event[e]]
      /\ text' = [e \in Events |-> IF e \in hit THEN NoText ELSE text[e]]
      /\ UNCHANGED <<day, tmdbVars, blocked, pass, synth, named>>
  BY DEF CleanupBlocked
<1>2. out \in SUBSET Stories /\ \A s \in out : story[s].status = "linked"
  BY Types
<1>3. /\ \A x \in hit : x \in Live /\ x \in Events /\ \E s \in out : of[s] = x
      /\ \A s \in out : of[s] # NoEvent => of[s] \in hit
  BY <1>2 DEF StoriesInv, Owners, Live
<1>4. gone \in EventRows /\ gone.at = "deleted"
  BY DeletedCard
<1> HIDE DEF out, hit, gone
<1>5. ASSUME NEW e \in hit, e \notin empty
      PROVE  /\ moved(e) \in EventRows /\ moved(e).at = "live" /\ moved(e).by = event[e].by
             /\ moved(e).beat = event[e].beat /\ moved(e).names = event[e].names
             /\ \E s \in Stories \ out : of[s] = e
  <2>1. PICK s \in Sources(e) : s \notin out
    BY <1>5
  <2>2. Oldest(Sources(e) \ out) \in Days
    <3>1. Sources(e) \ out \in SUBSET Stories /\ Sources(e) \ out # {}
      BY <2>1 DEF Sources
    <3> QED
      BY <3>1, Types, OldestIs
  <2>3. event[e] \in EventRows /\ event[e].at = "live"
    BY <1>3, Types DEF Live
  <2> QED
    BY <2>1, <2>2, <2>3 DEF Sources, EventRows
<1>6. \A e \in empty : e \in hit /\ \A s \in Stories : of[s] = e => s \in out
  BY DEF Sources
<1> HIDE DEF empty, moved
<1>7. ASSUME NEW s \in Stories
      PROVE  /\ Rejected(s) \in StoryRows /\ Rejected(s).status = "rejected" /\ ~ Rejected(s).manual
  <2>1. story[s] \in StoryRows
    BY Types
  <2> QED
    BY <2>1 DEF Rejected, StoryRows
<1>8. /\ story' \in [Stories -> StoryRows] /\ of' \in [Stories -> Events \cup {NoEvent}]
      /\ text' \in [Events -> TextRows] /\ event' \in [Events -> EventRows]
  BY <1>1, <1>4, <1>5, <1>7, Types, Untexted
<1>9. /\ \A s \in Stories : \/ story'[s] = story[s]
                            \/ /\ story[s].status = "linked"
                               /\ story'[s].status = "rejected" /\ ~ story'[s].manual
      /\ \A s \in Stories : of'[s] \in {of[s], NoEvent} /\ (of[s] \in empty => of'[s] = NoEvent)
  BY <1>1, <1>2, <1>6, <1>7
<1>10. \A x \in Events : event'[x].at = "live" => x \in Live \ empty
  BY <1>1, <1>3, <1>4 DEF Live
<1>11. ASSUME NEW x \in Live \ empty
       PROVE  /\ event'[x].at = "live" /\ event'[x].by = event[x].by
              /\ event'[x].beat = event[x].beat /\ event'[x].names = event[x].names
              /\ (\E s \in Stories : of[s] = x) => (\E s \in Stories : of'[s] = x)
  <2>1. x \in Events /\ event[x].at = "live" /\ x # NoEvent
    BY StoriesConstants DEF Live
  <2>2. CASE x \in hit
    BY <1>1, <1>5, <2>1, <2>2
  <2>3. CASE x \notin hit
    <3>1. event'[x] = event[x]
      BY <1>1, <1>6, <2>1, <2>3
    <3>2. \A s \in Stories : of[s] = x => s \notin out
      BY <1>3, <2>1, <2>3
    <3> QED
      BY <1>1, <2>1, <3>1, <3>2
  <2> QED
    BY <2>2, <2>3
<1>12. Owners' /\ OneCardEach(event, Live)' /\ AnnouncedOnce
  <2>1. Removes(empty)
    BY <1>9, <1>10, <1>11 DEF Removes
  <2> QED
    BY <1>8, <2>1, RemovalKeepsOwners
<1> QED
  BY <1>1, <1>8, <1>9, <1>12, CardStep DEF tmdbVars

\* A card of the catalog, told of by no card that it must not repeat.
LEMMA CatalogCardStep ==
    ASSUME StoriesInv, NEW beat \in Beats, NEW d \in Days, NEW names \in SUBSET Names, NEW move \in Days,
           CardFromCatalog(beat, d, names, move), uncarded' \in SUBSET uncarded,
           UNCHANGED <<day, wrapped, moves, blocked, story, of, pass, synth, named>>,
           beat = "casting" =>
              \A e \in Live : event[e].beat = "casting" => event[e].names \cap names = {},
           beat = "release_date" =>
              \A e \in Live : event[e].beat = "release_date" /\ event[e].by = "story"
                                => ~ Near(event[e].day, move)
    PROVE  Holds
<1> DEFINE card == [at |-> "live", beat |-> beat, by |-> "catalog", day |-> d,
                    names |-> names, move |-> move]
           told == [by |-> "template", edited |-> FALSE, from |-> {}]
<1>1. PICK e \in Events : /\ event[e].at = "absent" /\ event' = [event EXCEPT ![e] = card]
                          /\ text' = [text EXCEPT ![e] = told]
  BY DEF CardFromCatalog
<1>2. card \in EventRows /\ told \in TextRows
  BY DEF EventRows, TextRows
<1>3. /\ card.at = "live" /\ card.beat = beat /\ card.by = "catalog" /\ card.day = d
      /\ card.names = names /\ card.move = move
  OBVIOUS
<1> HIDE DEF card, told
<1>4. event' \in [Events -> EventRows] /\ text' \in [Events -> TextRows]
  BY <1>1, <1>2, Types
<1>5. event'[e] = card /\ \A x \in Events : x # e => event'[x] = event[x]
  BY <1>1, Types
<1>6. Live' = Live \cup {e} /\ e \notin Live
  BY <1>1, <1>3, <1>5 DEF Live
<1>7. \A x \in Live : x \in Events /\ event'[x] = event[x]
  BY <1>5, <1>6 DEF Live
<1>8. Owners'
  <2>1. \A x \in Live' : event'[x].by \in {"story", "catalog"}
    BY <1>3, <1>5, <1>6, <1>7 DEF StoriesInv, Owners
  <2>2. \A x \in Live' : event'[x].by = "story" => \E s \in Stories : of'[s] = x
    BY <1>3, <1>5, <1>6, <1>7 DEF StoriesInv, Owners
  <2>3. \A s \in Stories : of'[s] # NoEvent => of'[s] \in Live'
    BY <1>6 DEF StoriesInv, Owners
  <2> QED
    BY <2>1, <2>2, <2>3 DEF Owners
<1>9. OneCardEach(event, Live)'
  <2> SUFFICES ASSUME NEW x \in Live', NEW y \in Live', event'[x].beat = "casting", event'[y].beat = "casting",
                      event'[x].names \cap event'[y].names # {}
               PROVE  x = y
    BY DEF OneCardEach
  <2>1. CASE x \in Live /\ y \in Live
    BY <1>7, <2>1 DEF StoriesInv, OneCardEach
  <2>2. CASE x = e /\ y \in Live
    BY <1>3, <1>5, <1>7, <2>2
  <2>3. CASE x \in Live /\ y = e
    BY <1>3, <1>5, <1>7, <2>3
  <2> QED
    BY <1>6, <2>1, <2>2, <2>3
<1>10. AnnouncedOnce
  <2> SUFFICES ASSUME NEW a \in Events, NEW b \in Events,
                      event[a].at = "live", event[a].beat = "release_date",
                      Near(event[a].day, event[a].move),
                      event[b].at = "absent", event'[b].at = "live",
                      event'[b].beat = "release_date", event'[b].move = event[a].move,
                      event'[b].by # event[a].by
               PROVE  FALSE
    BY DEF AnnouncedOnce
  <2>1. a \in Live /\ b \notin Live /\ b = e
    BY <1>5 DEF Live
  <2>2. event[a].by = "story" /\ move = event[a].move /\ beat = "release_date"
    BY <1>3, <1>5, <2>1 DEF StoriesInv, Owners
  <2> QED
    BY <2>1, <2>2
<1>11. story' \in [Stories -> StoryRows] /\ of' \in [Stories -> Events \cup {NoEvent}]
       /\ \A s \in Stories : story'[s] = story[s] /\ of'[s] = of[s]
  BY Types
<1> QED
  BY <1>4, <1>8, <1>9, <1>10, <1>11, CardStep

\* The sweep cards a move of the date, a milestone or a credit.
LEMMA CatalogStep ==
    ASSUME StoriesInv,
           \/ \E d \in Days : CardMove(d)
           \/ \E b \in Beats : CardMilestone(b)
           \/ \E n \in Names : CardCredit(n)
    PROVE  Holds
<1>1. 0 \in Days
  BY StoriesConstants
<1>2. ASSUME NEW d \in Days, CardMove(d) PROVE Holds
  <2>1. "release_date" \in Beats /\ {} \in SUBSET Names /\ uncarded' \in SUBSET uncarded
    BY <1>2, Types DEF CardMove, InScope, tmdbVars
  <2>2. \A e \in Live : event[e].beat = "release_date" /\ event[e].by = "story" => ~ Near(event[e].day, d)
    BY <1>2 DEF CardMove, DateCarded
  <2>3. CardFromCatalog("release_date", d, {}, d)
        /\ UNCHANGED <<day, wrapped, moves, blocked, story, of, pass, synth, named>>
    BY <1>2 DEF CardMove, tmdbVars
  <2> QED
    BY <2>1, <2>2, <2>3, CatalogCardStep
<1>3. ASSUME NEW b \in Beats, CardMilestone(b) PROVE Holds
  <2>1. b # "casting" /\ b # "release_date" /\ {} \in SUBSET Names /\ uncarded' \in SUBSET uncarded
    BY <1>3 DEF CardMilestone, Once, tmdbVars
  <2>2. CardFromCatalog(b, day, {}, 0) /\ day \in Days
        /\ UNCHANGED <<day, wrapped, moves, blocked, story, of, pass, synth, named>>
    BY <1>3, Types DEF CardMilestone, tmdbVars
  <2> QED
    BY <1>1, <2>1, <2>2, CatalogCardStep
<1>4. ASSUME NEW n \in Names, CardCredit(n) PROVE Holds
  <2>1. /\ n \in uncarded /\ uncarded' = uncarded \ {n}
        /\ UNCHANGED <<day, wrapped, moves, blocked, story, of, pass, synth, named>>
    BY <1>4 DEF CardCredit
  <2>2. "casting" \in Beats /\ {n} \in SUBSET Names /\ day \in Days /\ uncarded' \in SUBSET uncarded
        /\ uncarded' \in SUBSET Names
    BY <2>1, Types DEF InScope
  <2>3. CASE \E e \in Live : event[e].beat = "casting" /\ n \in event[e].names
    <3>1. UNCHANGED <<event, text>>
      BY <1>4, <2>3 DEF CardCredit
    <3>2. InScope'
      BY <2>1, <2>2, Types DEF InScope
    <3> QED
      BY <2>1, <2>2, <3>1, <3>2, Types, QuietStep
  <2>4. CASE ~ \E e \in Live : event[e].beat = "casting" /\ n \in event[e].names
    <3>1. CardFromCatalog("casting", day, {n}, 0)
      BY <1>4, <2>4 DEF CardCredit
    <3>2. \A e \in Live : event[e].beat = "casting" => event[e].names \cap {n} = {}
      BY <2>4
    <3> QED
      BY <1>1, <2>1, <2>2, <3>1, <3>2, CatalogCardStep
  <2> QED
    BY <2>3, <2>4
<1> QED
  BY <1>2, <1>3, <1>4

\* Before the first group.
LEMMA StartIsSound ==
    ASSUME StoriesInv, NEW plan \in SUBSET Stories, NEW shown \in Seq(Events)
    PROVE  Sound(AtStart(shown), plan, shown, {})
<1>1. PICK db : db = AtStart(shown)
  OBVIOUS
<1>2. PICK known : known = Range(shown) \cap Live
  OBVIOUS
<1>3. /\ db = [story |-> story, of |-> of, event |-> event, uncarded |-> uncarded, assigned |-> {},
               shown |-> shown, known |-> known, failed |-> FALSE]
      /\ db.story = story /\ db.of = of /\ db.event = event /\ db.uncarded = uncarded
      /\ db.assigned = {} /\ db.shown = shown /\ db.known = known /\ db.failed = FALSE
  BY <1>1, <1>2 DEF AtStart
<1>4. known \in SUBSET Events /\ known \subseteq Live
  BY <1>2 DEF Live
<1>5. db \in DBs
  <2>1. Typed(db)
    BY <1>3, <1>4, Types DEF Typed
  <2> QED
    BY <1>3, <2>1, TypedDB
<1>6. LiveIn(db) = Live
  BY <1>3 DEF LiveIn, Live
<1>7. Kept(db) /\ Added(db) /\ Sourced(db, {}) /\ Placed(db) /\ OneCardEach(db.event, LiveIn(db)) /\ Standing(db)
  <2>1. Kept(db) /\ Added(db) /\ Sourced(db, {})
    BY <1>3, <1>6 DEF Kept, Added, Sourced, Live
  <2>2. Placed(db)
    BY <1>3, <1>4, <1>6 DEF Placed, StoriesInv, Owners
  <2>3. OneCardEach(db.event, LiveIn(db)) /\ Standing(db)
    BY <1>3, <1>6 DEF StoriesInv, Standing
  <2> QED
    BY <2>1, <2>2, <2>3
<1> QED
  BY <1>1, <1>3, <1>5, <1>7 DEF Sound

\* The stories an answer speaks of are those of its groups.
LEMMA GroupsOfTheAnswer ==
    ASSUME NEW plan, NEW len, NEW n \in Nat, NEW answer \in [1..n -> Groups(plan, len)]
    PROVE  LET told == UNION {answer[k].stories : k \in 1..n}
           IN  told \subseteq plan /\ answer \in [1..n -> Groups(told, len)]
<1> DEFINE told == UNION {answer[k].stories : k \in 1..n}
<1>1. ASSUME NEW k \in 1..n PROVE answer[k].stories \subseteq plan /\ answer[k] \in Groups(told, len)
  <2>1. PICK g : g = answer[k]
    OBVIOUS
  <2>2. g \in Groups(plan, len) /\ g.stories \subseteq told
    BY <2>1
  <2> HIDE DEF told
  <2>3. g \in Groups(told, len) /\ g.stories \subseteq plan
    BY <2>2 DEF Groups, Joining, NewBeat
  <2> QED
    BY <2>1, <2>3
<1> QED
  BY <1>1

\* The number a group gives is that of an event shown, or none.
LEMMA NumberGiven ==
    ASSUME NEW plan, NEW len \in Nat, NEW g \in Groups(plan, len)
    PROVE  g.existing \in 0..len
BY DEF Groups, Joining, NewBeat

\* What a run's transaction leaves, if it does not fail.
Committed(r, n, answer, told, after) ==
    /\ Sound(after, told, pass[r].shown, {}) /\ ~ after.failed /\ told \subseteq pass[r].plan
    /\ story' = after.story /\ of' = after.of /\ event' = after.event /\ uncarded' = after.uncarded
    /\ named' \in [Stories -> Events \cup {NoEvent}]
    /\ pass' = [pass EXCEPT ![r] = Resting]
    /\ UNCHANGED <<day, wrapped, moves, blocked, text, synth>>

\* The view that a run commits is sound, and holds no story that the answer does not name: the
\* answer is read as one about the stories of its own groups.
LEMMA ApplyIs ==
    ASSUME StoriesInv, NEW r \in Runners, Apply(r)
    PROVE  \E n, answer, told, after : Committed(r, n, answer, told, after)
<1> DEFINE shown == pass[r].shown
<1>1. shown \in Seq(Events) /\ pass[r].plan \in SUBSET Stories /\ Len(shown) \in Nat
  <2>1. pass[r] \in PassRows
    BY Types
  <2> QED
    BY <2>1 DEF PassRows
<1>2. PICK n \in 1..MaxGroups : \E answer \in [1..n -> Groups(pass[r].plan, Len(shown))] :
        LET after   == Written(shown, answer)
            said(s) == answer[Least({k \in 1..n : s \in answer[k].stories})].existing
        IN  /\ ~ after.failed
            /\ story' = after.story /\ of' = after.of
            /\ event' = after.event /\ uncarded' = after.uncarded
            /\ named' = [s \in Stories |->
                            IF s \notin after.assigned THEN named[s]
                            ELSE IF said(s) = 0 THEN NoEvent ELSE shown[said(s)]]
  BY DEF Apply
<1>3. PICK answer \in [1..n -> Groups(pass[r].plan, Len(shown))] :
        LET after   == Written(shown, answer)
            said(s) == answer[Least({k \in 1..n : s \in answer[k].stories})].existing
        IN  /\ ~ after.failed
            /\ story' = after.story /\ of' = after.of
            /\ event' = after.event /\ uncarded' = after.uncarded
            /\ named' = [s \in Stories |->
                            IF s \notin after.assigned THEN named[s]
                            ELSE IF said(s) = 0 THEN NoEvent ELSE shown[said(s)]]
  BY <1>2
<1> DEFINE told == UNION {answer[k].stories : k \in 1..n}
           said(s) == answer[Least({k \in 1..n : s \in answer[k].stories})].existing
<1>4. PICK after : after = Written(shown, answer)
  OBVIOUS
<1>5. /\ ~ after.failed /\ story' = after.story /\ of' = after.of
      /\ event' = after.event /\ uncarded' = after.uncarded
      /\ named' = [s \in Stories |-> IF s \notin after.assigned THEN named[s]
                                     ELSE IF said(s) = 0 THEN NoEvent ELSE shown[said(s)]]
  BY <1>3, <1>4
<1>6. n \in Nat
  OBVIOUS
<1>7. told \subseteq pass[r].plan /\ answer \in [1..n -> Groups(told, Len(shown))]
  BY <1>6, GroupsOfTheAnswer
<1>8. Sound(after, told, shown, {})
  <2>1. told \in SUBSET Stories
    BY <1>1, <1>7
  <2> HIDE DEF told, shown
  <2>2. Sound(AtStart(shown), told, shown, {})
    BY <1>1, <2>1, StartIsSound
  <2> QED
    BY <1>4, <1>6, <1>7, <2>1, <2>2, Types, AnswerIsSound
<1>9. ASSUME NEW s \in told PROVE said(s) \in 0..Len(shown)
  <2> DEFINE in == {k \in 1..n : s \in answer[k].stories}
  <2>1. in \in SUBSET Nat /\ in # {}
    BY <1>9
  <2>2. Least(in) \in in
    <3> HIDE DEF in
    <3> QED
      BY <2>1, LeastIs
  <2>3. PICK k \in 1..n : k = Least(in)
    BY <2>2
  <2>4. answer[k] \in Groups(pass[r].plan, Len(shown))
    BY <2>3
  <2>5. answer[k].existing \in 0..Len(shown)
    BY <1>1, <2>4, NumberGiven
  <2> QED
    BY <2>3, <2>5
<1>10. after.assigned \subseteq told
  <2> HIDE DEF told, shown
  <2> QED
    BY <1>8 DEF Sound
<1>11. named' \in [Stories -> Events \cup {NoEvent}]
  <2> HIDE DEF told, said
  <2>1. ASSUME NEW s \in Stories
        PROVE  (IF s \notin after.assigned THEN named[s]
                ELSE IF said(s) = 0 THEN NoEvent ELSE shown[said(s)]) \in Events \cup {NoEvent}
    <3>1. CASE s \notin after.assigned
      BY <3>1, Types
    <3>2. CASE s \in after.assigned
      <4>1. said(s) \in 0..Len(shown)
        BY <1>9, <1>10, <3>2
      <4>2. \A i \in 1..Len(shown) : shown[i] \in Events
        BY <1>1
      <4>3. said(s) = 0 \/ said(s) \in 1..Len(shown)
        BY <1>1, <4>1
      <4> QED
        BY <3>2, <4>2, <4>3
    <3> QED
      BY <3>1, <3>2
  <2> QED
    BY <1>5, <2>1
<1>12. pass' = [pass EXCEPT ![r] = Resting] /\ UNCHANGED <<day, wrapped, moves, blocked, text, synth>>
  BY DEF Apply
<1> HIDE DEF told
<1> QED
  BY <1>5, <1>7, <1>8, <1>11, <1>12 DEF Committed

\* The write half of the cluster stage.
LEMMA ApplyStep ==
    ASSUME StoriesInv, NEW r \in Runners, Apply(r)
    PROVE  Holds
<1>1. PICK n, answer, told, after : Committed(r, n, answer, told, after)
  BY ApplyIs
<1>2. /\ Sound(after, told, pass[r].shown, {}) /\ ~ after.failed /\ told \subseteq pass[r].plan
      /\ story' = after.story /\ of' = after.of /\ event' = after.event /\ uncarded' = after.uncarded
      /\ named' \in [Stories -> Events \cup {NoEvent}]
      /\ pass' = [pass EXCEPT ![r] = Resting]
      /\ UNCHANGED <<day, wrapped, moves, blocked, text, synth>>
  BY <1>1 DEF Committed
<1>3. /\ after \in DBs /\ after.assigned \subseteq pass[r].plan /\ uncarded' \subseteq uncarded
      /\ Kept(after) /\ Added(after) /\ Sourced(after, {}) /\ Placed(after)
      /\ OneCardEach(after.event, LiveIn(after)) /\ Standing(after)
  BY <1>2 DEF Sound
<1>4. LiveIn(after) = Live' /\ Live \subseteq Live'
  BY <1>2, <1>3 DEF LiveIn, Live, Kept
<1>5. pass' \in [Runners -> PassRows] /\ \A q \in Runners : /\ pass'[q].plan \subseteq pass[q].plan
                                                            /\ pass'[q].todo \subseteq pass[q].todo
  <2>1. Resting \in PassRows /\ Resting.todo = {} /\ Resting.plan = {}
    BY DEF Resting, PassRows
  <2> QED
    BY <1>2, <2>1, Types
<1>6. \A s \in Stories : InHand(s)' => InHand(s)
  BY <1>5 DEF InHand
<1>7. \A s \in Stories : s \notin pass[r].plan => of'[s] = of[s] /\ story'[s] = story[s]
  BY <1>2, <1>3 DEF Placed, Standing
<1>8. StoriesTypeOK'
  <2>1. Typed(after)
    BY <1>3, DBTyped
  <2> QED
    BY <1>2, <1>5, <2>1, Types DEF Typed, StoriesTypeOK, PassRows, StoryRows, EventRows, TextRows
<1>9. Owners'
  <2>1. \A e \in Live' : event'[e].by \in {"story", "catalog"}
    BY <1>2, <1>3, <1>4 DEF StoriesInv, Owners, Kept, Added
  <2>2. ASSUME NEW e \in Live', event'[e].by = "story" PROVE \E s \in Stories : of'[s] = e
    <3>1. CASE e \in Live
      <4>1. PICK s \in Stories : of[s] = e
        BY <1>2, <1>3, <2>2, <3>1 DEF StoriesInv, Owners, Kept
      <4>2. e # NoEvent
        BY <3>1, StoriesConstants DEF Live
      <4> QED
        BY <1>2, <1>3, <4>1, <4>2 DEF Placed
    <3>2. CASE e \notin Live
      <4>1. PICK s \in after.assigned : after.of[s] = e
        BY <1>3, <1>4, <2>2, <3>2 DEF Sourced
      <4>2. s \in Stories
        BY <1>3, <4>1 DEF DBs
      <4> QED
        BY <1>2, <4>1, <4>2
    <3> QED
      BY <3>1, <3>2
  <2>3. \A s \in Stories : of'[s] # NoEvent => of'[s] \in Live'
    BY <1>2, <1>3, <1>4 DEF Placed
  <2> QED
    BY <2>1, <2>2, <2>3 DEF Owners
<1>10. OneCardEach(event, Live)' /\ InScope'
  BY <1>2, <1>3, <1>4 DEF OneCardEach, StoriesInv, InScope
<1>11. \A s \in Stories : /\ story'[s].manual = story[s].manual
                          /\ story'[s].status \in {story[s].status, "rejected"}
  BY <1>2, <1>3 DEF Standing
<1>12. Judgements'
  <2>1. \A s \in Stories : story'[s].manual => story'[s].status = "rejected"
    BY <1>11 DEF StoriesInv, Judgements
  <2>2. ASSUME NEW s \in Stories, story'[s].status \in {"absent", "pending"} PROVE of'[s] = NoEvent
    <3>1. story[s].status \in {"absent", "pending"}
      BY <1>11, <2>2
    <3>2. s \notin pass[r].plan /\ of[s] = NoEvent
      BY <3>1 DEF StoriesInv, Judgements
    <3> QED
      BY <1>7, <3>2
  <2>3. ASSUME NEW q \in Runners, NEW s \in pass'[q].plan PROVE story'[s].status \notin {"absent", "pending"}
    <3>1. s \in pass[q].plan /\ s \in Stories
      BY <1>5, <2>3, Types DEF PassRows
    <3>2. story[s].status \notin {"absent", "pending"}
      BY <3>1 DEF StoriesInv, Judgements
    <3> QED
      BY <1>11, <3>1, <3>2
  <2> QED
    BY <2>1, <2>2, <2>3 DEF Judgements
<1>13. \A s \in Stories : Off(s) => Off(s)'
  <2> SUFFICES ASSUME NEW s \in Stories, Off(s) PROVE Off(s)'
    OBVIOUS
  <2>1. s \notin pass[r].plan
    BY DEF Off, InHand
  <2> QED
    BY <1>6, <1>7, <2>1 DEF Off
<1>14. StaysOff
  BY <1>11, <1>13 DEF StaysOff
<1>15. Alone'
  <2> SUFFICES ASSUME LoneRunner, NEW s \in Stories
               PROVE  (InHand(s)' => of'[s] = NoEvent) /\ (story'[s].manual => Off(s)')
    BY DEF Alone, LoneRunner
  <2>1. ~ InHand(s)'
    <3>1. pass'[r] = Resting
      BY <1>2, Types
    <3>2. \A q \in Runners : pass'[q] = Resting
      BY <3>1 DEF LoneRunner
    <3> QED
      BY <3>2 DEF InHand, Resting
  <2> QED
    BY <1>11, <1>13, <2>1 DEF StoriesInv, Alone
<1>16. AnnouncedOnce
  <2> SUFFICES ASSUME NEW a \in Events, NEW b \in Events,
                      event[a].at = "live", event[a].beat = "release_date",
                      Near(event[a].day, event[a].move),
                      event[b].at = "absent", event'[b].at = "live",
                      event'[b].beat = "release_date", event'[b].move = event[a].move,
                      event'[b].by # event[a].by
               PROVE  FALSE
    BY DEF AnnouncedOnce
  <2>1. a \in Live /\ b \in LiveIn(after) \ Live
    BY <1>4 DEF Live
  <2>2. event'[b].by = "story" /\ event'[b].move = Latest(moves) /\ Untaken
    BY <1>2, <1>3, <2>1 DEF Added
  <2>3. event[a].by = "catalog"
    BY <2>1, <2>2 DEF StoriesInv, Owners
  <2> QED
    BY <2>1, <2>2, <2>3 DEF Untaken
<1> QED
  BY <1>8, <1>9, <1>10, <1>12, <1>14, <1>15, <1>16 DEF Holds, StoriesInv
-----------------------------------------------------------------------------
(***************************************************************************)
(* The invariant, and what it says of every behaviour.                     *)
(***************************************************************************)
LEMMA StoriesInvInit == StoriesInit => StoriesInv
<1> SUFFICES ASSUME StoriesInit PROVE StoriesInv
  OBVIOUS
<1>0. StoriesInit
  OBVIOUS
<1>1. /\ day \in Days /\ wrapped \in BOOLEAN /\ moves = {} /\ uncarded = {} /\ blocked = {} /\ synth = {}
  BY <1>0, StoriesConstants DEF StoriesInit
<1>2. /\ story \in [Stories -> StoryRows]
      /\ \A s \in Stories : story[s].status = "absent" /\ story[s].manual = FALSE
  BY <1>0, StoriesConstants DEF StoriesInit, StoryRows
<1>3. /\ of \in [Stories -> Events \cup {NoEvent}] /\ \A s \in Stories : of[s] = NoEvent
      /\ named \in [Stories -> Events \cup {NoEvent}]
  BY <1>0 DEF StoriesInit
<1>4. event \in [Events -> EventRows] /\ \A e \in Events : event[e].at = "absent"
  BY <1>0, StoriesConstants DEF StoriesInit, NoEvt, EventRows
<1>5. text \in [Events -> TextRows]
  BY <1>0, Untexted DEF StoriesInit
<1>6. pass \in [Runners -> PassRows] /\ \A r \in Runners : pass[r].todo = {} /\ pass[r].plan = {}
  BY <1>0 DEF StoriesInit, Resting, PassRows
<1>7. Live = {} /\ \A s \in Stories : ~ InHand(s)
  BY <1>4, <1>6 DEF Live, InHand
<1>8. StoriesTypeOK
  BY <1>1, <1>2, <1>3, <1>4, <1>5, <1>6 DEF StoriesTypeOK, StoryRows, EventRows, TextRows, PassRows
<1>9. Owners /\ OneCardEach(event, Live) /\ InScope
  BY <1>1, <1>3, <1>7 DEF Owners, OneCardEach, InScope
<1>10. Judgements /\ Alone
  BY <1>2, <1>3, <1>6, <1>7 DEF Judgements, Alone
<1> QED
  BY <1>8, <1>9, <1>10 DEF StoriesInv

\* Every step.
LEMMA StoriesStep == StoriesInv /\ [StoriesNext]_storiesVars => Holds
<1> SUFFICES ASSUME StoriesInv, [StoriesNext]_storiesVars PROVE Holds
  OBVIOUS
<1>1. CASE UNCHANGED storiesVars
  <2>1. UNCHANGED <<story, of, event, pass, named>>
        /\ day' = day /\ wrapped' = wrapped /\ moves' = moves /\ uncarded' = uncarded
        /\ blocked' = blocked /\ text' = text /\ synth' = synth
    BY <1>1 DEF storiesVars, tmdbVars, newsVars
  <2>2. InScope'
    BY <2>1, Types DEF InScope
  <2> QED
    BY <2>1, <2>2, Types, QuietStep
<1>2. CASE NextDay \/ Wrap \/ MoveDate \/ SelectPending
  BY <1>2, FeedStep
<1>3. CASE CleanupBlocked
  BY <1>3, CleanupStep
<1>4. CASE \E s \in Stories : SetBlocked(s) \/ Fetch(s) \/ Delink(s)
  BY <1>4, FeedStep, LinkStep, DelinkStep
<1>5. CASE \E r \in Runners, s \in Stories : RejectUnmatched(r, s) \/ Judge(r, s) \/ JudgeFails(r, s)
  BY <1>5, JudgeStep
<1>6. CASE \E r \in Runners :
        StartLink(r) \/ GateSources(r) \/ AskCluster(r) \/ NothingToCluster(r) \/ Apply(r) \/ LinkDies(r)
  BY <1>6, LinkStep, ApplyStep
<1>7. CASE \E e \in Events : DeleteEvent(e) \/ EditSummary(e) \/ ResetSummary(e)
  BY <1>7, FeedStep, DeleteEventStep
<1>8. CASE (\E d \in Days : CardMove(d)) \/ (\E b \in Beats : CardMilestone(b))
  BY <1>8, CatalogStep
<1>9. CASE \E n \in Names : AttachCredit(n) \/ CardCredit(n)
  BY <1>9, FeedStep, CatalogStep
<1>10. CASE \E w \in synth : UpsertSummary(w) \/ SummarizeFails(w)
  BY <1>10, FeedStep
<1> QED
  BY <1>1, <1>2, <1>3, <1>4, <1>5, <1>6, <1>7, <1>8, <1>9, <1>10 DEF StoriesNext

LEMMA StoriesInvariance == StoriesSpec => []StoriesInv
<1>1. StoriesInv /\ [StoriesNext]_storiesVars => StoriesInv'
  BY StoriesStep DEF Holds
<1> QED
  BY <1>1, StoriesInvInit, PTL DEF StoriesSpec

\* A card that stories made has a source to show for it, and no story has a row of a card that
\* is gone, after any cluster answer, withdrawal, deletion and cleanup (link/cluster.py,
\* link/moderation.py, link/source_gate.py).
THEOREM CardsAlwaysHaveSources == StoriesSpec => []CardsHaveSources
<1>1. StoriesInv => CardsHaveSources
  BY DEF StoriesInv, Owners, CardsHaveSources, Sources
<1> QED
  BY <1>1, StoriesInvariance, PTL

\* One casting card of the film names a performer, whoever told it first: the cluster answer
\* subtracts the names of every card of the film, and the sweep asks the same
\* (link/subjects.py, ingest/sweep/credit_events.py).
THEOREM NamesAreCardedOnce == StoriesSpec => []OneCastingCardPerName
<1>1. StoriesInv => OneCastingCardPerName
  <2> SUFFICES ASSUME StoriesInv, NEW n \in Names
               PROVE  Cardinality({e \in Live : event[e].beat = "casting" /\ n \in event[e].names}) <= 1
    BY DEF OneCastingCardPerName
  <2>1. PICK cards : cards = {e \in Live : event[e].beat = "casting" /\ n \in event[e].names}
    OBVIOUS
  <2>2. \A e, f \in cards : e = f
    BY <2>1 DEF StoriesInv, OneCardEach
  <2>3. CASE cards = {}
    BY <2>1, <2>3, FS_EmptySet
  <2>4. CASE cards # {}
    <3>1. PICK e \in cards : cards = {e}
      BY <2>2, <2>4
    <3>2. Cardinality(cards) = 1
      BY <3>1, FS_Singleton
    <3> QED
      BY <2>1, <3>2
  <2> QED
    BY <2>3, <2>4
<1> QED
  BY <1>1, StoriesInvariance, PTL

\* The sweep and the trade never both announce one move of the release date: whichever writes
\* second finds the other's card (link/cluster.py, ingest/sweep/release_events.py).
THEOREM MovesAreAnnouncedOnce == StoriesSpec => NoDoubleAnnounce
<1>1. StoriesInv /\ [StoriesNext]_storiesVars => [\A a, b \in Events :
        /\ event[a].at = "live" /\ event[a].beat = "release_date" /\ Near(event[a].day, event[a].move)
        /\ event[b].at = "absent" /\ event'[b].at = "live"
        => ~ (/\ event'[b].beat = "release_date" /\ event'[b].move = event[a].move
              /\ event'[b].by # event[a].by)]_storiesVars
  BY StoriesStep DEF Holds, AnnouncedOnce
<1> QED
  BY <1>1, StoriesInvariance, PTL DEF StoriesSpec, NoDoubleAnnounce

\* What the moderator takes off a card when no link run holds it stays off the film, through
\* every run, answer and cleanup that follows (link/moderation.py).
THEOREM ModerationAlwaysStands == StoriesSpec => ModerationStands
<1>1. StoriesInv /\ [StoriesNext]_storiesVars => [\A s \in Stories :
        /\ ~ story[s].manual /\ story'[s].manual /\ ~ InHand(s) => Off(s)'
        /\ Off(s) => Off(s)']_storiesVars
  BY StoriesStep DEF Holds, StaysOff
<1> QED
  BY <1>1, StoriesInvariance, PTL DEF StoriesSpec, ModerationStands

\* Where one process runs the link stage, as the scheduler alone does, what a moderator has
\* rejected is left alone, as link/moderation.py says: nothing that was rejected is in the run's
\* hands, so the exception of ModerationStands needs two runs that overlap.
THEOREM AloneNothingComesBack == LoneRunner => (StoriesSpec => ModeratedIsLeftAlone)
<1> SUFFICES ASSUME LoneRunner PROVE StoriesSpec => ModeratedIsLeftAlone
  OBVIOUS
<1>1. StoriesInv /\ [StoriesNext]_storiesVars => [\A s \in Stories :
        story[s].manual /\ of[s] = NoEvent => story'[s].manual /\ of'[s] = NoEvent]_storiesVars
  <2> SUFFICES ASSUME StoriesInv, [StoriesNext]_storiesVars, NEW s \in Stories, story[s].manual
               PROVE  story'[s].manual /\ of'[s] = NoEvent
    OBVIOUS
  <2>1. Off(s)
    BY DEF StoriesInv, Alone
  <2>2. StaysOff
    BY StoriesStep DEF Holds
  <2> QED
    BY <2>1, <2>2 DEF StaysOff, Off
<1> QED
  BY <1>1, StoriesInvariance, PTL DEF StoriesSpec, ModeratedIsLeftAlone
=============================================================================
