---------------------------- MODULE NotifyProofs ----------------------------
(***************************************************************************)
(* Notify, for any number of users, cards, runs and overlapping passes:    *)
(* type correctness, the cold start, the tiling of the windows, what a     *)
(* succeeded run has decided, and the two action properties.               *)
(*                                                                         *)
(* None of the three safety invariants is inductive.  IInv adds what they  *)
(* need: how a run's row, its process and the clock fit together, that a   *)
(* watermark always names a run that succeeded, and what a pass still owes *)
(* half-way through its list.                                              *)
(***************************************************************************)
EXTENDS Notify, TLAPS

Live(n) == pass[n].pc \in {"watermark", "recipients", "users"}

\* A run's row and its process: opened in order, never succeeded while the process
\* lives, nothing left to do once it has.
RunShape ==
    \A n \in Runs :
        /\ run[n] # "none" => n <= clock
        /\ Live(n) => run[n] \in {"running", "cancelled", "failed"}
        /\ run[n] = "none" => pass[n].pc = "idle"
        /\ run[n] = "succeeded" => pass[n].pc = "over" /\ pass[n].todo = {}
        /\ pass[n].pc # "users" => pass[n].todo = {}
        /\ pass[n].pc = "users" /\ pass[n].since = 0 => pass[n].todo = {}

\* A card that is not in the ledger has neither summary nor rows.
LedgerShape ==
    \A e \in Events : card[e] \in {"absent", "open"} =>
        e \notin summarized /\ \A u \in Users : row[<<u, e>>] = "none"

\* A watermark names a run that succeeded.
SinceShape ==
    \A n \in Runs : pass[n].since # 0 =>
        pass[n].since \in Runs /\ run[pass[n].since] = "succeeded"

\* WindowsTile for every instant, not only those at which a card was created.
Tiled ==
    \A k \in Time, n \in Runs :
        run[n] = "succeeded" /\ k < n =>
            \E m \in Runs : run[m] = "succeeded" /\ pass[m].since <= k /\ k < m

\* The pairs run n's window holds whose reader and card were there in time.
Owes(n, u, e) ==
    /\ Undecided(u, e)
    /\ pass[n].since <= created[e] /\ ready[e] < n /\ followedAt[u] < n
    /\ u \notin pass[n].lost

\* Half-way through its list a pass owes only the users still on it.
Progress ==
    \A n \in Runs :
        (pass[n].pc = "users" \/ run[n] = "succeeded") /\ pass[n].since # 0 =>
            \A u \in Users, e \in Events : Owes(n, u, e) => u \in pass[n].todo

IInv ==
    /\ TypeOK
    /\ RunShape
    /\ LedgerShape
    /\ SinceShape
    /\ Tiled
    /\ Progress
    /\ ColdStartHoldsBackHistory
-----------------------------------------------------------------------------
(***************************************************************************)
(* Types.                                                                  *)
(***************************************************************************)

LEMMA Times == 0 \in Time /\ Runs \subseteq Time /\ Time \subseteq Nat
BY NotifyAssumption DEF Time, Runs

LEMMA SinceTyped == ASSUME TypeOK, NEW n \in Runs PROVE pass[n].since \in Time
<1>1. pass[n] \in Pass
  BY DEF TypeOK
<1> QED
  BY <1>1 DEF Pass

LEMMA FinishedKeeps ==
    ASSUME NEW n \in Runs
    PROVE  /\ Finished(n).pc = "over" /\ Finished(n).todo = {}
           /\ Finished(n).since = pass[n].since /\ Finished(n).lost = pass[n].lost
BY DEF Finished, Over

LEMMA TypeInit == Init => TypeOK
BY Times DEF Init, TypeOK, Pass

\* The locals of a pass keep their types, whichever of them a step assigns.
LEMMA PassTyped ==
    ASSUME TypeOK, NEW n \in Runs,
           \/ OpenRun(n) \/ PassStep(n) \/ PassRaises(n) \/ Kill(n) \/ CancelStaleRun(n)
    PROVE  pass' \in [Runs -> Pass]
<1>1. /\ pass \in [Runs -> Pass] /\ following \subseteq Users
      /\ pass[n] \in Pass
  BY DEF TypeOK
<1>2. Over \in Pass
  BY Times DEF Over, Pass
<1>3. CASE OpenRun(n)
  <2>1. [pass[n] EXCEPT !.pc = "watermark"] \in Pass
    BY <1>1 DEF Pass
  <2> QED
    BY <1>1, <1>3, <2>1 DEF OpenRun
<1>4. CASE ReadWatermark(n)
  <2>1. PICK s \in Time :
          pass' = [pass EXCEPT ![n].since = s,
                               ![n].pc = IF s = 0 THEN "users" ELSE "recipients"]
    BY <1>4 DEF ReadWatermark
  <2>2. [pass[n] EXCEPT !.since = s,
                        !.pc = IF s = 0 THEN "users" ELSE "recipients"] \in Pass
    BY <1>1 DEF Pass
  <2> QED
    BY <1>1, <2>1, <2>2
<1>5. CASE LoadRecipients(n)
  <2>1. PICK admitted \in SUBSET following :
          pass' = [pass EXCEPT ![n].todo = following, ![n].mailable = admitted,
                               ![n].pc = "users"]
    BY <1>5 DEF LoadRecipients
  <2>2. [pass[n] EXCEPT !.todo = following, !.mailable = admitted, !.pc = "users"] \in Pass
    BY <1>1 DEF Pass
  <2> QED
    BY <1>1, <2>1, <2>2
<1>6. ASSUME NEW u \in Users, DecideForUser(n, u) PROVE pass' \in [Runs -> Pass]
  <2>1. [pass[n] EXCEPT !.todo = @ \ {u}, !.mailable = @ \ {u}, !.streak = 0] \in Pass
    BY <1>1 DEF Pass
  <2> QED
    BY <1>1, <1>6, <2>1 DEF DecideForUser
<1>7. ASSUME NEW u \in Users, DecisionRaises(n, u) PROVE pass' \in [Runs -> Pass]
  <2>1. [pass[n] EXCEPT !.todo = @ \ {u}, !.mailable = @ \ {u}, !.lost = @ \cup {u},
                        !.streak = @ + 1] \in Pass
    <3>1. /\ pass[n].streak + 1 \in Nat /\ pass[n].todo \ {u} \subseteq Users
          /\ pass[n].mailable \ {u} \subseteq Users /\ pass[n].lost \cup {u} \subseteq Users
      BY <1>1 DEF Pass
    <3> QED
      BY <1>1, <3>1 DEF Pass
  <2> QED
    BY <1>1, <1>7, <2>1 DEF DecisionRaises
<1>8. CASE FinalizeRun(n)
  <2>1. Finished(n) \in Pass
    <3>1. pass[n].since \in Time /\ pass[n].lost \subseteq Users
      BY <1>1 DEF Pass
    <3> QED
      BY <3>1 DEF Finished, Over, Pass
  <2> QED
    BY <1>1, <1>2, <1>8, <2>1 DEF FinalizeRun
<1>9. CASE PassRaises(n) \/ Kill(n)
  BY <1>1, <1>2, <1>9 DEF PassRaises, Kill
<1>10. CASE CancelStaleRun(n)
  BY <1>1, <1>10 DEF CancelStaleRun
<1> QED
  BY <1>3, <1>4, <1>5, <1>6, <1>7, <1>8, <1>9, <1>10 DEF PassStep

LEMMA TypeStep == TypeOK /\ [Next]_vars => TypeOK'
<1> SUFFICES ASSUME TypeOK, [Next]_vars PROVE TypeOK'
  OBVIOUS
<1> USE Times, PassTyped DEF TypeOK, runVars, ledgerVars, followVars
<1>1. ASSUME NEW e \in Events, OpenCard(e) PROVE TypeOK'
  BY <1>1 DEF OpenCard
<1>2. ASSUME NEW e \in Events, PublishCard(e) PROVE TypeOK'
  BY <1>2 DEF PublishCard
<1>3. ASSUME NEW e \in Events, RollBackCard(e) PROVE TypeOK'
  BY <1>3 DEF RollBackCard
<1>4. ASSUME NEW e \in Events, Summarize(e) PROVE TypeOK'
  BY <1>4 DEF Summarize
<1>5. ASSUME NEW e \in Events, Supersede(e) PROVE TypeOK'
  BY <1>5 DEF Supersede
<1>6. ASSUME NEW e \in Events, DeleteCard(e) PROVE TypeOK'
  BY <1>6 DEF DeleteCard
<1>7. ASSUME NEW u \in Users, Follow(u) PROVE TypeOK'
  BY <1>7 DEF Follow
<1>8. ASSUME NEW u \in Users, Unfollow(u) PROVE TypeOK'
  BY <1>8 DEF Unfollow
<1>9. ASSUME NEW n \in Runs, OpenRun(n) PROVE TypeOK'
  <2>1. n \in Time
    OBVIOUS
  <2> QED
    BY <1>9, <2>1 DEF OpenRun
<1>10. ASSUME NEW n \in Runs, PassStep(n) PROVE TypeOK'
  <2>1. CASE ReadWatermark(n)
    BY <1>10, <2>1 DEF ReadWatermark
  <2>2. CASE LoadRecipients(n)
    BY <1>10, <2>2 DEF LoadRecipients
  <2>3. ASSUME NEW u \in Users, DecideForUser(n, u) PROVE TypeOK'
    BY <1>10, <2>3 DEF DecideForUser
  <2>4. ASSUME NEW u \in Users, DecisionRaises(n, u) PROVE TypeOK'
    BY <1>10, <2>4 DEF DecisionRaises
  <2>5. CASE FinalizeRun(n)
    BY <1>10, <2>5 DEF FinalizeRun
  <2> QED
    BY <1>10, <2>1, <2>2, <2>3, <2>4, <2>5 DEF PassStep
<1>11. ASSUME NEW n \in Runs, PassRaises(n) PROVE TypeOK'
  BY <1>11 DEF PassRaises
<1>12. ASSUME NEW n \in Runs, Kill(n) PROVE TypeOK'
  BY <1>12 DEF Kill
<1>13. ASSUME NEW n \in Runs, CancelStaleRun(n) PROVE TypeOK'
  BY <1>13 DEF CancelStaleRun
<1>14. CASE UNCHANGED vars
  BY <1>14 DEF vars
<1> QED
  BY <1>1, <1>2, <1>3, <1>4, <1>5, <1>6, <1>7, <1>8, <1>9, <1>10, <1>11, <1>12,
     <1>13, <1>14 DEF Next, Ledger, Readers

-----------------------------------------------------------------------------
(***************************************************************************)
(* The inductive invariant, one conjunct at a time.  The first three speak *)
(* of the runs alone: the ledger and the readers leave them as they are.   *)
(***************************************************************************)

LEMMA RunFrame == Ledger \/ Readers \/ UNCHANGED vars => UNCHANGED runVars
BY DEF Ledger, Readers, OpenCard, PublishCard, RollBackCard, Summarize, Supersede,
       DeleteCard, Follow, Unfollow, vars

LEMMA RunShapeStep == TypeOK /\ RunShape /\ [Next]_vars => RunShape'
<1> SUFFICES ASSUME TypeOK, RunShape, [Next]_vars PROVE RunShape'
  OBVIOUS
<1> USE Times DEF TypeOK, RunShape, Live
<1>1. CASE Ledger \/ Readers \/ UNCHANGED vars
  BY <1>1, RunFrame DEF runVars
<1>2. ASSUME NEW n \in Runs, OpenRun(n) PROVE RunShape'
  BY <1>2 DEF OpenRun, Pass
<1>3. ASSUME NEW n \in Runs, ReadWatermark(n) PROVE RunShape'
  BY <1>3 DEF ReadWatermark, Pass
<1>4. ASSUME NEW n \in Runs, LoadRecipients(n) PROVE RunShape'
  BY <1>4 DEF LoadRecipients, Pass
<1>5. ASSUME NEW n \in Runs, NEW u \in Users, DecideForUser(n, u) PROVE RunShape'
  BY <1>5 DEF DecideForUser, Pass
<1>6. ASSUME NEW n \in Runs, NEW u \in Users, DecisionRaises(n, u) PROVE RunShape'
  BY <1>6 DEF DecisionRaises, Pass
<1>7. ASSUME NEW n \in Runs, FinalizeRun(n) PROVE RunShape'
  BY <1>7 DEF FinalizeRun, Finished, Over
<1>8. ASSUME NEW n \in Runs, PassRaises(n) PROVE RunShape'
  BY <1>8 DEF PassRaises, Over
<1>9. ASSUME NEW n \in Runs, Kill(n) PROVE RunShape'
  BY <1>9 DEF Kill, Over
<1>10. ASSUME NEW n \in Runs, CancelStaleRun(n) PROVE RunShape'
  BY <1>10 DEF CancelStaleRun
<1> QED
  BY <1>1, <1>2, <1>3, <1>4, <1>5, <1>6, <1>7, <1>8, <1>9, <1>10 DEF Next, PassStep

\* A pass works on its own run.
LEMMA OthersUntouched ==
    ASSUME TypeOK, NEW m \in Runs, NEW n \in Runs, m # n,
           \/ OpenRun(m) \/ PassStep(m) \/ PassRaises(m) \/ Kill(m) \/ CancelStaleRun(m)
    PROVE  pass'[n] = pass[n] /\ run'[n] = run[n]
BY DEF TypeOK, OpenRun, PassStep, ReadWatermark, LoadRecipients, DecideForUser,
       DecisionRaises, FinalizeRun, PassRaises, Kill, CancelStaleRun

\* A run that succeeded stays so, with the locals it ended with: no cleanup, no late
\* finalize and no other pass reaches it.
LEMMA SuccessIsFinal ==
    ASSUME TypeOK, RunShape, [Next]_vars, NEW m \in Runs, run[m] = "succeeded"
    PROVE  run'[m] = "succeeded" /\ pass'[m] = pass[m]
<1> USE DEF TypeOK, RunShape
<1>1. CASE Ledger \/ Readers \/ UNCHANGED vars
  BY <1>1, RunFrame DEF runVars
<1>2. ASSUME NEW n \in Runs,
             \/ OpenRun(n) \/ PassStep(n) \/ PassRaises(n) \/ Kill(n) \/ CancelStaleRun(n)
      PROVE  m # n
  <2>1. CASE OpenRun(n)
    BY <2>1, Times DEF OpenRun
  <2>2. CASE PassStep(n)
    BY <2>2 DEF PassStep, ReadWatermark, LoadRecipients, DecideForUser, DecisionRaises,
                FinalizeRun
  <2>3. CASE PassRaises(n) \/ Kill(n) \/ CancelStaleRun(n)
    BY <2>3 DEF PassRaises, Kill, CancelStaleRun
  <2> QED
    BY <1>2, <2>1, <2>2, <2>3
<1> QED
  BY <1>1, <1>2, OthersUntouched DEF Next

\* Only its own finalize makes a run a succeeded one.
LEMMA SuccessIsFinalize ==
    ASSUME TypeOK, [Next]_vars, NEW m \in Runs, run[m] # "succeeded", run'[m] = "succeeded"
    PROVE  FinalizeRun(m) /\ ~ Aborted(m)
<1> USE DEF TypeOK
<1>1. CASE Ledger \/ Readers \/ UNCHANGED vars
  BY <1>1, RunFrame DEF runVars
<1>2. ASSUME NEW n \in Runs,
             \/ OpenRun(n) \/ PassRaises(n) \/ Kill(n) \/ CancelStaleRun(n)
             \/ ReadWatermark(n) \/ LoadRecipients(n)
             \/ \E u \in Users : DecideForUser(n, u) \/ DecisionRaises(n, u)
      PROVE  FALSE
  BY <1>2 DEF OpenRun, PassRaises, Kill, CancelStaleRun, ReadWatermark, LoadRecipients,
              DecideForUser, DecisionRaises
<1>3. ASSUME NEW n \in Runs, FinalizeRun(n) PROVE n = m /\ ~ Aborted(m)
  BY <1>3 DEF FinalizeRun
<1> QED
  BY <1>1, <1>2, <1>3 DEF Next, PassStep

LEMMA SinceShapeStep == TypeOK /\ RunShape /\ SinceShape /\ [Next]_vars => SinceShape'
<1> SUFFICES ASSUME TypeOK, RunShape, SinceShape, [Next]_vars,
                    NEW m \in Runs, pass'[m].since # 0
             PROVE  pass'[m].since \in Runs /\ run'[pass'[m].since] = "succeeded"
  BY DEF SinceShape
<1>1. CASE pass'[m].since = pass[m].since
  BY <1>1, SuccessIsFinal DEF SinceShape
<1>2. CASE ReadWatermark(m)
  <2>1. PICK s \in Time : LastSuccessful(s) /\ pass'[m].since = s
    BY <1>2 DEF ReadWatermark, TypeOK, Pass
  <2>2. s \in Runs /\ run[s] = "succeeded"
    BY <2>1, NotifyAssumption DEF LastSuccessful, Runs, Time
  <2> QED
    BY <2>1, <2>2, SuccessIsFinal
<1> USE DEF TypeOK
<1>3. CASE Ledger \/ Readers \/ UNCHANGED vars
  BY <1>1, <1>3, RunFrame DEF runVars
<1>4. ASSUME NEW n \in Runs, OpenRun(n) PROVE pass'[m].since = pass[m].since
  BY <1>4 DEF OpenRun, Pass
<1>5. ASSUME NEW n \in Runs, ReadWatermark(n), n # m PROVE pass'[m].since = pass[m].since
  BY <1>5 DEF ReadWatermark
<1>6. ASSUME NEW n \in Runs, LoadRecipients(n) PROVE pass'[m].since = pass[m].since
  BY <1>6 DEF LoadRecipients, Pass
<1>7. ASSUME NEW n \in Runs, NEW u \in Users, DecideForUser(n, u) \/ DecisionRaises(n, u)
      PROVE  pass'[m].since = pass[m].since
  <2>1. CASE DecideForUser(n, u)
    BY <2>1 DEF DecideForUser, Pass
  <2>2. CASE DecisionRaises(n, u)
    BY <2>2 DEF DecisionRaises, Pass
  <2> QED
    BY <1>7, <2>1, <2>2
<1>8. ASSUME NEW n \in Runs, FinalizeRun(n) \/ PassRaises(n) \/ Kill(n)
      PROVE  pass'[m].since \in {0, pass[m].since}
  <2>1. CASE FinalizeRun(n)
    BY <2>1, FinishedKeeps DEF FinalizeRun, Over
  <2>2. CASE PassRaises(n)
    BY <2>2 DEF PassRaises, Over
  <2>3. CASE Kill(n)
    BY <2>3 DEF Kill, Over
  <2> QED
    BY <1>8, <2>1, <2>2, <2>3
<1>9. ASSUME NEW n \in Runs, CancelStaleRun(n) PROVE pass'[m].since = pass[m].since
  BY <1>9 DEF CancelStaleRun
<1> QED
  BY <1>1, <1>2, <1>3, <1>4, <1>5, <1>6, <1>7, <1>8, <1>9 DEF Next, PassStep

LEMMA TiledStep ==
    TypeOK /\ RunShape /\ SinceShape /\ Tiled /\ [Next]_vars => Tiled'
<1> SUFFICES ASSUME TypeOK, RunShape, SinceShape, Tiled, [Next]_vars,
                    NEW k \in Time, NEW n \in Runs, run'[n] = "succeeded", k < n
             PROVE  \E m \in Runs : run'[m] = "succeeded" /\ pass'[m].since <= k /\ k < m
  BY DEF Tiled
<1>1. CASE run[n] = "succeeded"
  BY <1>1, SuccessIsFinal DEF Tiled
\* The run that has just closed its window: either the window reaches back to k, or k
\* lies behind the watermark it read, which the windows before it already tile.
<1>2. CASE run[n] # "succeeded"
  <2>1. pass'[n].since = pass[n].since
    <3>1. FinalizeRun(n) /\ ~ Aborted(n)
      BY <1>2, SuccessIsFinalize
    <3> QED
      BY <3>1, FinishedKeeps DEF FinalizeRun, TypeOK
  <2>2. CASE pass[n].since <= k
    BY <2>1, <2>2
  <2>3. CASE k < pass[n].since
    <3>1. pass[n].since \in Runs /\ run[pass[n].since] = "succeeded"
      BY <2>3, Times DEF SinceShape
    <3> QED
      BY <2>3, <3>1, SuccessIsFinal DEF Tiled
  <2>4. pass[n].since \in Nat /\ k \in Nat
    BY SinceTyped, Times
  <2>5. pass[n].since <= k \/ k < pass[n].since
    BY <2>4
  <2> QED
    BY <2>2, <2>3, <2>5
<1> QED
  BY <1>1, <1>2
-----------------------------------------------------------------------------
(***************************************************************************)
(* The conjuncts that relate the runs to the ledger, the readers and the   *)
(* rows.                                                                   *)
(***************************************************************************)

\* Of the steps that are not the ledger's, only a decision writes rows.
LEMMA RowFrame ==
    ASSUME NEW n \in Runs,
           \/ OpenRun(n) \/ PassRaises(n) \/ Kill(n) \/ CancelStaleRun(n)
           \/ ReadWatermark(n) \/ LoadRecipients(n) \/ FinalizeRun(n)
           \/ \E u \in Users : DecisionRaises(n, u)
    PROVE  UNCHANGED <<ledgerVars, followVars, row>>
BY DEF OpenRun, PassRaises, Kill, CancelStaleRun, ReadWatermark, LoadRecipients,
       FinalizeRun, DecisionRaises

\* A decision adds rows and changes none; the ones it adds are of the reader at hand,
\* on cards its window holds.
LEMMA DecisionRows ==
    ASSUME TypeOK, NEW n \in Runs, NEW u \in Users, DecideForUser(n, u), NEW p \in Pair
    PROVE  \/ row'[p] = row[p]
           \/ /\ row[p] = "none" /\ row'[p] # "none"
              /\ p[1] = u /\ p[2] \in DigestEvents(u, pass[n].since)
BY DEF DecideForUser, TypeOK

LEMMA PairParts == \A p \in Pair : p[1] \in Users /\ p[2] \in Events /\ p = <<p[1], p[2]>>
BY DEF Pair

LEMMA LedgerShapeStep == TypeOK /\ LedgerShape /\ [Next]_vars => LedgerShape'
<1> SUFFICES ASSUME TypeOK, LedgerShape, [Next]_vars, NEW c \in Events,
                    card'[c] \in {"absent", "open"}
             PROVE  c \notin summarized' /\ \A u \in Users : row'[<<u, c>>] = "none"
  BY DEF LedgerShape
<1> USE DEF TypeOK, LedgerShape, runVars, ledgerVars, followVars
<1>1. ASSUME NEW e \in Events,
             \/ OpenCard(e) \/ PublishCard(e) \/ RollBackCard(e) \/ Summarize(e)
             \/ Supersede(e)
      PROVE  c \notin summarized' /\ \A u \in Users : row'[<<u, c>>] = "none"
  <2>1. CASE OpenCard(e)
    BY <2>1 DEF OpenCard
  <2>2. CASE PublishCard(e)
    BY <2>2 DEF PublishCard
  <2>3. CASE RollBackCard(e)
    BY <2>3 DEF RollBackCard
  <2>4. CASE Summarize(e)
    BY <2>4 DEF Summarize
  <2>5. CASE Supersede(e)
    BY <2>5 DEF Supersede
  <2> QED
    BY <1>1, <2>1, <2>2, <2>3, <2>4, <2>5
<1>2. ASSUME NEW e \in Events, DeleteCard(e)
      PROVE  c \notin summarized' /\ \A u \in Users : row'[<<u, c>>] = "none"
  BY <1>2 DEF DeleteCard, Pair
<1>3. ASSUME NEW n \in Runs, NEW u \in Users, DecideForUser(n, u)
      PROVE  c \notin summarized' /\ \A v \in Users : row'[<<v, c>>] = "none"
  <2>1. UNCHANGED ledgerVars
    BY <1>3 DEF DecideForUser
  <2>2. c \notin DigestEvents(u, pass[n].since)
    BY <2>1 DEF DigestEvents, Deliverable
  <2>3. ASSUME NEW v \in Users PROVE row'[<<v, c>>] = "none"
    <3>1. <<v, c>> \in Pair
      BY DEF Pair
    <3> QED
      BY <1>3, <2>1, <2>2, <3>1, DecisionRows
  <2> QED
    BY <2>1, <2>3
<1>4. CASE Readers \/ UNCHANGED vars
  BY <1>4 DEF Readers, Follow, Unfollow, vars
<1> QED
  BY <1>1, <1>2, <1>3, <1>4, RowFrame DEF Next, Ledger, PassStep

LEMMA ColdStartStep ==
    /\ TypeOK /\ RunShape /\ LedgerShape /\ SinceShape
    /\ ColdStartHoldsBackHistory /\ [Next]_vars
    => ColdStartHoldsBackHistory'
<1> SUFFICES ASSUME TypeOK, RunShape, LedgerShape, SinceShape,
                    ColdStartHoldsBackHistory, [Next]_vars, NEW p \in Pair, row'[p] # "none"
             PROVE  \E m \in Runs : run'[m] = "succeeded" /\ created'[p[2]] >= m
  BY DEF ColdStartHoldsBackHistory
<1>1. CASE row[p] # "none" /\ created'[p[2]] = created[p[2]]
  BY <1>1, SuccessIsFinal DEF ColdStartHoldsBackHistory
\* A card that has rows is in the ledger, and nothing dates it again.
<1>2. ASSUME NEW e \in Events,
             \/ OpenCard(e) \/ PublishCard(e) \/ RollBackCard(e) \/ Summarize(e)
             \/ Supersede(e) \/ DeleteCard(e)
      PROVE  row[p] # "none" /\ created'[p[2]] = created[p[2]]
  <2>1. p[1] \in Users /\ p[2] \in Events /\ p = <<p[1], p[2]>>
    BY PairParts
  <2>2. CASE DeleteCard(e)
    BY <2>1, <2>2 DEF DeleteCard, TypeOK
  <2>3. CASE \/ OpenCard(e) \/ PublishCard(e) \/ RollBackCard(e) \/ Summarize(e)
             \/ Supersede(e)
    BY <2>1, <2>3 DEF OpenCard, PublishCard, RollBackCard, Summarize, Supersede,
                      LedgerShape, TypeOK
  <2> QED
    BY <1>2, <2>2, <2>3
\* A new row is of a card inside a window that is not a cold start's.
<1>3. ASSUME NEW n \in Runs, NEW u \in Users, DecideForUser(n, u)
      PROVE  \E m \in Runs : run'[m] = "succeeded" /\ created'[p[2]] >= m
  <2>1. UNCHANGED ledgerVars
    BY <1>3 DEF DecideForUser
  <2>2. CASE row'[p] = row[p]
    BY <1>1, <2>1, <2>2 DEF ledgerVars
  <2>3. CASE p[2] \in DigestEvents(u, pass[n].since)
    <3>1. pass[n].since # 0
      BY <1>3 DEF DecideForUser, RunShape
    <3>2. pass[n].since \in Runs /\ run[pass[n].since] = "succeeded"
      BY <3>1 DEF SinceShape
    <3> QED
      BY <2>1, <2>3, <3>2, SuccessIsFinal DEF DigestEvents, Deliverable, ledgerVars
  <2> QED
    BY <1>3, <2>2, <2>3, DecisionRows
<1>4. CASE Readers \/ UNCHANGED vars
  BY <1>1, <1>4 DEF Readers, Follow, Unfollow, ledgerVars, vars
<1> QED
  BY <1>1, <1>2, <1>3, <1>4, RowFrame DEF Next, Ledger, PassStep, ledgerVars
\* What a reader and a card may do while a pass is under way: whatever becomes
\* deliverable or is followed from now on bears a stamp no older than the pass.
LEMMA LateArrivals ==
    ASSUME TypeOK, RunShape, LedgerShape, Ledger \/ Readers,
           NEW n \in Runs, run[n] # "none", NEW u \in Users, NEW e \in Events,
           Owes(n, u, e)'
    PROVE  Owes(n, u, e)
<1>1. n <= clock /\ UNCHANGED runVars
  BY RunFrame DEF RunShape
<1>2. clock \in Nat /\ n \in Nat
  BY Times DEF TypeOK
<1>3. <<u, e>> \in Pair
  BY DEF Pair
<1> USE <1>1, <1>2, <1>3
        DEF Owes, Undecided, runVars, TypeOK, LedgerShape, ledgerVars, followVars
<1>4. ASSUME NEW c \in Events, OpenCard(c) PROVE Owes(n, u, e)
  BY <1>4 DEF OpenCard
<1>5. ASSUME NEW c \in Events, PublishCard(c) PROVE Owes(n, u, e)
  BY <1>5 DEF PublishCard
<1>6. ASSUME NEW c \in Events, RollBackCard(c) PROVE Owes(n, u, e)
  BY <1>6 DEF RollBackCard
<1>7. ASSUME NEW c \in Events, Summarize(c) PROVE Owes(n, u, e)
  BY <1>7 DEF Summarize
<1>8. ASSUME NEW c \in Events, Supersede(c) PROVE Owes(n, u, e)
  BY <1>8 DEF Supersede
<1>9. ASSUME NEW c \in Events, DeleteCard(c) PROVE Owes(n, u, e)
  BY <1>9 DEF DeleteCard
<1>10. ASSUME NEW v \in Users, Follow(v) PROVE Owes(n, u, e)
  BY <1>10 DEF Follow
<1>11. ASSUME NEW v \in Users, Unfollow(v) PROVE Owes(n, u, e)
  BY <1>11 DEF Unfollow
<1> QED
  BY <1>4, <1>5, <1>6, <1>7, <1>8, <1>9, <1>10, <1>11 DEF Ledger, Readers
\* No step of a pass makes a pair undecided: a debt it still has, it had before.
LEMMA DebtIsOld ==
    ASSUME TypeOK, NEW m \in Runs, NEW n \in Runs, NEW u \in Users, NEW e \in Events,
           \/ OpenRun(m) \/ PassStep(m) \/ PassRaises(m) \/ Kill(m) \/ CancelStaleRun(m),
           pass'[n].since = pass[n].since, pass[n].lost \subseteq pass'[n].lost,
           Owes(n, u, e)'
    PROVE  Owes(n, u, e)
<1>1. <<u, e>> \in Pair
  BY DEF Pair
<1>2. CASE UNCHANGED <<ledgerVars, followVars, row>>
  BY <1>2 DEF Owes, Undecided, ledgerVars, followVars
<1>3. ASSUME NEW v \in Users, DecideForUser(m, v) PROVE Owes(n, u, e)
  BY <1>1, <1>3, DecisionRows DEF Owes, Undecided, DecideForUser, ledgerVars, followVars
<1> QED
  BY <1>2, <1>3, RowFrame DEF PassStep

LEMMA ProgressStep ==
    TypeOK /\ RunShape /\ LedgerShape /\ Progress /\ [Next]_vars => Progress'
<1> SUFFICES ASSUME TypeOK, RunShape, LedgerShape, Progress, [Next]_vars,
                    NEW n \in Runs, pass'[n].pc = "users" \/ run'[n] = "succeeded",
                    pass'[n].since # 0,
                    NEW u \in Users, NEW e \in Events, Owes(n, u, e)'
             PROVE  u \in pass'[n].todo
  BY DEF Progress
<1>1. CASE Ledger \/ Readers
  <2>1. UNCHANGED runVars
    BY <1>1, RunFrame
  <2>2. run[n] # "none"
    BY <2>1 DEF runVars, RunShape
  <2> QED
    BY <1>1, <2>1, <2>2, LateArrivals DEF Progress, runVars
<1>2. CASE UNCHANGED vars
  <2>1. Owes(n, u, e)
    BY <1>2 DEF vars, runVars, ledgerVars, followVars, Owes, Undecided
  <2> QED
    BY <1>2, <2>1 DEF vars, runVars, Progress
<1>3. ASSUME NEW m \in Runs, m # n,
             \/ OpenRun(m) \/ PassStep(m) \/ PassRaises(m) \/ Kill(m) \/ CancelStaleRun(m)
      PROVE  u \in pass'[n].todo
  BY <1>3, OthersUntouched, DebtIsOld DEF Progress
<1>4. CASE OpenRun(n)
  BY <1>4 DEF OpenRun, TypeOK, Pass
<1>5. CASE ReadWatermark(n)
  <2>1. run[n] # "succeeded"
    BY <1>5 DEF ReadWatermark, RunShape
  <2> QED
    BY <1>5, <2>1 DEF ReadWatermark, TypeOK, Pass
<1>6. CASE LoadRecipients(n)
  BY <1>6 DEF LoadRecipients, TypeOK, Pass, Owes, Undecided, followVars
<1>7. ASSUME NEW v \in Users, DecideForUser(n, v) PROVE u \in pass'[n].todo
  <2>1. pass[n] \in Pass /\ pass[n].pc = "users"
    BY <1>7 DEF DecideForUser, TypeOK
  <2>2. /\ pass'[n].since = pass[n].since /\ pass'[n].lost = pass[n].lost
        /\ pass'[n].todo = pass[n].todo \ {v}
    BY <1>7 DEF DecideForUser, TypeOK, Pass
  <2>3. u \in pass[n].todo
    BY <1>7, <2>1, <2>2, DebtIsOld DEF PassStep, Progress
  <2>4. u # v
    <3>1. <<u, e>> \in Pair
      BY DEF Pair
    <3>2. UNCHANGED <<ledgerVars, followVars>>
      BY <1>7 DEF DecideForUser
    <3>3. row[<<u, e>>] = "none" /\ row'[<<u, e>>] = "none"
      BY <1>7, <3>1, DecisionRows DEF Owes, Undecided
    <3>4. e \in DigestEvents(u, pass[n].since)
      BY <2>2, <3>2 DEF Owes, Undecided, DigestEvents, Deliverable, ledgerVars, followVars
    <3> QED
      BY <1>7, <3>1, <3>3, <3>4 DEF DecideForUser, TypeOK
  <2> QED
    BY <2>2, <2>3, <2>4
<1>8. ASSUME NEW v \in Users, DecisionRaises(n, v) PROVE u \in pass'[n].todo
  <2>1. pass[n] \in Pass /\ pass[n].pc = "users"
    BY <1>8 DEF DecisionRaises, TypeOK
  <2>2. /\ pass'[n].since = pass[n].since /\ pass'[n].lost = pass[n].lost \cup {v}
        /\ pass'[n].todo = pass[n].todo \ {v}
    BY <1>8 DEF DecisionRaises, TypeOK, Pass
  <2>3. u \in pass[n].todo
    BY <1>8, <2>1, <2>2, DebtIsOld DEF PassStep, Progress
  <2> QED
    BY <2>2, <2>3 DEF Owes
<1>9. CASE FinalizeRun(n)
  <2>1. ~ Aborted(n)
    BY <1>9 DEF FinalizeRun, TypeOK, Over
  <2>2. pass'[n] = Finished(n) /\ pass[n].pc = "users" /\ pass[n].todo = {}
    BY <1>9, <2>1 DEF FinalizeRun, TypeOK
  <2>3. pass'[n].since = pass[n].since /\ pass'[n].lost = pass[n].lost
    BY <2>2, FinishedKeeps
  <2> QED
    BY <1>9, <2>2, <2>3, DebtIsOld DEF PassStep, Progress
<1>10. CASE PassRaises(n) \/ Kill(n)
  BY <1>10 DEF PassRaises, Kill, RunShape, TypeOK, Over
<1>11. CASE CancelStaleRun(n)
  <2>1. pass'[n] = pass[n] /\ run'[n] # "succeeded"
    BY <1>11 DEF CancelStaleRun, TypeOK
  <2> QED
    BY <1>11, <2>1, DebtIsOld DEF Progress
<1> QED
  BY <1>1, <1>2, <1>3, <1>4, <1>5, <1>6, <1>7, <1>8, <1>9, <1>10, <1>11
  DEF Next, PassStep
-----------------------------------------------------------------------------
(***************************************************************************)
(* The theorems.                                                           *)
(***************************************************************************)

LEMMA InvInit == Init => IInv
<1> SUFFICES ASSUME Init PROVE IInv
  OBVIOUS
<1>1. TypeOK
  BY TypeInit
<1>2. RunShape /\ SinceShape /\ Tiled /\ Progress
  BY DEF Init, RunShape, Live, SinceShape, Tiled, Progress
<1>3. LedgerShape /\ ColdStartHoldsBackHistory
  BY DEF Init, LedgerShape, ColdStartHoldsBackHistory, Pair
<1> QED
  BY <1>1, <1>2, <1>3 DEF IInv

LEMMA InvStep == IInv /\ [Next]_vars => IInv'
BY TypeStep, RunShapeStep, LedgerShapeStep, SinceShapeStep, TiledStep, ProgressStep,
   ColdStartStep DEF IInv

LEMMA Invariance == Spec => []IInv
BY InvInit, InvStep, PTL DEF Spec

\* Every variable keeps its type in every reachable state, for any number of users,
\* cards, runs and live passes (run_notify_pass, finalize_run).
THEOREM TypeCorrect == Spec => []TypeOK
BY TypeInit, TypeStep, PTL DEF Spec

\* A card that has fallen behind the watermark fell in the window of some run that
\* succeeded, for any number of runs, overlapping, failing, cancelled and killed in
\* any order (last_successful_run_started_at, finalize_run).
THEOREM NoWindowIsSkipped == Spec => []WindowsTile
<1>1. IInv => WindowsTile
  BY DEF IInv, TypeOK, Tiled, WindowsTile, Covers
<1> QED
  BY <1>1, Invariance, PTL

\* A succeeded run has decided everything its window held, but for the four reasons
\* WindowIsDecided names (run_notify_pass).
THEOREM WindowsAreDecided == Spec => []WindowIsDecided
<1>1. IInv => WindowIsDecided
  <2> SUFFICES ASSUME IInv, NEW u \in Users, NEW e \in Events, NEW m \in Runs,
                      Undecided(u, e), Covers(m, e), pass[m].since # 0,
                      ~ (ready[e] >= m), ~ (followedAt[u] >= m)
               PROVE  u \in pass[m].lost
    BY DEF WindowIsDecided, ColdStart
  <2>1. /\ TypeOK /\ Progress
        /\ run[m] = "succeeded" /\ pass[m].since <= created[e]
        /\ pass[m].todo = {}
    BY DEF IInv, RunShape, Covers
  <2>2. ready[e] \in Nat /\ followedAt[u] \in Nat /\ m \in Nat
    BY <2>1, Times DEF TypeOK
  <2>3. ready[e] < m /\ followedAt[u] < m
    BY <2>2
  <2> QED
    BY <2>1, <2>3 DEF Progress, Owes
<1> QED
  BY <1>1, Invariance, PTL

\* No reader is ever told of a card from before the first watermark (run_notify_pass,
\* the cold start).
THEOREM HistoryIsHeldBack == Spec => []ColdStartHoldsBackHistory
<1>1. IInv => ColdStartHoldsBackHistory
  BY DEF IInv
<1> QED
  BY <1>1, Invariance, PTL

\* Nothing is passed over by the watermark, and the history before it is left alone, for any
\* number of users, cards, runs and live passes (run_notify_pass).
THEOREM WindowsKeepTheirWord == Spec => []WindowsAreWhole
BY NoWindowIsSkipped, WindowsAreDecided, HistoryIsHeldBack, PTL DEF WindowsAreWhole

\* The watermark never retreats (finalize_run, mark_stale_runs_cancelled).
THEOREM WatermarkIsMonotonic == Spec => WatermarkOnlyAdvances
<1>1. IInv /\ [Next]_vars =>
        [\A s, t \in Time : LastSuccessful(s) /\ LastSuccessful(t)' => s <= t]_vars
  <2> SUFFICES ASSUME IInv, [Next]_vars, NEW s \in Time, NEW t \in Time,
                      LastSuccessful(s), LastSuccessful(t)'
               PROVE  s <= t
    OBVIOUS
  <2>1. TypeOK /\ RunShape
    BY DEF IInv
  <2>2. s \in Nat /\ t \in Nat /\ (s = 0 \/ s \in Runs)
    BY Times, NotifyAssumption DEF Time, Runs
  <2>3. CASE s = 0
    BY <2>2, <2>3
  <2>4. CASE s # 0
    <3>1. run[s] = "succeeded"
      BY <2>4 DEF LastSuccessful
    <3>2. run'[s] = "succeeded"
      BY <2>1, <2>2, <2>4, <3>1, SuccessIsFinal
    <3> QED
      BY <2>2, <2>4, <3>2 DEF LastSuccessful
  <2> QED
    BY <2>3, <2>4
<1> QED
  BY <1>1, Invariance, PTL DEF Spec, WatermarkOnlyAdvances

\* A decision is taken once: no later or overlapping pass rewrites a row while its
\* card exists (queue_decisions).
THEOREM DecisionsStand == Spec => DecisionsAreFinal
<1>1. IInv /\ [Next]_vars =>
        [\A p \in Pair : row[p] # "none" /\ card'[p[2]] # "absent" => row'[p] = row[p]]_vars
  <2> SUFFICES ASSUME IInv, [Next]_vars, NEW p \in Pair,
                      row[p] # "none", card'[p[2]] # "absent"
               PROVE  row'[p] = row[p]
    OBVIOUS
  <2>1. TypeOK
    BY DEF IInv
  <2>2. ASSUME NEW e \in Events, DeleteCard(e) PROVE row'[p] = row[p]
    BY <2>1, <2>2, PairParts DEF DeleteCard, TypeOK
  <2>3. ASSUME NEW n \in Runs, NEW u \in Users, DecideForUser(n, u) PROVE row'[p] = row[p]
    BY <2>1, <2>3, DecisionRows
  <2>4. CASE Readers \/ UNCHANGED vars
    BY <2>4 DEF Readers, Follow, Unfollow, vars
  <2>5. ASSUME NEW e \in Events,
               \/ OpenCard(e) \/ PublishCard(e) \/ RollBackCard(e) \/ Summarize(e)
               \/ Supersede(e)
        PROVE  row' = row
    BY <2>5 DEF OpenCard, PublishCard, RollBackCard, Summarize, Supersede
  <2> QED
    BY <2>2, <2>3, <2>4, <2>5, RowFrame DEF Next, Ledger, PassStep
<1> QED
  BY <1>1, Invariance, PTL DEF Spec, DecisionsAreFinal
-----------------------------------------------------------------------------
(***************************************************************************)
(* The pass implements the contract of the notification rows.              *)
(***************************************************************************)

Owed == {p \in Pair : row[p] = "queued"}

LEMMA ContractPair == Contract!Pair = Pair
BY DEF Contract!Pair, Pair

\* One reader's decision is the contract's Decide, of the new rows alone.
LEMMA DecideRefines ==
    ASSUME TypeOK, NEW n \in Runs, NEW u \in Users, DecideForUser(n, u)
    PROVE  Contract!Next
<1>1. PICK S \in SUBSET Pair : S = {p \in Pair : row[p] = "none" /\ row'[p] # "none"}
  OBVIOUS
<1>2. PICK status \in {"queued", "suppressed"} :
        status = IF u \in pass[n].mailable THEN "queued" ELSE "suppressed"
  OBVIOUS
<1>3. \A p \in Pair : row'[p] = IF p \in S THEN status ELSE row[p]
  BY <1>1, <1>2 DEF DecideForUser, TypeOK
<1>4. row' = [p \in Pair |-> IF p \in S THEN status ELSE row[p]]
  BY <1>3 DEF DecideForUser, TypeOK
<1>5. Owed' = IF status = "queued" THEN Owed \cup S ELSE Owed
  BY <1>1, <1>2, <1>3 DEF Owed
<1>6. Contract!Decide(S, status)
  BY <1>1, <1>4, <1>5, ContractPair DEF Contract!Decide, Owed
<1> QED
  BY <1>6, ContractPair DEF Contract!Next

LEMMA DeleteRefines ==
    ASSUME TypeOK, NEW e \in Events, DeleteCard(e)
    PROVE  Contract!Next
<1>1. row' = [p \in Pair |-> IF p[2] = e THEN "none" ELSE row[p]]
  BY DEF DeleteCard
<1>2. Owed' = {p \in Owed : p[2] # e}
  BY <1>1 DEF Owed
<1>3. Contract!Forget(e)
  BY <1>1, <1>2, ContractPair DEF Contract!Forget, Contract!WithoutCard, Owed
<1> QED
  BY <1>3 DEF Contract!Next

\* The decision pass, the ledger and the readers do to the notification rows only what
\* the contract between the two passes allows: rows are born queued or suppressed, once,
\* and go only with their card (queue_decisions, DecideForUser, DeleteCard).
THEOREM NotifyImplementsOutbox == Spec => ImplementsOutbox
<1>1. Init => Contract!Init
  BY ContractPair DEF Init, Contract!Init, Pair
<1>2. TypeOK /\ [Next]_vars => [Contract!Next]_(Contract!vars)
  <2> SUFFICES ASSUME TypeOK, [Next]_vars
               PROVE  Contract!Next \/ UNCHANGED Contract!vars
    OBVIOUS
  <2>1. row' = row => UNCHANGED Contract!vars
    BY DEF Contract!vars
  <2>2. ASSUME NEW e \in Events,
               \/ OpenCard(e) \/ PublishCard(e) \/ RollBackCard(e) \/ Summarize(e)
               \/ Supersede(e)
        PROVE  row' = row
    BY <2>2 DEF OpenCard, PublishCard, RollBackCard, Summarize, Supersede
  <2>3. Readers \/ UNCHANGED vars => row' = row
    BY DEF Readers, Follow, Unfollow, vars
  <2> QED
    BY <2>1, <2>2, <2>3, DecideRefines, DeleteRefines, RowFrame
    DEF Next, Ledger, PassStep
<1> QED
  BY <1>1, <1>2, TypeInit, TypeStep, PTL DEF Spec, ImplementsOutbox, Contract!Spec
=============================================================================
