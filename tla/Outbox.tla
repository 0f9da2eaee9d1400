------------------------------- MODULE Outbox -------------------------------
(***************************************************************************)
(* What delivery promises about one notification row, whichever pass is    *)
(* looking at it.  A row is one (user, event) pair of app.notification;    *)
(* the decision pass writes it once, the digest sender settles it.  The    *)
(* two passes never call each other: this module is the contract between   *)
(* them, and Notify and Digest are each shown to implement it.             *)
(*                                                                         *)
(*   row[p]   the row's status; "none" while the row does not exist        *)
(*   owed     the pairs a decision ever queued (the others were suppressed *)
(*            at birth and must never reach an inbox)                      *)
(*   carried  the pairs some mail, accepted by the provider, has shown     *)
(***************************************************************************)
CONSTANTS Users,    \* accounts
          Events    \* cards of the ledger

VARIABLES row, owed, carried

vars == <<row, owed, carried>>

Pair    == Users \X Events
Settled == {"sent", "failed", "suppressed"}
Status  == {"none", "queued"} \cup Settled

Init ==
    /\ row = [p \in Pair |-> "none"]
    /\ owed = {}
    /\ carried = {}

\* A decision: rows that do not exist yet are born queued or suppressed.
Decide(S, status) ==
    /\ \A p \in S : row[p] = "none"
    /\ row' = [p \in Pair |-> IF p \in S THEN status ELSE row[p]]
    /\ owed' = IF status = "queued" THEN owed \cup S ELSE owed
    /\ UNCHANGED carried

\* A mail leaves.  It shows only cards the reader was owed.
Carry(S) ==
    /\ S \subseteq owed
    /\ carried' = carried \cup S
    /\ UNCHANGED <<row, owed>>

\* An outcome is recorded: sent only for what a mail carried.
Settle(S, outcome) ==
    /\ \A p \in S : p \in owed /\ row[p] # "none" /\ outcome[p] \in Settled
    /\ \A p \in S : outcome[p] = "sent" => p \in carried
    /\ row' = [p \in Pair |-> IF p \in S THEN outcome[p] ELSE row[p]]
    /\ UNCHANGED <<owed, carried>>

\* The ledger deletes a card, and its rows go with it.  A mail may be under way with
\* it, so what was owed may outlive the row.
WithoutCard(S, e) == {p \in S : p[2] # e}

Forget(e) ==
    /\ row' = [p \in Pair |-> IF p[2] = e THEN "none" ELSE row[p]]
    /\ owed' \in {owed, WithoutCard(owed, e)}
    /\ carried' \in {carried, WithoutCard(carried, e)}

Next ==
    \/ \E S \in SUBSET Pair, status \in {"queued", "suppressed"} : Decide(S, status)
    \/ \E S \in SUBSET Pair : Carry(S)
    \/ \E S \in SUBSET Pair, outcome \in [Pair -> Settled] : Settle(S, outcome)
    \/ \E e \in Events : Forget(e)

Spec == Init /\ [][Next]_vars
=============================================================================
