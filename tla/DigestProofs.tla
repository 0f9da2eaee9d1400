---------------------------- MODULE DigestProofs ----------------------------
(***************************************************************************)
(* Digest, for any number of readers, cards, faults and changes: types,    *)
(* what the rows say of the mails and the mails of the rows, the links     *)
(* that have left, and the contract of the rows.                           *)
(*                                                                         *)
(* The rows and the mails are out of step while a batch has mailed and not *)
(* committed.  The invariant counts those batches: as long as a row is     *)
(* queued, every copy that has left is lost or is carried by one of them.  *)
(***************************************************************************)
EXTENDS Digest, FiniteSetTheorems, WellFoundedInduction, TLAPS

Working(s) == slot[s].pc \in {"send", "commit"}

\* A slot works on a reader of its list; what it has loaded was queued once.
SlotShape ==
    \A s \in Slots : Working(s) =>
        /\ slot[s].user \in slot[s].list
        /\ slot[s].items \cap slot[s].bad = {}
        /\ \A e \in slot[s].items \cup slot[s].bad : <<slot[s].user, e>> \in owed

\* Whoever a slot has listed is on its cadence, or has moved since.
Served ==
    \A s \in Slots : \A u \in slot[s].list : OnCadence(u) = CadenceOf[s] \/ u \in moved

\* A row exists once it was queued, until its card goes; a card that has gone stays gone.
RowShape ==
    \A p \in Pair :
        /\ row[p] # "none" => p \in owed
        /\ p \in owed => row[p] # "none" \/ card[p[2]] = "deleted"
        /\ p \notin owed => copies[p] = 0 /\ lost[p] = 0

\* The batches that have mailed p and not committed.
Carriers(p) ==
    {s \in Slots : /\ slot[s].pc = "commit" /\ slot[s].reply # "refused"
                   /\ slot[s].user = p[1] /\ p[2] \in slot[s].items}

\* A copy that left is lost, or carried, or on record.
Counted ==
    \A p \in Pair :
        /\ IsFiniteSet(Carriers(p))
        /\ copies[p] >= lost[p] + Cardinality(Carriers(p))
        /\ row[p] = "queued" => copies[p] = lost[p] + Cardinality(Carriers(p))
        /\ row[p] = "sent" => copies[p] > lost[p] + Cardinality(Carriers(p))

\* What is about to be mailed to a reader who has not moved is not with them yet.
Loaded ==
    \A s \in Slots : slot[s].pc = "send" =>
        \/ slot[s].user \in moved
        \/ \A e \in slot[s].items : copies[<<slot[s].user, e>>] = lost[<<slot[s].user, e>>]

AtMostOnce == \A p \in Pair : copies[p] <= 1 + lost[p] \/ p[1] \in moved

RowInv == SlotShape /\ Served /\ RowShape /\ Counted /\ Loaded /\ AtMostOnce

\* A reader without a settings row is on no chosen cadence; tokens are numbered as minted.
TokenShape ==
    /\ \A u \in Users : (token[u] = 0 => cadence[u] = "unset") /\ token[u] <= minted[u]
    /\ \A s \in Slots : \A u \in slot[s].known : token[u] # 0
    /\ \A l \in links : l[2] # 0 /\ l[2] <= minted[l[1]]

\* The link of a batch that has mailed: of the row it inserts, or of the one that is there.
LinkShape ==
    \A s \in Slots : slot[s].pc = "commit" =>
        /\ slot[s].link # 0 /\ slot[s].link <= minted[slot[s].user]
        /\ slot[s].mint =>
              /\ token[slot[s].user] = 0
              /\ slot[s].reply = "refused" => <<slot[s].user, slot[s].link>> \notin links
        /\ ~ slot[s].mint => token[slot[s].user] = slot[s].link
        /\ slot[s].reply # "refused" => <<slot[s].user, slot[s].link>> \in links

\* One insert of a settings row at a time: the others wait for it.
OneInsert ==
    \A s, t \in Slots :
        /\ slot[s].pc = "commit" /\ slot[s].mint
        /\ slot[t].pc = "commit" /\ slot[t].mint
        /\ slot[s].user = slot[t].user
        => s = t

TokenInv == TokenShape /\ LinkShape /\ OneInsert /\ LinksResolve

IInv == TypeOK /\ RowInv /\ TokenInv
-----------------------------------------------------------------------------
(***************************************************************************)
(* Types, and what a step of a slot leaves of its locals.                  *)
(***************************************************************************)

\* The choice of the reader to serve next is defined (send_digests, oldest first).
LEMMA OldestIsListed == ASSUME NEW S \in SUBSET Users, S # {} PROVE Oldest(S) \in S
<1>1. S \subseteq Nat
  BY DigestAssumption
<1> DEFINE Below == {0..u : u \in S}
<1>2. Below \subseteq FiniteSubsetsOf(Nat) /\ Below # {}
  <2>1. \A u \in S : IsFiniteSet(0..u) /\ 0..u \subseteq Nat
    BY <1>1, FS_Interval
  <2>2. \A X \in Below : IsFiniteSet(X) /\ X \in SUBSET Nat
    BY <2>1, Zenon
  <2>3. PICK u \in S : TRUE
    OBVIOUS
  <2>4. 0..u \in Below
    BY <2>3, Zenon
  <2> HIDE DEF Below
  <2> QED
    BY <2>2, <2>4 DEF FiniteSubsetsOf
<1>3. PICK X \in Below : \A Y \in Below : <<Y, X>> \notin StrictSubsetOrdering(Nat)
  BY <1>2, WFMin, FS_StrictSubsetOrderingWellFounded
<1>4. PICK u \in S : X = 0..u
  BY <1>3, Zenon
<1>5. ASSUME NEW v \in S, ~ (u <= v) PROVE FALSE
  <2>1. 0..v \in Below
    BY Zenon
  <2>2. /\ 0..v \subseteq 0..u /\ 0..v # 0..u
        /\ 0..v \in SUBSET Nat /\ 0..u \in SUBSET Nat
    <3>1. u \in Nat /\ v \in Nat /\ v < u
      BY <1>1, <1>5
    <3>2. u \in 0..u /\ u \notin 0..v
      BY <3>1
    <3> QED
      BY <3>1, <3>2
  <2> HIDE DEF Below
  <2> QED
    BY <1>3, <1>4, <2>1, <2>2 DEF StrictSubsetOrdering
<1> QED
  BY <1>5 DEF Oldest

LEMMA TypeInit == Init => TypeOK
BY DigestAssumption DEF Init, TypeOK, Idle, Slot, Pair, Settled

\* The locals of a slot that is done with its batch, and nothing else of any slot.
Ended(s) ==
    /\ \A t \in Slots \ {s} : slot'[t] = slot[t]
    /\ slot'[s].pc \in {"idle", "next"}
    /\ slot'[s].list \subseteq slot[s].list /\ slot'[s].known \subseteq slot[s].known

LEMMA IdleTyped == Idle \in Slot
BY DigestAssumption DEF Idle, Slot

LEMMA AfterTyped ==
    ASSUME TypeOK, NEW s \in Slots, NEW failed \in BOOLEAN
    PROVE  /\ After(s, failed) \in Slot
           /\ After(s, failed).pc \in {"idle", "next"}
           /\ After(s, failed).list \subseteq slot[s].list
           /\ After(s, failed).known \subseteq slot[s].known
<1> DEFINE streak == IF failed THEN slot[s].streak + 1 ELSE 0
<1>1. slot[s] \in Slot
  BY DEF TypeOK
<1>2. CASE GivesUp(streak)
  BY <1>2, IdleTyped DEF After, Idle
<1>3. CASE ~ GivesUp(streak)
  <2>1. streak \in 0..Threshold - 1
    BY <1>1, <1>3, DigestAssumption DEF GivesUp, Slot
  <2>2. After(s, failed) =
          [pc |-> "next", list |-> slot[s].list \ {slot[s].user}, ok |-> slot[s].ok,
           known |-> slot[s].known, slate |-> slot[s].slate, streak |-> streak,
           user |-> 0, items |-> {}, bad |-> {}, dates |-> FALSE,
           link |-> 0, mint |-> FALSE, reply |-> "none"]
    BY <1>3 DEF After, Idle
  <2> QED
    BY <1>1, <2>1, <2>2 DEF Slot
<1> QED
  BY <1>2, <1>3

Ends(s) == Refuse(s) \/ SayNothing(s) \/ Commit(s) \/ BatchLost(s) \/ Kill(s) \/ Finish(s)

LEMMA EndsEnd ==
    ASSUME TypeOK, NEW s \in Slots, Ends(s)
    PROVE  Ended(s) /\ slot' \in [Slots -> Slot]
<1>1. PICK next \in {After(s, TRUE), After(s, FALSE), After(s, slot[s].reply # "accepted"), Idle} :
        slot' = [slot EXCEPT ![s] = next]
  BY DEF Ends, Refuse, SayNothing, Commit, BatchLost, Kill, Finish
<1>2. /\ next \in Slot /\ next.pc \in {"idle", "next"}
      /\ next.list \subseteq slot[s].list /\ next.known \subseteq slot[s].known
  <2>1. CASE next = Idle
    BY <2>1, IdleTyped DEF Idle
  <2>2. CASE next # Idle
    BY <2>2, AfterTyped
  <2> QED
    BY <2>1, <2>2
<1> QED
  BY <1>1, <1>2 DEF Ended, TypeOK

LEMMA StartShape ==
    ASSUME TypeOK, NEW s \in Slots, StartSlot(s)
    PROVE  /\ \A t \in Slots \ {s} : slot'[t] = slot[t]
           /\ slot' \in [Slots -> Slot] /\ slot'[s].pc = "next"
           /\ \A u \in slot'[s].list : OnCadence(u) = CadenceOf[s]
           /\ \A u \in slot'[s].known : token[u] # 0
<1>1. PICK slate \in BOOLEAN, list \in SUBSET Users, known \in SUBSET Users :
        /\ \A u \in list : OnCadence(u) = CadenceOf[s]
        /\ \A u \in known : token[u] # 0
        /\ slot' = [slot EXCEPT ![s] =
                      [Idle EXCEPT !.pc = "next", !.list = list, !.slate = slate,
                                   !.ok = list \cap admitted, !.known = known]]
  BY DEF StartSlot
<1>2. PICK next :
        next = [Idle EXCEPT !.pc = "next", !.list = list, !.slate = slate,
                            !.ok = list \cap admitted, !.known = known]
  OBVIOUS
<1>3. slot' = [slot EXCEPT ![s] = next]
  BY <1>1, <1>2
<1>4. next \in Slot
  <2>1. 0 \in 0..Threshold - 1
    BY DigestAssumption
  <2>2. next = [pc |-> "next", list |-> list, ok |-> list \cap admitted,
                known |-> known, slate |-> slate, streak |-> 0,
                user |-> 0, items |-> {}, bad |-> {}, dates |-> FALSE,
                link |-> 0, mint |-> FALSE, reply |-> "none"]
    BY <1>2 DEF Idle
  <2> QED
    BY <2>1, <2>2, list \cap admitted \in SUBSET Users DEF Slot
<1>5. next.pc = "next" /\ next.list = list /\ next.known = known
  BY <1>2 DEF Idle
<1> QED
  BY <1>1, <1>3, <1>4, <1>5 DEF TypeOK

LEMMA LoadShape ==
    ASSUME TypeOK, NEW s \in Slots, LoadBatch(s)
    PROVE  /\ \A t \in Slots \ {s} : slot'[t] = slot[t]
           /\ slot' \in [Slots -> Slot] /\ slot'[s].pc = "send"
           /\ slot'[s].list = slot[s].list /\ slot'[s].known = slot[s].known
           /\ slot'[s].user \in slot[s].list
           /\ slot'[s].items \cap slot'[s].bad = {}
           /\ \A e \in slot'[s].items \cup slot'[s].bad :
                 row[<<slot'[s].user, e>>] = "queued"
<1>1. slot \in [Slots -> Slot] /\ slot[s] \in Slot
  BY DEF TypeOK
<1>2. slot[s].list \in SUBSET Users /\ slot[s].list # {}
  BY <1>1 DEF LoadBatch, Slot
<1>3. PICK u \in slot[s].list : u = Oldest(slot[s].list)
  BY <1>2, OldestIsListed
<1>4. PICK bad \in SUBSET QueuedOf(u), dates \in BOOLEAN :
        slot' = [slot EXCEPT ![s].pc = "send", ![s].user = u,
                   ![s].items = QueuedOf(u) \ bad, ![s].bad = bad, ![s].dates = dates]
  BY <1>3 DEF LoadBatch
<1>5. slot' = [slot EXCEPT ![s] =
        [slot[s] EXCEPT !.pc = "send", !.user = u, !.items = QueuedOf(u) \ bad,
                        !.bad = bad, !.dates = dates]]
  BY <1>1, <1>4
<1>6. QueuedOf(u) \subseteq Events /\ u \in Users
  BY <1>2 DEF QueuedOf
<1>7. slot'[s] = [slot[s] EXCEPT !.pc = "send", !.user = u, !.items = QueuedOf(u) \ bad,
                                 !.bad = bad, !.dates = dates]
  BY <1>1, <1>5
<1>8. slot'[s] \in Slot
  BY <1>1, <1>6, <1>7 DEF Slot
<1>9. \A e \in QueuedOf(u) : row[<<u, e>>] = "queued"
  BY DEF QueuedOf
<1>10. /\ slot'[s].user = u /\ slot'[s].items = QueuedOf(u) \ bad /\ slot'[s].bad = bad
       /\ slot'[s].pc = "send" /\ slot'[s].list = slot[s].list
       /\ slot'[s].known = slot[s].known
  BY <1>1, <1>7 DEF Slot
<1> QED
  BY <1>1, <1>5, <1>8, <1>9, <1>10

LEMMA DeliverShape ==
    ASSUME TypeOK, NEW s \in Slots, NEW reply \in {"accepted", "refused", "unanswered"},
           Deliver(s, reply)
    PROVE  /\ \A t \in Slots \ {s} : slot'[t] = slot[t]
           /\ slot' \in [Slots -> Slot] /\ slot'[s].pc = "commit"
           /\ slot'[s].list = slot[s].list /\ slot'[s].known = slot[s].known
           /\ slot'[s].user = slot[s].user /\ slot'[s].items = slot[s].items
           /\ slot'[s].bad = slot[s].bad /\ slot'[s].reply = reply
           /\ slot'[s].link = LinkToken(s) /\ slot'[s].mint = MustMint(s)
           /\ slot[s].pc = "send" /\ slot[s].user \in Users
           /\ LinkToken(s) \in Nat
<1>1. slot \in [Slots -> Slot] /\ slot[s] \in Slot
  BY DEF TypeOK
<1>2. slot[s].pc = "send" /\ slot[s].user \in Users
  BY <1>1 DEF Deliver, Slot
<1>3. LinkToken(s) \in Nat /\ MustMint(s) \in BOOLEAN
  BY <1>2 DEF LinkToken, MustMint, TypeOK
<1>4. slot' = [slot EXCEPT ![s] =
        [slot[s] EXCEPT !.pc = "commit", !.link = LinkToken(s), !.mint = MustMint(s),
                        !.reply = reply]]
  BY <1>1 DEF Deliver
<1>5. slot'[s] = [slot[s] EXCEPT !.pc = "commit", !.link = LinkToken(s),
                                 !.mint = MustMint(s), !.reply = reply]
  BY <1>1, <1>4
<1>6. slot'[s] \in Slot
  BY <1>1, <1>3, <1>5 DEF Slot
<1>7. /\ slot'[s].pc = "commit" /\ slot'[s].list = slot[s].list
      /\ slot'[s].known = slot[s].known /\ slot'[s].user = slot[s].user
      /\ slot'[s].items = slot[s].items /\ slot'[s].bad = slot[s].bad
      /\ slot'[s].reply = reply /\ slot'[s].link = LinkToken(s)
      /\ slot'[s].mint = MustMint(s)
  BY <1>1, <1>5 DEF Slot
<1> QED
  BY <1>1, <1>2, <1>3, <1>4, <1>6, <1>7

LEMMA MarkTyped ==
    ASSUME TypeOK, NEW u, NEW items, NEW bad, NEW good \in Settled, NEW poor \in Settled
    PROVE  /\ Mark(u, items, good, bad, poor) \in [Pair -> {"none", "queued"} \cup Settled]
           /\ \A p \in Pair :
                Mark(u, items, good, bad, poor)[p] =
                  IF p[1] # u \/ row[p] = "none" THEN row[p]
                  ELSE IF p[2] \in items THEN good
                  ELSE IF p[2] \in bad THEN poor
                  ELSE row[p]
BY DEF Mark, TypeOK

LEMMA TypeWorld == ASSUME TypeOK, World PROVE TypeOK'
<1>1. ASSUME NEW u \in Users, NEW e \in Events, Queue(u, e) PROVE TypeOK'
  BY <1>1 DEF Queue, TypeOK, worldVars, Pair
<1>2. ASSUME NEW e \in Events, Withdraw(e) PROVE TypeOK'
  BY <1>2 DEF Withdraw, TypeOK, historyVars
<1>3. ASSUME NEW e \in Events, Delete(e) PROVE TypeOK'
  BY <1>3 DEF Delete, TypeOK, historyVars
<1>4. ASSUME Change PROVE changes' \in 0..MaxChanges
  BY <1>4, DigestAssumption DEF Change, TypeOK
<1>5. ASSUME NEW u \in Users, ToggleGate(u) \/ ToggleFollow(u) PROVE TypeOK'
  BY <1>4, <1>5 DEF ToggleGate, ToggleFollow, TypeOK, historyVars
<1>6. ASSUME NEW u \in Users, OpenSettings(u) PROVE TypeOK'
  BY <1>4, <1>6 DEF OpenSettings, TypeOK, historyVars, worldVars
<1>7. ASSUME NEW u \in Users, NEW c \in {"daily", "weekly", "off"}, SetCadence(u, c)
      PROVE  TypeOK'
  BY <1>4, <1>7 DEF SetCadence, TypeOK, worldVars
<1>8. ASSUME NEW u \in Users, Unsubscribe(u, token[u]) PROVE TypeOK'
  BY <1>4, <1>8 DEF Unsubscribe, TypeOK, worldVars
<1> QED
  BY <1>1, <1>2, <1>3, <1>5, <1>6, <1>7, <1>8 DEF World

LEMMA TypeRolledBack ==
    ASSUME TypeOK, LinkShape, NEW s \in Slots, BatchLost(s) \/ Kill(s)
    PROVE  TypeOK'
<1>1. slot' \in [Slots -> Slot]
  BY EndsEnd DEF Ends
<1>2. faults' \in 0..MaxFaults
  <2>1. faults < MaxFaults /\ faults' = faults + 1
    BY DEF BatchLost, Kill, Fault
  <2> QED
    BY <2>1, DigestAssumption DEF TypeOK
<1>3. RolledBack(s)
  BY DEF BatchLost, Kill
<1>4. lost' \in [Pair -> Nat]
  BY <1>3 DEF RolledBack, TypeOK
<1>5. orphans' \subseteq links' /\ links' = links
  BY <1>3 DEF RolledBack, TypeOK, LinkShape
<1> QED
  BY <1>1, <1>2, <1>3, <1>4, <1>5 DEF RolledBack, TypeOK, worldVars

LEMMA TypeSlotStep == ASSUME TypeOK, NEW s \in Slots, SlotStep(s) PROVE TypeOK'
<1>1. CASE StartSlot(s) \/ LoadBatch(s) \/ Finish(s)
  <2>1. slot' \in [Slots -> Slot]
    BY <1>1, StartShape, LoadShape, EndsEnd DEF Ends
  <2>2. UNCHANGED slotOnly
    BY <1>1 DEF StartSlot, LoadBatch, Finish
  <2> QED
    BY <2>1, <2>2 DEF TypeOK, slotOnly, worldVars, historyVars
<1>2. CASE Refuse(s) \/ SayNothing(s)
  <2>1. slot' \in [Slots -> Slot]
    BY <1>2, EndsEnd DEF Ends
  <2>2. row' \in [Pair -> {"none", "queued"} \cup Settled]
    <3>1. {"sent", "failed", "suppressed"} \subseteq Settled
      BY DEF Settled
    <3>2. CASE Refuse(s)
      BY <3>1, <3>2, MarkTyped DEF Refuse
    <3>3. CASE SayNothing(s)
      <4>1. row' = Mark(slot[s].user, {}, "sent", slot[s].bad, "failed")
        BY <3>3 DEF SayNothing
      <4>2. "sent" \in Settled /\ "failed" \in Settled
        BY <3>1
      <4> QED
        BY <4>1, <4>2 DEF Mark, TypeOK
    <3> QED
      BY <1>2, <3>2, <3>3
  <2>3. UNCHANGED <<worldVars, cadence, token, minted, faults, changes, historyVars>>
    BY <1>2 DEF Refuse, SayNothing
  <2> QED
    BY <2>1, <2>2, <2>3 DEF TypeOK, worldVars, historyVars
<1>3. ASSUME NEW reply \in {"accepted", "refused", "unanswered"}, Deliver(s, reply)
      PROVE  TypeOK'
  <2>1. /\ slot' \in [Slots -> Slot] /\ slot[s].user \in Users
        /\ LinkToken(s) \in Nat
    BY <1>3, DeliverShape
  <2>2. faults' \in 0..MaxFaults
    BY <1>3, DigestAssumption DEF Deliver, TypeOK
  <2>3. minted' \in [Users -> Nat]
    <3>1. PICK n \in {minted[slot[s].user], minted[slot[s].user] + 1} :
            minted' = [minted EXCEPT ![slot[s].user] = n]
      BY <1>3 DEF Deliver
    <3> QED
      BY <2>1, <3>1 DEF TypeOK
  <2>4. copies' \in [Pair -> Nat]
    BY <1>3 DEF Deliver, TypeOK
  <2>5. links' \subseteq Users \X Nat /\ links \subseteq links'
    BY <1>3, <2>1 DEF Deliver, TypeOK
  <2> QED
    BY <1>3, <2>1, <2>2, <2>3, <2>4, <2>5 DEF Deliver, TypeOK, worldVars
<1>4. CASE Commit(s)
  <2>1. slot' \in [Slots -> Slot] /\ slot[s] \in Slot
    BY <1>4, EndsEnd DEF Ends, TypeOK
  <2>2. row' \in [Pair -> {"none", "queued"} \cup Settled]
    BY <1>4, MarkTyped DEF Commit, Outcome, Settled
  <2>3. token' \in [Users -> Nat]
    BY <1>4, <2>1 DEF Commit, TypeOK, Slot
  <2>4. cadence' \in [Users -> {"unset", "daily", "weekly", "off"}]
    BY <1>4 DEF Commit, TypeOK
  <2>5. UNCHANGED <<worldVars, minted, faults, changes, historyVars>>
    BY <1>4 DEF Commit
  <2> QED
    BY <2>1, <2>2, <2>3, <2>4, <2>5 DEF TypeOK, worldVars, historyVars
<1> QED
  BY <1>1, <1>2, <1>3, <1>4 DEF SlotStep

LEMMA TypeStep == ASSUME TypeOK, LinkShape, [Next]_vars PROVE TypeOK'
<1>1. CASE UNCHANGED vars
  BY <1>1 DEF TypeOK, vars, worldVars, historyVars
<1> QED
  BY <1>1, TypeWorld, TypeSlotStep, TypeRolledBack DEF Next
-----------------------------------------------------------------------------
(***************************************************************************)
(* The links that have left.                                               *)
(***************************************************************************)

LEMMA TokenInit == Init => TokenInv
<1>1. Init => TokenShape /\ LinkShape /\ OneInsert
  BY DEF Init, Idle, TokenShape, LinkShape, OneInsert
<1>2. Init => LinksResolve
  BY DEF Init, LinksResolve
<1> QED
  BY <1>1, <1>2 DEF TokenInv

tokens == <<token, cadence, minted, links, orphans>>

LEMMA TokenFrame == ASSUME TokenInv, UNCHANGED <<tokens, slot>> PROVE TokenInv'
BY DEF TokenInv, TokenShape, LinkShape, OneInsert, LinksResolve, LinkInFlight, tokens

LEMMA TokenWorld == ASSUME TypeOK, TokenInv, World PROVE TokenInv'
<1>1. CASE UNCHANGED <<tokens, slot>>
  BY <1>1, TokenFrame
<1>2. ASSUME NEW u, NEW e,
             Queue(u, e) \/ Withdraw(e) \/ Delete(e) \/ ToggleGate(u) \/ ToggleFollow(u)
      PROVE  UNCHANGED <<tokens, slot>>
  BY <1>2 DEF Queue, Withdraw, Delete, ToggleGate, ToggleFollow, worldVars, historyVars, tokens
<1>3. ASSUME NEW u \in Users, OpenSettings(u) PROVE TokenInv'
  <2>1. /\ token[u] = 0 /\ ~ InsertOpen(u) /\ UNCHANGED <<slot, links, orphans>>
        /\ minted' = [minted EXCEPT ![u] = @ + 1]
        /\ token' = [token EXCEPT ![u] = minted'[u]]
        /\ cadence' = [cadence EXCEPT ![u] = "weekly"]
    BY <1>3 DEF OpenSettings, historyVars
  <2>2. /\ minted'[u] = minted[u] + 1 /\ token'[u] = minted[u] + 1 /\ minted[u] \in Nat
        /\ \A v \in Users \ {u} : /\ minted'[v] = minted[v] /\ token'[v] = token[v]
                                  /\ cadence'[v] = cadence[v]
    BY <2>1 DEF TypeOK
  <2>3. \A v \in Users : minted[v] \in Nat /\ minted'[v] \in Nat /\ minted[v] <= minted'[v]
    BY <2>1, <2>2 DEF TypeOK
  <2>4. links \subseteq Users \X Nat /\ slot \in [Slots -> Slot]
    BY DEF TypeOK
  <2>5. TokenShape'
    <3>1. \A v \in Users : (token'[v] = 0 => cadence'[v] = "unset") /\ token'[v] <= minted'[v]
      BY <2>2, <2>3 DEF TokenInv, TokenShape, TypeOK
    <3>2. \A s \in Slots : slot[s].known \subseteq Users
      BY <2>4 DEF Slot
    <3>3. \A s \in Slots : \A v \in slot'[s].known : token'[v] # 0
      BY <2>1, <2>2, <3>2 DEF TokenInv, TokenShape
    <3>4. \A l \in links' : l[2] # 0 /\ l[2] <= minted'[l[1]]
      BY <2>1, <2>3, <2>4 DEF TokenInv, TokenShape
    <3> QED
      BY <3>1, <3>3, <3>4 DEF TokenShape
  <2>6. LinkShape'
    <3> SUFFICES ASSUME NEW s \in Slots, slot[s].pc = "commit"
                 PROVE  /\ slot[s].link <= minted'[slot[s].user]
                        /\ token'[slot[s].user] = token[slot[s].user]
      BY <2>1 DEF LinkShape, TokenInv
    <3>1. /\ slot[s].link \in Nat /\ slot[s].link # 0
          /\ slot[s].link <= minted[slot[s].user]
      BY <2>4 DEF TokenInv, LinkShape, Slot
    <3>2. CASE slot[s].user \in Users /\ slot[s].user # u
      BY <2>2, <3>1, <3>2
    <3>3. CASE slot[s].user = u
      BY <2>1, <3>1, <3>3 DEF InsertOpen, TokenInv, LinkShape
    <3>4. CASE slot[s].user \notin Users
      BY <2>1, <3>1, <3>4 DEF TypeOK
    <3> QED
      BY <3>2, <3>3, <3>4
  <2>7. OneInsert'
    BY <2>1 DEF TokenInv, OneInsert
  <2>8. LinksResolve'
    <3> SUFFICES ASSUME NEW l \in links, token[l[1]] = l[2] PROVE token'[l[1]] = l[2]
      BY <2>1 DEF TokenInv, LinksResolve, LinkInFlight
    <3>1. l[1] \in Users /\ l[2] # 0
      BY <2>4 DEF TokenInv, TokenShape
    <3> QED
      BY <2>1, <2>2, <3>1
  <2> QED
    BY <2>5, <2>6, <2>7, <2>8 DEF TokenInv
<1>4. ASSUME NEW u \in Users, token[u] # 0, UNCHANGED <<token, minted, slot, links, orphans>>,
             NEW c, cadence' = [cadence EXCEPT ![u] = c]
      PROVE  TokenInv'
  <2>1. \A v \in Users \ {u} : cadence'[v] = cadence[v]
    BY <1>4 DEF TypeOK
  <2>2. TokenShape'
    BY <1>4, <2>1 DEF TokenInv, TokenShape
  <2> QED
    BY <1>4, <2>2 DEF TokenInv, LinkShape, OneInsert, LinksResolve, LinkInFlight
<1>5. ASSUME NEW u \in Users, NEW c \in {"daily", "weekly", "off"}, SetCadence(u, c)
      PROVE  TokenInv'
  BY <1>4, <1>5 DEF SetCadence
<1>6. ASSUME NEW u \in Users, Unsubscribe(u, token[u]) PROVE TokenInv'
  <2>1. <<u, token[u]>> \in links
    BY <1>6 DEF Unsubscribe
  <2>2. token[u] # 0
    BY <2>1 DEF TokenInv, TokenShape
  <2> QED
    BY <1>4, <1>6, <2>2 DEF Unsubscribe
<1> QED
  BY <1>1, <1>2, <1>3, <1>5, <1>6 DEF World

\* A step of a slot that has no mail out, neither before it nor after.
LEMMA TokenQuiet ==
    ASSUME TypeOK, TokenInv, NEW s \in Slots, UNCHANGED tokens,
           \A t \in Slots \ {s} : slot'[t] = slot[t],
           slot[s].pc # "commit", slot'[s].pc # "commit",
           \A u \in slot'[s].known : token[u] # 0
    PROVE  TokenInv'
<1>1. \A t \in Slots : slot[t].pc = "commit" \/ slot'[t].pc = "commit" => slot'[t] = slot[t]
  OBVIOUS
<1>2. TokenShape'
  BY DEF TokenInv, TokenShape, tokens
<1>3. LinkShape' /\ OneInsert'
  BY <1>1 DEF TokenInv, LinkShape, OneInsert, tokens
<1>4. \A u, k : LinkInFlight(u, k) => LinkInFlight(u, k)'
  BY <1>1 DEF LinkInFlight
<1>5. LinksResolve'
  BY <1>4 DEF TokenInv, LinksResolve, tokens
<1> QED
  BY <1>2, <1>3, <1>5 DEF TokenInv

LEMMA TokenDeliver ==
    ASSUME TypeOK, TokenInv, NEW s \in Slots,
           NEW reply \in {"accepted", "refused", "unanswered"}, Deliver(s, reply)
    PROVE  TokenInv'
<1>0. PICK u, k : u = slot[s].user /\ k = LinkToken(s)
  OBVIOUS
<1>1. /\ \A t \in Slots \ {s} : slot'[t] = slot[t]
      /\ slot'[s].pc = "commit" /\ slot'[s].known = slot[s].known
      /\ slot'[s].user = u /\ slot'[s].reply = reply
      /\ slot'[s].link = k /\ slot'[s].mint = MustMint(s)
      /\ slot[s].pc = "send" /\ u \in Users /\ k \in Nat
  BY <1>0, DeliverShape
<1>2. /\ UNCHANGED <<token, cadence, orphans>>
      /\ u \notin slot[s].known => ~ InsertOpen(u)
      /\ links' = IF reply = "refused" THEN links ELSE links \cup {<<u, k>>}
  BY <1>0 DEF Deliver
<1>3. /\ minted' \in [Users -> Nat] /\ minted \in [Users -> Nat] /\ token \in [Users -> Nat]
      /\ \A v \in Users : minted[v] <= minted'[v]
      /\ minted'[u] = IF MustMint(s) THEN minted[u] + 1 ELSE minted[u]
  <2>1. minted' = [minted EXCEPT ![u] = IF MustMint(s) THEN minted[u] + 1 ELSE minted[u]]
    BY <1>0 DEF Deliver
  <2> QED
    BY <1>1, <2>1 DEF TypeOK
<1>4. k # 0 /\ k <= minted'[u] /\ (~ MustMint(s) => token[u] = k)
  <2>1. CASE MustMint(s)
    BY <1>0, <1>1, <1>3, <2>1 DEF LinkToken
  <2>2. CASE ~ MustMint(s)
    <3>1. token[u] # 0 /\ token[u] <= minted[u]
      BY <1>0, <1>1, <2>2 DEF MustMint, TokenInv, TokenShape
    <3> QED
      BY <1>0, <1>1, <1>3, <2>2, <3>1 DEF LinkToken
  <2> QED
    BY <2>1, <2>2
<1>5. MustMint(s) => token[u] = 0 /\ ~ InsertOpen(u) /\ <<u, k>> \notin links
  <2> SUFFICES ASSUME MustMint(s) PROVE token[u] = 0 /\ ~ InsertOpen(u) /\ <<u, k>> \notin links
    OBVIOUS
  <2>1. u \notin slot[s].known /\ token[u] = 0 /\ k = minted[u] + 1
    BY <1>0 DEF MustMint, LinkToken
  <2>2. ASSUME <<u, k>> \in links PROVE FALSE
    <3>1. k <= minted[u]
      BY <2>2 DEF TokenInv, TokenShape
    <3> QED
      BY <1>1, <1>3, <2>1, <3>1
  <2> QED
    BY <1>2, <2>1, <2>2

\* A batch that is inserting a row is about another reader, or this one found its row.
<1>6. ASSUME NEW t \in Slots \ {s}, slot[t].pc = "commit", slot[t].mint
      PROVE  slot[t].user # u
  <2>1. token[slot[t].user] = 0
    BY <1>6 DEF TokenInv, LinkShape
  <2>2. u \in slot[s].known => token[u] # 0
    BY DEF TokenInv, TokenShape
  <2> QED
    BY <1>2, <1>6, <2>1, <2>2 DEF InsertOpen
<1>7. TokenShape'
  <2>1. \A v \in Users : (token'[v] = 0 => cadence'[v] = "unset") /\ token'[v] <= minted'[v]
    BY <1>2, <1>3 DEF TokenInv, TokenShape
  <2>2. \A t \in Slots : \A v \in slot'[t].known : token'[v] # 0
    BY <1>1, <1>2 DEF TokenInv, TokenShape
  <2>3. \A l \in links : l[2] # 0 /\ l[2] <= minted'[l[1]]
    BY <1>3 DEF TokenInv, TokenShape, TypeOK
  <2>4. \A l \in links' : l \in links \/ l = <<u, k>>
    BY <1>2
  <2>5. \A l \in links' : l[2] # 0 /\ l[2] <= minted'[l[1]]
    BY <1>4, <2>3, <2>4
  <2> QED
    BY <2>1, <2>2, <2>5 DEF TokenShape
<1>8. LinkShape'
  <2>1. ASSUME NEW t \in Slots \ {s}, slot[t].pc = "commit"
        PROVE  /\ slot[t].link # 0 /\ slot[t].link <= minted'[slot[t].user]
               /\ slot[t].mint =>
                     /\ token'[slot[t].user] = 0
                     /\ slot[t].reply = "refused" => <<slot[t].user, slot[t].link>> \notin links'
               /\ ~ slot[t].mint => token'[slot[t].user] = slot[t].link
               /\ slot[t].reply # "refused" => <<slot[t].user, slot[t].link>> \in links'
    <3>1. slot[t] \in Slot
      BY DEF TypeOK
    <3>2. slot[t].link \in Nat /\ slot[t].link <= minted[slot[t].user] /\ slot[t].link # 0
      BY <2>1, <3>1 DEF TokenInv, LinkShape, Slot
    <3>3. slot[t].link <= minted'[slot[t].user]
      <4>1. CASE slot[t].user \in Users
        BY <1>3, <3>2, <4>1
      <4>2. CASE slot[t].user \notin Users
        BY <1>0, <1>1, <3>2, <4>2 DEF Deliver, TypeOK
      <4> QED
        BY <4>1, <4>2
    <3>4. links \subseteq links'
      BY <1>2
    <3> QED
      BY <1>2, <1>6, <2>1, <3>2, <3>3, <3>4 DEF TokenInv, LinkShape
  <2>2. <<u, k>> \in links' \/ reply = "refused"
    BY <1>2
  <2>3. MustMint(s) /\ reply = "refused" => <<u, k>> \notin links'
    BY <1>2, <1>5
  <2> QED
    BY <1>1, <1>2, <1>4, <1>5, <2>1, <2>2, <2>3 DEF LinkShape
<1>9. OneInsert'
  BY <1>1, <1>6 DEF TokenInv, OneInsert
<1>10. LinksResolve'
  <2>1. LinkInFlight(u, k)'
    BY <1>1 DEF LinkInFlight
  <2>2. \A v, j : LinkInFlight(v, j) => LinkInFlight(v, j)'
    BY <1>1 DEF LinkInFlight
  <2> SUFFICES ASSUME NEW l \in links'
               PROVE  token'[l[1]] = l[2] \/ LinkInFlight(l[1], l[2])' \/ l \in orphans'
    BY DEF LinksResolve
  <2>3. CASE l = <<u, k>>
    BY <2>1, <2>3
  <2>4. CASE l \in links
    BY <1>2, <2>2, <2>4 DEF TokenInv, LinksResolve
  <2> QED
    BY <1>2, <2>3, <2>4
<1> QED
  BY <1>7, <1>8, <1>9, <1>10 DEF TokenInv

LEMMA TokenCommit == ASSUME TypeOK, TokenInv, NEW s \in Slots, Commit(s) PROVE TokenInv'
<1>0. PICK u, k : u = slot[s].user /\ k = slot[s].link
  OBVIOUS
<1>1. /\ \A t \in Slots \ {s} : slot'[t] = slot[t]
      /\ slot'[s].pc # "commit" /\ slot'[s].known \subseteq slot[s].known
  BY EndsEnd DEF Ends, Ended
<1>2. /\ slot[s].pc = "commit" /\ slot[s] \in Slot
      /\ token' = [token EXCEPT ![u] = IF slot[s].mint THEN k ELSE token[u]]
      /\ cadence' = [cadence EXCEPT ![u] = IF slot[s].mint THEN "weekly" ELSE cadence[u]]
      /\ UNCHANGED <<minted, links, orphans>>
  BY <1>0 DEF Commit, historyVars, TypeOK
<1>3. /\ \A v \in Users \ {u} : token'[v] = token[v] /\ cadence'[v] = cadence[v]
      /\ ~ slot[s].mint => token' = token /\ cadence' = cadence
      /\ u \in Users /\ slot[s].mint => token'[u] = k /\ token[u] = 0
  <2>1. ~ slot[s].mint => token' = token /\ cadence' = cadence
    BY <1>2 DEF TypeOK
  <2>2. u \in Users /\ slot[s].mint => token'[u] = k
    BY <1>2 DEF TypeOK
  <2>3. slot[s].mint => token[u] = 0
    BY <1>0, <1>2 DEF TokenInv, LinkShape
  <2> QED
    BY <1>2, <2>1, <2>2, <2>3 DEF TypeOK
<1>4. k # 0 /\ k <= minted[u]
  BY <1>0, <1>2 DEF TokenInv, LinkShape
\* What named the reader's row goes on naming it.
<1>5. \A v \in Users : token[v] # 0 => token'[v] = token[v]
  BY <1>3
<1>6. TokenShape'
  <2>1. \A v \in Users : (token'[v] = 0 => cadence'[v] = "unset") /\ token'[v] <= minted'[v]
    <3> SUFFICES ASSUME NEW v \in Users
                 PROVE  (token'[v] = 0 => cadence'[v] = "unset") /\ token'[v] <= minted'[v]
      OBVIOUS
    <3>1. CASE v = u /\ slot[s].mint
      BY <1>2, <1>3, <1>4, <3>1
    <3>2. CASE ~ (v = u /\ slot[s].mint)
      BY <1>2, <1>3, <3>2 DEF TokenInv, TokenShape
    <3> QED
      BY <3>1, <3>2
  <2>2. \A t \in Slots : slot'[t].known \subseteq slot[t].known /\ slot[t].known \subseteq Users
    <3>1. \A t \in Slots : slot[t].known \subseteq Users
      BY DEF TypeOK, Slot
    <3> QED
      BY <1>1, <3>1
  <2>3. \A t \in Slots : \A v \in slot'[t].known : token'[v] # 0
    BY <1>5, <2>2 DEF TokenInv, TokenShape
  <2> QED
    BY <1>2, <2>1, <2>3 DEF TokenInv, TokenShape
<1>7. ASSUME NEW t \in Slots \ {s}, slot[t].pc = "commit"
      PROVE  token'[slot[t].user] = token[slot[t].user]
  <2>1. slot[t] \in Slot
    BY DEF TypeOK
  <2>2. CASE slot[t].mint
    <3>1. slot[t].user # u \/ ~ slot[s].mint
      BY <1>0, <1>2, <1>7, <2>2 DEF TokenInv, OneInsert
    <3>2. CASE slot[t].user \in Users
      BY <1>3, <3>1, <3>2
    <3>3. CASE slot[t].user \notin Users
      BY <1>2, <1>3, <3>1, <3>3 DEF TypeOK
    <3> QED
      BY <3>2, <3>3
  <2>3. CASE ~ slot[t].mint
    <3>1. token[slot[t].user] = slot[t].link /\ slot[t].link # 0
      BY <1>7, <2>3 DEF TokenInv, LinkShape
    <3>2. CASE slot[t].user \in Users
      BY <1>5, <3>1, <3>2
    <3>3. CASE slot[t].user \notin Users
      <4>1. slot[t].user = 0 /\ 0 \notin Users
        BY <2>1, <3>3, DigestAssumption DEF Slot
      <4>2. CASE u = 0 /\ slot[s].mint
        BY <1>2, <3>1, <4>1, <4>2 DEF TypeOK
      <4>3. CASE u # 0 \/ ~ slot[s].mint
        BY <1>2, <1>3, <4>1, <4>3 DEF TypeOK
      <4> QED
        BY <4>2, <4>3
    <3> QED
      BY <3>2, <3>3
  <2> QED
    BY <2>2, <2>3
<1>8. LinkShape' /\ OneInsert'
  BY <1>1, <1>2, <1>7 DEF TokenInv, LinkShape, OneInsert
<1>9. LinksResolve'
  <2> SUFFICES ASSUME NEW l \in links
               PROVE  \/ token'[l[1]] = l[2] \/ l \in orphans
                      \/ LinkInFlight(l[1], l[2])'
    BY <1>2 DEF LinksResolve
  <2>1. l[1] \in Users /\ l[2] # 0
    BY DEF TokenInv, TokenShape, TypeOK
  <2>2. CASE token[l[1]] = l[2]
    BY <1>5, <2>1, <2>2
  <2>3. ASSUME NEW t \in Slots, slot[t].pc = "commit", slot[t].user = l[1], slot[t].link = l[2]
        PROVE  token'[l[1]] = l[2] \/ LinkInFlight(l[1], l[2])'
    <3>1. CASE t # s
      BY <1>1, <2>3, <3>1 DEF LinkInFlight
    <3>2. CASE t = s /\ slot[s].mint
      BY <1>0, <1>3, <2>1, <2>3, <3>2
    <3>3. CASE t = s /\ ~ slot[s].mint
      BY <1>0, <1>3, <2>3, <3>3 DEF TokenInv, LinkShape
    <3> QED
      BY <3>1, <3>2, <3>3
  <2> QED
    BY <2>2, <2>3 DEF TokenInv, LinksResolve, LinkInFlight
<1> QED
  BY <1>6, <1>8, <1>9 DEF TokenInv

LEMMA TokenRolledBack ==
    ASSUME TypeOK, TokenInv, NEW s \in Slots, BatchLost(s) \/ Kill(s)
    PROVE  TokenInv'
<1>1. /\ \A t \in Slots \ {s} : slot'[t] = slot[t]
      /\ slot'[s].pc # "commit" /\ slot'[s].known \subseteq slot[s].known
  BY EndsEnd DEF Ends, Ended
<1>2. /\ UNCHANGED <<token, cadence, minted, links>> /\ orphans \subseteq orphans'
      /\ slot[s].pc = "commit" /\ slot[s].reply # "refused" /\ slot[s].mint
           => <<slot[s].user, slot[s].link>> \in orphans'
  BY DEF BatchLost, Kill, RolledBack
<1>3. \A t \in Slots : slot'[t].pc = "commit" => slot'[t] = slot[t]
  BY <1>1
<1>4. TokenShape'
  BY <1>1, <1>2 DEF TokenInv, TokenShape
<1>5. LinkShape' /\ OneInsert'
  BY <1>2, <1>3 DEF TokenInv, LinkShape, OneInsert
<1>6. LinksResolve'
  <2> SUFFICES ASSUME NEW l \in links
               PROVE  \/ token[l[1]] = l[2] \/ l \in orphans'
                      \/ LinkInFlight(l[1], l[2])'
    BY <1>2 DEF LinksResolve
  <2>1. ASSUME NEW t \in Slots, slot[t].pc = "commit", slot[t].user = l[1], slot[t].link = l[2]
        PROVE  token[l[1]] = l[2] \/ l \in orphans' \/ LinkInFlight(l[1], l[2])'
    <3>1. CASE t # s
      BY <1>1, <2>1, <3>1 DEF LinkInFlight
    <3>2. CASE t = s
      <4>1. l = <<slot[s].user, slot[s].link>>
        BY <2>1, <3>2 DEF TypeOK
      <4>2. slot[s].mint => slot[s].reply # "refused"
        BY <2>1, <3>2, <4>1 DEF TokenInv, LinkShape
      <4>3. ~ slot[s].mint => token[l[1]] = l[2]
        BY <2>1, <3>2 DEF TokenInv, LinkShape
      <4> QED
        BY <1>2, <2>1, <3>2, <4>1, <4>2, <4>3
    <3> QED
      BY <3>1, <3>2
  <2> QED
    BY <1>2, <2>1 DEF TokenInv, LinksResolve, LinkInFlight
<1> QED
  BY <1>4, <1>5, <1>6 DEF TokenInv

LEMMA TokenStep == ASSUME TypeOK, TokenInv, [Next]_vars PROVE TokenInv'
<1>1. CASE UNCHANGED vars
  BY <1>1, TokenFrame DEF vars, historyVars, tokens
<1>2. CASE World
  BY <1>2, TokenWorld
<1>3. ASSUME NEW s \in Slots, SlotStep(s) PROVE TokenInv'
  <2>1. CASE StartSlot(s)
    BY <2>1, StartShape, TokenQuiet DEF StartSlot, slotOnly, historyVars, tokens
  <2>2. CASE LoadBatch(s)
    <3>1. \A u \in slot'[s].known : token[u] # 0
      BY <2>2, LoadShape DEF TokenInv, TokenShape
    <3> QED
      BY <2>2, <3>1, LoadShape, TokenQuiet DEF LoadBatch, slotOnly, historyVars, tokens
  <2>3. CASE Refuse(s) \/ SayNothing(s) \/ Finish(s)
    <3>1. Ended(s) /\ slot[s].pc # "commit" /\ UNCHANGED tokens
      BY <2>3, EndsEnd
      DEF Ends, Refuse, SayNothing, Finish, slotOnly, historyVars, tokens
    <3>2. \A u \in slot'[s].known : token[u] # 0
      BY <3>1 DEF Ended, TokenInv, TokenShape
    <3> QED
      BY <3>1, <3>2, TokenQuiet DEF Ended
  <2> QED
    BY <1>3, <2>1, <2>2, <2>3, TokenDeliver, TokenCommit DEF SlotStep
<1>4. ASSUME NEW s \in Slots, BatchLost(s) \/ Kill(s) PROVE TokenInv'
  BY <1>4, TokenRolledBack
<1> QED
  BY <1>1, <1>2, <1>3, <1>4 DEF Next
-----------------------------------------------------------------------------
(***************************************************************************)
(* The rows and the mails.                                                 *)
(***************************************************************************)

LEMMA RowInit == Init => RowInv
<1> SUFFICES ASSUME Init PROVE RowInv
  OBVIOUS
<1>1. SlotShape /\ Served /\ RowShape /\ Loaded /\ AtMostOnce
  BY DEF Init, Idle, SlotShape, Working, Served, RowShape, Loaded, AtMostOnce
<1>2. \A p \in Pair : Carriers(p) = {}
  BY DEF Init, Idle, Carriers
<1>3. Counted
  BY <1>2, FS_EmptySet DEF Init, Counted
<1> QED
  BY <1>1, <1>3 DEF RowInv

\* Two slots have the same reader listed only if the reader moved meanwhile.
LEMMA Alone ==
    ASSUME TypeOK, RowInv, NEW s \in Slots, NEW t \in Slots, s # t,
           NEW u, u \in slot[s].list, u \in slot[t].list
    PROVE  u \in moved
<1>1. OnCadence(u) = CadenceOf[s] \/ u \in moved
  BY DEF RowInv, Served
<1>2. OnCadence(u) = CadenceOf[t] \/ u \in moved
  BY DEF RowInv, Served
<1> QED
  BY <1>1, <1>2, DigestAssumption

LEMMA CarriersCounted ==
    ASSUME TypeOK, Counted, NEW p \in Pair
    PROVE  /\ IsFiniteSet(Carriers(p)) /\ Cardinality(Carriers(p)) \in Nat
           /\ copies[p] \in Nat /\ lost[p] \in Nat
BY FS_CardinalityType DEF Counted, TypeOK

\* A pair that was never queued is in no batch.
LEMMA CarriedIsOwed ==
    ASSUME TypeOK, RowInv, NEW p \in Pair, NEW s \in Carriers(p)
    PROVE  p \in owed /\ p[1] \in slot[s].list
<1>1. p = <<p[1], p[2]>>
  BY DEF Pair
<1>2. /\ s \in Slots /\ slot[s].pc = "commit"
      /\ slot[s].user = p[1] /\ p[2] \in slot[s].items
  BY DEF Carriers
<1>3. Working(s)
  BY <1>2 DEF Working
<1> QED
  BY <1>1, <1>2, <1>3 DEF RowInv, SlotShape

LEMMA RowFrame ==
    ASSUME RowInv, UNCHANGED <<row, owed, copies, lost, slot, moved>>,
           \A e \in Events : card[e] = "deleted" => card'[e] = "deleted",
           \A s \in Slots : \A u \in slot[s].list : OnCadence(u)' = OnCadence(u)
    PROVE  RowInv'
<1>1. SlotShape' /\ Loaded' /\ AtMostOnce'
  BY DEF RowInv, SlotShape, Working, Loaded, AtMostOnce
<1>2. Served'
  BY DEF RowInv, Served
<1>3. RowShape'
  BY DEF RowInv, RowShape, Pair
<1>4. Counted'
  BY DEF RowInv, Counted, Carriers
<1> QED
  BY <1>1, <1>2, <1>3, <1>4 DEF RowInv

LEMMA RowQueue ==
    ASSUME TypeOK, RowInv, NEW u \in Users, NEW e \in Events, Queue(u, e)
    PROVE  RowInv'
<1>0. PICK q \in Pair : q = <<u, e>>
  BY DEF Pair
<1>1. /\ row[q] = "none" /\ card[q[2]] = "published"
      /\ row' = [row EXCEPT ![q] = "queued"] /\ owed' = owed \cup {q}
      /\ UNCHANGED <<card, cadence, copies, lost, slot, moved>>
  BY <1>0 DEF Queue, worldVars
<1>2. q \notin owed
  BY <1>1 DEF RowInv, RowShape
<1>3. copies[q] = 0 /\ lost[q] = 0 /\ Carriers(q) = {}
  <2>1. Carriers(q) = {}
    BY <1>2, CarriedIsOwed
  <2> QED
    BY <1>2, <2>1 DEF RowInv, RowShape
<1>4. SlotShape' /\ Served' /\ Loaded' /\ AtMostOnce'
  BY <1>1 DEF RowInv, SlotShape, Working, Served, OnCadence, Loaded, AtMostOnce
<1>5. \A p \in Pair \ {q} : row'[p] = row[p]
  BY <1>1 DEF TypeOK
<1>6. row'[q] = "queued"
  BY <1>1 DEF TypeOK
<1>7. RowShape'
  BY <1>1, <1>5, <1>6 DEF RowInv, RowShape
<1>8. Counted'
  <2>1. \A p \in Pair : Carriers(p)' = Carriers(p)
    BY <1>1 DEF Carriers
  <2> SUFFICES ASSUME NEW p \in Pair
               PROVE  /\ IsFiniteSet(Carriers(p))
                      /\ copies[p] >= lost[p] + Cardinality(Carriers(p))
                      /\ row'[p] = "queued" => copies[p] = lost[p] + Cardinality(Carriers(p))
                      /\ row'[p] = "sent" => copies[p] > lost[p] + Cardinality(Carriers(p))
    BY <1>1, <2>1 DEF Counted
  <2>2. CASE p = q
    BY <1>3, <1>6, <2>2, FS_EmptySet
  <2>3. CASE p # q
    BY <1>5, <2>3 DEF RowInv, Counted
  <2> QED
    BY <2>2, <2>3
<1> QED
  BY <1>4, <1>7, <1>8 DEF RowInv

LEMMA RowDelete ==
    ASSUME TypeOK, RowInv, NEW e \in Events, Delete(e)
    PROVE  RowInv'
<1>1. /\ card' = [card EXCEPT ![e] = "deleted"]
      /\ row' = [p \in Pair |-> IF p[2] = e THEN "none" ELSE row[p]]
      /\ UNCHANGED <<cadence, owed, copies, lost, slot, moved>>
  BY DEF Delete, historyVars
<1>2. SlotShape' /\ Served' /\ Loaded' /\ AtMostOnce'
  BY <1>1 DEF RowInv, SlotShape, Working, Served, OnCadence, Loaded, AtMostOnce
<1>3. RowShape'
  BY <1>1 DEF RowInv, RowShape, TypeOK, Pair
<1>4. Counted'
  <2>1. \A p \in Pair : row'[p] \in {"none", row[p]}
    BY <1>1
  <2> QED
    BY <1>1, <2>1 DEF RowInv, Counted, Carriers
<1> QED
  BY <1>2, <1>3, <1>4 DEF RowInv

\* A reader's cadence changes; whoever is listed then is marked as moved.
LEMMA RowMoved ==
    ASSUME TypeOK, RowInv, NEW u \in Users, NEW c,
           cadence' = [cadence EXCEPT ![u] = c],
           moved' = IF u \in Listed THEN moved \cup {u} ELSE moved,
           UNCHANGED <<row, card, owed, copies, lost, slot>>
    PROVE  RowInv'
<1>1. moved \subseteq moved'
  OBVIOUS
<1>2. SlotShape' /\ RowShape' /\ Counted' /\ Loaded' /\ AtMostOnce'
  BY <1>1 DEF RowInv, SlotShape, Working, RowShape, Counted, Carriers, Loaded, AtMostOnce
<1>3. ASSUME NEW s \in Slots, NEW v \in slot[s].list
      PROVE  OnCadence(v)' = CadenceOf[s] \/ v \in moved'
  <2>1. v \in Users
    BY DEF TypeOK, Slot
  <2>2. CASE v = u
    BY <2>2 DEF Listed
  <2>3. CASE v # u
    BY <1>1, <2>1, <2>3 DEF RowInv, Served, OnCadence, TypeOK
  <2> QED
    BY <2>2, <2>3
<1>4. Served'
  BY <1>3 DEF Served
<1> QED
  BY <1>2, <1>4 DEF RowInv

LEMMA RowWorld == ASSUME TypeOK, RowInv, TokenInv, World PROVE RowInv'
<1>1. ASSUME NEW e \in Events, Withdraw(e) PROVE RowInv'
  BY <1>1, RowFrame DEF Withdraw, historyVars, OnCadence, TypeOK
<1>2. ASSUME NEW u \in Users, ToggleGate(u) \/ ToggleFollow(u) PROVE RowInv'
  BY <1>2, RowFrame DEF ToggleGate, ToggleFollow, historyVars, OnCadence
<1>3. ASSUME NEW u \in Users, OpenSettings(u) PROVE RowInv'
  <2>1. cadence[u] = "unset"
    BY <1>3 DEF OpenSettings, TokenInv, TokenShape
  <2>2. \A v : OnCadence(v)' = OnCadence(v)
    <3> SUFFICES ASSUME NEW v PROVE OnCadence(v)' = OnCadence(v)
      OBVIOUS
    <3>1. cadence' = [cadence EXCEPT ![u] = "weekly"]
      BY <1>3 DEF OpenSettings
    <3> QED
      BY <2>1, <3>1 DEF OnCadence, TypeOK
  <2> QED
    BY <1>3, <2>2, RowFrame DEF OpenSettings, historyVars, worldVars
<1>4. ASSUME NEW u \in Users, NEW c \in {"daily", "weekly", "off"}, SetCadence(u, c)
      PROVE  RowInv'
  BY <1>4, RowMoved DEF SetCadence, worldVars
<1>5. ASSUME NEW u \in Users, Unsubscribe(u, token[u]) PROVE RowInv'
  BY <1>5, RowMoved DEF Unsubscribe, worldVars
<1> QED
  BY <1>1, <1>2, <1>3, <1>4, <1>5, RowQueue, RowDelete DEF World

LEMMA CarriersOthers ==
    ASSUME NEW s \in Slots, \A t \in Slots \ {s} : slot'[t] = slot[t],
           slot[s].pc # "commit", slot'[s].pc # "commit", NEW p
    PROVE  Carriers(p)' = Carriers(p)
BY DEF Carriers

LEMMA RowStart == ASSUME TypeOK, RowInv, NEW s \in Slots, StartSlot(s) PROVE RowInv'
<1>1. /\ \A t \in Slots \ {s} : slot'[t] = slot[t]
      /\ slot[s].pc = "idle" /\ slot'[s].pc = "next"
      /\ \A u \in slot'[s].list : OnCadence(u) = CadenceOf[s]
      /\ UNCHANGED <<row, card, cadence, owed, copies, lost, moved>>
  BY StartShape DEF StartSlot, slotOnly, worldVars, historyVars
<1>2. SlotShape' /\ RowShape' /\ Loaded' /\ AtMostOnce'
  BY <1>1 DEF RowInv, SlotShape, Working, RowShape, Loaded, AtMostOnce
<1>3. Served'
  BY <1>1 DEF RowInv, Served, OnCadence
<1>4. Counted'
  <2>1. \A p : Carriers(p)' = Carriers(p)
    BY <1>1, CarriersOthers
  <2> QED
    BY <1>1, <2>1 DEF RowInv, Counted
<1> QED
  BY <1>2, <1>3, <1>4 DEF RowInv

LEMMA RowLoad == ASSUME TypeOK, RowInv, NEW s \in Slots, LoadBatch(s) PROVE RowInv'
<1>0. PICK u \in Users : u = slot'[s].user /\ u \in slot[s].list
  BY LoadShape DEF TypeOK, Slot
<1>1. /\ \A t \in Slots \ {s} : slot'[t] = slot[t]
      /\ slot[s].pc = "next" /\ slot'[s].pc = "send" /\ slot'[s].list = slot[s].list
      /\ slot'[s].items \cap slot'[s].bad = {}
      /\ \A e \in slot'[s].items \cup slot'[s].bad : row[<<u, e>>] = "queued"
      /\ slot'[s].items \cup slot'[s].bad \subseteq Events
      /\ UNCHANGED <<row, card, cadence, owed, copies, lost, moved>>
  BY <1>0, LoadShape DEF LoadBatch, slotOnly, worldVars, historyVars, Slot
<1>2. \A e \in slot'[s].items \cup slot'[s].bad : <<u, e>> \in Pair
  BY <1>1 DEF Pair
<1>3. SlotShape'
  <2>1. \A e \in slot'[s].items \cup slot'[s].bad : <<u, e>> \in owed
    BY <1>1, <1>2 DEF RowInv, RowShape
  <2> QED
    BY <1>0, <1>1, <2>1 DEF RowInv, SlotShape, Working
<1>4. Served' /\ RowShape' /\ AtMostOnce'
  BY <1>1 DEF RowInv, Served, OnCadence, RowShape, AtMostOnce
<1>5. Counted'
  <2>1. \A p : Carriers(p)' = Carriers(p)
    BY <1>1, CarriersOthers
  <2> QED
    BY <1>1, <2>1 DEF RowInv, Counted
<1>6. ASSUME u \notin moved, NEW e \in slot'[s].items
      PROVE  copies[<<u, e>>] = lost[<<u, e>>]
  <2>1. PICK p \in Pair : p = <<u, e>>
    BY <1>2
  <2>2. ASSUME NEW t \in Carriers(p) PROVE FALSE
    <3>1. t \in Slots /\ t # s
      BY <1>1 DEF Carriers
    <3>2. u \in slot[t].list
      BY <2>1, CarriedIsOwed
    <3> QED
      BY <1>0, <1>6, <3>1, <3>2, Alone
  <2>3. Carriers(p) = {} /\ row[p] = "queued"
    BY <1>1, <2>1, <2>2
  <2>4. copies[p] = lost[p] + 0
    BY <2>3, FS_EmptySet DEF RowInv, Counted
  <2> QED
    BY <2>1, <2>4, CarriersCounted DEF RowInv
<1>7. Loaded'
  <2> SUFFICES ASSUME NEW t \in Slots, slot'[t].pc = "send"
               PROVE  \/ slot'[t].user \in moved
                      \/ \A e \in slot'[t].items :
                            copies[<<slot'[t].user, e>>] = lost[<<slot'[t].user, e>>]
    BY <1>1 DEF Loaded
  <2>1. CASE t = s
    BY <1>0, <1>6, <2>1
  <2>2. CASE t # s
    BY <1>1, <2>2 DEF RowInv, Loaded
  <2> QED
    BY <2>1, <2>2
<1> QED
  BY <1>3, <1>4, <1>5, <1>7 DEF RowInv

\* A batch that ends with no mail out settles rows and sends none.
LEMMA RowQuiet ==
    ASSUME TypeOK, RowInv, NEW s \in Slots, Ended(s), slot[s].pc # "commit",
           UNCHANGED <<card, cadence, owed, copies, lost, moved>>,
           \A p \in Pair : /\ row'[p] = "none" <=> row[p] = "none"
                           /\ row'[p] \in {"queued", "sent"} => row'[p] = row[p]
    PROVE  RowInv'
<1>1. /\ \A t \in Slots \ {s} : slot'[t] = slot[t]
      /\ slot'[s].pc \in {"idle", "next"} /\ slot'[s].list \subseteq slot[s].list
  BY DEF Ended
<1>2. SlotShape' /\ Loaded' /\ AtMostOnce'
  BY <1>1 DEF RowInv, SlotShape, Working, Loaded, AtMostOnce
<1>3. Served'
  BY <1>1 DEF RowInv, Served, OnCadence
<1>4. RowShape'
  BY DEF RowInv, RowShape
<1>5. Counted'
  <2>1. \A p : Carriers(p)' = Carriers(p)
    BY <1>1, CarriersOthers
  <2> QED
    BY <2>1 DEF RowInv, Counted
<1> QED
  BY <1>2, <1>3, <1>4, <1>5 DEF RowInv

LEMMA RowEnds ==
    ASSUME TypeOK, RowInv, NEW s \in Slots, Ends(s), slot[s].pc # "commit"
    PROVE  RowInv'
<1>1. Ended(s)
  BY EndsEnd
<1>2. CASE Refuse(s) \/ SayNothing(s)
  <2>1. \A p \in Pair : /\ row'[p] = "none" <=> row[p] = "none"
                        /\ row'[p] \in {"queued", "sent"} => row'[p] = row[p]
    <3>1. CASE Refuse(s)
      BY <3>1 DEF Refuse, Mark, TypeOK
    <3>2. CASE SayNothing(s)
      BY <3>2 DEF SayNothing, Mark, TypeOK
    <3> QED
      BY <1>2, <3>1, <3>2
  <2> QED
    BY <1>1, <1>2, <2>1, RowQuiet DEF Refuse, SayNothing, worldVars, historyVars
<1>3. CASE Finish(s)
  BY <1>1, <1>3, RowQuiet DEF Finish, slotOnly, worldVars, historyVars
<1>4. CASE BatchLost(s) \/ Kill(s)
  <2>1. RolledBack(s)
    BY <1>4 DEF BatchLost, Kill
  <2>2. lost' = lost
    BY <2>1 DEF RolledBack, TypeOK
  <2> QED
    BY <1>1, <2>1, <2>2, RowQuiet DEF RolledBack, worldVars
<1> QED
  BY <1>2, <1>3, <1>4 DEF Ends, Commit

\* A mail leaves: one more copy of its cards, and one more batch that carries them.
LEMMA RowDeliver ==
    ASSUME TypeOK, RowInv, NEW s \in Slots,
           NEW reply \in {"accepted", "refused", "unanswered"}, Deliver(s, reply)
    PROVE  RowInv'
<1>0. PICK u \in Users, items \in SUBSET Events : u = slot[s].user /\ items = slot[s].items
  BY DeliverShape DEF TypeOK, Slot
<1>1. /\ \A t \in Slots \ {s} : slot'[t] = slot[t]
      /\ slot[s].pc = "send" /\ slot'[s].pc = "commit" /\ slot'[s].reply = reply
      /\ slot'[s].list = slot[s].list /\ slot'[s].bad = slot[s].bad
      /\ slot'[s].user = u /\ slot'[s].items = items
      /\ UNCHANGED <<row, card, cadence, owed, lost, moved>>
  BY <1>0, DeliverShape DEF Deliver, worldVars
<1>2. Working(s) /\ u \in slot[s].list /\ \A e \in items : <<u, e>> \in owed
  BY <1>0, <1>1 DEF Working, RowInv, SlotShape
<1>3. SlotShape'
  BY <1>0, <1>1, <1>2 DEF RowInv, SlotShape, Working
<1>4. Served'
  BY <1>1 DEF RowInv, Served, OnCadence
<1>5. CASE reply = "refused"
  <2>1. copies' = copies
    BY <1>5 DEF Deliver
  <2>2. \A p : Carriers(p)' = Carriers(p)
    BY <1>1, <1>5 DEF Carriers
  <2>3. RowShape' /\ Counted' /\ AtMostOnce'
    BY <1>1, <2>1, <2>2 DEF RowInv, RowShape, Counted, AtMostOnce
  <2>4. Loaded'
    BY <1>1, <2>1 DEF RowInv, Loaded
  <2> QED
    BY <1>3, <1>4, <2>3, <2>4 DEF RowInv
<1>6. CASE reply # "refused"
  <2>1. \A p \in Pair :
          copies'[p] = IF p[1] = u /\ p[2] \in items THEN copies[p] + 1 ELSE copies[p]
    BY <1>0, <1>6 DEF Deliver
  <2>2. ASSUME NEW p \in Pair, p[1] = u, p[2] \in items
        PROVE  /\ p \in owed
               /\ Carriers(p)' = Carriers(p) \cup {s} /\ s \notin Carriers(p)
    <3>1. p = <<u, p[2]>>
      BY <2>2 DEF Pair
    <3> QED
      BY <1>1, <1>2, <1>6, <2>2, <3>1 DEF Carriers
  <2>3. ASSUME NEW p \in Pair, ~ (p[1] = u /\ p[2] \in items)
        PROVE  Carriers(p)' = Carriers(p)
    BY <1>1, <2>3 DEF Carriers
  <2>4. RowShape'
    BY <1>1, <2>1, <2>2 DEF RowInv, RowShape
  <2>5. Counted'
    <3> SUFFICES ASSUME NEW p \in Pair
                 PROVE  /\ IsFiniteSet(Carriers(p)')
                        /\ copies'[p] >= lost[p] + Cardinality(Carriers(p)')
                        /\ row[p] = "queued" =>
                              copies'[p] = lost[p] + Cardinality(Carriers(p)')
                        /\ row[p] = "sent" =>
                              copies'[p] > lost[p] + Cardinality(Carriers(p)')
      BY <1>1 DEF Counted
    <3>1. CASE p[1] = u /\ p[2] \in items
      <4>1. /\ IsFiniteSet(Carriers(p)')
            /\ Cardinality(Carriers(p)') = Cardinality(Carriers(p)) + 1
        BY <2>2, <3>1, CarriersCounted, FS_AddElement DEF RowInv
      <4> QED
        BY <2>1, <3>1, <4>1, CarriersCounted DEF RowInv, Counted
    <3>2. CASE ~ (p[1] = u /\ p[2] \in items)
      BY <2>1, <2>3, <3>2 DEF RowInv, Counted
    <3> QED
      BY <3>1, <3>2
  <2>6. AtMostOnce'
    <3> SUFFICES ASSUME NEW p \in Pair
                 PROVE  copies'[p] <= 1 + lost[p] \/ p[1] \in moved
      BY <1>1 DEF AtMostOnce
    <3>1. CASE p[1] = u /\ p[2] \in items
      <4>1. p = <<u, p[2]>>
        BY <3>1 DEF Pair
      <4>2. u \in moved \/ copies[p] = lost[p]
        BY <1>0, <1>1, <3>1, <4>1 DEF RowInv, Loaded
      <4> QED
        BY <2>1, <3>1, <4>2, CarriersCounted DEF RowInv
    <3>2. CASE ~ (p[1] = u /\ p[2] \in items)
      BY <2>1, <3>2 DEF RowInv, AtMostOnce
    <3> QED
      BY <3>1, <3>2
  <2>7. ASSUME NEW t \in Slots, slot'[t].pc = "send", slot'[t].user \notin moved,
               NEW e \in slot'[t].items
        PROVE  copies'[<<slot'[t].user, e>>] = lost[<<slot'[t].user, e>>]
    <3>1. t # s /\ slot'[t] = slot[t] /\ Working(t)
      BY <1>1, <2>7 DEF Working
    <3>2. PICK p \in Pair : p = <<slot[t].user, e>>
      <4>1. <<slot[t].user, e>> \in owed
        BY <2>7, <3>1 DEF RowInv, SlotShape
      <4> QED
        BY <4>1 DEF TypeOK
    <3>3. copies[p] = lost[p]
      BY <2>7, <3>1, <3>2 DEF RowInv, Loaded
    <3>4. slot[t].user # u
      <4>1. slot[t].user \in slot[t].list
        BY <3>1 DEF RowInv, SlotShape
      <4> QED
        BY <1>2, <2>7, <3>1, <4>1, Alone
    <3> QED
      BY <2>1, <3>1, <3>2, <3>3, <3>4
  <2>8. Loaded'
    BY <1>1, <2>7 DEF Loaded
  <2> QED
    BY <1>3, <1>4, <2>4, <2>5, <2>6, <2>8 DEF RowInv
<1> QED
  BY <1>5, <1>6

\* A batch that commits is out of the count: on record if its mail was accepted.
LEMMA RowCommit ==
    ASSUME TypeOK, RowInv, TokenInv, NEW s \in Slots, Commit(s)
    PROVE  RowInv'
<1>0. PICK u, items, bad, reply :
        /\ u \in Users /\ items \in SUBSET Events
        /\ u = slot[s].user /\ items = slot[s].items /\ bad = slot[s].bad /\ reply = slot[s].reply
  <2>1. Working(s)
    BY DEF Commit, Working
  <2>2. slot[s] \in Slot /\ slot[s].user \in slot[s].list
    BY <2>1 DEF RowInv, SlotShape, TypeOK
  <2> QED
    BY <2>2 DEF Slot
<1>1. /\ \A t \in Slots \ {s} : slot'[t] = slot[t]
      /\ slot[s].pc = "commit" /\ slot'[s].pc \in {"idle", "next"}
      /\ slot'[s].list \subseteq slot[s].list
      /\ UNCHANGED <<card, owed, copies, lost, moved>>
  BY EndsEnd DEF Ends, Ended, Commit, worldVars, historyVars
<1>2. \A p \in Pair :
        row'[p] = IF p[1] # u \/ row[p] = "none" THEN row[p]
                  ELSE IF p[2] \in items THEN Outcome(reply)
                  ELSE IF p[2] \in bad THEN "failed"
                  ELSE row[p]
  BY <1>0 DEF Commit, Mark
<1>3. SlotShape' /\ Loaded' /\ AtMostOnce'
  BY <1>1 DEF RowInv, SlotShape, Working, Loaded, AtMostOnce
<1>4. Served'
  <2>1. \A v : OnCadence(v)' = OnCadence(v)
    <3> SUFFICES ASSUME NEW v PROVE OnCadence(v)' = OnCadence(v)
      OBVIOUS
    <3>1. cadence' = [cadence EXCEPT ![u] = IF slot[s].mint THEN "weekly" ELSE cadence[u]]
      BY <1>0 DEF Commit
    <3>2. slot[s].mint => cadence[u] = "unset"
      BY <1>0, <1>1 DEF TokenInv, LinkShape, TokenShape
    <3> QED
      BY <3>1, <3>2 DEF OnCadence, TypeOK
  <2> QED
    BY <1>1, <2>1 DEF RowInv, Served
<1>5. RowShape'
  BY <1>1, <1>2 DEF RowInv, RowShape, Outcome
<1>6. ASSUME NEW p \in Pair, p[1] = u, p[2] \in items, reply # "refused"
      PROVE  s \in Carriers(p) /\ Carriers(p)' = Carriers(p) \ {s}
  BY <1>0, <1>1, <1>6 DEF Carriers
<1>7. ASSUME NEW p \in Pair, ~ (p[1] = u /\ p[2] \in items) \/ reply = "refused"
      PROVE  Carriers(p)' = Carriers(p)
  BY <1>0, <1>1, <1>7 DEF Carriers
<1>8. Counted'
  <2> SUFFICES ASSUME NEW p \in Pair
               PROVE  /\ IsFiniteSet(Carriers(p)')
                      /\ copies[p] >= lost[p] + Cardinality(Carriers(p)')
                      /\ row'[p] = "queued" =>
                            copies[p] = lost[p] + Cardinality(Carriers(p)')
                      /\ row'[p] = "sent" =>
                            copies[p] > lost[p] + Cardinality(Carriers(p)')
    BY <1>1 DEF Counted
  <2>1. CASE p[1] = u /\ p[2] \in items /\ reply # "refused"
    <3>1. /\ IsFiniteSet(Carriers(p)')
          /\ Cardinality(Carriers(p)') = Cardinality(Carriers(p)) - 1
      BY <1>6, <2>1, CarriersCounted, FS_RemoveElement DEF RowInv
    <3>2. row'[p] # "queued"
      BY <1>2, <2>1 DEF Outcome
    <3> QED
      BY <3>1, <3>2, CarriersCounted DEF RowInv, Counted
  <2>2. CASE ~ (p[1] = u /\ p[2] \in items) \/ reply = "refused"
    <3>1. row'[p] \in {"queued", "sent"} => row'[p] = row[p]
      BY <1>2, <2>2 DEF Outcome
    <3> QED
      BY <1>7, <2>2, <3>1 DEF RowInv, Counted
  <2> QED
    BY <2>1, <2>2
<1> QED
  BY <1>3, <1>4, <1>5, <1>8 DEF RowInv

\* A batch that is lost after its mail left is out of the count too: its copies are lost.
LEMMA RowRolledBack ==
    ASSUME TypeOK, RowInv, NEW s \in Slots, BatchLost(s) \/ Kill(s), slot[s].pc = "commit"
    PROVE  RowInv'
<1>0. PICK u, items, reply :
        /\ u \in Users /\ items \in SUBSET Events
        /\ u = slot[s].user /\ items = slot[s].items /\ reply = slot[s].reply
  <2>1. Working(s)
    BY DEF Working
  <2>2. slot[s] \in Slot /\ slot[s].user \in slot[s].list
    BY <2>1 DEF RowInv, SlotShape, TypeOK
  <2> QED
    BY <2>2 DEF Slot
<1>1. /\ \A t \in Slots \ {s} : slot'[t] = slot[t]
      /\ slot'[s].pc \in {"idle", "next"} /\ slot'[s].list \subseteq slot[s].list
  BY EndsEnd DEF Ends, Ended
<1>2. /\ UNCHANGED <<row, card, cadence, owed, copies, moved>>
      /\ \A p \in Pair : lost'[p] = IF p[1] = u /\ p[2] \in items /\ reply # "refused"
                                    THEN lost[p] + 1 ELSE lost[p]
  BY <1>0 DEF BatchLost, Kill, RolledBack, worldVars
<1>3. SlotShape'
  BY <1>1, <1>2 DEF RowInv, SlotShape, Working
<1>4. Served'
  BY <1>1, <1>2 DEF RowInv, Served, OnCadence
<1>5. ASSUME NEW p \in Pair, p[1] = u, p[2] \in items, reply # "refused"
      PROVE  s \in Carriers(p) /\ Carriers(p)' = Carriers(p) \ {s}
  BY <1>0, <1>1, <1>5 DEF Carriers
<1>6. ASSUME NEW p \in Pair, ~ (p[1] = u /\ p[2] \in items /\ reply # "refused")
      PROVE  Carriers(p)' = Carriers(p)
  BY <1>0, <1>1, <1>6 DEF Carriers
<1>7. RowShape'
  <2>1. \A p \in Pair : p \notin owed => lost'[p] = lost[p]
    BY <1>2, <1>5, CarriedIsOwed
  <2> QED
    BY <1>2, <2>1 DEF RowInv, RowShape
<1>8. Counted'
  <2> SUFFICES ASSUME NEW p \in Pair
               PROVE  /\ IsFiniteSet(Carriers(p)')
                      /\ lost'[p] + Cardinality(Carriers(p)') = lost[p] + Cardinality(Carriers(p))
    BY <1>2 DEF RowInv, Counted
  <2>1. CASE p[1] = u /\ p[2] \in items /\ reply # "refused"
    <3>1. /\ IsFiniteSet(Carriers(p)')
          /\ Cardinality(Carriers(p)') = Cardinality(Carriers(p)) - 1
      BY <1>5, <2>1, CarriersCounted, FS_RemoveElement DEF RowInv
    <3> QED
      BY <1>2, <2>1, <3>1, CarriersCounted DEF RowInv
  <2>2. CASE ~ (p[1] = u /\ p[2] \in items /\ reply # "refused")
    BY <1>2, <1>6, <2>2, CarriersCounted DEF RowInv
  <2> QED
    BY <2>1, <2>2
<1>9. AtMostOnce'
  <2>1. \A p \in Pair : lost'[p] >= lost[p] /\ lost'[p] \in Nat
    BY <1>2 DEF TypeOK
  <2> QED
    BY <1>2, <2>1 DEF RowInv, AtMostOnce, TypeOK
<1>10. Loaded'
  <2> SUFFICES ASSUME NEW t \in Slots, slot'[t].pc = "send", slot'[t].user \notin moved,
                      NEW e \in slot'[t].items
               PROVE  copies[<<slot'[t].user, e>>] = lost'[<<slot'[t].user, e>>]
    BY <1>2 DEF Loaded
  <2>1. t # s /\ slot'[t] = slot[t] /\ Working(t)
    BY <1>1 DEF Working
  <2>2. PICK p \in Pair : p = <<slot[t].user, e>>
    <3>1. <<slot[t].user, e>> \in owed
      BY <2>1 DEF RowInv, SlotShape
    <3> QED
      BY <3>1 DEF TypeOK
  <2>3. copies[p] = lost[p]
    BY <2>1, <2>2 DEF RowInv, Loaded
  <2>4. slot[t].user # u
    <3>1. slot[t].user \in slot[t].list /\ u \in slot[s].list
      BY <1>0, <2>1 DEF RowInv, SlotShape, Working
    <3> QED
      BY <2>1, <3>1, Alone
  <2> QED
    BY <1>2, <2>1, <2>2, <2>3, <2>4
<1> QED
  BY <1>3, <1>4, <1>7, <1>8, <1>9, <1>10 DEF RowInv

LEMMA RowStep == ASSUME IInv, [Next]_vars PROVE RowInv'
<1>0. TypeOK /\ RowInv /\ TokenInv
  BY DEF IInv
<1>1. CASE UNCHANGED vars
  <2>1. RowInv /\ UNCHANGED <<row, card, cadence, owed, copies, lost, slot, moved>>
    BY <1>1, <1>0 DEF vars, worldVars, historyVars
  <2> QED
    BY <2>1, RowFrame DEF OnCadence
<1>2. CASE World
  BY <1>0, <1>2, RowWorld
<1>3. ASSUME NEW s \in Slots, SlotStep(s) PROVE RowInv'
  <2>1. CASE Refuse(s) \/ SayNothing(s) \/ Finish(s)
    <3>1. slot[s].pc # "commit"
      BY <2>1 DEF Refuse, SayNothing, Finish
    <3> QED
      BY <1>0, <2>1, <3>1, RowEnds DEF Ends
  <2> QED
    BY <1>0, <1>3, <2>1, RowStart, RowLoad, RowDeliver, RowCommit DEF SlotStep
<1>4. ASSUME NEW s \in Slots, BatchLost(s) \/ Kill(s) PROVE RowInv'
  BY <1>0, <1>4, RowEnds, RowRolledBack DEF Ends
<1> QED
  BY <1>1, <1>2, <1>3, <1>4 DEF Next

LEMMA Inductive == IInv /\ [Next]_vars => IInv'
<1> SUFFICES ASSUME IInv, [Next]_vars PROVE IInv'
  OBVIOUS
<1>1. TypeOK'
  BY TypeStep DEF IInv, TokenInv
<1>2. TokenInv'
  BY TokenStep DEF IInv
<1> QED
  BY <1>1, <1>2, RowStep DEF IInv

LEMMA Invariant == Spec => []IInv
<1>1. Init => IInv
  BY TypeInit, RowInit, TokenInit DEF IInv
<1> QED
  BY <1>1, Inductive, PTL DEF Spec
-----------------------------------------------------------------------------
(***************************************************************************)
(* Theorems.                                                               *)
(***************************************************************************)

\* The sender's state stays well-typed: in particular the streak of failed mails that a
\* slot counts stays below the threshold at which the pass gives up (digest_sender,
\* ConsecutiveFailureGuard).
THEOREM TypeCorrect == Spec => []TypeOK
BY Invariant, PTL DEF IInv

\* The rows and the mails agree, whatever is lost and whoever dies: a sent row has a
\* mail that was not lost; a card whose mail is on record is never queued again; and a
\* reader gets it twice only if a batch was lost after its mail had left, or they
\* changed cadence while a slot had them listed (send_digests).
THEOREM MailsAlwaysAccounted == Spec => []MailsAreAccounted
<1>1. IInv => MailsAreAccounted
  <2> SUFFICES ASSUME IInv, NEW p \in Pair
               PROVE  /\ row[p] = "sent" => copies[p] > lost[p]
                      /\ copies[p] > lost[p] /\ ~ InFlight(p) => row[p] # "queued"
                      /\ copies[p] <= 1 + lost[p] \/ p[1] \in moved
    BY DEF MailsAreAccounted, IInv
  <2>1. /\ Cardinality(Carriers(p)) \in Nat
        /\ copies[p] \in Nat /\ lost[p] \in Nat
    BY CarriersCounted DEF IInv, RowInv
  <2>2. ~ InFlight(p) => Carriers(p) = {}
    BY DEF InFlight, Carriers
  <2>3. row[p] = "sent" => copies[p] > lost[p]
    BY <2>1 DEF IInv, RowInv, Counted
  <2>4. ~ InFlight(p) => Cardinality(Carriers(p)) = 0
    BY <2>2, FS_EmptySet
  <2>5. copies[p] > lost[p] /\ ~ InFlight(p) => row[p] # "queued"
    BY <2>1, <2>4 DEF IInv, RowInv, Counted
  <2> QED
    BY <2>3, <2>5 DEF IInv, RowInv, AtMostOnce
<1> QED
  BY <1>1, Invariant, PTL

\* A link that has left a mail is good: it names the settings row its reader has, or the
\* one the batch at hand is about to commit, unless that batch was lost
\* (ensure_unsubscribe_token, settings_service.create_if_absent).
THEOREM LinksAlwaysResolve == Spec => []LinksResolve
BY Invariant, PTL DEF IInv, TokenInv
-----------------------------------------------------------------------------
(***************************************************************************)
(* The sender implements the contract of the notification rows.            *)
(***************************************************************************)

Mailed == {p \in Pair : copies[p] > 0}

LEMMA ContractSets == Contract!Pair = Pair /\ Contract!Settled = Settled
BY DEF Contract!Pair, Pair, Contract!Settled, Settled

LEMMA Stutters ==
    UNCHANGED <<row, owed, copies>> => UNCHANGED Contract!vars
BY DEF Contract!vars

LEMMA QueueRefines ==
    ASSUME TypeOK, NEW u \in Users, NEW e \in Events, Queue(u, e)
    PROVE  Contract!Next
<1>1. PICK q \in Pair : q = <<u, e>>
  BY DEF Pair
<1>2. row' = [p \in Pair |-> IF p \in {q} THEN "queued" ELSE row[p]]
  BY <1>1 DEF Queue, TypeOK
<1>3. Contract!Decide({q}, "queued")
  BY <1>1, <1>2, ContractSets DEF Queue, Contract!Decide
<1> QED
  BY <1>3, ContractSets DEF Contract!Next

LEMMA DeleteRefines ==
    ASSUME TypeOK, NEW e \in Events, Delete(e)
    PROVE  Contract!Next
<1>1. Contract!Forget(e)
  BY ContractSets DEF Delete, historyVars, Contract!Forget
<1> QED
  BY <1>1 DEF Contract!Next

LEMMA DeliverRefines ==
    ASSUME TypeOK, RowInv, NEW s \in Slots,
           NEW reply \in {"accepted", "refused", "unanswered"}, Deliver(s, reply)
    PROVE  Contract!Next \/ UNCHANGED Contract!vars
<1>1. UNCHANGED <<row, owed>>
  BY DEF Deliver
<1>2. CASE reply = "refused"
  BY <1>1, <1>2, Stutters DEF Deliver
<1>3. CASE reply # "refused"
  <2>1. PICK S \in SUBSET Pair :
          S = {p \in Pair : p[1] = slot[s].user /\ p[2] \in slot[s].items}
    OBVIOUS
  <2>2. S \subseteq owed
    <3>1. \A e \in slot[s].items : <<slot[s].user, e>> \in owed
      BY DEF Deliver, RowInv, SlotShape, Working
    <3>2. \A p \in S : p = <<slot[s].user, p[2]>> /\ p[2] \in slot[s].items
      BY <2>1 DEF Pair
    <3> QED
      BY <3>1, <3>2
  <2>3. \A p \in Pair : copies'[p] = IF p \in S THEN copies[p] + 1 ELSE copies[p]
    BY <1>3, <2>1 DEF Deliver
  <2>4. Mailed' = Mailed \cup S
    BY <2>3 DEF Mailed, TypeOK
  <2>5. Contract!Carry(S)
    BY <1>1, <2>2, <2>4 DEF Contract!Carry, Mailed
  <2> QED
    BY <2>5, ContractSets DEF Contract!Next
<1> QED
  BY <1>2, <1>3

\* The rows a batch marks are settled, and sent only where a mail carried them.
LEMMA SettleRefines ==
    ASSUME TypeOK, row' = [p \in Pair |-> row'[p]],
           \A p \in Pair : row'[p] # row[p] =>
              /\ p \in owed /\ row[p] # "none" /\ row'[p] \in Settled
              /\ row'[p] = "sent" => copies[p] > 0,
           UNCHANGED <<owed, copies>>
    PROVE  Contract!Next
<1>1. PICK S \in SUBSET Pair : S = {p \in Pair : row'[p] # row[p]}
  OBVIOUS
<1>2. PICK outcome \in [Pair -> Settled] :
        outcome = [p \in Pair |-> IF p \in S THEN row'[p] ELSE "failed"]
  BY <1>1 DEF Settled
<1>3. row' = [p \in Pair |-> IF p \in S THEN outcome[p] ELSE row[p]]
  BY <1>1, <1>2
<1>4. Mailed' = Mailed
  BY DEF Mailed
<1>5. \A p \in S : /\ p \in owed /\ row[p] # "none" /\ outcome[p] \in Settled
                   /\ outcome[p] = "sent" => p \in Mailed
  BY <1>1, <1>2 DEF Mailed
<1>6. Contract!Settle(S, outcome)
  BY <1>3, <1>4, <1>5, ContractSets DEF Contract!Settle, Mailed
<1> QED
  BY <1>6, ContractSets DEF Contract!Next

\* A row that is there was queued, so whatever a batch does to it settles what was owed.
LEMMA MarksRefine ==
    ASSUME TypeOK, RowInv, NEW s \in Slots, Refuse(s) \/ SayNothing(s) \/ Commit(s)
    PROVE  Contract!Next
<1>1. UNCHANGED <<owed, copies>>
  BY DEF Refuse, SayNothing, Commit, historyVars
<1>2. row' = [p \in Pair |-> row'[p]]
  BY DEF Refuse, SayNothing, Commit, Mark
<1>3. \A p \in Pair : row'[p] # row[p] =>
        /\ row[p] # "none" /\ row'[p] \in Settled
        /\ row'[p] = "sent" => s \in Carriers(p)
  <2>1. CASE Refuse(s)
    BY <2>1 DEF Refuse, Mark, Settled
  <2>2. CASE SayNothing(s)
    BY <2>2 DEF SayNothing, Mark, Settled
  <2>3. CASE Commit(s)
    BY <2>3 DEF Commit, Mark, Outcome, Carriers, Settled
  <2> QED
    BY <2>1, <2>2, <2>3
<1>4. ASSUME NEW p \in Pair, s \in Carriers(p) PROVE copies[p] > 0
  <2>1. Cardinality(Carriers(p)) # 0
    BY <1>4, CarriersCounted, FS_EmptySet DEF RowInv
  <2> QED
    BY <2>1, CarriersCounted DEF RowInv, Counted
<1> QED
  BY <1>1, <1>2, <1>3, <1>4, SettleRefines DEF RowInv, RowShape

\* The digest sender, the ledger and the readers do to the notification rows only what
\* the contract allows: a mail shows only what was queued, a row is settled only after
\* it was, and is sent only if a mail carried it (send_batch, mark).
THEOREM DigestImplementsOutbox == Spec => ImplementsOutbox
<1>1. Init => Contract!Init
  BY ContractSets DEF Init, Contract!Init
<1>2. IInv /\ [Next]_vars => [Contract!Next]_(Contract!vars)
  <2> SUFFICES ASSUME IInv, [Next]_vars
               PROVE  Contract!Next \/ UNCHANGED Contract!vars
    OBVIOUS
  <2>0. TypeOK /\ RowInv
    BY DEF IInv
  <2>1. CASE UNCHANGED vars
    BY <2>1, Stutters DEF vars, historyVars
  <2>2. CASE World
    <3>1. ASSUME NEW u \in Users, NEW c,
                 \/ ToggleGate(u) \/ ToggleFollow(u) \/ OpenSettings(u)
                 \/ SetCadence(u, c) \/ Unsubscribe(u, c)
          PROVE  UNCHANGED Contract!vars
      BY <3>1, Stutters
      DEF ToggleGate, ToggleFollow, OpenSettings, SetCadence, Unsubscribe, historyVars
    <3>2. ASSUME NEW e, Withdraw(e) PROVE UNCHANGED Contract!vars
      BY <3>2, Stutters DEF Withdraw, historyVars
    <3> QED
      BY <2>0, <2>2, <3>1, <3>2, QueueRefines, DeleteRefines DEF World
  <2>3. ASSUME NEW s \in Slots, SlotStep(s)
        PROVE  Contract!Next \/ UNCHANGED Contract!vars
    <3>1. CASE StartSlot(s) \/ LoadBatch(s) \/ Finish(s)
      BY <3>1, Stutters DEF StartSlot, LoadBatch, Finish, slotOnly, historyVars
    <3> QED
      BY <2>0, <2>3, <3>1, DeliverRefines, MarksRefine DEF SlotStep
  <2>4. ASSUME NEW s \in Slots, BatchLost(s) \/ Kill(s)
        PROVE  UNCHANGED Contract!vars
    BY <2>4, Stutters DEF BatchLost, Kill, RolledBack
  <2> QED
    BY <2>1, <2>2, <2>3, <2>4 DEF Next
<1> QED
  BY <1>1, <1>2, Invariant, PTL DEF Spec, ImplementsOutbox, Contract!Spec
=============================================================================
