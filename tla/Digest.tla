------------------------------- MODULE Digest -------------------------------
(***************************************************************************)
(* The digest sender (app/services/digest_sender.py): the slots, one per   *)
(* cadence, that mail every reader their queued rows, and what the readers,*)
(* the ledger and the settings page do meanwhile.                          *)
(*                                                                         *)
(* A slot reads its recipients once (gate, cadence and unsubscribe token   *)
(* with them), then takes one transaction per reader: load the batch, hand *)
(* the mail to the provider, mark the rows, commit.  The provider has the  *)
(* mail before the commit, so everything can happen in between.  What a    *)
(* transaction writes is applied at its commit.                            *)
(***************************************************************************)
EXTENDS Naturals, FiniteSets

CONSTANTS
    Users,       \* accounts, numbered by age: the oldest first
    Events,      \* cards of the ledger
    Slots,       \* the scheduled tasks that send digests
    CadenceOf,   \* the cadence each slot serves
    Threshold,   \* ingest_consecutive_failure_threshold
    MaxFaults,   \* bound: refused, unanswered and lost mails, and deaths of a slot
    MaxChanges   \* bound: what readers do to their account, follow and settings

ASSUME DigestAssumption ==
    /\ Users \subseteq Nat \ {0}
    /\ CadenceOf \in [Slots -> {"daily", "weekly"}]
    /\ \A s, t \in Slots : CadenceOf[s] = CadenceOf[t] => s = t     \* a task to a cadence
    /\ Threshold \in Nat \ {0}
    /\ MaxFaults \in Nat
    /\ MaxChanges \in Nat

VARIABLES
    row,        \* app.notification.status, "none" while there is no row
    card,       \* the event row of each card
    admitted,   \* users the access gate admits: entitled and verified
    following,  \* users whose follow reaches the cards (and may put dates on a slate)
    cadence,    \* user_settings.digest_cadence, "unset" while there is no settings row
    token,      \* user_settings.unsubscribe_token, 0 while there is no settings row
    minted,     \* unsubscribe tokens ever generated for a user, used or not
    slot,       \* each slot's process: its program counter and locals
    faults, changes,
    \* What has happened, for the properties to speak of:
    owed,       \* pairs that were ever queued
    copies,     \* mails that left with the card in them
    lost,       \* those of them whose batch was then lost before its commit
    links,      \* <<user, token>> of every unsubscribe link that left in a mail
    orphans,    \* those of them whose settings row was lost with the batch
    moved       \* users who changed cadence while a slot had them on its list

worldVars   == <<card, admitted, following>>
historyVars == <<owed, copies, lost, links, orphans, moved>>
vars == <<row, worldVars, cadence, token, minted, slot, faults, changes, historyVars>>

Pair    == Users \X Events
Settled == {"sent", "failed", "suppressed"}
\* A user with no settings row is on the default cadence.
OnCadence(u) == IF cadence[u] = "unset" THEN "weekly" ELSE cadence[u]

\* Locals of send_digests: the recipients still to do and what was read of them with
\* the list, then the batch at hand.  `dates` says the slate is not empty, `link` is
\* the token the mail names, `mint` that the batch's own insert created it.
Idle == [pc |-> "idle", list |-> {}, ok |-> {}, known |-> {}, slate |-> FALSE, streak |-> 0,
         user |-> 0, items |-> {}, bad |-> {}, dates |-> FALSE,
         link |-> 0, mint |-> FALSE, reply |-> "none"]

Slot == [pc : {"idle", "next", "send", "commit"},
         list : SUBSET Users, ok : SUBSET Users, known : SUBSET Users, slate : BOOLEAN,
         streak : 0..Threshold - 1,
         user : Users \cup {0}, items : SUBSET Events, bad : SUBSET Events, dates : BOOLEAN,
         link : Nat, mint : BOOLEAN, reply : {"none", "accepted", "refused", "unanswered"}]

TypeOK ==
    /\ row \in [Pair -> {"none", "queued"} \cup Settled]
    /\ card \in [Events -> {"published", "withdrawn", "deleted"}]
    /\ admitted \subseteq Users /\ following \subseteq Users
    /\ cadence \in [Users -> {"unset", "daily", "weekly", "off"}]
    /\ token \in [Users -> Nat] /\ minted \in [Users -> Nat]
    /\ slot \in [Slots -> Slot]
    /\ faults \in 0..MaxFaults /\ changes \in 0..MaxChanges
    /\ owed \subseteq Pair
    /\ copies \in [Pair -> Nat] /\ lost \in [Pair -> Nat]
    /\ orphans \subseteq links /\ links \subseteq Users \X Nat
    /\ moved \subseteq Users

Init ==
    /\ row = [p \in Pair |-> "none"]
    /\ card = [e \in Events |-> "published"]
    /\ admitted = Users /\ following = Users
    /\ cadence = [u \in Users |-> "unset"]
    /\ token = [u \in Users |-> 0] /\ minted = [u \in Users |-> 0]
    /\ slot = [s \in Slots |-> Idle]
    /\ faults = 0 /\ changes = 0
    /\ owed = {}
    /\ copies = [p \in Pair |-> 0] /\ lost = [p \in Pair |-> 0]
    /\ links = {} /\ orphans = {} /\ moved = {}
-----------------------------------------------------------------------------
(***************************************************************************)
(* What goes on around the slots.                                          *)
(***************************************************************************)

\* The decision pass queues a row (Notify; a row it suppresses concerns no slot).
Queue(u, e) ==
    /\ row[<<u, e>>] = "none" /\ card[e] = "published" /\ u \in following
    /\ row' = [row EXCEPT ![<<u, e>>] = "queued"]
    /\ owed' = owed \cup {<<u, e>>}
    /\ UNCHANGED <<worldVars, cadence, token, minted, slot, faults, changes,
                   copies, lost, links, orphans, moved>>

\* The card is superseded, or loses its summary: its rows can no longer be sent.
Withdraw(e) ==
    /\ card[e] = "published"
    /\ card' = [card EXCEPT ![e] = "withdrawn"]
    /\ UNCHANGED <<row, admitted, following, cadence, token, minted, slot, faults,
                   changes, historyVars>>

\* The card is deleted, and its rows cascade.
Delete(e) ==
    /\ card[e] # "deleted"
    /\ card' = [card EXCEPT ![e] = "deleted"]
    /\ row' = [p \in Pair |-> IF p[2] = e THEN "none" ELSE row[p]]
    /\ UNCHANGED <<admitted, following, cadence, token, minted, slot, faults, changes,
                   historyVars>>

Change == changes < MaxChanges /\ changes' = changes + 1

\* Another transaction has inserted u's settings row and not committed yet: whoever
\* inserts it too waits for that commit (ON CONFLICT DO NOTHING).
InsertOpen(u) == \E s \in Slots : slot[s].pc = "commit" /\ slot[s].user = u /\ slot[s].mint

\* A grant lapses or is restored, an address is verified.
ToggleGate(u) ==
    /\ Change
    /\ admitted' = IF u \in admitted THEN admitted \ {u} ELSE admitted \cup {u}
    /\ UNCHANGED <<row, card, following, cadence, token, minted, slot, faults, historyVars>>

ToggleFollow(u) ==
    /\ Change
    /\ following' = IF u \in following THEN following \ {u} ELSE following \cup {u}
    /\ UNCHANGED <<row, card, admitted, cadence, token, minted, slot, faults, historyVars>>

\* Users some slot has read as recipients and not finished with.
Listed == UNION {slot[s].list : s \in Slots}

\* The settings page, first GET: get_or_create.
OpenSettings(u) ==
    /\ Change
    /\ token[u] = 0 /\ ~ InsertOpen(u)
    /\ minted' = [minted EXCEPT ![u] = @ + 1]
    /\ token' = [token EXCEPT ![u] = minted'[u]]
    /\ cadence' = [cadence EXCEPT ![u] = "weekly"]
    /\ UNCHANGED <<row, worldVars, slot, faults, historyVars>>

\* settings_service.update on a row that exists (update opens it first when it does not).
SetCadence(u, c) ==
    /\ Change
    /\ token[u] # 0 /\ cadence[u] # c
    /\ cadence' = [cadence EXCEPT ![u] = c]
    /\ moved' = IF u \in Listed THEN moved \cup {u} ELSE moved
    /\ UNCHANGED <<row, worldVars, token, minted, slot, faults, owed, copies, lost,
                   links, orphans>>

\* A link is followed, by the reader or by their mailbox: it acts if it still names
\* the reader's row.
Unsubscribe(u, t) ==
    /\ Change
    /\ <<u, t>> \in links /\ token[u] = t /\ cadence[u] # "off"
    /\ cadence' = [cadence EXCEPT ![u] = "off"]
    /\ moved' = IF u \in Listed THEN moved \cup {u} ELSE moved
    /\ UNCHANGED <<row, worldVars, token, minted, slot, faults, owed, copies, lost,
                   links, orphans>>
-----------------------------------------------------------------------------
(***************************************************************************)
(* A slot.                                                                 *)
(***************************************************************************)

slotOnly == <<row, worldVars, cadence, token, minted, faults, changes, historyVars>>

HasQueued(u) == \E e \in Events : row[<<u, e>>] = "queued"

\* load_recipients, and the run's slate day: the weekly always carries the slate, the
\* daily on one weekday.
StartSlot(s) ==
    /\ slot[s].pc = "idle"
    /\ \E slate \in BOOLEAN :
        /\ CadenceOf[s] = "weekly" => slate
        /\ LET list == {u \in Users : /\ OnCadence(u) = CadenceOf[s]
                                      /\ HasQueued(u) \/ (slate /\ u \in following)}
           IN  slot' = [slot EXCEPT ![s] =
                         [Idle EXCEPT !.pc = "next", !.list = list, !.slate = slate,
                                      !.ok = list \cap admitted,
                                      !.known = {u \in list : token[u] # 0}]]
    /\ UNCHANGED slotOnly

Oldest(S) == CHOOSE u \in S : \A v \in S : u <= v

QueuedOf(u) == {e \in Events : row[<<u, e>>] = "queued"}

\* load_batch: the queued rows, split by what the ledger and the follows say now; the
\* slate only for a reader the list's gate admits, and it may hold no date.
LoadBatch(s) ==
    /\ slot[s].pc = "next" /\ slot[s].list # {}
    /\ LET u   == Oldest(slot[s].list)
           bad == {e \in QueuedOf(u) : card[e] # "published" \/ u \notin following}
       IN  \E dates \in BOOLEAN :
            /\ dates => slot[s].slate /\ u \in slot[s].ok /\ u \in following
            /\ slot' = [slot EXCEPT ![s].pc = "send", ![s].user = u,
                          ![s].items = QueuedOf(u) \ bad, ![s].bad = bad,
                          ![s].dates = dates]
    /\ UNCHANGED slotOnly

HasContent(s) == slot[s].items # {} \/ slot[s].dates

GivesUp(streak) == streak >= Threshold

\* The batch is done with: the reader leaves the list, and the guard counts.  Once it
\* gives up, so does the pass on everybody still on the list.
After(s, failed) ==
    LET streak == IF failed THEN slot[s].streak + 1 ELSE 0
    IN  IF GivesUp(streak) THEN Idle
        ELSE [Idle EXCEPT !.pc = "next", !.list = slot[s].list \ {slot[s].user},
                          !.ok = slot[s].ok, !.known = slot[s].known,
                          !.slate = slot[s].slate, !.streak = streak]

\* Mutation: a mark writes the row it does not find.
MarkUpserts(u, items, itemStatus, bad, badStatus) ==
    [p \in Pair |->
        IF p[1] # u THEN row[p]
        ELSE IF p[2] \in items THEN itemStatus
        ELSE IF p[2] \in bad THEN badStatus
        ELSE row[p]]

\* Marks land on rows by id, whatever their status has become; a row that is gone is
\* not brought back.
Mark(u, items, itemStatus, bad, badStatus) ==
    [p \in Pair |->
        IF p[1] # u \/ row[p] = "none" THEN row[p]
        ELSE IF p[2] \in items THEN itemStatus
        ELSE IF p[2] \in bad THEN badStatus
        ELSE row[p]]

\* send_batch, a reader the gate refused: every row suppressed, and no mail.
Refuse(s) ==
    /\ slot[s].pc = "send" /\ slot[s].user \notin slot[s].ok
    /\ row' = Mark(slot[s].user, slot[s].items, "suppressed", slot[s].bad, "suppressed")
    /\ slot' = [slot EXCEPT ![s] = After(s, FALSE)]
    /\ UNCHANGED <<worldVars, cadence, token, minted, faults, changes, historyVars>>

\* Mutation: with no mail to send the batch returns before it marks anything.
SayNothingMarkNothing(s) ==
    /\ slot[s].pc = "send" /\ slot[s].user \in slot[s].ok /\ ~ HasContent(s)
    /\ slot' = [slot EXCEPT ![s] = After(s, FALSE)]
    /\ UNCHANGED slotOnly

\* send_batch, nothing to say: the rows that can never be sent are failed, and no mail.
SayNothing(s) ==
    /\ slot[s].pc = "send" /\ slot[s].user \in slot[s].ok /\ ~ HasContent(s)
    /\ row' = Mark(slot[s].user, {}, "sent", slot[s].bad, "failed")
    /\ slot' = [slot EXCEPT ![s] = After(s, FALSE)]
    /\ UNCHANGED <<worldVars, cadence, token, minted, faults, changes, historyVars>>

\* create_if_absent, for a reader who had no settings row when the list was read.
MustMint(s) == slot[s].user \notin slot[s].known /\ token[slot[s].user] = 0

\* Mutation: the mail names the token generated for it, used or not.
OwnToken(s) ==
    IF slot[s].user \notin slot[s].known THEN minted[slot[s].user] + 1
    ELSE token[slot[s].user]

\* The token the mail names is that of whichever row exists now.
LinkToken(s) == IF MustMint(s) THEN minted[slot[s].user] + 1 ELSE token[slot[s].user]

\* send_batch up to the provider's answer.  The settings row a reader may need is
\* inserted in this transaction, before the mail leaves.  The mail may have left although
\* the call raised (the answer was lost on the way).
Deliver(s, reply) ==
    LET u == slot[s].user
    IN  /\ slot[s].pc = "send" /\ u \in slot[s].ok /\ HasContent(s)
        /\ u \notin slot[s].known => ~ InsertOpen(u)
        /\ reply # "accepted" => faults < MaxFaults
        /\ faults' = IF reply = "accepted" THEN faults ELSE faults + 1
        /\ slot' = [slot EXCEPT ![s].pc = "commit", ![s].link = LinkToken(s),
                                ![s].mint = MustMint(s), ![s].reply = reply]
        /\ minted' = [minted EXCEPT ![u] = IF MustMint(s) THEN @ + 1 ELSE @]
        /\ IF reply = "refused" THEN UNCHANGED <<copies, links>>
           ELSE /\ copies' = [p \in Pair |-> IF p[1] = u /\ p[2] \in slot[s].items
                                             THEN copies[p] + 1 ELSE copies[p]]
                /\ links' = links \cup {<<u, LinkToken(s)>>}
        /\ UNCHANGED <<row, worldVars, cadence, token, changes, owed, lost, orphans, moved>>

\* Mutation: a mail the provider did not answer for is tried again next time.
OutcomeRetries(reply) ==
    IF reply = "accepted" THEN "sent" ELSE IF reply = "refused" THEN "failed" ELSE "queued"

Outcome(reply) == IF reply = "accepted" THEN "sent" ELSE "failed"

\* The rows are marked by the provider's answer, and the transaction commits.
Commit(s) ==
    LET u == slot[s].user
    IN  /\ slot[s].pc = "commit"
        /\ row' = Mark(u, slot[s].items, Outcome(slot[s].reply), slot[s].bad, "failed")
        /\ token' = [token EXCEPT ![u] = IF slot[s].mint THEN slot[s].link ELSE @]
        /\ cadence' = [cadence EXCEPT ![u] = IF slot[s].mint THEN "weekly" ELSE @]
        /\ slot' = [slot EXCEPT ![s] = After(s, slot[s].reply # "accepted")]
        /\ UNCHANGED <<worldVars, minted, faults, changes, historyVars>>

\* The transaction of the batch at hand is rolled back.  Nothing it wrote stays; a mail
\* that has left stays where it is.
RolledBack(s) ==
    LET u    == slot[s].user
        left == slot[s].pc = "commit" /\ slot[s].reply # "refused"
    IN  /\ lost' = [p \in Pair |-> IF left /\ p[1] = u /\ p[2] \in slot[s].items
                                   THEN lost[p] + 1 ELSE lost[p]]
        /\ orphans' = IF left /\ slot[s].mint
                      THEN orphans \cup {<<u, slot[s].link>>} ELSE orphans
        /\ UNCHANGED <<row, worldVars, cadence, token, minted, changes, owed, copies,
                       links, moved>>

Fault == faults < MaxFaults /\ faults' = faults + 1

\* The session or a bookkeeping write raises: the rows stay queued for the next slot.
BatchLost(s) ==
    /\ Fault
    /\ slot[s].pc \in {"send", "commit"}
    /\ slot' = [slot EXCEPT ![s] = After(s, TRUE)]
    /\ RolledBack(s)

\* The process dies, or the pass raises outside a batch's handler.
Kill(s) ==
    /\ Fault
    /\ slot[s].pc # "idle"
    /\ slot' = [slot EXCEPT ![s] = Idle]
    /\ RolledBack(s)

Finish(s) ==
    /\ slot[s].pc = "next" /\ slot[s].list = {}
    /\ slot' = [slot EXCEPT ![s] = Idle]
    /\ UNCHANGED slotOnly
-----------------------------------------------------------------------------
World ==
    \/ \E u \in Users, e \in Events : Queue(u, e)
    \/ \E e \in Events : Withdraw(e)
    \/ \E e \in Events : Delete(e)
    \/ \E u \in Users : ToggleGate(u)
    \/ \E u \in Users : ToggleFollow(u)
    \/ \E u \in Users : OpenSettings(u)
    \/ \E u \in Users, c \in {"daily", "weekly", "off"} : SetCadence(u, c)
    \/ \E u \in Users : Unsubscribe(u, token[u])

SlotStep(s) ==
    \/ StartSlot(s)
    \/ LoadBatch(s)
    \/ Refuse(s)
    \/ SayNothing(s)
    \/ \E reply \in {"accepted", "refused", "unanswered"} : Deliver(s, reply)
    \/ Commit(s)
    \/ Finish(s)

Next ==
    \/ World
    \/ \E s \in Slots : SlotStep(s)
    \/ \E s \in Slots : BatchLost(s)
    \/ \E s \in Slots : Kill(s)

Spec == Init /\ [][Next]_vars

\* The scheduler keeps starting each slot, and a slot that is alive keeps going.
FairSpec == Spec /\ \A s \in Slots : WF_vars(SlotStep(s))
-----------------------------------------------------------------------------
(***************************************************************************)
(* Properties.                                                             *)
(***************************************************************************)

\* A mail with this card has left and its batch is not committed yet.
InFlight(p) ==
    \E s \in Slots : /\ slot[s].pc = "commit" /\ slot[s].reply # "refused"
                     /\ slot[s].user = p[1] /\ p[2] \in slot[s].items

\* The rows tell the truth about the mails, and the mails about the rows.  A row is sent
\* only if a mail with its card left in a batch that committed; once such a batch has
\* committed the row is never queued again (send_batch, mark); and a reader gets a card
\* twice for two reasons only: a batch was lost after its mail had left, or the reader
\* changed cadence while a slot had them on its list, so that two slots worked on them
\* at once (send_digests, "one honest caveat").
MailsAreAccounted ==
    /\ TypeOK
    /\ \A p \in Pair :
        /\ row[p] = "sent" => copies[p] > lost[p]
        /\ copies[p] > lost[p] /\ ~ InFlight(p) => row[p] # "queued"
        /\ copies[p] <= 1 + lost[p] \/ p[1] \in moved

\* The mail of u's batch at hand has left with this link.
LinkInFlight(u, t) ==
    \E s \in Slots : slot[s].pc = "commit" /\ slot[s].user = u /\ slot[s].link = t

\* An unsubscribe link that has left names the reader's settings row, unless the batch
\* that created the row was lost after its mail had left (ensure_unsubscribe_token).
LinksResolve ==
    \A l \in links : token[l[1]] = l[2] \/ LinkInFlight(l[1], l[2]) \/ l \in orphans

\* Every queued row of a reader some slot serves is settled in the end: refusals, lost
\* batches and deaths only delay it (run_digest_stage: a failed run leaves exactly what
\* did not go out for the next slot).
QueuedIsSettled ==
    \A p \in Pair :
        row[p] = "queued" ~>
            row[p] # "queued" \/ ~ \E s \in Slots : CadenceOf[s] = OnCadence(p[1])

\* The sender implements the contract of the notification rows.
Contract == INSTANCE Outbox WITH carried <- {p \in Pair : copies[p] > 0}
ImplementsOutbox == Contract!Spec

=============================================================================
