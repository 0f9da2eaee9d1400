------------------------------- MODULE Notify -------------------------------
(***************************************************************************)
(* The decision pass (app/services/notify_service.py) and everything its   *)
(* window reads: the ledger's cards and summaries, the follow graph, and   *)
(* the ingest_run rows of kind "notify" that carry its watermark.          *)
(*                                                                         *)
(* Time.  The pass compares only one thing: a card's created_at with the   *)
(* started_at of an earlier notify run.  `clock` counts the notify runs    *)
(* opened so far, run n is the n-th, and a card stamped while clock = k    *)
(* was created after run k started and before run k+1 did.  So             *)
(* created_at > started_at(k) is  created >= k,  with no loss.             *)
(*                                                                         *)
(* created_at is the transaction's start (server default now()), not its   *)
(* commit: OpenCard stamps, PublishCard makes the card visible, and the    *)
(* LLM call of the cluster stage sits between the two.                     *)
(***************************************************************************)
EXTENDS Naturals, FiniteSets

CONSTANTS
    Users,      \* accounts
    Events,     \* cards the ledger may come to hold
    Stories,    \* the cards born of a trade story: their summary comes later
    Scope,      \* the pairs <<user, card>> the user's follow reaches (follow_scope)
    MaxRuns,    \* bound: notify runs ever opened
    MaxLive,    \* bound: passes alive at once
    Threshold   \* ingest_consecutive_failure_threshold

ASSUME NotifyAssumption ==
    /\ Stories \subseteq Events
    /\ Scope \subseteq Users \X Events
    /\ MaxRuns \in Nat
    /\ MaxLive \in Nat
    /\ Threshold \in Nat \ {0}

VARIABLES
    clock,       \* notify runs opened so far
    run,         \* ingest_run.status of the n-th notify run, "none" before it opens
    pass,        \* the process working on run n: its program counter and locals
    card,        \* where each card is in the ledger
    created,     \* event.created_at, as the clock read when its transaction began
    summarized,  \* the cards that have an event_summary row
    ready,       \* the clock when the card became deliverable (committed, summarized)
    following,   \* users holding their follow
    followedAt,  \* follow.created_at, as the clock read
    row          \* app.notification.status of each pair, "none" while there is no row

runVars    == <<clock, run, pass>>
ledgerVars == <<card, created, summarized, ready>>
followVars == <<following, followedAt>>
vars       == <<runVars, ledgerVars, followVars, row>>

Runs == 1..MaxRuns
Time == 0..MaxRuns
Pair == Users \X Events

\* Locals of run_notify_pass.  `since` = 0 is "no successful run yet"; `todo` and
\* `mailable` are the Recipient list; `lost` names the users whose session raised;
\* `streak` is AbortGuard.consecutive.
Pass == [pc       : {"idle", "watermark", "recipients", "users", "over"},
         since    : Time,
         todo     : SUBSET Users,
         mailable : SUBSET Users,
         lost     : SUBSET Users,
         streak   : Nat]

TypeOK ==
    /\ clock \in Time
    /\ run \in [Runs -> {"none", "running", "succeeded", "failed", "cancelled"}]
    /\ pass \in [Runs -> Pass]
    /\ card \in [Events -> {"absent", "open", "published", "superseded"}]
    /\ created \in [Events -> Time]
    /\ summarized \subseteq Events
    /\ ready \in [Events -> Time]
    /\ following \subseteq Users
    /\ followedAt \in [Users -> Time]
    /\ row \in [Pair -> {"none", "queued", "suppressed"}]

Init ==
    /\ clock = 0
    /\ run = [n \in Runs |-> "none"]
    /\ pass = [n \in Runs |-> [pc |-> "idle", since |-> 0, todo |-> {},
                               mailable |-> {}, lost |-> {}, streak |-> 0]]
    /\ card = [e \in Events |-> "absent"]
    /\ created = [e \in Events |-> 0]
    /\ summarized = {}
    /\ ready = [e \in Events |-> 0]
    /\ following = {}
    /\ followedAt = [u \in Users |-> 0]
    /\ row = [p \in Pair |-> "none"]
-----------------------------------------------------------------------------
(***************************************************************************)
(* The ledger: the pipelines that card, summarize, correct and delete.     *)
(***************************************************************************)

\* A carding transaction begins; the row's created_at is fixed here.
OpenCard(e) ==
    /\ card[e] = "absent"
    /\ card' = [card EXCEPT ![e] = "open"]
    /\ created' = [created EXCEPT ![e] = clock]
    /\ UNCHANGED <<summarized, ready, runVars, followVars, row>>

\* It commits.  A catalog card carries its deterministic summary in the same
\* transaction; a story's card has none yet.
PublishCard(e) ==
    /\ card[e] = "open"
    /\ card' = [card EXCEPT ![e] = "published"]
    /\ IF e \in Stories
       THEN UNCHANGED <<summarized, ready>>
       ELSE /\ summarized' = summarized \cup {e}
            /\ ready' = [ready EXCEPT ![e] = clock]
    /\ UNCHANGED <<created, runVars, followVars, row>>

\* It rolls back: the reply did not parse, the model refused, the process died.
RollBackCard(e) ==
    /\ card[e] = "open"
    /\ card' = [card EXCEPT ![e] = "absent"]
    /\ created' = [created EXCEPT ![e] = 0]
    /\ UNCHANGED <<summarized, ready, runVars, followVars, row>>

\* The synthesize stage writes the missing summary, in whichever daily chain first
\* gets a good reply for it.  It reads no status, so a superseded card gets one too.
Summarize(e) ==
    /\ card[e] \in {"published", "superseded"}
    /\ e \notin summarized
    /\ summarized' = summarized \cup {e}
    /\ ready' = [ready EXCEPT ![e] = clock]
    /\ UNCHANGED <<card, created, runVars, followVars, row>>

\* A correction replaces the card (news/supersede.py).
Supersede(e) ==
    /\ card[e] = "published"
    /\ card' = [card EXCEPT ![e] = "superseded"]
    /\ UNCHANGED <<created, summarized, ready, runVars, followVars, row>>

\* The card is deleted from the ledger; its summary and its rows cascade.
DeleteCard(e) ==
    /\ card[e] \in {"published", "superseded"}
    /\ card' = [card EXCEPT ![e] = "absent"]
    /\ created' = [created EXCEPT ![e] = 0]
    /\ summarized' = summarized \ {e}
    /\ ready' = [ready EXCEPT ![e] = 0]
    /\ row' = [p \in Pair |-> IF p[2] = e THEN "none" ELSE row[p]]
    /\ UNCHANGED <<runVars, followVars>>

Follow(u) ==
    /\ u \notin following
    /\ following' = following \cup {u}
    /\ followedAt' = [followedAt EXCEPT ![u] = clock]
    /\ UNCHANGED <<runVars, ledgerVars, row>>

\* Mutation: the rows of a user go with their follow.
UnfollowErasesRows(u) ==
    /\ u \in following
    /\ following' = following \ {u}
    /\ followedAt' = [followedAt EXCEPT ![u] = 0]
    /\ row' = [p \in Pair |-> IF p[1] = u THEN "none" ELSE row[p]]
    /\ UNCHANGED <<runVars, ledgerVars>>

Unfollow(u) ==
    /\ u \in following
    /\ following' = following \ {u}
    /\ followedAt' = [followedAt EXCEPT ![u] = 0]
    /\ UNCHANGED <<runVars, ledgerVars, row>>
-----------------------------------------------------------------------------
(***************************************************************************)
(* The run row and the pass.                                               *)
(***************************************************************************)

\* The n-th notify slot opens its run.  Nothing stops it while an earlier run is
\* still `running`: the cleanup that precedes it relabels rows, not processes.
OpenRun(n) ==
    /\ n = clock + 1
    /\ Cardinality({m \in Runs : pass[m].pc \notin {"idle", "over"}}) < MaxLive
    /\ clock' = n
    /\ run' = [run EXCEPT ![n] = "running"]
    /\ pass' = [pass EXCEPT ![n].pc = "watermark"]
    /\ UNCHANGED <<ledgerVars, followVars, row>>

\* ORDER BY started_at DESC LIMIT 1 over the succeeded runs; 0 when there is none.
LastSuccessful(s) ==
    IF s = 0 THEN \A m \in Runs : run[m] # "succeeded"
    ELSE /\ run[s] = "succeeded"
         /\ \A m \in Runs : run[m] = "succeeded" => m <= s

\* The watermark is read once.  A cold start decides nothing and goes straight to
\* the end of the pass.
ReadWatermark(n) ==
    /\ pass[n].pc = "watermark"
    /\ \E s \in Time :
        /\ LastSuccessful(s)
        /\ pass' = [pass EXCEPT ![n].since = s,
                                ![n].pc = IF s = 0 THEN "users" ELSE "recipients"]
    /\ UNCHANGED <<clock, run, ledgerVars, followVars, row>>

\* Mutation: the gate is a filter, and the users it refuses are skipped in silence.
LoadMailableOnly(n) ==
    /\ pass[n].pc = "recipients"
    /\ \E admitted \in SUBSET following :
        pass' = [pass EXCEPT ![n].todo = admitted, ![n].mailable = admitted,
                             ![n].pc = "users"]
    /\ UNCHANGED <<clock, run, ledgerVars, followVars, row>>

\* Every user with a follow, and which of them the access gate admits.  Entitlement
\* and verification change under the pass at any time and are read here alone, so
\* the admitted set is any subset.
LoadRecipients(n) ==
    /\ pass[n].pc = "recipients"
    /\ \E admitted \in SUBSET following :
        pass' = [pass EXCEPT ![n].todo = following, ![n].mailable = admitted,
                             ![n].pc = "users"]
    /\ UNCHANGED <<clock, run, ledgerVars, followVars, row>>

Aborted(n) == pass[n].streak >= Threshold

\* deliverable_events(since)
Deliverable(since) ==
    {e \in Events : created[e] >= since /\ card[e] = "published" /\ e \in summarized}

\* digest_event_ids: the window restricted to what the user's follows reach now.
DigestEvents(u, since) ==
    {e \in Deliverable(since) : u \in following /\ <<u, e>> \in Scope}

\* decide_for_user and its commit: one insert, ON CONFLICT DO NOTHING.
DecideForUser(n, u) ==
    /\ pass[n].pc = "users" /\ ~ Aborted(n)
    /\ u \in pass[n].todo
    /\ row' = [p \in Pair |->
                 IF p[1] = u /\ p[2] \in DigestEvents(u, pass[n].since) /\ row[p] = "none"
                 THEN IF u \in pass[n].mailable THEN "queued" ELSE "suppressed"
                 ELSE row[p]]
    /\ pass' = [pass EXCEPT ![n].todo = @ \ {u}, ![n].mailable = @ \ {u},
                            ![n].streak = 0]
    /\ UNCHANGED <<clock, run, ledgerVars, followVars>>

\* The user's session raises: nothing of theirs is written, the guard counts it and
\* the pass goes on to the next user.
DecisionRaises(n, u) ==
    /\ pass[n].pc = "users" /\ ~ Aborted(n)
    /\ u \in pass[n].todo
    /\ pass' = [pass EXCEPT ![n].todo = @ \ {u}, ![n].mailable = @ \ {u},
                            ![n].lost = @ \cup {u}, ![n].streak = @ + 1]
    /\ UNCHANGED <<clock, run, ledgerVars, followVars, row>>

\* The process is gone and its locals with it.  Of a run that succeeded, `since` and
\* `lost` stay: they are what the run did, and the properties speak of them.
Over        == [pc |-> "over", since |-> 0, todo |-> {}, mailable |-> {}, lost |-> {},
                streak |-> 0]
Finished(n) == [Over EXCEPT !.since = pass[n].since, !.lost = pass[n].lost]

\* run_notify_stage finalizes: failed only when the guard gave up.
FinalizeRun(n) ==
    /\ pass[n].pc = "users"
    /\ pass[n].todo = {} \/ Aborted(n)
    /\ run' = [run EXCEPT ![n] = IF Aborted(n) THEN "failed" ELSE "succeeded"]
    /\ pass' = [pass EXCEPT ![n] = IF Aborted(n) THEN Over ELSE Finished(n)]
    /\ UNCHANGED <<clock, ledgerVars, followVars, row>>

\* Anything outside the per-user handler raises (a read, the heartbeat, the guard's
\* own write, the finalize): _finalize_failed.
PassRaises(n) ==
    /\ pass[n].pc \in {"watermark", "recipients", "users"}
    /\ run' = [run EXCEPT ![n] = "failed"]
    /\ pass' = [pass EXCEPT ![n] = Over]
    /\ UNCHANGED <<clock, ledgerVars, followVars, row>>

\* The process dies: the row stays as it is until a cleanup finds it.
Kill(n) ==
    /\ pass[n].pc \in {"watermark", "recipients", "users"}
    /\ pass' = [pass EXCEPT ![n] = Over]
    /\ UNCHANGED <<clock, run, ledgerVars, followVars, row>>

\* mark_stale_runs_cancelled, from any task's start: it cannot tell a dead process
\* from one silent for longer than the window.
CancelStaleRun(n) ==
    /\ run[n] = "running"
    /\ run' = [run EXCEPT ![n] = "cancelled"]
    /\ UNCHANGED <<clock, pass, ledgerVars, followVars, row>>
-----------------------------------------------------------------------------
Ledger ==
    \/ \E e \in Events : OpenCard(e)
    \/ \E e \in Events : PublishCard(e)
    \/ \E e \in Events : RollBackCard(e)
    \/ \E e \in Events : Summarize(e)
    \/ \E e \in Events : Supersede(e)
    \/ \E e \in Events : DeleteCard(e)

Readers ==
    \/ \E u \in Users : Follow(u)
    \/ \E u \in Users : Unfollow(u)

PassStep(n) ==
    \/ ReadWatermark(n)
    \/ LoadRecipients(n)
    \/ \E u \in Users : DecideForUser(n, u)
    \/ \E u \in Users : DecisionRaises(n, u)
    \/ FinalizeRun(n)

Next ==
    \/ Ledger
    \/ Readers
    \/ \E n \in Runs : OpenRun(n)
    \/ \E n \in Runs : PassStep(n)
    \/ \E n \in Runs : PassRaises(n)
    \/ \E n \in Runs : Kill(n)
    \/ \E n \in Runs : CancelStaleRun(n)

Spec == Init /\ [][Next]_vars
-----------------------------------------------------------------------------
(***************************************************************************)
(* Properties.                                                             *)
(***************************************************************************)

\* A card the user's timeline shows and no decision has been taken about.
Undecided(u, e) ==
    /\ <<u, e>> \in Scope /\ u \in following
    /\ card[e] = "published" /\ e \in summarized
    /\ row[<<u, e>>] = "none"

\* Run m has succeeded and card e falls in the window it read: created after the
\* run that was the watermark, before m opened.
Covers(m, e) ==
    /\ run[m] = "succeeded"
    /\ pass[m].since <= created[e] /\ created[e] < m

\* The windows tile.  Whatever the order in which overlapping runs read the watermark
\* and finish, and whichever of them fail, are cancelled or are killed, a card that
\* has fallen behind the watermark fell in the window of some run that succeeded
\* (last_successful_run_started_at: succeeded, not merely finished).
WindowsTile ==
    \A e \in Events, n \in Runs :
        run[n] = "succeeded" /\ created[e] < n => \E m \in Runs : Covers(m, e)

ColdStart(m) == pass[m].since = 0

\* A succeeded run has decided its window.  A card on a reader's timeline that the
\* run's window held is still undecided for one of four reasons only: the run was a
\* cold start, the card was not deliverable when the run opened, the reader had not
\* followed by then, or the reader's own session raised (run_notify_pass).
WindowIsDecided ==
    \A u \in Users, e \in Events, m \in Runs :
        Undecided(u, e) /\ Covers(m, e) =>
            \/ ColdStart(m)
            \/ ready[e] >= m
            \/ followedAt[u] >= m
            \/ u \in pass[m].lost

\* A decision is taken once.  A later pass, an overlapping one, or a gate that has
\* changed its answer never rewrites a row while its card exists
\* (queue_decisions: ON CONFLICT DO NOTHING).
DecisionsAreFinal ==
    [][\A p \in Pair : row[p] # "none" /\ card'[p[2]] # "absent" => row'[p] = row[p]]_vars

\* The watermark never retreats: no cleanup, overlap or late finalize can reopen a
\* window that was closed (finalize_run is unconditional, the cleanup is not).
WatermarkOnlyAdvances ==
    [][\A s, t \in Time : LastSuccessful(s) /\ LastSuccessful(t)' => s <= t]_vars

\* A reader is only ever told of cards created after some notify run that succeeded:
\* the history before the first watermark is never mailed (run_notify_pass, cold start).
ColdStartHoldsBackHistory ==
    \A p \in Pair : row[p] # "none" =>
        \E m \in Runs : run[m] = "succeeded" /\ created[p[2]] >= m

\* Nothing is passed over, and nothing told that is not the pass's to tell: what falls behind
\* the watermark was in a succeeded run's window, that run decided it, and the history before
\* the first watermark is left alone (run_notify_pass).
WindowsAreWhole == WindowsTile /\ WindowIsDecided /\ ColdStartHoldsBackHistory

\* The pass implements the contract of the notification rows.
Contract == INSTANCE Outbox WITH
    owed    <- {p \in Pair : row[p] = "queued"},
    carried <- {}
ImplementsOutbox == Contract!Spec

\* What the window is said to be, "what has nobody decided about yet": a card the
\* timeline shows a reader who followed before it was created is decided by the
\* time its window has closed, late summary or not.
LateSummaryIsDecided ==
    \A u \in Users, e \in Events, m \in Runs :
        Undecided(u, e) /\ Covers(m, e) =>
            ColdStart(m) \/ followedAt[u] >= m \/ u \in pass[m].lost
=============================================================================
