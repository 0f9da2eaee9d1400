---------------------------- MODULE ProcessProofs ----------------------------
(***************************************************************************)
(* The process: its runs and both its edges.  Three systems that share no  *)
(* state, each with its own inductive invariant.                           *)
(*                                                                         *)
(* Runs, for any number of tasks, stages and rows: a verdict stands, a     *)
(* chain is fail-fast, a green deadman vouches for every stage.  What      *)
(* makes the three inductive is Chain: a task that is about to open a      *)
(* stage has seen all the earlier ones succeed, and a task that awaits a   *)
(* runner all of them but the one at hand.  Steady carries it over the     *)
(* steps of everybody else: a runner that has come to a verdict stays as   *)
(* it is, and rows not opened yet have no runner.                          *)
(*                                                                         *)
(* Outbound calls, for any calls, limit, window and waits: no window holds *)
(* more requests than the limit, a mail that is sent again is delivered    *)
(* once, and a gateway that has closed has released all it built.  The     *)
(* limiter is right because of what a sleeper holds.  It took the lock     *)
(* with the window full and nobody touches the stamps until it sends, so   *)
(* that when it wakes the oldest of them has left the window (OneSleeper). *)
(* The stamps are the requests of the window behind some that have left    *)
(* it (Remembered), in the order they were sent (OldestFirst).             *)
(*                                                                         *)
(* The inbound limiter, for any capacity, refill and number of buckets:    *)
(* it keeps its word in both directions.  A bucket tells both.  It and     *)
(* the tokens taken out of it since each grant are no more than a full     *)
(* bucket and the refill since (Covers), and by the time its caller was    *)
(* told to come back it will hold a token (KeepsWord).  An evicted bucket  *)
(* starts anew, full and with no past (EvictedStartAnew).                  *)
(***************************************************************************)
EXTENDS Runs, Outbound, RateLimit, FiniteSetTheorems, SequenceTheorems, WellFoundedInduction, TLAPS

Verdicts == {"succeeded", "failed"}

Unopened == \A r \in Runs : r > opened => runner[r] = "none"

Seen(q) == q \in 1..opened /\ runner[q] = "succeeded"

\* How far each invocation has come, and what it has seen on the way.
Chain(t) ==
    /\ IsFiniteSet(task[t].runs)
    /\ Cardinality(task[t].runs) = task[t].stage
    /\ task[t].runs \subseteq 1..opened
    /\ task[t].pc \in {"clear", "open"} =>
          task[t].stage < Stages[t] /\ \A q \in task[t].runs : Seen(q)
    /\ task[t].pc = "await" =>
          task[t].run \in task[t].runs /\ \A q \in task[t].runs \ {task[t].run} : Seen(q)
    /\ report[t] = "up" =>
          /\ task[t].pc = "idle" /\ task[t].stage = Stages[t]
          /\ \A q \in task[t].runs : Seen(q)

EarlierSeen == \A r \in Runs : \A q \in before[r] : Seen(q)

RunsInv ==
    /\ TypeOK
    /\ Unopened
    /\ VerdictStands
    /\ \A t \in Tasks : Chain(t)
    /\ EarlierSeen
-----------------------------------------------------------------------------
(***************************************************************************)
(* Types.                                                                  *)
(***************************************************************************)

Status == {"none", "running", "succeeded", "failed", "cancelled"}
Runner == {"none", "working", "failing", "succeeded", "failed", "raised", "dead"}
Task   == [pc : {"idle", "clear", "open", "await"}, stage : Nat,
           run : 0..MaxRuns, runs : SUBSET Runs]

LEMMA TypeInit == Init => TypeOK
<1> SUFFICES ASSUME Init PROVE TypeOK
  OBVIOUS
<1>1. Idle \in Task
  BY RunsAssumption DEF Idle, Task
<1>2. task \in [Tasks -> Task] /\ \A t \in Tasks : task[t].stage <= Stages[t]
  BY <1>1, RunsAssumption DEF Init, Idle
<1>3. /\ opened \in 0..MaxRuns /\ status \in [Runs -> Status]
      /\ heard \subseteq Runs /\ silent \subseteq Runs
      /\ runner \in [Runs -> Runner] /\ before \in [Runs -> SUBSET Runs]
  BY RunsAssumption DEF Init, Status, Runner
<1>4. report \in [Tasks -> {"none", "up", "down"}]
  BY DEF Init
<1>5. api \in BOOLEAN
  BY Zenon DEF Init
<1> QED
  BY <1>2, <1>3, <1>4, <1>5 DEF TypeOK, Task, Status, Runner

\* The rows keep their types.
LEMMA RowsTyped ==
    ASSUME TypeOK, [Next]_vars
    PROVE  /\ opened' \in 0..MaxRuns /\ status' \in [Runs -> Status]
           /\ heard' \subseteq Runs /\ silent' \subseteq Runs
           /\ runner' \in [Runs -> Runner] /\ before' \in [Runs -> SUBSET Runs]
<1> USE DEF Status, Runner
<1>1. /\ opened \in 0..MaxRuns /\ status \in [Runs -> Status]
      /\ heard \subseteq Runs /\ silent \subseteq Runs
      /\ runner \in [Runs -> Runner] /\ before \in [Runs -> SUBSET Runs]
  BY DEF TypeOK
<1>2. ASSUME NEW S \in SUBSET Runs, OpenRow(S)
      PROVE  /\ opened' \in 0..MaxRuns /\ status' \in [Runs -> Status]
             /\ heard' \subseteq Runs /\ silent' \subseteq Runs
             /\ runner' \in [Runs -> Runner] /\ before' \in [Runs -> SUBSET Runs]
  BY <1>1, <1>2, RunsAssumption DEF OpenRow, Runs
<1>3. ASSUME CancelStaleRuns
      PROVE  /\ opened' \in 0..MaxRuns /\ status' \in [Runs -> Status]
             /\ heard' \subseteq Runs /\ silent' \subseteq Runs
             /\ runner' \in [Runs -> Runner] /\ before' \in [Runs -> SUBSET Runs]
  BY <1>1, <1>3 DEF CancelStaleRuns
<1>4. ASSUME NEW r \in Runs, RunnerStep(r)
      PROVE  /\ opened' \in 0..MaxRuns /\ status' \in [Runs -> Status]
             /\ heard' \subseteq Runs /\ silent' \subseteq Runs
             /\ runner' \in [Runs -> Runner] /\ before' \in [Runs -> SUBSET Runs]
  <2>1. ASSUME NEW verdict \in {"succeeded", "failed"}, Finalize(r, verdict)
        PROVE  status' \in [Runs -> Status] /\ runner' \in [Runs -> Runner]
    BY <1>1, <2>1 DEF Finalize, WriteVerdict
  <2>2. CASE StageRaises(r)
    BY <1>1, <2>2 DEF StageRaises, rowVars
  <2>3. CASE FinalizeFailed(r)
    BY <1>1, <2>3 DEF FinalizeFailed, WriteVerdict
  <2>4. CASE FinalizeRaises(r)
    BY <1>1, <2>4 DEF FinalizeRaises, rowVars
  <2> QED
    BY <1>1, <1>4, <2>1, <2>2, <2>3, <2>4 DEF RunnerStep, Finalize
<1>5. ASSUME NEW S, runner' = Dead(S)
      PROVE  runner' \in [Runs -> Runner]
  BY <1>1, <1>5 DEF Dead
<1>6. ASSUME NEW t \in Tasks, TaskStep(t)
      PROVE  /\ opened' \in 0..MaxRuns /\ status' \in [Runs -> Status]
             /\ heard' \subseteq Runs /\ silent' \subseteq Runs
             /\ runner' \in [Runs -> Runner] /\ before' \in [Runs -> SUBSET Runs]
  <2>1. CASE ClearStale(t)
    BY <1>3, <2>1 DEF ClearStale
  <2>2. CASE OpenRun(t)
    <3>1. task[t].runs \in SUBSET Runs
      BY DEF TypeOK
    <3> QED
      BY <1>2, <2>2, <3>1 DEF OpenRun
  <2>3. CASE UNCHANGED <<rowVars, runner>>
    BY <1>1, <2>3 DEF rowVars
  <2> QED
    BY <1>6, <2>1, <2>2, <2>3
       DEF TaskStep, Start, ClearStaleFails, NextStage, ReportUp, ReportDown, TaskRaises
<1> QED
  <2>1. CASE \E r \in Runs : RunnerStep(r)
    BY <1>4, <2>1
  <2>2. CASE \E r \in Runs : Beat(r)
    BY <1>1, <2>2 DEF Beat
  <2>3. CASE \E r \in Runs : GoSilent(r)
    BY <1>1, <2>3 DEF GoSilent
  <2>4. CASE \E t \in Tasks : TaskStep(t)
    BY <1>6, <2>4
  <2>5. CASE \E t \in Tasks : Kill(t)
    BY <1>1, <1>5, <2>5 DEF Kill, rowVars
  <2>6. CASE StartApi
    BY <1>3, <2>6 DEF StartApi
  <2>7. CASE Trigger
    BY <1>2, <2>7 DEF Trigger
  <2>8. CASE StopApi
    BY <1>1, <1>5, <2>8 DEF StopApi, rowVars
  <2>9. CASE UNCHANGED vars
    BY <1>1, <2>9 DEF vars, rowVars
  <2> QED
    BY <2>1, <2>2, <2>3, <2>4, <2>5, <2>6, <2>7, <2>8, <2>9 DEF Next

\* A task's step touches the task's own locals and its own deadman.
LEMMA OwnTask ==
    ASSUME TypeOK, NEW t \in Tasks, TaskStep(t) \/ Kill(t)
    PROVE  \A s \in Tasks \ {t} : task'[s] = task[s] /\ report'[s] = report[s]
<1>1. /\ task = [s \in Tasks |-> task[s]]
      /\ report = [s \in Tasks |-> report[s]]
  BY DEF TypeOK
<1>2. CASE Start(t)
  BY <1>1, <1>2 DEF Start
<1>3. CASE ClearStale(t) \/ ClearStaleFails(t)
  BY <1>1, <1>3 DEF ClearStale, ClearStaleFails
<1>4. CASE OpenRun(t)
  BY <1>1, <1>4 DEF OpenRun
<1>5. CASE NextStage(t)
  BY <1>1, <1>5 DEF NextStage
<1>6. ASSUME NEW word, Tell(t, word)
      PROVE  \A s \in Tasks \ {t} : task'[s] = task[s] /\ report'[s] = report[s]
  BY <1>1, <1>6 DEF Tell
<1>7. CASE ReportUp(t) \/ ReportDown(t) \/ TaskRaises(t)
  BY <1>6, <1>7 DEF ReportUp, ReportDown, TaskRaises
<1>8. CASE Kill(t)
  BY <1>1, <1>8 DEF Kill
<1> QED
  BY <1>2, <1>3, <1>4, <1>5, <1>7, <1>8 DEF TaskStep

\* A task's own step keeps the types of its locals and of its report, and the stage at
\* hand within its chain; Chain is what bounds the stage it goes on to.
LEMMA TasksTyped ==
    ASSUME TypeOK, \A t \in Tasks : Chain(t), NEW t \in Tasks, TaskStep(t) \/ Kill(t)
    PROVE  /\ task' \in [Tasks -> Task] /\ \A s \in Tasks : task'[s].stage <= Stages[s]
           /\ report' \in [Tasks -> {"none", "up", "down"}]
<1>1. /\ task \in [Tasks -> Task] /\ \A s \in Tasks : task[s].stage <= Stages[s]
      /\ report \in [Tasks -> {"none", "up", "down"}]
      /\ Stages[t] \in Nat \ {0} /\ task[t] \in Task
  BY RunsAssumption DEF TypeOK, Task
<1>2. ASSUME NEW pc \in {"idle", "clear", "open", "await"},
             task' = [task EXCEPT ![t].pc = pc]
      PROVE  task' \in [Tasks -> Task] /\ \A s \in Tasks : task'[s].stage <= Stages[s]
  <2>1. [task[t] EXCEPT !.pc = pc] \in Task /\ [task[t] EXCEPT !.pc = pc].stage = task[t].stage
    BY <1>1 DEF Task
  <2>2. task' = [task EXCEPT ![t] = [task[t] EXCEPT !.pc = pc]]
    BY <1>1, <1>2
  <2> QED
    BY <1>1, <2>1, <2>2
<1>3. CASE Start(t)
  <2>1. [Idle EXCEPT !.pc = "clear"] \in Task /\ [Idle EXCEPT !.pc = "clear"].stage = 0
    BY RunsAssumption DEF Idle, Task
  <2> QED
    BY <1>1, <1>3, <2>1 DEF Start
<1>4. CASE ClearStale(t) \/ ClearStaleFails(t) \/ NextStage(t)
  BY <1>1, <1>2, <1>4 DEF ClearStale, ClearStaleFails, NextStage
<1>5. CASE OpenRun(t)
  <2> DEFINE next == [pc |-> "await", stage |-> task[t].stage + 1, run |-> opened',
                      runs |-> task[t].runs \cup {opened'}]
  <2>1. opened' \in Runs /\ opened' \in 0..MaxRuns
    BY <1>5, RunsAssumption DEF TypeOK, OpenRun, OpenRow, Runs
  <2>2. next \in Task
    BY <1>1, <2>1 DEF Task
  <2>3. next.stage <= Stages[t]
    BY <1>1, <1>5 DEF Chain, OpenRun, Task
  <2>4. task' = [task EXCEPT ![t] = next] /\ report' = report
    BY <1>1, <1>5 DEF OpenRun
  <2> QED
    BY <1>1, <2>2, <2>3, <2>4
<1>6. ASSUME NEW word \in {"up", "down"}, Tell(t, word)
      PROVE  /\ task' \in [Tasks -> Task] /\ \A s \in Tasks : task'[s].stage <= Stages[s]
             /\ report' \in [Tasks -> {"none", "up", "down"}]
  BY <1>1, <1>2, <1>6 DEF Tell
<1>7. CASE ReportUp(t) \/ ReportDown(t) \/ TaskRaises(t)
  BY <1>6, <1>7 DEF ReportUp, ReportDown, TaskRaises
<1>8. CASE Kill(t)
  <2>1. Idle \in Task /\ Idle.stage = 0
    BY RunsAssumption DEF Idle, Task
  <2> QED
    BY <1>1, <1>8, <2>1 DEF Kill
<1> QED
  BY <1>3, <1>4, <1>5, <1>7, <1>8 DEF TaskStep

LEMMA TypeNext == ASSUME TypeOK, \A t \in Tasks : Chain(t), [Next]_vars PROVE TypeOK'
<1>1. /\ task \in [Tasks -> Task] /\ \A s \in Tasks : task[s].stage <= Stages[s]
      /\ report \in [Tasks -> {"none", "up", "down"}] /\ api \in BOOLEAN
  BY DEF TypeOK, Task
<1>2. /\ task' \in [Tasks -> Task] /\ \A s \in Tasks : task'[s].stage <= Stages[s]
      /\ report' \in [Tasks -> {"none", "up", "down"}]
  <2>1. CASE \E t \in Tasks : TaskStep(t) \/ Kill(t)
    BY <2>1, TasksTyped
  <2>2. CASE UNCHANGED <<task, report>>
    BY <1>1, <2>2
  <2> QED
    BY <2>1, <2>2
       DEF Next, vars, RunnerStep, Finalize, StageRaises, FinalizeFailed, FinalizeRaises,
           Beat, GoSilent, StartApi, Trigger, StopApi
<1>3. api' \in BOOLEAN
  <2>1. api' = api \/ api' = TRUE \/ api' = FALSE
    BY Zenon DEF Next, vars, RunnerStep, Finalize, StageRaises, FinalizeFailed,
           FinalizeRaises, Beat, GoSilent, TaskStep, Start, ClearStale, ClearStaleFails,
           OpenRun, NextStage, ReportUp, ReportDown, TaskRaises, Kill, StartApi, Trigger,
           StopApi
  <2> QED
    BY Zenon, <1>1, <2>1
<1> QED
  BY <1>2, <1>3, RowsTyped DEF TypeOK, Task, Status, Runner
-----------------------------------------------------------------------------
(***************************************************************************)
(* What no step undoes.                                                    *)
(***************************************************************************)

\* A verdict is the runner's last word, and rows are opened in order.
LEMMA Steady ==
    ASSUME TypeOK, Unopened, [Next]_vars
    PROVE  /\ opened <= opened'
           /\ \A r \in Runs : runner[r] \in Verdicts => runner'[r] = runner[r]
           /\ Unopened'
<1>1. opened \in 0..MaxRuns /\ runner \in [Runs -> Runner]
  BY DEF TypeOK, Runner
<1>2. ASSUME NEW S, OpenRow(S)
      PROVE  /\ opened <= opened'
             /\ \A r \in Runs : runner[r] \in Verdicts => runner'[r] = runner[r]
             /\ Unopened'
  BY <1>1, <1>2, RunsAssumption DEF OpenRow, Unopened, Runs, Verdicts
<1>3. ASSUME NEW S, runner' = Dead(S), opened' = opened
      PROVE  /\ opened <= opened'
             /\ \A r \in Runs : runner[r] \in Verdicts => runner'[r] = runner[r]
             /\ Unopened'
  BY <1>1, <1>3 DEF Dead, Alive, Unopened, Verdicts, Runs
<1>4. ASSUME NEW r \in Runs, NEW word, Alive(r), opened' = opened,
             runner' = [runner EXCEPT ![r] = word]
      PROVE  /\ opened <= opened'
             /\ \A q \in Runs : runner[q] \in Verdicts => runner'[q] = runner[q]
             /\ Unopened'
  BY <1>1, <1>4 DEF Alive, Unopened, Verdicts, Runs
<1>5. CASE UNCHANGED <<opened, runner>>
  BY <1>1, <1>5 DEF Unopened, Runs
<1>6. ASSUME NEW r \in Runs, RunnerStep(r)
      PROVE  /\ opened <= opened'
             /\ \A q \in Runs : runner[q] \in Verdicts => runner'[q] = runner[q]
             /\ Unopened'
  <2>1. Alive(r) /\ opened' = opened /\ \E word : runner' = [runner EXCEPT ![r] = word]
    BY <1>6 DEF RunnerStep, Finalize, StageRaises, FinalizeFailed, FinalizeRaises, Alive,
                rowVars
  <2> QED
    BY <1>4, <2>1
<1>7. CASE \E t \in Tasks : OpenRun(t)
  BY <1>2, <1>7 DEF OpenRun
<1>8. CASE Trigger
  BY <1>2, <1>8 DEF Trigger
<1>9. CASE StopApi \/ \E t \in Tasks : Kill(t)
  BY <1>3, <1>9 DEF StopApi, Kill, rowVars
<1> QED
  BY <1>5, <1>6, <1>7, <1>8, <1>9
     DEF Next, vars, rowVars, Beat, GoSilent, TaskStep, Start, ClearStale, ClearStaleFails,
         CancelStaleRuns, NextStage, ReportUp, ReportDown, TaskRaises, StartApi

LEMMA SeenStays ==
    ASSUME TypeOK, Unopened, [Next]_vars, NEW q \in Runs, Seen(q)
    PROVE  Seen(q)'
<1>1. opened \in 0..MaxRuns /\ opened' \in 0..MaxRuns
  BY RowsTyped DEF TypeOK
<1> QED
  BY <1>1, Steady DEF Seen, Verdicts, Runs

\* A row that a runner has closed is out of the cleanup's reach.
LEMMA VerdictNext ==
    ASSUME TypeOK, Unopened, VerdictStands, [Next]_vars
    PROVE  VerdictStands'
<1>1. /\ opened \in 0..MaxRuns /\ runner \in [Runs -> Runner]
      /\ status \in [Runs -> Status]
  BY DEF TypeOK, Runner, Status
<1>2. ASSUME NEW S, OpenRow(S) PROVE VerdictStands'
  BY <1>1, <1>2, RunsAssumption DEF OpenRow, VerdictStands, Runs
<1>3. ASSUME NEW S, runner' = Dead(S), status' = status PROVE VerdictStands'
  BY <1>1, <1>3 DEF Dead, Alive, VerdictStands
<1>4. ASSUME CancelStaleRuns PROVE VerdictStands'
  BY <1>1, <1>4 DEF CancelStaleRuns, Stale, VerdictStands
<1>5. CASE UNCHANGED <<status, runner>>
  BY <1>5 DEF VerdictStands
<1>6. ASSUME NEW r \in Runs, RunnerStep(r) PROVE VerdictStands'
  <2>1. ASSUME NEW verdict \in {"succeeded", "failed"}, Finalize(r, verdict)
        PROVE  VerdictStands'
    BY <1>1, <2>1 DEF Finalize, WriteVerdict, VerdictStands
  <2>2. CASE StageRaises(r) \/ FinalizeRaises(r)
    BY <1>1, <2>2 DEF StageRaises, FinalizeRaises, rowVars, VerdictStands
  <2>3. CASE FinalizeFailed(r)
    BY <1>1, <2>3 DEF FinalizeFailed, WriteVerdict, VerdictStands
  <2> QED
    BY <1>6, <2>1, <2>2, <2>3 DEF RunnerStep
<1>7. CASE Trigger \/ \E t \in Tasks : OpenRun(t)
  BY <1>2, <1>7 DEF OpenRun, Trigger
<1>8. CASE StopApi \/ \E t \in Tasks : Kill(t)
  BY <1>3, <1>8 DEF StopApi, Kill, rowVars
<1>9. CASE StartApi \/ \E t \in Tasks : ClearStale(t)
  BY <1>4, <1>9 DEF StartApi, ClearStale
<1> QED
  BY <1>5, <1>6, <1>7, <1>8, <1>9
     DEF Next, vars, rowVars, Beat, GoSilent, TaskStep, Start, ClearStaleFails, NextStage,
         ReportUp, ReportDown, TaskRaises
-----------------------------------------------------------------------------
(***************************************************************************)
(* The chain of one task.                                                  *)
(***************************************************************************)

\* The steps of everybody else leave an invocation where it is.
LEMMA ChainElsewhere ==
    ASSUME TypeOK, Unopened, [Next]_vars, NEW t \in Tasks, Chain(t),
           task'[t] = task[t], report'[t] = report[t]
    PROVE  Chain(t)'
<1>1. opened \in 0..MaxRuns /\ opened' \in 0..MaxRuns /\ opened <= opened'
  BY RowsTyped, Steady DEF TypeOK
<1>2. task[t].runs \subseteq 1..opened'
  BY <1>1 DEF Chain
<1>3. \A q \in Runs : Seen(q) => Seen(q)'
  BY SeenStays
<1>4. task[t].runs \subseteq Runs
  BY DEF TypeOK
<1>5. /\ task[t].pc \in {"clear", "open"} => \A q \in task[t].runs : Seen(q)'
      /\ task[t].pc = "await" => \A q \in task[t].runs \ {task[t].run} : Seen(q)'
      /\ report[t] = "up" => \A q \in task[t].runs : Seen(q)'
  BY <1>3, <1>4 DEF Chain
<1> QED
  BY <1>2, <1>5 DEF Chain

\* A step of the task itself.
LEMMA ChainOwn ==
    ASSUME TypeOK, Unopened, VerdictStands, [Next]_vars, NEW t \in Tasks, Chain(t),
           TaskStep(t) \/ Kill(t)
    PROVE  Chain(t)'
<1>1. /\ opened \in 0..MaxRuns /\ opened' \in 0..MaxRuns /\ opened <= opened'
      /\ task \in [Tasks -> Task] /\ task[t] \in Task /\ task[t].stage <= Stages[t]
      /\ report \in [Tasks -> {"none", "up", "down"}]
      /\ Stages[t] \in Nat \ {0} /\ task[t].stage \in Nat
  BY RowsTyped, Steady, RunsAssumption DEF TypeOK, Task
<1>2. \A q \in Runs : Seen(q) => Seen(q)'
  BY SeenStays
<1>3. task[t].runs \subseteq Runs /\ task[t].runs \subseteq 1..opened'
  <2>1. 1..opened \subseteq 1..opened'
    BY <1>1
  <2> QED
    BY <1>1, <2>1 DEF Chain, Task
<1>4. CASE Start(t)
  <2>1. task'[t] = [Idle EXCEPT !.pc = "clear"] /\ report'[t] = "none"
    BY <1>1, <1>4 DEF Start
  <2> QED
    BY <1>1, <2>1, FS_EmptySet DEF Chain, Idle
<1>5. CASE Kill(t)
  <2>1. task'[t] = Idle /\ report'[t] = report[t] /\ task[t].pc # "idle"
    BY <1>1, <1>5 DEF Kill
  <2> QED
    BY <1>1, <2>1, FS_EmptySet DEF Chain, Idle
<1>6. CASE ClearStale(t) \/ ClearStaleFails(t)
  <2>1. /\ task'[t] = [task[t] EXCEPT !.pc = "open"] /\ report'[t] = report[t]
        /\ task[t].pc = "clear"
    BY <1>1, <1>6 DEF ClearStale, ClearStaleFails
  <2>2. /\ task'[t].pc = "open" /\ task'[t].stage = task[t].stage
        /\ task'[t].runs = task[t].runs
    BY <1>1, <2>1 DEF Task
  <2> QED
    BY <1>2, <1>3, <2>1, <2>2 DEF Chain
<1>7. CASE OpenRun(t)
  <2>1. /\ task[t].pc = "open" /\ report'[t] = report[t] /\ opened' = opened + 1
        /\ task'[t] = [pc |-> "await", stage |-> task[t].stage + 1, run |-> opened',
                       runs |-> task[t].runs \cup {opened'}]
    BY <1>1, <1>7 DEF OpenRun, OpenRow
  <2>2. opened' \notin task[t].runs
    BY <1>1, <2>1 DEF Chain
  <2>3. /\ IsFiniteSet(task[t].runs \cup {opened'})
        /\ Cardinality(task[t].runs \cup {opened'}) = task[t].stage + 1
    BY <2>2, FS_AddElement DEF Chain
  <2>4. task[t].runs \cup {opened'} \subseteq 1..opened'
    BY <1>1, <1>3, <2>1
  <2>5. \A q \in task[t].runs : Seen(q)'
    BY <1>2, <1>3, <2>1 DEF Chain
  <2> QED
    BY <2>1, <2>3, <2>4, <2>5 DEF Chain
<1>8. ASSUME RunnerReturned(t), Passed(task[t].run)
      PROVE  \A q \in task[t].runs : Seen(q)'
  <2>1. task[t].run \in task[t].runs /\ task[t].pc = "await"
    BY <1>8 DEF RunnerReturned, Chain
  <2>2. Seen(task[t].run)
    BY <1>3, <1>8, <2>1 DEF Chain, Seen, RunnerReturned, Passed, VerdictStands
  <2> QED
    BY <1>2, <1>3, <2>1, <2>2 DEF Chain
<1>9. CASE NextStage(t)
  <2>1. /\ task'[t] = [task[t] EXCEPT !.pc = "open"] /\ report'[t] = report[t]
        /\ task[t].pc = "await" /\ task[t].stage < Stages[t]
    BY <1>1, <1>9 DEF NextStage, RunnerReturned, ChainGoesOn
  <2>2. /\ task'[t].pc = "open" /\ task'[t].stage = task[t].stage
        /\ task'[t].runs = task[t].runs
    BY <1>1, <2>1 DEF Task
  <2> QED
    BY <1>3, <1>8, <1>9, <2>1, <2>2 DEF Chain, NextStage
<1>10. ASSUME NEW word, Tell(t, word), task[t].pc # "idle"
       PROVE  /\ task'[t].pc = "idle" /\ task'[t].stage = task[t].stage
              /\ task'[t].runs = task[t].runs
              /\ report'[t] = word \/ (report'[t] = report[t] /\ report[t] # "up")
  <2>1. task'[t] = [task[t] EXCEPT !.pc = "idle"]
    BY <1>1, <1>10 DEF Tell
  <2> QED
    BY <1>1, <1>10, <2>1 DEF Tell, Task, Chain
<1>11. CASE ReportUp(t)
  <2>1. task[t].pc = "await" /\ task[t].stage = Stages[t] /\ Tell(t, "up")
    BY <1>1, <1>11 DEF ReportUp, RunnerReturned, ChainGoesOn
  <2> QED
    BY <1>3, <1>8, <1>10, <1>11, <2>1 DEF Chain, ReportUp
<1>12. CASE ReportDown(t) \/ TaskRaises(t)
  <2>1. task[t].pc # "idle" /\ Tell(t, "down")
    BY <1>12 DEF ReportDown, TaskRaises, RunnerReturned
  <2> QED
    BY <1>3, <1>10, <2>1 DEF Chain
<1> QED
  BY <1>4, <1>5, <1>6, <1>7, <1>9, <1>11, <1>12 DEF TaskStep

LEMMA ChainNext ==
    ASSUME TypeOK, Unopened, VerdictStands, \A t \in Tasks : Chain(t), [Next]_vars
    PROVE  \A t \in Tasks : Chain(t)'
<1>1. CASE \E t \in Tasks : TaskStep(t) \/ Kill(t)
  BY <1>1, ChainOwn, ChainElsewhere, OwnTask
<1>2. CASE UNCHANGED <<task, report>>
  BY <1>2, ChainElsewhere
<1> QED
  BY <1>1, <1>2
     DEF Next, vars, RunnerStep, Finalize, StageRaises, FinalizeFailed, FinalizeRaises,
         Beat, GoSilent, StartApi, Trigger, StopApi

\* A stage opens only in a task that has seen the earlier ones succeed.
LEMMA EarlierNext ==
    ASSUME TypeOK, Unopened, \A t \in Tasks : Chain(t), EarlierSeen, [Next]_vars
    PROVE  EarlierSeen'
<1>1. /\ opened \in 0..MaxRuns /\ before \in [Runs -> SUBSET Runs]
      /\ \A t \in Tasks : task[t].runs \subseteq Runs
  BY DEF TypeOK
<1>2. \A q \in Runs : Seen(q) => Seen(q)'
  BY SeenStays
<1>3. ASSUME NEW S \in SUBSET Runs, OpenRow(S), \A q \in S : Seen(q) PROVE EarlierSeen'
  BY <1>1, <1>2, <1>3 DEF OpenRow, EarlierSeen
<1>4. CASE UNCHANGED before
  BY <1>1, <1>2, <1>4 DEF EarlierSeen
<1>5. ASSUME NEW t \in Tasks, OpenRun(t) PROVE EarlierSeen'
  BY <1>1, <1>3, <1>5 DEF OpenRun, Chain
<1>6. CASE Trigger
  BY <1>3, <1>6 DEF Trigger
<1> QED
  BY <1>4, <1>5, <1>6
     DEF Next, vars, rowVars, RunnerStep, Finalize, StageRaises, FinalizeFailed,
         FinalizeRaises, Beat, GoSilent, TaskStep, Start, ClearStale, ClearStaleFails,
         CancelStaleRuns, NextStage, ReportUp, ReportDown, TaskRaises, Kill, StartApi, StopApi
-----------------------------------------------------------------------------
(***************************************************************************)
(* The theorems.                                                           *)
(***************************************************************************)

LEMMA RunsInvInit == Init => RunsInv
<1> SUFFICES ASSUME Init PROVE RunsInv
  OBVIOUS
<1>1. TypeOK
  BY TypeInit
<1>2. Unopened /\ VerdictStands /\ EarlierSeen
  BY DEF Init, Unopened, VerdictStands, EarlierSeen
<1>3. ASSUME NEW t \in Tasks PROVE Chain(t)
  BY FS_EmptySet DEF Init, Idle, Chain
<1> QED
  BY <1>1, <1>2, <1>3 DEF RunsInv

LEMMA RunsInvNext == RunsInv /\ [Next]_vars => RunsInv'
<1> SUFFICES ASSUME RunsInv, [Next]_vars PROVE RunsInv'
  OBVIOUS
<1> QED
  BY TypeNext, Steady, VerdictNext, ChainNext, EarlierNext DEF RunsInv

LEMMA RunsInvariance == Spec => []RunsInv
<1>1. QED
  BY RunsInvInit, RunsInvNext, PTL DEF Spec

\* Every variable keeps its type: a task never goes past the last stage of its chain
\* (run_daily and the others).
THEOREM TypeCorrect == Spec => []TypeOK
<1>1. RunsInv => TypeOK
  BY DEF RunsInv
<1> QED
  BY <1>1, RunsInvariance, PTL

\* A stage's verdict is what its row says for good, whichever cleanups relabel the row
\* before it and run after it (finalize_run, mark_stale_runs_cancelled).
THEOREM VerdictsStand == Spec => []VerdictStands
<1>1. RunsInv => VerdictStands
  BY DEF RunsInv
<1> QED
  BY <1>1, RunsInvariance, PTL

\* A stage opens only once every earlier stage of its invocation has returned and
\* succeeded, whatever the other processes do to the rows (run_daily).
THEOREM FailFast == Spec => []ChainIsFailFast
<1>1. RunsInv => ChainIsFailFast
  BY DEF RunsInv, EarlierSeen, Seen, VerdictStands, ChainIsFailFast, TypeOK, Runs
<1> QED
  BY <1>1, RunsInvariance, PTL

\* A deadman that heard "up" vouches for every stage of the chain, however many there
\* are (run_daily, _ping_up).
THEOREM GreenIsDone == Spec => []GreenMeansDone
<1>1. RunsInv => GreenMeansDone
  <2> SUFFICES ASSUME RunsInv, NEW t \in Tasks, report[t] = "up"
               PROVE  /\ Cardinality(task[t].runs) = Stages[t]
                      /\ \A r \in task[t].runs : status[r] = "succeeded"
    BY DEF GreenMeansDone
  <2>1. Chain(t) /\ VerdictStands /\ task[t].runs \subseteq Runs
    BY DEF RunsInv, TypeOK
  <2> QED
    BY <2>1 DEF Chain, Seen, VerdictStands
<1> QED
  BY <1>1, RunsInvariance, PTL

\* The rows and the deadman tell the truth, for any tasks, chains and number of runs
\* (run_daily, finalize_run, _ping_up).
THEOREM TruthIsTold == Spec => []RowsTellTheTruth
BY VerdictsStand, FailFast, GreenIsDone, PTL DEF RowsTellTheTruth

-----------------------------------------------------------------------------
(***************************************************************************)
(* Outbound calls: what the invariant is made of.                          *)
(***************************************************************************)
Shared == stamps["shared"]

OldestFirst(ages) == \A i, j \in 1..Len(ages) : i <= j => ages[j] <= ages[i]

\* ages ends with young, and what comes before has left the window.
Remembers(ages, young) ==
    LET gone == Len(ages) - Len(young) IN
    /\ gone \in Nat
    /\ \A i \in 1..gone : ages[i] = Window
    /\ \A i \in 1..Len(young) : young[i] = ages[gone + i]

Remembered == OldestFirst(Shared) /\ Remembers(Shared, sent) /\ Len(Shared) <= Limit

Asleep(c) == call[c].st = "asleep"

OneSleeper ==
    \A c \in Calls : Asleep(c) =>
        /\ \A d \in Calls : Asleep(d) => d = c
        /\ Shared # <<>> /\ Shared[1] + call[c].wait >= Window

DeliveredOnce == \A c \in Calls : copies[c] <= 1 /\ (c \notin keys => copies[c] = 0)

\* The list of what to release is complete: nothing is built once the gateway closes.
ClosedWhenUnwound == gateway.unwound => gateway.closed /\ gateway.built = gateway.released

OutboundInv == OutboundTypeOK /\ Remembered /\ OneSleeper /\ DeliveredOnce /\ ClosedWhenUnwound
-----------------------------------------------------------------------------
(***************************************************************************)
(* What RateLimiter.acquire drops from the front of its stamps.            *)
(***************************************************************************)

\* A set of numbers has a least one.
LEMMA HasLeast == ASSUME NEW S \in SUBSET Nat, S # {} PROVE \E u \in S : \A v \in S : u <= v
<1> DEFINE Below == {0..u : u \in S}
<1>1. Below \subseteq FiniteSubsetsOf(Nat) /\ Below # {}
  <2>1. \A u \in S : IsFiniteSet(0..u) /\ 0..u \subseteq Nat
    BY FS_Interval
  <2>2. \A X \in Below : IsFiniteSet(X) /\ X \in SUBSET Nat
    BY <2>1, Zenon
  <2>3. PICK u \in S : TRUE
    OBVIOUS
  <2>4. 0..u \in Below
    BY <2>3, Zenon
  <2> HIDE DEF Below
  <2> QED
    BY <2>2, <2>4 DEF FiniteSubsetsOf
<1>2. PICK X \in Below : \A Y \in Below : <<Y, X>> \notin StrictSubsetOrdering(Nat)
  BY <1>1, WFMin, FS_StrictSubsetOrderingWellFounded
<1>3. PICK u \in S : X = 0..u
  BY <1>2, Zenon
<1>4. ASSUME NEW v \in S, ~ (u <= v) PROVE FALSE
  <2>1. 0..v \in Below
    BY Zenon
  <2>2. /\ 0..v \subseteq 0..u /\ 0..v # 0..u
        /\ 0..v \in SUBSET Nat /\ 0..u \in SUBSET Nat
    <3>1. u \in 0..u /\ u \notin 0..v
      BY <1>4
    <3> QED
      BY <1>4, <3>1
  <2> HIDE DEF Below
  <2> QED
    BY <1>2, <1>3, <2>1, <2>2 DEF StrictSubsetOrdering
<1> QED
  BY <1>4

\* The loop stops: at the first stamp inside the window, or with none left.
LEMMA DroppedIsDefined ==
    ASSUME NEW ages \in Seq(0..Window)
    PROVE  /\ Dropped(ages) \in 0..Len(ages)
           /\ \A i \in 1..Dropped(ages) : ages[i] >= Window
           /\ Dropped(ages) < Len(ages) => ages[Dropped(ages) + 1] < Window
<1> DEFINE Stops(k) == /\ \A i \in 1..k : ages[i] >= Window
                       /\ k < Len(ages) => ages[k + 1] < Window
           Fresh == {i \in 1..Len(ages) : ages[i] < Window}
<1>1. Len(ages) \in Nat /\ \A i \in 1..Len(ages) : ages[i] \in 0..Window
  BY LenProperties, ElementOfSeq
<1>2. \E k \in 0..Len(ages) : Stops(k)
  <2>1. CASE Fresh = {}
    <3>1. Stops(Len(ages))
      BY OutboundAssumption, <1>1, <2>1
    <3> QED
      BY <1>1, <3>1
  <2>2. CASE Fresh # {}
    <3>1. PICK u \in Fresh : \A v \in Fresh : u <= v
      <4>1. Fresh \in SUBSET Nat
        BY <1>1
      <4> QED
        BY <2>2, <4>1, HasLeast
    <3>2. u - 1 \in 0..Len(ages) /\ Stops(u - 1)
      BY OutboundAssumption, <1>1, <3>1
    <3> QED
      BY <3>2
  <2> QED
    BY <2>1, <2>2
<1>3. Dropped(ages) = CHOOSE k \in 0..Len(ages) : Stops(k)
  BY Zenon DEF Dropped
<1> QED
  BY <1>2, <1>3

\* What is left once k are dropped.
LEMMA WhatIsLeft ==
    ASSUME NEW S, NEW ages, NEW n \in Nat, NEW k \in 0..n, Len(ages) = n,
           \A i \in (k + 1)..n : ages[i] \in S
    PROVE  /\ SubSeq(ages, k + 1, Len(ages)) \in Seq(S)
           /\ Len(SubSeq(ages, k + 1, Len(ages))) = n - k
           /\ \A i \in 1..(n - k) : SubSeq(ages, k + 1, Len(ages))[i] = ages[k + i]
<1>1. PICK young : young = SubSeq(ages, k + 1, n)
  OBVIOUS
<1>2. /\ young \in Seq(S)
      /\ Len(young) = IF k + 1 <= n THEN n - (k + 1) + 1 ELSE 0
      /\ \A i \in 1..(n - (k + 1) + 1) : young[i] = ages[(k + 1) + i - 1]
  <2>1. k + 1 \in Int /\ n \in Int
    OBVIOUS
  <2> QED
    BY <1>1, <2>1, SubSeqProperties
<1>3. Len(young) = n - k
  BY <1>2
<1>4. ASSUME NEW i \in 1..(n - k) PROVE young[i] = ages[k + i]
  <2>1. i \in 1..(n - (k + 1) + 1) /\ (k + 1) + i - 1 = k + i
    OBVIOUS
  <2> QED
    BY <1>2, <2>1
<1> QED
  BY <1>1, <1>2, <1>3, <1>4

\* It drops nothing of the window, and of stamps in order all that has left it.
LEMMA RecentRemembers ==
    ASSUME NEW ages \in Seq(0..Window), OldestFirst(ages)
    PROVE  /\ Recent(ages) \in Seq(0..(Window - 1)) /\ Recent(ages) \in Seq(0..Window)
           /\ Remembers(ages, Recent(ages))
           /\ OldestFirst(Recent(ages))
           /\ Len(Recent(ages)) <= Len(ages)
<1>1. Len(ages) \in Nat /\ \A i \in 1..Len(ages) : ages[i] \in 0..Window
  BY LenProperties, ElementOfSeq
<1>2. PICK k \in 0..Len(ages) : /\ k = Dropped(ages)
                                /\ \A i \in 1..k : ages[i] >= Window
                                /\ k < Len(ages) => ages[k + 1] < Window
  BY DroppedIsDefined
<1>3. \A i \in (k + 1)..Len(ages) : ages[i] \in 0..(Window - 1)
  <2> SUFFICES ASSUME NEW i \in (k + 1)..Len(ages) PROVE ages[i] \in 0..(Window - 1)
    OBVIOUS
  <2>1. k + 1 \in 1..Len(ages) /\ i \in 1..Len(ages) /\ k + 1 <= i
    BY <1>1, <1>2
  <2>2. ages[i] <= ages[k + 1] /\ ages[k + 1] < Window
    BY <1>1, <1>2, <2>1 DEF OldestFirst
  <2> QED
    BY OutboundAssumption, <1>1, <2>1, <2>2
<1>4. PICK young : young = SubSeq(ages, k + 1, Len(ages))
  OBVIOUS
<1>5. /\ young \in Seq(0..(Window - 1)) /\ young \in Seq(0..Window)
      /\ Len(young) = Len(ages) - k
      /\ \A i \in 1..(Len(ages) - k) : young[i] = ages[k + i]
  <2>1. 0..(Window - 1) \subseteq 0..Window
    BY OutboundAssumption
  <2> QED
    BY <1>1, <1>3, <1>4, <2>1, WhatIsLeft, SeqMonotonic
<1>6. Remembers(ages, young)
  <2>1. Len(ages) - Len(young) = k /\ Len(ages) - k = Len(young) /\ k \in Nat
    BY <1>1, <1>2, <1>5
  <2>2. \A i \in 1..k : ages[i] = Window
    BY OutboundAssumption, <1>1, <1>2
  <2>3. \A i \in 1..Len(young) : young[i] = ages[k + i]
    BY <1>5, <2>1
  <2> QED
    BY <2>1, <2>2, <2>3 DEF Remembers
<1>7. OldestFirst(young)
  <2> SUFFICES ASSUME NEW i \in 1..Len(young), NEW j \in 1..Len(young), i <= j
               PROVE  young[j] <= young[i]
    BY DEF OldestFirst
  <2>1. k + i \in 1..Len(ages) /\ k + j \in 1..Len(ages) /\ k + i <= k + j
    BY <1>1, <1>2, <1>5
  <2> QED
    BY <1>5, <2>1 DEF OldestFirst
<1>8. young = Recent(ages)
  BY <1>2, <1>4 DEF Recent
<1> QED
  BY <1>1, <1>2, <1>5, <1>6, <1>7, <1>8

\* What it leaves is determined: the requests that are still in the window.
LEMMA RecentIsSent ==
    ASSUME NEW ages \in Seq(0..Window), NEW young \in Seq(0..(Window - 1)),
           Remembers(ages, young)
    PROVE  Recent(ages) = young
<1>1. /\ Len(ages) \in Nat /\ Len(young) \in Nat
      /\ \A i \in 1..Len(ages) : ages[i] \in 0..Window
      /\ \A i \in 1..Len(young) : young[i] \in 0..(Window - 1)
  BY LenProperties, ElementOfSeq
<1>2. PICK k \in 0..Len(ages) : /\ k = Dropped(ages)
                                /\ \A i \in 1..k : ages[i] >= Window
                                /\ k < Len(ages) => ages[k + 1] < Window
  BY DroppedIsDefined
<1>3. PICK gone \in Nat : /\ gone = Len(ages) - Len(young)
                          /\ \A i \in 1..gone : ages[i] = Window
                          /\ \A i \in 1..Len(young) : young[i] = ages[gone + i]
  BY DEF Remembers
<1>4. k = gone
  <2>1. ASSUME k < gone PROVE FALSE
    <3>1. k + 1 \in 1..gone /\ k < Len(ages)
      BY <1>1, <1>2, <1>3, <2>1
    <3>2. ages[k + 1] = Window /\ ages[k + 1] < Window
      BY <1>2, <1>3, <3>1
    <3> QED
      BY OutboundAssumption, <3>2
  <2>2. ASSUME gone < k PROVE FALSE
    <3>1. 1 \in 1..Len(young) /\ gone + 1 \in 1..k
      BY <1>1, <1>2, <1>3, <2>2
    <3>2. young[1] = ages[gone + 1] /\ ages[gone + 1] >= Window /\ young[1] \in 0..(Window - 1)
      BY <1>1, <1>2, <1>3, <3>1
    <3> QED
      BY OutboundAssumption, <3>2
  <2> QED
    BY <1>2, <1>3, <2>1, <2>2
<1>5. PICK rest : rest = SubSeq(ages, k + 1, Len(ages))
  OBVIOUS
<1>6. /\ rest \in Seq(0..(Window - 1)) /\ Len(rest) = Len(young)
      /\ \A i \in 1..Len(young) : rest[i] = young[i]
  <2>1. Len(ages) - k = Len(young) /\ k = gone
    BY <1>1, <1>2, <1>3, <1>4
  <2>2. ASSUME NEW i \in (k + 1)..Len(ages) PROVE ages[i] \in 0..(Window - 1)
    <3>1. i - k \in 1..Len(young) /\ k + (i - k) = i
      BY <1>1, <1>2, <2>1
    <3>2. young[i - k] = ages[i] /\ young[i - k] \in 0..(Window - 1)
      BY <1>1, <1>3, <2>1, <3>1
    <3> QED
      BY <3>2
  <2>3. /\ rest \in Seq(0..(Window - 1)) /\ Len(rest) = Len(ages) - k
        /\ \A i \in 1..(Len(ages) - k) : rest[i] = ages[k + i]
    BY <1>1, <1>5, <2>2, WhatIsLeft
  <2> QED
    BY <1>3, <2>1, <2>3
<1>7. rest = young
  BY <1>6, SeqEqual
<1> QED
  BY <1>2, <1>5, <1>7 DEF Recent
-----------------------------------------------------------------------------
(***************************************************************************)
(* The limiter: a request sent, a task put to sleep or woken, a tick.      *)
(***************************************************************************)
Call == [st : States, made : Nat, wait : 0..(Window + MaxWait)]

\* What purging the shared stamps leaves is the requests of the window.
LEMMA PurgedIsSent == ASSUME OutboundInv PROVE Purged("shared") = sent
<1>1. Shared \in Seq(0..Window) /\ sent \in Seq(0..(Window - 1)) /\ Remembers(Shared, sent)
  BY DEF OutboundInv, OutboundTypeOK, Limiters, Shared, Remembered
<1> QED
  BY <1>1, RecentIsSent DEF Purged, Shared

\* The stamps as they are written back, or with the request that is sent now.
LEMMA WrittenBack ==
    ASSUME OutboundInv, NEW kept \in Seq(0..Window),
           stamps' = [stamps EXCEPT !["shared"] = kept]
    PROVE  stamps' \in [Limiters -> Seq(0..Window)] /\ Shared' = kept
<1>1. stamps \in [Limiters -> Seq(0..Window)] /\ "shared" \in Limiters
  BY DEF OutboundInv, OutboundTypeOK, Limiters
<1> QED
  BY <1>1 DEF Shared

LEMMA SentIsInOrder ==
    ASSUME OutboundInv
    PROVE  /\ sent \in Seq(0..Window) /\ OldestFirst(sent) /\ Len(sent) \in Nat
           /\ \A i \in 1..Len(sent) : sent[i] \in 0..(Window - 1)
           /\ Len(Shared) \in Nat /\ Len(sent) <= Len(Shared)
<1>1. Shared \in Seq(0..Window) /\ OldestFirst(Shared)
  BY DEF OutboundInv, OutboundTypeOK, Limiters, Shared, Remembered
<1>2. Recent(Shared) = sent
  BY PurgedIsSent DEF Purged, Shared
<1>3. /\ sent \in Seq(0..(Window - 1)) /\ sent \in Seq(0..Window)
      /\ OldestFirst(sent) /\ Len(sent) <= Len(Shared)
  BY <1>1, <1>2, RecentRemembers
<1> QED
  BY <1>1, <1>3, LenProperties, ElementOfSeq

\* A request leaves: there was room for it, and it is the youngest of all.
LEMMA SendRemembers ==
    ASSUME OutboundInv, NEW c \in Calls, Send(c, sent), Len(sent) < Limit
    PROVE  /\ stamps' \in [Limiters -> Seq(0..Window)] /\ sent' \in Seq(0..(Window - 1))
           /\ Remembered'
<1>1. /\ sent \in Seq(0..Window) /\ sent \in Seq(0..(Window - 1))
      /\ OldestFirst(sent) /\ Len(sent) \in Nat
      /\ \A i \in 1..Len(sent) : sent[i] \in 0..(Window - 1)
  BY SentIsInOrder DEF OutboundInv, OutboundTypeOK
<1>2. PICK longer : longer = Append(sent, 0)
  OBVIOUS
<1>3. /\ longer \in Seq(0..Window) /\ longer \in Seq(0..(Window - 1))
      /\ Len(longer) = Len(sent) + 1
      /\ \A i \in 1..Len(sent) : longer[i] = sent[i]
      /\ longer[Len(sent) + 1] = 0
  <2>1. 0 \in 0..Window /\ 0 \in 0..(Window - 1)
    BY OutboundAssumption
  <2>2. longer \in Seq(0..Window)
    BY <1>1, <1>2, <2>1, AppendProperties
  <2> QED
    BY <1>1, <1>2, <2>1, <2>2, AppendProperties
<1>4. stamps' = [stamps EXCEPT !["shared"] = longer] /\ sent' = longer
  BY <1>2 DEF Send, LimiterOf
<1>5. stamps' \in [Limiters -> Seq(0..Window)] /\ Shared' = longer
  BY <1>3, <1>4, WrittenBack
<1>6. OldestFirst(longer)
  <2> SUFFICES ASSUME NEW i \in 1..Len(longer), NEW j \in 1..Len(longer), i <= j
               PROVE  longer[j] <= longer[i]
    BY DEF OldestFirst
  <2>1. CASE j = Len(sent) + 1
    <3>1. longer[i] >= 0
      BY <1>1, <1>3, <2>1
    <3> QED
      BY <1>3, <2>1, <3>1
  <2>2. CASE j # Len(sent) + 1
    <3>1. i \in 1..Len(sent) /\ j \in 1..Len(sent)
      BY <1>1, <1>3, <2>2
    <3> QED
      BY <1>1, <1>3, <3>1 DEF OldestFirst
  <2> QED
    BY <2>1, <2>2
<1>7. Remembers(longer, longer)
  <2>1. Len(longer) - Len(longer) = 0 /\ \A i \in 1..Len(longer) : 0 + i = i
    BY <1>1, <1>3
  <2> QED
    BY <2>1 DEF Remembers
<1>8. Len(longer) <= Limit
  BY OutboundAssumption, <1>1, <1>3
<1>9. OldestFirst(Shared)' /\ Remembers(Shared, sent)' /\ (Len(Shared) <= Limit)'
  BY <1>4, <1>5, <1>6, <1>7, <1>8 DEF OldestFirst, Remembers
<1> QED
  BY <1>3, <1>4, <1>5, <1>9 DEF Remembered

\* The rest of the invariant over a step that moves one call and touches nothing it speaks of.
LEMMA CallMoves ==
    ASSUME OutboundInv, NEW c \in Calls, NEW st \in States \ {"asleep"},
           NEW made \in Nat, NEW wait \in 0..(Window + MaxWait),
           call' = [call EXCEPT ![c] = [st |-> st, made |-> made, wait |-> wait]]
    PROVE  /\ call' \in [Calls -> Call]
           /\ \A d \in Calls : Asleep(d)' => Asleep(d) /\ d # c /\ call'[d] = call[d]
<1>1. call \in [Calls -> Call]
  BY DEF OutboundInv, OutboundTypeOK, Call
<1>2. [st |-> st, made |-> made, wait |-> wait] \in Call
  BY DEF Call
<1>3. call' \in [Calls -> Call] /\ call'[c].st = st /\ \A d \in Calls \ {c} : call'[d] = call[d]
  BY <1>1, <1>2
<1> QED
  BY <1>3 DEF Asleep

\* The form of Move.
LEMMA MoveIs ==
    ASSUME OutboundInv, NEW c \in Calls, NEW st \in States, NEW wait \in 0..(Window + MaxWait)
    PROVE  /\ call[c].made \in Nat
           /\ Move(c, st, wait) = [call EXCEPT ![c] = [st |-> st, made |-> call[c].made, wait |-> wait]]
<1>1. call \in [Calls -> Call]
  BY DEF OutboundInv, OutboundTypeOK, Call
<1>2. PICK old \in Call : old = call[c]
  BY <1>1
<1>3. [[old EXCEPT !.st = st] EXCEPT !.wait = wait] = [st |-> st, made |-> old.made, wait |-> wait]
  <2>1. PICK a \in States, b \in Nat, w \in 0..(Window + MaxWait) :
               old = [st |-> a, made |-> b, wait |-> w]
    BY DEF Call
  <2>2. [old EXCEPT !.st = st] = [st |-> st, made |-> b, wait |-> w] /\ old.made = b
    BY <2>1
  <2>3. [[st |-> st, made |-> b, wait |-> w] EXCEPT !.wait = wait]
           = [st |-> st, made |-> b, wait |-> wait]
    OBVIOUS
  <2> QED
    BY <2>2, <2>3, Zenon
<1>4. old.made \in Nat
  BY DEF Call
<1>5. Move(c, st, wait) = [call EXCEPT ![c] = [[old EXCEPT !.st = st] EXCEPT !.wait = wait]]
  BY <1>1, <1>2 DEF Move
<1> QED
  BY <1>2, <1>3, <1>4, <1>5
-----------------------------------------------------------------------------
(***************************************************************************)
(* Every step preserves the invariant.                                     *)
(***************************************************************************)

\* A message taken in, or not (ResendClient.send, and what the key is for).
LEMMA AcceptedOnce ==
    ASSUME OutboundInv, NEW c \in Calls, Accept(c) \/ UNCHANGED <<copies, keys>>
    PROVE  /\ copies' \in [Calls -> Nat] /\ keys' \subseteq Calls \cup (Calls \X Nat)
           /\ DeliveredOnce'
<1>1. copies \in [Calls -> Nat] /\ keys \subseteq Calls \cup (Calls \X Nat) /\ DeliveredOnce
  BY DEF OutboundInv, OutboundTypeOK
<1>2. CASE UNCHANGED <<copies, keys>>
  BY <1>1, <1>2 DEF DeliveredOnce
<1>3. CASE ~ UNCHANGED <<copies, keys>>
  <2>1. /\ c \notin keys /\ copies' = [copies EXCEPT ![c] = @ + 1] /\ keys' = keys \cup {c}
    BY <1>3 DEF Accept, IdempotencyKey
  <2>2. copies[c] = 0
    BY <1>1, <2>1 DEF DeliveredOnce
  <2> QED
    BY <1>1, <2>1, <2>2 DEF DeliveredOnce
<1> QED
  BY <1>2, <1>3

\* A step of a call that is neither put to sleep nor woken leaves the limiter as it is.
LEMMA Carried ==
    ASSUME OutboundInv, NEW c \in Calls,
           call' \in [Calls -> Call],
           \A d \in Calls : Asleep(d)' => Asleep(d) /\ d # c /\ call'[d] = call[d],
           UNCHANGED <<stamps, sent, gateway>>, busy' \in 0..MaxBusy,
           Accept(c) \/ UNCHANGED <<copies, keys>>
    PROVE  OutboundInv'
<1>1. /\ copies' \in [Calls -> Nat] /\ keys' \subseteq Calls \cup (Calls \X Nat)
      /\ DeliveredOnce'
  BY AcceptedOnce
<1>2. OutboundTypeOK'
  BY <1>1 DEF OutboundInv, OutboundTypeOK, Call
<1>3. Remembered'
  BY DEF OutboundInv, Remembered, OldestFirst, Remembers, Shared
<1>4. OneSleeper'
  <2>1. \A d \in Calls : Asleep(d) =>
           /\ \A e \in Calls : Asleep(e) => e = d
           /\ Shared # <<>> /\ Shared[1] + call[d].wait >= Window
    BY DEF OutboundInv, OneSleeper
  <2>2. Shared' = Shared
    BY DEF Shared
  <2> QED
    BY <2>1, <2>2 DEF OneSleeper
<1>5. ClosedWhenUnwound'
  BY DEF OutboundInv, ClosedWhenUnwound
<1> QED
  BY <1>1, <1>2, <1>3, <1>4, <1>5 DEF OutboundInv

LEMMA BeginStep == ASSUME OutboundInv, NEW c \in Calls, Begin(c) PROVE OutboundInv'
<1>1. PICK st \in States, made \in Nat :
          st # "asleep" /\ call' = [call EXCEPT ![c].st = st, ![c].made = made]
  BY DEF Begin, Retried, States
<1>2. PICK a \in States, b \in Nat, wait \in 0..(Window + MaxWait) :
          call[c] = [st |-> a, made |-> b, wait |-> wait]
  BY DEF OutboundInv, OutboundTypeOK
<1>3. call' = [call EXCEPT ![c] = [st |-> st, made |-> made, wait |-> wait]]
  <2>1. call \in [Calls -> Call]
    BY DEF OutboundInv, OutboundTypeOK, Call
  <2>2. [[[st |-> a, made |-> b, wait |-> wait] EXCEPT !.st = st] EXCEPT !.made = made]
           = [st |-> st, made |-> made, wait |-> wait]
    <3>1. [[st |-> a, made |-> b, wait |-> wait] EXCEPT !.st = st]
             = [st |-> st, made |-> b, wait |-> wait]
      OBVIOUS
    <3>2. [[st |-> st, made |-> b, wait |-> wait] EXCEPT !.made = made]
             = [st |-> st, made |-> made, wait |-> wait]
      OBVIOUS
    <3> QED
      BY <3>1, <3>2, Zenon
  <2>3. call' = [call EXCEPT ![c] = [[call[c] EXCEPT !.st = st] EXCEPT !.made = made]]
    BY <1>1, <2>1
  <2> QED
    BY <1>2, <2>2, <2>3, Zenon
<1>4. /\ call' \in [Calls -> Call]
      /\ \A d \in Calls : Asleep(d)' => Asleep(d) /\ d # c /\ call'[d] = call[d]
  <2>1. st \in States \ {"asleep"}
    BY <1>1
  <2> QED
    BY <1>3, <2>1, CallMoves
<1>5. busy' \in 0..MaxBusy /\ UNCHANGED <<stamps, sent, gateway, copies, keys>>
  BY DEF Begin, OutboundInv, OutboundTypeOK
<1> QED
  BY <1>4, <1>5, Carried

\* Answered for good, sent again, or given up by its task: the forms call' takes.
LEMMA MoveStep ==
    ASSUME OutboundInv, NEW c \in Calls, NEW st \in States \ {"asleep"},
           NEW wait \in 0..(Window + MaxWait), call' = Move(c, st, wait),
           UNCHANGED <<stamps, sent, gateway>>, busy' \in 0..MaxBusy,
           Accept(c) \/ UNCHANGED <<copies, keys>>
    PROVE  OutboundInv'
<1>1. /\ call[c].made \in Nat
      /\ call' = [call EXCEPT ![c] = [st |-> st, made |-> call[c].made, wait |-> wait]]
  BY MoveIs
<1>2. /\ call' \in [Calls -> Call]
      /\ \A d \in Calls : Asleep(d)' => Asleep(d) /\ d # c /\ call'[d] = call[d]
  <2>1. PICK made \in Nat : made = call[c].made
    BY <1>1
  <2>2. call' = [call EXCEPT ![c] = [st |-> st, made |-> made, wait |-> wait]]
    BY <1>1, <2>1
  <2> QED
    BY <2>2, CallMoves
<1> QED
  BY <1>2, Carried

LEMMA BackoffStep ==
    ASSUME OutboundInv, NEW c \in Calls, NEW wait \in DelayFor(c),
           call' = Backoff(c, wait),
           UNCHANGED <<stamps, sent, gateway>>, busy' \in 0..MaxBusy,
           Accept(c) \/ UNCHANGED <<copies, keys>>
    PROVE  OutboundInv'
<1>1. call \in [Calls -> Call]
  BY DEF OutboundInv, OutboundTypeOK, Call
<1>2. call[c].made + 1 \in Nat
  BY <1>1 DEF Call
<1>3. wait \in 0..(Window + MaxWait) /\ "backoff" \in States \ {"asleep"}
  BY OutboundAssumption DEF DelayFor, States
<1>4. call' = [call EXCEPT ![c] = [st |-> "backoff", made |-> call[c].made + 1, wait |-> wait]]
  BY <1>1 DEF Backoff
<1> QED
  BY <1>2, <1>3, <1>4, CallMoves, Carried

LEMMA AnswerStep ==
    ASSUME OutboundInv, NEW c \in Calls,
           Succeed(c) \/ FailForGood(c) \/ TryAgain(c) \/ Cancel(c)
    PROVE  OutboundInv'
<1>1. PICK st \in States \ {"asleep"} : call' = Move(c, st, 0)
  BY DEF Succeed, FailForGood, TryAgain, Cancel, Retried, States
<1>2. UNCHANGED <<stamps, sent, gateway, busy>> /\ (Accept(c) \/ UNCHANGED <<copies, keys>>)
  BY DEF Succeed, FailForGood, TryAgain, Cancel
<1>3. 0 \in 0..(Window + MaxWait) /\ busy' \in 0..MaxBusy
  BY OutboundAssumption, <1>2 DEF OutboundInv, OutboundTypeOK
<1> QED
  BY <1>1, <1>2, <1>3, MoveStep

LEMMA RetryStep ==
    ASSUME OutboundInv, NEW c \in Calls, FailAndRetry(c) \/ TooManyRequests(c)
    PROVE  OutboundInv'
<1>1. \/ call' = Move(c, "raised", 0)
      \/ \E wait \in DelayFor(c) : call' = Move(c, "backoff", wait) \/ call' = Backoff(c, wait)
  BY DEF FailAndRetry, TooManyRequests
<1>2. UNCHANGED <<stamps, sent, gateway>> /\ (Accept(c) \/ UNCHANGED <<copies, keys>>)
  BY DEF FailAndRetry, TooManyRequests
<1>3. 0 \in 0..(Window + MaxWait) /\ DelayFor(c) \subseteq 0..(Window + MaxWait)
  BY OutboundAssumption DEF DelayFor
<1>4. busy' \in 0..MaxBusy
  BY OutboundAssumption DEF FailAndRetry, TooManyRequests, OutboundInv, OutboundTypeOK
<1>5. {"raised", "backoff"} \subseteq States \ {"asleep"}
  BY DEF States
<1>6. CASE call' = Move(c, "raised", 0)
  BY <1>2, <1>3, <1>4, <1>5, <1>6, MoveStep
<1>7. CASE \E wait \in DelayFor(c) : call' = Move(c, "backoff", wait)
  <2>1. PICK wait \in DelayFor(c) : call' = Move(c, "backoff", wait)
    BY <1>7
  <2> QED
    BY <1>2, <1>3, <1>4, <1>5, <2>1, MoveStep
<1>8. CASE \E wait \in DelayFor(c) : call' = Backoff(c, wait)
  BY <1>2, <1>4, <1>8, BackoffStep
<1> QED
  BY <1>1, <1>6, <1>7, <1>8

\* Steps of the limiter: what is left to show of them.
LEMMA Limited ==
    ASSUME OutboundInv, call' \in [Calls -> Call], stamps' \in [Limiters -> Seq(0..Window)],
           sent' \in Seq(0..(Window - 1)), Remembered', OneSleeper',
           UNCHANGED <<copies, keys, busy, gateway>>
    PROVE  OutboundInv'
<1>1. OutboundTypeOK'
  BY DEF OutboundInv, OutboundTypeOK, Call
<1>2. DeliveredOnce' /\ ClosedWhenUnwound'
  BY DEF OutboundInv, DeliveredOnce, ClosedWhenUnwound
<1> QED
  BY <1>1, <1>2 DEF OutboundInv

\* A request leaves, and with it the lock: nobody is asleep.
LEMMA SendStep ==
    ASSUME OutboundInv, NEW c \in Calls, Send(c, sent), Len(sent) < Limit,
           \A d \in Calls : Asleep(d) => d = c,
           UNCHANGED <<copies, keys, busy, gateway>>
    PROVE  OutboundInv'
<1>1. PICK made \in Nat :
          call' = [call EXCEPT ![c] = [st |-> "flying", made |-> made, wait |-> 0]]
  <2>1. "flying" \in States /\ 0 \in 0..(Window + MaxWait)
    BY OutboundAssumption DEF States
  <2> QED
    BY <2>1, MoveIs DEF Send
<1>2. /\ call' \in [Calls -> Call]
      /\ \A d \in Calls : Asleep(d)' => Asleep(d) /\ d # c /\ call'[d] = call[d]
  <2>1. "flying" \in States \ {"asleep"} /\ 0 \in 0..(Window + MaxWait)
    BY OutboundAssumption DEF States
  <2> QED
    BY <1>1, <2>1, CallMoves
<1>3. OneSleeper'
  BY <1>2 DEF OneSleeper
<1> QED
  BY <1>2, <1>3, SendRemembers, Limited

\* RateLimiter.acquire: room at once, or asleep until the oldest has left the window.
LEMMA AcquireStep == ASSUME OutboundInv, NEW c \in Calls, Acquire(c) PROVE OutboundInv'
<1>1. /\ Purged(LimiterOf(c)) = sent
      /\ \A d \in Calls : ~ Asleep(d)
      /\ UNCHANGED <<copies, keys, busy, gateway>>
  BY PurgedIsSent DEF Acquire, LockFree, LimiterOf, Asleep
<1>2. /\ sent \in Seq(0..Window) /\ OldestFirst(sent) /\ Len(sent) \in Nat
      /\ \A i \in 1..Len(sent) : sent[i] \in 0..(Window - 1)
      /\ Len(Shared) \in Nat /\ Len(sent) <= Len(Shared)
  BY SentIsInOrder
<1>3. CASE Len(sent) >= Limit
  <2>1. PICK wait : wait = Window - sent[1]
    OBVIOUS
  <2>2. 1 \in 1..Len(sent)
    BY OutboundAssumption, <1>2, <1>3
  <2>3. sent[1] \in 0..(Window - 1)
    BY <1>2, <2>2
  <2>4. wait \in 0..(Window + MaxWait) /\ sent[1] + wait = Window
    BY OutboundAssumption, <2>1, <2>3
  <2>5. /\ call' = Move(c, "asleep", wait)
        /\ stamps' = [stamps EXCEPT !["shared"] = sent]
        /\ sent' = sent
    BY <1>1, <1>3, <2>1 DEF Acquire, LimiterOf
  <2>6. stamps' \in [Limiters -> Seq(0..Window)] /\ Shared' = sent
    BY <1>2, <2>5, WrittenBack
  <2>7. Remembered'
    <3>1. Len(sent) - Len(sent) = 0 /\ \A i \in 1..Len(sent) : 0 + i = i
      BY <1>2
    <3>2. Remembers(sent, sent)
      BY <3>1 DEF Remembers
    <3>3. Len(sent) <= Limit
      <4>1. Len(Shared) <= Limit
        BY DEF OutboundInv, Remembered
      <4> QED
        BY OutboundAssumption, <1>2, <4>1
    <3>4. OldestFirst(Shared)' /\ Remembers(Shared, sent)' /\ (Len(Shared) <= Limit)'
      BY <1>2, <2>5, <2>6, <3>2, <3>3 DEF OldestFirst, Remembers
    <3> QED
      BY <3>4 DEF Remembered
  <2>8. PICK made \in Nat : call' = [call EXCEPT ![c] = [st |-> "asleep", made |-> made, wait |-> wait]]
    <3>1. "asleep" \in States
      BY DEF States
    <3> QED
      BY <2>4, <2>5, <3>1, MoveIs
  <2>9. /\ call' \in [Calls -> Call] /\ call'[c].wait = wait
        /\ \A d \in Calls \ {c} : call'[d] = call[d]
    <3>1. call \in [Calls -> Call]
      BY DEF OutboundInv, OutboundTypeOK, Call
    <3>2. [st |-> "asleep", made |-> made, wait |-> wait] \in Call
      BY <2>4 DEF Call, States
    <3> QED
      BY <2>8, <3>1, <3>2
  <2>10. OneSleeper'
    <3>1. \A d \in Calls : Asleep(d)' => d = c
      BY <1>1, <2>9 DEF Asleep
    <3>2. sent # <<>>
      BY <1>2, <2>2
    <3>3. Shared' # <<>> /\ Shared'[1] + call'[c].wait >= Window
      BY OutboundAssumption, <2>4, <2>6, <2>9, <3>2
    <3> QED
      BY <3>1, <3>3 DEF OneSleeper
  <2>11. sent' \in Seq(0..(Window - 1))
    BY <2>5 DEF OutboundInv, OutboundTypeOK
  <2> QED
    BY <1>1, <2>6, <2>7, <2>9, <2>10, <2>11, Limited
<1>4. CASE ~ (Len(sent) >= Limit)
  <2>1. Send(c, sent)
    BY <1>1, <1>4 DEF Acquire
  <2>2. Len(sent) < Limit
    BY OutboundAssumption, <1>2, <1>4
  <2> QED
    BY <1>1, <2>1, <2>2, SendStep
<1> QED
  BY <1>3, <1>4

LEMMA WakeStep == ASSUME OutboundInv, NEW c \in Calls, Wake(c) PROVE OutboundInv'
<1>1. /\ Asleep(c) /\ call[c].wait = 0 /\ Send(c, sent)
      /\ UNCHANGED <<copies, keys, busy, gateway>>
  BY PurgedIsSent DEF Wake, LimiterOf, Asleep
<1>2. /\ \A d \in Calls : Asleep(d) => d = c
      /\ Shared # <<>> /\ Shared[1] + call[c].wait >= Window
  BY <1>1 DEF OutboundInv, OneSleeper
<1>3. Shared \in Seq(0..Window) /\ sent \in Seq(0..(Window - 1))
  BY DEF OutboundInv, OutboundTypeOK, Limiters, Shared
<1>4. PICK gone \in Nat : /\ gone = Len(Shared) - Len(sent)
                          /\ \A i \in 1..Len(sent) : sent[i] = Shared[gone + i]
  BY DEF OutboundInv, Remembered, Remembers
<1>5. /\ Len(Shared) \in Nat \ {0} /\ Len(sent) \in Nat /\ Len(Shared) <= Limit
      /\ \A i \in 1..Len(sent) : sent[i] \in 0..(Window - 1)
      /\ \A i \in 1..Len(Shared) : Shared[i] \in 0..Window
  BY <1>2, <1>3, EmptySeq, LenProperties, ElementOfSeq DEF OutboundInv, Remembered
<1>6. gone # 0
  <2> SUFFICES ASSUME gone = 0 PROVE FALSE
    OBVIOUS
  <2>1. 1 \in 1..Len(sent) /\ 1 \in 1..Len(Shared) /\ gone + 1 = 1
    BY <1>4, <1>5
  <2>2. sent[1] = Shared[1] /\ sent[1] \in 0..(Window - 1) /\ Shared[1] \in 0..Window
    BY <1>4, <1>5, <2>1
  <2> QED
    BY OutboundAssumption, <1>1, <1>2, <2>2
<1>7. Len(sent) < Limit
  BY OutboundAssumption, <1>4, <1>5, <1>6
<1> QED
  BY <1>1, <1>2, <1>7, SendStep
-----------------------------------------------------------------------------
(***************************************************************************)
(* Time passes, and the whole.                                             *)
(***************************************************************************)

\* A tick keeps the stamps, their order and what has left the window.
LEMMA OlderIs ==
    ASSUME NEW ages \in Seq(0..Window)
    PROVE  /\ Older(ages) \in Seq(0..Window)
           /\ Len(Older(ages)) = Len(ages) /\ Len(ages) \in Nat
           /\ \A i \in 1..Len(ages) : ages[i] \in 0..Window
           /\ \A i \in 1..Len(ages) :
                 Older(ages)[i] = IF ages[i] + 1 < Window THEN ages[i] + 1 ELSE Window
<1>1. /\ Len(ages) \in Nat /\ DOMAIN ages = 1..Len(ages)
      /\ \A i \in 1..Len(ages) : ages[i] \in 0..Window
  BY LenProperties, ElementOfSeq
<1>2. PICK n \in Nat : n = Len(ages)
  BY <1>1
<1>3. PICK old : old = [i \in 1..n |-> IF ages[i] + 1 < Window THEN ages[i] + 1 ELSE Window]
  OBVIOUS
<1>4. old = Older(ages)
  BY <1>1, <1>2, <1>3 DEF Older, Least
<1>5. \A i \in 1..n : old[i] \in 0..Window
  BY OutboundAssumption, <1>1, <1>2, <1>3
<1>6. old \in Seq(0..Window) /\ Len(old) = n
  <2>1. old \in [1..n -> 0..Window] /\ DOMAIN old = 1..n
    BY <1>3, <1>5
  <2>2. old \in Seq(0..Window)
    BY <2>1, SeqDef
  <2>3. Len(old) \in Nat /\ 1..Len(old) = 1..n
    BY <2>1, <2>2, LenProperties
  <2>4. (Len(old) # 0 => Len(old) \in 1..Len(old)) /\ (n # 0 => n \in 1..n)
    BY <2>3
  <2>5. (Len(old) # 0 => Len(old) \in 1..n) /\ (n # 0 => n \in 1..Len(old))
    BY <2>3, <2>4
  <2> QED
    BY <2>2, <2>3, <2>5
<1>7. \A i \in 1..n : old[i] = IF ages[i] + 1 < Window THEN ages[i] + 1 ELSE Window
  BY <1>3
<1> QED
  BY <1>1, <1>2, <1>4, <1>6, <1>7

LEMMA OlderInOrder ==
    ASSUME NEW ages \in Seq(0..Window), OldestFirst(ages)
    PROVE  OldestFirst(Older(ages))
<1> SUFFICES ASSUME NEW i \in 1..Len(ages), NEW j \in 1..Len(ages), i <= j
             PROVE  Older(ages)[j] <= Older(ages)[i]
  BY OlderIs DEF OldestFirst
<1>1. ages[j] <= ages[i] /\ ages[i] \in 0..Window /\ ages[j] \in 0..Window
  BY OlderIs DEF OldestFirst
<1>2. /\ Older(ages)[i] = IF ages[i] + 1 < Window THEN ages[i] + 1 ELSE Window
      /\ Older(ages)[j] = IF ages[j] + 1 < Window THEN ages[j] + 1 ELSE Window
  BY OlderIs
<1> QED
  BY OutboundAssumption, <1>1, <1>2

LEMMA OlderRemembers ==
    ASSUME NEW ages \in Seq(0..Window), NEW young \in Seq(0..Window),
           Remembers(ages, young)
    PROVE  Remembers(Older(ages), Older(young))
<1>1. PICK gone \in Nat : /\ gone = Len(ages) - Len(young)
                          /\ \A i \in 1..gone : ages[i] = Window
                          /\ \A i \in 1..Len(young) : young[i] = ages[gone + i]
  BY DEF Remembers
<1>2. Len(Older(ages)) - Len(Older(young)) = gone /\ Len(ages) \in Nat /\ Len(young) \in Nat
  BY <1>1, OlderIs
<1>3. ASSUME NEW i \in 1..gone PROVE Older(ages)[i] = Window
  <2>1. i \in 1..Len(ages) /\ ages[i] = Window
    BY <1>1, <1>2
  <2>2. Older(ages)[i] = IF ages[i] + 1 < Window THEN ages[i] + 1 ELSE Window
    BY <2>1, OlderIs
  <2> QED
    BY OutboundAssumption, <2>1, <2>2
<1>4. ASSUME NEW i \in 1..Len(young) PROVE Older(young)[i] = Older(ages)[gone + i]
  <2>1. gone + i \in 1..Len(ages) /\ young[i] = ages[gone + i]
    BY <1>1, <1>2
  <2>2. Older(ages)[gone + i] = IF ages[gone + i] + 1 < Window THEN ages[gone + i] + 1 ELSE Window
    BY <2>1, OlderIs
  <2>3. Older(young)[i] = IF young[i] + 1 < Window THEN young[i] + 1 ELSE Window
    BY OlderIs
  <2> QED
    BY <2>1, <2>2, <2>3
<1>5. Len(Older(young)) = Len(young)
  BY OlderIs
<1> QED
  BY <1>1, <1>2, <1>3, <1>4, <1>5 DEF Remembers

LEMMA RemembersFurther ==
    ASSUME NEW a, NEW b, NEW c, Len(a) \in Nat, Len(b) \in Nat, Len(c) \in Nat,
           Remembers(a, b), Remembers(b, c)
    PROVE  Remembers(a, c)
<1>1. PICK m \in Nat : /\ m = Len(a) - Len(b)
                       /\ \A i \in 1..m : a[i] = Window
                       /\ \A i \in 1..Len(b) : b[i] = a[m + i]
  BY DEF Remembers
<1>2. PICK n \in Nat : /\ n = Len(b) - Len(c)
                       /\ \A i \in 1..n : b[i] = Window
                       /\ \A i \in 1..Len(c) : c[i] = b[n + i]
  BY DEF Remembers
<1>3. Len(a) - Len(c) = m + n
  BY <1>1, <1>2
<1>4. ASSUME NEW i \in 1..(m + n) PROVE a[i] = Window
  <2>1. CASE i \in 1..m
    BY <1>1, <2>1
  <2>2. CASE i \notin 1..m
    <3>1. i - m \in 1..n /\ i - m \in 1..Len(b) /\ m + (i - m) = i
      BY <1>1, <1>2, <2>2
    <3>2. b[i - m] = a[m + (i - m)] /\ b[i - m] = Window
      BY <1>1, <1>2, <3>1
    <3> QED
      BY <3>1, <3>2
  <2> QED
    BY <2>1, <2>2
<1>5. ASSUME NEW i \in 1..Len(c) PROVE c[i] = a[(m + n) + i]
  <2>1. n + i \in 1..Len(b) /\ m + (n + i) = (m + n) + i
    BY <1>1, <1>2
  <2>2. c[i] = b[n + i] /\ b[n + i] = a[m + (n + i)]
    BY <1>1, <1>2, <2>1
  <2> QED
    BY <2>1, <2>2
<1>6. PICK gone \in Nat : gone = m + n
  OBVIOUS
<1> QED
  BY <1>3, <1>4, <1>5, <1>6 DEF Remembers

LEMMA TickStep == ASSUME OutboundInv, Tick PROVE OutboundInv'
<1>1. /\ stamps' = [l \in Limiters |-> Older(stamps[l])]
      /\ sent' = Recent(Older(sent))
      /\ call' = [c \in Calls |-> [call[c] EXCEPT !.wait = IF @ > 0 THEN @ - 1 ELSE 0]]
      /\ UNCHANGED <<copies, keys, busy, gateway>>
  BY DEF Tick
<1>2. /\ sent \in Seq(0..Window) /\ OldestFirst(sent) /\ Len(sent) \in Nat
      /\ Shared \in Seq(0..Window) /\ OldestFirst(Shared) /\ Remembers(Shared, sent)
      /\ Len(Shared) <= Limit /\ Len(Shared) \in Nat
  BY SentIsInOrder DEF OutboundInv, OutboundTypeOK, Limiters, Shared, Remembered
<1>3. stamps' \in [Limiters -> Seq(0..Window)] /\ Shared' = Older(Shared)
  <2>1. stamps \in [Limiters -> Seq(0..Window)] /\ "shared" \in Limiters
    BY DEF OutboundInv, OutboundTypeOK, Limiters
  <2>2. \A l \in Limiters : Older(stamps[l]) \in Seq(0..Window)
    BY <2>1, OlderIs
  <2> QED
    BY <1>1, <2>1, <2>2 DEF Shared
<1>4. PICK old : old = Older(sent)
  OBVIOUS
<1>5. old \in Seq(0..Window) /\ OldestFirst(old) /\ Remembers(Older(Shared), old)
  BY <1>2, <1>4, OlderIs, OlderInOrder, OlderRemembers
<1>6. /\ sent' \in Seq(0..(Window - 1)) /\ Remembers(old, sent')
      /\ Len(sent') \in Nat
  <2>1. PICK rest : rest = Recent(old)
    OBVIOUS
  <2>2. rest \in Seq(0..(Window - 1)) /\ Remembers(old, rest)
    BY <1>5, <2>1, RecentRemembers
  <2> QED
    BY <1>1, <1>4, <2>1, <2>2, LenProperties
<1>7. Remembered'
  <2>1. Len(Older(Shared)) = Len(Shared) /\ Len(old) \in Nat /\ OldestFirst(Older(Shared))
    BY <1>2, <1>4, OlderIs, OlderInOrder
  <2>2. PICK young : young = sent'
    OBVIOUS
  <2>3. Remembers(Older(Shared), young)
    BY <1>2, <1>5, <1>6, <2>1, <2>2, RemembersFurther
  <2>4. OldestFirst(Shared)' /\ Remembers(Shared, sent)' /\ (Len(Shared) <= Limit)'
    BY <1>2, <1>3, <2>1, <2>2, <2>3 DEF OldestFirst, Remembers
  <2> QED
    BY <2>4 DEF Remembered
<1>8. /\ call' \in [Calls -> Call]
      /\ \A c \in Calls : /\ call'[c].st = call[c].st
                          /\ call'[c].wait = IF call[c].wait > 0 THEN call[c].wait - 1 ELSE 0
  <2> SUFFICES ASSUME NEW c \in Calls
               PROVE  /\ call'[c] \in Call /\ call'[c].st = call[c].st
                      /\ call'[c].wait = IF call[c].wait > 0 THEN call[c].wait - 1 ELSE 0
    BY <1>1
  <2>1. PICK a \in States, b \in Nat, w \in 0..(Window + MaxWait) :
            call[c] = [st |-> a, made |-> b, wait |-> w]
    BY DEF OutboundInv, OutboundTypeOK
  <2>2. PICK less : less = IF w > 0 THEN w - 1 ELSE 0
    OBVIOUS
  <2>3. less \in 0..(Window + MaxWait)
    BY OutboundAssumption, <2>2
  <2>4. call'[c] = [st |-> a, made |-> b, wait |-> less]
    <3>1. call'[c] = [call[c] EXCEPT !.wait = IF call[c].wait > 0 THEN call[c].wait - 1 ELSE 0]
      BY <1>1
    <3>2. call[c].wait = w
      BY <2>1
    <3>3. [[st |-> a, made |-> b, wait |-> w] EXCEPT !.wait = less] = [st |-> a, made |-> b, wait |-> less]
      OBVIOUS
    <3> QED
      BY <2>1, <2>2, <3>1, <3>2, <3>3, Zenon
  <2> QED
    BY <2>1, <2>2, <2>3, <2>4 DEF Call
<1>9. OneSleeper'
  <2> SUFFICES ASSUME NEW c \in Calls, Asleep(c)'
               PROVE  /\ \A d \in Calls : Asleep(d)' => d = c
                      /\ Shared' # <<>> /\ Shared'[1] + call'[c].wait >= Window
    BY DEF OneSleeper
  <2>1. Asleep(c) /\ \A d \in Calls : Asleep(d)' => Asleep(d)
    BY <1>8 DEF Asleep
  <2>2. /\ \A d \in Calls : Asleep(d) => d = c
        /\ Shared # <<>> /\ Shared[1] + call[c].wait >= Window
    BY <2>1 DEF OutboundInv, OneSleeper
  <2>3. 1 \in 1..Len(Shared)
    BY <1>2, <2>2, EmptySeq
  <2>4. /\ Older(Shared)[1] = IF Shared[1] + 1 < Window THEN Shared[1] + 1 ELSE Window
        /\ Shared[1] \in 0..Window
    BY <1>2, <2>3, OlderIs
  <2>5. call[c].wait \in 0..(Window + MaxWait)
    BY DEF OutboundInv, OutboundTypeOK
  <2>6. Older(Shared) # <<>>
    BY <1>2, <2>3, OlderIs
  <2>7. Older(Shared)[1] + call'[c].wait >= Window
    BY OutboundAssumption, <1>8, <2>2, <2>4, <2>5
  <2> QED
    BY <1>3, <2>1, <2>2, <2>6, <2>7
<1> QED
  BY <1>1, <1>3, <1>6, <1>7, <1>8, <1>9, Limited

\* The gateway: what is left behind on the way out is not unwound yet.
LEMMA GatewayStep ==
    ASSUME OutboundInv, (\E s \in CallStages : ForStage(s)) \/ Exit \/ Unwind
    PROVE  OutboundInv'
<1>1. UNCHANGED <<call, stamps, copies, keys, sent, busy>>
  BY DEF ForStage, Exit, Unwind
<1>2. gateway \in [closed : BOOLEAN, built : SUBSET {Provider[s] : s \in CallStages},
                   released : SUBSET {Provider[s] : s \in CallStages}, unwound : BOOLEAN]
  BY DEF OutboundInv, OutboundTypeOK
<1>3. /\ gateway' \in [closed : BOOLEAN, built : SUBSET {Provider[s] : s \in CallStages},
                       released : SUBSET {Provider[s] : s \in CallStages}, unwound : BOOLEAN]
      /\ ClosedWhenUnwound'
  <2>1. CASE \E s \in CallStages : ForStage(s)
    <3>1. PICK s \in CallStages : ForStage(s)
      BY <2>1
    <3>2. Provider[s] \in {Provider[x] : x \in CallStages}
      BY Zenon
    <3> QED
      BY <1>2, <3>1, <3>2 DEF ForStage, Open, ClosedWhenUnwound, OutboundInv
  <2>2. CASE Exit
    BY <1>2, <2>2 DEF Exit, ClosedWhenUnwound, OutboundInv
  <2>3. CASE Unwind
    BY <1>2, <2>3 DEF Unwind, ClosedWhenUnwound
  <2> QED
    BY <2>1, <2>2, <2>3
<1>4. OutboundTypeOK'
  BY <1>1, <1>3 DEF OutboundInv, OutboundTypeOK
<1>5. Remembered' /\ OneSleeper' /\ DeliveredOnce'
  BY <1>1 DEF OutboundInv, Remembered, OldestFirst, Remembers, Shared, OneSleeper, Asleep, DeliveredOnce
<1> QED
  BY <1>3, <1>4, <1>5 DEF OutboundInv

LEMMA OutboundInvInit == ASSUME OutboundInit PROVE OutboundInv
<1>1. <<>> \in Seq(0..Window) /\ <<>> \in Seq(0..(Window - 1)) /\ Len(<<>>) = 0
  BY EmptySeq
<1>2. OutboundTypeOK
  BY OutboundAssumption, <1>1 DEF OutboundInit, OutboundTypeOK, States, Limiters
<1>3. Remembered
  <2>1. Shared = <<>> /\ sent = <<>>
    BY DEF OutboundInit, Shared, Limiters
  <2> QED
    BY OutboundAssumption, <1>1, <2>1 DEF Remembered, OldestFirst, Remembers
<1>4. OneSleeper /\ DeliveredOnce /\ ClosedWhenUnwound
  BY DEF OutboundInit, OneSleeper, Asleep, DeliveredOnce, ClosedWhenUnwound
<1> QED
  BY <1>2, <1>3, <1>4 DEF OutboundInv

LEMMA OutboundInvNext == ASSUME OutboundInv, [OutboundNext]_outbound PROVE OutboundInv'
<1>1. CASE (\E s \in CallStages : ForStage(s)) \/ Exit \/ Unwind
  BY <1>1, GatewayStep
<1>2. ASSUME NEW c \in Calls, Begin(c) PROVE OutboundInv'
  BY <1>2, BeginStep
<1>3. ASSUME NEW c \in Calls, Acquire(c) \/ Wake(c) PROVE OutboundInv'
  BY <1>3, AcquireStep, WakeStep
<1>4. ASSUME NEW c \in Calls, Succeed(c) \/ FailForGood(c) \/ TryAgain(c) \/ Cancel(c) PROVE OutboundInv'
  BY <1>4, AnswerStep
<1>5. ASSUME NEW c \in Calls, FailAndRetry(c) \/ TooManyRequests(c) PROVE OutboundInv'
  BY <1>5, RetryStep
<1>6. CASE Tick
  BY <1>6, TickStep
<1>7. CASE UNCHANGED outbound
  BY <1>7 DEF outbound, OutboundInv, OutboundTypeOK, Remembered, OldestFirst, Remembers, Shared,
              OneSleeper, Asleep, DeliveredOnce, ClosedWhenUnwound
<1> QED
  BY <1>1, <1>2, <1>3, <1>4, <1>5, <1>6, <1>7 DEF OutboundNext, Step

LEMMA OutboundInvariance == OutboundSpec => []OutboundInv
<1>1. OutboundInit => OutboundInv
  BY OutboundInvInit
<1>2. OutboundInv /\ [OutboundNext]_outbound => OutboundInv'
  BY OutboundInvNext
<1> QED
  BY <1>1, <1>2, PTL DEF OutboundSpec

\* However many clients and tasks call TMDB, sleep in the limiter, wake late or are cancelled,
\* no window holds more requests than the limit (RateLimiter.acquire, one limiter for the
\* process), and a mail sent again under its key is delivered once (ResendClient._post).
THEOREM CallsAreAlwaysExact == OutboundSpec => []CallsAreExact
<1>1. OutboundInv => CallsAreExact
  <2> SUFFICES ASSUME OutboundInv PROVE CallsAreExact
    OBVIOUS
  <2>1. Len(sent) <= Len(Shared) /\ Len(Shared) <= Limit /\ Len(sent) \in Nat /\ Len(Shared) \in Nat
    BY SentIsInOrder DEF OutboundInv, Remembered
  <2>2. Len(sent) <= Limit
    BY OutboundAssumption, <2>1
  <2> QED
    BY <2>2 DEF OutboundInv, DeliveredOnce, CallsAreExact
<1> QED
  BY <1>1, OutboundInvariance, PTL

\* A gateway that has been left has released every client it built, also when a close fails
\* and the others go on (Gateway.__aexit__, MailGateway.__aexit__).
THEOREM ClientsAreReleased == OutboundSpec => []NoClientLeaks
<1>1. OutboundInv => NoClientLeaks
  BY DEF OutboundInv, ClosedWhenUnwound, NoClientLeaks
<1> QED
  BY <1>1, OutboundInvariance, PTL

-----------------------------------------------------------------------------
(***************************************************************************)
(* The inbound limiter: its store.                                         *)
(***************************************************************************)
KeysOnce(s) == \A i, j \in DOMAIN s : s[i].key = s[j].key => i = j

\* The key that is looked up is the one at IndexOf.
LEMMA FoundAt ==
    ASSUME NEW k, Known(k)
    PROVE  IndexOf(k) \in DOMAIN buckets /\ buckets[IndexOf(k)].key = k
  BY DEF Known, IndexOf

\* What is left of the store without a key: the others, in their order.
LEMMA WithoutIs ==
    ASSUME NEW k, buckets \in Seq(Bucket), KeysOnce(buckets), Len(buckets) <= MaxKeys
    PROVE  /\ Without(k) \in Seq(Bucket) /\ KeysOnce(Without(k)) /\ Len(Without(k)) <= MaxKeys
           /\ \A i \in DOMAIN Without(k) :
                 Without(k)[i].key # k /\ \E m \in DOMAIN buckets : buckets[m] = Without(k)[i]
<1> DEFINE w == Without(k)
           p == IndexOf(k)
           head == SubSeq(buckets, 1, p - 1)
           tail == SubSeq(buckets, p + 1, Len(buckets))
<1>1. CASE ~ Known(k)
  <2>1. w = buckets
    BY <1>1 DEF Without
  <2>2. \A i \in DOMAIN buckets : buckets[i].key # k
    BY <1>1 DEF Known
  <2> QED
    BY <2>1, <2>2
<1>2. CASE Known(k)
  <2>1. p \in 1..Len(buckets) /\ buckets[p].key = k
    BY <1>2, FoundAt
  <2>2. w = head \o tail
    BY <1>2 DEF Without
  <2>3. head \in Seq(Bucket) /\ Len(head) = p - 1 /\ \A i \in 1..(p - 1) : head[i] = buckets[i]
    BY <2>1
  <2>4. /\ tail \in Seq(Bucket) /\ Len(tail) = Len(buckets) - p
        /\ \A i \in 1..(Len(buckets) - p) : tail[i] = buckets[p + i]
    BY <2>1
  <2> HIDE DEF head, tail, p
  <2>5. w \in Seq(Bucket) /\ Len(w) = Len(buckets) - 1
    BY <2>1, <2>2, <2>3, <2>4
  <2>6. \A i \in 1..Len(w) : w[i] = IF i < p THEN buckets[i] ELSE buckets[i + 1]
    <3> SUFFICES ASSUME NEW i \in 1..Len(w) PROVE w[i] = IF i < p THEN buckets[i] ELSE buckets[i + 1]
      OBVIOUS
    <3>1. w[i] = IF i <= Len(head) THEN head[i] ELSE tail[i - Len(head)]
      BY <2>2, <2>3, <2>4, <2>5
    <3>2. CASE i < p
      BY <2>1, <2>3, <3>1, <3>2
    <3>3. CASE ~ (i < p)
      <4>1. i - (p - 1) \in 1..(Len(buckets) - p) /\ p + (i - (p - 1)) = i + 1
        BY <2>1, <2>5, <3>3
      <4>2. w[i] = tail[i - (p - 1)]
        BY <2>1, <2>3, <3>1, <3>3
      <4> QED
        BY <2>4, <3>3, <4>1, <4>2
    <3> QED
      BY <3>2, <3>3
  <2> HIDE DEF w
  <2>7. DOMAIN w = 1..Len(w) /\ DOMAIN buckets = 1..Len(buckets)
    BY <2>5
  <2>8. \A i \in DOMAIN w : w[i].key # k /\ \E m \in DOMAIN buckets : buckets[m] = w[i]
    <3> SUFFICES ASSUME NEW i \in 1..Len(w)
                 PROVE  w[i].key # k /\ \E m \in DOMAIN buckets : buckets[m] = w[i]
      BY <2>7
    <3>1. PICK m \in 1..Len(buckets) : m # p /\ buckets[m] = w[i]
      BY <2>1, <2>5, <2>6
    <3> QED
      BY <2>1, <2>7, <3>1 DEF KeysOnce
  <2>9. KeysOnce(w)
    <3> SUFFICES ASSUME NEW i \in 1..Len(w), NEW j \in 1..Len(w), w[i].key = w[j].key PROVE i = j
      BY <2>7 DEF KeysOnce
    <3> DEFINE at(n) == IF n < p THEN n ELSE n + 1
    <3>1. at(i) \in 1..Len(buckets) /\ at(j) \in 1..Len(buckets) /\ w[i] = buckets[at(i)] /\ w[j] = buckets[at(j)]
      BY <2>1, <2>5, <2>6
    <3>2. at(i) = at(j)
      BY <2>7, <3>1 DEF KeysOnce
    <3> QED
      BY <2>1, <3>2
  <2> QED
    BY <2>5, <2>8, <2>9, RateLimitAssumption DEF w
<1> QED
  BY <1>1, <1>2

\* Storing a bucket keeps it, and keeps of the others what there is room for.
LEMMA StoredIs ==
    ASSUME NEW k, NEW parts, buckets \in Seq(Bucket), KeysOnce(buckets), Len(buckets) <= MaxKeys,
           [key |-> k, parts |-> parts, at |-> now] \in Bucket
    PROVE  /\ Stored(k, parts) \in Seq(Bucket) /\ KeysOnce(Stored(k, parts))
           /\ Len(Stored(k, parts)) <= MaxKeys
           /\ \E i \in DOMAIN Stored(k, parts) :
                 Stored(k, parts)[i] = [key |-> k, parts |-> parts, at |-> now]
           /\ \A i \in DOMAIN Stored(k, parts) :
                 \/ Stored(k, parts)[i] = [key |-> k, parts |-> parts, at |-> now]
                 \/ /\ Stored(k, parts)[i].key # k
                    /\ \E m \in DOMAIN buckets : buckets[m] = Stored(k, parts)[i]
<1> DEFINE new == [key |-> k, parts |-> parts, at |-> now]
           w == Without(k)
           moved == Append(w, new)
           stored == IF Len(moved) > MaxKeys THEN Tail(moved) ELSE moved
<1>1. stored = Stored(k, parts)
  BY DEF Stored
<1>2. new.key = k /\ new \in Bucket
  OBVIOUS
<1>3. /\ w \in Seq(Bucket) /\ KeysOnce(w) /\ Len(w) <= MaxKeys
      /\ \A i \in DOMAIN w : w[i].key # k /\ \E m \in DOMAIN buckets : buckets[m] = w[i]
  BY WithoutIs
<1> HIDE DEF new, w
<1>4. /\ moved \in Seq(Bucket) /\ Len(moved) = Len(w) + 1 /\ moved[Len(w) + 1] = new
      /\ \A i \in 1..Len(w) : moved[i] = w[i]
  BY <1>2, <1>3
<1> HIDE DEF moved
<1>5. KeysOnce(moved)
  <2> SUFFICES ASSUME NEW i \in 1..(Len(w) + 1), NEW j \in 1..(Len(w) + 1), moved[i].key = moved[j].key
               PROVE  i = j
    BY <1>3, <1>4 DEF KeysOnce
  <2>1. Len(w) \in Nat /\ DOMAIN w = 1..Len(w)
    BY <1>3
  <2>2. \A n \in 1..Len(w) : moved[n] = w[n] /\ w[n].key # k
    BY <1>3, <1>4, <2>1
  <2>3. CASE i <= Len(w) /\ j <= Len(w)
    <3>1. i \in DOMAIN w /\ j \in DOMAIN w /\ w[i].key = w[j].key
      BY <2>1, <2>2, <2>3
    <3> QED
      BY <1>3, <3>1 DEF KeysOnce
  <2>4. CASE i = Len(w) + 1 /\ j # Len(w) + 1
    BY <1>2, <1>4, <2>1, <2>2, <2>4
  <2>5. CASE i # Len(w) + 1 /\ j = Len(w) + 1
    BY <1>2, <1>4, <2>1, <2>2, <2>5
  <2> QED
    BY <2>1, <2>3, <2>4, <2>5
<1>6. PICK d \in {0, 1} : /\ stored \in Seq(Bucket) /\ Len(stored) = Len(moved) - d
                          /\ Len(stored) <= MaxKeys /\ Len(stored) >= 1
                          /\ \A i \in 1..Len(stored) : stored[i] = moved[i + d]
  <2>1. CASE Len(moved) > MaxKeys
    <3>1. stored = Tail(moved) /\ moved # <<>>
      BY <1>3, <1>4, <2>1
    <3>2. stored \in Seq(Bucket) /\ Len(stored) = Len(moved) - 1 /\ \A i \in 1..Len(stored) : stored[i] = moved[i + 1]
      BY <1>4, <3>1
    <3> QED
      BY <1>3, <1>4, <2>1, <3>2, RateLimitAssumption
  <2>2. CASE ~ (Len(moved) > MaxKeys)
    BY <1>3, <1>4, <2>2, RateLimitAssumption
  <2> QED
    BY <2>1, <2>2
<1> HIDE DEF stored
<1>7. DOMAIN stored = 1..Len(stored) /\ Len(stored) + d = Len(w) + 1 /\ DOMAIN moved = 1..(Len(w) + 1)
  BY <1>3, <1>4, <1>6
<1>8. stored[Len(stored)] = new /\ Len(stored) \in DOMAIN stored
  BY <1>3, <1>4, <1>6, <1>7
<1>9. KeysOnce(stored)
  <2> SUFFICES ASSUME NEW i \in 1..Len(stored), NEW j \in 1..Len(stored), stored[i].key = stored[j].key
               PROVE  i = j
    BY <1>7 DEF KeysOnce
  <2>1. i + d \in DOMAIN moved /\ j + d \in DOMAIN moved
    BY <1>3, <1>6, <1>7
  <2>2. moved[i + d].key = moved[j + d].key
    BY <1>6
  <2>3. i + d = j + d
    BY <1>5, <2>1, <2>2 DEF KeysOnce
  <2> QED
    BY <1>3, <1>6, <2>3
<1>10. \A i \in DOMAIN stored :
          stored[i] = new \/ (stored[i].key # k /\ \E m \in DOMAIN buckets : buckets[m] = stored[i])
  <2> SUFFICES ASSUME NEW i \in 1..Len(stored), stored[i] # new
               PROVE  stored[i].key # k /\ \E m \in DOMAIN buckets : buckets[m] = stored[i]
    BY <1>7
  <2>1. i + d \in 1..Len(w) /\ stored[i] = w[i + d]
    BY <1>3, <1>4, <1>6, <1>7
  <2> QED
    BY <1>3, <2>1
<1> QED
  BY <1>1, <1>6, <1>8, <1>9, <1>10 DEF new

-----------------------------------------------------------------------------
(***************************************************************************)
(* Tokens and waits.                                                       *)
(***************************************************************************)
LEMMA Parameters ==
    /\ Token \in Nat /\ Token >= 1 /\ Token >= Hz /\ Capacity * Token \in Nat /\ Capacity * Token >= Token
    /\ Refill * Hz \in Nat \ {0} /\ NoPromise \in Nat
    /\ NoPromise >= MaxTime + Token * Hz /\ NoPromise >= MaxTime + Token
<1>1. Token \in Nat /\ Token >= 1 /\ Token >= Hz
  BY RateLimitAssumption DEF Token
<1> HIDE DEF Token
<1>2. Capacity * Token \in Nat /\ Capacity * Token >= Token
  BY <1>1, RateLimitAssumption
<1>3. Refill * Hz \in Nat \ {0}
  BY RateLimitAssumption
<1>4. 60 * Hz * Token \in Nat /\ 60 * Hz * Token >= Token * Hz /\ 60 * Hz * Token >= Token
  BY <1>1, RateLimitAssumption
<1> QED
  BY <1>1, <1>2, <1>3, <1>4, RateLimitAssumption DEF NoPromise

LEMMA CeilDivIs ==
    ASSUME NEW a \in Nat, NEW d \in Nat \ {0}
    PROVE  CeilDiv(a, d) \in Nat /\ CeilDiv(a, d) * d >= a /\ CeilDiv(a, d) <= a
<1> DEFINE q == (a + d - 1) \div d
<1>1. a + d - 1 \in Nat
  OBVIOUS
<1>2. q \in Nat
  BY <1>1
<1>3. q * d <= a + d - 1 /\ a + d - 1 < (q + 1) * d
  BY <1>1
<1> HIDE DEF q
<1>4. (q + 1) * d = q * d + d
  BY <1>2
<1>5. q * d >= a
  BY <1>2, <1>3, <1>4
<1>6. q <= a
  <2> SUFFICES ASSUME q >= a + 1 PROVE FALSE
    BY <1>2
  <2>1. q * d >= (a + 1) * d
    BY <1>2
  <2>2. (a + 1) * d = a * d + d /\ a * d >= a
    OBVIOUS
  <2> QED
    BY <1>2, <1>3, <2>1, <2>2
<1> QED
  BY <1>2, <1>5, <1>6 DEF q, CeilDiv

\* A refused caller's bucket holds a token when Retry-After is over, and no wait is longer
\* than a bucket takes to fill one.
LEMMA WaitIsEnough ==
    ASSUME NEW parts \in Nat, parts < Token
    PROVE  /\ RetryAfter(parts) * Hz \in Nat /\ RetryAfter(parts) * Hz <= Token * Hz
           /\ parts + (RetryAfter(parts) * Hz) * Refill >= Token
<1> DEFINE d == Refill * Hz
           q == CeilDiv(Token - parts, d)
           w == RetryAfter(parts)
<1>1. d \in Nat \ {0} /\ Token - parts \in Nat
  BY Parameters
<1>2. q \in Nat /\ q * d >= Token - parts /\ q <= Token - parts
  <2> HIDE DEF d
  <2> QED
    BY <1>1, CeilDivIs
<1>3. w = (IF 1 > q THEN 1 ELSE q)
  BY DEF RetryAfter, Greatest
<1> HIDE DEF q, w
<1>4. w \in Nat /\ w >= q /\ w <= Token
  BY <1>2, <1>3, Parameters
<1>5. w * d >= q * d
  <2> HIDE DEF d
  <2> QED
    BY <1>1, <1>2, <1>4
<1>6. (w * Hz) * Refill = w * d
  BY <1>4, RateLimitAssumption
<1>7. w * Hz \in Nat /\ w * Hz <= Token * Hz
  BY <1>4, RateLimitAssumption, Parameters
<1> HIDE DEF d
<1>8. w * d \in Nat /\ q * d \in Nat
  BY <1>1, <1>2, <1>4
<1>9. parts + w * d >= Token
  BY <1>1, <1>2, <1>5, <1>8, Parameters
<1> QED
  BY <1>6, <1>7, <1>9 DEF w

-----------------------------------------------------------------------------
(***************************************************************************)
(* The invariant.                                                          *)
(***************************************************************************)

\* What a bucket holds at a moment, and what was taken out of it since each grant, is no
\* more than a full bucket and the refill since.
Covers(past, parts, at) ==
    \A i \in DOMAIN past :
        /\ past[i] <= at
        /\ (Len(past) - i + 1) * Token + parts <= Capacity * Token + (at - past[i]) * Refill

\* A bucket will hold a token by the time its caller was told to come back.
KeepsWord(word, parts, at) == word >= at /\ parts + (word - at) * Refill >= Token

BucketsTell ==
    \A n \in DOMAIN buckets :
        /\ buckets[n].at <= now
        /\ Covers(grants[buckets[n].key], buckets[n].parts, buckets[n].at)
        /\ KeepsWord(promise[buckets[n].key], buckets[n].parts, buckets[n].at)

\* An evicted bucket starts anew.
EvictedStartAnew == \A k \in Keys : ~ Known(k) => grants[k] = <<>>

GrantsAreExact ==
    \A k \in Keys : \A i, j \in DOMAIN grants[k] : i <= j =>
        (j - i + 1) * Token <= Capacity * Token + (grants[k][j] - grants[k][i]) * Refill

InboundInv ==
    /\ RateLimitTypeOK /\ BucketsTell /\ EvictedStartAnew /\ GrantsAreExact
    /\ answer.owed => answer.allowed

\* Types of what the invariant speaks of.
LEMMA InboundTyped ==
    ASSUME RateLimitTypeOK
    PROVE  /\ now \in 0..MaxTime /\ now \in Nat /\ KeysOnce(buckets)
           /\ buckets \in Seq(Bucket) /\ \A n \in DOMAIN buckets : buckets[n] \in Bucket
           /\ \A k \in Keys : promise[k] \in Nat
           /\ \A k \in Keys : grants[k] \in Seq(0..MaxTime) /\ Len(grants[k]) \in Nat
           /\ \A k \in Keys : DOMAIN grants[k] = 1..Len(grants[k])
           /\ \A k \in Keys : \A i \in DOMAIN grants[k] : grants[k][i] \in Nat
<1>1. now \in 0..MaxTime /\ now \in Nat
  BY RateLimitAssumption DEF RateLimitTypeOK
<1>2. buckets \in Seq(Bucket) /\ KeysOnce(buckets)
  BY DEF RateLimitTypeOK, KeysOnce
<1>3. \A k \in Keys : promise[k] \in Nat
  BY Parameters DEF RateLimitTypeOK
<1>4. \A k \in Keys : grants[k] \in Seq(0..MaxTime)
  BY DEF RateLimitTypeOK
<1> QED
  BY <1>1, <1>2, <1>3, <1>4, RateLimitAssumption

\* The refill is owed to the grants as well as to the bucket.
LEMMA RefillAdds ==
    ASSUME NEW g \in Nat, NEW at \in Nat, NEW t \in Nat, g <= at, at <= t
    PROVE  /\ (t - g) * Refill = (at - g) * Refill + (t - at) * Refill
           /\ (t - at) * Refill \in Nat /\ (at - g) * Refill \in Nat
  BY RateLimitAssumption

LEMMA RefilledIs ==
    ASSUME InboundInv, NEW k \in Keys
    PROVE  /\ Refilled(k) \in 0..Capacity * Token
           /\ Covers(grants[k], Refilled(k), now)
           /\ now >= promise[k] => Refilled(k) >= Token
<1> DEFINE p == Refilled(k)
           full == Capacity * Token
<1>1. RateLimitTypeOK
  BY DEF InboundInv
<1>2. full \in Nat /\ full >= Token /\ Token \in Nat
  BY Parameters
<1>3. CASE ~ Known(k)
  <2>1. p = full
    BY <1>3 DEF Refilled
  <2>2. grants[k] = <<>>
    BY <1>3 DEF InboundInv, EvictedStartAnew
  <2> HIDE DEF p, full
  <2>3. Covers(grants[k], p, now)
    BY <2>2 DEF Covers
  <2> QED
    BY <1>2, <2>1, <2>3 DEF p, full
<1>4. CASE Known(k)
  <2> DEFINE b == buckets[IndexOf(k)]
             e == (now - b.at) * Refill
  <2>1. IndexOf(k) \in DOMAIN buckets /\ b.key = k
    BY <1>4, FoundAt
  <2>2. b \in Bucket /\ b.at <= now /\ Covers(grants[k], b.parts, b.at) /\ KeepsWord(promise[k], b.parts, b.at)
    BY <1>1, <2>1, InboundTyped DEF InboundInv, BucketsTell
  <2>3. b.at \in Nat /\ b.parts \in Nat /\ b.parts <= full /\ now \in Nat
    BY <1>1, <1>2, <2>2, InboundTyped, RateLimitAssumption DEF Bucket
  <2>4. p = IF full < b.parts + e THEN full ELSE b.parts + e
    BY <1>4 DEF Refilled, Smallest
  <2> HIDE DEF b, p, full
  <2>5. e \in Nat
    BY <2>2, <2>3, RateLimitAssumption
  <2>6. p \in Nat /\ p <= full /\ p <= b.parts + e
    BY <1>2, <2>3, <2>4, <2>5
  <2>7. Covers(grants[k], p, now)
    <3> SUFFICES ASSUME NEW i \in DOMAIN grants[k]
                 PROVE  /\ grants[k][i] <= now
                        /\ (Len(grants[k]) - i + 1) * Token + p <= full + (now - grants[k][i]) * Refill
      BY DEF Covers, full
    <3> DEFINE g == grants[k][i]
               n == (Len(grants[k]) - i + 1) * Token
    <3>1. g \in Nat /\ i \in 1..Len(grants[k]) /\ Len(grants[k]) \in Nat
      BY <1>1, InboundTyped
    <3>2. g <= b.at /\ n + b.parts <= full + (b.at - g) * Refill
      BY <2>2 DEF Covers, full
    <3>3. n \in Nat
      BY <1>2, <3>1
    <3> HIDE DEF g, n
    <3>4. (now - g) * Refill = (b.at - g) * Refill + (now - b.at) * Refill /\ (b.at - g) * Refill \in Nat
      <4>1. g \in Nat /\ b.at \in Nat /\ now \in Nat /\ g <= b.at /\ b.at <= now
        BY <2>2, <2>3, <3>1, <3>2
      <4>2. /\ (now - g) * Refill = (b.at - g) * Refill + (now - b.at) * Refill
            /\ (now - b.at) * Refill \in Nat /\ (b.at - g) * Refill \in Nat
        BY <4>1, RefillAdds, Zenon
      <4> QED
        BY <4>2
    <3> HIDE DEF e
    <3>5. g <= now
      BY <2>2, <2>3, <3>1, <3>2
    <3>6. n + p <= full + (now - g) * Refill
      <4>1. (now - g) * Refill = (b.at - g) * Refill + e
        BY <3>4 DEF e
      <4> QED
        BY <1>2, <2>3, <2>5, <2>6, <3>2, <3>3, <3>4, <4>1
    <3> QED
      BY <3>5, <3>6 DEF g, n
  <2>8. ASSUME now >= promise[k] PROVE p >= Token
    <3>1. promise[k] \in Nat /\ promise[k] >= b.at /\ b.parts + (promise[k] - b.at) * Refill >= Token
      BY <1>1, <2>2, InboundTyped DEF KeepsWord
    <3>2. promise[k] <= now /\ b.at <= promise[k]
      BY <2>3, <2>8, <3>1
    <3>3. /\ (now - b.at) * Refill = (promise[k] - b.at) * Refill + (now - promise[k]) * Refill
          /\ (now - promise[k]) * Refill \in Nat /\ (promise[k] - b.at) * Refill \in Nat
      BY <2>3, <3>1, <3>2, RefillAdds, Zenon
    <3>4. e = (promise[k] - b.at) * Refill + (now - promise[k]) * Refill
      BY <3>3 DEF e
    <3> HIDE DEF e
    <3> QED
      BY <1>2, <2>3, <2>4, <2>5, <3>1, <3>3, <3>4
  <2> QED
    BY <1>2, <2>6, <2>7, <2>8 DEF p, full
<1> QED
  BY <1>3, <1>4

-----------------------------------------------------------------------------
(***************************************************************************)
(* A request.                                                              *)
(***************************************************************************)

LEMMA OneMoreToken ==
    ASSUME NEW m \in Nat PROVE m * Token \in Nat /\ (m + 1) * Token = m * Token + Token
  BY Parameters

\* Nothing flows backwards.
LEMMA FlowIsNat == ASSUME NEW g \in Nat, NEW t \in Nat, g <= t PROVE (t - g) * Refill \in Nat
  BY RateLimitAssumption

\* Grants at the end of a history whose bucket is accounted for are exact.
LEMMA GrantIsExact ==
    ASSUME InboundInv, NEW k \in Keys, NEW p \in Nat, p >= Token, Covers(grants[k], p, now),
           NEW h, h = Append(grants[k], now)
    PROVE  /\ h \in Seq(0..MaxTime) /\ Len(h) = Len(grants[k]) + 1
           /\ \A i, j \in DOMAIN h : i <= j =>
                 (j - i + 1) * Token <= Capacity * Token + (h[j] - h[i]) * Refill
<1> DEFINE g == grants[k]
           n == Len(g)
           full == Capacity * Token
<1>1. /\ RateLimitTypeOK /\ now \in 0..MaxTime /\ now \in Nat
      /\ g \in Seq(0..MaxTime) /\ n \in Nat /\ DOMAIN g = 1..n
  BY InboundTyped DEF InboundInv
<1>2. \A i \in 1..n : g[i] \in Nat
  BY <1>1, RateLimitAssumption
<1>3. \A i, j \in 1..n : i <= j => (j - i + 1) * Token <= full + (g[j] - g[i]) * Refill
  BY <1>1 DEF InboundInv, GrantsAreExact
<1>4. \A i \in 1..n : g[i] <= now /\ (n - i + 1) * Token + p <= full + (now - g[i]) * Refill
  BY <1>1 DEF Covers
<1>5. full \in Nat /\ full >= Token /\ Token \in Nat /\ Refill \in Nat
  BY Parameters, RateLimitAssumption
<1> HIDE DEF g, n, full
<1>6. h = Append(g, now)
  BY DEF g
<1>7. /\ h \in Seq(0..MaxTime) /\ Len(h) = n + 1 /\ DOMAIN h = 1..(n + 1)
      /\ h[n + 1] = now /\ \A i \in 1..n : h[i] = g[i]
  <2>1. h \in Seq(0..MaxTime) /\ Len(h) = Len(g) + 1 /\ h[Len(g) + 1] = now /\ \A i \in 1..Len(g) : h[i] = g[i]
    BY <1>1, <1>6
  <2> QED
    BY <2>1 DEF n
<1>8. ASSUME NEW i \in 1..(n + 1), NEW j \in 1..(n + 1), i <= j
      PROVE  (j - i + 1) * Token <= full + (h[j] - h[i]) * Refill
  <2>1. CASE j <= n
    <3>1. i \in 1..n /\ j \in 1..n
      BY <1>1, <1>8, <2>1
    <3> QED
      BY <1>3, <1>7, <1>8, <3>1
  <2>2. CASE j = n + 1 /\ i <= n
    <3>1. i \in 1..n
      BY <1>1, <2>2
    <3>2. (n - i + 1) * Token + p <= full + (now - h[i]) * Refill /\ h[i] \in Nat /\ h[i] <= now
      BY <1>2, <1>4, <1>7, <3>1
    <3> DEFINE m == n - i + 1
               flow == (now - h[i]) * Refill
    <3>3. m \in Nat /\ j - i + 1 = m + 1
      BY <1>1, <2>2, <3>1
    <3>4. flow \in Nat
      <4>1. now \in Nat /\ h[i] \in Nat /\ h[i] <= now
        BY <1>1, <3>2
      <4> QED
        BY <4>1, FlowIsNat, Zenon
    <3>5. h[j] = now
      BY <1>7, <2>2
    <3>6. m * Token + p <= full + flow
      BY <3>2
    <3> HIDE DEF m, flow
    <3>7. m * Token \in Nat /\ (m + 1) * Token = m * Token + Token
      BY <3>3, OneMoreToken
    <3>8. m * Token + Token <= full + flow
      BY <1>5, <3>4, <3>6, <3>7
    <3> QED
      BY <3>3, <3>5, <3>7, <3>8 DEF flow
  <2>3. CASE i = n + 1 /\ j = n + 1
    <3>1. j - i + 1 = 1 /\ h[j] - h[i] = 0
      BY <1>1, <1>7, <2>3
    <3>2. 1 * Token = Token /\ 0 * Refill = 0
      BY <1>5
    <3>3. (j - i + 1) * Token = Token /\ (h[j] - h[i]) * Refill = 0
      BY <3>1, <3>2, Zenon
    <3>4. Token <= full + 0
      BY <1>5
    <3> QED
      BY <3>3, <3>4, Zenon
  <2>4. \/ j <= n
        \/ j = n + 1 /\ i <= n
        \/ i = n + 1 /\ j = n + 1
    BY <1>1, <1>8
  <2> QED
    BY <2>1, <2>2, <2>3, <2>4, Zenon
<1> QED
  BY <1>7, <1>8 DEF g, n, full

LEMMA TakeStep == ASSUME InboundInv, NEW k \in Keys, Take(k) PROVE InboundInv'
<1> DEFINE p == Refilled(k)
           full == Capacity * Token
           allowed == HasToken(p)
           left == IF allowed THEN Greatest(Token, p) - Token ELSE p
           new == [key |-> k, parts |-> left, at |-> now]
<1>1. RateLimitTypeOK /\ now \in 0..MaxTime /\ now \in Nat /\ buckets \in Seq(Bucket) /\ KeysOnce(buckets)
      /\ Len(buckets) <= MaxKeys
  BY InboundTyped DEF InboundInv, RateLimitTypeOK
<1>2. full \in Nat /\ full >= Token /\ Token \in Nat /\ Token >= 1
  BY Parameters
<1>3. p \in 0..full /\ Covers(grants[k], p, now) /\ (now >= promise[k] => p >= Token)
  BY RefilledIs
<1>4. allowed <=> p >= Token
  BY DEF HasToken
<1>5. buckets' = Stored(k, left) /\ now' = now
  BY DEF Take
<1>6. answer' = [allowed |-> allowed, owed |-> now >= promise[k]]
  BY DEF Take
<1>7. promise' = [j \in Keys |-> CASE j = k /\ ~allowed -> now + RetryAfter(p) * Hz
                                   [] j = k /\ allowed -> NoPromise
                                   [] OTHER -> promise[j]]
  BY DEF Take
<1>8. grants' = [j \in Keys |->
                   CASE j = k /\ allowed -> Append(grants[k], now)
                     [] j \in {i \in Keys : i # k /\ ~ Known(i)'} -> <<>>
                     [] OTHER -> grants[j]]
  BY DEF Take, Known
<1> HIDE DEF p, allowed, full
<1>9. left = IF allowed THEN p - Token ELSE p
  BY <1>2, <1>3, <1>4 DEF Greatest, full
<1>10. left \in 0..full
  BY <1>2, <1>3, <1>4, <1>9
<1> HIDE DEF left
<1>11. new \in Bucket /\ new.key = k /\ new.parts = left /\ new.at = now
  BY <1>1, <1>10 DEF Bucket, full
<1>12. /\ buckets' \in Seq(Bucket) /\ KeysOnce(buckets') /\ Len(buckets') <= MaxKeys
       /\ \E i \in DOMAIN buckets' : buckets'[i] = new
       /\ \A i \in DOMAIN buckets' :
             buckets'[i] = new \/ (buckets'[i].key # k /\ \E m \in DOMAIN buckets : buckets[m] = buckets'[i])
  BY <1>1, <1>5, <1>11, StoredIs
<1> HIDE DEF new
<1>13. answer' \in [allowed : BOOLEAN, owed : BOOLEAN] /\ (answer'.owed => answer'.allowed)
  <2>1. allowed \in BOOLEAN
    BY <1>4 DEF allowed, HasToken
  <2> QED
    BY <1>3, <1>4, <1>6, <2>1
<1>14. ASSUME ~ allowed
       PROVE  /\ RetryAfter(p) * Hz \in Nat /\ now + RetryAfter(p) * Hz \in 0..NoPromise
              /\ p + (RetryAfter(p) * Hz) * Refill >= Token
  <2>1. p \in Nat /\ p < Token
    BY <1>2, <1>3, <1>4, <1>14
  <2> DEFINE w == RetryAfter(p) * Hz
  <2>2. w \in Nat /\ w <= Token * Hz /\ p + w * Refill >= Token
    BY <2>1, WaitIsEnough
  <2>3. Token * Hz \in Nat /\ NoPromise \in Nat /\ NoPromise >= MaxTime + Token * Hz /\ MaxTime \in Nat
    BY Parameters, RateLimitAssumption
  <2> HIDE DEF w
  <2>4. now + w \in 0..NoPromise
    <3> DEFINE x == Token * Hz
    <3> HIDE DEF x
    <3>1. x \in Nat /\ NoPromise >= MaxTime + x /\ w <= x
      BY <2>2, <2>3 DEF x
    <3> QED
      BY <1>1, <2>2, <2>3, <3>1
  <2> QED
    BY <2>2, <2>4 DEF w
<1>15. /\ promise' \in [Keys -> 0..NoPromise]
       /\ promise'[k] = IF allowed THEN NoPromise ELSE now + RetryAfter(p) * Hz
       /\ \A j \in Keys \ {k} : promise'[j] = promise[j]
  <2>1. promise \in [Keys -> 0..NoPromise] /\ NoPromise \in 0..NoPromise
    BY <1>1, Parameters DEF RateLimitTypeOK
  <2> DEFINE w == now + RetryAfter(p) * Hz
  <2>2. ~ allowed => w \in 0..NoPromise
    BY <1>14
  <2> HIDE DEF w
  <2>3. promise' = [j \in Keys |-> IF j # k THEN promise[j] ELSE IF allowed THEN NoPromise ELSE w]
    BY <1>7 DEF w
  <2>4. promise' \in [Keys -> 0..NoPromise]
    BY <2>1, <2>2, <2>3
  <2> QED
    BY <2>3, <2>4 DEF w
<1>16. /\ grants'[k] = IF allowed THEN Append(grants[k], now) ELSE grants[k]
       /\ \A j \in Keys \ {k} : grants'[j] = IF Known(j)' THEN grants[j] ELSE <<>>
       /\ DOMAIN grants' = Keys /\ grants' = [j \in Keys |-> grants'[j]]
  BY <1>8
<1>17. allowed => /\ Append(grants[k], now) \in Seq(0..MaxTime)
                  /\ Len(Append(grants[k], now)) = Len(grants[k]) + 1
                  /\ \A i, j \in DOMAIN Append(grants[k], now) : i <= j =>
                        (j - i + 1) * Token
                          <= full + (Append(grants[k], now)[j] - Append(grants[k], now)[i]) * Refill
  <2> SUFFICES ASSUME allowed
               PROVE  /\ Append(grants[k], now) \in Seq(0..MaxTime)
                      /\ Len(Append(grants[k], now)) = Len(grants[k]) + 1
                      /\ \A i, j \in DOMAIN Append(grants[k], now) : i <= j =>
                            (j - i + 1) * Token
                              <= full + (Append(grants[k], now)[j] - Append(grants[k], now)[i]) * Refill
    OBVIOUS
  <2>1. p \in Nat /\ p >= Token
    BY <1>2, <1>3, <1>4
  <2> QED
    BY <1>3, <2>1, GrantIsExact DEF full
<1>18. grants' \in [Keys -> Seq(0..MaxTime)]
  <2>1. \A j \in Keys : grants[j] \in Seq(0..MaxTime)
    BY <1>1, InboundTyped
  <2>2. grants'[k] \in Seq(0..MaxTime)
    BY <1>16, <1>17, <2>1
  <2>3. <<>> \in Seq(0..MaxTime)
    OBVIOUS
  <2>4. \A j \in Keys \ {k} : grants'[j] \in Seq(0..MaxTime)
    BY <1>16, <2>1, <2>3
  <2> QED
    BY <1>16, <2>2, <2>4
<1>19. Covers(grants'[k], left, now)
  <2> SUFFICES ASSUME NEW i \in DOMAIN grants'[k]
               PROVE  /\ grants'[k][i] <= now
                      /\ (Len(grants'[k]) - i + 1) * Token + left <= full + (now - grants'[k][i]) * Refill
    BY DEF Covers, full
  <2>1. /\ grants[k] \in Seq(0..MaxTime) /\ Len(grants[k]) \in Nat /\ DOMAIN grants[k] = 1..Len(grants[k])
    BY <1>1, InboundTyped
  <2>2. CASE ~ allowed
    BY <1>3, <1>9, <1>16, <2>2 DEF Covers, full
  <2>3. CASE allowed
    <3> DEFINE n == Len(grants[k])
    <3>1. /\ grants'[k] = Append(grants[k], now) /\ Len(grants'[k]) = n + 1 /\ left = p - Token
      BY <1>9, <1>16, <1>17, <2>3
    <3>2. i \in 1..(n + 1)
      BY <2>1, <3>1
    <3>3. CASE i = n + 1
      <4>1. grants'[k][i] = now
        BY <2>1, <3>1, <3>3
      <4>2. Len(grants'[k]) - i + 1 = 1 /\ now - grants'[k][i] = 0
        BY <1>1, <2>1, <3>1, <3>3, <4>1
      <4>3. 1 * Token = Token /\ 0 * Refill = 0
        BY <1>2, RateLimitAssumption
      <4>4. Token + left <= full + 0
        BY <1>2, <1>3, <3>1
      <4> QED
        BY <1>1, <4>1, <4>2, <4>3, <4>4
    <3>4. CASE i \in 1..n
      <4>1. grants'[k][i] = grants[k][i]
        BY <2>1, <3>1, <3>4
      <4> DEFINE m == n - i + 1
                 flow == (now - grants[k][i]) * Refill
      <4>2. grants[k][i] <= now /\ m * Token + p <= full + flow
        BY <1>3, <2>1, <3>4 DEF Covers, full
      <4>3. m \in Nat /\ Len(grants'[k]) - i + 1 = m + 1
        BY <2>1, <3>1, <3>4
      <4>4. flow \in Nat
        <5>1. now \in Nat /\ grants[k][i] \in Nat /\ grants[k][i] <= now
          BY <1>1, <2>1, <3>4, <4>2, InboundTyped, Zenon
        <5> QED
          BY <5>1, FlowIsNat, Zenon
      <4> HIDE DEF m, flow
      <4>5. m * Token \in Nat /\ (m + 1) * Token = m * Token + Token
        BY <4>3, OneMoreToken
      <4>6. (m + 1) * Token + left <= full + flow
        BY <1>2, <1>3, <3>1, <4>2, <4>4, <4>5
      <4> QED
        BY <4>1, <4>2, <4>3, <4>6 DEF flow
    <3> QED
      BY <2>1, <3>2, <3>3, <3>4
  <2> QED
    BY <2>2, <2>3
<1>20. KeepsWord(promise'[k], left, now)
  <2> SUFFICES promise'[k] >= now /\ left + (promise'[k] - now) * Refill >= Token
    BY DEF KeepsWord
  <2>1. CASE ~ allowed
    <3> DEFINE w == RetryAfter(p) * Hz
    <3>1. promise'[k] = now + w /\ left = p
      BY <1>9, <1>15, <2>1
    <3>2. w \in Nat /\ p + w * Refill >= Token
      BY <1>14, <2>1
    <3> HIDE DEF w
    <3>3. (now + w) - now = w /\ now + w >= now
      BY <1>1, <3>2
    <3> QED
      BY <3>1, <3>2, <3>3
  <2>2. CASE allowed
    <3>1. promise'[k] = NoPromise
      BY <1>15, <2>2
    <3>2. NoPromise - now \in Nat /\ NoPromise - now >= Token
      BY <1>1, <1>2, Parameters, RateLimitAssumption
    <3>3. (NoPromise - now) * Refill >= Token /\ (NoPromise - now) * Refill \in Nat
      <4> DEFINE x == NoPromise - now
      <4> HIDE DEF x
      <4>1. x \in Nat /\ x >= Token
        BY <3>2 DEF x
      <4>2. x * Refill >= x /\ x * Refill \in Nat
        BY <4>1, RateLimitAssumption
      <4> QED
        BY <1>2, <4>1, <4>2 DEF x
    <3>4. NoPromise >= now
      BY <1>1, <3>2, Parameters
    <3> QED
      BY <1>2, <1>10, <3>1, <3>3, <3>4
  <2> QED
    BY <2>1, <2>2
<1>21. BucketsTell'
  <2> SUFFICES ASSUME NEW n \in DOMAIN buckets'
               PROVE  /\ buckets'[n].at <= now
                      /\ Covers(grants'[buckets'[n].key], buckets'[n].parts, buckets'[n].at)
                      /\ KeepsWord(promise'[buckets'[n].key], buckets'[n].parts, buckets'[n].at)
    BY <1>5 DEF BucketsTell, Covers, KeepsWord
  <2>1. CASE buckets'[n] = new
    BY <1>1, <1>11, <1>19, <1>20, <2>1
  <2>2. CASE buckets'[n] # new
    <3>1. PICK m \in DOMAIN buckets : buckets[m] = buckets'[n] /\ buckets'[n].key # k
      BY <1>12, <2>2
    <3>2. buckets[m].key \in Keys \ {k}
      BY <1>1, <3>1, InboundTyped DEF Bucket
    <3>3. \A j : j = buckets[m].key => Known(j)'
      BY <3>1 DEF Known
    <3>4. grants'[buckets[m].key] = grants[buckets[m].key] /\ promise'[buckets[m].key] = promise[buckets[m].key]
      BY <1>15, <1>16, <3>2, <3>3
    <3>5. /\ buckets[m].at <= now
          /\ Covers(grants[buckets[m].key], buckets[m].parts, buckets[m].at)
          /\ KeepsWord(promise[buckets[m].key], buckets[m].parts, buckets[m].at)
      BY DEF InboundInv, BucketsTell
    <3> QED
      BY <3>1, <3>4, <3>5
  <2> QED
    BY <2>1, <2>2
<1>22. EvictedStartAnew'
  <2>1. Known(k)'
    BY <1>11, <1>12 DEF Known
  <2> QED
    BY <1>16, <2>1 DEF EvictedStartAnew
<1>23. GrantsAreExact'
  <2> DEFINE Exact(h) == \A i, j \in DOMAIN h : i <= j => (j - i + 1) * Token <= full + (h[j] - h[i]) * Refill
  <2>1. \A j \in Keys : Exact(grants[j])
    BY DEF InboundInv, GrantsAreExact, full
  <2>2. allowed => Exact(Append(grants[k], now))
    BY <1>17
  <2>3. Exact(<<>>)
    OBVIOUS
  <2> HIDE DEF Exact
  <2>4. \A j \in Keys : Exact(grants'[j])
    BY <1>16, <2>1, <2>2, <2>3
  <2> QED
    BY <2>4 DEF Exact, GrantsAreExact, full
<1>24. RateLimitTypeOK'
  BY <1>1, <1>5, <1>12, <1>13, <1>15, <1>18 DEF RateLimitTypeOK, KeysOnce
<1> QED
  BY <1>13, <1>21, <1>22, <1>23, <1>24 DEF InboundInv

-----------------------------------------------------------------------------
(***************************************************************************)
(* The clock, and the whole.                                               *)
(***************************************************************************)

LEMMA PassTimeStep == ASSUME InboundInv, PassTime PROVE InboundInv'
<1>1. /\ RateLimitTypeOK /\ now' = now + 1 /\ now < MaxTime
      /\ UNCHANGED <<buckets, promise, grants, answer>>
  BY DEF InboundInv, PassTime
<1>2. RateLimitTypeOK'
  BY <1>1, RateLimitAssumption DEF RateLimitTypeOK
<1>3. BucketsTell'
  <2>1. \A n \in DOMAIN buckets : buckets[n].at \in Nat
    BY <1>1, InboundTyped, RateLimitAssumption DEF Bucket
  <2>2. now \in Nat
    BY <1>1, InboundTyped
  <2>3. \A n \in DOMAIN buckets : buckets[n].at <= now + 1
    BY <2>1, <2>2 DEF InboundInv, BucketsTell
  <2> QED
    BY <1>1, <2>3 DEF InboundInv, BucketsTell, Covers, KeepsWord
<1>4. EvictedStartAnew' /\ GrantsAreExact' /\ (answer'.owed => answer'.allowed)
  BY <1>1 DEF InboundInv, EvictedStartAnew, GrantsAreExact, Known
<1> QED
  BY <1>2, <1>3, <1>4 DEF InboundInv

LEMMA InboundInvInit == ASSUME RateLimitInit PROVE InboundInv
<1>1. /\ now = 0 /\ buckets = <<>> /\ promise = [k \in Keys |-> NoPromise]
      /\ grants = [k \in Keys |-> <<>>] /\ answer = [allowed |-> TRUE, owed |-> FALSE]
  BY DEF RateLimitInit
<1>2. <<>> \in Seq(Bucket) /\ <<>> \in Seq(0..MaxTime) /\ Len(<<>>) = 0 /\ DOMAIN <<>> = {}
  BY EmptySeq
<1>3. NoPromise \in 0..NoPromise
  BY Parameters
<1>4. RateLimitTypeOK
  BY <1>1, <1>2, <1>3, RateLimitAssumption DEF RateLimitTypeOK
<1> QED
  BY <1>1, <1>2, <1>4 DEF InboundInv, BucketsTell, EvictedStartAnew, GrantsAreExact

LEMMA InboundInvNext == ASSUME InboundInv, [RateLimitNext]_inbound PROVE InboundInv'
<1>1. CASE PassTime
  BY <1>1, PassTimeStep
<1>2. ASSUME NEW k \in Keys, Take(k) PROVE InboundInv'
  BY <1>2, TakeStep
<1>3. CASE UNCHANGED inbound
  BY <1>3 DEF inbound, InboundInv, RateLimitTypeOK, BucketsTell, Covers, KeepsWord,
              EvictedStartAnew, GrantsAreExact, Known
<1> QED
  BY <1>1, <1>2, <1>3 DEF RateLimitNext

LEMMA InboundInvariance == RateLimitSpec => []InboundInv
<1>1. RateLimitInit => InboundInv
  BY InboundInvInit
<1>2. InboundInv /\ [RateLimitNext]_inbound => InboundInv'
  BY InboundInvNext
<1> QED
  BY <1>1, <1>2, PTL DEF RateLimitSpec

\* Whatever the capacity, the refill and the number of buckets kept: a caller who has waited
\* as long as Retry-After said is served, and no run of requests takes more tokens out of a
\* bucket that stayed in the store than it held and was refilled with (RateLimiter.take).
THEOREM LimiterKeepsItsWord == RateLimitSpec => []LimiterIsExact
<1>1. InboundInv => LimiterIsExact
  BY DEF InboundInv, GrantsAreExact, LimiterIsExact
<1> QED
  BY <1>1, InboundInvariance, PTL
=============================================================================
