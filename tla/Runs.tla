-------------------------------- MODULE Runs --------------------------------
(***************************************************************************)
(* Runs and the scheduled tasks that open them (pipeline_run.py,           *)
(* ingest/runs.py).  A task is one process: it clears what earlier         *)
(* processes left behind, then runs the stages of its chain one after the  *)
(* other, each against an ingest_run row of its own, and tells its         *)
(* deadman how that ended.  The API process opens runs too, one background *)
(* stage per admin request, with no chain and no deadman.                  *)
(*                                                                         *)
(* A row and the process that works on it are two things: a cleanup        *)
(* relabels the row of a process it cannot stop, and a dead process leaves *)
(* its row behind.  What a stage does is left out; what remains of it is   *)
(* that it beats, stops beating, comes to a verdict, raises or dies.       *)
(***************************************************************************)
EXTENDS Naturals, FiniteSets

CONSTANTS
    Tasks,      \* the scheduled tasks: daily, hourly, sweep, providers, notify, digests
    Stages,     \* how many stages each task chains
    MaxRuns     \* bound: run rows ever opened

ASSUME RunsAssumption ==
    /\ Stages \in [Tasks -> Nat \ {0}]
    /\ MaxRuns \in Nat

VARIABLES
    opened,     \* run rows opened so far; the rows are 1..opened
    status,     \* ingest_run.status, "none" for a row not opened yet
    heard,      \* the rows whose last_progress_at is set
    silent,     \* the rows whose last sign of life is older than ingest_stale_run_minutes
    runner,     \* the stage runner at work on each row; how it ended, once it has
    task,       \* each task's process: its program counter and locals
    report,     \* what the deadman heard of each task's last invocation
    before,     \* the runs a run's own invocation had opened before it
    api         \* whether the API process is up

rowVars == <<opened, status, heard, silent, before>>
vars    == <<rowVars, runner, task, report, api>>

Runs == 1..MaxRuns

\* Locals of run_daily and the others: the runs opened so far, the stage at hand and
\* its run.
Idle == [pc |-> "idle", stage |-> 0, run |-> 0, runs |-> {}]

TypeOK ==
    /\ opened \in 0..MaxRuns
    /\ status \in [Runs -> {"none", "running", "succeeded", "failed", "cancelled"}]
    /\ heard \subseteq Runs /\ silent \subseteq Runs
    /\ runner \in [Runs -> {"none", "working", "failing", "succeeded", "failed",
                            "raised", "dead"}]
    /\ task \in [Tasks -> [pc : {"idle", "clear", "open", "await"}, stage : Nat,
                           run : 0..MaxRuns, runs : SUBSET Runs]]
    /\ \A t \in Tasks : task[t].stage <= Stages[t]
    /\ report \in [Tasks -> {"none", "up", "down"}]
    /\ before \in [Runs -> SUBSET Runs]
    /\ api \in BOOLEAN

Init ==
    /\ opened = 0
    /\ status = [r \in Runs |-> "none"]
    /\ heard = {} /\ silent = {}
    /\ runner = [r \in Runs |-> "none"]
    /\ task = [t \in Tasks |-> Idle]
    /\ report = [t \in Tasks |-> "none"]
    /\ before = [r \in Runs |-> {}]
    /\ api = FALSE
-----------------------------------------------------------------------------
(***************************************************************************)
(* The rows.                                                               *)
(***************************************************************************)

\* create_run and its commit; `earlier` are the runs of the same invocation.
OpenRow(earlier) ==
    LET r == opened + 1
    IN  /\ opened < MaxRuns
        /\ opened' = r
        /\ status' = [status EXCEPT ![r] = "running"]
        /\ runner' = [runner EXCEPT ![r] = "working"]
        /\ before' = [before EXCEPT ![r] = earlier]
        /\ UNCHANGED <<heard, silent>>

\* Mutation: a row that never beat has no last_progress_at to compare.
StaleHeard(r) == status[r] = "running" /\ r \in silent /\ r \in heard

\* The rows mark_stale_runs_cancelled picks: COALESCE(last_progress_at, started_at).
Stale(r) == status[r] = "running" /\ r \in silent

CancelStaleRuns ==
    /\ status' = [r \in Runs |-> IF Stale(r) THEN "cancelled" ELSE status[r]]
    /\ UNCHANGED <<opened, heard, silent, before, runner>>

\* finalize_run, whatever the row says by now.
WriteVerdict(r, verdict) == status' = [status EXCEPT ![r] = verdict]

\* The window passes without a sign of life, the process working or not.  Of a row that
\* is closed nobody asks.
GoSilent(r) ==
    /\ status[r] = "running" /\ r \notin silent
    /\ silent' = silent \cup {r}
    /\ UNCHANGED <<opened, status, heard, before, runner, task, report, api>>
-----------------------------------------------------------------------------
(***************************************************************************)
(* The stage runner of run r.                                              *)
(***************************************************************************)

\* record_progress, touch_run: on the row whatever its status.
Beat(r) ==
    /\ runner[r] = "working"
    /\ heard' = heard \cup {r}
    /\ silent' = silent \ {r}
    /\ UNCHANGED <<opened, status, before, runner, task, report, api>>

\* The stage comes to a verdict of its own: its guard gave up, its feed blocked it, it
\* produced nothing at all; or it passed.
Finalize(r, verdict) ==
    /\ runner[r] = "working"
    /\ WriteVerdict(r, verdict)
    /\ runner' = [runner EXCEPT ![r] = verdict]
    /\ UNCHANGED <<opened, heard, silent, before, task, report, api>>

\* Anything raises inside the runner's try, the verdict's own write included.
StageRaises(r) ==
    /\ runner[r] = "working"
    /\ runner' = [runner EXCEPT ![r] = "failing"]
    /\ UNCHANGED <<rowVars, task, report, api>>

\* _finalize_failed.
FinalizeFailed(r) ==
    /\ runner[r] = "failing"
    /\ WriteVerdict(r, "failed")
    /\ runner' = [runner EXCEPT ![r] = "failed"]
    /\ UNCHANGED <<opened, heard, silent, before, task, report, api>>

\* _finalize_failed raises in its turn: the row stays as it is, and the exception goes
\* to whoever awaits the runner.
FinalizeRaises(r) ==
    /\ runner[r] = "failing"
    /\ runner' = [runner EXCEPT ![r] = "raised"]
    /\ UNCHANGED <<rowVars, task, report, api>>
-----------------------------------------------------------------------------
(***************************************************************************)
(* A scheduled task.                                                       *)
(***************************************************************************)

\* The scheduler starts the process.
Start(t) ==
    /\ task[t].pc = "idle"
    /\ task' = [task EXCEPT ![t] = [Idle EXCEPT !.pc = "clear"]]
    /\ report' = [report EXCEPT ![t] = "none"]
    /\ UNCHANGED <<rowVars, runner, api>>

\* _clear_stale_runs.
ClearStale(t) ==
    /\ task[t].pc = "clear"
    /\ CancelStaleRuns
    /\ task' = [task EXCEPT ![t].pc = "open"]
    /\ UNCHANGED <<report, api>>

\* It fails, is logged, and costs the pipeline nothing.
ClearStaleFails(t) ==
    /\ task[t].pc = "clear"
    /\ task' = [task EXCEPT ![t].pc = "open"]
    /\ UNCHANGED <<rowVars, runner, report, api>>

\* _run_tracked_stage opens the run of the next stage and awaits its runner.
OpenRun(t) ==
    /\ task[t].pc = "open"
    /\ OpenRow(task[t].runs)
    /\ task' = [task EXCEPT ![t] = [pc |-> "await", stage |-> @.stage + 1,
                                    run |-> opened', runs |-> @.runs \cup {opened'}]]
    /\ UNCHANGED <<report, api>>

\* The deadman hears `word`, or the ping is lost: it is best effort.
Tell(t, word) ==
    /\ report' \in {[report EXCEPT ![t] = word], report}
    /\ task' = [task EXCEPT ![t].pc = "idle"]

\* Read back from the row, not taken from the runner.
Passed(r) == status[r] = "succeeded"

ChainGoesOn(t) == task[t].stage < Stages[t]

RunnerReturned(t) == task[t].pc = "await" /\ runner[task[t].run] \in {"succeeded", "failed"}

\* The stage passed and is not the last.
NextStage(t) ==
    /\ RunnerReturned(t)
    /\ Passed(task[t].run) /\ ChainGoesOn(t)
    /\ task' = [task EXCEPT ![t].pc = "open"]
    /\ UNCHANGED <<rowVars, runner, report, api>>

\* Mutation: the last stage is not looked at.
ReportUpUnread(t) ==
    /\ RunnerReturned(t)
    /\ ~ ChainGoesOn(t)
    /\ Tell(t, "up")
    /\ UNCHANGED <<rowVars, runner, api>>

\* The last stage passed: _ping_up.
ReportUp(t) ==
    /\ RunnerReturned(t)
    /\ Passed(task[t].run) /\ ~ ChainGoesOn(t)
    /\ Tell(t, "up")
    /\ UNCHANGED <<rowVars, runner, api>>

\* The stage did not pass: the rest of the chain is dropped.
ReportDown(t) ==
    /\ RunnerReturned(t)
    /\ ~ Passed(task[t].run)
    /\ Tell(t, "down")
    /\ UNCHANGED <<rowVars, runner, api>>

\* _pings_down_on_crash: the insert of the run or the read-back raises, or the runner's
\* exception escapes.
TaskRaises(t) ==
    /\ \/ task[t].pc = "open"
       \/ RunnerReturned(t)
       \/ task[t].pc = "await" /\ runner[task[t].run] = "raised"
    /\ Tell(t, "down")
    /\ UNCHANGED <<rowVars, runner, api>>

Alive(r) == runner[r] \in {"working", "failing"}

\* The runners of a set of rows die with their process.
Dead(S) == [r \in Runs |-> IF r \in S /\ Alive(r) THEN "dead" ELSE runner[r]]

\* The process dies and says nothing; the row of its stage stays as it is.
Kill(t) ==
    /\ task[t].pc # "idle"
    /\ runner' = Dead({task[t].run})
    /\ task' = [task EXCEPT ![t] = Idle]
    /\ UNCHANGED <<rowVars, report, api>>
-----------------------------------------------------------------------------
(***************************************************************************)
(* The API process.                                                        *)
(***************************************************************************)

\* The lifespan cancels what is stale before it serves.
StartApi ==
    /\ ~ api
    /\ CancelStaleRuns
    /\ api' = TRUE
    /\ UNCHANGED <<task, report>>

\* routers/ingest_admin.py: open a run, spawn its runner, return.
Trigger ==
    /\ api
    /\ OpenRow({})
    /\ UNCHANGED <<task, report, api>>

\* Runs no task has on its list are the API's.
OfTask(r) == \E t \in Tasks : task[t].pc = "await" /\ task[t].run = r

\* A deploy or a crash ends the process and its background stages.
StopApi ==
    /\ api
    /\ runner' = Dead({r \in Runs : ~ OfTask(r)})
    /\ api' = FALSE
    /\ UNCHANGED <<rowVars, task, report>>
-----------------------------------------------------------------------------
RunnerStep(r) ==
    \/ \E verdict \in {"succeeded", "failed"} : Finalize(r, verdict)
    \/ StageRaises(r)
    \/ FinalizeFailed(r)
    \/ FinalizeRaises(r)

TaskStep(t) ==
    \/ Start(t)
    \/ ClearStale(t)
    \/ ClearStaleFails(t)
    \/ OpenRun(t)
    \/ NextStage(t)
    \/ ReportUp(t)
    \/ ReportDown(t)
    \/ TaskRaises(t)

Next ==
    \/ \E r \in Runs : RunnerStep(r)
    \/ \E r \in Runs : Beat(r)
    \/ \E r \in Runs : GoSilent(r)
    \/ \E t \in Tasks : TaskStep(t)
    \/ \E t \in Tasks : Kill(t)
    \/ StartApi
    \/ Trigger
    \/ StopApi

Spec == Init /\ [][Next]_vars

\* A process that lives keeps going, the scheduler keeps starting tasks, time passes for
\* a row nobody works on, and the cleanup does not fail for ever.
FairSpec ==
    /\ Spec
    /\ \A r \in Runs : WF_vars(RunnerStep(r)) /\ WF_vars(~ Alive(r) /\ GoSilent(r))
    /\ \A t \in Tasks : WF_vars(TaskStep(t)) /\ SF_vars(ClearStale(t))
-----------------------------------------------------------------------------
(***************************************************************************)
(* Properties.                                                             *)
(***************************************************************************)

\* The verdict a stage came to is what its row says, for good: a cleanup that had taken
\* the live run for an orphan is overwritten, and none overwrites the verdict
\* (finalize_run is unconditional, mark_stale_runs_cancelled is not).
VerdictStands ==
    \A r \in Runs : runner[r] \in {"succeeded", "failed"} => status[r] = runner[r]

\* The chain is fail-fast: by the time a stage opens, every earlier stage of the same
\* invocation has returned and its row says, and will always say, that it succeeded:
\* synthesize never summarizes what link left half linked (run_daily).
ChainIsFailFast ==
    \A r \in Runs, q \in Runs :
        q \in before[r] => runner[q] = "succeeded" /\ status[q] = "succeeded"

\* A deadman that heard "up" vouches for every stage of the chain (run_daily, _ping_up).
GreenMeansDone ==
    \A t \in Tasks : report[t] = "up" =>
        /\ Cardinality(task[t].runs) = Stages[t]
        /\ \A r \in task[t].runs : status[r] = "succeeded"

\* What the tables and the deadman say of an invocation is what happened, whichever processes
\* were relabelled, killed or lost their pings on the way.
RowsTellTheTruth == VerdictStands /\ ChainIsFailFast /\ GreenMeansDone

\* A row never stays `running` for ever, whichever process died when and however early
\* (mark_stale_runs_cancelled; the phantom row of a run that died before its first item).
RunningEnds ==
    \A r \in Runs : status[r] = "running" ~> status[r] # "running"
=============================================================================
