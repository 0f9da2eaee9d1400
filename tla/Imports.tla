------------------------------- MODULE Imports -------------------------------
(***************************************************************************)
(* Watchlist imports (ingest/imports, routers/imports.py,                  *)
(* routers/imports_tmdb.py), the review list they end at, and the follows  *)
(* a confirm of it writes. A request is a transaction that may be waiting  *)
(* for a row lock; a runner is a task nothing awaits; a restart ends both. *)
(***************************************************************************)
EXTENDS Naturals, FiniteSets

CONSTANTS
    Importers, Jobs, Films, Tokens,
    ImportRequests, \* requests served at the same time
    NoOne, NoToken, \* no user, no token
    MaxRows,        \* bound: rows of an upload or a watchlist
    MaxRestarts     \* bound: restarts of the process

ASSUME ImportsAssumption ==
    /\ NoOne \notin Importers /\ NoToken \notin Tokens
    /\ MaxRows \in Nat /\ MaxRestarts \in Nat

VARIABLES
    job,            \* app.import_job
    cand,           \* app.import_candidate, per job
    follow,         \* app.follow, title rows: where the follow came from
    held,           \* catalog.film: none, in the alert window, out of it
    entitled,       \* users with a live grant
    task,           \* the runner of a job
    import,         \* requests being served
    token,          \* app.tmdb_auth_request; a spent row is gone, its user history
    tmdbSession,    \* the TMDB session a token was exchanged for
    restarts,
    kept            \* history: the films a confirm of the job kept

imports == <<job, cand, follow, held, entitled, task, import, token, tmdbSession, restarts, kept>>

Sources == {"letterboxd", "tmdb"}
Active == {"queued", "running", "awaiting_review"}
Statuses == Active \cup {"absent", "succeeded", "failed"}

NoJob == [user |-> NoOne, source |-> "letterboxd", status |-> "absent",
          total |-> 0, done |-> 0, created |-> 0, follows |-> 0]
NoTask == [at |-> "gone", total |-> 0, done |-> 0, created |-> 0, token |-> NoToken]
NoRequest == [at |-> "idle", user |-> NoOne, token |-> NoToken, list |-> {}, locks |-> {}, ticked |-> {}]

JobStates == [user : Importers \cup {NoOne}, source : Sources, status : Statuses,
              total : 0..MaxRows, done : 0..MaxRows, created : 0..MaxRows, follows : 0..MaxRows]
TaskStates == [at : {"gone", "spawned", "listing", "rows", "closing", "failing", "failed"},
               total : 0..MaxRows, done : 0..MaxRows, created : 0..MaxRows,
               token : Tokens \cup {NoToken}]
ImportStates == [at : {"idle", "spend", "exchange", "account", "discard", "check", "insert",
                       "undo", "confirm"},
                 user : Importers \cup {NoOne}, token : Tokens \cup {NoToken},
                 list : SUBSET Jobs, locks : SUBSET Jobs, ticked : SUBSET Films]
TokenStates == [st : {"unissued", "pending", "expired", "spent"}, user : Importers \cup {NoOne}]

ImportsTypeOK ==
    /\ job \in [Jobs -> JobStates]
    /\ cand \in [Jobs -> SUBSET Films]
    /\ follow \in [Importers \X Films -> Sources \cup {"none", "manual"}]
    /\ held \in [Films -> {"none", "in", "out"}]
    /\ entitled \subseteq Importers
    /\ task \in [Jobs -> TaskStates]
    /\ import \in [ImportRequests -> ImportStates]
    /\ token \in [Tokens -> TokenStates]
    /\ tmdbSession \in [Tokens -> {"none", "live", "deleted", "left", "lost"}]
    /\ restarts \in 0..MaxRestarts
    /\ kept \in [Jobs -> SUBSET Films]

ImportsInit ==
    /\ job = [j \in Jobs |-> NoJob]
    /\ cand = [j \in Jobs |-> {}]
    /\ follow = [uf \in Importers \X Films |-> "none"]
    /\ held = [f \in Films |-> "none"]
    /\ entitled = Importers
    /\ task = [j \in Jobs |-> NoTask]
    /\ import = [r \in ImportRequests |-> NoRequest]
    /\ token = [t \in Tokens |-> [st |-> "unissued", user |-> NoOne]]
    /\ tmdbSession = [t \in Tokens |-> "none"]
    /\ restarts = 0
    /\ kept = [j \in Jobs |-> {}]

Serve(r, at) == import' = [import EXCEPT ![r].at = at]
Answer(r) == import' = [import EXCEPT ![r] = NoRequest]

(***************************************************************************)
(* Entitlement.                                                            *)
(***************************************************************************)
Grant(u) ==
    /\ entitled' = entitled \cup {u}
    /\ UNCHANGED <<job, cand, follow, held, task, import, token, tmdbSession, restarts, kept>>

Revoke(u) ==
    /\ entitled' = entitled \ {u}
    /\ UNCHANGED <<job, cand, follow, held, task, import, token, tmdbSession, restarts, kept>>

(***************************************************************************)
(* TMDB's approve flow: a token bound to the user who asked for it, spent  *)
(* before it is exchanged, and a session that every way out deletes.       *)
(***************************************************************************)
StartApproval(u, t) ==
    /\ u \in entitled
    /\ token[t].st = "unissued"
    /\ token' = [s \in Tokens |-> IF s = t THEN [st |-> "pending", user |-> u]
                                  ELSE IF token[s].st = "expired" THEN [token[s] EXCEPT !.st = "spent"]
                                  ELSE token[s]]
    /\ UNCHANGED <<job, cand, follow, held, entitled, task, import, tmdbSession, restarts, kept>>

TokenExpires(t) ==
    /\ token[t].st = "pending"
    /\ token' = [token EXCEPT ![t].st = "expired"]
    /\ UNCHANGED <<job, cand, follow, held, entitled, task, import, tmdbSession, restarts, kept>>

BelongsTo(t, u) == token[t].st \in {"pending", "expired"} /\ token[t].user = u

CallbackArrives(r, u, t) ==
    /\ import[r].at = "idle"
    /\ BelongsTo(t, u)
    /\ import' = [import EXCEPT ![r] = [NoRequest EXCEPT !.at = "spend", !.user = u, !.token = t]]
    /\ UNCHANGED <<job, cand, follow, held, entitled, task, token, tmdbSession, restarts, kept>>

\* Two callbacks may both have read the row: the second deletes nothing.
Spend(r) ==
    LET t == import[r].token IN
    /\ import[r].at = "spend"
    /\ token' = [token EXCEPT ![t].st = "spent"]
    /\ \/ token[t].st # "expired" /\ Serve(r, "exchange")
       \/ Answer(r)        \* expired, or the user did not approve
    /\ UNCHANGED <<job, cand, follow, held, entitled, task, tmdbSession, restarts, kept>>

\* TMDB exchanges a token once.
Exchange(r) ==
    LET t == import[r].token IN
    /\ import[r].at = "exchange"
    /\ \/ tmdbSession[t] = "none" /\ tmdbSession' = [tmdbSession EXCEPT ![t] = "live"] /\ Serve(r, "account")
       \/ tmdbSession' = tmdbSession /\ Answer(r)
    /\ UNCHANGED <<job, cand, follow, held, entitled, task, token, restarts, kept>>

ReadAccount(r) ==
    /\ import[r].at = "account"
    /\ \/ import[r].user \in entitled /\ Serve(r, "discard")
       \/ Serve(r, "undo")   \* the grant lapsed, or TMDB failed
    /\ UNCHANGED <<job, cand, follow, held, entitled, task, token, tmdbSession, restarts, kept>>

\* One attempt to delete the session; a refusal is logged and left to TMDB.
Deleted(t) == \E to \in {"deleted", "left"} : tmdbSession' = [tmdbSession EXCEPT ![t] = to]

Undo(r) ==
    /\ import[r].at = "undo"
    /\ Deleted(import[r].token)
    /\ Answer(r)
    /\ UNCHANGED <<job, cand, follow, held, entitled, task, token, restarts, kept>>

(***************************************************************************)
(* Queueing a job: discard the list waiting on review, check, insert, all  *)
(* in one transaction.                                                     *)
(***************************************************************************)
ListLocked(j, r) == \E q \in ImportRequests \ {r} : j \in import[q].locks
Awaiting(u) == {j \in Jobs : job[j].user = u /\ job[j].status = "awaiting_review"}

UploadArrives(r, u) ==
    /\ import[r].at = "idle"
    /\ u \in entitled
    /\ import' = [import EXCEPT ![r] = [NoRequest EXCEPT !.at = "discard", !.user = u]]
    /\ UNCHANGED <<job, cand, follow, held, entitled, task, token, tmdbSession, restarts, kept>>

Discard(r) ==
    /\ import[r].at = "discard"
    /\ \A j \in Awaiting(import[r].user) : ~ListLocked(j, r)
    /\ import' = [import EXCEPT ![r].at = "check", ![r].locks = Awaiting(import[r].user)]
    /\ UNCHANGED <<job, cand, follow, held, entitled, task, token, tmdbSession, restarts, kept>>

\* The user's open jobs as the transaction sees them.
ActiveFor(r) == {j \in Jobs \ import[r].locks : job[j].user = import[r].user /\ job[j].status \in Active}

\* Mutant: a callback that is refused forgets its session.
RefuseAndForget(r) == import' = [import EXCEPT ![r] = NoRequest]

\* 409, or the unique index: the transaction rolls back, and the callback
\* still has a session to delete.
Refuse(r) ==
    IF import[r].token = NoToken THEN Answer(r) ELSE import' = [import EXCEPT ![r].at = "undo", ![r].locks = {}]

CheckActive(r) ==
    /\ import[r].at = "check"
    /\ IF ActiveFor(r) # {} THEN Refuse(r) ELSE Serve(r, "insert")
    /\ UNCHANGED <<job, cand, follow, held, entitled, task, token, tmdbSession, restarts, kept>>

\* uq_import_job_active_per_user.
IndexHolds(r) == ActiveFor(r) = {}

WithoutLists(lists) == [j \in Jobs |-> IF j \in lists THEN {} ELSE cand[j]]

Insert(r, j, total) ==
    LET q == import[r]
        source == IF q.token = NoToken THEN "letterboxd" ELSE "tmdb"
        rows == IF q.token = NoToken THEN total ELSE 0
    IN
    /\ q.at = "insert"
    /\ job[j].status = "absent"
    /\ IF ~IndexHolds(r) THEN Refuse(r) /\ UNCHANGED <<job, cand, task>>
       ELSE /\ job' = [i \in Jobs |->
                         IF i = j THEN [NoJob EXCEPT !.user = q.user, !.source = source,
                                                     !.status = "queued", !.total = rows]
                         ELSE IF i \in q.locks THEN [job[i] EXCEPT !.status = "failed"]
                         ELSE job[i]]
            /\ cand' = WithoutLists(q.locks)
            /\ task' = [task EXCEPT ![j] = [NoTask EXCEPT !.at = "spawned", !.token = q.token, !.total = rows]]
            /\ Answer(r)
    /\ UNCHANGED <<follow, held, entitled, token, tmdbSession, restarts, kept>>

(***************************************************************************)
(* The runner.                                                             *)
(***************************************************************************)
Run(j) ==
    /\ task[j].at = "spawned"
    /\ job' = [job EXCEPT ![j].status = "running"]
    /\ task' = [task EXCEPT ![j].at = IF job[j].source = "tmdb" THEN "listing" ELSE "rows"]
    /\ UNCHANGED <<cand, follow, held, entitled, import, token, tmdbSession, restarts, kept>>

\* rows_total is known once TMDB's list is read: one entry per film.
ReadList(j, total) ==
    /\ task[j].at = "listing"
    /\ job' = [job EXCEPT ![j].total = total]
    /\ task' = [task EXCEPT ![j].at = "rows", ![j].total = total]
    /\ UNCHANGED <<cand, follow, held, entitled, import, token, tmdbSession, restarts, kept>>

\* What becomes of a film TMDB knows: the stored row when it is fresh, the
\* details otherwise. A film the catalog does not hold and nobody could
\* follow is not written.
Judged(f, fresh, fetched) ==
    CASE held[f] # "none" /\ fresh -> held[f]
      [] fetched = "missing" -> held[f]
      [] held[f] = "none" /\ fetched = "out" -> "none"
      [] OTHER -> fetched

Offered(f, fresh, fetched) ==
    IF held[f] # "none" /\ fresh THEN held[f] = "in" ELSE fetched = "in"

\* Mutant: a film already on the list counts again.
CountsAlways(j, f) == 1

\* ON CONFLICT DO NOTHING RETURNING id.
Added(j, f) == IF f \in cand[j] THEN 0 ELSE 1

\* The heartbeat is throttled: a row may or may not be written through.
Reported(j, t) == [job EXCEPT ![j].done = t.done, ![j].created = t.created]

RowDone(j, t, flushed) ==
    /\ task' = [task EXCEPT ![j] = t]
    /\ job' = IF flushed THEN Reported(j, t) ELSE job
    /\ UNCHANGED <<follow, entitled, import, token, tmdbSession, restarts, kept>>

\* A title no search places, or a date the list already carries.
RowReported(j, flushed) ==
    /\ task[j].at = "rows" /\ task[j].done < task[j].total
    /\ RowDone(j, [task[j] EXCEPT !.done = @ + 1], flushed)
    /\ UNCHANGED <<cand, held>>

RowMatched(j, f, fresh, fetched, flushed) ==
    /\ task[j].at = "rows" /\ task[j].done < task[j].total
    /\ held' = [held EXCEPT ![f] = Judged(f, fresh, fetched)]
    /\ IF Offered(f, fresh, fetched)
       THEN /\ cand' = [cand EXCEPT ![j] = @ \cup {f}]
            /\ RowDone(j, [task[j] EXCEPT !.done = @ + 1, !.created = @ + Added(j, f)], flushed)
       ELSE cand' = cand /\ RowDone(j, [task[j] EXCEPT !.done = @ + 1], flushed)

Flushed(j) == Reported(j, task[j])

FinishRun(j) ==
    /\ task[j].at = "rows" /\ task[j].done = task[j].total
    /\ job' = [Flushed(j) EXCEPT ![j].status = "awaiting_review"]
    /\ task' = [task EXCEPT ![j].at = "closing"]
    /\ UNCHANGED <<cand, follow, held, entitled, import, token, tmdbSession, restarts, kept>>

\* TMDB, the database or the job row is not there.
Crash(j) ==
    /\ task[j].at \in {"spawned", "listing", "rows"}
    /\ task' = [task EXCEPT ![j].at = "failing"]
    /\ UNCHANGED <<job, cand, follow, held, entitled, import, token, tmdbSession, restarts, kept>>

\* The way out: the TMDB session is deleted, whatever the outcome. Closing the
\* client changes nothing for TMDB's runner; Letterboxd's closes it inside the
\* try, and a close that raises makes a failure of a finished run.
CloseRun(j) ==
    /\ task[j].at \in {"closing", "failing"}
    /\ LET failed == task[j].at = "failing" IN
       IF job[j].source = "tmdb"
       THEN /\ Deleted(task[j].token)
            /\ task' = [task EXCEPT ![j] = IF failed THEN [@ EXCEPT !.at = "failed"] ELSE NoTask]
       ELSE /\ tmdbSession' = tmdbSession
            /\ \E raises \in BOOLEAN :
                  task' = [task EXCEPT ![j] = IF failed \/ raises THEN [@ EXCEPT !.at = "failed"] ELSE NoTask]
    /\ UNCHANGED <<job, cand, follow, held, entitled, import, token, restarts, kept>>

\* finalize_failed, on a session of its own; the write may fail too. The row
\* lock of a request in flight is waited for.
FinalizeFailed(j) ==
    /\ task[j].at = "failed"
    /\ \/ /\ \A r \in ImportRequests : j \notin import[r].locks
          /\ job' = [job EXCEPT ![j].status = "failed"]
          /\ cand' = WithoutLists({j})
       \/ UNCHANGED <<job, cand>>
    /\ task' = [task EXCEPT ![j] = NoTask]
    /\ UNCHANGED <<follow, held, entitled, import, token, tmdbSession, restarts, kept>>

(***************************************************************************)
(* The review list.                                                        *)
(***************************************************************************)
\* SELECT ... FOR UPDATE.
LockForUser(j) == {j}

ConfirmArrives(r, u, j, films) ==
    /\ import[r].at = "idle"
    /\ u \in entitled
    /\ job[j].user = u
    /\ ~ListLocked(j, r)
    /\ job[j].status = "awaiting_review"
    /\ import' = [import EXCEPT ![r] = [at |-> "confirm", user |-> u, token |-> NoToken, list |-> {j},
                                  locks |-> LockForUser(j), ticked |-> films]]
    /\ UNCHANGED <<job, cand, follow, held, entitled, task, token, tmdbSession, restarts, kept>>

\* create_many_if_absent.
Creates(u, f, films) == f \in films /\ follow[<<u, f>>] = "none"

Confirm(r, j) ==
    LET u == import[r].user
        films == cand[j] \cap import[r].ticked
    IN
    /\ import[r].at = "confirm"
    /\ j \in import[r].list
    /\ follow' = [uf \in Importers \X Films |->
                    IF uf[1] = u /\ Creates(u, uf[2], films) THEN job[j].source ELSE follow[uf]]
    /\ job' = [job EXCEPT ![j].status = "succeeded", ![j].follows = Cardinality(films)]
    /\ cand' = WithoutLists({j})
    /\ kept' = [kept EXCEPT ![j] = films]
    /\ Answer(r)
    /\ UNCHANGED <<held, entitled, task, token, tmdbSession, restarts>>

(***************************************************************************)
(* Following by hand, and the restart.                                     *)
(***************************************************************************)
Follow(u, f) ==
    /\ u \in entitled /\ held[f] # "none" /\ follow[<<u, f>>] = "none"
    /\ follow' = [follow EXCEPT ![<<u, f>>] = "manual"]
    /\ UNCHANGED <<job, cand, held, entitled, task, import, token, tmdbSession, restarts, kept>>

Unfollow(u, f) ==
    /\ u \in entitled /\ follow[<<u, f>>] # "none"
    /\ follow' = [follow EXCEPT ![<<u, f>>] = "none"]
    /\ UNCHANGED <<job, cand, held, entitled, task, import, token, tmdbSession, restarts, kept>>

\* Tasks and requests are gone, and with them the sessions they held.
Restart ==
    /\ restarts < MaxRestarts
    /\ restarts' = restarts + 1
    /\ import' = [r \in ImportRequests |-> NoRequest]
    /\ task' = [j \in Jobs |-> NoTask]
    /\ tmdbSession' = [t \in Tokens |-> IF tmdbSession[t] = "live" THEN "lost" ELSE tmdbSession[t]]
    /\ UNCHANGED <<job, cand, follow, held, entitled, token, kept>>

ImportsNext ==
    \/ \E u \in Importers : Grant(u) \/ Revoke(u)
    \/ \E u \in Importers, t \in Tokens : StartApproval(u, t)
    \/ \E t \in Tokens : TokenExpires(t)
    \/ \E r \in ImportRequests, u \in Importers, t \in Tokens : CallbackArrives(r, u, t)
    \/ \E r \in ImportRequests : Spend(r) \/ Exchange(r) \/ ReadAccount(r) \/ Undo(r)
    \/ \E r \in ImportRequests, u \in Importers : UploadArrives(r, u)
    \/ \E r \in ImportRequests : Discard(r) \/ CheckActive(r)
    \/ \E r \in ImportRequests, j \in Jobs, total \in 0..MaxRows : Insert(r, j, total)
    \/ \E j \in Jobs : Run(j) \/ FinishRun(j) \/ Crash(j) \/ CloseRun(j) \/ FinalizeFailed(j)
    \/ \E j \in Jobs, total \in 0..MaxRows : ReadList(j, total)
    \/ \E j \in Jobs, flushed \in BOOLEAN : RowReported(j, flushed)
    \/ \E j \in Jobs, f \in Films, fresh, flushed \in BOOLEAN, fetched \in {"in", "out", "missing"} :
          RowMatched(j, f, fresh, fetched, flushed)
    \/ \E r \in ImportRequests, u \in Importers, j \in Jobs, films \in SUBSET Films : ConfirmArrives(r, u, j, films)
    \/ \E r \in ImportRequests, j \in Jobs : Confirm(r, j)
    \/ \E u \in Importers, f \in Films : Follow(u, f) \/ Unfollow(u, f)
    \/ Restart

ImportsSpec == ImportsInit /\ [][ImportsNext]_imports

(***************************************************************************)
(* Properties.                                                             *)
(***************************************************************************)
\* However uploads, callbacks, runners and confirms interleave, a user has one open import,
\* its list is the only one there is to review, and the counts agree with what is there: a
\* list under review is as long as watchlist_created, although two rows may mean one film
\* and the heartbeat skips writes, and a confirmed job counts what the user kept of it.
ListsAgree ==
    /\ ImportsTypeOK
    /\ \A i, j \in Jobs :
          job[i].user = job[j].user /\ {job[i].status, job[j].status} \subseteq Active => i = j
    /\ \A j \in Jobs :
          /\ cand[j] # {} => job[j].status \in {"running", "awaiting_review"}
          /\ job[j].status = "awaiting_review" =>
                job[j].created = Cardinality(cand[j]) /\ job[j].done = job[j].total
          /\ job[j].status = "succeeded" =>
                job[j].follows = Cardinality(kept[j]) /\ job[j].follows <= job[j].created

\* A TMDB session outlives neither a refusal nor the import it was made for:
\* while it is live, the request or the task that will delete it is running, and
\* on behalf of the user who approved it.
NoCredentialLeft ==
    \A t \in Tokens : tmdbSession[t] = "live" =>
        \E u \in Importers :
            /\ u = token[t].user
            /\ \/ \E r \in ImportRequests : import[r].token = t /\ import[r].user = u
               \/ \E j \in Jobs : task[j].token = t /\ job[j].user = u

\* app/models.py says of a job orphaned by a restart that the user's remedy is
\* the same upload: the upload then finds no job in its way that no task runs.
UploadIsTheRemedy ==
    \A r \in ImportRequests : import[r].at = "check" =>
        \A j \in ActiveFor(r) : job[j].status \in {"queued", "running"} => task[j].at # "gone"
=============================================================================
