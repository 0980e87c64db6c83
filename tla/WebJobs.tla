------------------------------ MODULE WebJobs ------------------------------
(***************************************************************************)
(* The web server's job queue: the SQLite ledger (job_store.py), the one   *)
(* worker thread and the API threads of JobManager (job_manager.py), the   *)
(* child process it supervises (process_runner.py), the manager singleton  *)
(* and server lifespan (web_job_service.py, main.py).                      *)
(*                                                                         *)
(* One action is one SQLite transaction, one operation on an Event, or one *)
(* step of the child.  A server process can crash at any point; children   *)
(* run in a session of their own and survive it as orphans.                *)
(* The worker polls with a timeout, so the wake-up Event changes only how  *)
(* soon it looks and is left out.                                          *)
(*                                                                         *)
(* A faulty variant of an operation can stand in front of it; only the     *)
(* properties' sensitivity checks use those.                               *)
(***************************************************************************)
EXTENDS Integers, FiniteSets

CONSTANTS
  Caller,     \* API threads that cancel a job, one request each
  MaxJob,     \* bound on the jobs ever created
  MaxQueued,  \* max_queued of the manager
  MaxFault,   \* bound on failing store calls of start() and the worker
  MaxCrash,   \* bound on crashes of the server process
  MaxStop     \* bound on orderly shutdowns

ASSUME WebJobsAssumption ==
  /\ IsFiniteSet(Caller)
  /\ MaxJob \in Nat /\ MaxQueued \in Nat \ {0}
  /\ MaxFault \in Nat /\ MaxCrash \in Nat /\ MaxStop \in Nat

(* Jobs are numbered in the order of created_at.                           *)
Job == 1..MaxJob
NoJob == 0

Terminal == {"completed", "failed", "cancelled", "timed_out", "interrupted"}
Status == {"absent", "queued", "running", "pruned"} \cup Terminal
WorkerStep == {"dead", "top", "clear", "publish", "recheck", "profile",
               "spawn", "pid", "poll", "watch", "deadline", "judge",
               "record", "fail", "unpublish", "reset"}
Watching == {"poll", "watch", "deadline"}

VARIABLES
  \* the ledger and the operating system: survive the server
  status,       \* column status, by job
  cancelReq,    \* column cancel_requested
  child,        \* the CLI process of a job
  \* one server process
  server,       \* progress of start-up and lifespan
  locked,       \* this server holds the worker.lock file
  stop,         \* self._stop
  activeCancel, \* self._active_cancel
  activeId,     \* self._active_id
  worker,       \* where the worker thread is, "dead" if there is none
  job,          \* the job the worker has claimed
  result,       \* what run_process() returned
  caller,       \* where each API thread is
  target,       \* the job each API thread cancels
  \* bounds
  faults, crashes, stops

ledger == <<status, cancelReq>>
events == <<stop, activeCancel, activeId>>
workerVars == <<worker, job, result>>
callerVars == <<caller, target>>
bounds == <<faults, crashes, stops>>
vars == <<ledger, child, server, locked, events, workerVars, callerVars,
          bounds>>

Rows(s) == {j \in Job : status[j] = s}

Init ==
  /\ status = [j \in Job |-> "absent"]
  /\ cancelReq = [j \in Job |-> FALSE]
  /\ child = [j \in Job |-> "none"]
  /\ server = "down"
  /\ locked = FALSE
  /\ stop = FALSE /\ activeCancel = FALSE /\ activeId = NoJob
  /\ worker = "dead" /\ job = NoJob /\ result = "none"
  /\ caller = [k \in Caller |-> "idle"]
  /\ target = [k \in Caller |-> NoJob]
  /\ faults = 0 /\ crashes = 0 /\ stops = 0

WorkerGoes(step) == worker' = step

-----------------------------------------------------------------------------
(* JobStore: one transaction each.                                         *)

Recovered == [j \in Job |-> IF status[j] = "running" THEN "interrupted" ELSE status[j]]

(* prune_older_than: which finished rows are old enough is left open.      *)
Pruned(rows, old) == [j \in Job |-> IF j \in old THEN "pruned" ELSE rows[j]]

Record(j, s) == status' = [status EXCEPT ![j] = s]

-----------------------------------------------------------------------------
(* JobManager.start() and the server's life.                               *)

Started == server' = "up" /\ locked' = TRUE /\ stop' = FALSE /\ WorkerGoes("top")

StartWithoutRecovery ==
  /\ server \in {"down", "up"} /\ worker = "dead" /\ ~locked
  /\ Started
  /\ UNCHANGED <<ledger, child, activeCancel, activeId, job, result,
                 callerVars, bounds>>

(* start() of a manager without a live thread: take the lock, recover,     *)
(* prune, clear the stop flag, start the thread.  Run by the lifespan of a *)
(* new server process and, in an old one, by the next API call.  A step    *)
(* that raises gives the lock back, and a new process ends with it.  With  *)
(* a worker that has died, the lock is still open in this very process:    *)
(* flock() fails on another descriptor, start() raises, nothing changes.   *)
Start ==
  /\ server \in {"down", "up"} /\ worker = "dead" /\ ~locked
  /\ \/ /\ \E old \in SUBSET {j \in Job : Recovered[j] \in Terminal} :
            status' = Pruned(Recovered, old)
        /\ Started
        /\ UNCHANGED faults
     \/ /\ faults < MaxFault
        /\ faults' = faults + 1
        /\ status' \in {status, Recovered}
        /\ UNCHANGED <<server, locked, stop, worker>>
  /\ UNCHANGED <<cancelReq, child, activeCancel, activeId, job, result,
                 callerVars, crashes, stops>>

(* The memory of the server process is gone, its locks are released; a     *)
(* child that is alive goes on.                                            *)
ServerGone ==
  /\ server' = "down" /\ locked' = FALSE
  /\ stop' = FALSE /\ activeCancel' = FALSE /\ activeId' = NoJob
  /\ worker' = "dead" /\ job' = NoJob /\ result' = "none"
  /\ caller' = [k \in Caller |-> IF caller[k] = "idle" THEN "idle" ELSE "done"]
  /\ target' = [k \in Caller |-> NoJob]
  /\ child' = [j \in Job |-> CASE child[j] = "alive" -> "orphan"
                              [] child[j] \in {"ok", "bad"} -> "gone"
                              [] OTHER -> child[j]]
  /\ UNCHANGED <<ledger>>

Crash ==
  /\ server # "down"
  /\ crashes < MaxCrash
  /\ crashes' = crashes + 1
  /\ ServerGone
  /\ UNCHANGED <<faults, stops>>

(* shutdown_all_jobs() -> stop(), statement by statement.                  *)
StopBegin ==
  /\ server = "up"
  /\ stops < MaxStop
  /\ stops' = stops + 1
  /\ stop' = TRUE
  /\ server' = "cancelling"
  /\ UNCHANGED <<ledger, child, locked, activeCancel, activeId, workerVars,
                 callerVars, faults, crashes>>

StopCancelsActive ==
  /\ server = "cancelling"
  /\ activeCancel' = TRUE
  /\ server' = "joining"
  /\ UNCHANGED <<ledger, child, locked, stop, activeId, workerVars,
                 callerVars, bounds>>

StopWithoutJoin ==
  /\ server = "joining"
  /\ status' = Recovered
  /\ locked' = FALSE
  /\ server' = "exiting"
  /\ UNCHANGED <<cancelReq, child, events, workerVars, callerVars, bounds>>

(* The thread is joined (or dead before), what it left is recovered and    *)
(* the lock released, unless recover() raises.                             *)
StopJoined ==
  /\ server = "joining"
  /\ worker = "dead"
  /\ \/ status' = Recovered /\ locked' = FALSE /\ UNCHANGED faults
     \/ /\ faults < MaxFault
        /\ faults' = faults + 1
        /\ status' \in {status, Recovered}
        /\ UNCHANGED locked
  /\ server' = "exiting"
  /\ UNCHANGED <<cancelReq, child, events, workerVars, callerVars,
                 crashes, stops>>

(* join(timeout=10) gives up: RuntimeError out of the lifespan.            *)
StopTimeout ==
  /\ server = "joining"
  /\ worker # "dead"
  /\ server' = "exiting"
  /\ UNCHANGED <<ledger, child, locked, events, workerVars, callerVars,
                 bounds>>

(* The server process ends; its daemon thread ends with it.                *)
Exit ==
  /\ server = "exiting"
  /\ ServerGone
  /\ UNCHANGED bounds

-----------------------------------------------------------------------------
(* API threads.                                                            *)

(* JobStore.create(): count and insert in one immediate transaction.  The  *)
(* look at the thread before it, start(), may be stale by now, so a live   *)
(* worker is no guard here.                                                *)
Enqueue ==
  /\ server = "up"
  /\ Cardinality(Rows("queued")) < MaxQueued
  /\ \E j \in Rows("absent") :
       /\ \A i \in Rows("absent") : j <= i
       /\ Record(j, "queued")
  /\ UNCHANGED <<cancelReq, child, server, locked, events, workerVars,
                 callerVars, bounds>>

(* JobManager.cancel(): JobStore.cancel(), then the look at _active_id,    *)
(* then the Event, each a step of its own.                                 *)
CancelStore(k, j) ==
  /\ server = "up"
  /\ caller[k] = "idle"
  /\ status[j] \notin {"absent", "pruned"}
  /\ \/ status[j] = "queued" /\ Record(j, "cancelled") /\ UNCHANGED cancelReq
     \/ /\ status[j] = "running"
        /\ cancelReq' = [cancelReq EXCEPT ![j] = TRUE]
        /\ UNCHANGED status
     \/ status[j] \in Terminal /\ UNCHANGED ledger
  /\ caller' = [caller EXCEPT ![k] = "check"]
  /\ target' = [target EXCEPT ![k] = j]
  /\ UNCHANGED <<child, server, locked, events, workerVars, bounds>>

CancelCheck(k) ==
  /\ caller[k] = "check"
  /\ caller' = [caller EXCEPT ![k] = IF activeId = target[k] THEN "set" ELSE "done"]
  /\ UNCHANGED <<ledger, child, server, locked, events, workerVars, target,
                 bounds>>

CancelSet(k) ==
  /\ caller[k] = "set"
  /\ caller' = [caller EXCEPT ![k] = "done"]
  /\ activeCancel' = TRUE
  /\ UNCHANGED <<ledger, child, server, locked, stop, activeId, workerVars,
                 target, bounds>>

-----------------------------------------------------------------------------
(* The worker thread, JobManager._work() with run_process() inside.        *)

idleWorld == <<server, locked, callerVars, crashes, stops>>

(* JobStore commits a change and reads the row back on a new connection:   *)
(* a call that raises may or may not have had its effect.  Outside the try *)
(* block that kills the thread, inside it the except branch runs.          *)
StoreFails(step) ==
  /\ faults < MaxFault
  /\ faults' = faults + 1
  /\ WorkerGoes(step)

StoreWorks(step) == WorkerGoes(step) /\ UNCHANGED faults

LeaveLoop ==
  /\ worker = "top"
  /\ stop
  /\ WorkerGoes("dead")
  /\ UNCHANGED <<ledger, child, events, job, result, faults, idleWorld>>

(* claim_next(): refuses while a row is running, takes the oldest.         *)
Claim ==
  /\ worker = "top"
  /\ ~stop
  /\ \/ /\ Rows("running") = {}
        /\ \E j \in Rows("queued") :
             /\ \A i \in Rows("queued") : j <= i
             /\ Record(j, "running")
             /\ job' = j
        /\ StoreWorks("clear") \/ StoreFails("dead")
     \/ StoreFails("dead") /\ UNCHANGED <<status, job>>
  /\ UNCHANGED <<cancelReq, child, events, result, idleWorld>>

ClearCancel ==
  /\ worker = "clear"
  /\ activeCancel' = FALSE
  /\ WorkerGoes("publish")
  /\ UNCHANGED <<ledger, child, stop, activeId, job, result, faults, idleWorld>>

PublishActive ==
  /\ worker = "publish"
  /\ activeId' = job
  /\ WorkerGoes("recheck")
  /\ UNCHANGED <<ledger, child, stop, activeCancel, job, result, faults, idleWorld>>

SkipRecheck ==
  /\ worker = "recheck"
  /\ WorkerGoes("profile")
  /\ UNCHANGED <<ledger, child, events, job, result, faults, idleWorld>>

RecheckWithoutUpdate ==
  /\ worker = "recheck"
  /\ IF cancelReq[job]
     THEN activeId' = NoJob /\ WorkerGoes("top")
     ELSE WorkerGoes("profile") /\ UNCHANGED activeId
  /\ UNCHANGED <<ledger, child, stop, activeCancel, job, result, faults, idleWorld>>

(* cancel_requested is read again once _active_id is visible: get() and,   *)
(* for a cancelled job, update().                                          *)
Recheck ==
  /\ worker = "recheck"
  /\ \/ ~cancelReq[job] /\ StoreWorks("profile") /\ UNCHANGED <<status, activeId>>
     \/ /\ cancelReq[job]
        /\ Record(job, "cancelled")
        /\ \/ StoreWorks("top") /\ activeId' = NoJob
           \/ StoreFails("dead") /\ UNCHANGED activeId
     \/ StoreFails("dead") /\ UNCHANGED <<status, activeId>>
  /\ UNCHANGED <<cancelReq, child, stop, activeCancel, job, result, idleWorld>>

(* The runner profile may have changed while the job was queued.           *)
SelectProfile ==
  /\ worker = "profile"
  /\ \E step \in {"spawn", "fail"} : WorkerGoes(step)
  /\ UNCHANGED <<ledger, child, events, job, result, faults, idleWorld>>

(* Popen(), which can fail.                                                *)
Spawn ==
  /\ worker = "spawn"
  /\ UNCHANGED <<ledger, events, job, result, faults, idleWorld>>
  /\ \/ child' = [child EXCEPT ![job] = "alive"] /\ WorkerGoes("pid")
     \/ UNCHANGED child /\ WorkerGoes("fail")

FailKeepingChild ==
  /\ worker = "pid"
  /\ StoreWorks("poll") \/ StoreFails("fail")
  /\ UNCHANGED <<ledger, child, events, job, result, idleWorld>>

ChildGone == child' = [child EXCEPT ![job] = "gone"]

(* on_start stores the pid; if that raises, the child is terminated.       *)
StorePid ==
  /\ worker = "pid"
  /\ \/ StoreWorks("poll") /\ UNCHANGED child
     \/ StoreFails("fail") /\ ChildGone
  /\ UNCHANGED <<ledger, events, job, result, idleWorld>>

(* The supervision loop: poll(), the Event, the deadline.                  *)
PollExitedWithoutStatus ==
  /\ worker = "poll"
  /\ child[job] \in {"ok", "bad"}
  /\ ChildGone
  /\ WorkerGoes("judge")
  /\ UNCHANGED <<ledger, events, job, result, faults, idleWorld>>

PollExited ==
  /\ worker = "poll"
  /\ child[job] \in {"ok", "bad"}
  /\ ChildGone
  /\ result' = IF child[job] = "ok" THEN "completed" ELSE "failed"
  /\ WorkerGoes("judge")
  /\ UNCHANGED <<ledger, events, job, faults, idleWorld>>

PollAlive ==
  /\ worker = "poll"
  /\ child[job] = "alive"
  /\ WorkerGoes("watch")
  /\ UNCHANGED <<ledger, child, events, job, result, faults, idleWorld>>

(* terminate_group(): SIGTERM, SIGKILL, wait(); no matter whether the      *)
(* child has ended by itself since poll().                                 *)
Terminate(reason) == ChildGone /\ result' = reason /\ WorkerGoes("judge")

WatchCancelled ==
  /\ worker = "watch"
  /\ activeCancel
  /\ Terminate("cancelled")
  /\ UNCHANGED <<ledger, events, job, faults, idleWorld>>

WatchGoesOn ==
  /\ worker = "watch"
  /\ ~activeCancel
  /\ WorkerGoes("deadline")
  /\ UNCHANGED <<ledger, child, events, job, result, faults, idleWorld>>

DeadlinePassed ==
  /\ worker = "deadline"
  /\ Terminate("timed_out")
  /\ UNCHANGED <<ledger, events, job, faults, idleWorld>>

DeadlineAhead ==
  /\ worker = "deadline"
  /\ WorkerGoes("poll")
  /\ UNCHANGED <<ledger, child, events, job, result, faults, idleWorld>>

(* Cancelled by the shutdown and not by a request: interrupted.  The row   *)
(* is read only if the first two conditions hold.                          *)
Judge ==
  /\ worker = "judge"
  /\ \/ /\ result' = IF stop /\ result = "cancelled" /\ ~cancelReq[job]
                     THEN "interrupted" ELSE result
        /\ StoreWorks("record")
     \/ stop /\ result = "cancelled" /\ StoreFails("fail") /\ UNCHANGED result
  /\ UNCHANGED <<ledger, child, events, job, idleWorld>>

RecordResult ==
  /\ worker = "record"
  /\ \/ Record(job, result) /\ (StoreWorks("unpublish") \/ StoreFails("fail"))
     \/ StoreFails("fail") /\ UNCHANGED status
  /\ UNCHANGED <<cancelReq, child, events, job, result, idleWorld>>

(* The except branch; if its own update raises, the finally block runs and *)
(* the thread dies.                                                        *)
RecordFailed ==
  /\ worker = "fail"
  /\ \/ Record(job, "failed") /\ StoreWorks("unpublish") /\ UNCHANGED events
     \/ /\ Record(job, "failed") \/ UNCHANGED status
        /\ StoreFails("dead")
        /\ activeId' = NoJob /\ activeCancel' = FALSE
        /\ UNCHANGED stop
  /\ UNCHANGED <<cancelReq, child, job, result, idleWorld>>

Unpublish ==
  /\ worker = "unpublish"
  /\ activeId' = NoJob
  /\ WorkerGoes("reset")
  /\ UNCHANGED <<ledger, child, stop, activeCancel, job, result, faults, idleWorld>>

ResetCancel ==
  /\ worker = "reset"
  /\ activeCancel' = FALSE
  /\ job' = NoJob /\ result' = "none"
  /\ WorkerGoes("top")
  /\ UNCHANGED <<ledger, child, stop, activeId, faults, idleWorld>>

(* The benchmark ends by itself, in good order or not.                     *)
ChildExits(j) ==
  /\ \/ /\ child[j] = "alive"
        /\ \E end \in {"ok", "bad"} : child' = [child EXCEPT ![j] = end]
     \/ child[j] = "orphan" /\ child' = [child EXCEPT ![j] = "gone"]
  /\ UNCHANGED <<ledger, server, locked, events, workerVars, callerVars,
                 bounds>>

-----------------------------------------------------------------------------
WorkerNext ==
  \/ LeaveLoop \/ Claim \/ ClearCancel \/ PublishActive \/ Recheck
  \/ SelectProfile \/ Spawn \/ StorePid
  \/ PollExited \/ PollAlive
  \/ WatchCancelled \/ WatchGoesOn \/ DeadlinePassed \/ DeadlineAhead
  \/ Judge \/ RecordResult \/ RecordFailed \/ Unpublish \/ ResetCancel

CallerNext(k) == CancelCheck(k) \/ CancelSet(k)

Next ==
  \/ Start \/ Crash
  \/ StopBegin \/ StopCancelsActive \/ StopJoined \/ StopTimeout \/ Exit
  \/ Enqueue
  \/ \E k \in Caller : CallerNext(k) \/ \E j \in Job : CancelStore(k, j)
  \/ WorkerNext
  \/ \E j \in Job : ChildExits(j)

Spec == Init /\ [][Next]_vars

(* Threads run, whether or not a store call fails now and then, and a      *)
(* server is started.  Nothing is assumed of users, of benchmarks, or of   *)
(* the deadline: timeout_sec is hours.                                     *)
FairSpec ==
  /\ Spec
  /\ WF_vars(Start)
  /\ WF_vars(WorkerNext /\ UNCHANGED faults)
  /\ \A k \in Caller : WF_vars(CallerNext(k))

-----------------------------------------------------------------------------
(* Every variable stays in its type.                                       *)
TypeOK ==
  /\ status \in [Job -> Status]
  /\ cancelReq \in [Job -> BOOLEAN]
  /\ child \in [Job -> {"none", "alive", "ok", "bad", "gone", "orphan"}]
  /\ server \in {"down", "up", "cancelling", "joining", "exiting"}
  /\ locked \in BOOLEAN /\ stop \in BOOLEAN /\ activeCancel \in BOOLEAN
  /\ activeId \in Job \cup {NoJob}
  /\ worker \in WorkerStep
  /\ job \in Job \cup {NoJob}
  /\ result \in {"none"} \cup Terminal
  /\ caller \in [Caller -> {"idle", "check", "set", "done"}]
  /\ target \in [Caller -> Job \cup {NoJob}]
  /\ faults \in 0..MaxFault /\ crashes \in 0..MaxCrash /\ stops \in 0..MaxStop

(* While this server supervises a child, its row says running and names    *)
(* the worker's job: no cancel, stop or recovery gives a terminal status   *)
(* to a job whose benchmark still occupies the device.                     *)
ChildIsRunning ==
  \A j \in Job : child[j] \in {"alive", "ok", "bad"} =>
    status[j] = "running" /\ job = j

(* A worker that looks for work finds no row left running, which would     *)
(* make claim_next() refuse for ever: every way out of a job and every     *)
(* recovery settles the row, whatever crashed or failed before.            *)
QueueNotBlocked == worker = "top" => Rows("running") = {}

(* A finished row never changes again, except that retention removes it    *)
(* and that the worker overwrites its own record with "failed" when the    *)
(* call that stored it raised after the commit.  A late cancel, the        *)
(* shutdown's recovery, or a worker that outlived the join cannot rewrite  *)
(* an outcome.                                                             *)
TerminalIsFinal ==
  [][\A j \in Job : status[j] \in Terminal =>
       \/ status'[j] \in {status[j], "pruned"}
       \/ worker = "fail" /\ job = j /\ status'[j] = "failed"]_vars

(* Nobody stops the server and the ledger does not fail: a worker that a   *)
(* sqlite error has ended is not replaced.  The server may still crash.    *)
Undisturbed == [](faults = 0 /\ stops = 0)

(* Without shutdown a cancel request reaches the running benchmark, even   *)
(* if it fell between the claim and the publication of _active_id.         *)
CancelReaches ==
  Undisturbed =>
    \A j \in Job :
      cancelReq[j] /\ status[j] = "running" ~> status[j] # "running"

(* A job that waits in the queue for ever waits for a benchmark that never *)
(* ends, and for nothing else.                                             *)
QueueMoves ==
  Undisturbed =>
    \A j \in Job : <>[](status[j] = "queued") => <>[](worker \in Watching)

(* Running and queued jobs "can be cancelled independently"                *)
(* (test_job_manager.py): a job ends cancelled only if somebody asked for  *)
(* that job.                                                               *)
CancelledOnRequest ==
  \A j \in Job : status[j] = "cancelled" =>
    cancelReq[j] \/ child[j] = "none"

(* The lifespan says that an orderly shutdown cleans up the running        *)
(* benchmark "to prevent orphan GPU processes": while stop() waits for a   *)
(* worker that watches a benchmark, the request to terminate it stands.    *)
ShutdownReachesChild ==
  server = "joining" /\ worker \in Watching /\ child[job] = "alive" => activeCancel

(* What users rely on: jobs run in order and one at a time, a row is       *)
(* settled behind its benchmark and says how that ended, and stays so.  A  *)
(* worker is in charge from claim_next() to the finally block; it looks at *)
(* the result of run_process() until it has tried to record it.            *)
Contract ==
  INSTANCE JobContract WITH
    row <- status, asked <- cancelReq,
    current <- IF worker \in {"dead", "top"} THEN NoJob ELSE job,
    device <- [j \in Job |-> CASE child[j] = "alive" -> "busy"
                               [] child[j] = "ok" -> "good"
                               [] child[j] = "bad" -> "bad"
                               [] OTHER -> "free"],
    verdict <- IF worker \in {"judge", "record"} THEN result ELSE "none"
ImplementsContract == Contract!Spec
=============================================================================
