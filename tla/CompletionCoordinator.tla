------------------------ MODULE CompletionCoordinator ------------------------
(***************************************************************************)
(* CompletionCoordinator of core/async_inference/completion.py: the ledger *)
(* of accepted requests, the bounded queue of finished batches, the one    *)
(* thread that turns a batch into terminal records, and stop(); with the   *)
(* part of engine.py that waits for a batch to be acknowledged and gives   *)
(* the execution back to the runtime executor, under the engine's          *)
(* _handoff_retirement_lock, which a stopping worker keeps while it waits. *)
(*                                                                         *)
(* One action is one critical section of self.condition, one operation on  *)
(* the queue, or one call to the metrics.  A Condition is the set of the   *)
(* threads asleep on it: only notify_all(), here NotifyAll, wakes them.    *)
(* An attempt token is part of the request: a retried attempt counts as    *)
(* another request.  The engine never has two threads submit one key at a  *)
(* time, so producer_active, which would keep them apart, is left out, and *)
(* so are submissions without a key.  The inline coordinator (no queue, no *)
(* thread) and a coordinator that was never started are left out.          *)
(*                                                                         *)
(* A faulty variant of an operation can stand in front of it; only the     *)
(* properties' sensitivity checks use those.                               *)
(***************************************************************************)
EXTENDS Integers, Sequences, FiniteSets

CONSTANTS
  Request,   \* submission attempts
  Handoff,   \* operation keys, one for each finished batch
  Producer,  \* engine workers
  Stopper,   \* the thread that calls stop()
  MaxQueue,  \* capacity of the completion queue
  MaxFault,  \* bound on calls that raise inside the completion thread
  MaxStop    \* bound on calls of stop()

Sentinel == "_STOP"
Nothing == "nothing"
Free == "free"

ASSUME CoordinatorAssumption ==
  /\ IsFiniteSet(Request) /\ IsFiniteSet(Handoff)
  /\ Stopper \notin Producer /\ Sentinel \notin Handoff
  /\ Free \notin Producer
  /\ MaxQueue \in Nat \ {0}
  /\ MaxFault \in Nat /\ MaxStop \in Nat

VARIABLES
  state,         \* self.state; thread_error is set exactly in "failed"
  reservations,  \* keys of self.reservations
  outstanding,   \* keys of self.outstanding
  record,        \* state of the terminal record of a request
  queue,         \* self.queue
  handoff,       \* state of the _CompletionHandoff of a key
  batch,         \* the requests of its completion
  asleep,        \* threads in self.condition.wait()
  \* the completion thread
  thread, item, known, current, raising, failing,
  \* the workers
  pc, mine,
  lock,          \* who has _handoff_retirement_lock across steps
  pending,       \* pending_handoffs of a worker: handed in, not retired
  deferred,      \* _deferred_worker_handoffs
  \* the caller of stop()
  stopper, stopResult,
  \* what others have seen
  recorded,      \* calls of metrics.record_terminal, by request
  released,      \* handoffs whose execution the executor got back
  faults, stops  \* bounds

ledger == <<reservations, outstanding, record>>
handoffs == <<handoff, batch>>
threadVars == <<thread, item, known, current, raising, failing>>
workerVars == <<pc, mine, lock, pending, deferred>>
stopVars == <<stopper, stopResult, stops>>
seen == <<recorded, released>>
vars == <<state, ledger, queue, handoffs, asleep, threadVars, workerVars,
          stopVars, seen, faults>>

Init ==
  /\ state = "running"
  /\ reservations = {} /\ outstanding = {}
  /\ record = [r \in Request |-> "none"]
  /\ queue = <<>>
  /\ handoff = [h \in Handoff |-> "none"]
  /\ batch = [h \in Handoff |-> {}]
  /\ asleep = {}
  /\ thread = "dequeue" /\ item = Nothing /\ known = {} /\ current = Nothing
  /\ raising = FALSE /\ failing = {}
  /\ pc = [p \in Producer |-> "idle"]
  /\ mine = [p \in Producer |-> Nothing]
  /\ lock = Free /\ pending = [p \in Producer |-> {}] /\ deferred = {}
  /\ stopper = "idle" /\ stopResult = "none"
  /\ recorded = [r \in Request |-> 0]
  /\ released = {}
  /\ faults = 0 /\ stops = 0

NotifyAll == asleep' = {}
Sleep(a) == asleep' = asleep \cup {a}
Queued(h) == \E i \in DOMAIN queue : queue[i] = h
SetRecord(r, s) == record' = [record EXCEPT ![r] = s]
SetHandoff(h, s) == handoff' = [handoff EXCEPT ![h] = s]

-----------------------------------------------------------------------------
(* Registration, called from AsyncInferenceEngine.submit().                *)

Reserve(r) ==
  /\ state = "running"
  /\ r \notin reservations \cup outstanding /\ record[r] = "none"
  /\ reservations' = reservations \cup {r}
  /\ UNCHANGED <<state, outstanding, record, queue, handoffs, asleep,
                 threadVars, workerVars, stopVars, seen, faults>>

CommitUnchecked(r) ==
  /\ r \in reservations
  /\ reservations' = reservations \ {r}
  /\ outstanding' = outstanding \cup {r}
  /\ SetRecord(r, "pending")
  /\ NotifyAll
  /\ UNCHANGED <<state, queue, handoffs, threadVars, workerVars, stopVars,
                 seen, faults>>

Commit(r) ==
  /\ state = "running"
  /\ r \in reservations
  /\ reservations' = reservations \ {r}
  /\ outstanding' = outstanding \cup {r}
  /\ SetRecord(r, "pending")
  /\ NotifyAll
  /\ UNCHANGED <<state, queue, handoffs, threadVars, workerVars, stopVars,
                 seen, faults>>

Abort(r) ==
  /\ r \in reservations
  /\ reservations' = reservations \ {r}
  /\ NotifyAll
  /\ UNCHANGED <<state, outstanding, record, queue, handoffs, threadVars,
                 workerVars, stopVars, seen, faults>>

(* unregister_rejected: for a request that no worker has got.              *)
Unregister(r) ==
  /\ r \in outstanding
  /\ \A h \in Handoff : r \notin batch[h]
  /\ outstanding' = outstanding \ {r}
  /\ record' = IF record[r] = "pending" THEN [record EXCEPT ![r] = "none"]
               ELSE record
  /\ NotifyAll
  /\ UNCHANGED <<state, reservations, queue, handoffs, threadVars, workerVars,
                 stopVars, seen, faults>>

-----------------------------------------------------------------------------
(* submit() of a worker, with an operation key.                            *)

Worker(p, step) == pc' = [pc EXCEPT ![p] = step]
Lets(p) == pc' = [pc EXCEPT ![p] = "idle"] /\ mine' = [mine EXCEPT ![p] = Nothing]
retirement == <<lock, pending, deferred>>

(* One turn of the loop of submit(), under the condition.  A submission    *)
(* that raises ends up in the worker's handler, which waits for the        *)
(* handoff like one that returned.                                         *)
Turn(p, h) ==
  LET s == IF handoff[h] = "none" THEN "ENQUEUING" ELSE handoff[h]
      over == s # "ENQUEUING" \/ Queued(h) \/ state # "running"
  IN
  /\ IF s = "ENQUEUING" /\ Queued(h)
     THEN SetHandoff(h, "ENQUEUED") /\ NotifyAll
     ELSE SetHandoff(h, s) /\ UNCHANGED asleep
  /\ Worker(p, IF over THEN "await" ELSE "put")

(* A first submission, or the same one again after an earlier attempt has  *)
(* raised or has not been acknowledged in time (_submit_failure called     *)
(* again for an unfinished drain).                                         *)
Submit(p, h, b) ==
  /\ pc[p] = "idle"
  /\ \A q \in Producer : mine[q] # h
  /\ \/ handoff[h] = "none" /\ \A r \in b : record[r] # "none"
     \/ /\ handoff[h] \notin {"none", "retired"} /\ b = batch[h]
        /\ h \notin deferred \cup UNION {pending[q] : q \in Producer}
  /\ batch' = [batch EXCEPT ![h] = b]
  /\ mine' = [mine EXCEPT ![p] = h]
  /\ Turn(p, h)
  /\ UNCHANGED <<state, ledger, queue, threadVars, retirement, stopVars,
                 seen, faults>>

WakeUp(p) ==
  /\ pc[p] = "blocked"
  /\ p \notin asleep
  /\ Turn(p, mine[p])
  /\ UNCHANGED <<state, ledger, queue, batch, threadVars, mine, retirement,
                 stopVars, seen, faults>>

(* "completion submission timed out"                                       *)
SubmitTimeout(p) ==
  /\ pc[p] = "blocked"
  /\ asleep' = asleep \ {p}
  /\ Worker(p, "await")
  /\ UNCHANGED <<state, ledger, queue, handoffs, threadVars, mine, retirement,
                 stopVars, seen, faults>>

(* queue.put(block=False), outside the condition; it may raise before or   *)
(* after it has placed the item.                                           *)
Put(p) ==
  /\ pc[p] = "put"
  /\ \/ /\ Len(queue) < MaxQueue
        /\ queue' = Append(queue, mine[p])
        /\ \/ Worker(p, "placed") /\ UNCHANGED faults
           \/ faults < MaxFault /\ faults' = faults + 1 /\ Worker(p, "raised")
     \/ /\ Len(queue) = MaxQueue
        /\ Worker(p, "full")
        /\ UNCHANGED <<queue, faults>>
     \/ /\ faults < MaxFault /\ faults' = faults + 1
        /\ Worker(p, "raised")
        /\ UNCHANGED queue
  /\ UNCHANGED <<state, ledger, handoffs, asleep, threadVars, mine, retirement,
                 stopVars, seen>>

(* queue.Full: wait for the next change.                                   *)
Full(p) ==
  /\ pc[p] = "full"
  /\ \/ state = "running" /\ Worker(p, "blocked") /\ asleep' = {p}
     \/ state # "running" /\ Worker(p, "await") /\ NotifyAll
  /\ UNCHANGED <<state, ledger, queue, handoffs, threadVars, mine, retirement,
                 stopVars, seen, faults>>

(* The thread may have taken the item, and more, before this.  After an    *)
(* exception the queue tells whether the item was placed.                  *)
Placed(p) ==
  LET h == mine[p] IN
  /\ pc[p] \in {"placed", "raised"}
  /\ handoff' = IF handoff[h] = "ENQUEUING" /\ (pc[p] = "placed" \/ Queued(h))
                THEN [handoff EXCEPT ![h] = "ENQUEUED"] ELSE handoff
  /\ NotifyAll
  /\ Worker(p, "await")
  /\ UNCHANGED <<state, ledger, queue, batch, threadVars, mine, retirement,
                 stopVars, seen, faults>>

-----------------------------------------------------------------------------
(* Acknowledgement and retirement of a handoff (completion.py and          *)
(* engine.py).                                                             *)

TerminalWhenCommitted(h) == \A r \in batch[h] : record[r] = "committed"

(* _handoff_terminal_locked                                                *)
HandoffTerminal(h) ==
  /\ handoff[h] \in {"ENQUEUING", "ENQUEUED"} => ~Queued(h) /\ state # "running"
  /\ \A r \in batch[h] : record[r] = "committed" /\ r \notin outstanding

Settled(h) ==
  \/ handoff[h] = "ACKED"
  \/ handoff[h] \in {"ENQUEUING", "ENQUEUED", "DEQUEUED"} /\ HandoffTerminal(h)

(* Settled handoffs of hs leave the ledger and their executions go back to  *)
(* the executor, under the lock.                                            *)
RetireSettled(hs, sleepers) ==
  LET done == {h \in hs : Settled(h)} IN
  /\ handoff' = [h \in Handoff |-> IF h \in done THEN "retired" ELSE handoff[h]]
  /\ released' = released \cup done
  /\ asleep' = IF done = {} THEN sleepers ELSE {}

Unsettled(hs) == {h \in hs : ~Settled(h)}

(* _retire_worker_handoffs: what is not settled stays with the worker.      *)
KeepRest(p) ==
  /\ RetireSettled(pending[p], asleep \ {p})
  /\ pending' = [pending EXCEPT ![p] = Unsettled(@)]
  /\ UNCHANGED deferred

(* _transfer_worker_handoffs_to_deferred: it is left to whoever sees it     *)
(* settled.                                                                 *)
DeferRest(p) ==
  LET hs == deferred \cup pending[p] IN
  /\ RetireSettled(hs, asleep \ {p})
  /\ deferred' = Unsettled(hs)
  /\ pending' = [pending EXCEPT ![p] = {}]

(* A worker that has handed in does not wait.  A drain, or the handler that *)
(* hands in again, whose wait times out leaves the key with the worker or   *)
(* keeps it for another attempt.                                            *)
StopWaiting(p) ==
  /\ pc[p] = "await"
  /\ Lets(p)
  /\ asleep' = asleep \ {p}
  /\ \/ pending' = [pending EXCEPT ![p] = @ \cup {mine[p]}]
     \/ UNCHANGED pending
  /\ UNCHANGED <<state, ledger, queue, handoffs, threadVars, lock, deferred,
                 stopVars, seen, faults>>

(* Before the next batch a worker retires what has settled; the rest it     *)
(* keeps or, with a native executor, transfers.                             *)
RetirePending(p) ==
  /\ pc[p] = "idle" /\ pending[p] # {}
  /\ lock = Free
  /\ KeepRest(p) \/ DeferRest(p)
  /\ UNCHANGED <<state, ledger, queue, batch, threadVars, pc, mine, lock,
                 stopVars, recorded, faults>>

(* The next handoff to wait for with the lock held, or the end of the lock. *)
WaitForOneOf(p, hs) ==
  \/ /\ hs = {}
     /\ Lets(p) /\ lock' = Free
  \/ \E h \in hs :
       /\ mine' = [mine EXCEPT ![p] = h]
       /\ Worker(p, "wait") /\ lock' = p

(* A worker that stops or has failed waits for all its handoffs, one behind *)
(* the other, without letting the lock go in between.                       *)
WaitForPending(p) ==
  /\ pc[p] = "idle" /\ pending[p] # {}
  /\ lock = Free
  /\ WaitForOneOf(p, pending[p])
  /\ UNCHANGED <<state, ledger, queue, handoffs, asleep, threadVars, pending,
                 deferred, stopVars, seen, faults>>

(* wait_for_completion_handoff(), with the lock ("wait") or without.        *)
AwaitAck(p) ==
  LET h == mine[p] IN
  /\ pc[p] \in {"await", "wait"}
  /\ p \notin asleep
  /\ \/ /\ Settled(h)
        /\ SetHandoff(h, "ACKED")
        /\ IF handoff[h] = "ACKED" THEN UNCHANGED asleep ELSE NotifyAll
        /\ Worker(p, "retire")
     \/ /\ ~Settled(h)
        /\ Sleep(p)
        /\ UNCHANGED <<pc, handoff>>
  /\ UNCHANGED <<state, ledger, queue, batch, threadVars, mine, retirement,
                 stopVars, seen, faults>>

(* _acknowledge_completion_handoff: out of the ledger first, without need   *)
(* of the lock, ...                                                         *)
Retire(p) ==
  /\ pc[p] = "retire"
  /\ SetHandoff(mine[p], "retired") /\ NotifyAll
  /\ Worker(p, "release")
  /\ UNCHANGED <<state, ledger, queue, batch, threadVars, mine, retirement,
                 stopVars, seen, faults>>

(* ... then, with it, the execution goes back to the executor.              *)
Release(p) ==
  /\ pc[p] = "release"
  /\ lock \in {Free, p}
  /\ released' = released \cup {mine[p]}
  /\ pending' = [pending EXCEPT ![p] = @ \ {mine[p]}]
  /\ WaitForOneOf(p, IF lock = p THEN pending'[p] ELSE {})
  /\ UNCHANGED <<state, ledger, queue, handoffs, asleep, threadVars, deferred,
                 stopVars, recorded, faults>>

(* The deadline of a wait with the lock passes; the handoffs behind it are  *)
(* looked at once.                                                          *)
WaitEnds(p) ==
  /\ pc[p] = "wait" /\ ~Settled(mine[p])
  /\ Lets(p) /\ lock' = Free
  /\ UNCHANGED <<state, ledger, queue, batch, threadVars, stopVars, recorded,
                 faults>>

(* The worker raises TimeoutError, and its handler waits again ...          *)
WaitTimeout(p) == WaitEnds(p) /\ KeepRest(p)

(* ... at most twice, then it leaves them to others.                        *)
WaitGivesUp(p) == WaitEnds(p) /\ DeferRest(p)

-----------------------------------------------------------------------------
(* The completion thread: _run(), _dequeue(), _handle().                   *)

othersVars == <<reservations, batch, pc, mine, lock, pending, stopVars>>

Goes(step) == thread' = step

(* Something the thread calls raises.                                      *)
Raises ==
  /\ faults < MaxFault
  /\ faults' = faults + 1
  /\ Goes("crash")

Works(step) == Goes(step) /\ UNCHANGED faults

(* The state is looked at after the wait for an item, before it is taken.  *)
Dequeue ==
  /\ thread = "dequeue"
  /\ queue # <<>>
  /\ \/ /\ state \notin {"running", "stopping"}
        /\ Goes("drain")
        /\ UNCHANGED <<queue, handoff, asleep, item>>
     \/ /\ state \in {"running", "stopping"}
        /\ queue' = Tail(queue)
        /\ NotifyAll
        /\ \/ /\ Head(queue) = Sentinel
              /\ Goes("drain")
              /\ UNCHANGED <<handoff, item>>
           \/ /\ Head(queue) # Sentinel
              /\ item' = Head(queue)
              /\ handoff' = IF handoff[item'] \in {"ENQUEUING", "ENQUEUED"}
                            THEN [handoff EXCEPT ![item'] = "DEQUEUED"]
                            ELSE handoff
              /\ Goes("member")
  /\ UNCHANGED <<state, outstanding, record, known, current, raising, failing,
                 othersVars, deferred, seen, faults>>

(* Known members: outstanding and not yet terminal.  Repeated or unknown   *)
(* ones only mark the run invalid.                                         *)
Membership ==
  /\ thread = "member"
  /\ known' = {r \in batch[item] \cap outstanding : record[r] = "pending"}
  /\ raising' = FALSE
  /\ Goes(IF known' = {} THEN "ack" ELSE "evaluate")
  /\ UNCHANGED <<state, outstanding, record, queue, handoff, asleep, item,
                 current, failing, othersVars, deferred, seen, faults>>

(* Decoder, evaluator and generation metrics.  An exception of the former  *)
(* is recorded in the terminals of the batch; only one that is no          *)
(* Exception is raised again behind them.                                  *)
Evaluate ==
  /\ thread = "evaluate"
  /\ \/ Works("claim") /\ UNCHANGED raising
     \/ /\ faults < MaxFault /\ faults' = faults + 1
        /\ raising' = TRUE /\ Goes("claim")
     \/ Raises /\ UNCHANGED raising
  /\ UNCHANGED <<state, outstanding, record, queue, handoff, asleep, item,
                 known, current, failing, othersVars, deferred, seen>>

Claim ==
  /\ thread = "claim"
  /\ UNCHANGED <<state, outstanding, queue, handoff, item, raising, failing,
                 othersVars, deferred, seen, faults>>
  /\ \/ \E r \in known :
          /\ known' = known \ {r}
          /\ current' = r
          /\ SetRecord(r, "claimed") /\ NotifyAll
          /\ Goes("metrics")
     \/ /\ known = {}
        /\ Goes(IF raising THEN "crash" ELSE "ack")
        /\ UNCHANGED <<known, current, record, asleep>>

RecordOnce(r) == recorded' = [recorded EXCEPT ![r] = @ + 1]

(* metrics.record_terminal(), which may count the request and still raise. *)
RecordTerminal ==
  /\ thread = "metrics"
  /\ \/ RecordOnce(current) /\ (Works("commit") \/ Raises)
     \/ Raises /\ UNCHANGED recorded
  /\ UNCHANGED <<state, outstanding, record, queue, handoff, asleep, item,
                 known, current, raising, failing, othersVars, deferred, released>>

CommitTerminal ==
  /\ thread = "commit"
  /\ SetRecord(current, "committed") /\ NotifyAll
  /\ Goes("pop")
  /\ UNCHANGED <<state, outstanding, queue, handoff, item, known, current,
                 raising, failing, othersVars, deferred, seen, faults>>

(* The trace callback, then the end of membership.                         *)
Pop ==
  /\ thread = "pop"
  /\ outstanding' = outstanding \ {current}
  /\ NotifyAll
  /\ \/ UNCHANGED <<raising, faults>>
     \/ faults < MaxFault /\ faults' = faults + 1 /\ raising' = TRUE
  /\ Goes("claim")
  /\ UNCHANGED <<state, record, queue, handoff, item, known, current, failing,
                 othersVars, deferred, seen>>

(* _mark_completion_handoff_acked_locked.  A waiter may have acknowledged  *)
(* and even retired the handoff before; its lease went with it.            *)
Ack ==
  /\ thread = "ack"
  /\ \/ /\ handoff[item] = "DEQUEUED"
        /\ SetHandoff(item, "ACKED") /\ NotifyAll
        /\ Goes("lease")
     \/ /\ handoff[item] = "ACKED"
        /\ Goes("lease")
        /\ UNCHANGED <<handoff, asleep>>
     \/ /\ handoff[item] = "retired"
        /\ Goes("notify")
        /\ UNCHANGED <<handoff, asleep>>
  /\ UNCHANGED <<state, outstanding, record, queue, item, known, current,
                 raising, failing, othersVars, deferred, seen, faults>>

(* The retirement lease: executor.acknowledge() under the lock.  Its       *)
(* failure is logged; a lease that finds another owner's execution raises. *)
RetireLease ==
  /\ thread = "lease"
  /\ lock = Free
  /\ \/ Works("notify") /\ released' = released \cup {item}
     \/ /\ faults < MaxFault /\ faults' = faults + 1
        /\ Goes("notify")
        /\ UNCHANGED released
     \/ Raises /\ UNCHANGED released
  /\ UNCHANGED <<state, outstanding, record, queue, handoff, asleep, item,
                 known, current, raising, failing, othersVars, deferred, recorded>>

(* handoff_ack_callback: the engine retires what its workers deferred,     *)
(* under the lock.                                                         *)
Notify ==
  /\ thread \in {"notify", "farewell"}
  /\ lock = Free
  /\ RetireSettled(deferred, asleep)
  /\ deferred' = Unsettled(deferred)
  /\ item' = Nothing
  /\ Goes(IF thread = "notify" THEN "dequeue" ELSE "dead")
  /\ UNCHANGED <<state, outstanding, record, queue, known, current, raising,
                 failing, othersVars, recorded, faults>>

Crash ==
  /\ thread = "crash"
  /\ state' = "failed"
  /\ NotifyAll
  /\ Goes("drain")
  /\ UNCHANGED <<outstanding, record, queue, handoff, item, known, current,
                 raising, failing, othersVars, deferred, seen, faults>>

-----------------------------------------------------------------------------
(* _finalize() and _fail_outstanding().                                    *)

Drain ==
  /\ thread = "drain"
  /\ queue' = <<>>
  /\ NotifyAll
  /\ Goes("snapshot")
  /\ UNCHANGED <<state, outstanding, record, handoff, item, known, current,
                 raising, failing, othersVars, deferred, seen, faults>>

Snapshot ==
  /\ thread = "snapshot"
  /\ failing' = outstanding
  /\ Goes("fail")
  /\ UNCHANGED <<state, outstanding, record, queue, handoff, asleep, item,
                 known, current, raising, othersVars, deferred, seen, faults>>

FailAgain(r) ==
  /\ SetRecord(r, "claimed")
  /\ Goes("failmetrics")
  /\ UNCHANGED <<outstanding, asleep>>

FailSkippingClaimed(r) ==
  \/ /\ r \notin outstanding \/ record[r] # "pending"
     /\ Goes("fail")
     /\ UNCHANGED <<outstanding, asleep, record>>
  \/ /\ r \in outstanding /\ record[r] = "pending"
     /\ SetRecord(r, "claimed") /\ NotifyAll
     /\ Goes("failmetrics")
     /\ UNCHANGED outstanding

(* A request that the crash left claimed may have been counted: its        *)
(* terminal is committed without counting it again.                        *)
Fail(r) ==
  \/ /\ r \notin outstanding
     /\ Goes("fail")
     /\ UNCHANGED <<outstanding, record, asleep>>
  \/ /\ r \in outstanding /\ record[r] = "pending"
     /\ SetRecord(r, "claimed") /\ NotifyAll
     /\ Goes("failmetrics")
     /\ UNCHANGED outstanding
  \/ /\ r \in outstanding /\ record[r] \in {"claimed", "committed"}
     /\ SetRecord(r, "committed") /\ NotifyAll
     /\ outstanding' = outstanding \ {r}
     /\ Goes("fail")

FailNext ==
  /\ thread = "fail"
  /\ UNCHANGED <<state, queue, handoff, item, known, raising, othersVars,
                 deferred, seen, faults>>
  /\ \/ \E r \in failing :
          /\ failing' = failing \ {r}
          /\ current' = r
          /\ Fail(r)
     \/ /\ failing = {}
        /\ Goes("final")
        /\ UNCHANGED <<failing, current, outstanding, record, asleep>>

(* Here an exception of the metrics is logged and the loop goes on.        *)
FailRecord ==
  /\ thread = "failmetrics"
  /\ Goes("failcommit")
  /\ \/ RecordOnce(current) /\ UNCHANGED faults
     \/ /\ faults < MaxFault /\ faults' = faults + 1
        /\ RecordOnce(current) \/ UNCHANGED recorded
  /\ UNCHANGED <<state, outstanding, record, queue, handoff, asleep, item,
                 known, current, raising, failing, othersVars, deferred, released>>

FailCommit ==
  /\ thread = "failcommit"
  /\ SetRecord(current, "committed")
  /\ outstanding' = outstanding \ {current}
  /\ NotifyAll
  /\ Goes("fail")
  /\ UNCHANGED <<state, queue, handoff, item, known, current, raising,
                 failing, othersVars, deferred, seen, faults>>

Final ==
  /\ thread = "final"
  /\ state' = IF state = "failed" THEN "failed" ELSE "stopped"
  /\ NotifyAll
  /\ Goes("farewell")
  /\ UNCHANGED <<outstanding, record, queue, handoff, item, known, current,
                 raising, failing, othersVars, deferred, seen, faults>>

-----------------------------------------------------------------------------
(* stop()                                                                  *)

StopReturns(result) == stopper' = "idle" /\ stopResult' = result

Stop ==
  /\ stopper = "idle"
  /\ stops < MaxStop
  /\ stops' = stops + 1
  /\ \/ /\ state = "running"
        /\ state' = "stopping" /\ NotifyAll
        /\ stopper' = "putting"
        /\ UNCHANGED stopResult
     \/ /\ state = "stopping"
        /\ stopper' = "watching"
        /\ UNCHANGED <<state, asleep, stopResult>>
     \/ /\ state \in {"failed", "stopped"}
        /\ StopReturns(IF state = "stopped" /\ reservations = {} THEN "true" ELSE "false")
        /\ UNCHANGED <<state, asleep>>
  /\ UNCHANGED <<ledger, queue, handoffs, threadVars, workerVars, seen, faults>>

(* put_nowait of the sentinel; with a full queue, wait under the condition.*)
StopPut ==
  /\ stopper = "putting" /\ Stopper \notin asleep
  /\ state = "stopping"
  /\ \/ /\ Len(queue) < MaxQueue
        /\ queue' = Append(queue, Sentinel)
        /\ NotifyAll
        /\ stopper' = "joining"
     \/ /\ Len(queue) = MaxQueue
        /\ Sleep(Stopper)
        /\ UNCHANGED <<queue, stopper>>
  /\ UNCHANGED <<state, ledger, handoffs, threadVars, workerVars, stopResult,
                 stops, seen, faults>>

StopPutTimeout ==
  /\ stopper = "putting"
  /\ state = "stopping" /\ Len(queue) = MaxQueue
  /\ state' = "failed"
  /\ NotifyAll
  /\ StopReturns("false")
  /\ UNCHANGED <<ledger, queue, handoffs, threadVars, workerVars, stops, seen, faults>>

(* The thread crashed before the sentinel was put.                         *)
StopTooLate ==
  /\ stopper = "putting" /\ Stopper \notin asleep
  /\ state # "stopping"
  /\ StopReturns("false")
  /\ UNCHANGED <<state, ledger, queue, handoffs, asleep, threadVars,
                 workerVars, stops, seen, faults>>

StopJoinedOnly ==
  /\ stopper = "joining"
  /\ StopReturns(IF thread = "dead" /\ state = "stopped" THEN "true" ELSE "false")
  /\ UNCHANGED <<state, ledger, queue, handoffs, asleep, threadVars,
                 workerVars, stops, seen, faults>>

StopJoined ==
  /\ stopper = "joining"
  /\ StopReturns(IF thread = "dead" /\ state = "stopped" /\ reservations = {}
                 THEN "true" ELSE "false")
  /\ UNCHANGED <<state, ledger, queue, handoffs, asleep, threadVars,
                 workerVars, stops, seen, faults>>

(* A second stop() waits for the state to change, or its deadline.         *)
StopWatched ==
  /\ stopper = "watching"
  /\ StopReturns(IF state = "stopped" /\ reservations = {} THEN "true" ELSE "false")
  /\ UNCHANGED <<state, ledger, queue, handoffs, asleep, threadVars,
                 workerVars, stops, seen, faults>>

-----------------------------------------------------------------------------
ThreadStep ==
  \/ Dequeue \/ Membership \/ Evaluate \/ Claim \/ RecordTerminal
  \/ CommitTerminal \/ Pop \/ Ack \/ RetireLease \/ Notify \/ Crash
  \/ Drain \/ Snapshot \/ FailNext \/ FailRecord \/ FailCommit \/ Final

(* A worker's steps without its timeouts.                                  *)
ProducerStep(p) ==
  \/ WakeUp(p) \/ Put(p) \/ Full(p) \/ Placed(p)
  \/ AwaitAck(p) \/ Retire(p) \/ Release(p)

(* Those it takes as its batches come and its deadlines pass.              *)
ProducerChoice(p) ==
  \/ SubmitTimeout(p) \/ StopWaiting(p) \/ RetirePending(p)
  \/ WaitForPending(p) \/ WaitTimeout(p) \/ WaitGivesUp(p)

StopStep == StopPut \/ StopTooLate \/ StopJoined \/ StopWatched

Next ==
  \/ \E r \in Request : Reserve(r) \/ Commit(r) \/ Abort(r) \/ Unregister(r)
  \/ \E p \in Producer :
       \/ \E h \in Handoff, b \in (SUBSET Request) \ {{}} : Submit(p, h, b)
       \/ ProducerStep(p) \/ ProducerChoice(p)
  \/ ThreadStep
  \/ Stop \/ StopStep \/ StopPutTimeout

Spec == Init /\ [][Next]_vars

(* Threads run; requests need not come.  The deadlines of waits with the   *)
(* lock held do pass, and a worker waits no more than three times for one  *)
(* handoff, so one that times out again and again gives up.  No other      *)
(* deadline need pass.                                                     *)
FairSpec ==
  /\ Spec
  /\ WF_vars(ThreadStep /\ UNCHANGED faults)
  /\ \A p \in Producer :
       /\ WF_vars(ProducerStep(p) /\ UNCHANGED faults)
       /\ SF_vars(WaitGivesUp(p))
  /\ WF_vars(StopStep /\ UNCHANGED faults)

-----------------------------------------------------------------------------
(* Every variable stays in its type, the queue within its capacity.        *)
TypeOK ==
  /\ state \in {"running", "stopping", "failed", "stopped"}
  /\ reservations \subseteq Request /\ outstanding \subseteq Request
  /\ record \in [Request -> {"none", "pending", "claimed", "committed"}]
  /\ queue \in Seq(Handoff \cup {Sentinel}) /\ Len(queue) <= MaxQueue
  /\ handoff \in [Handoff -> {"none", "ENQUEUING", "ENQUEUED", "DEQUEUED",
                              "ACKED", "retired"}]
  /\ batch \in [Handoff -> SUBSET Request]
  /\ asleep \subseteq Producer \cup {Stopper}
  /\ thread \in {"dequeue", "member", "evaluate", "claim", "metrics", "commit",
                 "pop", "ack", "lease", "notify", "crash", "drain", "snapshot",
                 "fail", "failmetrics", "failcommit", "final", "farewell", "dead"}
  /\ item \in Handoff \cup {Nothing} /\ current \in Request \cup {Nothing}
  /\ known \subseteq Request /\ failing \subseteq Request /\ raising \in BOOLEAN
  /\ pc \in [Producer -> {"idle", "put", "full", "placed", "raised", "blocked",
                      "await", "wait", "retire", "release"}]
  /\ mine \in [Producer -> Handoff \cup {Nothing}]
  /\ lock \in Producer \cup {Free}
  /\ pending \in [Producer -> SUBSET Handoff]
  /\ deferred \subseteq Handoff
  /\ stopper \in {"idle", "putting", "joining", "watching"}
  /\ stopResult \in {"none", "true", "false"}
  /\ recorded \in [Request -> Nat]
  /\ released \subseteq Handoff
  /\ faults \in 0..MaxFault /\ stops \in 0..MaxStop

(* "Exactly-once completion per request id": the metrics count a request   *)
(* at most once, whatever is handed over twice, raises or is stopped, and  *)
(* a request whose terminal is committed has been counted unless a call to *)
(* the metrics itself failed.                                              *)
RecordedOnce ==
  \A r \in Request :
    /\ recorded[r] <= 1
    /\ record[r] = "committed" /\ faults = 0 => recorded[r] = 1

(* When the completion thread is gone, no request is left without its      *)
(* terminal: not by a crash, not by a stop() that gave up.                 *)
NoneLeftBehind == thread = "dead" => outstanding = {}

(* The executor gets an execution back, and may reuse its buffers, only    *)
(* when no request of the batch is still to be evaluated or recorded.      *)
ReleasedAfterHandling ==
  \A h \in released : \A r \in batch[h] :
    r \notin outstanding /\ record[r] = "committed"

(* stop() returns True only for a coordinator that has settled everything. *)
StopTrueIsClean ==
  stopResult = "true" =>
    state = "stopped" /\ thread \in {"farewell", "dead"}
    /\ outstanding = {} /\ reservations = {}

(* Once the coordinator is not running any more, by stop() or by a crash,  *)
(* every outstanding request is given a terminal, for good.                *)
StopSettles == state # "running" ~> [](outstanding = {})

(* A completion in the queue is acknowledged as long as the thread lives.  *)
EnqueuedIsAcknowledged ==
  \A h \in Handoff :
    handoff[h] = "ENQUEUED" ~> handoff[h] \in {"ACKED", "retired"} \/ thread = "dead"

(* submit() without a deadline, as the tests call it from more threads     *)
(* than the queue has places, gets through.                                *)
SubmissionGetsThrough ==
  \A p \in Producer : pc[p] = "blocked" ~> pc[p] # "blocked"

(* After stop() has returned True the queue is empty.                      *)
StoppedQueueEmpty == stopResult = "true" => queue = <<>>

(* What the engine may rely on: the phases of a request follow each other, *)
(* one terminal for good and counted once; buffers return behind it; True  *)
(* from stop() and the end of the thread leave nobody waiting.  An open    *)
(* request is one of the ledger; one that was taken back while its failure *)
(* was being written is withdrawn.                                         *)
Phase(r) ==
  CASE r \in reservations -> "reserved"
    [] r \in outstanding  -> "open"
    [] r \notin reservations \cup outstanding ->
         CASE record[r] = "none" -> "none"
           [] record[r] = "committed" -> "over"
           [] OTHER -> "withdrawn"
Contract ==
  INSTANCE CompletionContract WITH
    Batch <- Handoff,
    phase <- [r \in Request |-> Phase(r)],
    counted <- recorded, members <- batch, returned <- released,
    accepting <- (state = "running"), gone <- (thread = "dead"),
    clean <- (stopResult = "true"), degraded <- (faults > 0)
ImplementsContract == Contract!Spec
=============================================================================
