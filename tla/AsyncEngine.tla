---------------------------- MODULE AsyncEngine ----------------------------
(***************************************************************************)
(* AsyncInferenceEngine of core/async_inference/engine.py with its request *)
(* queue and slot pool, driven as core/async_inference/runner.py drives    *)
(* it: submitters, batching workers, cancellation, flush and shutdown, and *)
(* the decision of main.py to unload the runtime afterwards.               *)
(*                                                                         *)
(* One action is one critical section of the state, queue or slot lock,    *)
(* or one call to the executor or to the completion coordinator.  The      *)
(* coordinator is what CompletionCoordinator.tla shows of it: it takes a   *)
(* handoff while it runs, gives each of its requests one terminal record   *)
(* and acknowledges it; when it fails or stops, it gives every outstanding *)
(* request one.  A request stands for one attempt token.  A deadline may   *)
(* pass in any wait.  The executor is the blocking one: deferred handoffs  *)
(* and execution leases are in CompletionCoordinator.tla, the native       *)
(* executor in NativeExecutor.tla.  Queue-depth transitions and unfinished *)
(* task counts are bookkeeping of metrics and left out.                    *)
(* An operation may have a faulty variant in front of it, which the module *)
(* never uses: a plausible mistake, for which a property must fail.        *)
(***************************************************************************)
EXTENDS Integers, Sequences, FiniteSets

CONSTANTS
  Request,       \* submission attempts
  Worker,
  Capacity,      \* config.queue_capacity
  MaxBatch,      \* config.max_batch_size
  FailureLimit,  \* failed batches in a row that fail the engine: 3 in the code
  None,
  MaxFault       \* bound on faults

Stop == "_STOP"

ASSUME EngineAssumption ==
  /\ IsFiniteSet(Request) /\ IsFiniteSet(Worker)
  /\ None \notin Request /\ Stop \notin Request
  /\ Capacity \in Nat \ {0} /\ MaxBatch \in Nat \ {0}
  /\ FailureLimit \in Nat \ {0} /\ MaxFault \in Nat

Control == "control"

VARIABLES
  state,       \* self.state
  stopReq,     \* self._stop_requested
  closed,      \* self.requests._closed
  queue,       \* self.requests: requests and stop tokens
  hidden,      \* queued requests whose entry state is not None
  drainOp,     \* requests of the active drain operation
  ops,         \* requests with a dequeue operation that is not retired
  leases,      \* self._slot_pool._held
  \* submitters
  pc, answer,
  tx,          \* self._submission_transactions
  outcome,     \* the metrics' outcome journal
  unresolved,  \* self._unresolved_submissions
  \* the coordinator
  coord, reserved,
  watched,     \* _watch_completion() has ended
  ledger,      \* terminal record of a request
  box,         \* completion handoffs
  \* workers
  worker, asleep,
  mine,        \* a worker's handoffs that are not retired
  \* the runner
  ctl, snap, flushed, ok, result,
  cancelOp,    \* the active cancellation
  unloaded,    \* runtime.unload() was called
  \* history and bounds
  ran,         \* requests a worker ran
  dropped,     \* requests reported as failed without having run
  faults

shared == <<state, stopReq, closed>>
queueVars == <<queue, hidden, drainOp, ops>>
submitVars == <<pc, answer, tx, outcome, unresolved>>
coordVars == <<coord, reserved, watched, ledger, box>>
workerVars == <<worker, asleep, mine>>
controlVars == <<ctl, snap, flushed, ok, result, cancelOp, unloaded>>
history == <<ran, dropped>>
vars == <<shared, queueVars, leases, submitVars, coordVars, workerVars,
          controlVars, history, faults>>

Idle == [pc |-> "off", owned |-> {}, pend |-> None,
         drained |-> FALSE, failures |-> 0]

NoCancel == [of |-> {}, drain |-> FALSE]
At(label) == [at |-> label, then |-> "", again |-> FALSE]

Init ==
  /\ state = "created" /\ stopReq = FALSE /\ closed = FALSE
  /\ queue = <<>> /\ hidden = {} /\ drainOp = {} /\ ops = {}
  /\ leases = {}
  /\ pc = [r \in Request |-> "idle"]
  /\ answer = [r \in Request |-> "none"]
  /\ tx = {} /\ unresolved = {}
  /\ outcome = [r \in Request |-> "none"]
  /\ coord = "running" /\ reserved = {} /\ box = {} /\ watched = FALSE
  /\ ledger = [r \in Request |-> "none"]
  /\ worker = [w \in Worker |-> Idle]
  /\ asleep = {}
  /\ mine = [w \in Worker |-> {}]
  /\ ctl = At("created") /\ snap = {} /\ flushed = FALSE /\ ok = TRUE
  /\ result = "none" /\ cancelOp = NoCancel /\ unloaded = FALSE
  /\ ran = {} /\ dropped = {} /\ faults = 0

Fault == faults < MaxFault /\ faults' = faults + 1
Failed == IF state = "stopped" THEN state ELSE "failed"   \* _mark_failed
Pending == {r \in Request : ledger[r] = "pending"}
Queued == {queue[i] : i \in DOMAIN queue} \ {Stop}
(* SelectSeq, as a function that the proofs can unfold.                    *)
Without(S) ==
  LET Kept[n \in 0..Len(queue)] ==
        IF n = 0 THEN <<>>
        ELSE IF queue[n] \in S THEN Kept[n - 1]
        ELSE Append(Kept[n - 1], queue[n])
  IN Kept[Len(queue)]
Visible(q, h) == q # <<>> /\ Head(q) \notin h
HeadVisible == Visible(queue, hidden)

(* Condition.notify_all() and notify() of requests.not_empty.              *)
WakeAllIf(visible) == asleep' = IF visible THEN {} ELSE asleep
WakeOne == IF asleep = {} THEN asleep' = {}
           ELSE \E w \in asleep : asleep' = asleep \ {w}

(* release_lease() for each request of S: each lease that was held wakes   *)
(* one submitter in acquire().  p is pc otherwise.                         *)
Release(S, p) ==
  LET sleepers == {r \in Request : p[r] = "asleep"}
      freed == Cardinality(S \cap leases)
      count == IF freed < Cardinality(sleepers) THEN freed
               ELSE Cardinality(sleepers)
  IN \E W \in SUBSET sleepers :
       /\ Cardinality(W) = count
       /\ pc' = [r \in Request |-> IF r \in W THEN "entered" ELSE p[r]]
       /\ leases' = leases \ S

(* A drain takes every queued request that is visible, behind a hidden     *)
(* one too; one that is not finished is resumed and takes nothing new.     *)
DrainSet == IF drainOp # {} THEN drainOp ELSE Queued \ hidden
TakeDrained(D) ==
  /\ drainOp' = D
  /\ queue' = Without(D)
  /\ WakeAllIf(Visible(Without(D), hidden))

(* coordinator.submit(): the failure of a drain is sent under the drain's   *)
(* own key, so that two parties that resume one drain meet.  A handoff that *)
(* is refused stays in the journal, and is acknowledged once its requests   *)
(* are all terminal.                                                        *)
Handoff(by, S, drain, st) == [by |-> by, of |-> S, drain |-> drain, st |-> st]
Same(h, by, S, drain) ==
  IF drain THEN h.drain ELSE ~h.drain /\ h.by = by /\ h.of = S
Acked(by, S, drain) == \E h \in box : Same(h, by, S, drain) /\ h.st = "acked"
Forget(by, S, drain) == {h \in box : ~Same(h, by, S, drain)}
Refuses(by, S, drain) ==
  /\ ~Acked(by, S, drain)
  /\ \/ coord # "running"
     \/ drain /\ \E h \in box : h.drain /\ (h.by # by \/ h.of # S)
Submits(by, S, drain) ==
  box' = IF \E h \in box : Same(h, by, S, drain) THEN box
         ELSE box \cup {Handoff(by, S, drain, IF coord = "running"
                                              THEN "queued" ELSE "refused")}

-----------------------------------------------------------------------------
(* submit()                                                                *)

Enter(r) ==
  /\ pc[r] = "idle" /\ state # "created"
  /\ \/ /\ state = "running"
        /\ pc' = [pc EXCEPT ![r] = "entered"]
        /\ UNCHANGED <<answer, outcome>>
     \/ /\ state # "running"
        /\ pc' = [pc EXCEPT ![r] = "returned"]
        /\ answer' = [answer EXCEPT ![r] = "raised"]
        /\ UNCHANGED outcome
  /\ UNCHANGED <<shared, queueVars, leases, tx, unresolved, coordVars,
                 workerVars, controlVars, history, faults>>

Acquire(r) ==
  /\ pc[r] \in {"entered", "asleep"}  \* asleep: its wait timed out
  /\ Cardinality(leases) < Capacity
  /\ leases' = leases \cup {r}
  /\ pc' = [pc EXCEPT ![r] = "leased"]
  /\ UNCHANGED <<shared, queueVars, answer, tx, outcome, unresolved,
                 coordVars, workerVars, controlVars, history, faults>>

SleepForSlot(r) ==
  /\ pc[r] = "entered"
  /\ Cardinality(leases) >= Capacity
  /\ pc' = [pc EXCEPT ![r] = "asleep"]
  /\ UNCHANGED <<shared, queueVars, leases, answer, tx, outcome, unresolved,
                 coordVars, workerVars, controlVars, history, faults>>

(* block=False, submit_timeout_sec, or a request that is not valid.        *)
RejectEarly(r) ==
  /\ pc[r] \in {"entered", "asleep"}
  /\ Cardinality(leases) >= Capacity
  /\ outcome' = [outcome EXCEPT ![r] = "rejected"]
  /\ pc' = [pc EXCEPT ![r] = "returned"]
  /\ answer' = [answer EXCEPT ![r] = "false"]
  /\ UNCHANGED <<shared, queueVars, leases, tx, unresolved, coordVars,
                 workerVars, controlVars, history, faults>>

Journal(r, o) ==
  outcome' = [outcome EXCEPT ![r] = IF @ = "none" THEN o ELSE @]

(* _record_rejected_internal(); how submit() answers once it has undone    *)
(* the rest.                                                               *)
Reject(r, then) ==
  /\ Journal(r, "rejected")
  /\ pc' = [pc EXCEPT ![r] = then]
  /\ UNCHANGED <<stopReq, closed, queueVars, leases, answer, tx, unresolved,
                 coordVars, workerVars, controlVars, history>>

Reserve(r) ==
  /\ pc[r] = "leased" /\ state = "running" /\ coord = "running"
  /\ reserved' = reserved \cup {r}
  /\ tx' = tx \cup {r}
  /\ pc' = [pc EXCEPT ![r] = "reserved"]
  /\ UNCHANGED <<shared, queueVars, leases, answer, outcome, unresolved,
                 coord, watched, ledger, box, workerVars, controlVars, history,
                 faults>>

(* The state has changed, or the coordinator is gone, or (fault) the       *)
(* metrics' preflight or acceptance raised and left no trace.              *)
Refused(r) ==
  /\ pc[r] \in {"leased", "reserved"}
  /\ \/ /\ state # "running"
        /\ Reject(r, "rejecting") /\ UNCHANGED <<state, faults>>
     \/ /\ state = "running" /\ coord # "running"
        /\ Reject(r, "rejecting") /\ state' = Failed /\ UNCHANGED faults
     \/ /\ pc[r] = "reserved" /\ state = "running"
        /\ Fault /\ UNCHANGED state
        /\ \/ Reject(r, "rejecting") \/ Reject(r, "raising")

Append1(r) ==
  /\ queue' = Append(queue, r)
  /\ hidden' = hidden \cup {r}
  /\ UNCHANGED <<shared, drainOp, ops, leases, answer, tx, workerVars,
                 controlVars, history>>

PublishWhateverState(r) ==
  /\ pc[r] = "reserved"
  /\ coord = "running"
  /\ Append1(r)
  /\ Journal(r, "accepted")
  /\ reserved' = reserved \ {r}
  /\ ledger' = [ledger EXCEPT ![r] = "pending"]
  /\ pc' = [pc EXCEPT ![r] = "published"]
  /\ UNCHANGED <<unresolved, coord, watched, box, faults>>

(* publish_accepted() and _commit_registration_locked()                    *)
Publish(r) ==
  /\ pc[r] = "reserved"
  /\ state = "running" /\ coord = "running"
  /\ Append1(r)
  /\ Journal(r, "accepted")
  /\ reserved' = reserved \ {r}
  /\ ledger' = [ledger EXCEPT ![r] = "pending"]
  /\ pc' = [pc EXCEPT ![r] = "published"]
  /\ UNCHANGED <<unresolved, coord, watched, box, faults>>

(* The metrics raise, but the acceptance is in their journal; or they      *)
(* cannot even be asked, and _preserve_unresolved_submission() gives up.   *)
PublishRaises(r) ==
  /\ pc[r] = "reserved"
  /\ state = "running" /\ coord = "running"
  /\ Fault
  /\ queue' = Append(queue, r) /\ hidden' = hidden \cup {r}
  /\ \/ /\ Journal(r, "accepted")
        /\ pc' = [pc EXCEPT ![r] = "recovering"]
        /\ UNCHANGED <<state, answer, unresolved>>
     \/ /\ pc' = [pc EXCEPT ![r] = "returned"]
        /\ answer' = [answer EXCEPT ![r] = "raised"]
        /\ unresolved' = unresolved \cup {r}
        /\ state' = Failed
        /\ UNCHANGED outcome
  /\ UNCHANGED <<stopReq, closed, drainOp, ops, leases, tx, coordVars,
                 workerVars, controlVars, history>>

(* _recover_submission(): the registration is committed after all and the  *)
(* request reported as failed, as submit() is about to raise.              *)
Recover(r) ==
  /\ pc[r] = "recovering"
  /\ \/ /\ coord = "running"
        /\ reserved' = reserved \ {r}
        /\ ledger' = [ledger EXCEPT ![r] = "pending"]
        /\ box' = box \cup {Handoff(r, {r}, FALSE, "queued")}
        /\ hidden' = hidden \ {r} /\ WakeOne
        /\ tx' = tx \ {r}
        /\ UNCHANGED <<state, unresolved>>
     \/ /\ coord # "running"
        /\ unresolved' = unresolved \cup {r}
        /\ state' = Failed
        /\ UNCHANGED <<reserved, ledger, box, hidden, asleep, tx>>
  /\ pc' = [pc EXCEPT ![r] = "returned"]
  /\ answer' = [answer EXCEPT ![r] = "raised"]
  /\ UNCHANGED <<stopReq, closed, queue, drainOp, ops, leases, outcome, coord,
                 watched, worker, mine, controlVars, history, faults>>

CompleteUnnotified(r) ==
  /\ pc[r] = "published" /\ ledger[r] = "pending" /\ coord = "running"
  /\ hidden' = hidden \ {r}
  /\ pc' = [pc EXCEPT ![r] = "returned"]
  /\ tx' = tx \ {r}
  /\ answer' = [answer EXCEPT ![r] = "true"]
  /\ UNCHANGED <<shared, queue, drainOp, ops, leases, outcome, unresolved,
                 coordVars, workerVars, controlVars, history, faults>>

(* _complete_accepted_submission(): restore_uncertain_visibility(), or     *)
(* remove_terminal_accepted() when the coordinator ended the request first.*)
(* While the coordinator is on its way down, it waits.                     *)
Complete(r) ==
  /\ pc[r] = "published"
  /\ \/ /\ ledger[r] = "pending" /\ coord = "running"
        /\ hidden' = hidden \ {r} /\ WakeOne
        /\ pc' = [pc EXCEPT ![r] = "returned"]
        /\ UNCHANGED <<queue, leases>>
     \/ /\ ledger[r] = "done"
        /\ queue' = Without({r}) /\ hidden' = hidden \ {r}
        /\ WakeAllIf(Visible(Without({r}), hidden \ {r}))
        /\ Release({r}, [pc EXCEPT ![r] = "returned"])
  /\ tx' = tx \ {r}
  /\ answer' = [answer EXCEPT ![r] = "true"]
  /\ UNCHANGED <<shared, drainOp, ops, outcome, unresolved, coordVars, worker,
                 mine, controlVars, history, faults>>

(* ... and when that takes longer than flush_timeout_sec.                  *)
CompleteTimeout(r) ==
  /\ pc[r] = "published" /\ ledger[r] = "pending" /\ coord # "running"
  /\ unresolved' = unresolved \cup {r}
  /\ state' = Failed
  /\ pc' = [pc EXCEPT ![r] = "returned"]
  /\ answer' = [answer EXCEPT ![r] = "raised"]
  /\ UNCHANGED <<stopReq, closed, queueVars, leases, tx, outcome, coordVars,
                 workerVars, controlVars, history, faults>>

UndoKeepingLease(r) ==
  /\ pc[r] \in {"rejecting", "raising"}
  /\ reserved' = reserved \ {r}
  /\ tx' = tx \ {r}
  /\ answer' = [answer EXCEPT ![r] = IF pc[r] = "rejecting" THEN "false"
                                     ELSE "raised"]
  /\ pc' = [pc EXCEPT ![r] = "returned"]
  /\ UNCHANGED <<shared, queueVars, leases, outcome, unresolved, coord,
                 watched, ledger, box, workerVars, controlVars, history, faults>>

(* _complete_rejected_submission(): abort_registration(), release_lease(). *)
Undo(r) ==
  /\ pc[r] \in {"rejecting", "raising"}
  /\ reserved' = reserved \ {r}
  /\ tx' = tx \ {r}
  /\ answer' = [answer EXCEPT ![r] = IF pc[r] = "rejecting" THEN "false"
                                     ELSE "raised"]
  /\ Release({r}, [pc EXCEPT ![r] = "returned"])
  /\ UNCHANGED <<shared, queueVars, outcome, unresolved, coord, watched, ledger,
                 box, workerVars, controlVars, history, faults>>

-----------------------------------------------------------------------------
(* _worker()                                                               *)

OffQueue == <<shared, drainOp, leases, submitVars, coordVars, mine, controlVars,
              dropped, faults>>
Is(w, label) == worker[w].pc = label
To(w, label) == worker' = [worker EXCEPT ![w].pc = label]
Retirable(w) ==
  {S \in mine[w] : ~\E h \in box : h.by = w /\ h.of = S /\ h.st # "acked"}

(* _retire_worker_handoffs() at the top of the loop, wherever a worker     *)
(* waits for it, and, for what a dead worker has left, whenever a handoff  *)
(* is acknowledged.  flush() may have retired the operations before.       *)
RetireMine(w) ==
  /\ worker[w].pc \in {"top", "handed", "leaving", "crashed", "dead"}
  /\ Retirable(w) # {}
  /\ ops' = ops \ UNION Retirable(w)
  /\ box' = {h \in box : ~(h.by = w /\ h.of \in Retirable(w))}
  /\ mine' = [mine EXCEPT ![w] = @ \ Retirable(w)]
  /\ UNCHANGED <<shared, queue, hidden, drainOp, leases, submitVars, coord,
                 reserved, watched, ledger, worker, asleep, controlVars,
                 history, faults>>

(* take(): the head of the queue, if it is visible.  An acknowledgement    *)
(* that arrived since wakes the worker before it takes anything.           *)
Taken ==
  /\ queue' = Tail(queue)
  /\ WakeAllIf(Visible(Tail(queue), hidden))
  /\ UNCHANGED hidden

Take(w) ==
  /\ Is(w, "top") /\ worker[w].pend = None /\ Retirable(w) = {}
  /\ w \notin asleep /\ HeadVisible
  /\ IF Head(queue) = Stop
     THEN To(w, "passing") /\ UNCHANGED ops
     ELSE /\ worker' = [worker EXCEPT ![w].pc = "dequeued",
                                      ![w].owned = {Head(queue)}]
          /\ ops' = ops \cup {Head(queue)}
  /\ Taken
  /\ UNCHANGED <<OffQueue, ran>>

TakePending(w) ==
  /\ Is(w, "top") /\ worker[w].pend # None
  /\ worker' = [worker EXCEPT ![w].pc = "batching", ![w].pend = None,
                              ![w].owned = {worker[w].pend}]
  /\ UNCHANGED <<OffQueue, queue, hidden, ops, asleep, ran>>

SleepOrLeave(w) ==
  /\ Is(w, "top") /\ worker[w].pend = None /\ Retirable(w) = {}
  /\ w \notin asleep /\ ~HeadVisible
  /\ \/ closed /\ To(w, "leaving") /\ UNCHANGED asleep
     \/ ~closed /\ asleep' = asleep \cup {w} /\ UNCHANGED worker
  /\ UNCHANGED <<OffQueue, queue, hidden, ops, ran>>

(* _request_dequeued() of the first request; metrics that raise end the    *)
(* worker.                                                                 *)
Dequeued(w) ==
  /\ Is(w, "dequeued")
  /\ Release(worker[w].owned, pc)
  /\ \/ To(w, "batching") /\ UNCHANGED faults
     \/ To(w, "crashed") /\ Fault
  /\ UNCHANGED <<shared, queueVars, answer, tx, outcome, unresolved, coordVars,
                 asleep, mine, controlVars, history>>

(* get_candidate(): the request is published as pending in the same step.  *)
TakeCandidate(w) ==
  /\ worker[w].pc \in {"batching", "waiting"}
  /\ Cardinality(worker[w].owned) < MaxBatch
  /\ HeadVisible
  /\ queue' = Tail(queue)
  /\ asleep' = IF Visible(Tail(queue), hidden) THEN {} ELSE asleep \ {w}
  /\ IF Head(queue) = Stop
     THEN To(w, "passing") /\ UNCHANGED ops
     ELSE /\ worker' = [worker EXCEPT ![w].pc = "candidate",
                                      ![w].pend = Head(queue)]
          /\ ops' = ops \cup {Head(queue)}
  /\ UNCHANGED <<OffQueue, hidden, ran>>

AwaitCandidate(w) ==
  /\ worker[w].pc \in {"batching", "waiting"} /\ w \notin asleep
  /\ Cardinality(worker[w].owned) < MaxBatch
  /\ ~HeadVisible /\ ~closed
  /\ To(w, "waiting") /\ asleep' = asleep \cup {w}
  /\ UNCHANGED <<OffQueue, queue, hidden, ops, ran>>

CandidateUnchecked(w) ==
  /\ Is(w, "candidate")
  /\ Release({worker[w].pend} \ {None}, pc)
  /\ \/ worker' = [worker EXCEPT ![w].pc = "full"]
     \/ worker' = [worker EXCEPT ![w].pc = "batching", ![w].pend = None,
                      ![w].owned = @ \cup {worker[w].pend}]
  /\ UNCHANGED <<shared, queueVars, answer, tx, outcome, unresolved, coordVars,
                 asleep, mine, controlVars, history, faults>>

(* The candidate may not fit the batch, and the canceller may have claimed *)
(* it already.                                                             *)
Candidate(w) ==
  /\ Is(w, "candidate")
  /\ Release({worker[w].pend} \ {None}, pc)
  /\ \/ worker' = [worker EXCEPT ![w].pc = "full"]
     \/ /\ worker[w].pend # None
        /\ worker' = [worker EXCEPT ![w].pc = "batching", ![w].pend = None,
                         ![w].owned = @ \cup {worker[w].pend}]
  /\ UNCHANGED <<shared, queueVars, answer, tx, outcome, unresolved, coordVars,
                 asleep, mine, controlVars, history, faults>>

(* The batch is full, its time is up, or the queue is closed.              *)
Execute(w) ==
  /\ \/ worker[w].pc \in {"batching", "full"}
     \/ Is(w, "waiting") /\ ~HeadVisible
  /\ To(w, "running")
  /\ asleep' = asleep \ {w}
  /\ ran' = ran \cup worker[w].owned
  /\ UNCHANGED <<OffQueue, queue, hidden, ops>>

(* _pass_stop_token() takes _control_lock, which shutdown() holds until it *)
(* has closed the queue; by then shutdown is terminal and the token is not *)
(* put back.  A worker with a batch runs it first: stop tokens and a       *)
(* closed queue come after _stop_requested.                                *)
PassStop(w) ==
  /\ Is(w, "passing") /\ ctl.at \notin {"placing", "sealing"}
  /\ To(w, IF worker[w].owned = {} THEN "leaving" ELSE "full")
  /\ UNCHANGED <<OffQueue, queue, hidden, ops, asleep, ran>>

(* executor.execute() returns, with an error or without, or is broken off  *)
(* by a BaseException.                                                     *)
Executed(w) ==
  /\ Is(w, "running")
  /\ \/ /\ worker' = [worker EXCEPT ![w].pc = "handing", ![w].failures = 0]
        /\ UNCHANGED <<state, faults>>
     \/ /\ Fault
        /\ worker' = [worker EXCEPT ![w].pc = "handing", ![w].failures = @ + 1]
        /\ state' = IF worker[w].failures + 1 >= FailureLimit THEN Failed
                    ELSE state
     \/ Fault /\ To(w, "crashed") /\ UNCHANGED state
  /\ UNCHANGED <<stopReq, closed, queueVars, leases, submitVars, coordVars,
                 asleep, mine, controlVars, history>>

(* _submit_completion_handoff().  What a worker leaves behind when this    *)
(* raises is transferred to the deferred handoffs.                         *)
HandOff(w) ==
  /\ Is(w, "handing")
  /\ Submits(w, worker[w].owned, FALSE)
  /\ mine' = [mine EXCEPT ![w] = @ \cup {worker[w].owned}]
  /\ worker' = [worker EXCEPT ![w].owned = {}, ![w].pc =
        IF coord = "running" THEN "handed" ELSE "crashed"]
  /\ UNCHANGED <<shared, queueVars, leases, submitVars, coord, reserved, watched,
                 ledger, asleep, controlVars, history, faults>>

After(w) ==
  /\ Is(w, "handed")
  /\ worker' = [worker EXCEPT
       ![w].pc = IF ~stopReq THEN "top"
                 ELSE IF worker[w].pend = None THEN "leaving" ELSE "crashed",
       ![w].owned = IF stopReq THEN {worker[w].pend} \ {None} ELSE {},
       ![w].pend = IF stopReq THEN None ELSE @]
  /\ UNCHANGED <<OffQueue, queue, hidden, ops, asleep, ran>>

Leave(w) ==
  /\ Is(w, "leaving")
  /\ To(w, IF mine[w] = {} THEN "ended" ELSE "crashed")  \* waits, times out
  /\ UNCHANGED <<OffQueue, queue, hidden, ops, asleep, ran>>

(* A worker that ends unexpectedly takes the queue with it.                *)
Crash(w) ==
  /\ Is(w, "crashed")
  /\ LET failed == worker[w].owned \cup ({worker[w].pend} \ {None}) \cup DrainSet
     IN /\ TakeDrained(DrainSet)
        /\ Release(failed, pc)
        /\ worker' = [worker EXCEPT ![w].pc = IF failed = {} THEN "dead" ELSE "failing",
                                    ![w].owned = failed, ![w].pend = None,
                                    ![w].drained = DrainSet # {}]
        /\ dropped' = dropped \cup (failed \ worker[w].owned)
  /\ stopReq' = TRUE /\ state' = Failed
  /\ UNCHANGED <<closed, hidden, ops, answer, tx, outcome, unresolved, coordVars,
                 mine, controlVars, ran, faults>>

FailSubmit(w) ==
  /\ Is(w, "failing")
  /\ Submits(w, worker[w].owned, worker[w].drained)
  /\ To(w, IF Refuses(w, worker[w].owned, worker[w].drained)
           THEN "dead" ELSE "acking")
  /\ UNCHANGED <<shared, queueVars, leases, submitVars, coord, reserved, watched,
                 ledger, asleep, mine, controlVars, history, faults>>

(* The failures are acknowledged; or that takes too long, and shutdown()   *)
(* finds the operations open.                                              *)
FailAcked(w) ==
  /\ Is(w, "acking")
  /\ To(w, "dead")
  /\ \/ /\ Acked(w, worker[w].owned, worker[w].drained)
        /\ ops' = ops \ worker[w].owned
        /\ drainOp' = IF worker[w].drained THEN {} ELSE drainOp
        /\ box' = Forget(w, worker[w].owned, worker[w].drained)
     \/ UNCHANGED <<ops, drainOp, box>>
  /\ UNCHANGED <<shared, queue, hidden, leases, submitVars, coord, reserved,
                 watched, ledger, asleep, mine, controlVars, history, faults>>

-----------------------------------------------------------------------------
(* The coordinator, and _watch_completion()                                *)

OffCoord == <<shared, queueVars, leases, submitVars, reserved, watched, worker, mine,
              controlVars, history>>
End(S) == ledger' = [r \in Request |-> IF r \in S \cap Pending THEN "done"
                                       ELSE ledger[r]]

(* A handoff is processed and acknowledged; wake_waiters() lets the workers *)
(* retire it.                                                              *)
Handle(h) ==
  /\ coord \in {"running", "stopping"} /\ h \in box /\ h.st = "queued"
  /\ End(h.of)
  /\ box' = (box \ {h}) \cup {[h EXCEPT !.st = "acked"]}
  /\ asleep' = {}
  /\ UNCHANGED <<OffCoord, coord, faults>>

CoordFails ==
  /\ coord \in {"running", "stopping"} /\ state # "created" /\ Fault
  /\ coord' = "failing"
  /\ UNCHANGED <<OffCoord, ledger, box, asleep>>

FailOnlySubmitted ==
  /\ coord = "failing"
  /\ coord' = "failed"
  /\ End(UNION {h.of : h \in box})
  /\ box' = {[h EXCEPT !.st = "acked"] : h \in box}
  /\ asleep' = {}
  /\ UNCHANGED <<OffCoord, faults>>

(* fail_outstanding()                                                      *)
FailOutstanding ==
  /\ coord = "failing"
  /\ coord' = "failed"
  /\ End(Request)
  /\ box' = {[h EXCEPT !.st = "acked"] : h \in box}
  /\ asleep' = {}
  /\ UNCHANGED <<OffCoord, faults>>

(* The thread has been told to stop and has nothing left to process.       *)
CoordEnds ==
  /\ coord = "stopping" /\ \A h \in box : h.st # "queued"
  /\ coord' = "stopped"
  /\ End(Request)
  /\ box' = {[h EXCEPT !.st = "acked"] : h \in box}
  /\ asleep' = {}
  /\ UNCHANGED <<OffCoord, faults>>

Watch ==
  /\ ~watched /\ coord \in {"failing", "failed"}
  /\ ctl.at \notin {"finishing", "returned"}
  /\ watched' = TRUE
  /\ state' = Failed
  /\ TakeDrained(DrainSet)
  /\ Release(DrainSet, pc)
  /\ UNCHANGED <<stopReq, closed, hidden, ops, answer, tx, outcome, unresolved,
                 coord, reserved, ledger, box, worker, mine, controlVars,
                 history, faults>>

-----------------------------------------------------------------------------
(* run(): the producer, close_submission(), flush() and shutdown()         *)

OffControl == <<queue, hidden, drainOp, ops, leases, submitVars, coordVars,
                workerVars, history, faults>>
Then(label, next) == ctl' = [at |-> label, then |-> next, again |-> FALSE]
Go(label) == ctl' = At(label)

(* start(): every worker, or, when a thread cannot be started, some.       *)
Start ==
  /\ ctl.at = "created"
  /\ \E W \in SUBSET Worker :
       /\ worker' = [w \in Worker |-> IF w \in W THEN [Idle EXCEPT !.pc = "top"]
                                      ELSE Idle]
       /\ IF W = Worker
          THEN /\ state' = "running" /\ Go("producing")
               /\ UNCHANGED <<stopReq, faults>>
          ELSE /\ state' = "failed" /\ stopReq' = TRUE /\ Go("closing")
               /\ Fault
  /\ UNCHANGED <<closed, queueVars, leases, submitVars, coordVars, asleep, mine,
                 snap, flushed, ok, result, cancelOp, unloaded, history>>

(* The producer is done, or raises; or it is interrupted, and the queue is *)
(* cancelled.                                                              *)
Produced ==
  /\ ctl.at = "producing"
  /\ Go("closing") \/ Then("cancelling", "closing")
  /\ UNCHANGED <<OffControl, shared, snap, flushed, ok, result, cancelOp,
                 unloaded>>

OffSome == <<OffControl, snap, flushed, result, unloaded>>

CloseSubmission ==
  /\ ctl.at = "closing"
  /\ state' = IF state = "running" THEN "draining" ELSE state
  /\ Go("flush1")
  /\ UNCHANGED <<OffSome, stopReq, closed, ok, cancelOp>>

(* _flush_until(), first for flush(), then for shutdown().                 *)
Snapshot ==
  /\ ctl.at \in {"flush1", "flush2"}
  /\ snap' = Pending
  /\ Go(IF ctl.at = "flush1" THEN "wait1" ELSE "wait2")
  /\ UNCHANGED <<OffControl, shared, flushed, ok, result, cancelOp, unloaded>>

FlushEnds(done) ==
  /\ ctl.at \in {"wait1", "wait2"}
  /\ IF ctl.at = "wait1" THEN Go("resuming") ELSE Go("submitters")
  /\ flushed' = (ctl.at = "wait2" /\ done)
  /\ ok' = (ok /\ (ctl.at = "wait2" => done))
  /\ UNCHANGED <<stopReq, closed, hidden, answer, tx, outcome, unresolved, coord,
                 reserved, watched, ledger, worker, mine, snap, result,
                 cancelOp, unloaded, history, faults>>

Flush ==
  /\ snap \cap Pending = {} /\ coord = "running"
  /\ FlushEnds(TRUE)
  /\ LET retired == {h \in box : h.st = "acked" /\ h.of \cap ops # {}}
     IN /\ ops' = ops \ UNION {h.of : h \in retired}
        /\ box' = box \ retired
  /\ UNCHANGED <<state, queue, drainOp, asleep, leases, pc>>

FlushTimeout ==
  /\ snap \cap Pending # {} /\ coord = "running"
  /\ FlushEnds(FALSE)
  /\ UNCHANGED <<state, queue, drainOp, ops, box, asleep, leases, pc>>

FlushFails ==
  /\ coord # "running"
  /\ FlushEnds(FALSE)
  /\ state' = Failed
  /\ TakeDrained(DrainSet)
  /\ Release(DrainSet, pc)
  /\ UNCHANGED <<ops, box>>

(* shutdown() first completes a drain that somebody has left open.  One    *)
(* without a recorded reason cannot be completed.                          *)
Resume ==
  /\ ctl.at = "resuming"
  /\ IF drainOp = {} /\ cancelOp = NoCancel
     THEN Go("flush2") /\ UNCHANGED ok
     ELSE \/ Then("cancelling", "resumed") /\ UNCHANGED ok
          \/ Go("flush2") /\ ok' = FALSE
  /\ UNCHANGED <<OffSome, shared, cancelOp>>

Resumed ==
  /\ ctl.at = "resumed"
  /\ Go("flush2")
  /\ ok' = (ok /\ drainOp = {} /\ cancelOp = NoCancel)
  /\ UNCHANGED <<OffSome, shared, cancelOp>>

(* _wait_for_submitters(), and _cancel_preflight_submissions() when that   *)
(* takes too long.                                                         *)
Undecided == {r \in tx : outcome[r] = "none" /\ pc[r] = "reserved"}

WaitRegardless ==
  /\ ctl.at = "submitters"
  /\ \/ /\ \A r \in Request : pc[r] \in {"idle", "returned"}
        /\ UNCHANGED <<ok, tx, outcome, reserved, leases, pc>>
     \/ /\ \E r \in Request : pc[r] \notin {"idle", "returned"}
        /\ UNCHANGED ok
        /\ tx' = tx \ Undecided
        /\ outcome' = [r \in Request |-> IF r \in Undecided THEN "rejected"
                                         ELSE outcome[r]]
        /\ reserved' = reserved \ Undecided
        /\ Release(Undecided, pc)
  /\ IF flushed
     THEN Go("stopping") /\ UNCHANGED state
     ELSE Then("cancelling", "stopping") /\ state' = Failed
  /\ UNCHANGED <<stopReq, closed, queueVars, answer, unresolved, coord, watched,
                 ledger, box, workerVars, snap, flushed, result, cancelOp,
                 unloaded, history, faults>>

WaitForSubmitters ==
  /\ ctl.at = "submitters"
  /\ \/ /\ \A r \in Request : pc[r] \in {"idle", "returned"}
        /\ UNCHANGED <<ok, tx, outcome, reserved, leases, pc>>
     \/ /\ \E r \in Request : pc[r] \notin {"idle", "returned"}
        /\ ok' = FALSE
        /\ tx' = tx \ Undecided
        /\ outcome' = [r \in Request |-> IF r \in Undecided THEN "rejected"
                                         ELSE outcome[r]]
        /\ reserved' = reserved \ Undecided
        /\ Release(Undecided, pc)
  /\ IF flushed
     THEN Go("stopping") /\ UNCHANGED state
     ELSE Then("cancelling", "stopping") /\ state' = Failed
  /\ UNCHANGED <<stopReq, closed, queueVars, answer, unresolved, coord, watched,
                 ledger, box, workerVars, snap, flushed, result, cancelOp,
                 unloaded, history, faults>>

-----------------------------------------------------------------------------
(* _cancel_queued(), from an interrupt, a resumed drain or a shutdown that *)
(* could not flush                                                         *)

PendingOf(w) == {worker[w].pend} \ {None}

RetireCancelled ==
  /\ ops' = ops \ cancelOp.of
  /\ drainOp' = IF cancelOp.drain THEN {} ELSE drainOp
  /\ box' = Forget(Control, cancelOp.of, cancelOp.drain)
  /\ cancelOp' = NoCancel
CancelAcked == Acked(Control, cancelOp.of, cancelOp.drain)

(* _retire_deferred_cancellations()                                        *)
RetireCancel ==
  /\ cancelOp # NoCancel /\ ctl.at \notin {"submitting", "awaiting"}
  /\ CancelAcked
  /\ RetireCancelled
  /\ UNCHANGED <<shared, queue, hidden, leases, submitVars, coord, reserved, watched,
                 ledger, workerVars, ctl, snap, flushed, ok, result, unloaded,
                 history, faults>>

CollectCopying ==
  /\ ctl.at = "cancelling" /\ cancelOp = NoCancel
  /\ LET pending == UNION {PendingOf(w) : w \in Worker}
         all == DrainSet \cup pending
     IN /\ cancelOp' = [of |-> all, drain |-> DrainSet # {}]
        /\ TakeDrained(DrainSet)
        /\ Release(all, pc)
        /\ UNCHANGED worker
        /\ dropped' = dropped \cup all
        /\ ctl' = IF all = {} THEN At(ctl.then) ELSE [ctl EXCEPT !.at = "submitting"]
  /\ UNCHANGED <<shared, hidden, ops, answer, tx, outcome, unresolved, coordVars, mine,
                 snap, flushed, ok, result, unloaded, ran, faults>>

(* Everything in the queue and every worker's pending request.             *)
Collect ==
  /\ ctl.at = "cancelling" /\ cancelOp = NoCancel
  /\ LET pending == UNION {PendingOf(w) : w \in Worker}
         all == DrainSet \cup pending
     IN /\ cancelOp' = [of |-> all, drain |-> DrainSet # {}]
        /\ TakeDrained(DrainSet)
        /\ Release(all, pc)
        /\ worker' = [w \in Worker |-> [worker[w] EXCEPT !.pend = None]]
        /\ dropped' = dropped \cup all
        /\ ctl' = IF all = {} THEN At(ctl.then) ELSE [ctl EXCEPT !.at = "submitting"]
  /\ UNCHANGED <<shared, hidden, ops, answer, tx, outcome, unresolved, coordVars, mine,
                 snap, flushed, ok, result, unloaded, ran, faults>>

(* A cancellation that was not acknowledged is submitted once more.        *)
CollectAgain ==
  /\ ctl.at = "cancelling" /\ cancelOp # NoCancel /\ ~CancelAcked
  /\ ctl' = [ctl EXCEPT !.at = "submitting", !.again = TRUE]
  /\ UNCHANGED <<OffSome, shared, ok, cancelOp>>

CancelSubmit ==
  /\ ctl.at = "submitting"
  /\ Submits(Control, cancelOp.of, cancelOp.drain)
  /\ IF Refuses(Control, cancelOp.of, cancelOp.drain)
     THEN Go(ctl.then) /\ state' = Failed
     ELSE ctl' = [ctl EXCEPT !.at = "awaiting"] /\ UNCHANGED state
  /\ UNCHANGED <<stopReq, closed, queueVars, leases, submitVars, coord, reserved,
                 watched, ledger, workerVars, snap, flushed, ok, result,
                 cancelOp, unloaded, history, faults>>

CancelEnds ==
  /\ ctl.at = "awaiting"
  /\ \/ /\ CancelAcked /\ RetireCancelled
        /\ ctl' = IF ctl.again THEN [ctl EXCEPT !.at = "cancelling", !.again = FALSE]
                  ELSE At(ctl.then)
        /\ UNCHANGED state
     \/ /\ ~CancelAcked
        /\ Go(ctl.then) /\ state' = Failed
        /\ UNCHANGED <<ops, drainOp, box, cancelOp>>
  /\ UNCHANGED <<stopReq, closed, queue, hidden, leases, submitVars, coord, reserved,
                 watched, ledger, workerVars, snap, flushed, ok, result,
                 unloaded, history, faults>>

-----------------------------------------------------------------------------
(* The rest of shutdown()                                                  *)

OffStop == <<hidden, drainOp, ops, leases, submitVars, reserved, watched, ledger,
             box, worker, mine, snap, flushed, result, cancelOp, unloaded,
             history, faults>>

RequestStop ==
  /\ ctl.at = "stopping"
  /\ stopReq' = TRUE
  /\ Go("placing")
  /\ UNCHANGED <<OffSome, state, closed, ok, cancelOp>>

PlaceStopBlocking ==
  /\ ctl.at = "placing"
  /\ Len(queue) < Capacity
  /\ queue' = Append(queue, Stop) /\ WakeOne
  /\ UNCHANGED ok
  /\ Go("sealing")
  /\ UNCHANGED <<OffStop, shared, coord>>

PlaceStop ==
  /\ ctl.at = "placing"
  /\ \/ /\ Len(queue) < Capacity
        /\ queue' = Append(queue, Stop) /\ WakeOne
        /\ UNCHANGED ok
     \/ /\ Len(queue) >= Capacity    \* Full
        /\ ok' = FALSE
        /\ UNCHANGED <<queue, asleep>>
  /\ Go("sealing")
  /\ UNCHANGED <<OffStop, shared, coord>>

SealSilently ==
  /\ ctl.at = "sealing"
  /\ closed' = TRUE
  /\ UNCHANGED asleep
  /\ Go(IF flushed THEN "joining" ELSE "telling")
  /\ UNCHANGED <<OffStop, state, stopReq, queue, coord, ok>>

(* requests.close()                                                        *)
Seal ==
  /\ ctl.at = "sealing"
  /\ closed' = TRUE
  /\ asleep' = {}
  /\ Go(IF flushed THEN "joining" ELSE "telling")
  /\ UNCHANGED <<OffStop, state, stopReq, queue, coord, ok>>

Gone(w) == worker[w].pc \in {"off", "ended", "dead"}

JoinRegardless ==
  /\ ctl.at = "joining"
  /\ UNCHANGED ok
  /\ Go(IF flushed THEN "telling" ELSE "finishing")
  /\ UNCHANGED <<OffStop, shared, queue, asleep, coord>>

Join ==
  /\ ctl.at = "joining"
  /\ ok' = (ok /\ \A w \in Worker : Gone(w))
  /\ Go(IF flushed THEN "telling" ELSE "finishing")
  /\ UNCHANGED <<OffStop, shared, queue, asleep, coord>>

(* coordinator.stop()                                                      *)
TellCoordinator ==
  /\ ctl.at = "telling"
  /\ coord' = IF coord = "running" THEN "stopping" ELSE coord
  /\ Go("ending")
  /\ UNCHANGED <<OffStop, shared, queue, asleep, ok>>

AwaitCoordinator ==
  /\ ctl.at = "ending"
  /\ ok' = (ok /\ coord = "stopped" /\ reserved = {})
  /\ Go(IF flushed THEN "finishing" ELSE "joining")
  /\ UNCHANGED <<OffStop, shared, queue, asleep, coord>>

(* What is still queued is abandoned, and whatever is not settled makes    *)
(* the answer False.                                                       *)
Settled ==
  /\ Queued = {} /\ drainOp = {} /\ ops = {} /\ box = {}
  /\ cancelOp = NoCancel /\ unresolved = {}
  /\ \A w \in Worker : mine[w] = {}

Finish ==
  /\ ctl.at = "finishing"
  /\ ok' = (ok /\ Settled)
  /\ drainOp' = DrainSet
  /\ queue' = Without(DrainSet \cup {Stop})
  /\ Release(DrainSet, pc)
  /\ state' = IF ok /\ Settled THEN "stopped" ELSE "failed"
  /\ result' = IF ok /\ Settled THEN "true" ELSE "false"
  /\ Go("returned")
  /\ UNCHANGED <<stopReq, closed, hidden, ops, answer, tx, outcome, unresolved, coordVars,
                 workerVars, snap, flushed, cancelOp, unloaded, history, faults>>

(* main.py unloads the runtime when run() has said that it is safe.        *)
Unload ==
  /\ ctl.at = "returned" /\ ~unloaded
  /\ result = "true" /\ Pending = {} /\ unresolved = {}
  /\ unloaded' = TRUE
  /\ UNCHANGED <<OffControl, shared, ctl, snap, flushed, ok, result, cancelOp>>

-----------------------------------------------------------------------------
Submitter(r) ==
  \/ Enter(r) \/ Acquire(r) \/ SleepForSlot(r) \/ RejectEarly(r) \/ Reserve(r)
  \/ Refused(r) \/ Publish(r) \/ PublishRaises(r) \/ Recover(r) \/ Complete(r)
  \/ CompleteTimeout(r) \/ Undo(r)

WorkerStep(w) ==
  \/ RetireMine(w) \/ Take(w) \/ TakePending(w) \/ SleepOrLeave(w)
  \/ Dequeued(w) \/ TakeCandidate(w) \/ AwaitCandidate(w) \/ Candidate(w)
  \/ Execute(w) \/ PassStop(w) \/ HandOff(w) \/ After(w) \/ Leave(w)
  \/ Crash(w) \/ FailSubmit(w) \/ FailAcked(w)

Coordinator ==
  \/ \E h \in box : Handle(h)
  \/ FailOutstanding \/ CoordEnds \/ Watch

Cancellation ==
  Collect \/ CollectAgain \/ CancelSubmit \/ CancelEnds \/ RetireCancel

Controller ==
  \/ Start \/ Produced \/ CloseSubmission \/ Snapshot \/ Flush \/ FlushTimeout
  \/ FlushFails \/ Resume \/ Resumed \/ WaitForSubmitters \/ Cancellation
  \/ RequestStop \/ PlaceStop \/ Seal \/ Join \/ TellCoordinator
  \/ AwaitCoordinator \/ Finish \/ Unload

Next ==
  \/ \E r \in Request : Submitter(r)
  \/ \E w \in Worker : WorkerStep(w) \/ Executed(w)
  \/ Coordinator \/ CoordFails \/ Controller

Spec == Init /\ [][Next]_vars

(* Every deadline passes, so every waiting thread moves; the producer ends *)
(* its input, but execute() may hang.                                      *)
FairSpec ==
  /\ Spec
  /\ \A r \in Request : WF_vars(Submitter(r) /\ UNCHANGED faults)
  /\ \A w \in Worker : WF_vars(WorkerStep(w) /\ UNCHANGED faults)
  /\ WF_vars(Coordinator /\ UNCHANGED faults) /\ WF_vars(Controller /\ UNCHANGED faults)

-----------------------------------------------------------------------------
(* Properties                                                              *)

SubmitPc == {"idle", "entered", "asleep", "leased", "reserved", "published",
             "recovering", "rejecting", "raising", "returned"}
WorkerPc == {"off", "top", "dequeued", "batching", "waiting", "candidate",
             "full", "passing", "running", "handing", "handed", "leaving",
             "ended", "crashed", "failing", "acking", "dead"}
ControlPc == {"created", "producing", "closing", "flush1", "wait1", "resuming",
              "resumed", "flush2", "wait2", "submitters", "cancelling",
              "submitting", "awaiting", "stopping", "placing", "sealing",
              "joining", "telling", "ending", "finishing", "returned"}

(* The type invariant: each variable keeps to the values the engine, its   *)
(* threads and its runner give it.                                         *)
TypeOK ==
  /\ state \in {"created", "running", "draining", "stopped", "failed"}
  /\ {stopReq, closed, flushed, ok, unloaded, watched} \subseteq BOOLEAN
  /\ queue \in Seq(Request \cup {Stop}) /\ hidden \subseteq Request
  /\ drainOp \subseteq Request /\ ops \subseteq Request
  /\ leases \subseteq Request /\ tx \subseteq Request
  /\ pc \in [Request -> SubmitPc]
  /\ answer \in [Request -> {"none", "true", "false", "raised"}]
  /\ outcome \in [Request -> {"none", "accepted", "rejected"}]
  /\ unresolved \subseteq Request /\ reserved \subseteq Request
  /\ coord \in {"running", "failing", "failed", "stopping", "stopped"}
  /\ ledger \in [Request -> {"none", "pending", "done"}]
  /\ box \subseteq [by : Worker \cup Request \cup {Control}, of : SUBSET Request,
                    drain : BOOLEAN, st : {"queued", "acked", "refused"}]
  /\ worker \in [Worker -> [pc : WorkerPc, owned : SUBSET Request,
                            pend : Request \cup {None}, drained : BOOLEAN,
                            failures : Nat]]
  /\ asleep \subseteq Worker /\ mine \in [Worker -> SUBSET SUBSET Request]
  /\ ctl \in [at : ControlPc, then : ControlPc \cup {""}, again : BOOLEAN]
  /\ cancelOp \in [of : SUBSET Request, drain : BOOLEAN]
  /\ snap \subseteq Request /\ result \in {"none", "true", "false"}
  /\ ran \subseteq Request /\ dropped \subseteq Request /\ faults \in 0..MaxFault

(* No slot leaks: whoever holds one is still being submitted, is queued,   *)
(* has just been taken out, or is a submission whose recovery failed.      *)
LeaseHasOwner ==
  leases \subseteq
    {r \in Request : pc[r] \notin {"idle", "entered", "asleep", "returned"}}
    \cup Queued \cup unresolved
    \cup UNION {worker[w].owned \cup PendingOf(w) :
               w \in {v \in Worker : worker[v].pc \in {"dequeued", "candidate", "crashed"}}}

(* A request that a cancellation, a worker that dies or a failing          *)
(* coordinator takes back is not run as well, though workers keep taking   *)
(* requests while cancel_queued() drains the queue and claims the pending  *)
(* ones.                                                                   *)
NeverRunAndDropped == ran \cap dropped = {}

(* shutdown() answers True only when every acceptance has its terminal     *)
(* record, every slot is back, nobody is in submit() with a registration,  *)
(* and no thread of the engine is left, whatever its deadlines were.       *)
TrueMeansSettled ==
  result = "true" =>
    /\ Pending = {} /\ leases = {} /\ tx = {} /\ reserved = {}
    /\ \A r \in Request : outcome[r] = "accepted" => ledger[r] = "done"
    /\ \A w \in Worker : Gone(w)
    /\ coord = "stopped"

(* main.py does not unload the runtime under a worker that is in execute() *)
(* or could enter it again.                                                *)
UnloadedOnlyWhenIdle ==
  unloaded => \A w \in Worker : Gone(w) \/ worker[w].pc = "leaving"

(* notify() wakes one worker only: when a request can be taken and a       *)
(* worker sleeps, another is on its way to it.                             *)
NoSleepOnWork ==
  \A w \in asleep : HeadVisible =>
    \E v \in Worker \ asleep : worker[v].pc \in {"top", "batching", "waiting"}

(* The engine keeps the contract with its callers.                         *)
Contract ==
  INSTANCE EngineContract WITH
    open <- state \in {"created", "running"},
    fate <- [r \in Request |->
               IF ledger[r] = "done" THEN "ended"
               ELSE outcome[r]]
ImplementsContract == Contract!Spec

(* shutdown() returns, though submitters, workers, the coordinator and the *)
(* controller wait for each other, the queue may have no room for the stop *)
(* token, and the runtime may hang.                                        *)
ShutdownReturns == ctl.at = "closing" ~> ctl.at = "returned"

(* Every accepted request gets its terminal record, even when execute()    *)
(* hangs, a worker dies or the coordinator fails.                          *)
EveryAcceptedEnds == \A r \in Request : ledger[r] = "pending" ~> ledger[r] = "done"

(* Once the queue is closed every worker leaves, unless execute() keeps it. *)
WorkersLeave ==
  \A w \in Worker : closed /\ worker[w].pc # "running"
                     ~> Gone(w) \/ worker[w].pc = "running"
=============================================================================
