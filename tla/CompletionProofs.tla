-------------------------- MODULE CompletionProofs --------------------------
(***************************************************************************)
(* Proofs about CompletionCoordinator, for any set of requests, workers    *)
(* and operation keys and any capacity of the queue: the type invariant,   *)
(* the safety properties, the finality of terminals, and the refinement of *)
(* CompletionContract.  IInv is the inductive invariant.                   *)
(***************************************************************************)
EXTENDS CompletionCoordinator, TLAPS

(* The states of a handoff and the steps of a worker, as TypeOK has them.  *)
HandoffState == {"none", "ENQUEUING", "ENQUEUED", "DEQUEUED", "ACKED", "retired"}
WorkerStep == {"idle", "put", "full", "placed", "raised", "blocked", "await", "wait",
               "retire", "release"}
USE DEF HandoffState, WorkerStep

Handling == {"evaluate", "claim", "metrics", "commit", "pop"}
Holding == Handling \cup {"member", "ack", "lease"}
Claimed == {"metrics", "commit", "failmetrics", "failcommit"}
Ending == {"drain", "snapshot", "fail", "failmetrics", "failcommit", "final",
           "farewell", "dead"}

(* A request that has its terminal, and a batch of such requests.          *)
Over(r) == record[r] = "committed" /\ r \notin outstanding
Done(h) == \A r \in batch[h] : Over(r)

(* The sentinel is queued by stop() only, a batch by submit() only.        *)
QueueInv ==
  \A i \in DOMAIN queue :
    /\ queue[i] = Sentinel => state # "running"
    /\ queue[i] \in Handoff => handoff[queue[i]] # "none"

(* A worker between submission and retirement works for a known handoff,   *)
(* and those it has still to retire are known.                             *)
WorkerInv ==
  \A p \in Producer :
    /\ pc[p] # "idle" => mine[p] \in Handoff /\ handoff[mine[p]] # "none"
    /\ pc[p] \in {"retire", "release"} => Done(mine[p])
    /\ \A h \in pending[p] : handoff[h] # "none"

(* Who acknowledged, retired or released a batch has seen it done.         *)
BatchInv ==
  \A h \in Handoff :
    /\ handoff[h] = "none" <=> batch[h] = {}
    /\ \A r \in batch[h] : record[r] # "none"
    /\ handoff[h] \in {"ACKED", "retired"} => Done(h)
    /\ h \in released => handoff[h] # "none" /\ Done(h)

(* What the states of a terminal record say of ledger and metrics.         *)
LedgerInv ==
  \A r \in Request :
    /\ r \in reservations => record[r] = "none"
    /\ record[r] = "none" => recorded[r] = 0 /\ r \notin outstanding
    /\ record[r] = "pending" => recorded[r] = 0 /\ r \in outstanding
    /\ recorded[r] <= 1
    /\ record[r] = "committed" /\ faults = 0 => recorded[r] = 1
    /\ record[r] = "committed" /\ r \in outstanding =>
         thread = "pop" /\ r = current
    /\ record[r] = "claimed" =>
         \/ thread \in Claimed /\ r = current
         \/ thread \in Ending \cup {"crash"} /\ faults > 0

(* The batch in the completion thread's hands: the members still to come,  *)
(* the one at work and those that are over make up all of it.              *)
ThreadInv ==
  /\ thread \in Holding => item \in Handoff /\ handoff[item] # "none"
  /\ thread \in Handling =>
       /\ known \subseteq batch[item]
       /\ \A r \in known : record[r] = "pending"
       /\ \A r \in batch[item] \ known :
            Over(r) \/ (thread \in {"metrics", "commit", "pop"} /\ r = current)
  /\ thread \in {"ack", "lease"} => Done(item)
  /\ thread \in Claimed => current \in Request /\ record[current] = "claimed"
  /\ thread \in {"metrics", "failmetrics"} => recorded[current] = 0
  /\ thread = "commit" => recorded[current] = 1
  /\ thread = "failcommit" /\ faults = 0 => recorded[current] = 1
  /\ thread = "pop" => current \in Request /\ record[current] = "committed"

(* The thread finishes only when nothing can be accepted any more, and     *)
(* works off what was outstanding then.                                    *)
EndingInv ==
  /\ thread \in Ending => state # "running"
  /\ state = "stopped" => thread \in {"farewell", "dead"}
  /\ thread = "fail" => outstanding \subseteq failing
  /\ thread \in {"failmetrics", "failcommit"} => outstanding \subseteq failing \cup {current}
  /\ thread \in {"final", "farewell", "dead"} => outstanding = {}
  /\ stopResult = "true" =>
       state = "stopped" /\ reservations = {} /\ stopper = "idle"

IInv ==
  /\ TypeOK /\ QueueInv /\ WorkerInv /\ BatchInv /\ LedgerInv /\ ThreadInv
  /\ EndingInv

-----------------------------------------------------------------------------
(* An item is added at the end of the queue.                              *)
LEMMA Appended ==
  ASSUME NEW S, NEW q \in Seq(S), NEW x \in S
  PROVE  /\ Append(q, x) \in Seq(S) /\ Len(Append(q, x)) = Len(q) + 1
         /\ \A i \in DOMAIN Append(q, x) :
              \/ i \in DOMAIN q /\ Append(q, x)[i] = q[i]
              \/ Append(q, x)[i] = x
  OBVIOUS

(* The first item is taken from the queue.                                *)
LEMMA Shortened ==
  ASSUME NEW S, NEW q \in Seq(S), q # <<>>
  PROVE  /\ Head(q) \in S /\ Head(q) = q[1] /\ 1 \in DOMAIN q
         /\ Tail(q) \in Seq(S) /\ Len(Tail(q)) = Len(q) - 1
         /\ \A i \in DOMAIN Tail(q) : i + 1 \in DOMAIN q /\ Tail(q)[i] = q[i + 1]
  OBVIOUS

(* The count of faults stays within its bound.                            *)
LEMMA Counted ==
  ASSUME NEW M \in Nat, NEW n \in 0..M, NEW m, (n < M /\ m = n + 1) \/ m = n
  PROVE  m \in 0..M
  OBVIOUS

-----------------------------------------------------------------------------
(* One lemma per action.  Its first step has the parts of the invariant    *)
(* whose variables the action leaves alone.                                *)

(* A key is reserved only while the coordinator runs and has no record.    *)
LEMMA ReserveStep ==
  ASSUME IInv, NEW r \in Request, Reserve(r)
  PROVE  IInv'
  <1>1. QueueInv' /\ WorkerInv' /\ BatchInv' /\ ThreadInv'
    BY DEF Reserve, handoffs, threadVars, workerVars, seen, IInv, QueueInv,
       WorkerInv, Done, Over, BatchInv, ThreadInv
  <1>2. TypeOK'
    BY DEF Reserve, handoffs, threadVars, workerVars, stopVars, seen, IInv,
       TypeOK
  <1>3. LedgerInv'
    BY DEF Reserve, threadVars, seen, IInv, LedgerInv, Claimed, Ending
  <1>4. EndingInv'
    BY DEF Reserve, threadVars, stopVars, IInv, EndingInv, Ending
  <1> QED BY <1>1, <1>2, <1>3, <1>4 DEF IInv

(* The reserved request has no record yet, and the thread is not ending.   *)
LEMMA CommitStep ==
  ASSUME IInv, NEW r \in Request, Commit(r)
  PROVE  IInv'
  <1>1. QueueInv'
    BY DEF Commit, handoffs, IInv, QueueInv
  <1>2. TypeOK'
    BY DEF Commit, SetRecord, NotifyAll, handoffs, threadVars, workerVars,
       stopVars, seen, IInv, TypeOK
  <1>3. WorkerInv'
    BY DEF Commit, SetRecord, handoffs, workerVars, IInv, WorkerInv,
       LedgerInv, Done, Over, Claimed, Ending
  <1>4. BatchInv'
    BY DEF Commit, SetRecord, handoffs, seen, IInv, BatchInv, LedgerInv, Done,
       Over, Claimed, Ending
  <1>5. LedgerInv'
    BY DEF Commit, SetRecord, threadVars, seen, IInv, LedgerInv, TypeOK,
       Claimed, Ending
  <1>6. ThreadInv'
    BY DEF Commit, SetRecord, handoffs, threadVars, seen, IInv, ThreadInv,
       LedgerInv, Done, Over, Handling, Holding, Claimed, Ending
  <1>7. EndingInv'
    BY DEF Commit, threadVars, stopVars, IInv, EndingInv, Ending
  <1> QED BY <1>1, <1>2, <1>3, <1>4, <1>5, <1>6, <1>7 DEF IInv

(* A reservation is given back.                                            *)
LEMMA AbortStep ==
  ASSUME IInv, NEW r \in Request, Abort(r)
  PROVE  IInv'
  <1>1. QueueInv' /\ WorkerInv' /\ BatchInv' /\ ThreadInv'
    BY DEF Abort, handoffs, threadVars, workerVars, seen, IInv, QueueInv,
       WorkerInv, Done, Over, BatchInv, ThreadInv
  <1>2. TypeOK'
    BY DEF Abort, NotifyAll, handoffs, threadVars, workerVars, stopVars, seen,
       IInv, TypeOK
  <1>3. LedgerInv'
    BY DEF Abort, threadVars, seen, IInv, LedgerInv, Claimed, Ending
  <1>4. EndingInv'
    BY DEF Abort, threadVars, stopVars, IInv, EndingInv, Ending
  <1> QED BY <1>1, <1>2, <1>3, <1>4 DEF IInv

(* The rejected request is in no batch: no batch in work loses a member.   *)
LEMMA UnregisterStep ==
  ASSUME IInv, NEW r \in Request, Unregister(r)
  PROVE  IInv'
  <1>1. QueueInv'
    BY DEF Unregister, handoffs, IInv, QueueInv
  <1>2. TypeOK'
    BY DEF Unregister, NotifyAll, handoffs, threadVars, workerVars, stopVars,
       seen, IInv, TypeOK
  <1>3. WorkerInv'
    BY DEF Unregister, handoffs, workerVars, IInv, WorkerInv, Done, Over
  <1>4. BatchInv'
    BY DEF Unregister, handoffs, seen, IInv, BatchInv, Done, Over
  <1>5. LedgerInv'
    BY DEF Unregister, threadVars, seen, IInv, LedgerInv, TypeOK, Claimed,
       Ending
  <1>6. ThreadInv'
    BY DEF Unregister, handoffs, threadVars, seen, IInv, ThreadInv, Done,
       Over, Handling, Holding, Claimed
  <1>7. EndingInv'
    BY DEF Unregister, threadVars, stopVars, IInv, EndingInv, Ending
  <1> QED BY <1>1, <1>2, <1>3, <1>4, <1>5, <1>6, <1>7 DEF IInv

(* A batch is set once, of registered requests, or handed in again.        *)
LEMMA SubmitStep ==
  ASSUME IInv, NEW p \in Producer, NEW h \in Handoff, NEW b \in (SUBSET Request) \ {{}},
         Submit(p, h, b)
  PROVE  IInv'
  <1>1. LedgerInv' /\ EndingInv'
    BY DEF Submit, ledger, threadVars, stopVars, seen, IInv, LedgerInv,
       EndingInv
  <1>2. TypeOK'
    <2>1. handoff' \in [Handoff -> HandoffState]
      BY DEF Submit, Turn, SetHandoff, IInv, TypeOK
    <2>2. asleep' \subseteq Producer \cup {Stopper}
      BY DEF Submit, Turn, NotifyAll, IInv, TypeOK
    <2>3. pc' \in [Producer -> WorkerStep]
      BY DEF Submit, Turn, Worker, IInv, TypeOK
    <2>4. mine' \in [Producer -> Handoff \cup {Nothing}] /\ batch' \in [Handoff -> SUBSET Request]
      BY DEF Submit, IInv, TypeOK
    <2> QED BY <2>1, <2>2, <2>3, <2>4 DEF Submit, ledger, retirement, threadVars, stopVars, seen, IInv, TypeOK
  <1>3. QueueInv'
    BY DEF Submit, Turn, SetHandoff, IInv, QueueInv, TypeOK
  <1>4. WorkerInv'
    BY DEF Submit, retirement, Turn, Worker, SetHandoff, ledger, IInv, WorkerInv, TypeOK,
       Done, Over
  <1>5. BatchInv'
    <2>1. /\ handoff'[h] # "none"
          /\ handoff'[h] \in {"ACKED", "retired"} => handoff[h] = handoff'[h]
      BY DEF Submit, Turn, SetHandoff, IInv, TypeOK
    <2>4. batch'[h] = b /\ b # {}
      <3>1. batch' = [batch EXCEPT ![h] = b] /\ DOMAIN batch = Handoff
        BY DEF Submit, IInv, TypeOK
      <3>2. b # {}
        OBVIOUS
      <3> QED BY <3>1, <3>2
    <2>3. /\ handoff[h] # "none" => batch[h] = b
          /\ \A r \in b : record[r] # "none"
      BY DEF Submit, IInv, BatchInv
    <2>2. \A g \in Handoff : g # h => handoff'[g] = handoff[g] /\ batch'[g] = batch[g]
      BY DEF Submit, Turn, SetHandoff, IInv, TypeOK
    <2> QED BY <2>1, <2>2, <2>3, <2>4 DEF Submit, ledger, seen, IInv, BatchInv, Done, Over
  <1>6. ThreadInv'
    BY DEF Submit, Turn, SetHandoff, ledger, threadVars, seen, IInv,
       ThreadInv, TypeOK, Done, Over, Handling, Holding, Claimed
  <1> QED BY <1>1, <1>2, <1>3, <1>4, <1>5, <1>6 DEF IInv

(* Another turn of the loop of submit().                                   *)
LEMMA WakeUpStep ==
  ASSUME IInv, NEW p \in Producer, WakeUp(p)
  PROVE  IInv'
  <1>1. LedgerInv' /\ EndingInv'
    BY DEF WakeUp, ledger, threadVars, stopVars, seen, IInv, LedgerInv,
       EndingInv
  <1>2. TypeOK'
    <2>1. handoff' \in [Handoff -> HandoffState]
      <3>1. mine[p] \in Handoff /\ handoff[mine[p]] \in HandoffState
        BY DEF WakeUp, IInv, TypeOK, WorkerInv
      <3>2. \E x \in HandoffState :
              handoff' = [handoff EXCEPT ![mine[p]] = x]
        BY <3>1 DEF WakeUp, Turn, SetHandoff
      <3> QED BY <3>1, <3>2 DEF IInv, TypeOK
    <2>2. pc' \in [Producer -> WorkerStep]
      BY DEF WakeUp, Turn, Worker, IInv, TypeOK
    <2>3. asleep' \subseteq Producer \cup {Stopper}
      BY DEF WakeUp, Turn, NotifyAll, IInv, TypeOK
    <2> QED BY <2>1, <2>2, <2>3 DEF WakeUp, ledger, retirement, threadVars, stopVars, seen,
            IInv, TypeOK
  <1>3. QueueInv'
    BY DEF WakeUp, Turn, SetHandoff, IInv, QueueInv, TypeOK
  <1>4. WorkerInv'
    BY DEF WakeUp, retirement, Turn, Worker, SetHandoff, ledger, IInv, WorkerInv, TypeOK,
       Done, Over
  <1>5. BatchInv'
    BY DEF WakeUp, Turn, SetHandoff, ledger, seen, IInv, WorkerInv, BatchInv,
       TypeOK, Done, Over
  <1>6. ThreadInv'
    BY DEF WakeUp, Turn, SetHandoff, ledger, threadVars, seen, IInv,
       ThreadInv, TypeOK, Done, Over, Handling, Holding, Claimed
  <1> QED BY <1>1, <1>2, <1>3, <1>4, <1>5, <1>6 DEF IInv

(* The item placed is the worker's handoff, which is known.                *)
LEMMA PutStep ==
  ASSUME IInv, NEW p \in Producer, Put(p)
  PROVE  IInv'
  <1>1. BatchInv' /\ EndingInv'
    BY DEF Put, ledger, handoffs, threadVars, stopVars, seen, IInv, BatchInv,
       Done, Over, EndingInv
  <1>2. TypeOK'
    <2>1. /\ mine[p] \in Handoff
          /\ queue \in Seq(Handoff \cup {Sentinel}) /\ Len(queue) \in Nat /\ Len(queue) <= MaxQueue
      BY DEF Put, IInv, TypeOK, WorkerInv
    <2>2. /\ Append(queue, mine[p]) \in Seq(Handoff \cup {Sentinel})
          /\ Len(Append(queue, mine[p])) = Len(queue) + 1
      BY <2>1, Appended
    <2>3. queue' \in Seq(Handoff \cup {Sentinel}) /\ Len(queue') <= MaxQueue
      BY <2>1, <2>2, CoordinatorAssumption DEF Put
    <2>4. faults' \in 0..MaxFault
      BY CoordinatorAssumption, Counted DEF Put, IInv, TypeOK
    <2>5. pc' \in [Producer -> WorkerStep]
      BY DEF Put, Worker, IInv, TypeOK
    <2> QED BY <2>3, <2>4, <2>5 DEF Put, ledger, retirement, handoffs, threadVars, stopVars, seen,
            IInv, TypeOK
  <1>3. QueueInv'
    <2> SUFFICES ASSUME NEW i \in DOMAIN queue'
                 PROVE  /\ queue'[i] = Sentinel => state' # "running"
                        /\ queue'[i] \in Handoff => handoff'[queue'[i]] # "none"
      BY DEF QueueInv
    <2>1. mine[p] \in Handoff /\ handoff[mine[p]] # "none"
      BY DEF Put, IInv, WorkerInv
    <2>2. (i \in DOMAIN queue /\ queue'[i] = queue[i]) \/ queue'[i] = mine[p]
      <3>1. queue \in Seq(Handoff \cup {Sentinel})
        BY DEF IInv, TypeOK
      <3> QED BY <2>1, <3>1, Appended DEF Put
    <2> QED BY <2>1, <2>2, CoordinatorAssumption DEF Put, handoffs, IInv, QueueInv
  <1>4. WorkerInv'
    BY DEF Put, retirement, Worker, ledger, handoffs, IInv, WorkerInv, TypeOK, Done, Over
  <1>5. LedgerInv'
    BY DEF Put, ledger, threadVars, seen, IInv, LedgerInv, TypeOK, Claimed,
       Ending
  <1>6. ThreadInv'
    BY DEF Put, ledger, handoffs, threadVars, seen, IInv, ThreadInv, TypeOK,
       Done, Over, Handling, Holding, Claimed
  <1> QED BY <1>1, <1>2, <1>3, <1>4, <1>5, <1>6 DEF IInv

(* Waiting for the next change.                                            *)
LEMMA FullStep ==
  ASSUME IInv, NEW p \in Producer, Full(p)
  PROVE  IInv'
  <1>1. QueueInv' /\ BatchInv' /\ LedgerInv' /\ ThreadInv' /\ EndingInv'
    BY DEF Full, ledger, handoffs, threadVars, stopVars, seen, IInv, QueueInv,
       BatchInv, Done, Over, LedgerInv, ThreadInv, EndingInv
  <1>2. TypeOK'
    <2>1. pc' \in [Producer -> WorkerStep]
      BY DEF Full, Worker, IInv, TypeOK
    <2>2. asleep' \subseteq Producer \cup {Stopper}
      BY DEF Full, NotifyAll, IInv, TypeOK
    <2> QED BY <2>1, <2>2 DEF Full, ledger, retirement, handoffs, threadVars, stopVars, seen,
            IInv, TypeOK
  <1>3. WorkerInv'
    BY DEF Full, retirement, Worker, ledger, handoffs, IInv, WorkerInv, TypeOK, Done, Over
  <1> QED BY <1>1, <1>2, <1>3 DEF IInv

(* An item that has been placed is at least enqueued.                      *)
LEMMA PlacedStep ==
  ASSUME IInv, NEW p \in Producer, Placed(p)
  PROVE  IInv'
  <1>1. LedgerInv' /\ EndingInv'
    BY DEF Placed, ledger, threadVars, stopVars, seen, IInv, LedgerInv,
       EndingInv
  <1>2. TypeOK'
    BY DEF Placed, retirement, Worker, NotifyAll, ledger, threadVars, stopVars, seen,
       IInv, TypeOK, WorkerInv, Done, Over
  <1>3. QueueInv'
    BY DEF Placed, IInv, QueueInv
  <1>4. WorkerInv'
    BY DEF Placed, retirement, Worker, ledger, IInv, WorkerInv, Done, Over
  <1>5. BatchInv'
    BY DEF Placed, ledger, seen, IInv, BatchInv, Done, Over
  <1>6. ThreadInv'
    BY DEF Placed, ledger, threadVars, seen, IInv, ThreadInv, Done, Over,
       Handling, Holding, Claimed
  <1> QED BY <1>1, <1>2, <1>3, <1>4, <1>5, <1>6 DEF IInv

(* What settles a handoff is a batch that is done.                         *)
LEMMA AwaitAckStep ==
  ASSUME IInv, NEW p \in Producer, AwaitAck(p)
  PROVE  IInv'
  <1>1. LedgerInv' /\ EndingInv'
    BY DEF AwaitAck, ledger, threadVars, stopVars, seen, IInv, LedgerInv,
       EndingInv
  <1>2. TypeOK'
    <2>1. handoff' \in [Handoff -> HandoffState]
      BY DEF AwaitAck, SetHandoff, IInv, TypeOK
    <2>2. asleep' \subseteq Producer \cup {Stopper}
      BY DEF AwaitAck, Sleep, NotifyAll, IInv, TypeOK
    <2>3. pc' \in [Producer -> WorkerStep]
      BY DEF AwaitAck, Worker, IInv, TypeOK
    <2> QED BY <2>1, <2>2, <2>3 DEF AwaitAck, ledger, retirement, threadVars, stopVars, seen, IInv, TypeOK
  <1>3. QueueInv'
    BY DEF AwaitAck, SetHandoff, IInv, QueueInv, TypeOK
  <1>4. WorkerInv'
    BY DEF AwaitAck, retirement, Worker, SetHandoff, Queued, HandoffTerminal, Settled,
       ledger, IInv, WorkerInv, TypeOK, BatchInv, Done, Over
  <1>5. BatchInv'
    BY DEF AwaitAck, SetHandoff, Queued, HandoffTerminal, Settled, ledger,
       seen, IInv, BatchInv, TypeOK, Done, Over
  <1>6. ThreadInv'
    BY DEF AwaitAck, SetHandoff, ledger, threadVars, seen, IInv, ThreadInv,
       TypeOK, Done, Over, Handling, Holding, Claimed
  <1> QED BY <1>1, <1>2, <1>3, <1>4, <1>5, <1>6 DEF IInv

(* The worker has seen the batch done; it leaves the ledger first.         *)
LEMMA RetireStep ==
  ASSUME IInv, NEW p \in Producer, Retire(p)
  PROVE  IInv'
  <1>1. LedgerInv' /\ EndingInv'
    BY DEF Retire, ledger, threadVars, stopVars, seen, IInv, LedgerInv, EndingInv
  <1>2. TypeOK'
    BY DEF Retire, Worker, SetHandoff, NotifyAll, ledger, threadVars, retirement,
       stopVars, seen, IInv, TypeOK, WorkerInv
  <1>3. QueueInv'
    BY DEF Retire, SetHandoff, IInv, QueueInv, TypeOK
  <1>4. WorkerInv'
    BY DEF Retire, Worker, SetHandoff, ledger, retirement, IInv, WorkerInv, TypeOK,
       Done, Over
  <1>5. BatchInv'
    BY DEF Retire, SetHandoff, ledger, seen, IInv, BatchInv, WorkerInv, TypeOK, Done, Over
  <1>6. ThreadInv'
    BY DEF Retire, SetHandoff, ledger, threadVars, seen, IInv, ThreadInv, TypeOK,
       Done, Over, Handling, Holding, Claimed
  <1> QED BY <1>1, <1>2, <1>3, <1>4, <1>5, <1>6 DEF IInv

(* The next handoff to wait for is one of the worker's own.                *)
LEMMA NextWait ==
  ASSUME IInv, NEW p \in Producer, NEW hs \in SUBSET pending[p], WaitForOneOf(p, hs)
  PROVE  /\ pc' \in [Producer -> WorkerStep]
         /\ mine' \in [Producer -> Handoff \cup {Nothing}]
         /\ lock' \in Producer \cup {Free}
         /\ pc'[p] \in {"idle", "wait"}
         /\ pc'[p] # "idle" => mine'[p] \in Handoff /\ handoff[mine'[p]] # "none"
         /\ \A q \in Producer : q # p => pc'[q] = pc[q] /\ mine'[q] = mine[q]
  BY DEF WaitForOneOf, Worker, Lets, IInv, TypeOK, WorkerInv

(* The execution that goes back is one of a batch that is done.            *)
LEMMA ReleaseStep ==
  ASSUME IInv, NEW p \in Producer, Release(p)
  PROVE  IInv'
  <1>1. LedgerInv' /\ EndingInv'
    BY DEF Release, ledger, threadVars, stopVars, IInv, LedgerInv, EndingInv
  <1>2. /\ pending' \in [Producer -> SUBSET Handoff]
        /\ \A q \in Producer : pending'[q] \subseteq pending[q]
    BY DEF Release, IInv, TypeOK
  <1>3. PICK hs \in SUBSET pending[p] : WaitForOneOf(p, hs)
    BY <1>2 DEF Release
  <1>4. TypeOK'
    <2>1. released' \subseteq Handoff
      BY DEF Release, IInv, TypeOK, WorkerInv
    <2> QED BY <1>2, <1>3, <2>1, NextWait DEF Release, ledger, handoffs, threadVars,
            stopVars, IInv, TypeOK
  <1>5. WorkerInv'
    BY <1>2, <1>3, NextWait DEF Release, ledger, handoffs, IInv, WorkerInv, Done, Over
  <1>6. QueueInv' /\ BatchInv' /\ ThreadInv'
    BY DEF Release, ledger, handoffs, threadVars, IInv, QueueInv, BatchInv, WorkerInv,
       ThreadInv, Done, Over
  <1> QED BY <1>1, <1>4, <1>5, <1>6 DEF IInv

(* A wait with the lock begins.                                            *)
LEMMA WaitForPendingStep ==
  ASSUME IInv, NEW p \in Producer, WaitForPending(p)
  PROVE  IInv'
  <1>1. QueueInv' /\ BatchInv' /\ LedgerInv' /\ ThreadInv' /\ EndingInv'
    BY DEF WaitForPending, ledger, handoffs, threadVars, stopVars, seen, IInv, QueueInv,
       BatchInv, LedgerInv, ThreadInv, EndingInv, Done, Over
  <1>2. PICK hs \in SUBSET pending[p] : WaitForOneOf(p, hs)
    BY DEF WaitForPending
  <1>3. TypeOK'
    BY <1>2, NextWait DEF WaitForPending, ledger, handoffs, threadVars, stopVars, seen,
       IInv, TypeOK
  <1>4. WorkerInv'
    BY <1>2, NextWait DEF WaitForPending, ledger, handoffs, IInv, WorkerInv, Done, Over
  <1> QED BY <1>1, <1>3, <1>4 DEF IInv

(* The worker gives up its submission, not its wait.                       *)
LEMMA SubmitTimeoutStep ==
  ASSUME IInv, NEW p \in Producer, SubmitTimeout(p)
  PROVE  IInv'
  <1>1. QueueInv' /\ BatchInv' /\ LedgerInv' /\ ThreadInv' /\ EndingInv'
    BY DEF SubmitTimeout, ledger, handoffs, threadVars, stopVars, seen, IInv,
       QueueInv, BatchInv, Done, Over, LedgerInv, ThreadInv, EndingInv
  <1>2. TypeOK'
    BY DEF SubmitTimeout, retirement, Worker, ledger, handoffs, threadVars, stopVars,
       seen, IInv, TypeOK
  <1>3. WorkerInv'
    BY DEF SubmitTimeout, retirement, Worker, ledger, handoffs, IInv, WorkerInv, Done,
       Over
  <1> QED BY <1>1, <1>2, <1>3 DEF IInv

(* A key that the worker keeps is a known one.                             *)
LEMMA StopWaitingStep ==
  ASSUME IInv, NEW p \in Producer, StopWaiting(p)
  PROVE  IInv'
  <1>1. QueueInv' /\ BatchInv' /\ LedgerInv' /\ ThreadInv' /\ EndingInv'
    BY DEF StopWaiting, ledger, handoffs, threadVars, stopVars, seen, IInv, QueueInv,
       BatchInv, LedgerInv, ThreadInv, EndingInv, Done, Over
  <1>2. mine[p] \in Handoff /\ handoff[mine[p]] # "none"
    BY DEF StopWaiting, IInv, WorkerInv
  <1>3. TypeOK'
    BY <1>2 DEF StopWaiting, Lets, ledger, handoffs, threadVars, stopVars, seen, IInv, TypeOK
  <1>4. WorkerInv'
    <2>1. \A q \in Producer : \A h \in pending'[q] : handoff[h] # "none"
      BY <1>2 DEF StopWaiting, IInv, WorkerInv, TypeOK
    <2> QED BY <2>1 DEF StopWaiting, Lets, ledger, handoffs, IInv, WorkerInv, TypeOK, Done,
            Over
  <1> QED BY <1>1, <1>3, <1>4 DEF IInv

(* What retirement under the lock leaves of the handoffs.                  *)
LEMMA RestParts ==
  ASSUME IInv, NEW p \in Producer, KeepRest(p) \/ DeferRest(p)
  PROVE  /\ handoff' \in [Handoff -> HandoffState]
         /\ \A h \in Handoff :
              \/ handoff'[h] = handoff[h]
              \/ handoff'[h] = "retired" /\ Settled(h)
         /\ released' \subseteq Handoff
         /\ \A h \in released' : h \in released \/ Settled(h)
         /\ deferred' \subseteq Handoff
         /\ asleep' \subseteq Producer \cup {Stopper}
         /\ pending' \in [Producer -> SUBSET Handoff]
         /\ \A q \in Producer : pending'[q] \subseteq pending[q]
  <1>1. deferred \cup pending[p] \subseteq Handoff
    BY DEF IInv, TypeOK
  <1>2. PICK hs \in SUBSET Handoff : RetireSettled(hs, asleep \ {p})
    BY <1>1 DEF KeepRest, DeferRest
  <1>3. deferred' \subseteq Handoff
    BY <1>1 DEF KeepRest, DeferRest, Unsettled, IInv, TypeOK
  <1>4. /\ pending' \in [Producer -> SUBSET Handoff]
        /\ \A q \in Producer : pending'[q] \subseteq pending[q]
    BY DEF KeepRest, DeferRest, Unsettled, IInv, TypeOK
  <1> QED BY <1>2, <1>3, <1>4 DEF RetireSettled, IInv, TypeOK

(* A settled handoff is known and its batch is done.                       *)
LEMMA SettledIsDone ==
  ASSUME IInv, NEW h \in Handoff, Settled(h)
  PROVE  Done(h) /\ handoff[h] # "none"
  BY DEF Settled, HandoffTerminal, Done, Over, IInv, BatchInv

(* Handoffs are retired only when their batches are done, whether the rest *)
(* stays with the worker or is deferred.                                   *)
LEMMA RestStep ==
  ASSUME IInv, NEW p \in Producer, KeepRest(p) \/ DeferRest(p),
         \/ UNCHANGED <<pc, mine, lock>>
         \/ Lets(p) /\ lock' = Free,
         UNCHANGED <<state, ledger, queue, batch, threadVars, stopVars, recorded, faults>>
  PROVE  IInv'
  <1>1. LedgerInv' /\ EndingInv'
    BY DEF ledger, threadVars, stopVars, IInv, LedgerInv, EndingInv
  <1>2. TypeOK'
    <2>1. /\ pc' \in [Producer -> WorkerStep]
          /\ mine' \in [Producer -> Handoff \cup {Nothing}]
          /\ lock' \in Producer \cup {Free}
      BY DEF Lets, IInv, TypeOK
    <2> QED BY <2>1, RestParts DEF ledger, threadVars, stopVars, IInv, TypeOK
  <1>3. \A h \in Handoff : handoff[h] = "none" <=> handoff'[h] = "none"
    BY RestParts, SettledIsDone
  <1>4. QueueInv'
    BY <1>3 DEF IInv, QueueInv
  <1>5. WorkerInv'
    <2>1. \A q \in Producer : \A h \in pending'[q] : h \in Handoff /\ handoff'[h] # "none"
      BY <1>3, RestParts DEF IInv, WorkerInv
    <2>2. \A q \in Producer :
            pc'[q] = "idle" \/ (pc'[q] = pc[q] /\ mine'[q] = mine[q])
      BY DEF Lets, IInv, TypeOK
    <2> QED BY <1>3, <2>1, <2>2 DEF ledger, IInv, WorkerInv, Done, Over
  <1>6. BatchInv'
    <2>1. \A h \in Handoff : handoff'[h] \in {"ACKED", "retired"} => Done(h)
      BY RestParts, SettledIsDone DEF IInv, BatchInv
    <2>2. \A h \in Handoff : h \in released' => handoff[h] # "none" /\ Done(h)
      BY RestParts, SettledIsDone DEF IInv, BatchInv
    <2> QED BY <1>3, <2>1, <2>2 DEF ledger, IInv, BatchInv, Done, Over
  <1>7. ThreadInv'
    BY <1>3 DEF ledger, threadVars, IInv, ThreadInv, Done, Over, Handling, Holding, Claimed
  <1> QED BY <1>1, <1>2, <1>4, <1>5, <1>6, <1>7 DEF IInv

(* The item is a known handoff, or the sentinel of one that stops.         *)
LEMMA DequeueStep ==
  ASSUME IInv, Dequeue
  PROVE  IInv'
  <1>1. TypeOK'
    <2>1. queue' \in Seq(Handoff \cup {Sentinel}) /\ Len(queue') <= MaxQueue
      <3>1. queue \in Seq(Handoff \cup {Sentinel}) /\ Len(queue) \in Nat /\ Len(queue) <= MaxQueue
        BY DEF IInv, TypeOK
      <3>2. Tail(queue) \in Seq(Handoff \cup {Sentinel}) /\ Len(Tail(queue)) = Len(queue) - 1
        BY <3>1, Shortened DEF Dequeue
      <3> QED BY <3>1, <3>2, CoordinatorAssumption DEF Dequeue
    <2>2. Head(queue) \in Handoff \cup {Sentinel}
      BY DEF Dequeue, IInv, TypeOK
    <2>3. item' \in Handoff \cup {Nothing} /\ thread' \in {"drain", "member"}
      BY <2>2 DEF Dequeue, Goes, IInv, TypeOK
    <2>4. handoff' \in [Handoff -> HandoffState]
      BY DEF Dequeue, IInv, TypeOK
    <2>5. asleep' \subseteq Producer \cup {Stopper}
      BY DEF Dequeue, NotifyAll, IInv, TypeOK
    <2> QED BY <2>1, <2>3, <2>4, <2>5 DEF Dequeue, othersVars, stopVars, seen, IInv, TypeOK
  <1>2. QueueInv'
    <2> SUFFICES ASSUME NEW i \in DOMAIN queue'
                 PROVE  /\ queue'[i] = Sentinel => state' # "running"
                        /\ queue'[i] \in Handoff => handoff'[queue'[i]] # "none"
      BY DEF QueueInv
    <2>1. \E j \in DOMAIN queue : queue'[i] = queue[j]
      <3>1. CASE UNCHANGED queue
        BY <3>1
      <3>2. CASE queue' = Tail(queue)
        <4>1. i + 1 \in DOMAIN queue /\ queue'[i] = queue[i + 1]
          BY <3>2 DEF Dequeue, IInv, TypeOK
        <4> QED BY <4>1
      <3> QED BY <3>1, <3>2 DEF Dequeue
    <2>2. \A h \in Handoff : handoff[h] # "none" => handoff'[h] # "none"
      BY DEF Dequeue, IInv, TypeOK
    <2> QED BY <2>1, <2>2 DEF Dequeue, IInv, QueueInv
  <1>3. WorkerInv'
    BY DEF Dequeue, othersVars, IInv, WorkerInv, TypeOK, Done, Over
  <1>4. BatchInv'
    BY DEF Dequeue, seen, othersVars, IInv, BatchInv, TypeOK, Done, Over
  <1>5. LedgerInv'
    BY DEF Dequeue, Goes, seen, othersVars, IInv, LedgerInv, Claimed, Ending
  <1>6. ThreadInv'
    <2>1. CASE thread' = "drain"
      BY <2>1 DEF ThreadInv, Holding, Handling, Claimed
    <2>2. CASE thread' = "member"
      <3>1. item' = Head(queue) /\ Head(queue) # Sentinel
        BY <2>2 DEF Dequeue, Goes
      <3>2. Head(queue) \in Handoff /\ 1 \in DOMAIN queue /\ Head(queue) = queue[1]
        BY <3>1, Shortened DEF Dequeue, IInv, TypeOK
      <3>3. handoff'[item'] # "none"
        BY <3>1, <3>2 DEF Dequeue, IInv, TypeOK, QueueInv
      <3> QED BY <2>2, <3>1, <3>2, <3>3 DEF ThreadInv, Holding, Handling, Claimed
    <2> QED BY <2>1, <2>2 DEF Dequeue, Goes
  <1>7. EndingInv'
    <2>1. thread' = "drain" => state # "running"
      <3>1. CASE state \notin {"running", "stopping"}
        BY <3>1
      <3>2. CASE Head(queue) = Sentinel
        <4>1. 1 \in DOMAIN queue /\ queue[1] = Sentinel
          BY <3>2, Shortened DEF Dequeue, IInv, TypeOK
        <4> QED BY <4>1 DEF IInv, QueueInv
      <3> QED BY <3>1, <3>2 DEF Dequeue, Goes
    <2> QED BY <2>1 DEF Dequeue, Goes, othersVars, stopVars, IInv, EndingInv, Ending
  <1> QED BY <1>1, <1>2, <1>3, <1>4, <1>5, <1>6, <1>7 DEF IInv

(* Nobody is at work on a request: a member that is not pending is over.   *)
LEMMA MembershipStep ==
  ASSUME IInv, Membership
  PROVE  IInv'
  <1>1. QueueInv' /\ WorkerInv' /\ BatchInv'
    BY DEF Membership, seen, othersVars, IInv, QueueInv, WorkerInv, Done,
       Over, BatchInv
  <1>2. TypeOK'
    BY DEF Membership, Goes, stopVars, seen, othersVars, IInv, TypeOK
  <1>3. LedgerInv'
    BY DEF Membership, Goes, seen, othersVars, IInv, LedgerInv, Claimed,
       Ending
  <1>4. ThreadInv'
    BY DEF Membership, Goes, seen, othersVars, IInv, ThreadInv, TypeOK,
       LedgerInv, BatchInv, Done, Over, Handling, Holding, Claimed, Ending
  <1>5. EndingInv'
    BY DEF Membership, Goes, stopVars, othersVars, IInv, EndingInv, Ending
  <1> QED BY <1>1, <1>2, <1>3, <1>4, <1>5 DEF IInv

(* The members in hand stay pending whatever the decoder does.             *)
LEMMA EvaluateStep ==
  ASSUME IInv, Evaluate
  PROVE  IInv'
  <1>1. QueueInv' /\ WorkerInv' /\ BatchInv'
    BY DEF Evaluate, seen, othersVars, IInv, QueueInv, WorkerInv, Done, Over,
       BatchInv
  <1>2. TypeOK'
    <2>1. faults' \in 0..MaxFault
      <3>1. (faults < MaxFault /\ faults' = faults + 1) \/ faults' = faults
        BY DEF Evaluate, Works, Raises
      <3> QED BY <3>1, CoordinatorAssumption, Counted DEF IInv, TypeOK
    <2>r. raising' \in BOOLEAN
      BY DEF Evaluate, Works, Raises, IInv, TypeOK
    <2>2. thread' \in {"claim", "crash"}
      BY DEF Evaluate, Works, Raises, Goes
    <2> QED BY <2>1, <2>r, <2>2 DEF Evaluate, othersVars, stopVars, seen, IInv, TypeOK
  <1>3. LedgerInv'
    BY DEF Evaluate, Goes, Raises, Works, seen, othersVars, IInv, LedgerInv,
       TypeOK, Claimed, Ending
  <1>4. ThreadInv'
    BY DEF Evaluate, Goes, Raises, Works, seen, othersVars, IInv, ThreadInv,
       Done, Over, Handling, Holding, Claimed
  <1>5. EndingInv'
    BY DEF Evaluate, Goes, Raises, Works, stopVars, othersVars, IInv,
       EndingInv, Ending
  <1> QED BY <1>1, <1>2, <1>3, <1>4, <1>5 DEF IInv

(* A member is taken out of the batch in hand, or all of it is over.       *)
LEMMA ClaimStep ==
  ASSUME IInv, Claim
  PROVE  IInv'
  <1>1. QueueInv'
    BY DEF Claim, IInv, QueueInv
  <1>2. TypeOK'
    <2>1. /\ record' \in [Request -> {"none", "pending", "claimed", "committed"}]
          /\ known' \subseteq Request /\ current' \in Request \cup {Nothing}
      BY DEF Claim, SetRecord, IInv, TypeOK
    <2>2. thread' \in {"metrics", "crash", "ack"} /\ asleep' \subseteq asleep
      BY DEF Claim, Goes, NotifyAll
    <2> QED BY <2>1, <2>2 DEF Claim, stopVars, seen, othersVars, IInv, TypeOK
  <1>3. WorkerInv'
    BY DEF Claim, SetRecord, othersVars, IInv, WorkerInv, TypeOK, ThreadInv,
       Done, Over, Handling, Holding, Claimed
  <1>4. BatchInv'
    BY DEF Claim, SetRecord, seen, othersVars, IInv, BatchInv, TypeOK,
       ThreadInv, Done, Over, Handling, Holding, Claimed
  <1>5. LedgerInv'
    BY DEF Claim, SetRecord, Goes, seen, othersVars, IInv, LedgerInv, TypeOK,
       ThreadInv, Claimed, Ending, Done, Over, Handling, Holding
  <1>6. ThreadInv'
    BY DEF Claim, SetRecord, Goes, seen, othersVars, IInv, ThreadInv, TypeOK,
       LedgerInv, Done, Over, Handling, Holding, Claimed, Ending
  <1>7. EndingInv'
    BY DEF Claim, Goes, stopVars, othersVars, IInv, EndingInv, Ending
  <1> QED BY <1>1, <1>2, <1>3, <1>4, <1>5, <1>6, <1>7 DEF IInv

(* The claimed request has not been counted; if counting it raises, the    *)
(* thread crashes with the fault on the books.                             *)
LEMMA RecordTerminalStep ==
  ASSUME IInv, RecordTerminal
  PROVE  IInv'
  <1>1. QueueInv' /\ WorkerInv' /\ BatchInv'
    BY DEF RecordTerminal, othersVars, IInv, QueueInv, WorkerInv, Done, Over,
       BatchInv
  <1>2. TypeOK'
    <2>1. recorded' \in [Request -> Nat]
      <3>1. CASE RecordOnce(current)
        BY <3>1 DEF RecordOnce, RecordTerminal, IInv, TypeOK, ThreadInv, Claimed
      <3>2. CASE UNCHANGED recorded
        BY <3>2 DEF IInv, TypeOK
      <3> QED BY <3>1, <3>2 DEF RecordTerminal
    <2>2. faults' \in 0..MaxFault
      BY CoordinatorAssumption, Counted DEF RecordTerminal, Works, Raises, IInv, TypeOK
    <2>3. thread' \in {"commit", "crash"}
      BY DEF RecordTerminal, Works, Raises, Goes
    <2> QED BY <2>1, <2>2, <2>3 DEF RecordTerminal, othersVars, stopVars, IInv, TypeOK
  <1>3. LedgerInv'
    BY DEF RecordTerminal, Goes, Raises, Works, RecordOnce, othersVars, IInv,
       LedgerInv, TypeOK, ThreadInv, Claimed, Ending, Done, Over, Handling,
       Holding
  <1>4. ThreadInv'
    BY DEF RecordTerminal, Goes, Raises, Works, RecordOnce, othersVars, IInv,
       ThreadInv, TypeOK, Done, Over, Handling, Holding, Claimed
  <1>5. EndingInv'
    BY DEF RecordTerminal, Goes, Raises, Works, stopVars, othersVars, IInv,
       EndingInv, Ending
  <1> QED BY <1>1, <1>2, <1>3, <1>4, <1>5 DEF IInv

(* The claimed request has been counted.                                   *)
LEMMA CommitTerminalStep ==
  ASSUME IInv, CommitTerminal
  PROVE  IInv'
  <1>1. QueueInv'
    BY DEF CommitTerminal, IInv, QueueInv
  <1>2. TypeOK'
    BY DEF CommitTerminal, SetRecord, NotifyAll, Goes, stopVars, seen,
       othersVars, IInv, TypeOK
  <1>3. WorkerInv'
    BY DEF CommitTerminal, SetRecord, othersVars, IInv, WorkerInv, Done, Over
  <1>4. BatchInv'
    BY DEF CommitTerminal, SetRecord, seen, othersVars, IInv, BatchInv, Done,
       Over
  <1>5. LedgerInv'
    BY DEF CommitTerminal, SetRecord, Goes, seen, othersVars, IInv, LedgerInv,
       TypeOK, ThreadInv, Claimed, Ending, Done, Over, Handling, Holding
  <1>6. ThreadInv'
    BY DEF CommitTerminal, SetRecord, Goes, seen, othersVars, IInv, ThreadInv,
       TypeOK, Done, Over, Handling, Holding, Claimed
  <1>7. EndingInv'
    BY DEF CommitTerminal, Goes, stopVars, othersVars, IInv, EndingInv, Ending
  <1> QED BY <1>1, <1>2, <1>3, <1>4, <1>5, <1>6, <1>7 DEF IInv

(* The committed request leaves the ledger.                                *)
LEMMA PopStep ==
  ASSUME IInv, Pop
  PROVE  IInv'
  <1>1. QueueInv'
    BY DEF Pop, IInv, QueueInv
  <1>2. TypeOK'
    <2>1. faults' \in 0..MaxFault
      <3>1. (faults < MaxFault /\ faults' = faults + 1) \/ faults' = faults
        BY DEF Pop
      <3> QED BY <3>1, CoordinatorAssumption, Counted DEF IInv, TypeOK
    <2>r. raising' \in BOOLEAN
      BY DEF Pop, IInv, TypeOK
    <2> QED BY <2>1, <2>r DEF Pop, othersVars, stopVars, seen, Goes, NotifyAll, IInv, TypeOK
  <1>3. WorkerInv'
    BY DEF Pop, othersVars, IInv, WorkerInv, Done, Over
  <1>4. BatchInv'
    BY DEF Pop, seen, othersVars, IInv, BatchInv, Done, Over
  <1>5. LedgerInv'
    BY DEF Pop, Goes, seen, othersVars, IInv, LedgerInv, TypeOK, ThreadInv,
       Claimed, Ending, Done, Over, Handling, Holding
  <1>6. ThreadInv'
    BY DEF Pop, Goes, seen, othersVars, IInv, ThreadInv, Done, Over, Handling,
       Holding, Claimed
  <1>7. EndingInv'
    BY DEF Pop, Goes, stopVars, othersVars, IInv, EndingInv, Ending
  <1> QED BY <1>1, <1>2, <1>3, <1>4, <1>5, <1>6, <1>7 DEF IInv

(* The batch is done.                                                      *)
LEMMA AckStep ==
  ASSUME IInv, Ack
  PROVE  IInv'
  <1>1. TypeOK'
    <2>1. handoff' \in [Handoff -> HandoffState]
      BY DEF Ack, SetHandoff, IInv, TypeOK
    <2>2. thread' \in {"lease", "notify"} /\ asleep' \subseteq asleep
      BY DEF Ack, Goes, NotifyAll
    <2> QED BY <2>1, <2>2 DEF Ack, stopVars, seen, othersVars, IInv, TypeOK
  <1>2. QueueInv'
    BY DEF Ack, SetHandoff, IInv, QueueInv, TypeOK
  <1>3. WorkerInv'
    BY DEF Ack, SetHandoff, othersVars, IInv, WorkerInv, TypeOK, Done, Over
  <1>4. BatchInv'
    BY DEF Ack, SetHandoff, seen, othersVars, IInv, BatchInv, TypeOK,
       ThreadInv, Done, Over, Handling, Holding, Claimed
  <1>5. LedgerInv'
    BY DEF Ack, Goes, seen, othersVars, IInv, LedgerInv, Claimed, Ending
  <1>6. ThreadInv'
    BY DEF Ack, SetHandoff, Goes, seen, othersVars, IInv, ThreadInv, TypeOK,
       Done, Over, Handling, Holding, Claimed
  <1>7. EndingInv'
    BY DEF Ack, Goes, stopVars, othersVars, IInv, EndingInv, Ending
  <1> QED BY <1>1, <1>2, <1>3, <1>4, <1>5, <1>6, <1>7 DEF IInv

(* The batch is done, so its execution may go back.                        *)
LEMMA RetireLeaseStep ==
  ASSUME IInv, RetireLease
  PROVE  IInv'
  <1>1. QueueInv' /\ WorkerInv'
    BY DEF RetireLease, othersVars, IInv, QueueInv, WorkerInv, Done, Over
  <1>2. TypeOK'
    BY CoordinatorAssumption DEF RetireLease, Goes, Raises, Works, stopVars,
       othersVars, IInv, TypeOK, ThreadInv, Done, Over, Handling, Holding,
       Claimed
  <1>3. BatchInv'
    BY DEF RetireLease, othersVars, IInv, BatchInv, ThreadInv, Done, Over,
       Handling, Holding, Claimed
  <1>4. LedgerInv'
    BY DEF RetireLease, Goes, Raises, Works, othersVars, IInv, LedgerInv,
       TypeOK, Claimed, Ending
  <1>5. ThreadInv'
    BY DEF RetireLease, Goes, Raises, Works, othersVars, IInv, ThreadInv,
       Done, Over, Handling, Holding, Claimed
  <1>6. EndingInv'
    BY DEF RetireLease, Goes, Raises, Works, stopVars, othersVars, IInv,
       EndingInv, Ending
  <1> QED BY <1>1, <1>2, <1>3, <1>4, <1>5, <1>6 DEF IInv

(* Deferred handoffs are retired only when their batches are done.         *)
LEMMA NotifyStep ==
  ASSUME IInv, Notify
  PROVE  IInv'
  <1>1. TypeOK'
    BY DEF Notify, RetireSettled, Unsettled, Goes, stopVars, othersVars, IInv, TypeOK
  <1>2. QueueInv'
    BY DEF Notify, RetireSettled, IInv, QueueInv
  <1>3. WorkerInv'
    <2>1. \A h \in Handoff : handoff[h] # "none" => handoff'[h] # "none"
      BY DEF Notify, RetireSettled
    <2> QED BY <2>1 DEF Notify, othersVars, IInv, WorkerInv, TypeOK, Done, Over
  <1>4. BatchInv'
    BY DEF Notify, RetireSettled, Queued, HandoffTerminal, Settled,
       othersVars, IInv, BatchInv, Done, Over
  <1>5. LedgerInv'
    BY DEF Notify, Goes, othersVars, IInv, LedgerInv, Claimed, Ending
  <1>6. ThreadInv'
    BY DEF Notify, RetireSettled, Goes, othersVars, IInv, ThreadInv, Done,
       Over, Handling, Holding, Claimed
  <1>7. EndingInv'
    BY DEF Notify, Goes, stopVars, othersVars, IInv, EndingInv, Ending
  <1> QED BY <1>1, <1>2, <1>3, <1>4, <1>5, <1>6, <1>7 DEF IInv

(* Nothing has been stopped when the thread crashes.                       *)
LEMMA CrashStep ==
  ASSUME IInv, Crash
  PROVE  IInv'
  <1>1. WorkerInv' /\ BatchInv'
    BY DEF Crash, seen, othersVars, IInv, WorkerInv, Done, Over, BatchInv
  <1>2. TypeOK'
    BY DEF Crash, NotifyAll, Goes, stopVars, seen, othersVars, IInv, TypeOK
  <1>3. QueueInv'
    BY DEF Crash, IInv, QueueInv
  <1>4. LedgerInv'
    BY DEF Crash, Goes, seen, othersVars, IInv, LedgerInv, Claimed, Ending
  <1>5. ThreadInv'
    BY DEF Crash, Goes, seen, othersVars, IInv, ThreadInv, Done, Over,
       Handling, Holding, Claimed
  <1>6. EndingInv'
    BY DEF Crash, Goes, stopVars, othersVars, IInv, EndingInv, Ending
  <1> QED BY <1>1, <1>2, <1>3, <1>4, <1>5, <1>6 DEF IInv

(* The queue is emptied.                                                   *)
LEMMA DrainStep ==
  ASSUME IInv, Drain
  PROVE  IInv'
  <1>1. WorkerInv' /\ BatchInv'
    BY DEF Drain, seen, othersVars, IInv, WorkerInv, Done, Over, BatchInv
  <1>2. TypeOK'
    BY CoordinatorAssumption DEF Drain, NotifyAll, Goes, stopVars, seen,
       othersVars, IInv, TypeOK, ThreadInv, Done, Over, Handling, Holding,
       Claimed
  <1>3. QueueInv'
    BY DEF Drain, IInv, QueueInv
  <1>4. LedgerInv'
    BY DEF Drain, Goes, seen, othersVars, IInv, LedgerInv, Claimed, Ending
  <1>5. ThreadInv'
    BY DEF Drain, Goes, seen, othersVars, IInv, ThreadInv, Done, Over,
       Handling, Holding, Claimed
  <1>6. EndingInv'
    BY DEF Drain, Goes, stopVars, othersVars, IInv, EndingInv, Ending
  <1> QED BY <1>1, <1>2, <1>3, <1>4, <1>5, <1>6 DEF IInv

(* Nothing can be accepted any more: the snapshot holds all there is.      *)
LEMMA SnapshotStep ==
  ASSUME IInv, Snapshot
  PROVE  IInv'
  <1>1. QueueInv' /\ WorkerInv' /\ BatchInv'
    BY DEF Snapshot, seen, othersVars, IInv, QueueInv, WorkerInv, Done, Over,
       BatchInv
  <1>2. TypeOK'
    BY DEF Snapshot, Goes, stopVars, seen, othersVars, IInv, TypeOK
  <1>3. LedgerInv'
    BY DEF Snapshot, Goes, seen, othersVars, IInv, LedgerInv, Claimed, Ending
  <1>4. ThreadInv'
    BY DEF Snapshot, Goes, seen, othersVars, IInv, ThreadInv, Done, Over,
       Handling, Holding, Claimed
  <1>5. EndingInv'
    BY DEF Snapshot, Goes, stopVars, othersVars, IInv, EndingInv, Ending
  <1> QED BY <1>1, <1>2, <1>3, <1>4, <1>5 DEF IInv

(* A request is claimed once; one that the crash left claimed is committed *)
(* without counting it again.                                              *)
LEMMA FailNextStep ==
  ASSUME IInv, FailNext
  PROVE  IInv'
  <1>1. QueueInv'
    BY DEF FailNext, IInv, QueueInv
  <1>2. TypeOK'
    <2>1. record' \in [Request -> {"none", "pending", "claimed", "committed"}]
      BY DEF FailNext, Fail, SetRecord, IInv, TypeOK
    <2>2. thread' \in {"fail", "failmetrics", "final"} /\ outstanding' \subseteq Request
      BY DEF FailNext, Fail, Goes, IInv, TypeOK
    <2>3. /\ failing' \subseteq Request /\ current' \in Request \cup {Nothing}
          /\ asleep' \subseteq Producer \cup {Stopper}
      BY DEF FailNext, Fail, NotifyAll, IInv, TypeOK
    <2> QED BY <2>1, <2>2, <2>3 DEF FailNext, stopVars, seen, othersVars, IInv, TypeOK
  <1>3. WorkerInv'
    BY DEF FailNext, Fail, SetRecord, othersVars, IInv, WorkerInv, TypeOK,
       Done, Over
  <1>4. BatchInv'
    BY DEF FailNext, Fail, SetRecord, seen, othersVars, IInv, BatchInv,
       TypeOK, Done, Over
  <1>5. LedgerInv'
    BY DEF FailNext, Fail, SetRecord, Goes, seen, othersVars, IInv, LedgerInv,
       TypeOK, Claimed, Ending
  <1>6. ThreadInv'
    BY DEF FailNext, Fail, SetRecord, Goes, seen, othersVars, IInv, ThreadInv,
       TypeOK, LedgerInv, Done, Over, Handling, Holding, Claimed, Ending
  <1>7. EndingInv'
    BY DEF FailNext, Fail, Goes, stopVars, othersVars, IInv, EndingInv, Ending
  <1> QED BY <1>1, <1>2, <1>3, <1>4, <1>5, <1>6, <1>7 DEF IInv

(* The claimed request has not been counted; an exception is a fault.      *)
LEMMA FailRecordStep ==
  ASSUME IInv, FailRecord
  PROVE  IInv'
  <1>1. QueueInv' /\ WorkerInv' /\ BatchInv'
    BY DEF FailRecord, othersVars, IInv, QueueInv, WorkerInv, Done, Over,
       BatchInv
  <1>2. TypeOK'
    <2>1. recorded' \in [Request -> Nat]
      <3>1. CASE RecordOnce(current)
        BY <3>1 DEF RecordOnce, FailRecord, IInv, TypeOK, ThreadInv, Claimed
      <3>2. CASE UNCHANGED recorded
        BY <3>2 DEF IInv, TypeOK
      <3> QED BY <3>1, <3>2 DEF FailRecord
    <2>2. faults' \in 0..MaxFault
      BY CoordinatorAssumption DEF FailRecord, IInv, TypeOK
    <2> QED BY <2>1, <2>2 DEF FailRecord, othersVars, stopVars, Goes, IInv, TypeOK
  <1>3. LedgerInv'
    BY DEF FailRecord, Goes, RecordOnce, othersVars, IInv, LedgerInv, TypeOK,
       ThreadInv, Claimed, Ending, Done, Over, Handling, Holding
  <1>4. ThreadInv'
    BY DEF FailRecord, Goes, RecordOnce, othersVars, IInv, ThreadInv, TypeOK,
       Done, Over, Handling, Holding, Claimed
  <1>5. EndingInv'
    BY DEF FailRecord, Goes, stopVars, othersVars, IInv, EndingInv, Ending
  <1> QED BY <1>1, <1>2, <1>3, <1>4, <1>5 DEF IInv

(* The claimed request is over.                                            *)
LEMMA FailCommitStep ==
  ASSUME IInv, FailCommit
  PROVE  IInv'
  <1>1. QueueInv'
    BY DEF FailCommit, IInv, QueueInv
  <1>2. TypeOK'
    BY DEF FailCommit, SetRecord, NotifyAll, Goes, stopVars, seen, othersVars,
       IInv, TypeOK
  <1>3. WorkerInv'
    BY DEF FailCommit, SetRecord, othersVars, IInv, WorkerInv, Done, Over
  <1>4. BatchInv'
    BY DEF FailCommit, SetRecord, seen, othersVars, IInv, BatchInv, Done, Over
  <1>5. LedgerInv'
    BY DEF FailCommit, SetRecord, Goes, seen, othersVars, IInv, LedgerInv,
       TypeOK, ThreadInv, Claimed, Ending, Done, Over, Handling, Holding
  <1>6. ThreadInv'
    BY DEF FailCommit, SetRecord, Goes, seen, othersVars, IInv, ThreadInv,
       Done, Over, Handling, Holding, Claimed
  <1>7. EndingInv'
    BY DEF FailCommit, Goes, stopVars, othersVars, IInv, EndingInv, Ending
  <1> QED BY <1>1, <1>2, <1>3, <1>4, <1>5, <1>6, <1>7 DEF IInv

(* Nothing is outstanding any more.                                        *)
LEMMA FinalStep ==
  ASSUME IInv, Final
  PROVE  IInv'
  <1>1. WorkerInv' /\ BatchInv'
    BY DEF Final, seen, othersVars, IInv, WorkerInv, Done, Over, BatchInv
  <1>2. TypeOK'
    BY DEF Final, NotifyAll, Goes, stopVars, seen, othersVars, IInv, TypeOK
  <1>3. QueueInv'
    BY DEF Final, IInv, QueueInv
  <1>4. LedgerInv'
    BY DEF Final, Goes, seen, othersVars, IInv, LedgerInv, Claimed, Ending
  <1>5. ThreadInv'
    BY DEF Final, Goes, seen, othersVars, IInv, ThreadInv, Done, Over,
       Handling, Holding, Claimed
  <1>6. EndingInv'
    BY DEF Final, Goes, stopVars, othersVars, IInv, EndingInv, Ending
  <1> QED BY <1>1, <1>2, <1>3, <1>4, <1>5, <1>6 DEF IInv

(* The state moves away from running; true needs the thread to have ended. *)
LEMMA StopCallStep ==
  ASSUME IInv, Stop
  PROVE  IInv'
  <1>1. WorkerInv' /\ BatchInv' /\ LedgerInv' /\ ThreadInv'
    BY DEF Stop, ledger, handoffs, threadVars, workerVars, seen, IInv,
       WorkerInv, Done, Over, BatchInv, LedgerInv, ThreadInv
  <1>2. TypeOK'
    BY CoordinatorAssumption DEF Stop, NotifyAll, StopReturns, ledger,
       handoffs, threadVars, workerVars, seen, IInv, TypeOK, ThreadInv, Done,
       Over, Handling, Holding, Claimed
  <1>3. QueueInv'
    BY DEF Stop, handoffs, IInv, QueueInv
  <1>4. EndingInv'
    BY DEF Stop, StopReturns, ledger, threadVars, IInv, EndingInv, Ending
  <1> QED BY <1>1, <1>2, <1>3, <1>4 DEF IInv

(* The sentinel is queued by a coordinator that is stopping.               *)
LEMMA StopPutStep ==
  ASSUME IInv, StopPut
  PROVE  IInv'
  <1>1. WorkerInv' /\ BatchInv' /\ LedgerInv' /\ ThreadInv' /\ EndingInv'
    BY DEF StopPut, ledger, handoffs, threadVars, workerVars, seen, IInv,
       WorkerInv, Done, Over, BatchInv, LedgerInv, ThreadInv, EndingInv
  <1>2. TypeOK'
    <2>1. queue' \in Seq(Handoff \cup {Sentinel}) /\ Len(queue') <= MaxQueue
      <3>1. queue \in Seq(Handoff \cup {Sentinel}) /\ Len(queue) \in Nat /\ Len(queue) <= MaxQueue
        BY DEF IInv, TypeOK
      <3>2. CASE UNCHANGED queue
        BY <3>1, <3>2
      <3>3. CASE Len(queue) < MaxQueue /\ queue' = Append(queue, Sentinel)
        <4>1. Append(queue, Sentinel) \in Seq(Handoff \cup {Sentinel}) /\ Len(queue') = Len(queue) + 1
          BY <3>1, <3>3, Appended
        <4> QED BY <3>1, <3>3, <4>1, CoordinatorAssumption
      <3> QED BY <3>2, <3>3 DEF StopPut
    <2>2. asleep' \subseteq Producer \cup {Stopper}
      BY DEF StopPut, Sleep, NotifyAll, IInv, TypeOK
    <2> QED BY <2>1, <2>2 DEF StopPut, ledger, handoffs, threadVars, workerVars, seen, IInv, TypeOK
  <1>3. QueueInv'
    <2> SUFFICES ASSUME NEW i \in DOMAIN queue'
                 PROVE  /\ queue'[i] = Sentinel => state' # "running"
                        /\ queue'[i] \in Handoff => handoff'[queue'[i]] # "none"
      BY DEF QueueInv
    <2>1. (i \in DOMAIN queue /\ queue'[i] = queue[i]) \/ queue'[i] = Sentinel
      <3>1. queue \in Seq(Handoff \cup {Sentinel})
        BY DEF IInv, TypeOK
      <3>2. queue' = Append(queue, Sentinel) \/ queue' = queue
        BY DEF StopPut
      <3> QED BY <3>1, <3>2, Appended
    <2> QED BY <2>1, CoordinatorAssumption DEF StopPut, handoffs, IInv, QueueInv
  <1> QED BY <1>1, <1>2, <1>3 DEF IInv

(* A false answer.                                                         *)
LEMMA StopTooLateStep ==
  ASSUME IInv, StopTooLate
  PROVE  IInv'
  <1>1. QueueInv' /\ WorkerInv' /\ BatchInv' /\ LedgerInv' /\ ThreadInv'
    BY DEF StopTooLate, ledger, handoffs, threadVars, workerVars, seen, IInv,
       QueueInv, WorkerInv, Done, Over, BatchInv, LedgerInv, ThreadInv
  <1>2. TypeOK'
    BY DEF StopTooLate, StopReturns, ledger, handoffs, threadVars, workerVars,
       seen, IInv, TypeOK
  <1>3. EndingInv'
    BY DEF StopTooLate, StopReturns, ledger, threadVars, IInv, EndingInv,
       Ending
  <1> QED BY <1>1, <1>2, <1>3 DEF IInv

(* True needs the thread to have ended and no reservation.                 *)
LEMMA StopJoinedStep ==
  ASSUME IInv, StopJoined
  PROVE  IInv'
  <1>1. QueueInv' /\ WorkerInv' /\ BatchInv' /\ LedgerInv' /\ ThreadInv'
    BY DEF StopJoined, ledger, handoffs, threadVars, workerVars, seen, IInv,
       QueueInv, WorkerInv, Done, Over, BatchInv, LedgerInv, ThreadInv
  <1>2. TypeOK'
    BY DEF StopJoined, StopReturns, ledger, handoffs, threadVars, workerVars,
       seen, IInv, TypeOK
  <1>3. EndingInv'
    BY DEF StopJoined, StopReturns, ledger, threadVars, IInv, EndingInv,
       Ending
  <1> QED BY <1>1, <1>2, <1>3 DEF IInv

(* True needs the thread to have ended and no reservation.                 *)
LEMMA StopWatchedStep ==
  ASSUME IInv, StopWatched
  PROVE  IInv'
  <1>1. QueueInv' /\ WorkerInv' /\ BatchInv' /\ LedgerInv' /\ ThreadInv'
    BY DEF StopWatched, ledger, handoffs, threadVars, workerVars, seen, IInv,
       QueueInv, WorkerInv, Done, Over, BatchInv, LedgerInv, ThreadInv
  <1>2. TypeOK'
    BY DEF StopWatched, StopReturns, ledger, handoffs, threadVars, workerVars,
       seen, IInv, TypeOK
  <1>3. EndingInv'
    BY DEF StopWatched, StopReturns, ledger, threadVars, IInv, EndingInv,
       Ending
  <1> QED BY <1>1, <1>2, <1>3 DEF IInv

(* The thread may still work, but stop() never answers true again.         *)
LEMMA StopPutTimeoutStep ==
  ASSUME IInv, StopPutTimeout
  PROVE  IInv'
  <1>1. WorkerInv' /\ BatchInv' /\ LedgerInv' /\ ThreadInv'
    BY DEF StopPutTimeout, ledger, handoffs, threadVars, workerVars, seen,
       IInv, WorkerInv, Done, Over, BatchInv, LedgerInv, ThreadInv
  <1>2. TypeOK'
    BY DEF StopPutTimeout, NotifyAll, StopReturns, ledger, handoffs,
       threadVars, workerVars, seen, IInv, TypeOK
  <1>3. QueueInv'
    BY DEF StopPutTimeout, handoffs, IInv, QueueInv
  <1>4. EndingInv'
    BY DEF StopPutTimeout, StopReturns, ledger, threadVars, IInv, EndingInv,
       Ending
  <1> QED BY <1>1, <1>2, <1>3, <1>4 DEF IInv

-----------------------------------------------------------------------------
(* The invariant and what follows from it.                                 *)

(* It holds at first.                                                      *)
LEMMA InitInvariant == Init => IInv
  <1> SUFFICES ASSUME Init PROVE IInv
    OBVIOUS
  <1>1. TypeOK
    <2>1. queue \in Seq(Handoff \cup {Sentinel}) /\ Len(queue) <= MaxQueue
      BY CoordinatorAssumption DEF Init
    <2>2. faults \in 0..MaxFault /\ stops \in 0..MaxStop
      BY CoordinatorAssumption DEF Init
    <2> QED BY <2>1, <2>2 DEF Init, TypeOK
  <1>2. QueueInv /\ WorkerInv /\ BatchInv
    BY DEF Init, QueueInv, WorkerInv, BatchInv, Done
  <1>3. LedgerInv
    BY DEF Init, LedgerInv
  <1>4. ThreadInv /\ EndingInv
    BY DEF Init, ThreadInv, EndingInv, Holding, Handling, Claimed, Ending
  <1> QED BY <1>1, <1>2, <1>3, <1>4 DEF IInv

(* It does not depend on anything but the variables.                       *)
LEMMA StutterInvariant == IInv /\ UNCHANGED vars => IInv'
  BY DEF vars, ledger, handoffs, threadVars, workerVars, stopVars, seen,
     IInv, TypeOK, QueueInv, WorkerInv, BatchInv, LedgerInv, ThreadInv,
     EndingInv, Done, Over

(* Every step preserves it.                                                *)
LEMMA NextInvariant == IInv /\ [Next]_vars => IInv'
  <1> SUFFICES ASSUME IInv, [Next]_vars PROVE IInv'
    OBVIOUS
  <1>1. ASSUME NEW r \in Request, Reserve(r) \/ Commit(r) \/ Abort(r) \/ Unregister(r)
        PROVE  IInv'
    BY <1>1, ReserveStep, CommitStep, AbortStep, UnregisterStep
  <1>2. ASSUME NEW p \in Producer, NEW h \in Handoff, NEW b \in (SUBSET Request) \ {{}},
               Submit(p, h, b)
        PROVE  IInv'
    BY <1>2, SubmitStep
  <1>3. ASSUME NEW p \in Producer, ProducerStep(p)
        PROVE  IInv'
    BY <1>3, WakeUpStep, PutStep, FullStep, PlacedStep, AwaitAckStep, RetireStep,
       ReleaseStep
       DEF ProducerStep
  <1>4. ASSUME NEW p \in Producer, ProducerChoice(p)
        PROVE  IInv'
    BY <1>4, SubmitTimeoutStep, StopWaitingStep, WaitForPendingStep, RestStep
       DEF ProducerChoice, RetirePending, WaitTimeout, WaitGivesUp, WaitEnds
  <1>5. ASSUME ThreadStep
        PROVE  IInv'
    BY <1>5, DequeueStep, MembershipStep, EvaluateStep, ClaimStep,
       RecordTerminalStep, CommitTerminalStep, PopStep, AckStep, RetireLeaseStep,
       NotifyStep, CrashStep, DrainStep, SnapshotStep, FailNextStep,
       FailRecordStep, FailCommitStep, FinalStep
       DEF ThreadStep
  <1>6. ASSUME Stop \/ StopStep \/ StopPutTimeout
        PROVE  IInv'
    BY <1>6, StopCallStep, StopPutStep, StopTooLateStep, StopJoinedStep,
       StopWatchedStep, StopPutTimeoutStep
       DEF StopStep
  <1>7. CASE UNCHANGED vars
    BY <1>7, StutterInvariant
  <1> QED BY <1>1, <1>2, <1>3, <1>4, <1>5, <1>6, <1>7 DEF Next

(* The invariant holds in every reachable state.                           *)
THEOREM Invariance == Spec => []IInv
  <1> QED BY InitInvariant, NextInvariant, PTL DEF Spec

(* Every variable of the coordinator stays in its type, and the queue      *)
(* never holds more than its capacity.                                     *)
THEOREM TypeCorrect == Spec => []TypeOK
  <1>1. IInv => TypeOK
    BY DEF IInv
  <1> QED BY <1>1, Invariance, PTL

(* Exactly-once completion: the metrics count no request twice, and a      *)
(* committed terminal has been counted unless a call has raised.           *)
THEOREM CompletionIsCountedOnce == Spec => []RecordedOnce
  <1>1. IInv => RecordedOnce
    BY DEF IInv, LedgerInv, RecordedOnce
  <1> QED BY <1>1, Invariance, PTL

(* A completion thread that is gone, after a stop or a crash, has left no  *)
(* request of the ledger without its terminal.                             *)
THEOREM ThreadLeavesNobody == Spec => []NoneLeftBehind
  <1>1. IInv => NoneLeftBehind
    BY DEF IInv, EndingInv, NoneLeftBehind
  <1> QED BY <1>1, Invariance, PTL

(* Whoever gives an execution back to the runtime executor, the thread's   *)
(* lease, a worker or the callback, does so behind the last terminal.      *)
THEOREM BuffersReturnLast == Spec => []ReleasedAfterHandling
  <1>1. IInv => ReleasedAfterHandling
    BY DEF IInv, BatchInv, Done, Over, TypeOK, ReleasedAfterHandling
  <1> QED BY <1>1, Invariance, PTL

(* A stop() that has returned True speaks for a coordinator with no        *)
(* request, no reservation and no thread at work.                          *)
THEOREM StopTellsTheTruth == Spec => []StopTrueIsClean
  <1>1. IInv => StopTrueIsClean
    BY DEF IInv, EndingInv, StopTrueIsClean
  <1> QED BY <1>1, Invariance, PTL

-----------------------------------------------------------------------------
(* Once a request has its terminal, no step takes it away, counts the      *)
(* request again or makes it outstanding again.                            *)
TerminalIsForGood ==
  [][\A r \in Request : Over(r) => Over(r)' /\ recorded'[r] = recorded[r]]_vars

(* The steps that touch records, the ledger or the counts.                 *)
LEMMA OverStays ==
  ASSUME IInv, Next, NEW r \in Request, Over(r)
  PROVE  Over(r)' /\ recorded'[r] = recorded[r]
  <1>1. ASSUME NEW q \in Request, Commit(q) \/ Unregister(q)
        PROVE  Over(r)' /\ UNCHANGED recorded
    BY <1>1 DEF Commit, Unregister, SetRecord, seen, IInv, TypeOK, LedgerInv, Over
  <1>2. ASSUME NEW q \in Request, Reserve(q) \/ Abort(q)
        PROVE  Over(r)' /\ UNCHANGED recorded
    BY <1>2 DEF Reserve, Abort, seen, Over
  <1>3. ASSUME NEW p \in Producer, NEW h \in Handoff, NEW b \in (SUBSET Request) \ {{}},
               Submit(p, h, b)
        PROVE  Over(r)' /\ UNCHANGED recorded
    BY <1>3 DEF Submit, ledger, seen, Over
  <1>4. ASSUME NEW p \in Producer, ProducerStep(p) \/ ProducerChoice(p)
        PROVE  Over(r)' /\ UNCHANGED recorded
    BY <1>4 DEF ProducerStep, WakeUp, Put, Full, Placed, AwaitAck, Retire,
       Release, ProducerChoice, SubmitTimeout, StopWaiting, RetirePending,
       WaitForPending, WaitTimeout, WaitGivesUp, WaitEnds, ledger, seen, Over
  <1>5. CASE Claim
    BY <1>5 DEF Claim, SetRecord, seen, IInv, TypeOK, ThreadInv, Handling, Over
  <1>6. CASE RecordTerminal \/ FailRecord
    <2>1. record[current] = "claimed" /\ UNCHANGED <<record, outstanding>>
      BY <1>6 DEF RecordTerminal, FailRecord, IInv, ThreadInv, Claimed
    <2>2. r # current
      BY <2>1 DEF Over
    <2> QED BY <1>6, <2>1, <2>2 DEF RecordTerminal, FailRecord, RecordOnce, IInv, TypeOK, Over
  <1>7. CASE CommitTerminal \/ Pop \/ FailCommit
    BY <1>7 DEF CommitTerminal, Pop, FailCommit, SetRecord, seen, IInv, TypeOK, Over
  <1>8. CASE FailNext
    BY <1>8 DEF FailNext, Fail, SetRecord, seen, IInv, TypeOK, Over
  <1>9. CASE Dequeue \/ Membership \/ Evaluate \/ Ack \/ RetireLease \/ Notify
             \/ Crash \/ Drain \/ Snapshot \/ Final
    BY <1>9 DEF Dequeue, Membership, Evaluate, Ack, RetireLease, Notify, Crash,
       Drain, Snapshot, Final, seen, Over
  <1>10. CASE Stop \/ StopStep \/ StopPutTimeout
    BY <1>10 DEF Stop, StopStep, StopPut, StopTooLate, StopJoined, StopWatched,
       StopPutTimeout, ledger, seen, Over
  <1> QED BY <1>1, <1>2, <1>3, <1>4, <1>5, <1>6, <1>7, <1>8, <1>9, <1>10 DEF Next, ThreadStep

(* A terminal is final: neither a repeated batch, nor a crash, nor the     *)
(* clean-up after it touches a request that is over.                       *)
THEOREM TerminalsAreFinal == Spec => TerminalIsForGood
  <1>1. IInv /\ [Next]_vars =>
          [\A r \in Request : Over(r) => Over(r)' /\ recorded'[r] = recorded[r]]_vars
    BY OverStays
  <1> QED BY <1>1, Invariance, PTL DEF Spec, TerminalIsForGood

-----------------------------------------------------------------------------
(* The coordinator keeps CompletionContract.                               *)

Phases == [r \in Request |-> Phase(r)]
Running == state = "running"
Gone == thread = "dead"
Clean == stopResult = "true"

(* What a step that concerns requests only leaves alone.                   *)
Elsewhere == UNCHANGED <<batch, released, Running, Gone, Clean>>

(* Calls that have raised stay on the books.                               *)
Worsens == faults > 0 => faults' > 0

(* A step that concerns one request changes only its phase.                *)
LEMMA OnePhase ==
  ASSUME NEW r \in Request, NEW to, Phase(r)' = to,
         \A q \in Request : q # r =>
           /\ q \in reservations' <=> q \in reservations
           /\ q \in outstanding' <=> q \in outstanding
           /\ record'[q] = record[q]
  PROVE  Phases' = [Phases EXCEPT ![r] = to]
  <1>1. \A q \in Request : q # r => Phase(q)' = Phase(q)
    BY DEF Phase
  <1>2. Phases' = [q \in Request |-> Phase(q)']
    BY DEF Phases
  <1>3. Phases = [q \in Request |-> Phase(q)]
    BY DEF Phases
  <1> QED BY <1>1, <1>2, <1>3

(* The record of a request in the ledger may change, but not its phase.    *)
LEMMA SamePhases ==
  ASSUME UNCHANGED <<reservations, outstanding>>,
         \A r \in Request : record'[r] = record[r] \/ r \in outstanding
  PROVE  Phases' = Phases
  <1>1. \A r \in Request : Phase(r)' = Phase(r)
    BY DEF Phase
  <1>2. Phases' = [q \in Request |-> Phase(q)']
    BY DEF Phases
  <1>3. Phases = [q \in Request |-> Phase(q)]
    BY DEF Phases
  <1> QED BY <1>1, <1>2, <1>3

-----------------------------------------------------------------------------
(* One lemma per promise.                                                  *)

(* Nothing the contract speaks of changes, but a call may have raised.     *)
LEMMA Silent ==
  ASSUME Phases' = Phases, UNCHANGED recorded, Elsewhere, Worsens
  PROVE  [Contract!Next]_(Contract!vars)
  <1>1. CASE faults > 0 <=> faults' > 0
    <2>1. (faults > 0)' = (faults > 0)
      BY <1>1
    <2> QED BY <2>1 DEF Elsewhere, Contract!vars, Phases, Running, Gone, Clean
  <1>2. CASE faults' > 0 /\ ~(faults > 0)
    <2>1. Contract!Degrade
      BY <1>2 DEF Elsewhere, Contract!Degrade, Phases, Running, Gone, Clean
    <2> QED BY <1>2, <2>1 DEF Contract!Next
  <1> QED BY <1>1, <1>2 DEF Worsens

(* A request is reserved.                                                  *)
LEMMA IsReserved ==
  ASSUME NEW r \in Request, state = "running", Phases[r] = "none",
         Phases' = [Phases EXCEPT ![r] = "reserved"],
         UNCHANGED recorded, Elsewhere, Worsens
  PROVE  [Contract!Next]_(Contract!vars)
  <1>1. Contract!Reserve(r)
    BY DEF Contract!Reserve, Contract!Moves, Elsewhere, Phases, Running, Gone, Clean
  <1> QED BY <1>1 DEF Contract!Next, Worsens

(* A reservation is committed.                                             *)
LEMMA IsAccepted ==
  ASSUME NEW r \in Request, state = "running", Phases[r] = "reserved",
         Phases' = [Phases EXCEPT ![r] = "open"],
         UNCHANGED recorded, Elsewhere, Worsens
  PROVE  [Contract!Next]_(Contract!vars)
  <1>1. Contract!Accept(r)
    BY DEF Contract!Accept, Contract!Moves, Elsewhere, Phases, Running, Gone, Clean
  <1> QED BY <1>1 DEF Contract!Next, Worsens

(* A reservation is given back.                                            *)
LEMMA IsGivenUp ==
  ASSUME NEW r \in Request, Phases[r] = "reserved",
         Phases' = [Phases EXCEPT ![r] = "none"],
         UNCHANGED recorded, Elsewhere, Worsens
  PROVE  [Contract!Next]_(Contract!vars)
  <1>1. Contract!GiveUp(r)
    BY DEF Contract!GiveUp, Contract!Moves, Elsewhere, Phases, Running, Gone, Clean
  <1> QED BY <1>1 DEF Contract!Next, Worsens

(* A request outside all batches is taken back.                            *)
LEMMA IsWithdrawn ==
  ASSUME NEW r \in Request, Phases[r] = "open", \A h \in Handoff : r \notin batch[h],
         \/ recorded[r] = 0 /\ Phases' = [Phases EXCEPT ![r] = "none"]
         \/ Phases' = [Phases EXCEPT ![r] = "withdrawn"],
         UNCHANGED recorded, Elsewhere, Worsens
  PROVE  [Contract!Next]_(Contract!vars)
  <1>1. Contract!Withdraw(r)
    BY DEF Contract!Withdraw, Contract!Moves, Elsewhere, Phases, Running, Gone, Clean
  <1> QED BY <1>1 DEF Contract!Next, Worsens

(* A request is counted for the first time.                                *)
LEMMA IsCounted ==
  ASSUME NEW r \in Request, Phases[r] \in {"open", "withdrawn"}, recorded[r] = 0,
         Phases' = Phases, recorded' = [recorded EXCEPT ![r] = 1], Elsewhere, Worsens
  PROVE  [Contract!Next]_(Contract!vars)
  <1>1. Contract!Count(r)
    BY DEF Contract!Count, Elsewhere, Phases, Running, Gone, Clean
  <1> QED BY <1>1 DEF Contract!Next, Worsens

(* A request gets its terminal.                                            *)
LEMMA HasEnded ==
  ASSUME NEW r \in Request, Phases[r] \in {"open", "withdrawn"},
         recorded[r] = 1 \/ faults > 0,
         Phases' = [Phases EXCEPT ![r] = "over"],
         UNCHANGED recorded, Elsewhere, Worsens
  PROVE  [Contract!Next]_(Contract!vars)
  <1>1. Contract!End(r)
    BY DEF Contract!End, Contract!Moves, Elsewhere, Phases, Running, Gone, Clean
  <1> QED BY <1>1 DEF Contract!Next, Worsens

(* A batch of registered requests is handed in.                            *)
LEMMA IsHandedIn ==
  ASSUME NEW h \in Handoff, NEW b \in (SUBSET Request) \ {{}}, batch[h] = {},
         \A r \in b : Phases[r] \in {"open", "withdrawn", "over"},
         batch' = [batch EXCEPT ![h] = b], Phases' = Phases,
         UNCHANGED <<recorded, released, Running, Gone, Clean>>, Worsens
  PROVE  [Contract!Next]_(Contract!vars)
  <1>1. Contract!HandIn(h)
    BY DEF Contract!HandIn, Phases, Running, Gone, Clean
  <1> QED BY <1>1 DEF Contract!Next, Worsens

(* Executions are given back, perhaps in the last step of the thread.      *)
LEMMA AreReturned ==
  ASSUME NEW H \in SUBSET Handoff,
         \A h \in H : batch[h] # {} /\ \A r \in batch[h] : Phases[r] = "over",
         released' = released \cup H, Phases' = Phases,
         \/ UNCHANGED Gone
         \/ Gone' /\ ~Running /\ \A r \in Request : Phases[r] # "open",
         UNCHANGED <<recorded, batch, Running, Clean>>, Worsens
  PROVE  [Contract!Next]_(Contract!vars)
  <1>1. Contract!Return(H)
    BY DEF Contract!Return, Contract!Over, Phases, Running, Gone, Clean
  <1> QED BY <1>1 DEF Contract!Next, Worsens

(* The coordinator runs no more.                                           *)
LEMMA IsClosed ==
  ASSUME ~Running', Phases' = Phases,
         UNCHANGED <<recorded, batch, released, Gone, Clean>>, Worsens
  PROVE  [Contract!Next]_(Contract!vars)
  <1>1. Contract!Close
    BY DEF Contract!Close, Phases, Running, Gone, Clean
  <1> QED BY <1>1 DEF Contract!Next, Worsens

(* stop() says True when nothing is reserved or open.                      *)
LEMMA SaysTrue ==
  ASSUME ~Running, \A r \in Request : Phases[r] \notin {"reserved", "open"}, Clean',
         Phases' = Phases,
         UNCHANGED <<recorded, batch, released, Running, Gone>>, Worsens
  PROVE  [Contract!Next]_(Contract!vars)
  <1>1. Contract!StopSaysTrue
    BY DEF Contract!StopSaysTrue, Phases, Running, Gone, Clean
  <1> QED BY <1>1 DEF Contract!Next, Worsens

-----------------------------------------------------------------------------
(* What the actions keep.                                                  *)

(* No step takes a fault back.                                             *)
LEMMA FaultsStay ==
  ASSUME IInv, [Next]_vars
  PROVE  Worsens
  <1> USE DEF Worsens
  <1> faults \in Int
    BY DEF IInv, TypeOK
  <1>1. ASSUME NEW r \in Request, Reserve(r) \/ Commit(r) \/ Abort(r) \/ Unregister(r)
        PROVE  Worsens
    BY <1>1 DEF Reserve, Commit, Abort, Unregister
  <1>2. ASSUME NEW p \in Producer, NEW h \in Handoff, NEW b \in (SUBSET Request) \ {{}},
               Submit(p, h, b)
        PROVE  Worsens
    BY <1>2 DEF Submit
  <1>3. ASSUME NEW p \in Producer, ProducerStep(p) \/ ProducerChoice(p)
        PROVE  Worsens
    BY <1>3 DEF ProducerStep, WakeUp, Put, Full, Placed, AwaitAck, Retire,
       Release, ProducerChoice, SubmitTimeout, StopWaiting, RetirePending,
       WaitForPending, WaitTimeout, WaitGivesUp, WaitEnds
  <1>4. CASE Evaluate \/ RecordTerminal \/ Pop \/ RetireLease \/ FailRecord
    BY <1>4 DEF Evaluate, RecordTerminal, Pop, RetireLease, FailRecord, Works, Raises
  <1>5. CASE \/ Dequeue \/ Membership \/ Claim \/ CommitTerminal \/ Ack \/ Notify
             \/ Crash \/ Drain \/ Snapshot \/ FailNext \/ FailCommit \/ Final
    BY <1>5 DEF Dequeue, Membership, Claim, CommitTerminal, Ack, Notify, Crash, Drain,
       Snapshot, FailNext, FailCommit, Final
  <1>6. CASE Stop \/ StopStep \/ StopPutTimeout
    BY <1>6 DEF Stop, StopStep, StopPut, StopTooLate, StopJoined, StopWatched,
       StopPutTimeout
  <1>7. CASE UNCHANGED vars
    BY <1>7 DEF vars
  <1> QED BY <1>1, <1>2, <1>3, <1>4, <1>5, <1>6, <1>7 DEF Next, ThreadStep

(* The record of a request says where it is.                               *)
LEMMA RecordedPhase ==
  ASSUME IInv, NEW r \in Request
  PROVE  /\ Phases[r] = Phase(r)
         /\ r \in outstanding => Phases[r] = "open"
         /\ r \in reservations => Phases[r] = "reserved"
         /\ record[r] = "pending" => r \in outstanding
         /\ record[r] = "claimed" => Phases[r] \in {"open", "withdrawn"}
         /\ Over(r) => Phases[r] = "over"
         /\ record[r] # "none" => Phases[r] \in {"open", "withdrawn", "over"}
         /\ r \notin reservations \cup outstanding /\ record[r] = "none" => Phases[r] = "none"
  BY DEF Phases, Phase, Over, IInv, LedgerInv, TypeOK

(* Registration of a request.                                              *)
LEMMA RegistrationKeeps ==
  ASSUME IInv, NEW r \in Request, Reserve(r) \/ Commit(r) \/ Abort(r) \/ Unregister(r), Worsens
  PROVE  [Contract!Next]_(Contract!vars)
  <1>1. Elsewhere /\ UNCHANGED recorded
    BY DEF Reserve, Commit, Abort, Unregister, handoffs, threadVars, stopVars, seen,
       Elsewhere, Running, Gone, Clean
  <1>2. /\ reservations \subseteq Request /\ outstanding \subseteq Request
        /\ record \in [Request -> {"none", "pending", "claimed", "committed"}]
    BY DEF IInv, TypeOK
  <1>3. CASE Reserve(r)
    <2>1. Phase(r)' = "reserved"
      BY <1>3 DEF Reserve, Phase
    <2>2. Phases' = [Phases EXCEPT ![r] = "reserved"]
      BY <1>3, <2>1, OnePhase DEF Reserve
    <2> QED BY <1>1, <1>3, <2>2, RecordedPhase, IsReserved DEF Reserve
  <1>4. CASE Commit(r)
    <2>1. Phase(r)' = "open"
      BY <1>4 DEF Commit, Phase
    <2>2. Phases' = [Phases EXCEPT ![r] = "open"]
      BY <1>2, <1>4, <2>1, OnePhase DEF Commit, SetRecord
    <2> QED BY <1>1, <1>4, <2>2, RecordedPhase, IsAccepted DEF Commit
  <1>5. CASE Abort(r)
    <2>1. Phase(r)' = "none"
      BY <1>5 DEF Abort, Phase, IInv, LedgerInv
    <2>2. Phases' = [Phases EXCEPT ![r] = "none"]
      BY <1>5, <2>1, OnePhase DEF Abort
    <2> QED BY <1>1, <1>5, <2>2, RecordedPhase, IsGivenUp DEF Abort
  <1>6. CASE Unregister(r)
    <2>1. /\ Phases[r] = "open" /\ \A h \in Handoff : r \notin batch[h]
          /\ r \notin reservations /\ r \notin outstanding' /\ UNCHANGED reservations
      BY <1>6, RecordedPhase DEF Unregister, IInv, LedgerInv
    <2>2. \A q \in Request : q # r =>
            /\ q \in reservations' <=> q \in reservations
            /\ q \in outstanding' <=> q \in outstanding
            /\ record'[q] = record[q]
      BY <1>2, <1>6 DEF Unregister
    <2>3. CASE record[r] = "pending"
      <3>1. record'[r] = "none"
        BY <1>2, <1>6, <2>3 DEF Unregister
      <3>2. Phase(r)' = "none" /\ recorded[r] = 0
        BY <2>1, <2>3, <3>1 DEF Phase, IInv, LedgerInv
      <3> QED BY <1>1, <2>1, <2>2, <3>2, OnePhase, IsWithdrawn
    <2>4. CASE record[r] = "claimed"
      <3>1. Phase(r)' = "withdrawn"
        BY <1>6, <2>1, <2>4 DEF Phase, Unregister
      <3> QED BY <1>1, <2>1, <2>2, <3>1, OnePhase, IsWithdrawn
    <2>5. CASE record[r] = "committed"
      <3>1. Phase(r)' = "over"
        BY <1>6, <2>1, <2>5 DEF Phase, Unregister
      <3>2. recorded[r] = 1 \/ faults > 0
        BY <2>5 DEF IInv, LedgerInv, TypeOK
      <3> QED BY <1>1, <2>1, <2>2, <3>1, <3>2, OnePhase, HasEnded
    <2> QED BY <1>2, <1>6, <2>3, <2>4, <2>5 DEF Unregister, IInv, LedgerInv
  <1> QED BY <1>3, <1>4, <1>5, <1>6

(* A batch handed in for the first time, or again.                         *)
LEMMA SubmissionKeeps ==
  ASSUME IInv, NEW p \in Producer, NEW h \in Handoff, NEW b \in (SUBSET Request) \ {{}},
         Submit(p, h, b), Worsens
  PROVE  [Contract!Next]_(Contract!vars)
  <1>1. /\ UNCHANGED <<ledger, recorded, released, Running, Gone, Clean>>
        /\ batch' = [batch EXCEPT ![h] = b]
    BY DEF Submit, threadVars, stopVars, seen, Running, Gone, Clean
  <1>2. Phases' = Phases
    BY <1>1, SamePhases DEF ledger
  <1>3. CASE handoff[h] = "none"
    <2>1. batch[h] = {}
      BY <1>3 DEF IInv, BatchInv
    <2>2. \A r \in b : Phases[r] \in {"open", "withdrawn", "over"}
      BY <1>3, RecordedPhase DEF Submit
    <2> QED BY <1>1, <1>2, <2>1, <2>2, IsHandedIn
  <1>4. CASE b = batch[h]
    <2>1. UNCHANGED batch
      BY <1>1, <1>4 DEF IInv, TypeOK
    <2> QED BY <1>1, <1>2, <2>1, Silent DEF Elsewhere
  <1> QED BY <1>3, <1>4 DEF Submit

(* A batch that is done, as the contract sees it.                          *)
LEMMA DoneIsOver ==
  ASSUME IInv, NEW h \in Handoff, Done(h), handoff[h] # "none"
  PROVE  batch[h] # {} /\ \A r \in batch[h] : Phases[r] = "over"
  <1>1. batch[h] # {} /\ batch[h] \subseteq Request
    BY DEF IInv, BatchInv, TypeOK
  <1>2. \A r \in batch[h] : Over(r)
    BY DEF Done
  <1> QED BY <1>1, <1>2, RecordedPhase

(* Whatever of a set of handoffs is settled goes back.                     *)
LEMMA RetirementKeeps ==
  ASSUME IInv, NEW hs \in SUBSET Handoff, NEW sleepers, RetireSettled(hs, sleepers),
         UNCHANGED <<ledger, recorded, batch, state, stopResult>>,
         \/ UNCHANGED thread
         \/ thread = "notify" /\ thread' = "dequeue"
         \/ thread = "farewell" /\ thread' = "dead",
         Worsens
  PROVE  [Contract!Next]_(Contract!vars)
  <1> DEFINE H == {h \in hs : Settled(h)}
  <1>1. H \in SUBSET Handoff /\ released' = released \cup H
    BY DEF RetireSettled
  <1>2. \A h \in H : batch[h] # {} /\ \A r \in batch[h] : Phases[r] = "over"
    BY SettledIsDone, DoneIsOver
  <1>3. Phases' = Phases
    BY SamePhases DEF ledger
  <1>4. \/ UNCHANGED Gone
        \/ Gone' /\ ~Running /\ \A r \in Request : Phases[r] # "open"
    <2>1. CASE UNCHANGED thread \/ (thread = "notify" /\ thread' = "dequeue")
      BY <2>1 DEF Gone
    <2>2. CASE thread = "farewell" /\ thread' = "dead"
      <3>1. ~Running /\ outstanding = {}
        BY <2>2 DEF IInv, EndingInv, Ending, Running
      <3>2. \A r \in Request : Phases[r] # "open"
        BY <3>1 DEF Phases, Phase
      <3> QED BY <2>2, <3>1, <3>2 DEF Gone
    <2> QED BY <2>1, <2>2
  <1>5. UNCHANGED <<recorded, batch, Running, Clean>>
    BY DEF Running, Clean
  <1> HIDE DEF H
  <1> QED BY <1>1, <1>2, <1>3, <1>4, <1>5, AreReturned

(* One execution goes back.                                                *)
LEMMA OneReturned ==
  ASSUME IInv, NEW h \in Handoff, Done(h), handoff[h] # "none",
         released' = released \cup {h}, Phases' = Phases,
         UNCHANGED <<recorded, batch, Running, Gone, Clean>>, Worsens
  PROVE  [Contract!Next]_(Contract!vars)
  <1>1. {h} \in SUBSET Handoff
    OBVIOUS
  <1>2. \A g \in {h} : batch[g] # {} /\ \A r \in batch[g] : Phases[r] = "over"
    BY DoneIsOver
  <1> QED BY <1>1, <1>2, AreReturned

(* A worker on its way from submission to retirement.                      *)
LEMMA WorkerKeeps ==
  ASSUME IInv, NEW p \in Producer, ProducerStep(p) \/ ProducerChoice(p),
         Worsens
  PROVE  [Contract!Next]_(Contract!vars)
  <1>1. CASE \/ WakeUp(p) \/ Put(p) \/ Full(p) \/ Placed(p) \/ AwaitAck(p) \/ Retire(p)
             \/ SubmitTimeout(p) \/ StopWaiting(p) \/ WaitForPending(p)
    <2>1. UNCHANGED <<ledger, recorded>> /\ Elsewhere
      BY <1>1 DEF WakeUp, Put, Full, Placed, AwaitAck, Retire, SubmitTimeout, StopWaiting,
         WaitForPending, handoffs, threadVars, stopVars, seen, Elsewhere, Running, Gone, Clean
    <2> QED BY <2>1, SamePhases, Silent DEF ledger
  <1>2. CASE Release(p)
    <2>1. /\ mine[p] \in Handoff /\ Done(mine[p]) /\ handoff[mine[p]] # "none"
          /\ released' = released \cup {mine[p]}
          /\ UNCHANGED <<ledger, recorded, batch, Running, Gone, Clean>>
      BY <1>2 DEF Release, IInv, WorkerInv, handoffs, threadVars, stopVars, Running, Gone,
         Clean
    <2> QED BY <2>1, SamePhases, OneReturned DEF ledger
  <1>3. CASE RetirePending(p) \/ WaitTimeout(p) \/ WaitGivesUp(p)
    <2>1. UNCHANGED <<ledger, recorded, batch, state, stopResult, thread>>
      BY <1>3 DEF RetirePending, WaitTimeout, WaitGivesUp, WaitEnds, threadVars, stopVars
    <2>2. pending[p] \in SUBSET Handoff /\ deferred \cup pending[p] \in SUBSET Handoff
      BY DEF IInv, TypeOK
    <2>3. PICK hs \in SUBSET Handoff : RetireSettled(hs, asleep \ {p})
      BY <1>3, <2>2 DEF RetirePending, WaitTimeout, WaitGivesUp, KeepRest, DeferRest
    <2> QED BY <2>1, <2>3, RetirementKeeps
  <1> QED BY <1>1, <1>2, <1>3 DEF ProducerStep, ProducerChoice

(* The thread's steps that neither record nor give back anything.          *)
LEMMA ThreadIsSilent ==
  ASSUME IInv, Worsens,
         \/ Dequeue \/ Membership \/ Evaluate \/ Claim \/ Ack \/ Drain \/ Snapshot \/ Final
  PROVE  [Contract!Next]_(Contract!vars)
  <1>1. CASE Dequeue \/ Membership \/ Evaluate \/ Ack
    <2>1. UNCHANGED <<reservations, outstanding, record, recorded>> /\ Elsewhere
      BY <1>1 DEF Dequeue, Membership, Evaluate, Ack, Works, Raises, Goes, othersVars,
         stopVars, seen, Elsewhere, Running, Gone, Clean
    <2> QED BY <2>1, SamePhases, Silent
  <1>2. CASE Drain \/ Snapshot \/ Final
    <2>1. UNCHANGED <<reservations, outstanding, record, recorded>> /\ Elsewhere
      BY <1>2 DEF Drain, Snapshot, Final, Goes, othersVars, stopVars, seen, Elsewhere,
         Running, Gone, Clean, IInv, EndingInv, Ending
    <2> QED BY <2>1, SamePhases, Silent
  <1>3. CASE Claim
    <2>1. UNCHANGED <<reservations, outstanding, recorded>> /\ Elsewhere
      BY <1>3 DEF Claim, Goes, othersVars, stopVars, seen, Elsewhere, Running, Gone, Clean
    <2>2. \A r \in known : record[r] = "pending" /\ r \in Request
      BY <1>3 DEF Claim, IInv, ThreadInv, Handling, TypeOK
    <2>3. \A r \in Request : record'[r] = record[r] \/ r \in outstanding
      BY <1>3, <2>2, RecordedPhase DEF Claim, SetRecord, IInv, TypeOK
    <2> QED BY <2>1, <2>3, SamePhases, Silent
  <1> QED BY <1>1, <1>2, <1>3

(* The metrics are called for the request at work.                         *)
LEMMA RecordingKeeps ==
  ASSUME IInv, RecordTerminal \/ FailRecord, Worsens
  PROVE  [Contract!Next]_(Contract!vars)
  <1>1. /\ current \in Request /\ record[current] = "claimed" /\ recorded[current] = 0
        /\ recorded \in [Request -> Nat]
    BY DEF RecordTerminal, FailRecord, IInv, ThreadInv, Claimed, TypeOK
  <1>2. UNCHANGED <<reservations, outstanding, record>> /\ Elsewhere
    BY DEF RecordTerminal, FailRecord, Works, Raises, Goes, othersVars, stopVars,
       Elsewhere, Running, Gone, Clean
  <1>3. Phases' = Phases
    BY <1>2, SamePhases
  <1>4. recorded' = [recorded EXCEPT ![current] = 1] \/ UNCHANGED recorded
    BY <1>1 DEF RecordTerminal, FailRecord, RecordOnce
  <1>5. Phases[current] \in {"open", "withdrawn"}
    BY <1>1, RecordedPhase
  <1> QED BY <1>1, <1>2, <1>3, <1>4, <1>5, IsCounted, Silent

(* The request at work gets its terminal, in the ledger or out of it.      *)
LEMMA CommittingKeeps ==
  ASSUME IInv, CommitTerminal \/ Pop \/ FailCommit, Worsens
  PROVE  [Contract!Next]_(Contract!vars)
  <1>1. /\ current \in Request /\ reservations \subseteq Request
        /\ record \in [Request -> {"none", "pending", "claimed", "committed"}]
        /\ record[current] # "none"
    BY DEF CommitTerminal, Pop, FailCommit, IInv, ThreadInv, Claimed, TypeOK
  <1>2. UNCHANGED <<reservations, recorded>> /\ Elsewhere /\ current \notin reservations
    BY <1>1 DEF CommitTerminal, Pop, FailCommit, Goes, othersVars, stopVars, seen, Elsewhere,
       Running, Gone, Clean, IInv, LedgerInv
  <1>3. \A q \in Request : q # current =>
          /\ q \in outstanding' <=> q \in outstanding
          /\ record'[q] = record[q]
    BY <1>1 DEF CommitTerminal, Pop, FailCommit, SetRecord
  <1>4. /\ record'[current] = "committed"
        /\ CommitTerminal \/ current \notin outstanding'
    BY <1>1 DEF CommitTerminal, Pop, FailCommit, SetRecord, IInv, ThreadInv
  <1>5. CASE current \in outstanding'
    <2>1. CommitTerminal /\ UNCHANGED outstanding
      BY <1>4, <1>5 DEF CommitTerminal
    <2>2. Phases' = Phases
      BY <1>2, <1>3, <1>5, <2>1, SamePhases
    <2> QED BY <1>2, <2>2, Silent
  <1>6. CASE current \notin outstanding'
    <2>r. PICK r \in Request : r = current
      BY <1>1
    <2>1. Phase(r)' = "over"
      BY <1>2, <1>4, <1>6, <2>r DEF Phase
    <2>2. Phases' = [Phases EXCEPT ![current] = "over"]
      BY <1>1, <1>2, <1>3, <2>r, <2>1, OnePhase
    <2>3. CASE Phases[current] = "over"
      <3>1. Phases' = Phases
        BY <2>2, <2>3 DEF Phases
      <3> QED BY <1>2, <3>1, Silent
    <2>4. CASE Phases[current] # "over"
      <3>1. Phases[current] \in {"open", "withdrawn"}
        BY <1>1, <2>4, RecordedPhase
      <3>2. recorded[current] = 1 \/ faults > 0
        BY <1>1, <3>1 DEF CommitTerminal, Pop, FailCommit, IInv, ThreadInv, LedgerInv, TypeOK
      <3> QED BY <1>1, <1>2, <2>2, <3>1, <3>2, HasEnded
    <2> QED BY <2>3, <2>4
  <1> QED BY <1>5, <1>6

(* What is left is failed, one after the other.                            *)
LEMMA FailingKeeps ==
  ASSUME IInv, FailNext, Worsens
  PROVE  [Contract!Next]_(Contract!vars)
  <1>1. UNCHANGED <<reservations, recorded>> /\ Elsewhere /\ thread = "fail"
    BY DEF FailNext, Fail, Goes, othersVars, stopVars, seen, Elsewhere, Running, Gone, Clean
  <1>2. record \in [Request -> {"none", "pending", "claimed", "committed"}]
    BY DEF IInv, TypeOK
  <1>3. CASE UNCHANGED <<outstanding, record>>
    BY <1>1, <1>3, SamePhases, Silent
  <1>4. ASSUME NEW r \in failing, r \in outstanding, record[r] = "pending",
               SetRecord(r, "claimed"), UNCHANGED outstanding
        PROVE  [Contract!Next]_(Contract!vars)
    <2>1. \A q \in Request : record'[q] = record[q] \/ q \in outstanding
      BY <1>2, <1>4 DEF SetRecord
    <2> QED BY <1>1, <1>4, <2>1, SamePhases, Silent
  <1>5. ASSUME NEW r \in failing, r \in outstanding, record[r] \in {"claimed", "committed"},
               SetRecord(r, "committed"), outstanding' = outstanding \ {r}
        PROVE  [Contract!Next]_(Contract!vars)
    <2>1. r \in Request /\ r \notin reservations
      BY <1>5 DEF IInv, LedgerInv, TypeOK
    <2>2. Phase(r)' = "over"
      BY <1>1, <1>2, <1>5, <2>1 DEF Phase, SetRecord
    <2>3. Phases' = [Phases EXCEPT ![r] = "over"]
      BY <1>1, <1>2, <1>5, <2>1, <2>2, OnePhase DEF SetRecord
    <2>4. Phases[r] = "open"
      BY <1>5, <2>1, RecordedPhase
    <2>5. faults > 0
      BY <1>1, <1>5, <2>1 DEF IInv, LedgerInv, Claimed
    <2> QED BY <1>1, <2>1, <2>3, <2>4, <2>5, HasEnded
  <1> QED BY <1>3, <1>4, <1>5 DEF FailNext, Fail

(* The thread gives executions back, says farewell or crashes.             *)
LEMMA ThreadReturns ==
  ASSUME IInv, RetireLease \/ Notify \/ Crash, Worsens
  PROVE  [Contract!Next]_(Contract!vars)
  <1>1. CASE RetireLease
    <2>1. /\ UNCHANGED <<reservations, outstanding, record, recorded, batch>>
          /\ UNCHANGED <<Running, Gone, Clean>>
      BY <1>1 DEF RetireLease, Works, Raises, Goes, othersVars, stopVars, Running, Gone, Clean
    <2>2. Phases' = Phases
      BY <2>1, SamePhases
    <2>3. item \in Handoff /\ Done(item) /\ handoff[item] # "none"
      BY <1>1 DEF RetireLease, IInv, ThreadInv, Holding
    <2>4. UNCHANGED released \/ released' = released \cup {item}
      BY <1>1 DEF RetireLease
    <2> QED BY <2>1, <2>2, <2>3, <2>4, OneReturned, Silent DEF Elsewhere
  <1>2. CASE Notify
    <2>1. /\ UNCHANGED <<ledger, recorded, batch, state, stopResult>>
          /\ \/ thread = "notify" /\ thread' = "dequeue"
             \/ thread = "farewell" /\ thread' = "dead"
      BY <1>2 DEF Notify, Goes, othersVars, stopVars, ledger
    <2>2. deferred \in SUBSET Handoff
      BY DEF IInv, TypeOK
    <2> QED BY <1>2, <2>1, <2>2, RetirementKeeps DEF Notify
  <1>3. CASE Crash
    <2>1. /\ UNCHANGED <<reservations, outstanding, record, recorded, batch, released>>
          /\ UNCHANGED <<Gone, Clean>> /\ ~Running'
      BY <1>3 DEF Crash, Goes, othersVars, stopVars, seen, Running, Gone, Clean
    <2> QED BY <2>1, SamePhases, IsClosed
  <1> QED BY <1>1, <1>2, <1>3

(* stop(): the first call closes, and True is final.                       *)
LEMMA StoppingKeeps ==
  ASSUME IInv, Stop \/ StopStep \/ StopPutTimeout, Worsens
  PROVE  [Contract!Next]_(Contract!vars)
  <1>1. UNCHANGED <<ledger, recorded, batch, released, Gone>> /\ Phases' = Phases
    <2>1. UNCHANGED <<ledger, recorded, batch, released, Gone>>
      BY DEF Stop, StopStep, StopPut, StopTooLate, StopJoined, StopWatched,
         StopPutTimeout, handoffs, threadVars, seen, Gone
    <2> QED BY <2>1, SamePhases DEF ledger
  <1>2. CASE Clean' /\ ~Clean
    <2>1. state = "stopped" /\ reservations = {} /\ state' = state
      BY <1>2 DEF Stop, StopStep, StopPut, StopTooLate, StopJoined, StopWatched,
         StopPutTimeout, StopReturns, Clean
    <2>2. outstanding = {}
      BY <2>1 DEF IInv, EndingInv
    <2>3. \A r \in Request : Phases[r] \notin {"reserved", "open"}
      BY <2>1, <2>2 DEF Phases, Phase
    <2> QED BY <1>1, <1>2, <2>1, <2>3, SaysTrue DEF Running
  <1>3. CASE Clean' = Clean /\ ~Running'
    BY <1>1, <1>3, IsClosed
  <1>4. CASE Clean' = Clean /\ Running'
    <2>1. UNCHANGED Running
      BY <1>4 DEF Stop, StopStep, StopPut, StopTooLate, StopJoined, StopWatched,
         StopPutTimeout, Running
    <2> QED BY <1>1, <1>4, <2>1, Silent DEF Elsewhere
  <1>5. Clean => Clean'
    BY DEF Stop, StopStep, StopPut, StopTooLate, StopJoined, StopWatched, StopPutTimeout,
       StopReturns, Clean, IInv, EndingInv
  <1>6. Clean \in BOOLEAN /\ Clean' \in BOOLEAN
    BY DEF Clean
  <1> QED BY <1>2, <1>3, <1>4, <1>5, <1>6

(* The coordinator implements its contract: a request's phases follow each *)
(* other, a terminal is counted once and final, buffers return behind it,  *)
(* and neither the end of the thread nor True from stop() leaves a request *)
(* of the ledger behind.                                                   *)
THEOREM ContractImplemented == Spec => ImplementsContract
  <1>1. Init => Contract!Init
    BY DEF Init, Contract!Init, Phase
  <1>2. ASSUME IInv, [Next]_vars
        PROVE  [Contract!Next]_(Contract!vars)
    <2>1. Worsens
      BY <1>2, FaultsStay
    <2>2. ASSUME NEW r \in Request, Reserve(r) \/ Commit(r) \/ Abort(r) \/ Unregister(r)
          PROVE  [Contract!Next]_(Contract!vars)
      BY <1>2, <2>1, <2>2, RegistrationKeeps
    <2>3. ASSUME NEW p \in Producer, NEW h \in Handoff, NEW b \in (SUBSET Request) \ {{}},
                 Submit(p, h, b)
          PROVE  [Contract!Next]_(Contract!vars)
      BY <1>2, <2>1, <2>3, SubmissionKeeps
    <2>4. ASSUME NEW p \in Producer, ProducerStep(p) \/ ProducerChoice(p)
          PROVE  [Contract!Next]_(Contract!vars)
      BY <1>2, <2>1, <2>4, WorkerKeeps
    <2>5. CASE ThreadStep
      BY <1>2, <2>1, <2>5, ThreadIsSilent, RecordingKeeps, CommittingKeeps, FailingKeeps,
         ThreadReturns
         DEF ThreadStep
    <2>6. CASE Stop \/ StopStep \/ StopPutTimeout
      BY <1>2, <2>1, <2>6, StoppingKeeps
    <2>7. CASE UNCHANGED vars
      <3>1. UNCHANGED <<ledger, recorded>> /\ Elsewhere
        BY <2>7 DEF vars, handoffs, threadVars, stopVars, seen, Elsewhere, Running, Gone, Clean
      <3> QED BY <2>1, <3>1, SamePhases, Silent DEF ledger
    <2> QED BY <1>2, <2>2, <2>3, <2>4, <2>5, <2>6, <2>7 DEF Next
  <1> QED BY <1>1, <1>2, Invariance, PTL DEF Spec, ImplementsContract, Contract!Spec
=============================================================================
