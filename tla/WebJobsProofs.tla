----------------------------- MODULE WebJobsProofs -----------------------------
(***************************************************************************)
(* Proofs about WebJobs, for any number of jobs and cancelling clients and *)
(* any bound on failing store calls, crashes and shutdowns: the inductive  *)
(* invariant, what it implies, and that WebJobs implements JobContract.    *)
(***************************************************************************)
EXTENDS WebJobs, TLAPS

(* Between claim_next() and the record of the result the row says running. *)
Claimed == {"clear", "publish", "recheck", "profile", "spawn", "pid", "poll",
            "watch", "deadline", "judge", "record"}

(* The live child of run_process().                                        *)
Live == {"alive", "ok", "bad"}

ClaimedIsRunning ==
  /\ worker \in Claimed => job \in Job /\ status[job] = "running"
  /\ worker = "fail" => job \in Job /\ status[job] \in {"running"} \cup Terminal
  /\ worker \in {"unpublish", "reset"} => job \in Job /\ status[job] \in Terminal

(* A living worker knows the only row that may be running.                 *)
OnlyClaimedRuns ==
  worker # "dead" =>
    \A j \in Job : status[j] = "running" =>
      j = job /\ worker \in Claimed \cup {"fail"}

(* A live child is supervised, and supervision has a live child.           *)
LiveIsSupervised ==
  /\ \A j \in Job : child[j] \in Live => j = job /\ worker \in {"pid"} \cup Watching
  /\ worker \in {"pid"} \cup Watching => child[job] \in Live

Judged == worker \in {"judge", "record"} => result \in Terminal

IInv ==
  /\ TypeOK
  /\ ClaimedIsRunning
  /\ OnlyClaimedRuns
  /\ LiveIsSupervised
  /\ Judged

(* The type invariant in two parts: Boolean variables and the others.      *)
Flags == locked \in BOOLEAN /\ stop \in BOOLEAN /\ activeCancel \in BOOLEAN

Values ==
  /\ status \in [Job -> Status]
  /\ cancelReq \in [Job -> BOOLEAN]
  /\ child \in [Job -> {"none", "alive", "ok", "bad", "gone", "orphan"}]
  /\ server \in {"down", "up", "cancelling", "joining", "exiting"}
  /\ activeId \in Job \cup {NoJob}
  /\ worker \in WorkerStep
  /\ job \in Job \cup {NoJob}
  /\ result \in {"none"} \cup Terminal
  /\ caller \in [Caller -> {"idle", "check", "set", "done"}]
  /\ target \in [Caller -> Job \cup {NoJob}]
  /\ faults \in 0..MaxFault /\ crashes \in 0..MaxCrash /\ stops \in 0..MaxStop

-----------------------------------------------------------------------------
(* The two parts are the type invariant.                                   *)
LEMMA TypeParts == TypeOK <=> Flags /\ Values
  BY DEF TypeOK, Flags, Values

(* A fresh ledger: nothing is queued, claimed or running.                  *)
LEMMA InitInvariant == Init => IInv
  <1> SUFFICES ASSUME Init PROVE IInv
    OBVIOUS
  <1>1. Flags
    BY DEF Init, Flags
  <1>2. Values
    BY WebJobsAssumption DEF Init, Values, Status, WorkerStep
  <1>3. ClaimedIsRunning /\ Judged
    BY DEF Init, ClaimedIsRunning, Judged, Claimed
  <1>4. OnlyClaimedRuns /\ LiveIsSupervised
    BY DEF Init, OnlyClaimedRuns, LiveIsSupervised, Live, Watching
  <1> QED BY <1>1, <1>2, <1>3, <1>4, TypeParts DEF IInv

(* recover() leaves no row running and every finished row alone.           *)
LEMMA RecoveredFacts ==
  ASSUME Values
  PROVE  /\ Recovered \in [Job -> Status]
         /\ \A j \in Job : Recovered[j] # "running"
         /\ \A j \in Job : status[j] \in Terminal => Recovered[j] = status[j]
  BY DEF Values, Recovered, Status, Terminal

(* So does prune_older_than(), but for the rows it removes.                *)
LEMMA PrunedFacts ==
  ASSUME NEW rows \in [Job -> Status], NEW old \in SUBSET Job
  PROVE  /\ Pruned(rows, old) \in [Job -> Status]
         /\ \A j \in Job : Pruned(rows, old)[j] \in {rows[j], "pruned"}
  BY DEF Pruned, Status

-----------------------------------------------------------------------------
(* Types.                                                                  *)

(* Events and the lock only ever get truth values.                         *)
LEMMA FlagsStep ==
  ASSUME Flags, [Next]_vars
  PROVE  Flags'
  <1>1. CASE \/ Start \/ Crash \/ StopBegin \/ StopCancelsActive \/ StopJoined
             \/ StopTimeout \/ Exit
    BY <1>1 DEF Flags, Start, Started, Crash, StopBegin, StopCancelsActive,
                StopJoined, StopTimeout, Exit, ServerGone, events, bounds
  <1>2. CASE \/ Enqueue
             \/ \E k \in Caller : CallerNext(k) \/ \E j \in Job : CancelStore(k, j)
             \/ \E j \in Job : ChildExits(j)
    BY <1>2 DEF Flags, Enqueue, CallerNext, CancelCheck, CancelSet, CancelStore,
                ChildExits, events
  <1>3. CASE WorkerNext
    BY <1>3 DEF Flags, WorkerNext, LeaveLoop, Claim, ClearCancel, PublishActive, Recheck, SelectProfile, Spawn, StorePid, PollExited, PollAlive, WatchCancelled, WatchGoesOn, DeadlinePassed, DeadlineAhead, Judge, RecordResult, RecordFailed, Unpublish, ResetCancel, events, idleWorld
  <1>4. CASE UNCHANGED vars
    BY <1>4 DEF Flags, vars, events
  <1> QED BY <1>1, <1>2, <1>3, <1>4 DEF Next

(* A store call of the worker that works or fails.                         *)
LEMMA StoreFacts ==
  ASSUME Values, NEW good \in WorkerStep, NEW bad \in WorkerStep,
         StoreWorks(good) \/ StoreFails(bad)
  PROVE  worker' \in {good, bad} /\ worker' \in WorkerStep /\ faults' \in 0..MaxFault
  BY WebJobsAssumption DEF Values, StoreWorks, StoreFails, WorkerGoes

(* The server's steps keep the types.                                      *)
LEMMA ServerValues ==
  ASSUME Values,
         \/ Start \/ Crash \/ StopBegin \/ StopCancelsActive \/ StopJoined
         \/ StopTimeout \/ Exit
  PROVE  Values'
  <1>1. CASE Start
    <2>1. status' \in [Job -> Status]
      <3>1. ASSUME NEW old \in SUBSET Job, status' = Pruned(Recovered, old)
            PROVE  status' \in [Job -> Status]
        BY <3>1, RecoveredFacts, PrunedFacts
      <3>2. CASE status' \in {status, Recovered}
        BY <3>2, RecoveredFacts DEF Values
      <3> QED BY <1>1, <3>1, <3>2 DEF Start
    <2>2. /\ server' \in {"up", server} /\ worker' \in {"top", worker}
          /\ faults' \in 0..MaxFault
      BY <1>1, WebJobsAssumption DEF Start, Started, WorkerGoes, Values
    <2>3. UNCHANGED <<cancelReq, child, activeId, job, result,
                      caller, target, crashes, stops>>
      BY <1>1 DEF Start, callerVars
    <2> QED BY <2>1, <2>2, <2>3 DEF Values, WorkerStep
  <1>2. CASE Crash \/ Exit
    <2>1. ServerGone
      BY <1>2 DEF Crash, Exit
    <2>2. UNCHANGED <<faults, stops>> /\ crashes' \in 0..MaxCrash
      BY <1>2, WebJobsAssumption DEF Crash, Exit, bounds, Values
    <2>3. child' \in [Job -> {"none", "alive", "ok", "bad", "gone", "orphan"}]
      BY <2>1 DEF ServerGone, Values
    <2>4. /\ caller' \in [Caller -> {"idle", "check", "set", "done"}]
          /\ target' \in [Caller -> Job \cup {NoJob}]
      BY <2>1 DEF ServerGone, Values
    <2> QED BY <2>1, <2>2, <2>3, <2>4 DEF ServerGone, ledger, Values, WorkerStep
  <1>3. CASE StopJoined
    <2>1. status' \in [Job -> Status] /\ faults' \in 0..MaxFault
      BY <1>3, RecoveredFacts, WebJobsAssumption DEF StopJoined, Values
    <2> QED BY <1>3, <2>1
            DEF StopJoined, Values, events, workerVars, callerVars
  <1>4. CASE StopBegin \/ StopCancelsActive \/ StopTimeout
    BY <1>4, WebJobsAssumption
    DEF StopBegin, StopCancelsActive, StopTimeout, Values, ledger, events,
        workerVars, callerVars, bounds
  <1> QED BY <1>1, <1>2, <1>3, <1>4

(* So do those of the API threads and the child.                           *)
LEMMA CallerValues ==
  ASSUME Values,
         \/ Enqueue
         \/ \E k \in Caller : CallerNext(k) \/ \E j \in Job : CancelStore(k, j)
         \/ \E j \in Job : ChildExits(j)
  PROVE  Values'
  <1>1. CASE Enqueue
    BY <1>1 DEF Enqueue, Record, Rows, Values, Status, events, workerVars,
                callerVars, bounds
  <1>2. ASSUME NEW k \in Caller, CallerNext(k)
        PROVE  Values'
    BY <1>2 DEF CallerNext, CancelCheck, CancelSet, Values, ledger, events,
                workerVars, bounds
  <1>3. ASSUME NEW k \in Caller, NEW j \in Job, CancelStore(k, j)
        PROVE  Values'
    BY <1>3 DEF CancelStore, Record, Values, ledger, events, workerVars, bounds,
                Status, Terminal
  <1>4. ASSUME NEW j \in Job, ChildExits(j)
        PROVE  Values'
    BY <1>4 DEF ChildExits, Values, ledger, events, workerVars, callerVars, bounds
  <1> QED BY <1>1, <1>2, <1>3, <1>4

(* So do those of the worker.                                              *)
LEMMA WorkerValues ==
  ASSUME Values, ClaimedIsRunning, Judged, WorkerNext
  PROVE  Values'
  <1> USE WebJobsAssumption
  <1> USE DEF Values, ledger, events, idleWorld, callerVars, WorkerGoes, WorkerStep
  <1>1. CASE LeaveLoop \/ ClearCancel \/ PublishActive \/ SelectProfile
    BY <1>1 DEF LeaveLoop, ClearCancel, PublishActive, SelectProfile
  <1>2. CASE Claim
    BY <1>2 DEF Claim, Record, Rows, Status, StoreWorks, StoreFails
  <1>3. CASE Recheck
    BY <1>3 DEF Recheck, Record, Status, StoreWorks, StoreFails, Terminal, NoJob
  <1>4. CASE Spawn \/ StorePid
    BY <1>4 DEF Spawn, StorePid, ChildGone, StoreWorks, StoreFails
  <1>5. CASE PollExited \/ PollAlive
    BY <1>5 DEF PollExited, PollAlive, ChildGone, Terminal
  <1>6. CASE WatchCancelled \/ WatchGoesOn \/ DeadlinePassed \/ DeadlineAhead
    BY <1>6 DEF WatchCancelled, WatchGoesOn, DeadlinePassed, DeadlineAhead,
                Terminate, ChildGone, Terminal
  <1>7. CASE Judge
    BY <1>7 DEF Judge, StoreWorks, StoreFails, Terminal
  <1>8. CASE RecordResult
    BY <1>8 DEF RecordResult, Record, StoreWorks, StoreFails, Status, Judged
  <1>9. CASE RecordFailed
    BY <1>9 DEF RecordFailed, Record, StoreWorks, StoreFails, Status, Terminal
  <1>10. CASE Unpublish \/ ResetCancel
    BY <1>10 DEF Unpublish, ResetCancel
  <1> QED BY <1>1, <1>2, <1>3, <1>4, <1>5, <1>6, <1>7, <1>8, <1>9, <1>10
          DEF WorkerNext

-----------------------------------------------------------------------------
(* The inductive steps.                                                    *)

Inductive == ClaimedIsRunning /\ OnlyClaimedRuns /\ LiveIsSupervised /\ Judged

(* The server: a start finds no worker, a recovery only when there is none.*)
LEMMA ServerInductive ==
  ASSUME Values, Inductive,
         \/ Start \/ Crash \/ StopBegin \/ StopCancelsActive \/ StopJoined
         \/ StopTimeout \/ Exit
  PROVE  Inductive'
  <1> USE DEF Inductive, ClaimedIsRunning, OnlyClaimedRuns, LiveIsSupervised, Judged,
              Claimed, Live, Watching
  <1>1. CASE Start
    <2>1. worker = "dead" /\ UNCHANGED <<child, job, result>>
      BY <1>1 DEF Start
    <2>2. CASE worker' = "dead"
      BY <2>1, <2>2
    <2>3. CASE worker' # "dead"
      <3>1. worker' = "top"
        BY <1>1, <2>1, <2>3 DEF Start, Started, WorkerGoes
      <3>2. PICK old \in SUBSET Job : status' = Pruned(Recovered, old)
        BY <1>1, <2>1, <2>3 DEF Start
      <3>3. \A j \in Job : status'[j] # "running"
        BY <3>2, RecoveredFacts, PrunedFacts
      <3> QED BY <2>1, <3>1, <3>3
    <2> QED BY <2>2, <2>3
  <1>2. CASE Crash \/ Exit
    BY <1>2 DEF Crash, Exit, ServerGone, Values
  <1>3. CASE StopJoined
    BY <1>3 DEF StopJoined, workerVars
  <1>4. CASE StopBegin \/ StopCancelsActive \/ StopTimeout
    BY <1>4 DEF StopBegin, StopCancelsActive, StopTimeout, ledger, events, workerVars
  <1> QED BY <1>1, <1>2, <1>3, <1>4

(* API threads never touch a running row, and a child only ends.           *)
LEMMA CallerInductive ==
  ASSUME Values, Inductive,
         \/ Enqueue
         \/ \E k \in Caller : CallerNext(k) \/ \E j \in Job : CancelStore(k, j)
         \/ \E j \in Job : ChildExits(j)
  PROVE  Inductive'
  <1> USE DEF Inductive, ClaimedIsRunning, OnlyClaimedRuns, LiveIsSupervised, Judged,
              Live, Watching
  <1>1. CASE Enqueue
    BY <1>1 DEF Enqueue, Record, Rows, workerVars, Values, Terminal
  <1>2. ASSUME NEW k \in Caller, CallerNext(k)
        PROVE  Inductive'
    BY <1>2 DEF CallerNext, CancelCheck, CancelSet, ledger, workerVars
  <1>3. ASSUME NEW k \in Caller, NEW j \in Job, CancelStore(k, j)
        PROVE  Inductive'
    BY <1>3 DEF CancelStore, Record, Values, ledger, workerVars, Terminal
  <1>4. ASSUME NEW j \in Job, ChildExits(j)
        PROVE  Inductive'
    <2>1. /\ UNCHANGED <<status, worker, job, result>>
          /\ \A i \in Job : child'[i] \in Live <=> child[i] \in Live
      BY <1>4 DEF ChildExits, Values, ledger, workerVars
    <2>2. worker \in {"pid"} \cup Watching => job \in Job
      BY DEF Claimed
    <2> QED BY <2>1, <2>2
  <1> QED BY <1>1, <1>2, <1>3, <1>4

(* The worker settles its row before it looks for the next one.            *)
LEMMA WorkerInductive ==
  ASSUME Values, Inductive, WorkerNext
  PROVE  Inductive'
  <1> USE DEF Inductive, ClaimedIsRunning, OnlyClaimedRuns, LiveIsSupervised, Judged,
              Claimed, Live, Watching, ledger, events, WorkerGoes
  <1>1. CASE LeaveLoop \/ ClearCancel \/ PublishActive \/ SelectProfile
    BY <1>1 DEF LeaveLoop, ClearCancel, PublishActive, SelectProfile
  <1>2. CASE Claim
    BY <1>2 DEF Claim, Record, Rows, StoreWorks, StoreFails, Values
  <1>3. CASE Recheck
    BY <1>3 DEF Recheck, Record, StoreWorks, StoreFails, Values, Terminal
  <1>4. CASE Spawn \/ StorePid
    BY <1>4 DEF Spawn, StorePid, ChildGone, StoreWorks, StoreFails, Values
  <1>5. CASE PollExited \/ PollAlive
    BY <1>5 DEF PollExited, PollAlive, ChildGone, Values, Terminal
  <1>6. CASE WatchCancelled \/ WatchGoesOn \/ DeadlinePassed \/ DeadlineAhead
    BY <1>6 DEF WatchCancelled, WatchGoesOn, DeadlinePassed, DeadlineAhead,
                Terminate, ChildGone, Values, Terminal
  <1>7. CASE Judge
    BY <1>7 DEF Judge, StoreWorks, StoreFails, Values, Terminal
  <1>8. CASE RecordResult
    BY <1>8 DEF RecordResult, Record, StoreWorks, StoreFails, Values, Terminal
  <1>9. CASE RecordFailed
    BY <1>9 DEF RecordFailed, Record, StoreWorks, StoreFails, Values, Terminal
  <1>10. CASE Unpublish \/ ResetCancel
    BY <1>10 DEF Unpublish, ResetCancel, Terminal
  <1> QED BY <1>1, <1>2, <1>3, <1>4, <1>5, <1>6, <1>7, <1>8, <1>9, <1>10
          DEF WorkerNext

(* IInv holds in every state of every behaviour.                           *)
THEOREM Invariance == Spec => []IInv
  <1>1. IInv <=> Flags /\ Values /\ Inductive
    BY TypeParts DEF IInv, Inductive
  <1>2. Flags /\ Values /\ Inductive /\ [Next]_vars => (Flags /\ Values /\ Inductive)'
    <2> SUFFICES ASSUME Flags, Values, Inductive, [Next]_vars
                 PROVE  Flags' /\ Values' /\ Inductive'
      OBVIOUS
    <2>1. Flags'
      BY FlagsStep
    <2>2. CASE \/ Start \/ Crash \/ StopBegin \/ StopCancelsActive \/ StopJoined
               \/ StopTimeout \/ Exit
      BY <2>1, <2>2, ServerValues, ServerInductive
    <2>3. CASE \/ Enqueue
               \/ \E k \in Caller : CallerNext(k) \/ \E j \in Job : CancelStore(k, j)
               \/ \E j \in Job : ChildExits(j)
      BY <2>1, <2>3, CallerValues, CallerInductive
    <2>4. CASE WorkerNext
      BY <2>1, <2>4, WorkerValues, WorkerInductive DEF Inductive
    <2>5. CASE UNCHANGED vars
      BY <2>1, <2>5
      DEF Values, Inductive, ClaimedIsRunning, OnlyClaimedRuns, LiveIsSupervised,
          Judged, vars, ledger, events, workerVars, callerVars, bounds
    <2> QED BY <2>2, <2>3, <2>4, <2>5 DEF Next
  <1> QED BY <1>1, <1>2, InitInvariant, PTL DEF Spec

(* The types of all variables.                                             *)
THEOREM TypeCorrect == Spec => []TypeOK
  BY Invariance, PTL DEF IInv

(* No row gets a terminal status while this server's benchmark of it lives.*)
THEOREM ChildSupervised == Spec => []ChildIsRunning
  <1>1. IInv => ChildIsRunning
    BY DEF IInv, ChildIsRunning, ClaimedIsRunning, LiveIsSupervised, Claimed, Live,
           Watching
  <1> QED BY <1>1, Invariance, PTL

(* A worker that looks for work is not blocked by a row left running.      *)
THEOREM QueueFree == Spec => []QueueNotBlocked
  <1>1. IInv => QueueNotBlocked
    BY DEF IInv, QueueNotBlocked, OnlyClaimedRuns, Rows, Claimed
  <1> QED BY <1>1, Invariance, PTL

(* A finished row is never rewritten, except as TerminalIsFinal says.      *)
THEOREM TerminalsFinal == Spec => TerminalIsFinal
  <1>1. ASSUME IInv, [Next]_vars, NEW j \in Job, status[j] \in Terminal
        PROVE  \/ status'[j] \in {status[j], "pruned"}
               \/ worker = "fail" /\ job = j /\ status'[j] = "failed"
    <2>1. Values /\ ClaimedIsRunning
      BY <1>1, TypeParts DEF IInv
    <2>2. CASE Start
      BY <1>1, <2>1, <2>2, RecoveredFacts, PrunedFacts DEF Start
    <2>3. CASE Crash \/ StopBegin \/ StopCancelsActive \/ StopTimeout \/ Exit
      BY <2>3 DEF Crash, StopBegin, StopCancelsActive, StopTimeout, Exit,
                  ServerGone, ledger
    <2>4. CASE StopJoined
      BY <1>1, <2>1, <2>4, RecoveredFacts DEF StopJoined
    <2>5. CASE \/ Enqueue
               \/ \E k \in Caller : CallerNext(k) \/ \E i \in Job : CancelStore(k, i)
               \/ \E i \in Job : ChildExits(i)
      BY <1>1, <2>1, <2>5
      DEF Enqueue, Record, Rows, CallerNext, CancelCheck, CancelSet, CancelStore,
          ChildExits, ledger, Values, Terminal
    <2>6. CASE WorkerNext
      BY <1>1, <2>1, <2>6
      DEF WorkerNext, LeaveLoop, Claim, ClearCancel, PublishActive, Recheck,
          SelectProfile, Spawn, StorePid, PollExited, PollAlive, WatchCancelled,
          WatchGoesOn, DeadlinePassed, DeadlineAhead, Judge, RecordResult,
          RecordFailed, Unpublish, ResetCancel, Record, Rows, ledger, Values,
          ClaimedIsRunning, Claimed, Terminal
    <2>7. CASE UNCHANGED vars
      BY <2>7 DEF vars, ledger
    <2> QED BY <1>1, <2>2, <2>3, <2>4, <2>5, <2>6, <2>7 DEF Next
  <1>2. IInv /\ [Next]_vars =>
          [\A j \in Job : status[j] \in Terminal =>
             \/ status'[j] \in {status[j], "pruned"}
             \/ worker = "fail" /\ job = j /\ status'[j] = "failed"]_vars
    BY <1>1
  <1> QED BY <1>2, Invariance, PTL DEF Spec, TerminalIsFinal

-----------------------------------------------------------------------------
(* The queue keeps JobContract.                                            *)

Current == IF worker \in {"dead", "top"} THEN NoJob ELSE job
Supervised(c) ==
  CASE c = "alive" -> "busy" [] c = "ok" -> "good" [] c = "bad" -> "bad" [] OTHER -> "free"
Device == [j \in Job |-> Supervised(child[j])]
Verdict == IF worker \in {"judge", "record"} THEN result ELSE "none"
Idle == \A j \in Job : Device[j] = "free"

(* The contract is about these.                                            *)
LEMMA Seen ==
  /\ Current = IF worker \in {"dead", "top"} THEN NoJob ELSE job
  /\ Device = [j \in Job |-> CASE child[j] = "alive" -> "busy"
                               [] child[j] = "ok" -> "good"
                               [] child[j] = "bad" -> "bad"
                               [] OTHER -> "free"]
  /\ Verdict = IF worker \in {"judge", "record"} THEN result ELSE "none"
  BY DEF Current, Device, Supervised, Verdict

(* A benchmark that is supervised is that of the current job.              *)
LEMMA OnTheDevice ==
  ASSUME Values, LiveIsSupervised
  PROVE  /\ worker \notin {"pid"} \cup Watching => Idle
         /\ \A j \in Job : Device[j] # "free" => j = Current /\ j = job
  <1>1. \A j \in Job : Device[j] # "free" <=> child[j] \in Live
    BY DEF Device, Supervised, Live
  <1> QED BY <1>1 DEF LiveIsSupervised, Idle, Current, Watching

(* No child, no change on the device.                                      *)
LEMMA DeviceStays ==
  ASSUME UNCHANGED child
  PROVE  Device' = Device
  BY DEF Device

(* NoJob is not a job.                                                     *)
LEMMA NoJobIsNone == NoJob \notin Job
  BY WebJobsAssumption DEF NoJob, Job

(* Where the worker goes decides who is in charge and what he knows.       *)
LEMMA Whereabouts ==
  /\ worker \in {"dead", "top"} => Current = NoJob
  /\ worker \notin {"dead", "top"} => Current = job
  /\ worker \in {"judge", "record"} => Verdict = result
  /\ worker \notin {"judge", "record"} => Verdict = "none"
  BY DEF Current, Verdict

(* The same after a step.                                                  *)
LEMMA WhereaboutsAfter ==
  /\ worker' \in {"dead", "top"} => Current' = NoJob
  /\ worker' \notin {"dead", "top"} => Current' = job'
  /\ worker' \in {"judge", "record"} => Verdict' = result'
  /\ worker' \notin {"judge", "record"} => Verdict' = "none"
  BY DEF Current, Verdict

-----------------------------------------------------------------------------
(* One lemma per promise.                                                  *)

(* Nothing that a user could see.                                          *)
LEMMA Unseen ==
  ASSUME UNCHANGED <<status, cancelReq>>, Device' = Device, Current' = Current,
         Verdict' = Verdict
  PROVE  [Contract!Next]_(Contract!vars)
  <1>1. Contract!vars = <<status, cancelReq, Current, Device, Verdict>>
    BY Zenon DEF Contract!vars, Device, Supervised, Current, Verdict
  <1>2. Contract!vars' = <<status, cancelReq, Current, Device, Verdict>>'
    BY Zenon DEF Contract!vars, Device, Supervised, Current, Verdict
  <1> QED BY <1>1, <1>2

(* A new row.                                                              *)
LEMMA IsSubmitted ==
  ASSUME NEW j \in Job, status[j] = "absent", \A i \in Job : status[i] = "absent" => j <= i,
         Cardinality({i \in Job : status[i] = "queued"}) < MaxQueued,
         status' = [status EXCEPT ![j] = "queued"],
         UNCHANGED cancelReq, Device' = Device, Current' = Current, Verdict' = Verdict
  PROVE  [Contract!Next]_(Contract!vars)
  <1>1. Cardinality({i \in Job : status[i] = "queued"})
          = Contract!Cardinality({i \in Job : status[i] = "queued"})
    BY DEF Cardinality, Contract!Cardinality
  <1>2. Contract!Submit(j)
    BY <1>1 DEF Contract!Submit, Contract!Set, Device, Supervised, Current, Verdict
  <1> QED BY <1>2 DEF Contract!Next

(* A row is claimed.                                                       *)
LEMMA IsTaken ==
  ASSUME NEW j \in Job, Current = NoJob, Idle, \A i \in Job : status[i] # "running",
         status[j] = "queued", \A i \in Job : status[i] = "queued" => j <= i,
         status' = [status EXCEPT ![j] = "running"], Current' \in {j, NoJob},
         UNCHANGED cancelReq, Device' = Device, Verdict' = Verdict
  PROVE  [Contract!Next]_(Contract!vars)
  <1>1. Contract!Take(j)
    BY DEF Contract!Take, Contract!Free, Contract!Set, Idle, Device, Supervised, Current,
       Verdict
  <1> QED BY <1>1 DEF Contract!Next

(* A cancellation is noted.                                                *)
LEMMA IsCancelled ==
  ASSUME NEW j \in Job,
         \/ status[j] = "queued" /\ status' = [status EXCEPT ![j] = "cancelled"]
            /\ UNCHANGED cancelReq
         \/ status[j] = "running" /\ cancelReq' = [cancelReq EXCEPT ![j] = TRUE]
            /\ UNCHANGED status,
         Device' = Device, Current' = Current, Verdict' = Verdict
  PROVE  [Contract!Next]_(Contract!vars)
  <1>1. Contract!Cancel(j)
    BY DEF Contract!Cancel, Contract!Set, Device, Supervised, Current, Verdict
  <1> QED BY <1>1 DEF Contract!Next

(* A benchmark gets the device.                                            *)
LEMMA IsLaunched ==
  ASSUME NEW j \in Job, j = Current, status[j] = "running", Idle,
         Device' = [Device EXCEPT ![j] = "busy"],
         UNCHANGED <<status, cancelReq>>, Current' = Current, Verdict' = Verdict
  PROVE  [Contract!Next]_(Contract!vars)
  <1>1. Contract!Launch(j)
    BY DEF Contract!Launch, Contract!Free, Idle, Device, Supervised, Current, Verdict
  <1> QED BY <1>1 DEF Contract!Next

(* It ends by itself.                                                      *)
LEMMA HasEnded ==
  ASSUME NEW j \in Job, Device[j] = "busy", NEW how \in {"good", "bad"},
         Device' = [Device EXCEPT ![j] = how],
         UNCHANGED <<status, cancelReq>>, Current' = Current, Verdict' = Verdict
  PROVE  [Contract!Next]_(Contract!vars)
  <1>1. Contract!Ends(j)
    BY DEF Contract!Ends, Device, Supervised, Current, Verdict
  <1> QED BY <1>1 DEF Contract!Next

(* It is waited for.                                                       *)
LEMMA IsReaped ==
  ASSUME NEW j \in Job, Device[j] # "free", Current = j,
         Verdict' \in {"none", "completed", "failed", "cancelled", "timed_out"},
         Verdict' = "completed" => Device[j] = "good",
         Verdict' = "failed" => Device[j] = "bad",
         Device' = [Device EXCEPT ![j] = "free"],
         UNCHANGED <<status, cancelReq>>, Current' = Current
  PROVE  [Contract!Next]_(Contract!vars)
  <1>1. Contract!Reap(j)
    BY DEF Contract!Reap, Device, Supervised, Current, Verdict
  <1> QED BY <1>1 DEF Contract!Next

(* The server wanted its end.                                              *)
LEMMA IsInterrupted ==
  ASSUME Verdict = "cancelled", ~cancelReq[Current], Verdict' = "interrupted",
         UNCHANGED <<status, cancelReq>>, Device' = Device, Current' = Current
  PROVE  [Contract!Next]_(Contract!vars)
  <1>1. Contract!Interrupt
    BY DEF Contract!Interrupt, Device, Supervised, Current, Verdict
  <1> QED BY <1>1 DEF Contract!Next

(* The row is settled.                                                     *)
LEMMA IsSettled ==
  ASSUME NEW s \in Terminal, Current # NoJob, Idle,
         \/ s = Verdict /\ status[Current] = "running"
         \/ /\ s = "cancelled" /\ Verdict = "none"
            /\ cancelReq[Current] /\ status[Current] = "running"
         \/ s = "failed" /\ status[Current] \in {"running"} \cup Terminal,
         status' = [status EXCEPT ![Current] = s], Verdict' = "none",
         Current' \in {Current, NoJob}, UNCHANGED cancelReq, Device' = Device
  PROVE  [Contract!Next]_(Contract!vars)
  <1>1. Contract!Settle(s) /\ s \in Contract!Finished
    BY DEF Contract!Settle, Contract!Free, Contract!Set, Contract!Finished, Terminal, Idle,
       Device, Supervised, Current, Verdict
  <1> QED BY <1>1 DEF Contract!Next

(* The job is left as it is.                                               *)
LEMMA IsDropped ==
  ASSUME Idle, Verdict' = "none", Current' \in {Current, NoJob},
         UNCHANGED <<status, cancelReq>>, Device' = Device
  PROVE  [Contract!Next]_(Contract!vars)
  <1>1. Contract!Drop
    BY DEF Contract!Drop, Contract!Free, Idle, Device, Supervised, Current, Verdict
  <1> QED BY <1>1 DEF Contract!Next

(* The server dies.                                                        *)
LEMMA HasCrashed ==
  ASSUME Idle', Verdict' = "none", Current' = NoJob, UNCHANGED <<status, cancelReq>>
  PROVE  [Contract!Next]_(Contract!vars)
  <1>1. Device' = [j \in Job |-> "free"]
    BY DEF Idle, Device
  <1>2. Contract!Crash
    BY <1>1 DEF Contract!Crash, Device, Supervised, Current, Verdict
  <1> QED BY <1>2 DEF Contract!Next

(* Rows without a job in charge are recovered, old ones removed.           *)
LEMMA IsRecovered ==
  ASSUME Values, Current = NoJob, Idle,
         NEW old \in SUBSET {j \in Job : Recovered[j] \in Terminal},
         status' = Pruned(Recovered, old),
         UNCHANGED cancelReq, Device' = Device, Current' = Current, Verdict' = Verdict
  PROVE  [Contract!Next]_(Contract!vars)
  <1>1. old \in SUBSET {j \in Job : status[j] \in Contract!Finished \cup {"running"}}
    BY DEF Contract!Finished, Terminal, Recovered
  <1>2. status' = [j \in Job |-> CASE j \in old -> "pruned"
                                   [] j \notin old /\ status[j] = "running" -> "interrupted"
                                   [] OTHER -> status[j]]
    BY DEF Pruned, Recovered
  <1>3. Contract!Recover
    BY <1>1, <1>2 DEF Contract!Recover, Contract!Free, Idle, Device, Supervised, Current,
       Verdict
  <1> QED BY <1>3 DEF Contract!Next

(* recover() alone.                                                        *)
LEMMA AllRecovered ==
  ASSUME Values, Current = NoJob, Idle, status' \in {status, Recovered},
         UNCHANGED cancelReq, Device' = Device, Current' = Current, Verdict' = Verdict
  PROVE  [Contract!Next]_(Contract!vars)
  <1>1. CASE status' = status
    BY <1>1, Unseen
  <1>2. CASE status' = Recovered
    <2>1. Recovered = Pruned(Recovered, {})
      BY DEF Recovered, Pruned
    <2> QED BY <1>2, <2>1, IsRecovered
  <1> QED BY <1>1, <1>2

-----------------------------------------------------------------------------
(* What the actions keep.                                                  *)

(* The server's steps.                                                     *)
LEMMA ServerKeeps ==
  ASSUME Values, Inductive,
         \/ Start \/ Crash \/ StopBegin \/ StopCancelsActive \/ StopJoined
         \/ StopTimeout \/ Exit
  PROVE  [Contract!Next]_(Contract!vars)
  <1>1. CASE Start
    <2>1. /\ worker = "dead" /\ worker' \in {"dead", "top"}
          /\ UNCHANGED <<cancelReq, child>>
      BY <1>1 DEF Start, Started, WorkerGoes
    <2>2. /\ Idle /\ Current = NoJob /\ Device' = Device /\ Current' = Current
          /\ Verdict' = Verdict
      BY <2>1, OnTheDevice, DeviceStays, Whereabouts, WhereaboutsAfter DEF Inductive, Watching
    <2>3. \/ status' \in {status, Recovered}
          \/ \E old \in SUBSET {j \in Job : Recovered[j] \in Terminal} :
               status' = Pruned(Recovered, old)
      BY <1>1 DEF Start
    <2> QED BY <2>1, <2>2, <2>3, IsRecovered, AllRecovered
  <1>2. CASE Crash \/ Exit
    <2>1. /\ worker' = "dead" /\ UNCHANGED <<status, cancelReq>>
          /\ \A j \in Job : child'[j] \notin Live
      BY <1>2 DEF Crash, Exit, ServerGone, ledger, Live, Values
    <2>2. Idle'
      BY <2>1 DEF Idle, Device, Supervised, Live
    <2> QED BY <2>1, <2>2, WhereaboutsAfter, HasCrashed
  <1>3. CASE StopJoined
    <2>1. /\ worker = "dead" /\ worker' = "dead" /\ status' \in {status, Recovered}
          /\ UNCHANGED <<cancelReq, child>>
      BY <1>3 DEF StopJoined, workerVars
    <2>2. /\ Idle /\ Current = NoJob /\ Device' = Device /\ Current' = Current
          /\ Verdict' = Verdict
      BY <2>1, OnTheDevice, DeviceStays, Whereabouts, WhereaboutsAfter DEF Inductive, Watching
    <2> QED BY <2>1, <2>2, AllRecovered
  <1>4. CASE StopBegin \/ StopCancelsActive \/ StopTimeout
    <2>1. UNCHANGED <<status, cancelReq, child, worker, job, result>>
      BY <1>4 DEF StopBegin, StopCancelsActive, StopTimeout, ledger, workerVars
    <2> QED BY <2>1, Unseen DEF Device, Current, Verdict
  <1> QED BY <1>1, <1>2, <1>3, <1>4

(* API threads, and benchmarks that end.                                   *)
LEMMA CallerKeeps ==
  ASSUME Values, Inductive,
         \/ Enqueue
         \/ \E k \in Caller : CallerNext(k) \/ \E j \in Job : CancelStore(k, j)
         \/ \E j \in Job : ChildExits(j)
  PROVE  [Contract!Next]_(Contract!vars)
  <1>1. CASE Enqueue
    <2>1. UNCHANGED <<cancelReq, child, worker, job, result>>
      BY <1>1 DEF Enqueue, workerVars
    <2>2. Device' = Device /\ Current' = Current /\ Verdict' = Verdict
      BY <2>1 DEF Device, Current, Verdict
    <2> QED BY <1>1, <2>1, <2>2, IsSubmitted DEF Enqueue, Record, Rows
  <1>2. ASSUME NEW k \in Caller, CallerNext(k)
        PROVE  [Contract!Next]_(Contract!vars)
    <2>1. UNCHANGED <<status, cancelReq, child, worker, job, result>>
      BY <1>2 DEF CallerNext, CancelCheck, CancelSet, ledger, workerVars
    <2> QED BY <2>1, Unseen DEF Device, Current, Verdict
  <1>3. ASSUME NEW k \in Caller, NEW j \in Job, CancelStore(k, j)
        PROVE  [Contract!Next]_(Contract!vars)
    <2>1. UNCHANGED <<child, worker, job, result>>
      BY <1>3 DEF CancelStore, workerVars
    <2>2. Device' = Device /\ Current' = Current /\ Verdict' = Verdict
      BY <2>1 DEF Device, Current, Verdict
    <2> QED BY <1>3, <2>2, IsCancelled, Unseen DEF CancelStore, Record, ledger
  <1>4. ASSUME NEW j \in Job, ChildExits(j)
        PROVE  [Contract!Next]_(Contract!vars)
    <2>1. UNCHANGED <<status, cancelReq, worker, job, result>>
      BY <1>4 DEF ChildExits, ledger, workerVars
    <2>2. Current' = Current /\ Verdict' = Verdict
      BY <2>1 DEF Current, Verdict
    <2>3. CASE child[j] = "alive"
      <3>1. PICK end \in {"ok", "bad"} : child' = [child EXCEPT ![j] = end]
        BY <1>4, <2>3 DEF ChildExits
      <3>2. /\ Device[j] = "busy" /\ Supervised(end) \in {"good", "bad"}
            /\ Device' = [Device EXCEPT ![j] = Supervised(end)]
        BY <2>3, <3>1 DEF Device, Supervised, Values
      <3> QED BY <2>1, <2>2, <3>2, HasEnded
    <2>4. CASE child[j] = "orphan"
      <3>1. child' = [child EXCEPT ![j] = "gone"]
        BY <1>4, <2>4 DEF ChildExits
      <3>2. Device' = Device
        BY <2>4, <3>1 DEF Device, Supervised, Values
      <3> QED BY <2>1, <2>2, <3>2, Unseen
    <2> QED BY <1>4, <2>3, <2>4 DEF ChildExits
  <1> QED BY <1>1, <1>2, <1>3, <1>4

(* A benchmark of the current job leaves the device.                       *)
LEMMA ReapedBy ==
  ASSUME Values, Inductive, worker \in {"pid"} \cup Watching, child[job] \in Live, ChildGone,
         UNCHANGED <<status, cancelReq, job>>,
         \/ worker' = "fail"
         \/ /\ worker' = "judge" /\ result' \in {"completed", "failed", "cancelled", "timed_out"}
            /\ result' = "completed" => child[job] = "ok"
            /\ result' = "failed" => child[job] = "bad"
  PROVE  [Contract!Next]_(Contract!vars)
  <1>1. job \in Job /\ Current = job /\ Current' = Current
    BY Whereabouts, WhereaboutsAfter DEF Inductive, ClaimedIsRunning, Claimed, Watching
  <1>2. PICK j \in Job : j = job
    BY <1>1
  <1>3. /\ Device[j] # "free" /\ Device' = [Device EXCEPT ![j] = "free"]
        /\ child[j] = "ok" => Device[j] = "good"
        /\ child[j] = "bad" => Device[j] = "bad"
    BY <1>2 DEF Device, Supervised, ChildGone, Values, Live
  <1>4. /\ Verdict' \in {"none", "completed", "failed", "cancelled", "timed_out"}
        /\ Verdict' = "completed" => Device[j] = "good"
        /\ Verdict' = "failed" => Device[j] = "bad"
    BY <1>2, <1>3, WhereaboutsAfter
  <1> QED BY <1>1, <1>2, <1>3, <1>4, IsReaped

(* The worker's steps up to the end of the benchmark.                      *)
LEMMA RunningKeeps ==
  ASSUME Values, Inductive,
         \/ LeaveLoop \/ ClearCancel \/ PublishActive \/ SelectProfile \/ Spawn \/ StorePid
         \/ PollExited \/ PollAlive \/ WatchCancelled \/ WatchGoesOn
         \/ DeadlinePassed \/ DeadlineAhead
  PROVE  [Contract!Next]_(Contract!vars)
  <1>1. CASE \/ LeaveLoop \/ ClearCancel \/ PublishActive \/ SelectProfile \/ PollAlive
             \/ WatchGoesOn \/ DeadlineAhead
    <2>1. /\ UNCHANGED <<status, cancelReq, child, job>>
          /\ worker \in {"dead", "top"} <=> worker' \in {"dead", "top"}
          /\ worker \notin {"judge", "record"} /\ worker' \notin {"judge", "record"}
      BY <1>1 DEF LeaveLoop, ClearCancel, PublishActive, SelectProfile, PollAlive,
         WatchGoesOn, DeadlineAhead, ledger, WorkerGoes
    <2> QED BY <2>1, Unseen, DeviceStays DEF Current, Verdict
  <1>2. CASE Spawn
    <2>1. /\ UNCHANGED <<status, cancelReq, job>> /\ worker = "spawn" /\ worker' \in {"pid", "fail"}
          /\ child' \in {child, [child EXCEPT ![job] = "alive"]}
      BY <1>2 DEF Spawn, ledger, WorkerGoes
    <2>2. job \in Job /\ status[job] = "running" /\ Idle
      BY <2>1, OnTheDevice DEF Inductive, ClaimedIsRunning, Claimed, Watching
    <2>3. Current = job /\ Current' = Current /\ Verdict' = Verdict
      BY <2>1, Whereabouts, WhereaboutsAfter
    <2>4. CASE child' = [child EXCEPT ![job] = "alive"]
      <3>1. PICK j \in Job : j = job
        BY <2>2
      <3>2. Device' = [Device EXCEPT ![j] = "busy"]
        BY <2>4, <3>1 DEF Device, Supervised, Values
      <3> QED BY <2>1, <2>2, <2>3, <3>1, <3>2, IsLaunched
    <2>5. CASE child' = child
      BY <2>1, <2>3, <2>5, DeviceStays, Unseen
    <2> QED BY <2>1, <2>4, <2>5
  <1>3. CASE StorePid
    <2>1. /\ UNCHANGED <<status, cancelReq, job>> /\ worker = "pid"
          /\ \/ UNCHANGED child /\ worker' = "poll"
             \/ ChildGone /\ worker' = "fail"
      BY <1>3 DEF StorePid, StoreWorks, StoreFails, WorkerGoes, ledger
    <2>2. CASE UNCHANGED child /\ worker' = "poll"
      BY <2>1, <2>2, DeviceStays, Whereabouts, WhereaboutsAfter, Unseen
    <2>3. CASE ChildGone /\ worker' = "fail"
      <3>1. CASE child[job] \in Live
        BY <2>1, <2>3, <3>1, ReapedBy
      <3>2. CASE child[job] \notin Live
        <4>1. Device' = Device
          BY <2>3, <3>2 DEF Device, Supervised, ChildGone, Values, Live
        <4> QED BY <2>1, <2>3, <4>1, Whereabouts, WhereaboutsAfter, Unseen
      <3> QED BY <3>1, <3>2
    <2> QED BY <2>1, <2>2, <2>3
  <1>4. CASE PollExited \/ WatchCancelled \/ DeadlinePassed
    <2>1. /\ UNCHANGED <<status, cancelReq, job>> /\ ChildGone /\ worker \in Watching
          /\ worker' = "judge" /\ result' \in {"completed", "failed", "cancelled", "timed_out"}
          /\ result' = "completed" => child[job] = "ok"
          /\ result' = "failed" => child[job] = "bad"
      BY <1>4 DEF PollExited, WatchCancelled, DeadlinePassed, Terminate, WorkerGoes, ledger,
         Watching
    <2>2. child[job] \in Live
      BY <2>1 DEF Inductive, LiveIsSupervised
    <2> QED BY <2>1, <2>2, ReapedBy
  <1> QED BY <1>1, <1>2, <1>3, <1>4

(* The worker's steps that deal with the row.                              *)
LEMMA RowKeeps ==
  ASSUME Values, Inductive,
         Claim \/ Recheck \/ Judge \/ RecordResult \/ RecordFailed \/ Unpublish \/ ResetCancel
  PROVE  [Contract!Next]_(Contract!vars)
  <1>1. /\ UNCHANGED <<cancelReq, child>> /\ Device' = Device
        /\ worker \notin {"pid"} \cup Watching /\ Idle
    <2>1. UNCHANGED <<cancelReq, child>> /\ worker \notin {"pid"} \cup Watching
      BY DEF Claim, Recheck, Judge, RecordResult, RecordFailed, Unpublish, ResetCancel,
         ledger, Watching
    <2> QED BY <2>1, DeviceStays, OnTheDevice DEF Inductive
  <1>2. CASE Claim
    <2>1. /\ worker = "top" /\ worker' \in {"clear", "dead"}
          /\ UNCHANGED result
      BY <1>2 DEF Claim, StoreWorks, StoreFails, WorkerGoes
    <2>2. Current = NoJob /\ Verdict' = Verdict
      BY <2>1, Whereabouts, WhereaboutsAfter
    <2>3. CASE UNCHANGED status /\ worker' = "dead"
      BY <1>1, <2>2, <2>3, WhereaboutsAfter, Unseen
    <2>4. ASSUME NEW j \in Rows("queued"), Rows("running") = {},
                 \A i \in Rows("queued") : j <= i, Record(j, "running"), job' = j
          PROVE  [Contract!Next]_(Contract!vars)
      <3>1. Current' \in {j, NoJob}
        BY <2>1, <2>4, WhereaboutsAfter
      <3>2. /\ j \in Job /\ status[j] = "queued"
            /\ \A i \in Job : status[i] # "running"
            /\ \A i \in Job : status[i] = "queued" => j <= i
            /\ status' = [status EXCEPT ![j] = "running"]
        BY <2>4 DEF Rows, Record
      <3> QED BY <1>1, <2>2, <3>1, <3>2, IsTaken
    <2> QED BY <1>2, <2>3, <2>4 DEF Claim, StoreFails, WorkerGoes
  <1>3. CASE Recheck
    <2>1. /\ worker = "recheck" /\ worker' \in {"profile", "top", "dead"} /\ UNCHANGED job
          /\ job \in Job /\ status[job] = "running"
      BY <1>3 DEF Recheck, StoreWorks, StoreFails, WorkerGoes, Inductive, ClaimedIsRunning,
         Claimed
    <2>2. /\ Current = job /\ Current # NoJob /\ Current' \in {Current, NoJob}
          /\ Verdict = "none" /\ Verdict' = "none"
      BY <2>1, Whereabouts, WhereaboutsAfter, NoJobIsNone
    <2>3. CASE UNCHANGED status
      BY <1>1, <2>2, <2>3, IsDropped
    <2>4. CASE cancelReq[job] /\ Record(job, "cancelled")
      BY <1>1, <2>1, <2>2, <2>4, IsSettled DEF Record, Terminal
    <2> QED BY <1>3, <2>3, <2>4 DEF Recheck
  <1>4. CASE Judge
    <2>1. /\ worker = "judge" /\ worker' \in {"record", "fail"} /\ UNCHANGED <<status, job>>
      BY <1>4 DEF Judge, StoreWorks, StoreFails, WorkerGoes, ledger
    <2>2. Current = job /\ Current' = Current /\ Verdict = result
      BY <2>1, Whereabouts, WhereaboutsAfter
    <2>3. CASE worker' = "fail"
      <3>1. Verdict' = "none" /\ Current' \in {Current, NoJob}
        BY <2>2, <2>3, WhereaboutsAfter
      <3> QED BY <1>1, <2>1, <3>1, IsDropped
    <2>4. CASE worker' = "record" /\ result' = result
      BY <1>1, <2>1, <2>2, <2>4, WhereaboutsAfter, Unseen
    <2>5. CASE /\ worker' = "record" /\ result' = "interrupted"
               /\ result = "cancelled" /\ ~cancelReq[job]
      BY <1>1, <2>1, <2>2, <2>5, WhereaboutsAfter, IsInterrupted
    <2> QED BY <1>4, <2>1, <2>3, <2>4, <2>5 DEF Judge, StoreFails, StoreWorks, WorkerGoes
  <1>5. CASE RecordResult
    <2>1. /\ worker = "record" /\ worker' \in {"unpublish", "fail"} /\ UNCHANGED job
          /\ job \in Job /\ status[job] = "running" /\ result \in Terminal
      BY <1>5 DEF RecordResult, StoreWorks, StoreFails, WorkerGoes, Inductive,
         ClaimedIsRunning, Judged, Claimed
    <2>2. /\ Current = job /\ Current # NoJob /\ Current' \in {Current, NoJob}
          /\ Verdict = result /\ Verdict' = "none"
      BY <2>1, Whereabouts, WhereaboutsAfter, NoJobIsNone
    <2>3. CASE UNCHANGED status
      BY <1>1, <2>2, <2>3, IsDropped
    <2>4. CASE Record(job, result)
      BY <1>1, <2>1, <2>2, <2>4, IsSettled DEF Record
    <2> QED BY <1>5, <2>3, <2>4 DEF RecordResult
  <1>6. CASE RecordFailed
    <2>1. /\ worker = "fail" /\ worker' \in {"unpublish", "dead"} /\ UNCHANGED job
          /\ job \in Job /\ status[job] \in {"running"} \cup Terminal
      BY <1>6 DEF RecordFailed, StoreWorks, StoreFails, WorkerGoes, Inductive,
         ClaimedIsRunning
    <2>2. /\ Current = job /\ Current # NoJob /\ Current' \in {Current, NoJob}
          /\ Verdict' = "none"
      BY <2>1, Whereabouts, WhereaboutsAfter, NoJobIsNone
    <2>3. CASE UNCHANGED status
      BY <1>1, <2>2, <2>3, IsDropped
    <2>4. CASE Record(job, "failed")
      BY <1>1, <2>1, <2>2, <2>4, IsSettled DEF Record, Terminal
    <2> QED BY <1>6, <2>3, <2>4 DEF RecordFailed
  <1>7. CASE Unpublish \/ ResetCancel
    <2>1. /\ worker' \in {"reset", "top"} /\ UNCHANGED status
          /\ worker \in {"unpublish", "reset"} /\ (worker' = "reset" => job' = job)
      BY <1>7 DEF Unpublish, ResetCancel, WorkerGoes, ledger
    <2>2. Verdict' = "none" /\ Current' \in {Current, NoJob}
      BY <2>1, Whereabouts, WhereaboutsAfter
    <2> QED BY <1>1, <2>1, <2>2, IsDropped
  <1> QED BY <1>2, <1>3, <1>4, <1>5, <1>6, <1>7

(* A fresh ledger is a fresh queue.                                        *)
LEMMA InitKeeps == Init => Contract!Init
  <1> SUFFICES ASSUME Init PROVE Contract!Init
    OBVIOUS
  <1>1. /\ status = [j \in Job |-> "absent"] /\ cancelReq = [j \in Job |-> FALSE]
        /\ \A j \in Job : child[j] = "none"
        /\ worker = "dead"
    BY DEF Init
  <1>2. Current = NoJob /\ Verdict = "none" /\ Device = [j \in Job |-> "free"]
    BY <1>1 DEF Current, Verdict, Device, Supervised
  <1> QED BY <1>1, <1>2 DEF Contract!Init, Device, Supervised, Current, Verdict

(* WebJobs implements JobContract: whatever the worker, the API threads,   *)
(* the shutdown, failing store calls and crashes of the server do, jobs    *)
(* run one at a time and in order, a row is settled behind its benchmark   *)
(* and says how that ended, and stays so.                                  *)
THEOREM ContractImplemented == Spec => ImplementsContract
  <1>1. IInv => Values /\ Inductive
    BY TypeParts DEF IInv, Inductive
  <1>2. Values /\ Inductive /\ [Next]_vars => [Contract!Next]_(Contract!vars)
    <2> SUFFICES ASSUME Values, Inductive, [Next]_vars
                 PROVE  [Contract!Next]_(Contract!vars)
      OBVIOUS
    <2>1. CASE \/ Start \/ Crash \/ StopBegin \/ StopCancelsActive \/ StopJoined
               \/ StopTimeout \/ Exit
      BY <2>1, ServerKeeps
    <2>2. CASE \/ Enqueue
               \/ \E k \in Caller : CallerNext(k) \/ \E j \in Job : CancelStore(k, j)
               \/ \E j \in Job : ChildExits(j)
      BY <2>2, CallerKeeps
    <2>3. CASE WorkerNext
      BY <2>3, RunningKeeps, RowKeeps DEF WorkerNext
    <2>4. CASE UNCHANGED vars
      BY <2>4, Unseen DEF vars, ledger, workerVars, Device, Current, Verdict
    <2> QED BY <2>1, <2>2, <2>3, <2>4 DEF Next
  <1> QED BY <1>1, <1>2, Invariance, InitKeeps, PTL DEF Spec, ImplementsContract, Contract!Spec
=============================================================================
