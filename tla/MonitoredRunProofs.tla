--------------------------- MODULE MonitoredRunProofs ---------------------------
(***************************************************************************)
(* Proofs about MonitoredRun, for any finite set of collectors and any     *)
(* number of calls that raise.  The invariant says, for every point of the *)
(* runner and of the lane, which jobs can still run, so that what a job    *)
(* given up by the runner may do is known when the result is saved.  Last: *)
(* the run keeps TraceContract.                                            *)
(***************************************************************************)
EXTENDS MonitoredRun, TLAPS

(* Where the lane is in start() and in stop().                             *)
StartLanes == {"collect", "prepared", "attach", "first", "firstSample", "spawn",
               "baseline", "switch", "undo", "undoJoin", "undoRelease"}
StopLanes == {"join", "last", "lastSample", "flush", "release"}

LaneJob ==
  IF lane \in StartLanes THEN {"start"}
  ELSE IF lane \in StopLanes THEN {"stop"}
  ELSE IF lane = "summary" THEN {"summary"}
  ELSE IF lane = "closed" THEN {"close"} ELSE {}

Waiting == {jobs[i] : i \in 1..Len(jobs)}
Begun == LaneJob \cup finished
Asked == Waiting \cup Begun

(* The order in which the runner asks for the jobs.                        *)
Rank(j) == IF j = "start" THEN 1 ELSE IF j = "stop" THEN 2
           ELSE IF j = "summary" THEN 3 ELSE 4

Types ==
  /\ run \in {"engine_start", "starting", "measuring", "stopping", "summary",
              "closing", "raising", "abandon", "abandoning", "finalize",
              "yielding", "reporting", "reported"}
  /\ timedOut \subseteq Job /\ finished \subseteq Job /\ failed \subseteq finished
  /\ lane \in {"idle", "summary", "closed"} \cup StartLanes \cup StopLanes
  /\ started \subseteq Collector /\ holding \subseteq started
  /\ poll \in {"none", "run", "due", "reading", "leaving", "ended"}
  /\ lock \in {"free", "lane", "poll"}
  /\ writer \in {"none", "opened", "attached"}
  /\ files \subseteq {"temp", "partial", "final"}
  /\ artifact \in {"unavailable", "failed", "complete"}
  /\ report \in {"none", "unavailable", "failed", "complete"}

(* The queue holds jobs that come later, in order.                         *)
Queue ==
  /\ jobs \in Seq(Job)
  /\ \A i, k \in 1..Len(jobs) : i < k => Rank(jobs[i]) < Rank(jobs[k])

Order ==
  /\ \A j \in Waiting, b \in Begun : Rank(b) < Rank(j)
  /\ \A f \in finished, j \in LaneJob : Rank(f) < Rank(j)

(* What the runner has asked for by now.                                   *)
AskedSoFar ==
  /\ run = "engine_start" => Asked = {}
  /\ run = "starting" => Asked \subseteq {"start"}
  /\ run = "measuring" => Asked \subseteq {"start", "stop"}
  /\ run = "measuring" /\ "start" \notin timedOut => "stop" \notin Asked
  /\ run = "stopping" => Asked \subseteq {"start", "stop"}
  /\ run = "summary" => Asked \subseteq {"start", "stop", "summary"}

(* Every start is followed by a stop, and the run waits for it.            *)
StopFollows ==
  /\ run \notin {"engine_start", "starting"} /\ "start" \in Asked =>
       "stop" \in Asked \/ (run = "measuring" /\ "start" \notin timedOut)
  /\ run \notin {"engine_start", "starting", "measuring", "stopping"} =>
       \/ "stop" \in finished \cup timedOut
       \/ "start" \notin Asked /\ "stop" \notin Asked
  /\ run = "finalize" => timedOut \subseteq finished
  /\ run \in {"engine_start", "starting"} => timedOut = {}
  /\ run = "abandoning" => abandoned
  /\ run \in {"reporting", "reported"} /\ ~abandoned =>
       "start" \notin Waiting \cup LaneJob /\ "stop" \notin Waiting \cup LaneJob

(* A result that is valid has seen no timeout.                             *)
TimeoutsNoted ==
  /\ ~invalid => timedOut = {}
  /\ run = "measuring" => "start" \in finished \/ invalid
  /\ loaded => invalid

LockSound ==
  /\ lock = "poll" <=> poll = "reading"
  /\ lock = "lane" => lane \in {"firstSample", "switch", "lastSample", "flush"}
  /\ lane \in {"firstSample", "lastSample", "flush"} => lock = "lane"
  /\ poll = "reading" => writer = "attached"
  /\ lane = "switch" /\ writer = "attached" => lock = "lane"

(* The polling thread and the writer belong to one start().                *)
StartSound ==
  /\ "start" \notin Begun => poll = "none" /\ writer = "none" /\ started = {}
  /\ lane \in {"collect", "prepared", "attach", "first", "firstSample", "spawn"} =>
       poll = "none"
  /\ lane \in {"prepared", "attach"} <=> writer = "opened"
  /\ lane = "collect" => writer = "none"
  /\ lane = "undoRelease" => writer # "attached"
  /\ "start" \in finished /\ writer = "attached" => phase = "inference"
  /\ lane \in {"undo", "undoJoin"} /\ Polling /\ writer = "attached" =>
       phase = "inference"

StopSound ==
  /\ lane \in {"last", "lastSample", "flush", "release"} => ~Polling
  /\ stopReady => ~Polling /\ (lane = "release" \/ "stop" \in finished)
  /\ "stop" \in finished => started = {} \/ "stop" \in failed
  /\ "stop" \in finished /\ Polling => "stop" \in failed

TraceSound ==
  /\ "temp" \in files => writer # "none"
  /\ "final" \in files <=> artifact = "complete"
  /\ "final" \in files => stopReady /\ "stop" \in finished /\ writer = "none"
  /\ report # "none" => run = "reported"
  /\ report = "complete" => "final" \in files
  /\ report \in {"failed", "unavailable"} => "final" \notin files

(* A trace that was given up is left to a thread that will close it,       *)
(* unless the flag came too late.                                          *)
LeftToSomebody ==
  run \in {"reporting", "reported"} /\ writer = "attached" =>
    /\ abandoned
    /\ \/ Polling
       \/ lane \in {"join", "last", "lastSample", "flush"}
       \/ "stop" \in Waiting
       \/ late

Parts ==
  /\ Types /\ Order /\ AskedSoFar /\ StopFollows /\ TimeoutsNoted /\ LockSound
  /\ StartSound /\ StopSound /\ TraceSound /\ LeftToSomebody

(* finalize_power_trace() finds the lock taken only after a stop() that    *)
(* failed.                                                                 *)
Yielded ==
  /\ run = "yielding" => "stop" \in failed
  /\ late => "stop" \in failed

IInv == Queue /\ Parts /\ Yielded

-----------------------------------------------------------------------------
(* The queue.                                                              *)

(* Submitting a job that comes after all that wait.                        *)
LEMMA SubmitFacts ==
  ASSUME Queue, NEW job \in Job, Submit(job)
  PROVE  /\ Waiting' = Waiting \cup {job}
         /\ (\A j \in Waiting : Rank(j) < Rank(job)) => Queue'
  <1>1. /\ jobs' \in Seq(Job) /\ Len(jobs') = Len(jobs) + 1
        /\ \A i \in 1..Len(jobs) : jobs'[i] = jobs[i]
        /\ jobs'[Len(jobs) + 1] = job
        /\ Len(jobs) \in Nat
    BY DEF Queue, Submit
  <1>2. Waiting' = Waiting \cup {job}
    BY <1>1 DEF Waiting
  <1>3. ASSUME NEW i \in 1..Len(jobs'), NEW k \in 1..Len(jobs'), i < k,
               \A j \in Waiting : Rank(j) < Rank(job)
        PROVE  Rank(jobs'[i]) < Rank(jobs'[k])
    <2>1. i \in 1..Len(jobs) /\ jobs[i] \in Waiting
      BY <1>1, <1>3 DEF Waiting
    <2>2. CASE k = Len(jobs) + 1
      BY <1>1, <1>3, <2>1, <2>2
    <2>3. CASE k \in 1..Len(jobs)
      BY <1>1, <1>3, <2>1, <2>3 DEF Queue
    <2> QED BY <1>1, <2>2, <2>3
  <1> QED BY <1>1, <1>2, <1>3 DEF Queue

(* The lane takes the first job.                                           *)
LEMMA TakeFacts ==
  ASSUME Queue, jobs # <<>>, jobs' = Tail(jobs)
  PROVE  /\ Queue' /\ Head(jobs) \in Waiting /\ Head(jobs) \in Job
         /\ Waiting' = Waiting \ {Head(jobs)}
         /\ \A j \in Waiting' : Rank(Head(jobs)) < Rank(j)
  <1>1. /\ jobs' \in Seq(Job) /\ Len(jobs) \in Nat /\ Len(jobs) # 0
        /\ Len(jobs') = Len(jobs) - 1
        /\ \A i \in 1..Len(jobs') : jobs'[i] = jobs[i + 1]
        /\ Head(jobs) = jobs[1] /\ Head(jobs) \in Job
    BY DEF Queue
  <1>2. \A i, k \in 1..Len(jobs') : i < k => Rank(jobs'[i]) < Rank(jobs'[k])
    BY <1>1 DEF Queue
  <1>3. \A j \in Waiting' : Rank(Head(jobs)) < Rank(j) /\ j \in Waiting
    <2> SUFFICES ASSUME NEW i \in 1..Len(jobs')
                 PROVE  Rank(jobs[1]) < Rank(jobs'[i]) /\ jobs'[i] \in Waiting
      BY <1>1 DEF Waiting
    <2>1. i + 1 \in 1..Len(jobs) /\ 1 \in 1..Len(jobs) /\ 1 < i + 1
      BY <1>1
    <2> QED BY <1>1, <2>1 DEF Queue, Waiting
  <1>4. Head(jobs) \in Waiting
    BY <1>1 DEF Waiting
  <1>5. ASSUME NEW j \in Waiting, j # Head(jobs)
        PROVE  j \in Waiting'
    <2>1. PICK i \in 1..Len(jobs) : j = jobs[i]
      BY DEF Waiting
    <2>2. i - 1 \in 1..Len(jobs') /\ jobs'[i - 1] = j
      BY <1>1, <1>5, <2>1
    <2> QED BY <2>2 DEF Waiting
  <1>6. \A j \in Job : ~(Rank(j) < Rank(j))
    BY DEF Rank
  <1>7. Head(jobs) \notin Waiting'
    BY <1>1, <1>3, <1>6
  <1> QED BY <1>1, <1>2, <1>3, <1>4, <1>5, <1>7 DEF Queue

(* A queue that is left alone.                                             *)
LEMMA QueueKept ==
  ASSUME Queue, UNCHANGED jobs
  PROVE  Queue' /\ Waiting' = Waiting
  BY DEF Queue, Waiting

(* What the order says of the jobs by name.                                *)
LEMMA OrderFacts ==
  ASSUME Types, Order, Queue
  PROVE  /\ Waiting \subseteq Job /\ Begun \subseteq Job
         /\ \A j \in Waiting : j \notin Begun
         /\ \A j \in LaneJob : j \notin finished
         /\ "stop" \in Begun => "start" \notin Waiting
         /\ "stop" \in finished => "start" \notin LaneJob
         /\ "summary" \in Begun => "start" \notin Waiting /\ "stop" \notin Waiting
         /\ "close" \in Begun => Waiting = {}
         /\ "close" \in LaneJob => "close" \notin finished
  <1>1. Waiting \subseteq Job
    BY DEF Queue, Waiting
  <1>2. Begun \subseteq Job
    BY DEF Types, Begun, LaneJob, Job
  <1> QED BY <1>1, <1>2 DEF Order, Rank, Begun, Job

-----------------------------------------------------------------------------
(* The runner.                                                             *)

(* It leaves the lane where it is.                                         *)
LEMMA LaneLeft ==
  ASSUME LeaveLane
  PROVE  /\ LaneJob' = LaneJob /\ Begun' = Begun
         /\ UNCHANGED <<lane, finished, failed, started, owned, stopEvent, phase,
                        stopReady, holding, poll, lock, loaded>>
  BY DEF LeaveLane, laneVars, monitorVars, LaneJob, Begun

(* It asks for the jobs in order.                                          *)
LEMMA RunnerQueue ==
  ASSUME Queue, Parts, RunnerStep
  PROVE  Queue'
  <1> USE DEF Parts, AskedSoFar, Asked, Job, Rank
  <1>1. Waiting \subseteq Job
    BY DEF Queue, Waiting
  <1>2. ASSUME NEW j \in Job, Submit(j), \A k \in Waiting : Rank(k) < Rank(j)
        PROVE  Queue'
    BY <1>2, SubmitFacts
  <1>3. CASE StartMonitor
    BY <1>2, <1>3 DEF StartMonitor
  <1>4. CASE EngineFails
    BY <1>2, <1>4 DEF EngineFails
  <1>5. CASE StartTimeout
    BY <1>2, <1>5 DEF StartTimeout
  <1>6. CASE MeasurementEnds
    BY <1>2, <1>6, QueueKept DEF MeasurementEnds
  <1>7. CASE StopWaited
    BY <1>2, <1>7 DEF StopWaited
  <1>8. CASE SummaryWaited
    BY <1>2, <1>8 DEF SummaryWaited
  <1>9. CASE \/ StartSettled \/ CloseWaited \/ Abandon \/ AbandonLocked
             \/ AbandonGivesUp \/ Finalize \/ FinalizeTimesOut
             \/ FinalizeGivesUp \/ Report
    BY <1>9, QueueKept
    DEF StartSettled, CloseWaited, Abandon, AbandonLocked, AbandonGivesUp,
        Finalize, FinalizeTimesOut, FinalizeGivesUp, Report
  <1> QED BY <1>3, <1>4, <1>5, <1>6, <1>7, <1>8, <1>9 DEF RunnerStep

(* When no job is given up, start and stop are over.                       *)
LEMMA Finalizing ==
  ASSUME Queue, Parts, run = "finalize"
  PROVE  "start" \notin Waiting \cup LaneJob /\ "stop" \notin Waiting \cup LaneJob
  <1>1. CASE "stop" \in finished
    BY <1>1, OrderFacts DEF Parts, Begun
  <1>2. CASE "start" \notin Asked /\ "stop" \notin Asked
    BY <1>2 DEF Asked, Begun
  <1> QED BY <1>1, <1>2 DEF Parts, StopFollows

(* A lane that holds the lock is in start(), with a stop that waits, or    *)
(* in stop().                                                              *)
LEMMA LockedLane ==
  ASSUME Queue, Parts, lock # "free", run \notin {"engine_start", "starting", "measuring"}
  PROVE  \/ Polling \/ lane \in {"lastSample", "flush"}
         \/ "stop" \in Waiting /\ lane \in {"firstSample", "switch"}
  <1>1. CASE lock = "poll"
    BY <1>1 DEF Parts, LockSound, Polling
  <1>2. CASE lane \in {"firstSample", "switch"}
    <2>1. "start" \in LaneJob /\ "stop" \notin LaneJob
      BY <1>2 DEF LaneJob, StartLanes
    <2>2. "stop" \in Asked
      BY <2>1 DEF Parts, StopFollows, Asked, Begun
    <2> QED BY <1>2, <2>1, <2>2, OrderFacts DEF Parts, Asked, Begun
  <1> QED BY <1>1, <1>2 DEF Parts, LockSound, Types

(* It leaves the parts of the invariant alone, or restores them.           *)
LEMMA RunnerParts ==
  ASSUME Queue, Parts, RunnerStep
  PROVE  Parts'
  <1> USE DEF Parts
  <1>1. CASE StartMonitor
    <2>1. /\ LaneJob' = LaneJob /\ Begun' = Begun
          /\ UNCHANGED <<lane, finished, failed, started, owned, stopEvent, phase,
                         stopReady, holding, poll, lock, loaded>>
      BY <1>1, LaneLeft DEF StartMonitor
    <2>2. Waiting' = Waiting \cup {"start"}
      BY <1>1, SubmitFacts DEF StartMonitor, Job
    <2>3. Types'
      BY <1>1, <2>1, <2>2 DEF StartMonitor, KeepTrace, trace, Types, Job
    <2>4. Order'
      BY <1>1, <2>1, <2>2, OrderFacts
      DEF StartMonitor, KeepTrace, trace, Order, Asked, AskedSoFar, Asked, Rank,
          Types, Job
    <2>5. AskedSoFar'
      BY <1>1, <2>1, <2>2
      DEF StartMonitor, KeepTrace, trace, AskedSoFar, Asked, Types
    <2>6. StopFollows'
      BY <1>1, <2>1, <2>2
      DEF StartMonitor, KeepTrace, trace, StopFollows, Asked, AskedSoFar, Types,
          TraceSound
    <2>7. TimeoutsNoted'
      BY <1>1, <2>1, <2>2 DEF StartMonitor, KeepTrace, trace, TimeoutsNoted, Types
    <2>8. LockSound' /\ StartSound' /\ StopSound'
      BY <1>1, <2>1
      DEF StartMonitor, KeepTrace, trace, LockSound, StartSound, StopSound, Polling
    <2>9. TraceSound'
      BY <1>1, <2>1, <2>2
      DEF StartMonitor, KeepTrace, trace, TraceSound, StopFollows, StopSound,
          Types, LockSound, Polling
    <2>10. LeftToSomebody'
      BY <1>1, <2>1, <2>2
      DEF StartMonitor, KeepTrace, trace, LeftToSomebody, Polling
    <2> QED BY <2>3, <2>4, <2>5, <2>6, <2>7, <2>8, <2>9, <2>10
  <1>2. CASE EngineFails
    <2>1. /\ LaneJob' = LaneJob /\ Begun' = Begun
          /\ UNCHANGED <<lane, finished, failed, started, owned, stopEvent, phase,
                         stopReady, holding, poll, lock, loaded>>
      BY <1>2, LaneLeft DEF EngineFails
    <2>2. Waiting' = Waiting \cup {"close"}
      BY <1>2, SubmitFacts DEF EngineFails, Job
    <2>3. Types'
      BY <1>2, <2>1, <2>2 DEF EngineFails, KeepTrace, trace, Types, Job
    <2>4. Order'
      BY <1>2, <2>1, <2>2, OrderFacts
      DEF EngineFails, KeepTrace, trace, Order, Asked, AskedSoFar, Asked, Rank,
          Types, Job
    <2>5. AskedSoFar'
      BY <1>2, <2>1, <2>2
      DEF EngineFails, KeepTrace, trace, AskedSoFar, Asked, Types
    <2>6. StopFollows'
      BY <1>2, <2>1, <2>2
      DEF EngineFails, KeepTrace, trace, StopFollows, Asked, AskedSoFar, Types,
          TraceSound
    <2>7. TimeoutsNoted'
      BY <1>2, <2>1, <2>2 DEF EngineFails, KeepTrace, trace, TimeoutsNoted, Types
    <2>8. LockSound' /\ StartSound' /\ StopSound'
      BY <1>2, <2>1
      DEF EngineFails, KeepTrace, trace, LockSound, StartSound, StopSound, Polling
    <2>9. TraceSound'
      BY <1>2, <2>1, <2>2
      DEF EngineFails, KeepTrace, trace, TraceSound, StopFollows, StopSound, Types,
          LockSound, Polling
    <2>10. LeftToSomebody'
      BY <1>2, <2>1, <2>2 DEF EngineFails, KeepTrace, trace, LeftToSomebody, Polling
    <2> QED BY <2>3, <2>4, <2>5, <2>6, <2>7, <2>8, <2>9, <2>10
  <1>3. CASE StartSettled
    <2>1. /\ LaneJob' = LaneJob /\ Begun' = Begun
          /\ UNCHANGED <<lane, finished, failed, started, owned, stopEvent, phase,
                         stopReady, holding, poll, lock, loaded>>
      BY <1>3, LaneLeft DEF StartSettled
    <2>2. Waiting' = Waiting
      BY <1>3, QueueKept DEF StartSettled, KeepTrace
    <2>3. Types'
      BY <1>3, <2>1, <2>2 DEF StartSettled, KeepTrace, trace, Types, Job
    <2>4. Order'
      BY <1>3, <2>1, <2>2, OrderFacts
      DEF StartSettled, KeepTrace, trace, Order, Asked, AskedSoFar, Asked, Rank,
          Types, Job
    <2>5. AskedSoFar'
      BY <1>3, <2>1, <2>2
      DEF StartSettled, KeepTrace, trace, AskedSoFar, Asked, Types
    <2>6. StopFollows'
      BY <1>3, <2>1, <2>2
      DEF StartSettled, KeepTrace, trace, StopFollows, Asked, AskedSoFar, Types,
          TraceSound
    <2>7. TimeoutsNoted'
      BY <1>3, <2>1, <2>2 DEF StartSettled, KeepTrace, trace, TimeoutsNoted, Types
    <2>8. LockSound' /\ StartSound' /\ StopSound'
      BY <1>3, <2>1
      DEF StartSettled, KeepTrace, trace, LockSound, StartSound, StopSound, Polling
    <2>9. TraceSound'
      BY <1>3, <2>1, <2>2
      DEF StartSettled, KeepTrace, trace, TraceSound, StopFollows, StopSound,
          Types, LockSound, Polling
    <2>10. LeftToSomebody'
      BY <1>3, <2>1, <2>2
      DEF StartSettled, KeepTrace, trace, LeftToSomebody, Polling
    <2> QED BY <2>3, <2>4, <2>5, <2>6, <2>7, <2>8, <2>9, <2>10
  <1>4. CASE StartTimeout
    <2>1. /\ LaneJob' = LaneJob /\ Begun' = Begun
          /\ UNCHANGED <<lane, finished, failed, started, owned, stopEvent, phase,
                         stopReady, holding, poll, lock, loaded>>
      BY <1>4, LaneLeft DEF StartTimeout
    <2>2. Waiting' = Waiting \cup {"stop"}
      BY <1>4, SubmitFacts DEF StartTimeout, Job
    <2>3. Types'
      BY <1>4, <2>1, <2>2 DEF StartTimeout, KeepTrace, trace, Types, Job
    <2>4. Order'
      BY <1>4, <2>1, <2>2, OrderFacts
      DEF StartTimeout, KeepTrace, trace, Order, Asked, AskedSoFar, Asked, Rank,
          Types, Job
    <2>5. AskedSoFar'
      BY <1>4, <2>1, <2>2
      DEF StartTimeout, KeepTrace, trace, AskedSoFar, Asked, Types
    <2>6. StopFollows'
      BY <1>4, <2>1, <2>2
      DEF StartTimeout, KeepTrace, trace, StopFollows, Asked, AskedSoFar, Types,
          TraceSound
    <2>7. TimeoutsNoted'
      BY <1>4, <2>1, <2>2 DEF StartTimeout, KeepTrace, trace, TimeoutsNoted, Types
    <2>8. LockSound' /\ StartSound' /\ StopSound'
      BY <1>4, <2>1
      DEF StartTimeout, KeepTrace, trace, LockSound, StartSound, StopSound, Polling
    <2>9. TraceSound'
      BY <1>4, <2>1, <2>2
      DEF StartTimeout, KeepTrace, trace, TraceSound, StopFollows, StopSound,
          Types, LockSound, Polling
    <2>10. LeftToSomebody'
      BY <1>4, <2>1, <2>2
      DEF StartTimeout, KeepTrace, trace, LeftToSomebody, Polling
    <2> QED BY <2>3, <2>4, <2>5, <2>6, <2>7, <2>8, <2>9, <2>10
  <1>5. CASE MeasurementEnds
    <2>1. /\ LaneJob' = LaneJob /\ Begun' = Begun
          /\ UNCHANGED <<lane, finished, failed, started, owned, stopEvent, phase,
                         stopReady, holding, poll, lock, loaded>>
      BY <1>5, LaneLeft DEF MeasurementEnds
    <2>2. Waiting' = IF "start" \in timedOut THEN Waiting ELSE Waiting \cup {"stop"}
      BY <1>5, QueueKept, SubmitFacts DEF MeasurementEnds, Job
    <2>3. Types'
      BY <1>5, <2>1, <2>2 DEF MeasurementEnds, KeepTrace, trace, Types, Job
    <2>4. Order'
      BY <1>5, <2>1, <2>2, OrderFacts
      DEF MeasurementEnds, KeepTrace, trace, Order, Asked, AskedSoFar, Asked, Rank,
          Types, Job
    <2>5. AskedSoFar'
      BY <1>5, <2>1, <2>2
      DEF MeasurementEnds, KeepTrace, trace, AskedSoFar, Asked, Types
    <2>6. StopFollows'
      BY <1>5, <2>1, <2>2
      DEF MeasurementEnds, KeepTrace, trace, StopFollows, Asked, AskedSoFar, Types,
          TraceSound
    <2>7. TimeoutsNoted'
      BY <1>5, <2>1, <2>2
      DEF MeasurementEnds, KeepTrace, trace, TimeoutsNoted, Types
    <2>8. LockSound' /\ StartSound' /\ StopSound'
      BY <1>5, <2>1
      DEF MeasurementEnds, KeepTrace, trace, LockSound, StartSound, StopSound,
          Polling
    <2>9. TraceSound'
      BY <1>5, <2>1, <2>2
      DEF MeasurementEnds, KeepTrace, trace, TraceSound, StopFollows, StopSound,
          Types, LockSound, Polling
    <2>10. LeftToSomebody'
      BY <1>5, <2>1, <2>2
      DEF MeasurementEnds, KeepTrace, trace, LeftToSomebody, Polling
    <2> QED BY <2>3, <2>4, <2>5, <2>6, <2>7, <2>8, <2>9, <2>10
  <1>6. CASE StopWaited
    <2>1. /\ LaneJob' = LaneJob /\ Begun' = Begun
          /\ UNCHANGED <<lane, finished, failed, started, owned, stopEvent, phase,
                         stopReady, holding, poll, lock, loaded>>
      BY <1>6, LaneLeft DEF StopWaited
    <2>2. Waiting' = IF run' = "summary" THEN Waiting \cup {"summary"}
                     ELSE Waiting \cup {"close"}
      BY <1>6, SubmitFacts DEF StopWaited, Job
    <2>3. Types'
      <3>1. run' \in {"summary", "raising"} /\ timedOut' \subseteq Job
        BY <1>6 DEF StopWaited, Wait, Types, Job
      <3>2. UNCHANGED <<writer, files, artifact, report>>
        BY <1>6 DEF StopWaited, KeepTrace, trace
      <3> QED BY <2>1, <3>1, <3>2 DEF Types
    <2>4. Order'
      BY <1>6, <2>1, <2>2, OrderFacts
      DEF StopWaited, KeepTrace, trace, Wait, Order, Asked, AskedSoFar, Asked,
          Rank, Types, Job
    <2>5. AskedSoFar'
      BY <1>6, <2>1, <2>2
      DEF StopWaited, KeepTrace, trace, Wait, AskedSoFar, Asked, Types
    <2>6. StopFollows'
      BY <1>6, <2>1, <2>2
      DEF StopWaited, KeepTrace, trace, Wait, StopFollows, Asked, AskedSoFar,
          Types, TraceSound
    <2>7. TimeoutsNoted'
      BY <1>6, <2>1, <2>2
      DEF StopWaited, KeepTrace, trace, Wait, TimeoutsNoted, Types
    <2>8. LockSound' /\ StartSound' /\ StopSound'
      BY <1>6, <2>1
      DEF StopWaited, KeepTrace, trace, LockSound, StartSound, StopSound, Polling
    <2>9. TraceSound'
      BY <1>6, <2>1, <2>2
      DEF StopWaited, KeepTrace, trace, Wait, TraceSound, StopFollows, StopSound,
          Types, LockSound, Polling
    <2>10. LeftToSomebody'
      BY <1>6, <2>1, <2>2
      DEF StopWaited, KeepTrace, trace, Wait, LeftToSomebody, Polling
    <2> QED BY <2>3, <2>4, <2>5, <2>6, <2>7, <2>8, <2>9, <2>10
  <1>7. CASE SummaryWaited
    <2>1. /\ LaneJob' = LaneJob /\ Begun' = Begun
          /\ UNCHANGED <<lane, finished, failed, started, owned, stopEvent, phase,
                         stopReady, holding, poll, lock, loaded>>
      BY <1>7, LaneLeft DEF SummaryWaited
    <2>2. Waiting' = Waiting \cup {"close"}
      BY <1>7, SubmitFacts DEF SummaryWaited, Job
    <2>3. Types'
      <3>1. run' \in {"closing", "raising"} /\ timedOut' \subseteq Job
        BY <1>7 DEF SummaryWaited, Wait, Types, Job
      <3>2. UNCHANGED <<writer, files, artifact, report>>
        BY <1>7 DEF SummaryWaited, KeepTrace, trace
      <3> QED BY <2>1, <3>1, <3>2 DEF Types
    <2>4. Order'
      BY <1>7, <2>1, <2>2, OrderFacts
      DEF SummaryWaited, KeepTrace, trace, Wait, Order, Asked, AskedSoFar, Asked,
          Rank, Types, Job
    <2>5. AskedSoFar'
      BY <1>7, <2>1, <2>2
      DEF SummaryWaited, KeepTrace, trace, Wait, AskedSoFar, Asked, Types
    <2>6. StopFollows'
      BY <1>7, <2>1, <2>2
      DEF SummaryWaited, KeepTrace, trace, Wait, StopFollows, Asked, AskedSoFar,
          Types, TraceSound
    <2>7. TimeoutsNoted'
      BY <1>7, <2>1, <2>2
      DEF SummaryWaited, KeepTrace, trace, Wait, TimeoutsNoted, Types
    <2>8. LockSound' /\ StartSound' /\ StopSound'
      BY <1>7, <2>1
      DEF SummaryWaited, KeepTrace, trace, LockSound, StartSound, StopSound,
          Polling
    <2>9. TraceSound'
      BY <1>7, <2>1, <2>2
      DEF SummaryWaited, KeepTrace, trace, Wait, TraceSound, StopFollows,
          StopSound, Types, LockSound, Polling
    <2>10. LeftToSomebody'
      BY <1>7, <2>1, <2>2
      DEF SummaryWaited, KeepTrace, trace, Wait, LeftToSomebody, Polling
    <2> QED BY <2>3, <2>4, <2>5, <2>6, <2>7, <2>8, <2>9, <2>10
  <1>8. CASE CloseWaited
    <2>1. /\ LaneJob' = LaneJob /\ Begun' = Begun
          /\ UNCHANGED <<lane, finished, failed, started, owned, stopEvent, phase,
                         stopReady, holding, poll, lock, loaded>>
      BY <1>8, LaneLeft DEF CloseWaited
    <2>2. Waiting' = Waiting
      BY <1>8, QueueKept DEF CloseWaited, KeepTrace
    <2>3. Types'
      BY <1>8, <2>1, <2>2 DEF CloseWaited, KeepTrace, trace, Types, Job
    <2>4. Order'
      BY <1>8, <2>1, <2>2, OrderFacts
      DEF CloseWaited, KeepTrace, trace, Order, Asked, AskedSoFar, Asked, Rank,
          Types, Job
    <2>5. AskedSoFar'
      BY <1>8, <2>1, <2>2
      DEF CloseWaited, KeepTrace, trace, AskedSoFar, Asked, Types
    <2>6. StopFollows'
      BY <1>8, <2>1, <2>2
      DEF CloseWaited, KeepTrace, trace, StopFollows, Asked, AskedSoFar, Types,
          TraceSound
    <2>7. TimeoutsNoted'
      BY <1>8, <2>1, <2>2 DEF CloseWaited, KeepTrace, trace, TimeoutsNoted, Types
    <2>8. LockSound' /\ StartSound' /\ StopSound'
      BY <1>8, <2>1
      DEF CloseWaited, KeepTrace, trace, LockSound, StartSound, StopSound, Polling
    <2>9. TraceSound'
      BY <1>8, <2>1, <2>2
      DEF CloseWaited, KeepTrace, trace, TraceSound, StopFollows, StopSound, Types,
          LockSound, Polling
    <2>10. LeftToSomebody'
      BY <1>8, <2>1, <2>2 DEF CloseWaited, KeepTrace, trace, LeftToSomebody, Polling
    <2> QED BY <2>3, <2>4, <2>5, <2>6, <2>7, <2>8, <2>9, <2>10
  <1>9. CASE Abandon
    <2>1. /\ LaneJob' = LaneJob /\ Begun' = Begun
          /\ UNCHANGED <<lane, finished, failed, started, owned, stopEvent, phase,
                         stopReady, holding, poll, lock, loaded>>
      BY <1>9, LaneLeft DEF Abandon
    <2>2. Waiting' = Waiting
      BY <1>9, QueueKept DEF Abandon, KeepTrace
    <2>3. Types'
      BY <1>9, <2>1, <2>2 DEF Abandon, KeepTrace, trace, Types, Job
    <2>4. Order'
      BY <1>9, <2>1, <2>2, OrderFacts
      DEF Abandon, KeepTrace, trace, Order, Asked, AskedSoFar, Asked, Rank, Types,
          Job
    <2>5. AskedSoFar'
      BY <1>9, <2>1, <2>2 DEF Abandon, KeepTrace, trace, AskedSoFar, Asked, Types
    <2>6. StopFollows'
      BY <1>9, <2>1, <2>2
      DEF Abandon, KeepTrace, trace, StopFollows, Asked, AskedSoFar, Types,
          TraceSound
    <2>7. TimeoutsNoted'
      BY <1>9, <2>1, <2>2 DEF Abandon, KeepTrace, trace, TimeoutsNoted, Types
    <2>8. LockSound' /\ StartSound' /\ StopSound'
      BY <1>9, <2>1
      DEF Abandon, KeepTrace, trace, LockSound, StartSound, StopSound, Polling
    <2>9. TraceSound'
      BY <1>9, <2>1, <2>2
      DEF Abandon, KeepTrace, trace, TraceSound, StopFollows, StopSound, Types,
          LockSound, Polling
    <2>10. LeftToSomebody'
      BY <1>9, <2>1, <2>2 DEF Abandon, KeepTrace, trace, LeftToSomebody, Polling
    <2> QED BY <2>3, <2>4, <2>5, <2>6, <2>7, <2>8, <2>9, <2>10
  <1>10. CASE AbandonLocked
    <2>1. /\ LaneJob' = LaneJob /\ Begun' = Begun
          /\ UNCHANGED <<lane, finished, failed, started, owned, stopEvent, phase,
                         stopReady, holding, poll, lock, loaded>>
      BY <1>10, LaneLeft DEF AbandonLocked
    <2>2. Waiting' = Waiting
      BY <1>10, QueueKept DEF AbandonLocked, KeepTrace
    <2>3. Types'
      BY <1>10, <2>1, <2>2 DEF AbandonLocked, KeepTrace, trace, Discard, Types, Job
    <2>4. Order'
      BY <1>10, <2>1, <2>2, OrderFacts
      DEF AbandonLocked, KeepTrace, trace, Discard, Order, Asked, AskedSoFar,
          Asked, Rank, Types, Job
    <2>5. AskedSoFar'
      BY <1>10, <2>1, <2>2
      DEF AbandonLocked, KeepTrace, trace, Discard, AskedSoFar, Asked, Types
    <2>6. StopFollows'
      BY <1>10, <2>1, <2>2
      DEF AbandonLocked, KeepTrace, trace, Discard, StopFollows, Asked, AskedSoFar,
          Types, TraceSound
    <2>7. TimeoutsNoted'
      BY <1>10, <2>1, <2>2
      DEF AbandonLocked, KeepTrace, trace, Discard, TimeoutsNoted, Types
    <2>8. LockSound'
      BY <1>10, <2>1, <2>2 DEF AbandonLocked, KeepTrace, trace, Discard, LockSound
    <2>9. StartSound'
      BY <1>10, <2>1, <2>2
      DEF AbandonLocked, KeepTrace, trace, Discard, StartSound, Asked, Polling
    <2>10. StopSound'
      BY <1>10, <2>1, <2>2
      DEF AbandonLocked, KeepTrace, trace, Discard, StopSound, Polling
    <2>11. TraceSound'
      BY <1>10, <2>1, <2>2
      DEF AbandonLocked, KeepTrace, trace, Discard, TraceSound, StopFollows,
          StopSound, Types, LockSound, Polling
    <2>12. LeftToSomebody'
      BY <1>10, <2>1, <2>2
      DEF AbandonLocked, KeepTrace, trace, Discard, LeftToSomebody, Polling
    <2> QED BY <2>3, <2>4, <2>5, <2>6, <2>7, <2>8, <2>9, <2>10, <2>11, <2>12
  <1>11. CASE AbandonGivesUp
    <2>1. /\ LaneJob' = LaneJob /\ Begun' = Begun
          /\ UNCHANGED <<lane, finished, failed, started, owned, stopEvent, phase,
                         stopReady, holding, poll, lock, loaded>>
      BY <1>11, LaneLeft DEF AbandonGivesUp
    <2>2. Waiting' = Waiting
      BY <1>11, QueueKept DEF AbandonGivesUp, KeepTrace
    <2>3. Types'
      BY <1>11, <2>1, <2>2 DEF AbandonGivesUp, KeepTrace, trace, Types, Job
    <2>4. Order'
      BY <1>11, <2>1, <2>2, OrderFacts
      DEF AbandonGivesUp, KeepTrace, trace, Order, Asked, AskedSoFar, Asked, Rank,
          Types, Job
    <2>5. AskedSoFar'
      BY <1>11, <2>1, <2>2
      DEF AbandonGivesUp, KeepTrace, trace, AskedSoFar, Asked, Types
    <2>6. StopFollows'
      BY <1>11, <2>1, <2>2
      DEF AbandonGivesUp, KeepTrace, trace, StopFollows, Asked, AskedSoFar, Types,
          TraceSound
    <2>7. TimeoutsNoted'
      BY <1>11, <2>1, <2>2
      DEF AbandonGivesUp, KeepTrace, trace, TimeoutsNoted, Types
    <2>8. LockSound' /\ StartSound' /\ StopSound'
      BY <1>11, <2>1
      DEF AbandonGivesUp, KeepTrace, trace, LockSound, StartSound, StopSound,
          Polling
    <2>9. TraceSound'
      BY <1>11, <2>1, <2>2
      DEF AbandonGivesUp, KeepTrace, trace, TraceSound, StopFollows, StopSound,
          Types, LockSound, Polling
    <2>10. LeftToSomebody'
      BY <1>11, <2>1, <2>2, LockedLane
      DEF AbandonGivesUp, KeepTrace, trace, LeftToSomebody, Polling, StopFollows
    <2> QED BY <2>3, <2>4, <2>5, <2>6, <2>7, <2>8, <2>9, <2>10
  <1>12. CASE Finalize
    <2>1. /\ LaneJob' = LaneJob /\ Begun' = Begun
          /\ UNCHANGED <<lane, finished, failed, started, owned, stopEvent, phase,
                         stopReady, holding, poll, lock, loaded>>
      BY <1>12, LaneLeft DEF Finalize
    <2>2. Waiting' = Waiting
      BY <1>12, QueueKept DEF Finalize, KeepTrace
    <2>3. Types'
      BY <1>12, <2>1, <2>2
      DEF Finalize, KeepTrace, trace, MayPublish, Discard, Preserve, Types, Job
    <2>4. Order'
      BY <1>12, <2>1, <2>2, OrderFacts
      DEF Finalize, KeepTrace, trace, MayPublish, Discard, Preserve, Order, Asked,
          AskedSoFar, Asked, Rank, Types, Job
    <2>5. AskedSoFar'
      BY <1>12, <2>1, <2>2
      DEF Finalize, KeepTrace, trace, MayPublish, Discard, Preserve, AskedSoFar,
          Asked, Types
    <2>6. StopFollows'
      BY <1>12, <2>1, <2>2, Finalizing
      DEF Finalize, KeepTrace, trace, MayPublish, Discard, Preserve, StopFollows,
          Asked, AskedSoFar, Types, TraceSound
    <2>7. TimeoutsNoted'
      BY <1>12, <2>1, <2>2
      DEF Finalize, KeepTrace, trace, MayPublish, Discard, Preserve, TimeoutsNoted,
          Types
    <2>8. LockSound'
      BY <1>12, <2>1, <2>2
      DEF Finalize, KeepTrace, trace, MayPublish, Discard, Preserve, LockSound
    <2>9. StartSound'
      BY <1>12, <2>1, <2>2
      DEF Finalize, KeepTrace, trace, MayPublish, Discard, Preserve, StartSound,
          Asked, Polling
    <2>10. StopSound'
      BY <1>12, <2>1, <2>2
      DEF Finalize, KeepTrace, trace, MayPublish, Discard, Preserve, StopSound,
          Polling
    <2>11. TraceSound'
      BY <1>12, <2>1, <2>2, Finalizing
      DEF Finalize, KeepTrace, trace, MayPublish, Discard, Preserve, TraceSound,
          StopFollows, StopSound, Types, LockSound, Polling, LaneJob, StartLanes,
          StopLanes
    <2>12. LeftToSomebody'
      BY <1>12, <2>1, <2>2
      DEF Finalize, KeepTrace, trace, MayPublish, Discard, Preserve,
          LeftToSomebody, Polling
    <2> QED BY <2>3, <2>4, <2>5, <2>6, <2>7, <2>8, <2>9, <2>10, <2>11, <2>12
  <1>13. CASE FinalizeGivesUp
    <2>1. /\ LaneJob' = LaneJob /\ Begun' = Begun
          /\ UNCHANGED <<lane, finished, failed, started, owned, stopEvent, phase,
                         stopReady, holding, poll, lock, loaded>>
      BY <1>13, LaneLeft DEF FinalizeGivesUp
    <2>2. Waiting' = Waiting
      BY <1>13, QueueKept DEF FinalizeGivesUp, KeepTrace
    <2>3. Types'
      BY <1>13, <2>1, <2>2 DEF FinalizeGivesUp, KeepTrace, trace, Types, Job
    <2>4. Order'
      BY <1>13, <2>1, <2>2, OrderFacts
      DEF FinalizeGivesUp, KeepTrace, trace, Order, Asked, AskedSoFar, Asked, Rank,
          Types, Job
    <2>5. AskedSoFar'
      BY <1>13, <2>1, <2>2
      DEF FinalizeGivesUp, KeepTrace, trace, AskedSoFar, Asked, Types
    <2>6. StopFollows'
      BY <1>13, <2>1, <2>2
      DEF FinalizeGivesUp, KeepTrace, trace, StopFollows, Asked, AskedSoFar, Types,
          TraceSound
    <2>7. TimeoutsNoted'
      BY <1>13, <2>1, <2>2
      DEF FinalizeGivesUp, KeepTrace, trace, TimeoutsNoted, Types
    <2>8. LockSound' /\ StartSound' /\ StopSound'
      BY <1>13, <2>1
      DEF FinalizeGivesUp, KeepTrace, trace, LockSound, StartSound, StopSound,
          Polling
    <2>9. TraceSound'
      BY <1>13, <2>1, <2>2
      DEF FinalizeGivesUp, KeepTrace, trace, TraceSound, StopFollows, StopSound,
          Types, LockSound, Polling
    <2>10. LeftToSomebody'
      BY <1>13, <2>1 DEF FinalizeGivesUp, LeftToSomebody, Polling
    <2> QED BY <2>3, <2>4, <2>5, <2>6, <2>7, <2>8, <2>9, <2>10
  <1>14. CASE Report
    <2>1. /\ LaneJob' = LaneJob /\ Begun' = Begun
          /\ UNCHANGED <<lane, finished, failed, started, owned, stopEvent, phase,
                         stopReady, holding, poll, lock, loaded>>
      BY <1>14, LaneLeft DEF Report
    <2>2. Waiting' = Waiting
      BY <1>14, QueueKept DEF Report, KeepTrace
    <2>3. Types'
      BY <1>14, <2>1, <2>2 DEF Report, KeepTrace, trace, Types, Job
    <2>4. Order'
      BY <1>14, <2>1, <2>2, OrderFacts
      DEF Report, KeepTrace, trace, Order, Asked, AskedSoFar, Asked, Rank, Types,
          Job
    <2>5. AskedSoFar'
      BY <1>14, <2>1, <2>2 DEF Report, KeepTrace, trace, AskedSoFar, Asked, Types
    <2>6. StopFollows'
      BY <1>14, <2>1, <2>2
      DEF Report, KeepTrace, trace, StopFollows, Asked, AskedSoFar, Types,
          TraceSound
    <2>7. TimeoutsNoted'
      BY <1>14, <2>1, <2>2 DEF Report, KeepTrace, trace, TimeoutsNoted, Types
    <2>8. LockSound' /\ StartSound' /\ StopSound'
      BY <1>14, <2>1
      DEF Report, KeepTrace, trace, LockSound, StartSound, StopSound, Polling
    <2>9. TraceSound'
      BY <1>14, <2>1, <2>2
      DEF Report, KeepTrace, trace, TraceSound, StopFollows, StopSound, Types,
          LockSound, Polling
    <2>10. LeftToSomebody'
      BY <1>14, <2>1, <2>2 DEF Report, KeepTrace, trace, LeftToSomebody, Polling
    <2> QED BY <2>3, <2>4, <2>5, <2>6, <2>7, <2>8, <2>9, <2>10
  <1>15. CASE FinalizeTimesOut
    <2>1. /\ LaneJob' = LaneJob /\ Begun' = Begun
          /\ UNCHANGED <<lane, finished, failed, started, owned, stopEvent, phase,
                         stopReady, holding, poll, lock, loaded>>
      BY <1>15, LaneLeft DEF FinalizeTimesOut
    <2>2. Waiting' = Waiting
      BY <1>15, QueueKept DEF FinalizeTimesOut, KeepTrace
    <2>3. Types'
      BY <1>15, <2>1, <2>2 DEF FinalizeTimesOut, KeepTrace, trace, Types, Job
    <2>4. Order'
      BY <1>15, <2>1, <2>2, OrderFacts
      DEF FinalizeTimesOut, KeepTrace, trace, Order, Asked, AskedSoFar, Asked, Rank,
          Types, Job
    <2>5. AskedSoFar'
      BY <1>15, <2>1, <2>2
      DEF FinalizeTimesOut, KeepTrace, trace, AskedSoFar, Asked, Types
    <2>6. StopFollows'
      BY <1>15, <2>1, <2>2
      DEF FinalizeTimesOut, KeepTrace, trace, StopFollows, Asked, AskedSoFar, Types,
          TraceSound
    <2>7. TimeoutsNoted'
      BY <1>15, <2>1, <2>2
      DEF FinalizeTimesOut, KeepTrace, trace, TimeoutsNoted, Types
    <2>8. LockSound' /\ StartSound' /\ StopSound'
      BY <1>15, <2>1
      DEF FinalizeTimesOut, KeepTrace, trace, LockSound, StartSound, StopSound,
          Polling
    <2>9. TraceSound'
      BY <1>15, <2>1, <2>2
      DEF FinalizeTimesOut, KeepTrace, trace, TraceSound, StopFollows, StopSound,
          Types, LockSound, Polling
    <2>10. LeftToSomebody'
      BY <1>15 DEF FinalizeTimesOut, LeftToSomebody
    <2> QED BY <2>3, <2>4, <2>5, <2>6, <2>7, <2>8, <2>9, <2>10
  <1> QED BY <1>1, <1>2, <1>3, <1>4, <1>5, <1>6, <1>7, <1>8, <1>9, <1>10, <1>11,
             <1>12, <1>13, <1>14, <1>15
          DEF RunnerStep

-----------------------------------------------------------------------------
(* What a sample does: it is written or the trace ends.                    *)
LEMMA RecordFacts ==
  ASSUME NEW p, Record(p)
  PROVE  /\ loaded' =>
              loaded \/ (run = "measuring" /\ p = "baseline" /\ writer = "attached")
         /\ \/ UNCHANGED <<writer, files, artifact>>
            \/ /\ writer = "attached" /\ writer' = "none" /\ artifact' = "failed"
               /\ files' \subseteq (files \ {"temp"}) \cup {"partial"}
  <1>1. loaded' => loaded \/ (run = "measuring" /\ p = "baseline" /\ writer = "attached")
    BY Zenon DEF Record
  <1>2. \/ UNCHANGED <<writer, files, artifact>>
        \/ /\ writer = "attached" /\ writer' = "none" /\ artifact' = "failed"
           /\ files' \subseteq (files \ {"temp"}) \cup {"partial"}
    BY DEF Record, Preserve, trace
  <1> QED BY <1>1, <1>2

(* The lane.                                                               *)

(* The lane in start(): the stop has not begun, and waits once the         *)
(* measurement is over.                                                    *)
LEMMA InStart ==
  ASSUME Queue, Parts, lane \in StartLanes
  PROVE  /\ LaneJob = {"start"} /\ "stop" \notin Begun /\ "start" \notin finished
         /\ "start" \in Begun /\ "stop" \notin finished
         /\ ~stopReady /\ "final" \notin files
         /\ run \in {"reporting", "reported"} => abandoned /\ "stop" \in Waiting
  <1>1. LaneJob = {"start"}
    BY DEF LaneJob
  <1>2. "stop" \notin Begun /\ "start" \notin finished
    BY <1>1, OrderFacts DEF Parts, Begun
  <1>3. lane # "release"
    BY DEF StartLanes
  <1>4. "stop" \in Asked => "stop" \in Waiting
    BY <1>2 DEF Asked
  <1>5. "start" \in Asked
    BY <1>1 DEF Asked, Begun
  <1>6. run \in {"reporting", "reported"} => abandoned /\ "stop" \in Waiting
    BY <1>1, <1>4, <1>5 DEF Parts, StopFollows
  <1> QED BY <1>1, <1>2, <1>3, <1>6 DEF Parts, StopSound, TraceSound, Begun

(* The lane in stop(): the start is over, and with it the baseline.        *)
LEMMA InStop ==
  ASSUME Queue, Parts, lane \in StopLanes
  PROVE  /\ LaneJob = {"stop"} /\ "stop" \notin finished /\ "stop" \notin Waiting
         /\ "start" \notin Waiting /\ "final" \notin files
         /\ writer = "attached" => "start" \in finished /\ phase = "inference"
         /\ run \in {"reporting", "reported"} => abandoned
  <1>1. LaneJob = {"stop"}
    BY DEF LaneJob, StartLanes, StopLanes
  <1>2. /\ "stop" \notin finished /\ "stop" \notin Waiting /\ "start" \notin Waiting
    BY <1>1, OrderFacts DEF Parts, Begun
  <1>3. writer = "attached" => "start" \in finished
    BY <1>1 DEF Parts, StartSound, Begun
  <1> QED BY <1>1, <1>2, <1>3 DEF Parts, StartSound, StopFollows, TraceSound

(* Taking a job moves it from the waiting ones to the lane.                *)
LEMMA TakeParts ==
  ASSUME Queue, Parts, TakeJob
  PROVE  Queue' /\ Parts'
  <1> USE DEF Parts
  <1>1. /\ Queue' /\ Head(jobs) \in Waiting /\ Head(jobs) \in Job
        /\ Waiting' = Waiting \ {Head(jobs)}
        /\ \A j \in Waiting' : Rank(Head(jobs)) < Rank(j)
    BY TakeFacts DEF TakeJob
  <1>2. LaneJob = {} /\ LaneJob' = {Head(jobs)}
    BY <1>1 DEF TakeJob, Go, Entered, LaneJob, StartLanes, StopLanes, Job
  <1>3. /\ UNCHANGED <<run, timedOut, invalid, report, late, finished, failed,
                       started, owned, phase, stopReady, holding, poll, lock, abandoned,
                       writer, files, artifact, loaded>>
        /\ lane = "idle" /\ lane' = Entered(Head(jobs))
    BY DEF TakeJob, Go, trace
  <1>4. Begun' = Begun \cup {Head(jobs)} /\ Asked' = Asked
    BY <1>1, <1>2, <1>3 DEF Begun, Asked
  <1>5. Types'
    BY <1>1, <1>3 DEF Types, Entered, Job, StartLanes, StopLanes
  <1>6. Order'
    BY <1>1, <1>2, <1>3, <1>4 DEF Order, Begun
  <1>7. AskedSoFar'
    BY <1>3, <1>4 DEF AskedSoFar
  <1>8. StopFollows'
    BY <1>1, <1>2, <1>3, <1>4 DEF StopFollows
  <1>9. TimeoutsNoted'
    BY <1>3 DEF TimeoutsNoted
  <1>10. LockSound'
    BY <1>1, <1>3 DEF LockSound, Entered, Job
  <1>11. StartSound'
    BY <1>1, <1>3, <1>4, OrderFacts DEF StartSound, Entered, Job, Polling
  <1>12. StopSound'
    BY <1>1, <1>3 DEF StopSound, Entered, Job, Polling
  <1>13. TraceSound'
    BY <1>3 DEF TraceSound
  <1>14. LeftToSomebody'
    BY <1>1, <1>3 DEF LeftToSomebody, Entered, Job, Polling
  <1> QED BY <1>1, <1>5, <1>6, <1>7, <1>8, <1>9, <1>10, <1>11, <1>12, <1>13, <1>14

(* A step inside a job leaves the runner, the queue and what has begun.    *)
LEMMA InJob ==
  ASSUME Queue, Parts, LaneStep, ~TakeJob
  PROVE  /\ UNCHANGED <<run, jobs, timedOut, invalid, report, late, abandoned>>
         /\ Queue' /\ Waiting' = Waiting
         /\ Begun' = Begun /\ Asked' = Asked
         /\ finished \subseteq finished' /\ failed \subseteq failed'
         /\ Order' /\ AskedSoFar' /\ StopFollows'
  <1> USE DEF Parts
  <1>1. UNCHANGED <<run, jobs, timedOut, invalid, report, late, abandoned>>
    BY DEF LaneStep, LeaveRunner, mainVars, StartCollector, PrepareTrace,
       CheckAbandoned, AttachWriter, LaneReads, FirstSample, StartPolling,
       SwitchPhase, Undo, UndoJoined, UndoJoinTimeout, Joined, JoinTimeout,
       LastSample, FlushTrace, StopCollectors, Summarize
  <1>2. Queue' /\ Waiting' = Waiting
    BY <1>1, QueueKept
  <1>3. /\ LaneJob' \subseteq LaneJob /\ Begun' = Begun /\ finished \subseteq finished'
        /\ LaneJob' = {} \/ finished' = finished
        /\ failed \subseteq failed'
    <2>1. CASE \E c \in Collector : StartCollector(c)
      BY <2>1 DEF StartCollector, Go, Settle, LaneJob, Begun, StartLanes, StopLanes
    <2>2. CASE PrepareTrace
      BY <2>2 DEF PrepareTrace, Go, Settle, LaneJob, Begun, StartLanes, StopLanes
    <2>3. CASE CheckAbandoned
      BY <2>3 DEF CheckAbandoned, Go, Settle, LaneJob, Begun, StartLanes, StopLanes
    <2>4. CASE AttachWriter
      BY <2>4 DEF AttachWriter, Go, Settle, LaneJob, Begun, StartLanes, StopLanes
    <2>5. CASE LaneReads
      BY <2>5 DEF LaneReads, Go, Settle, LaneJob, Begun, StartLanes, StopLanes
    <2>6. CASE FirstSample
      BY <2>6 DEF FirstSample, Go, Settle, LaneJob, Begun, StartLanes, StopLanes
    <2>7. CASE StartPolling
      BY <2>7 DEF StartPolling, Go, Settle, LaneJob, Begun, StartLanes, StopLanes
    <2>8. CASE SwitchPhase
      BY <2>8 DEF SwitchPhase, Go, Settle, LaneJob, Begun, StartLanes, StopLanes
    <2>9. CASE Undo
      BY <2>9 DEF Undo, Go, Settle, LaneJob, Begun, StartLanes, StopLanes
    <2>10. CASE UndoJoined
      BY <2>10 DEF UndoJoined, Go, Settle, LaneJob, Begun, StartLanes, StopLanes
    <2>11. CASE UndoJoinTimeout
      BY <2>11
      DEF UndoJoinTimeout, Go, Settle, LaneJob, Begun, StartLanes, StopLanes
    <2>12. CASE Joined
      BY <2>12 DEF Joined, Go, Settle, LaneJob, Begun, StartLanes, StopLanes
    <2>13. CASE JoinTimeout
      BY <2>13 DEF JoinTimeout, Go, Settle, LaneJob, Begun, StartLanes, StopLanes
    <2>14. CASE LastSample
      BY <2>14 DEF LastSample, Go, Settle, LaneJob, Begun, StartLanes, StopLanes
    <2>15. CASE FlushTrace
      BY <2>15 DEF FlushTrace, Go, Settle, LaneJob, Begun, StartLanes, StopLanes
    <2>16. CASE StopCollectors
      BY <2>16 DEF StopCollectors, Go, Settle, LaneJob, Begun, StartLanes, StopLanes
    <2>17. CASE Summarize
      BY <2>17 DEF Summarize, Go, Settle, LaneJob, Begun, StartLanes, StopLanes
    <2> QED BY <2>1, <2>2, <2>3, <2>4, <2>5, <2>6, <2>7, <2>8, <2>9, <2>10, <2>11,
               <2>12, <2>13, <2>14, <2>15, <2>16, <2>17
            DEF LaneStep
  <1>4. Asked' = Asked
    BY <1>2, <1>3 DEF Asked
  <1>5. Order'
    BY <1>2, <1>3, OrderFacts DEF Order, Begun
  <1>6. AskedSoFar' /\ StopFollows'
    BY <1>1, <1>2, <1>3, <1>4 DEF AskedSoFar, StopFollows
  <1> QED BY <1>1, <1>2, <1>3, <1>4, <1>5, <1>6

(* The steps inside a job.                                                 *)
LEMMA LaneParts ==
  ASSUME Queue, Parts, LaneStep, ~TakeJob
  PROVE  Queue' /\ Parts'
  <1> USE DEF Parts
  <1>0. /\ UNCHANGED <<run, jobs, timedOut, invalid, report, late, abandoned>>
        /\ Queue' /\ Waiting' = Waiting
        /\ Begun' = Begun /\ Asked' = Asked /\ finished \subseteq finished'
        /\ Order' /\ AskedSoFar' /\ StopFollows'
    BY InJob
  <1>1. ASSUME NEW c \in Collector, StartCollector(c) PROVE Queue' /\ Parts'
    <2>0. StartCollector(c)
      BY <1>1
    <2>1. Types'
      <3>1. lane' \in {"idle", "summary", "closed"} \cup StartLanes \cup StopLanes
        BY <2>0 DEF StartCollector, Go, Settle, StartLanes, StopLanes, Types
      <3>2. /\ finished' \subseteq Job /\ failed' \subseteq finished'
            /\ started' \subseteq Collector /\ holding' \subseteq started'
        BY <2>0
        DEF StartCollector, Go, Settle, LeaveRunner, mainVars, monitorVars, Types,
            Job
      <3>3. /\ poll' \in {"none", "run", "due", "reading", "leaving", "ended"}
            /\ lock' \in {"free", "lane", "poll"}
        BY <2>0 DEF StartCollector, LeaveRunner, Types
      <3>4. /\ writer' \in {"none", "opened", "attached"}
            /\ files' \subseteq {"temp", "partial", "final"}
            /\ artifact' \in {"unavailable", "failed", "complete"}
        BY <2>0 DEF StartCollector, trace, Types
      <3> QED BY <1>0, <3>1, <3>2, <3>3, <3>4 DEF Types
    <2>2. TimeoutsNoted'
      BY <1>0, <2>0, InStart
      DEF StartCollector, Go, Settle, trace, LeaveRunner, monitorVars,
          TimeoutsNoted, Types, Polling, StartLanes, StopLanes
    <2>3. LockSound'
      BY <1>0, <2>0, InStart
      DEF StartCollector, Go, Settle, trace, LeaveRunner, LockSound, Polling,
          StartLanes, StopLanes, StartSound
    <2>4. StartSound'
      BY <1>0, <2>0, InStart
      DEF StartCollector, Go, Settle, trace, LeaveRunner, monitorVars, StartSound,
          Polling, StartLanes, StopLanes, LockSound
    <2>5. StopSound'
      BY <1>0, <2>0, InStart
      DEF StartCollector, Go, Settle, LeaveRunner, monitorVars, StopSound, Polling,
          StartLanes, StopLanes
    <2>6. TraceSound'
      BY <1>0, <2>0, InStart
      DEF StartCollector, Go, Settle, trace, LeaveRunner, monitorVars, TraceSound,
          Polling, StartLanes, StopLanes, LockSound
    <2>7. LeftToSomebody'
      BY <1>0, <2>0, InStart
      DEF StartCollector, Go, Settle, trace, LeaveRunner, LeftToSomebody, Polling,
          StartLanes, StopLanes, StopSound, StartSound
    <2> QED BY <1>0, <2>1, <2>2, <2>3, <2>4, <2>5, <2>6, <2>7
  <1>2. CASE PrepareTrace
    <2>0. PrepareTrace
      BY <1>2
    <2>1. Types'
      <3>1. lane' \in {"idle", "summary", "closed"} \cup StartLanes \cup StopLanes
        BY <2>0 DEF PrepareTrace, Go, Settle, StartLanes, StopLanes, Types
      <3>2. /\ finished' \subseteq Job /\ failed' \subseteq finished'
            /\ started' \subseteq Collector /\ holding' \subseteq started'
        BY <2>0
        DEF PrepareTrace, Go, Settle, LeaveRunner, mainVars, monitorVars, Types,
            Job
      <3>3. /\ poll' \in {"none", "run", "due", "reading", "leaving", "ended"}
            /\ lock' \in {"free", "lane", "poll"}
        BY <2>0 DEF PrepareTrace, LeaveRunner, Types
      <3>4. /\ writer' \in {"none", "opened", "attached"}
            /\ files' \subseteq {"temp", "partial", "final"}
            /\ artifact' \in {"unavailable", "failed", "complete"}
        BY <2>0 DEF PrepareTrace, trace, Types
      <3> QED BY <1>0, <3>1, <3>2, <3>3, <3>4 DEF Types
    <2>2. TimeoutsNoted'
      BY <1>0, <2>0, InStart
      DEF PrepareTrace, Go, Settle, trace, LeaveRunner, monitorVars, TimeoutsNoted,
          Types, Polling, StartLanes, StopLanes
    <2>3. LockSound'
      BY <1>0, <2>0, InStart
      DEF PrepareTrace, Go, Settle, trace, LeaveRunner, LockSound, Polling,
          StartLanes, StopLanes, StartSound
    <2>4. StartSound'
      BY <1>0, <2>0, InStart
      DEF PrepareTrace, Go, Settle, trace, LeaveRunner, monitorVars, StartSound,
          Polling, StartLanes, StopLanes, LockSound
    <2>5. StopSound'
      BY <1>0, <2>0, InStart
      DEF PrepareTrace, Go, Settle, LeaveRunner, monitorVars, StopSound, Polling,
          StartLanes, StopLanes
    <2>6. TraceSound'
      BY <1>0, <2>0, InStart
      DEF PrepareTrace, Go, Settle, trace, LeaveRunner, monitorVars, TraceSound,
          Polling, StartLanes, StopLanes, LockSound
    <2>7. LeftToSomebody'
      BY <1>0, <2>0, InStart
      DEF PrepareTrace, Go, Settle, trace, LeaveRunner, LeftToSomebody, Polling,
          StartLanes, StopLanes, StopSound, StartSound
    <2> QED BY <1>0, <2>1, <2>2, <2>3, <2>4, <2>5, <2>6, <2>7
  <1>3. CASE CheckAbandoned
    <2>0. CheckAbandoned
      BY <1>3
    <2>1. Types'
      <3>1. lane' \in {"idle", "summary", "closed"} \cup StartLanes \cup StopLanes
        BY <2>0 DEF CheckAbandoned, Go, Settle, StartLanes, StopLanes, Types
      <3>2. /\ finished' \subseteq Job /\ failed' \subseteq finished'
            /\ started' \subseteq Collector /\ holding' \subseteq started'
        BY <2>0
        DEF CheckAbandoned, Go, Settle, LeaveRunner, mainVars, monitorVars, Types,
            Job
      <3>3. /\ poll' \in {"none", "run", "due", "reading", "leaving", "ended"}
            /\ lock' \in {"free", "lane", "poll"}
        BY <2>0 DEF CheckAbandoned, LeaveRunner, Types
      <3>4. /\ writer' \in {"none", "opened", "attached"}
            /\ files' \subseteq {"temp", "partial", "final"}
            /\ artifact' \in {"unavailable", "failed", "complete"}
        BY <2>0 DEF CheckAbandoned, trace, Types, Discard
      <3> QED BY <1>0, <3>1, <3>2, <3>3, <3>4 DEF Types
    <2>2. TimeoutsNoted'
      BY <1>0, <2>0, InStart
      DEF CheckAbandoned, Go, Settle, trace, LeaveRunner, monitorVars, Discard,
          TimeoutsNoted, Types, Polling, StartLanes, StopLanes
    <2>3. LockSound'
      BY <1>0, <2>0, InStart
      DEF CheckAbandoned, Go, Settle, trace, LeaveRunner, Discard, LockSound,
          Polling, StartLanes, StopLanes, StartSound
    <2>4. StartSound'
      BY <1>0, <2>0, InStart
      DEF CheckAbandoned, Go, Settle, trace, LeaveRunner, monitorVars, Discard,
          StartSound, Polling, StartLanes, StopLanes, LockSound
    <2>5. StopSound'
      BY <1>0, <2>0, InStart
      DEF CheckAbandoned, Go, Settle, LeaveRunner, monitorVars, StopSound, Polling,
          StartLanes, StopLanes
    <2>6. TraceSound'
      BY <1>0, <2>0, InStart
      DEF CheckAbandoned, Go, Settle, trace, LeaveRunner, monitorVars, Discard,
          TraceSound, Polling, StartLanes, StopLanes, LockSound
    <2>7. LeftToSomebody'
      BY <1>0, <2>0, InStart
      DEF CheckAbandoned, Go, Settle, trace, LeaveRunner, Discard, LeftToSomebody,
          Polling, StartLanes, StopLanes, StopSound, StartSound
    <2> QED BY <1>0, <2>1, <2>2, <2>3, <2>4, <2>5, <2>6, <2>7
  <1>4. CASE AttachWriter
    <2>0. AttachWriter
      BY <1>4
    <2>1. Types'
      <3>1. lane' \in {"idle", "summary", "closed"} \cup StartLanes \cup StopLanes
        BY <2>0 DEF AttachWriter, Go, Settle, StartLanes, StopLanes, Types
      <3>2. /\ finished' \subseteq Job /\ failed' \subseteq finished'
            /\ started' \subseteq Collector /\ holding' \subseteq started'
        BY <2>0
        DEF AttachWriter, Go, Settle, LeaveRunner, mainVars, monitorVars, Types,
            Job
      <3>3. /\ poll' \in {"none", "run", "due", "reading", "leaving", "ended"}
            /\ lock' \in {"free", "lane", "poll"}
        BY <2>0 DEF AttachWriter, LeaveRunner, Types
      <3>4. /\ writer' \in {"none", "opened", "attached"}
            /\ files' \subseteq {"temp", "partial", "final"}
            /\ artifact' \in {"unavailable", "failed", "complete"}
        BY <2>0 DEF AttachWriter, trace, Types
      <3> QED BY <1>0, <3>1, <3>2, <3>3, <3>4 DEF Types
    <2>2. TimeoutsNoted'
      BY <1>0, <2>0, InStart
      DEF AttachWriter, Go, Settle, trace, LeaveRunner, monitorVars, TimeoutsNoted,
          Types, Polling, StartLanes, StopLanes
    <2>3. LockSound'
      BY <1>0, <2>0, InStart
      DEF AttachWriter, Go, Settle, trace, LeaveRunner, LockSound, Polling,
          StartLanes, StopLanes, StartSound
    <2>4. StartSound'
      BY <1>0, <2>0, InStart
      DEF AttachWriter, Go, Settle, trace, LeaveRunner, monitorVars, StartSound,
          Polling, StartLanes, StopLanes, LockSound
    <2>5. StopSound'
      BY <1>0, <2>0, InStart
      DEF AttachWriter, Go, Settle, LeaveRunner, monitorVars, StopSound, Polling,
          StartLanes, StopLanes
    <2>6. TraceSound'
      BY <1>0, <2>0, InStart
      DEF AttachWriter, Go, Settle, trace, LeaveRunner, monitorVars, TraceSound,
          Polling, StartLanes, StopLanes, LockSound
    <2>7. LeftToSomebody'
      BY <1>0, <2>0, InStart
      DEF AttachWriter, Go, Settle, trace, LeaveRunner, LeftToSomebody, Polling,
          StartLanes, StopLanes, StopSound, StartSound
    <2> QED BY <1>0, <2>1, <2>2, <2>3, <2>4, <2>5, <2>6, <2>7
  <1>5. CASE LaneReads
    <2>0. LaneReads
      BY <1>5
    <2>1. Types'
      <3>1. lane' \in {"idle", "summary", "closed"} \cup StartLanes \cup StopLanes
        BY <2>0 DEF LaneReads, Go, Settle, StartLanes, StopLanes, Types
      <3>2. /\ finished' \subseteq Job /\ failed' \subseteq finished'
            /\ started' \subseteq Collector /\ holding' \subseteq started'
        BY <2>0
        DEF LaneReads, Go, Settle, LeaveRunner, mainVars, monitorVars, Types, Job
      <3>3. /\ poll' \in {"none", "run", "due", "reading", "leaving", "ended"}
            /\ lock' \in {"free", "lane", "poll"}
        BY <2>0 DEF LaneReads, LeaveRunner, Types
      <3>4. /\ writer' \in {"none", "opened", "attached"}
            /\ files' \subseteq {"temp", "partial", "final"}
            /\ artifact' \in {"unavailable", "failed", "complete"}
        BY <2>0 DEF LaneReads, trace, Types, Discard
      <3> QED BY <1>0, <3>1, <3>2, <3>3, <3>4 DEF Types
    <2>2. TimeoutsNoted'
      BY <1>0, <2>0, InStart, InStop
      DEF LaneReads, Go, Settle, trace, LeaveRunner, monitorVars, Discard,
          TimeoutsNoted, Types, Polling, StartLanes, StopLanes
    <2>3. LockSound'
      BY <1>0, <2>0, InStart, InStop
      DEF LaneReads, Go, Settle, trace, LeaveRunner, Discard, LockSound, Polling,
          StartLanes, StopLanes, StartSound
    <2>4. StartSound'
      BY <1>0, <2>0, InStart, InStop
      DEF LaneReads, Go, Settle, trace, LeaveRunner, monitorVars, Discard,
          StartSound, Polling, StartLanes, StopLanes, LockSound
    <2>5. StopSound'
      BY <1>0, <2>0, InStart, InStop
      DEF LaneReads, Go, Settle, LeaveRunner, monitorVars, StopSound, Polling,
          StartLanes, StopLanes
    <2>6. TraceSound'
      BY <1>0, <2>0, InStart, InStop
      DEF LaneReads, Go, Settle, trace, LeaveRunner, monitorVars, Discard,
          TraceSound, Polling, StartLanes, StopLanes, LockSound
    <2>7. LeftToSomebody'
      BY <1>0, <2>0, InStart, InStop
      DEF LaneReads, Go, Settle, trace, LeaveRunner, Discard, LeftToSomebody,
          Polling, StartLanes, StopLanes, StopSound, StartSound
    <2> QED BY <1>0, <2>1, <2>2, <2>3, <2>4, <2>5, <2>6, <2>7
  <1>6. CASE FirstSample
    <2>0. FirstSample
      BY <1>6
    <2>1. Types'
      <3>1. lane' \in {"idle", "summary", "closed"} \cup StartLanes \cup StopLanes
        BY <2>0 DEF FirstSample, Go, Settle, StartLanes, StopLanes, Types
      <3>2. /\ finished' \subseteq Job /\ failed' \subseteq finished'
            /\ started' \subseteq Collector /\ holding' \subseteq started'
        BY <2>0
        DEF FirstSample, Go, Settle, LeaveRunner, mainVars, monitorVars, Types, Job
      <3>3. /\ poll' \in {"none", "run", "due", "reading", "leaving", "ended"}
            /\ lock' \in {"free", "lane", "poll"}
        BY <2>0 DEF FirstSample, LeaveRunner, Types
      <3>4. /\ writer' \in {"none", "opened", "attached"}
            /\ files' \subseteq {"temp", "partial", "final"}
            /\ artifact' \in {"unavailable", "failed", "complete"}
        BY <2>0, RecordFacts DEF FirstSample, trace, Types
      <3> QED BY <1>0, <3>1, <3>2, <3>3, <3>4 DEF Types
    <2>2. TimeoutsNoted'
      <3>1. loaded' => loaded \/ (run = "measuring" /\ "start" \notin finished)
        BY <2>0, RecordFacts, InStart, Zenon DEF FirstSample, StartLanes, StopLanes
      <3>2. finished \subseteq finished' /\ UNCHANGED <<run, timedOut, invalid>>
        BY <1>0
      <3> QED BY <3>1, <3>2 DEF TimeoutsNoted
    <2>3. LockSound'
      BY <1>0, <2>0, InStart
      DEF FirstSample, Go, Settle, trace, LeaveRunner, Record, Preserve, LockSound,
          Polling, StartLanes, StopLanes, StartSound
    <2>4. StartSound'
      BY <1>0, <2>0, InStart
      DEF FirstSample, Go, Settle, trace, LeaveRunner, monitorVars, Record,
          Preserve, StartSound, Polling, StartLanes, StopLanes, LockSound
    <2>5. StopSound'
      BY <1>0, <2>0, InStart
      DEF FirstSample, Go, Settle, LeaveRunner, monitorVars, StopSound, Polling,
          StartLanes, StopLanes
    <2>6. TraceSound'
      BY <1>0, <2>0, InStart
      DEF FirstSample, Go, Settle, trace, LeaveRunner, monitorVars, Record,
          Preserve, TraceSound, Polling, StartLanes, StopLanes, LockSound
    <2>7. LeftToSomebody'
      BY <1>0, <2>0, InStart
      DEF FirstSample, Go, Settle, trace, LeaveRunner, Record, Preserve,
          LeftToSomebody, Polling, StartLanes, StopLanes, StopSound, StartSound
    <2> QED BY <1>0, <2>1, <2>2, <2>3, <2>4, <2>5, <2>6, <2>7
  <1>7. CASE StartPolling
    <2>0. StartPolling
      BY <1>7
    <2>1. Types'
      <3>1. lane' \in {"idle", "summary", "closed"} \cup StartLanes \cup StopLanes
        BY <2>0 DEF StartPolling, Go, Settle, StartLanes, StopLanes, Types
      <3>2. /\ finished' \subseteq Job /\ failed' \subseteq finished'
            /\ started' \subseteq Collector /\ holding' \subseteq started'
        BY <2>0
        DEF StartPolling, Go, Settle, LeaveRunner, mainVars, monitorVars, Types,
            Job
      <3>3. /\ poll' \in {"none", "run", "due", "reading", "leaving", "ended"}
            /\ lock' \in {"free", "lane", "poll"}
        BY <2>0 DEF StartPolling, LeaveRunner, Types
      <3>4. /\ writer' \in {"none", "opened", "attached"}
            /\ files' \subseteq {"temp", "partial", "final"}
            /\ artifact' \in {"unavailable", "failed", "complete"}
        BY <2>0 DEF StartPolling, trace, Types
      <3> QED BY <1>0, <3>1, <3>2, <3>3, <3>4 DEF Types
    <2>2. TimeoutsNoted'
      BY <1>0, <2>0, InStart
      DEF StartPolling, Go, Settle, trace, LeaveRunner, monitorVars, TimeoutsNoted,
          Types, Polling, StartLanes, StopLanes
    <2>3. LockSound'
      BY <1>0, <2>0, InStart
      DEF StartPolling, Go, Settle, trace, LeaveRunner, LockSound, Polling,
          StartLanes, StopLanes, StartSound
    <2>4. StartSound'
      BY <1>0, <2>0, InStart
      DEF StartPolling, Go, Settle, trace, LeaveRunner, monitorVars, StartSound,
          Polling, StartLanes, StopLanes, LockSound
    <2>5. StopSound'
      BY <1>0, <2>0, InStart
      DEF StartPolling, Go, Settle, LeaveRunner, monitorVars, StopSound, Polling,
          StartLanes, StopLanes
    <2>6. TraceSound'
      BY <1>0, <2>0, InStart
      DEF StartPolling, Go, Settle, trace, LeaveRunner, monitorVars, TraceSound,
          Polling, StartLanes, StopLanes, LockSound
    <2>7. LeftToSomebody'
      BY <1>0, <2>0, InStart
      DEF StartPolling, Go, Settle, trace, LeaveRunner, LeftToSomebody, Polling,
          StartLanes, StopLanes, StopSound, StartSound
    <2> QED BY <1>0, <2>1, <2>2, <2>3, <2>4, <2>5, <2>6, <2>7
  <1>8. CASE SwitchPhase
    <2>0. SwitchPhase
      BY <1>8
    <2>1. Types'
      <3>1. lane' \in {"idle", "summary", "closed"} \cup StartLanes \cup StopLanes
        BY <2>0 DEF SwitchPhase, Go, Settle, StartLanes, StopLanes, Types
      <3>2. /\ finished' \subseteq Job /\ failed' \subseteq finished'
            /\ started' \subseteq Collector /\ holding' \subseteq started'
        BY <2>0
        DEF SwitchPhase, Go, Settle, LeaveRunner, mainVars, monitorVars, Types, Job
      <3>3. /\ poll' \in {"none", "run", "due", "reading", "leaving", "ended"}
            /\ lock' \in {"free", "lane", "poll"}
        BY <2>0 DEF SwitchPhase, LeaveRunner, Types
      <3>4. /\ writer' \in {"none", "opened", "attached"}
            /\ files' \subseteq {"temp", "partial", "final"}
            /\ artifact' \in {"unavailable", "failed", "complete"}
        BY <2>0, RecordFacts DEF SwitchPhase, trace, Types
      <3> QED BY <1>0, <3>1, <3>2, <3>3, <3>4 DEF Types
    <2>2. TimeoutsNoted'
      <3>1. loaded' => loaded \/ (run = "measuring" /\ "start" \notin finished)
        BY <2>0, RecordFacts, InStart, Zenon DEF SwitchPhase, StartLanes, StopLanes
      <3>2. finished \subseteq finished' /\ UNCHANGED <<run, timedOut, invalid>>
        BY <1>0
      <3> QED BY <3>1, <3>2 DEF TimeoutsNoted
    <2>3. LockSound'
      BY <1>0, <2>0, InStart
      DEF SwitchPhase, Go, Settle, trace, LeaveRunner, Record, Preserve, LockSound,
          Polling, StartLanes, StopLanes, StartSound
    <2>4. StartSound'
      BY <1>0, <2>0, InStart
      DEF SwitchPhase, Go, Settle, trace, LeaveRunner, monitorVars, Record,
          Preserve, StartSound, Polling, StartLanes, StopLanes, LockSound
    <2>5. StopSound'
      BY <1>0, <2>0, InStart
      DEF SwitchPhase, Go, Settle, LeaveRunner, monitorVars, StopSound, Polling,
          StartLanes, StopLanes
    <2>6. TraceSound'
      BY <1>0, <2>0, InStart
      DEF SwitchPhase, Go, Settle, trace, LeaveRunner, monitorVars, Record,
          Preserve, TraceSound, Polling, StartLanes, StopLanes, LockSound
    <2>7. LeftToSomebody'
      BY <1>0, <2>0, InStart
      DEF SwitchPhase, Go, Settle, trace, LeaveRunner, Record, Preserve,
          LeftToSomebody, Polling, StartLanes, StopLanes, StopSound, StartSound
    <2> QED BY <1>0, <2>1, <2>2, <2>3, <2>4, <2>5, <2>6, <2>7
  <1>9. CASE Undo
    <2>0. Undo
      BY <1>9
    <2>1. Types'
      <3>1. lane' \in {"idle", "summary", "closed"} \cup StartLanes \cup StopLanes
        BY <2>0 DEF Undo, Go, Settle, StartLanes, StopLanes, Types
      <3>2. /\ finished' \subseteq Job /\ failed' \subseteq finished'
            /\ started' \subseteq Collector /\ holding' \subseteq started'
        BY <2>0 DEF Undo, Go, Settle, LeaveRunner, mainVars, monitorVars, Types, Job
      <3>3. /\ poll' \in {"none", "run", "due", "reading", "leaving", "ended"}
            /\ lock' \in {"free", "lane", "poll"}
        BY <2>0 DEF Undo, LeaveRunner, Types
      <3>4. /\ writer' \in {"none", "opened", "attached"}
            /\ files' \subseteq {"temp", "partial", "final"}
            /\ artifact' \in {"unavailable", "failed", "complete"}
        BY <2>0 DEF Undo, trace, Types
      <3> QED BY <1>0, <3>1, <3>2, <3>3, <3>4 DEF Types
    <2>2. TimeoutsNoted'
      BY <1>0, <2>0, InStart
      DEF Undo, Go, Settle, trace, LeaveRunner, monitorVars, TimeoutsNoted, Types,
          Polling, StartLanes, StopLanes
    <2>3. LockSound'
      BY <1>0, <2>0, InStart
      DEF Undo, Go, Settle, trace, LeaveRunner, LockSound, Polling, StartLanes,
          StopLanes, StartSound
    <2>4. StartSound'
      BY <1>0, <2>0, InStart
      DEF Undo, Go, Settle, trace, LeaveRunner, monitorVars, StartSound, Polling,
          StartLanes, StopLanes, LockSound
    <2>5. StopSound'
      BY <1>0, <2>0, InStart
      DEF Undo, Go, Settle, LeaveRunner, monitorVars, StopSound, Polling,
          StartLanes, StopLanes
    <2>6. TraceSound'
      BY <1>0, <2>0, InStart
      DEF Undo, Go, Settle, trace, LeaveRunner, monitorVars, TraceSound, Polling,
          StartLanes, StopLanes, LockSound
    <2>7. LeftToSomebody'
      BY <1>0, <2>0, InStart
      DEF Undo, Go, Settle, trace, LeaveRunner, LeftToSomebody, Polling,
          StartLanes, StopLanes, StopSound, StartSound
    <2> QED BY <1>0, <2>1, <2>2, <2>3, <2>4, <2>5, <2>6, <2>7
  <1>10. CASE UndoJoined
    <2>0. UndoJoined
      BY <1>10
    <2>1. Types'
      <3>1. lane' \in {"idle", "summary", "closed"} \cup StartLanes \cup StopLanes
        BY <2>0 DEF UndoJoined, Go, Settle, StartLanes, StopLanes, Types
      <3>2. /\ finished' \subseteq Job /\ failed' \subseteq finished'
            /\ started' \subseteq Collector /\ holding' \subseteq started'
        BY <2>0
        DEF UndoJoined, Go, Settle, LeaveRunner, mainVars, monitorVars, Types, Job
      <3>3. /\ poll' \in {"none", "run", "due", "reading", "leaving", "ended"}
            /\ lock' \in {"free", "lane", "poll"}
        BY <2>0 DEF UndoJoined, LeaveRunner, Types
      <3>4. /\ writer' \in {"none", "opened", "attached"}
            /\ files' \subseteq {"temp", "partial", "final"}
            /\ artifact' \in {"unavailable", "failed", "complete"}
        BY <2>0 DEF UndoJoined, trace, Types, PreserveIfOpen, Preserve
      <3> QED BY <1>0, <3>1, <3>2, <3>3, <3>4 DEF Types
    <2>2. TimeoutsNoted'
      BY <1>0, <2>0, InStart
      DEF UndoJoined, Go, Settle, trace, LeaveRunner, monitorVars, PreserveIfOpen,
          Preserve, TimeoutsNoted, Types, Polling, StartLanes, StopLanes
    <2>3. LockSound'
      BY <1>0, <2>0, InStart
      DEF UndoJoined, Go, Settle, trace, LeaveRunner, PreserveIfOpen, Preserve,
          LockSound, Polling, StartLanes, StopLanes, StartSound
    <2>4. StartSound'
      BY <1>0, <2>0, InStart
      DEF UndoJoined, Go, Settle, trace, LeaveRunner, monitorVars, PreserveIfOpen,
          Preserve, StartSound, Polling, StartLanes, StopLanes, LockSound
    <2>5. StopSound'
      BY <1>0, <2>0, InStart
      DEF UndoJoined, Go, Settle, LeaveRunner, monitorVars, PreserveIfOpen,
          StopSound, Polling, StartLanes, StopLanes
    <2>6. TraceSound'
      BY <1>0, <2>0, InStart
      DEF UndoJoined, Go, Settle, trace, LeaveRunner, monitorVars, PreserveIfOpen,
          Preserve, TraceSound, Polling, StartLanes, StopLanes, LockSound
    <2>7. LeftToSomebody'
      BY <1>0, <2>0, InStart
      DEF UndoJoined, Go, Settle, trace, LeaveRunner, PreserveIfOpen, Preserve,
          LeftToSomebody, Polling, StartLanes, StopLanes, StopSound, StartSound
    <2> QED BY <1>0, <2>1, <2>2, <2>3, <2>4, <2>5, <2>6, <2>7
  <1>11. CASE UndoJoinTimeout
    <2>0. UndoJoinTimeout
      BY <1>11
    <2>1. Types'
      <3>1. lane' \in {"idle", "summary", "closed"} \cup StartLanes \cup StopLanes
        BY <2>0 DEF UndoJoinTimeout, Go, Settle, StartLanes, StopLanes, Types
      <3>2. /\ finished' \subseteq Job /\ failed' \subseteq finished'
            /\ started' \subseteq Collector /\ holding' \subseteq started'
        BY <2>0
        DEF UndoJoinTimeout, Go, Settle, LeaveRunner, mainVars, monitorVars, Types,
            Job
      <3>3. /\ poll' \in {"none", "run", "due", "reading", "leaving", "ended"}
            /\ lock' \in {"free", "lane", "poll"}
        BY <2>0 DEF UndoJoinTimeout, LeaveRunner, Types
      <3>4. /\ writer' \in {"none", "opened", "attached"}
            /\ files' \subseteq {"temp", "partial", "final"}
            /\ artifact' \in {"unavailable", "failed", "complete"}
        BY <2>0 DEF UndoJoinTimeout, trace, Types
      <3> QED BY <1>0, <3>1, <3>2, <3>3, <3>4 DEF Types
    <2>2. TimeoutsNoted'
      BY <1>0, <2>0, InStart
      DEF UndoJoinTimeout, Go, Settle, trace, LeaveRunner, monitorVars,
          TimeoutsNoted, Types, Polling, StartLanes, StopLanes
    <2>3. LockSound'
      BY <1>0, <2>0, InStart
      DEF UndoJoinTimeout, Go, Settle, trace, LeaveRunner, LockSound, Polling,
          StartLanes, StopLanes, StartSound
    <2>4. StartSound'
      BY <1>0, <2>0, InStart
      DEF UndoJoinTimeout, Go, Settle, trace, LeaveRunner, monitorVars, StartSound,
          Polling, StartLanes, StopLanes, LockSound
    <2>5. StopSound'
      BY <1>0, <2>0, InStart
      DEF UndoJoinTimeout, Go, Settle, LeaveRunner, monitorVars, StopSound,
          Polling, StartLanes, StopLanes
    <2>6. TraceSound'
      BY <1>0, <2>0, InStart
      DEF UndoJoinTimeout, Go, Settle, trace, LeaveRunner, monitorVars, TraceSound,
          Polling, StartLanes, StopLanes, LockSound
    <2>7. LeftToSomebody'
      BY <1>0, <2>0, InStart
      DEF UndoJoinTimeout, Go, Settle, trace, LeaveRunner, LeftToSomebody, Polling,
          StartLanes, StopLanes, StopSound, StartSound
    <2> QED BY <1>0, <2>1, <2>2, <2>3, <2>4, <2>5, <2>6, <2>7
  <1>12. CASE Joined
    <2>0. Joined
      BY <1>12
    <2>1. Types'
      <3>1. lane' \in {"idle", "summary", "closed"} \cup StartLanes \cup StopLanes
        BY <2>0 DEF Joined, Go, Settle, StartLanes, StopLanes, Types
      <3>2. /\ finished' \subseteq Job /\ failed' \subseteq finished'
            /\ started' \subseteq Collector /\ holding' \subseteq started'
        BY <2>0
        DEF Joined, Go, Settle, LeaveRunner, mainVars, monitorVars, Types, Job
      <3>3. /\ poll' \in {"none", "run", "due", "reading", "leaving", "ended"}
            /\ lock' \in {"free", "lane", "poll"}
        BY <2>0 DEF Joined, LeaveRunner, Types
      <3>4. /\ writer' \in {"none", "opened", "attached"}
            /\ files' \subseteq {"temp", "partial", "final"}
            /\ artifact' \in {"unavailable", "failed", "complete"}
        BY <2>0 DEF Joined, trace, Types
      <3> QED BY <1>0, <3>1, <3>2, <3>3, <3>4 DEF Types
    <2>2. TimeoutsNoted'
      BY <1>0, <2>0, InStop
      DEF Joined, Go, Settle, trace, LeaveRunner, monitorVars, TimeoutsNoted,
          Types, Polling, StartLanes, StopLanes
    <2>3. LockSound'
      BY <1>0, <2>0, InStop
      DEF Joined, Go, Settle, trace, LeaveRunner, LockSound, Polling, StartLanes,
          StopLanes, StartSound
    <2>4. StartSound'
      BY <1>0, <2>0, InStop
      DEF Joined, Go, Settle, trace, LeaveRunner, monitorVars, StartSound, Polling,
          StartLanes, StopLanes, LockSound
    <2>5. StopSound'
      BY <1>0, <2>0, InStop
      DEF Joined, Go, Settle, LeaveRunner, monitorVars, StopSound, Polling,
          StartLanes, StopLanes
    <2>6. TraceSound'
      BY <1>0, <2>0, InStop
      DEF Joined, Go, Settle, trace, LeaveRunner, monitorVars, TraceSound, Polling,
          StartLanes, StopLanes, LockSound
    <2>7. LeftToSomebody'
      BY <1>0, <2>0, InStop
      DEF Joined, Go, Settle, trace, LeaveRunner, LeftToSomebody, Polling,
          StartLanes, StopLanes, StopSound, StartSound
    <2> QED BY <1>0, <2>1, <2>2, <2>3, <2>4, <2>5, <2>6, <2>7
  <1>13. CASE JoinTimeout
    <2>0. JoinTimeout
      BY <1>13
    <2>1. Types'
      <3>1. lane' \in {"idle", "summary", "closed"} \cup StartLanes \cup StopLanes
        BY <2>0 DEF JoinTimeout, Go, Settle, StartLanes, StopLanes, Types
      <3>2. /\ finished' \subseteq Job /\ failed' \subseteq finished'
            /\ started' \subseteq Collector /\ holding' \subseteq started'
        BY <2>0
        DEF JoinTimeout, Go, Settle, LeaveRunner, mainVars, monitorVars, Types, Job
      <3>3. /\ poll' \in {"none", "run", "due", "reading", "leaving", "ended"}
            /\ lock' \in {"free", "lane", "poll"}
        BY <2>0 DEF JoinTimeout, LeaveRunner, Types
      <3>4. /\ writer' \in {"none", "opened", "attached"}
            /\ files' \subseteq {"temp", "partial", "final"}
            /\ artifact' \in {"unavailable", "failed", "complete"}
        BY <2>0 DEF JoinTimeout, trace, Types
      <3> QED BY <1>0, <3>1, <3>2, <3>3, <3>4 DEF Types
    <2>2. TimeoutsNoted'
      BY <1>0, <2>0, InStop
      DEF JoinTimeout, Go, Settle, trace, LeaveRunner, monitorVars, TimeoutsNoted,
          Types, Polling, StartLanes, StopLanes
    <2>3. LockSound'
      BY <1>0, <2>0, InStop
      DEF JoinTimeout, Go, Settle, trace, LeaveRunner, LockSound, Polling,
          StartLanes, StopLanes, StartSound
    <2>4. StartSound'
      BY <1>0, <2>0, InStop
      DEF JoinTimeout, Go, Settle, trace, LeaveRunner, monitorVars, StartSound,
          Polling, StartLanes, StopLanes, LockSound
    <2>5. StopSound'
      BY <1>0, <2>0, InStop
      DEF JoinTimeout, Go, Settle, LeaveRunner, monitorVars, StopSound, Polling,
          StartLanes, StopLanes
    <2>6. TraceSound'
      BY <1>0, <2>0, InStop
      DEF JoinTimeout, Go, Settle, trace, LeaveRunner, monitorVars, TraceSound,
          Polling, StartLanes, StopLanes, LockSound
    <2>7. LeftToSomebody'
      BY <1>0, <2>0, InStop
      DEF JoinTimeout, Go, Settle, trace, LeaveRunner, LeftToSomebody, Polling,
          StartLanes, StopLanes, StopSound, StartSound
    <2> QED BY <1>0, <2>1, <2>2, <2>3, <2>4, <2>5, <2>6, <2>7
  <1>14. CASE LastSample
    <2>0. LastSample
      BY <1>14
    <2>1. Types'
      <3>1. lane' \in {"idle", "summary", "closed"} \cup StartLanes \cup StopLanes
        BY <2>0 DEF LastSample, Go, Settle, StartLanes, StopLanes, Types
      <3>2. /\ finished' \subseteq Job /\ failed' \subseteq finished'
            /\ started' \subseteq Collector /\ holding' \subseteq started'
        BY <2>0
        DEF LastSample, Go, Settle, LeaveRunner, mainVars, monitorVars, Types, Job
      <3>3. /\ poll' \in {"none", "run", "due", "reading", "leaving", "ended"}
            /\ lock' \in {"free", "lane", "poll"}
        BY <2>0 DEF LastSample, LeaveRunner, Types
      <3>4. /\ writer' \in {"none", "opened", "attached"}
            /\ files' \subseteq {"temp", "partial", "final"}
            /\ artifact' \in {"unavailable", "failed", "complete"}
        BY <2>0, RecordFacts DEF LastSample, trace, Types
      <3> QED BY <1>0, <3>1, <3>2, <3>3, <3>4 DEF Types
    <2>2. TimeoutsNoted'
      <3>1. loaded' => loaded \/ (run = "measuring" /\ "start" \notin finished)
        BY <2>0, RecordFacts, InStop, Zenon DEF LastSample, StartLanes, StopLanes
      <3>2. finished \subseteq finished' /\ UNCHANGED <<run, timedOut, invalid>>
        BY <1>0
      <3> QED BY <3>1, <3>2 DEF TimeoutsNoted
    <2>3. LockSound'
      BY <1>0, <2>0, InStop
      DEF LastSample, Go, Settle, trace, LeaveRunner, Record, Preserve, LockSound,
          Polling, StartLanes, StopLanes, StartSound
    <2>4. StartSound'
      BY <1>0, <2>0, InStop
      DEF LastSample, Go, Settle, trace, LeaveRunner, monitorVars, Record,
          Preserve, StartSound, Polling, StartLanes, StopLanes, LockSound
    <2>5. StopSound'
      BY <1>0, <2>0, InStop
      DEF LastSample, Go, Settle, LeaveRunner, monitorVars, StopSound, Polling,
          StartLanes, StopLanes
    <2>6. TraceSound'
      BY <1>0, <2>0, InStop
      DEF LastSample, Go, Settle, trace, LeaveRunner, monitorVars, Record,
          Preserve, TraceSound, Polling, StartLanes, StopLanes, LockSound
    <2>7. LeftToSomebody'
      BY <1>0, <2>0, InStop
      DEF LastSample, Go, Settle, trace, LeaveRunner, Record, Preserve,
          LeftToSomebody, Polling, StartLanes, StopLanes, StopSound, StartSound
    <2> QED BY <1>0, <2>1, <2>2, <2>3, <2>4, <2>5, <2>6, <2>7
  <1>15. CASE FlushTrace
    <2>0. FlushTrace
      BY <1>15
    <2>1. Types'
      <3>1. lane' \in {"idle", "summary", "closed"} \cup StartLanes \cup StopLanes
        BY <2>0 DEF FlushTrace, Go, Settle, StartLanes, StopLanes, Types
      <3>2. /\ finished' \subseteq Job /\ failed' \subseteq finished'
            /\ started' \subseteq Collector /\ holding' \subseteq started'
        BY <2>0
        DEF FlushTrace, Go, Settle, LeaveRunner, mainVars, monitorVars, Types, Job
      <3>3. /\ poll' \in {"none", "run", "due", "reading", "leaving", "ended"}
            /\ lock' \in {"free", "lane", "poll"}
        BY <2>0 DEF FlushTrace, LeaveRunner, Types
      <3>4. /\ writer' \in {"none", "opened", "attached"}
            /\ files' \subseteq {"temp", "partial", "final"}
            /\ artifact' \in {"unavailable", "failed", "complete"}
        BY <2>0 DEF FlushTrace, trace, Types, DiscardIfOpen, Discard, Preserve
      <3> QED BY <1>0, <3>1, <3>2, <3>3, <3>4 DEF Types
    <2>2. TimeoutsNoted'
      BY <1>0, <2>0, InStop
      DEF FlushTrace, Go, Settle, trace, LeaveRunner, monitorVars, DiscardIfOpen,
          Discard, Preserve, TimeoutsNoted, Types, Polling, StartLanes, StopLanes
    <2>3. LockSound'
      BY <1>0, <2>0, InStop
      DEF FlushTrace, Go, Settle, trace, LeaveRunner, DiscardIfOpen, Discard,
          Preserve, LockSound, Polling, StartLanes, StopLanes, StartSound
    <2>4. StartSound'
      BY <1>0, <2>0, InStop
      DEF FlushTrace, Go, Settle, trace, LeaveRunner, monitorVars, DiscardIfOpen,
          Discard, Preserve, StartSound, Polling, StartLanes, StopLanes, LockSound
    <2>5. StopSound'
      BY <1>0, <2>0, InStop
      DEF FlushTrace, Go, Settle, LeaveRunner, monitorVars, DiscardIfOpen,
          StopSound, Polling, StartLanes, StopLanes
    <2>6. TraceSound'
      BY <1>0, <2>0, InStop
      DEF FlushTrace, Go, Settle, trace, LeaveRunner, monitorVars, DiscardIfOpen,
          Discard, Preserve, TraceSound, Polling, StartLanes, StopLanes, LockSound
    <2>7. LeftToSomebody'
      BY <1>0, <2>0, InStop
      DEF FlushTrace, Go, Settle, trace, LeaveRunner, DiscardIfOpen, Discard,
          Preserve, LeftToSomebody, Polling, StartLanes, StopLanes, StopSound,
          StartSound
    <2> QED BY <1>0, <2>1, <2>2, <2>3, <2>4, <2>5, <2>6, <2>7
  <1>16. CASE StopCollectors
    <2>0. StopCollectors
      BY <1>16
    <2>1. Types'
      <3>1. lane' \in {"idle", "summary", "closed"} \cup StartLanes \cup StopLanes
        BY <2>0 DEF StopCollectors, Go, Settle, StartLanes, StopLanes, Types
      <3>2. /\ finished' \subseteq Job /\ failed' \subseteq finished'
            /\ started' \subseteq Collector /\ holding' \subseteq started'
        BY <2>0
        DEF StopCollectors, Go, Settle, LeaveRunner, mainVars, monitorVars, Types,
            Job
      <3>3. /\ poll' \in {"none", "run", "due", "reading", "leaving", "ended"}
            /\ lock' \in {"free", "lane", "poll"}
        BY <2>0 DEF StopCollectors, LeaveRunner, Types
      <3>4. /\ writer' \in {"none", "opened", "attached"}
            /\ files' \subseteq {"temp", "partial", "final"}
            /\ artifact' \in {"unavailable", "failed", "complete"}
        BY <2>0 DEF StopCollectors, trace, Types
      <3> QED BY <1>0, <3>1, <3>2, <3>3, <3>4 DEF Types
    <2>2. TimeoutsNoted'
      BY <1>0, <2>0, InStart, InStop
      DEF StopCollectors, Go, Settle, trace, LeaveRunner, monitorVars,
          TimeoutsNoted, Types, Polling, StartLanes, StopLanes
    <2>3. LockSound'
      BY <1>0, <2>0, InStart, InStop
      DEF StopCollectors, Go, Settle, trace, LeaveRunner, LockSound, Polling,
          StartLanes, StopLanes, StartSound
    <2>4. StartSound'
      BY <1>0, <2>0, InStart, InStop
      DEF StopCollectors, Go, Settle, trace, LeaveRunner, monitorVars, StartSound,
          Polling, StartLanes, StopLanes, LockSound
    <2>5. StopSound'
      BY <1>0, <2>0, InStart, InStop
      DEF StopCollectors, Go, Settle, LeaveRunner, monitorVars, StopSound, Polling,
          StartLanes, StopLanes
    <2>6. TraceSound'
      BY <1>0, <2>0, InStart, InStop
      DEF StopCollectors, Go, Settle, trace, LeaveRunner, monitorVars, TraceSound,
          Polling, StartLanes, StopLanes, LockSound
    <2>7. LeftToSomebody'
      BY <1>0, <2>0, InStart, InStop
      DEF StopCollectors, Go, Settle, trace, LeaveRunner, LeftToSomebody, Polling,
          StartLanes, StopLanes, StopSound, StartSound
    <2> QED BY <1>0, <2>1, <2>2, <2>3, <2>4, <2>5, <2>6, <2>7
  <1>17. CASE Summarize
    <2>0. Summarize
      BY <1>17
    <2>1. Types'
      <3>1. lane' \in {"idle", "summary", "closed"} \cup StartLanes \cup StopLanes
        BY <2>0 DEF Summarize, Go, Settle, StartLanes, StopLanes, Types
      <3>2. /\ finished' \subseteq Job /\ failed' \subseteq finished'
            /\ started' \subseteq Collector /\ holding' \subseteq started'
        BY <2>0
        DEF Summarize, Go, Settle, LeaveRunner, mainVars, monitorVars, Types, Job
      <3>3. /\ poll' \in {"none", "run", "due", "reading", "leaving", "ended"}
            /\ lock' \in {"free", "lane", "poll"}
        BY <2>0 DEF Summarize, LeaveRunner, Types
      <3>4. /\ writer' \in {"none", "opened", "attached"}
            /\ files' \subseteq {"temp", "partial", "final"}
            /\ artifact' \in {"unavailable", "failed", "complete"}
        BY <2>0 DEF Summarize, trace, Types
      <3> QED BY <1>0, <3>1, <3>2, <3>3, <3>4 DEF Types
    <2>2. TimeoutsNoted'
      BY <1>0, <2>0
      DEF Summarize, Go, Settle, trace, LeaveRunner, monitorVars, TimeoutsNoted,
          Types, Polling, StartLanes, StopLanes
    <2>3. LockSound'
      BY <1>0, <2>0
      DEF Summarize, Go, Settle, trace, LeaveRunner, LockSound, Polling,
          StartLanes, StopLanes, StartSound
    <2>4. StartSound'
      BY <1>0, <2>0
      DEF Summarize, Go, Settle, trace, LeaveRunner, monitorVars, StartSound,
          Polling, StartLanes, StopLanes, LockSound
    <2>5. StopSound'
      BY <1>0, <2>0
      DEF Summarize, Go, Settle, LeaveRunner, monitorVars, StopSound, Polling,
          StartLanes, StopLanes
    <2>6. TraceSound'
      BY <1>0, <2>0
      DEF Summarize, Go, Settle, trace, LeaveRunner, monitorVars, TraceSound,
          Polling, StartLanes, StopLanes, LockSound
    <2>7. LeftToSomebody'
      BY <1>0, <2>0
      DEF Summarize, Go, Settle, trace, LeaveRunner, LeftToSomebody, Polling,
          StartLanes, StopLanes, StopSound, StartSound
    <2> QED BY <1>0, <2>1, <2>2, <2>3, <2>4, <2>5, <2>6, <2>7
  <1> QED BY <1>1, <1>2, <1>3, <1>4, <1>5, <1>6, <1>7, <1>8, <1>9, <1>10, <1>11,
             <1>12, <1>13, <1>14, <1>15, <1>16, <1>17
          DEF LaneStep

-----------------------------------------------------------------------------
(* The polling thread.                                                     *)
LEMMA PollParts ==
  ASSUME Queue, Parts, PollStep
  PROVE  Queue' /\ Parts'
  <1> USE DEF Parts
  <1>1. UNCHANGED <<run, jobs, timedOut, invalid, report, late, lane, finished, failed,
                    started, owned, stopEvent, phase, stopReady, holding, abandoned>>
    BY DEF PollStep, PollDue, PollRead, PollWrite, PollLeaves, PollEnds,
       LeaveOthers,
           mainVars, laneVars, monitorVars
  <1>2. Queue' /\ Waiting' = Waiting
    BY <1>1, QueueKept
  <1>3. LaneJob' = LaneJob /\ Begun' = Begun /\ Asked' = Asked
    BY <1>1, <1>2 DEF LaneJob, Begun, Asked
  <1>4. Order' /\ AskedSoFar' /\ StopFollows'
    BY <1>1, <1>2, <1>3 DEF Order, AskedSoFar, StopFollows
  <1>5. CASE PollDue \/ PollLeaves
    <2>1. UNCHANGED <<writer, files, artifact, lock, loaded>>
      BY <1>5 DEF PollDue, PollLeaves, trace
    <2>2. poll = "run" /\ poll' \in {"due", "leaving"}
      BY <1>5 DEF PollDue, PollLeaves
    <2> QED BY <1>1, <1>2, <1>3, <1>4, <2>1, <2>2
            DEF Types, TimeoutsNoted, LockSound, StartSound, StopSound, TraceSound,
                LeftToSomebody, Polling
  <1>6. CASE PollRead
    <2>1. UNCHANGED <<writer, files, artifact, loaded>>
      BY <1>6 DEF PollRead, trace
    <2> QED BY <1>1, <1>2, <1>3, <1>4, <1>6, <2>1
            DEF PollRead, Types, TimeoutsNoted, LockSound, StartSound, StopSound,
                TraceSound, LeftToSomebody, Polling
  <1>7. CASE PollWrite
    <2>1. loaded' => loaded \/ (run = "measuring" /\ "start" \notin finished)
      BY <1>7, RecordFacts, Zenon DEF PollWrite, StartSound
    <2>2. TimeoutsNoted'
      BY <1>1, <2>1 DEF TimeoutsNoted
    <2>3. /\ poll = "reading" /\ poll' = "run" /\ lock' = "free"
          /\ \/ UNCHANGED <<writer, files, artifact>>
             \/ /\ writer = "attached" /\ writer' = "none" /\ artifact' = "failed"
                /\ files' \subseteq (files \ {"temp"}) \cup {"partial"}
      BY <1>7, RecordFacts DEF PollWrite
    <2>4. Types' /\ LockSound'
      BY <1>1, <2>3 DEF Types, LockSound
    <2>5. StartSound' /\ StopSound'
      BY <1>1, <1>3, <2>3 DEF StartSound, StopSound, Polling
    <2>6. TraceSound'
      BY <1>1, <2>3 DEF TraceSound
    <2>7. LeftToSomebody'
      BY <1>1, <1>2, <2>3 DEF LeftToSomebody, Polling
    <2> QED BY <1>2, <1>4, <2>2, <2>4, <2>5, <2>6, <2>7
  <1>8. CASE PollEnds
    <2>1. poll = "leaving" /\ poll' = "ended" /\ UNCHANGED <<lock, loaded>>
      BY <1>8 DEF PollEnds
    <2>2. CASE abandoned
      <3>1. \/ writer # "attached" /\ UNCHANGED <<writer, files, artifact>>
            \/ /\ writer = "attached" /\ writer' = "none" /\ artifact' = "failed"
               /\ files' = files \ {"temp"}
        BY <1>8, <2>2 DEF PollEnds, DiscardIfOpen, Discard, trace
      <3>2. Types' /\ TimeoutsNoted' /\ LockSound'
        <4>1. Types'
          <5>1. /\ writer' \in {"none", "opened", "attached"}
                /\ files' \subseteq {"temp", "partial", "final"}
                /\ artifact' \in {"unavailable", "failed", "complete"}
            BY <3>1 DEF Types
          <5> QED BY <1>1, <2>1, <5>1 DEF Types
        <4>2. TimeoutsNoted'
          BY <1>1, <2>1 DEF TimeoutsNoted
        <4>3. LockSound'
          BY <1>1, <2>1, <3>1 DEF LockSound
        <4> QED BY <4>1, <4>2, <4>3
      <3>3. StartSound' /\ StopSound'
        BY <1>1, <1>3, <2>1, <3>1 DEF StartSound, StopSound, Polling
      <3>4. TraceSound'
        BY <1>1, <3>1 DEF TraceSound
      <3>5. LeftToSomebody'
        BY <1>1, <3>1 DEF LeftToSomebody
      <3> QED BY <1>2, <1>4, <3>2, <3>3, <3>4, <3>5
    <2>3. CASE ~abandoned
      <3>1. UNCHANGED <<writer, files, artifact>>
        BY <1>8, <2>3 DEF PollEnds, trace
      <3> QED BY <1>1, <1>2, <1>3, <1>4, <2>1, <2>3, <3>1
              DEF Types, TimeoutsNoted, LockSound, StartSound, StopSound, TraceSound,
                  LeftToSomebody, Polling
    <2> QED BY <2>2, <2>3
  <1> QED BY <1>5, <1>6, <1>7, <1>8 DEF PollStep

-----------------------------------------------------------------------------
(* A lock that is taken when finalize_power_trace() asks for it is held by *)
(* the polling thread, which stop() could not end.                         *)
LEMMA FinalizeBehindPoll ==
  ASSUME Queue, Parts, run = "finalize", lock # "free"
  PROVE  "stop" \in failed
  <1>1. "stop" \notin Waiting \cup LaneJob /\ "start" \notin Waiting \cup LaneJob
    BY Finalizing
  <1>2. Polling
    BY <1>1, LockedLane DEF LaneJob, StartLanes, StopLanes
  <1>3. "start" \in Asked
    BY <1>2 DEF Parts, StartSound, Polling, Asked
  <1>4. "stop" \in finished
    BY <1>3 DEF Parts, StopFollows
  <1> QED BY <1>2, <1>4 DEF Parts, StopSound

(* The diagnostic of a job stays.                                          *)
LEMMA YieldedKept ==
  ASSUME Queue, Parts, Yielded, Next
  PROVE  Yielded'
  <1>1. CASE FinalizeTimesOut
    <2>1. run = "finalize" /\ lock # "free" /\ UNCHANGED failed
      BY <1>1, LaneLeft DEF FinalizeTimesOut
    <2> QED BY <2>1, FinalizeBehindPoll DEF Yielded
  <1>2. CASE FinalizeGivesUp
    <2>1. run = "yielding" /\ UNCHANGED failed
      BY <1>2, LaneLeft DEF FinalizeGivesUp
    <2> QED BY <2>1 DEF Yielded
  <1>3. CASE RunnerStep /\ ~FinalizeTimesOut /\ ~FinalizeGivesUp
    <2>1. UNCHANGED <<late, failed>> /\ run' # "yielding"
      BY <1>3 DEF RunnerStep, StartMonitor, EngineFails, StartSettled, StartTimeout,
         MeasurementEnds, StopWaited, SummaryWaited, CloseWaited, Abandon, AbandonLocked,
         AbandonGivesUp, Finalize, Report, LeaveLane, laneVars
    <2> QED BY <2>1 DEF Yielded
  <1>4. CASE LaneStep
    <2>1. UNCHANGED <<run, late>> /\ failed \subseteq failed'
      <3>1. CASE TakeJob
        BY <3>1 DEF TakeJob, Go
      <3>2. CASE ~TakeJob
        BY <1>4, <3>2, InJob
      <3> QED BY <3>1, <3>2
    <2> QED BY <2>1 DEF Yielded
  <1>5. CASE PollStep
    <2>1. UNCHANGED <<run, late, failed>>
      BY <1>5 DEF PollStep, PollDue, PollRead, PollWrite, PollLeaves, PollEnds,
         LeaveOthers, mainVars, laneVars
    <2> QED BY <2>1 DEF Yielded
  <1> QED BY <1>1, <1>2, <1>3, <1>4, <1>5 DEF Next

-----------------------------------------------------------------------------
(* The invariant and what follows from it.                                 *)

(* Nothing is asked for, started or written at the beginning.              *)
LEMMA InitInvariant == Init => IInv
  <1> SUFFICES ASSUME Init PROVE IInv
    OBVIOUS
  <1>1. jobs = <<>> /\ Waiting = {}
    BY DEF Init, Waiting
  <1>2. LaneJob = {} /\ Begun = {} /\ Asked = {}
    BY <1>1 DEF Init, LaneJob, StartLanes, StopLanes, Begun, Asked
  <1>3. Queue
    BY <1>1 DEF Queue
  <1>4. Types
    BY DEF Init, Types
  <1>5. Order /\ AskedSoFar /\ StopFollows /\ TimeoutsNoted
    BY <1>1, <1>2 DEF Init, Order, AskedSoFar, StopFollows, TimeoutsNoted
  <1>6. LockSound /\ StartSound /\ StopSound /\ TraceSound /\ LeftToSomebody
    BY <1>2 DEF Init, LockSound, StartSound, StopSound, TraceSound, LeftToSomebody,
                Polling
  <1>7. Yielded
    BY DEF Init, Yielded
  <1> QED BY <1>3, <1>4, <1>5, <1>6, <1>7 DEF IInv, Parts

(* A step that changes nothing.                                            *)
LEMMA Stutter ==
  ASSUME Queue, Parts, Yielded, UNCHANGED vars
  PROVE  Queue' /\ Parts' /\ Yielded'
  <1>1. UNCHANGED <<run, jobs, timedOut, invalid, report, late, lane, finished, failed,
                    started, owned, stopEvent, phase, stopReady, holding, poll, lock, abandoned,
                    writer, files, artifact, loaded>>
    BY DEF vars, mainVars, laneVars, monitorVars, trace
  <1>2. Queue' /\ Waiting' = Waiting
    BY <1>1, QueueKept
  <1>3. LaneJob' = LaneJob /\ Begun' = Begun /\ Asked' = Asked
    BY <1>1, <1>2 DEF LaneJob, Begun, Asked
  <1> QED BY <1>1, <1>2, <1>3
          DEF Parts, Types, Order, AskedSoFar, StopFollows, TimeoutsNoted, LockSound,
              StartSound, StopSound, TraceSound, LeftToSomebody, Polling, Yielded

(* The inductive invariant: who may still be asked, who holds the lock,    *)
(* and to whom an open trace is left.                                      *)
THEOREM Invariance == Spec => []IInv
  <1>1. IInv /\ [Next]_vars => IInv'
    BY RunnerQueue, RunnerParts, TakeParts, LaneParts, PollParts, YieldedKept, Stutter
    DEF IInv, Next
  <1> QED BY <1>1, InitInvariant, PTL DEF Spec

(* The saved status of the trace agrees with the file on disk.             *)
THEOREM ReportsMatch == Spec => []ReportMatchesFile
  <1>1. IInv => ReportMatchesFile
    BY DEF IInv, Parts, TraceSound, ReportMatchesFile
  <1> QED BY <1>1, Invariance, PTL

(* A published trace is published after a stop() that ended the polling    *)
(* thread.                                                                 *)
THEOREM PublishedSealed == Spec => []PublishedIsSealed
  <1>1. IInv => PublishedIsSealed
    BY DEF IInv, Parts, TraceSound, StopSound, PublishedIsSealed
  <1> QED BY <1>1, Invariance, PTL

(* A valid result has no baseline sample taken under load.                 *)
THEOREM BaselinesQuiet == Spec => []BaselineIsQuiet
  <1>1. IInv => BaselineIsQuiet
    BY DEF IInv, Parts, TimeoutsNoted, BaselineIsQuiet
  <1> QED BY <1>1, Invariance, PTL

(* When all threads have ended no trace file is left open, but for the     *)
(* polling thread that a failed stop() left behind and that finds no flag  *)
(* because finalize_power_trace() sets it too late.                        *)
THEOREM AllClosed == Spec => []NothingLeftOpen
  <1>1. ASSUME IInv, AllEnded
        PROVE  (writer = "none" /\ "temp" \notin files) \/ (late /\ "stop" \in failed)
    <2>1. Waiting = {}
      BY <1>1, OrderFacts
      DEF IInv, Parts, AllEnded, Begun, LaneJob, StartLanes, StopLanes
    <2>2. CASE late
      BY <1>1, <2>2 DEF IInv, Yielded
    <2>3. CASE ~late
      <3>1. writer \notin {"attached", "opened"}
        BY <1>1, <2>1, <2>3 DEF IInv, Parts, AllEnded, LeftToSomebody, StartSound
      <3> QED BY <1>1, <3>1 DEF IInv, Parts, Types, TraceSound
    <2> QED BY <2>2, <2>3
  <1>2. IInv => NothingLeftOpen
    BY <1>1 DEF NothingLeftOpen
  <1> QED BY <1>2, Invariance, PTL

(* A lane that has ended has stopped every collector, or stop() reported   *)
(* an error.                                                               *)
THEOREM AllReleased == Spec => []CollectorsReleased
  <1>1. ASSUME IInv, lane = "closed"
        PROVE  holding = {} \/ "stop" \in failed
    <2>1. LaneJob = {"close"}
      BY <1>1 DEF LaneJob, StartLanes, StopLanes
    <2>2. Waiting = {} /\ "close" \in Asked
      BY <1>1, <2>1, OrderFacts DEF IInv, Parts, Begun, Asked
    <2>3. CASE "start" \in Begun
      <3>1. run \notin {"engine_start", "starting", "measuring"}
        BY <1>1, <2>2 DEF IInv, Parts, AskedSoFar
      <3>2. "stop" \in Asked
        BY <1>1, <2>3, <3>1 DEF IInv, Parts, StopFollows, Asked
      <3>3. "stop" \in finished
        BY <2>1, <2>2, <3>2 DEF Asked, Begun
      <3> QED BY <1>1, <3>3 DEF IInv, Parts, StopSound, Types
    <2>4. CASE "start" \notin Begun
      BY <1>1, <2>4 DEF IInv, Parts, StartSound, Types
    <2> QED BY <2>3, <2>4
  <1>2. IInv => CollectorsReleased
    BY <1>1 DEF CollectorsReleased
  <1> QED BY <1>2, Invariance, PTL

-----------------------------------------------------------------------------
(* The monitored run keeps TraceContract.                                  *)

TraceState ==
  CASE "final" \in files -> "published"
    [] writer # "none" /\ stopReady -> "sealed"
    [] writer # "none" /\ ~stopReady -> "open"
    [] OTHER -> IF Unprepared THEN "none" ELSE "gone"
Sampling == lock # "free" /\ lane # "flush"

(* What start() does behind the collectors.                                *)
Past == StartLanes \ {"collect"}

(* No start that got to the trace, no report that says failed of it.       *)
Untouched == Unprepared /\ ~abandoned => artifact = "unavailable"

(* The trace is not prepared before the start is past its collectors.      *)
LEMMA PreparedOrNot ==
  Types => (Unprepared <=> "start" \notin finished /\ lane \notin Past)
  BY DEF Types, Unprepared, Past, StartLanes, StopLanes

(* A writer means a trace that is open or sealed.                          *)
LEMMA WithWriter ==
  ASSUME Queue, Parts, writer # "none"
  PROVE  /\ ~Unprepared /\ "final" \notin files
         /\ TraceState = IF stopReady THEN "sealed" ELSE "open"
  <1>1. "final" \notin files
    BY DEF Parts, TraceSound
  <1>2. lane # "collect" /\ "start" \in Begun
    BY DEF Parts, StartSound
  <1>3. lane \in StartLanes \/ "start" \in finished
    BY <1>2 DEF Begun, LaneJob
  <1>4. ~Unprepared
    BY <1>2, <1>3, PreparedOrNot DEF Parts, Past
  <1> QED BY <1>1, <1>4 DEF TraceState

(* Without a writer and a final file there is none yet, or none any more.  *)
LEMMA WithoutWriter ==
  ASSUME writer = "none", "final" \notin files
  PROVE  TraceState = IF Unprepared THEN "none" ELSE "gone"
  BY DEF TraceState

(* The same after a step.                                                  *)
LEMMA WithoutWriterAfter ==
  ASSUME writer' = "none", "final" \notin files'
  PROVE  TraceState' = IF Unprepared' THEN "none" ELSE "gone"
  BY DEF TraceState

(* A step without effect on the trace.                                     *)
LEMMA StateKept ==
  ASSUME UNCHANGED files, writer' = "none" <=> writer = "none",
         stopReady' = stopReady \/ writer = "none",
         Unprepared' <=> Unprepared
  PROVE  TraceState' = TraceState
  BY DEF TraceState

(* The writer is closed.                                                   *)
LEMMA WriterCloses ==
  ASSUME Queue, Parts, writer # "none", writer' = "none", "final" \notin files',
         Unprepared' <=> Unprepared
  PROVE  TraceState \in {"open", "sealed"} /\ TraceState' = "gone"
  <1>1. ~Unprepared'
    BY WithWriter
  <1> QED BY <1>1, WithWriter, WithoutWriterAfter

(* Who discards or preserves the trace closes the writer.                  *)
LEMMA DiscardFacts ==
  ASSUME Queue, Parts,
         Discard \/ Preserve \/ (writer = "attached" /\ (DiscardIfOpen \/ PreserveIfOpen))
  PROVE  /\ writer' = "none" /\ artifact' = "failed"
         /\ "final" \in files' => "final" \in files
  BY DEF Discard, Preserve, DiscardIfOpen, PreserveIfOpen

-----------------------------------------------------------------------------
(* One lemma per promise.                                                  *)

(* Nothing that a reader of the result could see.                          *)
LEMMA Unseen ==
  ASSUME TraceState' = TraceState, (Sampling' <=> Sampling), (Polling' <=> Polling),
         UNCHANGED <<abandoned, report>>
  PROVE  [Contract!Next]_(Contract!vars)
  <1>1. Contract!vars = <<TraceState, Sampling, Polling, abandoned, report>>
    BY Zenon DEF Contract!vars, TraceState, Sampling
  <1>2. Contract!vars' = <<TraceState, Sampling, Polling, abandoned, report>>'
    BY Zenon DEF Contract!vars, TraceState, Sampling
  <1> QED BY <1>1, <1>2

(* A trace is opened.                                                      *)
LEMMA IsOpened ==
  ASSUME TraceState = "none", ~abandoned, report = "none", TraceState' = "open",
         (Sampling' <=> Sampling), (Polling' <=> Polling), UNCHANGED <<abandoned, report>>
  PROVE  [Contract!Next]_(Contract!vars)
  <1>1. Contract!Open
    BY DEF Contract!Open, TraceState, Sampling
  <1> QED BY <1>1 DEF Contract!Next

(* The polling thread starts.                                              *)
LEMMA PollingBegins ==
  ASSUME ~Polling, Polling', TraceState \notin {"sealed", "published"},
         TraceState' = TraceState, (Sampling' <=> Sampling), UNCHANGED <<abandoned, report>>
  PROVE  [Contract!Next]_(Contract!vars)
  <1>1. Contract!StartsPolling
    BY DEF Contract!StartsPolling, TraceState, Sampling
  <1> QED BY <1>1 DEF Contract!Next

(* A collector is read.                                                    *)
LEMMA SampleBegins ==
  ASSUME TraceState = "open", ~Sampling, Sampling', TraceState' = TraceState,
         (Polling' <=> Polling), UNCHANGED <<abandoned, report>>
  PROVE  [Contract!Next]_(Contract!vars)
  <1>1. Contract!BeginSample
    BY DEF Contract!BeginSample, TraceState, Sampling
  <1> QED BY <1>1 DEF Contract!Next

(* What was read is written, or cannot be.                                 *)
LEMMA SampleEnds ==
  ASSUME Sampling, ~Sampling',
         TraceState' = TraceState \/ (TraceState = "open" /\ TraceState' = "gone"),
         (Polling' <=> Polling), UNCHANGED <<abandoned, report>>
  PROVE  [Contract!Next]_(Contract!vars)
  <1>1. Contract!EndSample
    BY DEF Contract!EndSample, TraceState, Sampling
  <1> QED BY <1>1 DEF Contract!Next

(* stop() has taken the last sample.                                       *)
LEMMA IsSealed ==
  ASSUME TraceState = "open", ~Sampling, ~Polling, ~abandoned, TraceState' = "sealed",
         (Sampling' <=> Sampling), (Polling' <=> Polling), UNCHANGED <<abandoned, report>>
  PROVE  [Contract!Next]_(Contract!vars)
  <1>1. Contract!Seal
    BY DEF Contract!Seal, TraceState, Sampling
  <1> QED BY <1>1 DEF Contract!Next

(* There will be no trace.                                                 *)
LEMMA IsLost ==
  ASSUME TraceState \in {"none", "open", "sealed"}, ~Sampling, TraceState' = "gone",
         (Sampling' <=> Sampling), (Polling' <=> Polling) \/ ~Polling',
         abandoned' = abandoned \/ (abandoned' = TRUE /\ report = "none"), UNCHANGED report
  PROVE  [Contract!Next]_(Contract!vars)
  <1>1. Polling' \in {Polling, FALSE} /\ abandoned' \in {abandoned, TRUE}
    BY DEF Polling
  <1>2. Contract!Lose
    BY <1>1 DEF Contract!Lose, TraceState, Sampling
  <1> QED BY <1>2 DEF Contract!Next

(* The polling thread ends.                                                *)
LEMMA PollingEnds ==
  ASSUME Polling, ~Polling', TraceState' = TraceState, (Sampling' <=> Sampling),
         UNCHANGED <<abandoned, report>>
  PROVE  [Contract!Next]_(Contract!vars)
  <1>1. Contract!EndsPolling
    BY DEF Contract!EndsPolling, TraceState, Sampling
  <1> QED BY <1>1 DEF Contract!Next

(* The run does not want the trace any more.                               *)
LEMMA IsGivenUp ==
  ASSUME report = "none", abandoned' = TRUE, TraceState' = TraceState,
         (Sampling' <=> Sampling), (Polling' <=> Polling), UNCHANGED report
  PROVE  [Contract!Next]_(Contract!vars)
  <1>1. Contract!GiveUp
    BY DEF Contract!GiveUp, TraceState, Sampling
  <1> QED BY <1>1 DEF Contract!Next

(* The trace is published.                                                 *)
LEMMA IsPublished ==
  ASSUME TraceState = "sealed", ~Sampling, ~Polling, ~abandoned, report = "none",
         TraceState' = "published", (Sampling' <=> Sampling), (Polling' <=> Polling),
         UNCHANGED <<abandoned, report>>
  PROVE  [Contract!Next]_(Contract!vars)
  <1>1. Contract!Publish
    BY DEF Contract!Publish, TraceState, Sampling
  <1> QED BY <1>1 DEF Contract!Next

(* The result is saved.                                                    *)
LEMMA IsReported ==
  ASSUME report = "none",
         \/ TraceState = "published" /\ report' = "complete"
         \/ TraceState \in {"none", "gone"} /\ ~abandoned /\ report' = "unavailable"
         \/ /\ TraceState = "gone" \/ (TraceState # "published" /\ abandoned)
            /\ report' = "failed",
         TraceState' = TraceState, (Sampling' <=> Sampling), (Polling' <=> Polling),
         UNCHANGED abandoned
  PROVE  [Contract!Next]_(Contract!vars)
  <1>1. Contract!Report
    BY DEF Contract!Report, TraceState, Sampling
  <1> QED BY <1>1 DEF Contract!Next

-----------------------------------------------------------------------------
(* What the actions keep.                                                  *)

(* The runner and main.py.                                                 *)
LEMMA RunnerKeeps ==
  ASSUME Queue, Parts, Untouched, RunnerStep
  PROVE  [Contract!Next]_(Contract!vars)
  <1>1. UNCHANGED <<lane, finished, stopReady, poll, lock>>
    BY DEF RunnerStep, StartMonitor, EngineFails, StartSettled, StartTimeout,
       MeasurementEnds, StopWaited, SummaryWaited, CloseWaited, Abandon, AbandonLocked,
       AbandonGivesUp, Finalize, FinalizeTimesOut, FinalizeGivesUp, Report,
       LeaveLane, laneVars, monitorVars
  <1>2. Unprepared' = Unprepared /\ Sampling' = Sampling /\ Polling' = Polling
    BY <1>1 DEF Unprepared, Sampling, Polling
  <1>3. run # "reported" => report = "none"
    BY DEF Parts, TraceSound
  <1>4. CASE \/ StartMonitor \/ EngineFails \/ StartSettled \/ StartTimeout
             \/ MeasurementEnds \/ StopWaited \/ SummaryWaited \/ CloseWaited
             \/ AbandonGivesUp \/ FinalizeTimesOut
    <2>1. UNCHANGED <<writer, files, abandoned, report>>
      BY <1>4 DEF StartMonitor, EngineFails, StartSettled, StartTimeout, MeasurementEnds,
         StopWaited, SummaryWaited, CloseWaited, AbandonGivesUp, FinalizeTimesOut,
         KeepTrace, trace
    <2> QED BY <1>1, <1>2, <2>1, StateKept, Unseen
  <1>5. CASE Abandon \/ FinalizeGivesUp
    <2>1. /\ UNCHANGED <<writer, files, report>> /\ abandoned' = TRUE /\ report = "none"
      BY <1>3, <1>5 DEF Abandon, FinalizeGivesUp, trace
    <2> QED BY <1>1, <1>2, <2>1, StateKept, IsGivenUp
  <1>6. CASE AbandonLocked
    <2>1. lock = "free" /\ UNCHANGED <<abandoned, report>>
      BY <1>6 DEF AbandonLocked
    <2>2. CASE writer = "attached"
      <3>1. writer' = "none" /\ ("final" \in files' => "final" \in files)
        BY <1>6, <2>2, DiscardFacts DEF AbandonLocked
      <3> QED BY <1>2, <2>1, <2>2, <3>1, WithWriter, WriterCloses, IsLost DEF Sampling
    <2>3. CASE writer # "attached"
      <3>1. UNCHANGED <<writer, files>>
        BY <1>6, <2>3 DEF AbandonLocked
      <3> QED BY <1>1, <1>2, <2>1, <3>1, StateKept, Unseen
    <2> QED BY <2>2, <2>3
  <1>7. CASE Finalize
    <2>1. lock = "free" /\ report = "none" /\ UNCHANGED report
      BY <1>3, <1>7 DEF Finalize
    <2>2. CASE writer # "attached" /\ KeepTrace
      BY <1>1, <1>2, <2>1, <2>2, StateKept, Unseen DEF KeepTrace, trace
    <2>3. CASE writer = "attached" /\ abandoned' = TRUE /\ Discard
      <3>1. writer' = "none" /\ ("final" \in files' => "final" \in files)
        BY <2>3, DiscardFacts
      <3> QED BY <1>2, <2>1, <2>3, <3>1, WithWriter, WriterCloses, IsLost DEF Sampling
    <2>4. CASE writer = "attached" /\ UNCHANGED abandoned /\ Preserve
      <3>1. writer' = "none" /\ ("final" \in files' => "final" \in files)
        BY <2>4, DiscardFacts
      <3> QED BY <1>2, <2>1, <2>4, <3>1, WithWriter, WriterCloses, IsLost DEF Sampling
    <2>5. CASE /\ writer = "attached" /\ MayPublish /\ UNCHANGED abandoned /\ writer' = "none"
               /\ files' = (files \ {"temp"}) \cup {"final"}
      <3>1. TraceState = "sealed"
        BY <2>5, WithWriter DEF MayPublish
      <3>3. TraceState' = "published"
        <4>1. "final" \in files' /\ writer' = "none"
          BY <2>5
        <4> QED BY <4>1 DEF TraceState
      <3>2. ~Polling
        BY <2>5 DEF MayPublish, Parts, StopSound
      <3> QED BY <1>2, <2>1, <2>5, <3>1, <3>2, <3>3, IsPublished DEF Sampling, MayPublish
    <2> QED BY <1>7, <2>2, <2>3, <2>4, <2>5 DEF Finalize
  <1>8. CASE Report
    <2>1. /\ run = "reporting" /\ UNCHANGED <<writer, files, abandoned>>
          /\ report' = IF abandoned /\ artifact # "complete" THEN "failed" ELSE artifact
      BY <1>8 DEF Report, KeepTrace, trace
    <2>2. report = "none" /\ TraceState' = TraceState
      BY <1>1, <1>2, <1>3, <2>1, StateKept
    <2>3. CASE artifact = "complete"
      <3>1. TraceState = "published"
        BY <2>3 DEF Parts, TraceSound, TraceState
      <3> QED BY <1>2, <2>1, <2>2, <2>3, <3>1, IsReported
    <2>4. CASE artifact # "complete" /\ abandoned
      <3>1. TraceState # "published"
        BY <2>4 DEF Parts, TraceSound, TraceState
      <3> QED BY <1>2, <2>1, <2>2, <2>4, <3>1, IsReported
    <2>5. CASE artifact # "complete" /\ ~abandoned
      <3>1. "final" \notin files /\ writer # "attached"
        BY <2>1, <2>5 DEF Parts, TraceSound, LeftToSomebody
      <3>2. lane \notin StartLanes
        BY <2>1, <2>5 DEF Parts, StopFollows, LaneJob
      <3>3. writer = "none"
        BY <3>1, <3>2 DEF Parts, Types, StartSound, StartLanes
      <3>4. TraceState = IF Unprepared THEN "none" ELSE "gone"
        BY <3>1, <3>3, WithoutWriter
      <3>5. Unprepared => artifact = "unavailable"
        BY <2>5 DEF Untouched
      <3> QED BY <1>2, <2>1, <2>2, <2>5, <3>4, <3>5, IsReported DEF Parts, Types
    <2> QED BY <2>3, <2>4, <2>5
  <1> QED BY <1>4, <1>5, <1>6, <1>7, <1>8 DEF RunnerStep

(* The polling thread.                                                     *)
LEMMA PollKeeps ==
  ASSUME Queue, Parts, PollStep
  PROVE  [Contract!Next]_(Contract!vars)
  <1>1. UNCHANGED <<lane, finished, stopReady, abandoned, report>>
    BY DEF PollStep, PollDue, PollRead, PollWrite, PollLeaves, PollEnds, LeaveOthers,
       mainVars, laneVars, monitorVars
  <1>2. Unprepared' = Unprepared
    BY <1>1 DEF Unprepared
  <1>3. CASE PollDue \/ PollLeaves
    <2>1. UNCHANGED <<lock, writer, files>> /\ Polling' = Polling
      BY <1>3 DEF PollDue, PollLeaves, trace, Polling
    <2> QED BY <1>1, <1>2, <2>1, StateKept, Unseen DEF Sampling
  <1>4. CASE PollRead
    <2>1. /\ poll = "due" /\ lock = "free" /\ UNCHANGED <<writer, files>> /\ Polling' = Polling
          /\ \/ writer = "attached" /\ lock' = "poll"
             \/ UNCHANGED lock
      BY <1>4 DEF PollRead, trace, Polling
    <2>2. TraceState' = TraceState
      BY <1>1, <1>2, <2>1, StateKept
    <2>3. CASE UNCHANGED lock
      BY <1>1, <2>1, <2>2, <2>3, Unseen DEF Sampling
    <2>4. CASE writer = "attached" /\ lock' = "poll"
      <3>1. ~stopReady /\ lane # "flush"
        BY <2>1, <2>4 DEF Parts, StopSound, LockSound, Polling
      <3>2. TraceState = "open"
        BY <2>4, <3>1, WithWriter
      <3> QED BY <1>1, <2>1, <2>2, <2>4, <3>1, <3>2, SampleBegins DEF Sampling
    <2> QED BY <2>1, <2>3, <2>4
  <1>5. CASE PollWrite
    <2>1. /\ poll = "reading" /\ lock' = "free" /\ Polling' = Polling
          /\ \/ UNCHANGED <<writer, files>>
             \/ /\ writer = "attached" /\ writer' = "none"
                /\ files' \subseteq (files \ {"temp"}) \cup {"partial"}
      BY <1>5, RecordFacts DEF PollWrite, Polling
    <2>2. lock = "poll" /\ lane # "flush" /\ ~stopReady
      BY <2>1 DEF Parts, StopSound, LockSound, Polling
    <2>3. Sampling /\ ~Sampling'
      BY <2>1, <2>2 DEF Sampling
    <2>4. TraceState' = TraceState \/ (TraceState = "open" /\ TraceState' = "gone")
      <3>1. CASE UNCHANGED <<writer, files>>
        BY <1>1, <1>2, <3>1, StateKept
      <3>2. CASE writer = "attached" /\ writer' = "none"
                 /\ files' \subseteq (files \ {"temp"}) \cup {"partial"}
        BY <1>2, <2>2, <3>2, WithWriter, WriterCloses
      <3> QED BY <2>1, <3>1, <3>2
    <2> QED BY <1>1, <2>1, <2>3, <2>4, SampleEnds
  <1>6. CASE PollEnds
    <2>1. Polling /\ ~Polling' /\ UNCHANGED lock /\ Sampling' = Sampling
      BY <1>1, <1>6 DEF PollEnds, Polling, Sampling
    <2>2. CASE UNCHANGED trace
      BY <1>1, <1>2, <2>1, <2>2, StateKept, PollingEnds DEF trace
    <2>3. CASE lock = "free" /\ writer = "attached" /\ DiscardIfOpen
      <3>1. writer' = "none" /\ ("final" \in files' => "final" \in files)
        BY <2>3, DiscardFacts
      <3> QED BY <1>1, <1>2, <2>1, <2>3, <3>1, WithWriter, WriterCloses, IsLost DEF Sampling
    <2> QED BY <1>6, <2>2, <2>3 DEF PollEnds, DiscardIfOpen
  <1> QED BY <1>3, <1>4, <1>5, <1>6 DEF PollStep

(* The lane, on the way from start() to the polling thread.                *)
LEMMA StartKeeps ==
  ASSUME Queue, Parts, LaneStep, ~TakeJob,
         \/ \E c \in Collector : StartCollector(c)
         \/ PrepareTrace \/ CheckAbandoned \/ AttachWriter \/ StartPolling
  PROVE  [Contract!Next]_(Contract!vars)
  <1>1. UNCHANGED <<abandoned, report>>
    BY InJob
  <1>2. lane \in {"collect", "prepared", "attach", "spawn"} /\ UNCHANGED <<lock, stopReady>>
    BY DEF StartCollector, PrepareTrace, CheckAbandoned, AttachWriter, StartPolling,
       monitorVars
  <1>3. /\ ~stopReady /\ "final" \notin files /\ "start" \notin finished /\ poll = "none"
        /\ abandoned \/ report = "none"
    BY <1>2, InStart DEF StartLanes, Parts, StartSound, TraceSound
  <1>4. lock = "free" /\ ~Sampling
    BY <1>2, <1>3 DEF Parts, LockSound, Types, Sampling
  <1>5. ~Sampling' /\ ~Polling
    BY <1>2, <1>3, <1>4 DEF Sampling, Polling
  <1>6. CASE \E c \in Collector : StartCollector(c)
    <2>1. /\ lane = "collect" /\ lane' \in {"collect", "undo"}
          /\ UNCHANGED <<finished, poll, writer, files>>
      BY <1>6 DEF StartCollector, Go, LeaveRunner, trace
    <2>2. writer = "none" /\ Unprepared /\ TraceState = "none"
      BY <1>3, <2>1, WithoutWriter DEF Unprepared, Parts, StartSound
    <2>3. Polling' = Polling
      BY <2>1 DEF Polling
    <2>4. CASE lane' = "collect"
      <3>1. Unprepared' = Unprepared
        BY <2>1, <2>4 DEF Unprepared
      <3> QED BY <1>1, <1>2, <1>4, <1>5, <2>1, <2>3, <3>1, StateKept, Unseen
    <2>5. CASE lane' = "undo"
      <3>1. ~Unprepared'
        BY <2>5 DEF Unprepared
      <3>2. TraceState' = "gone"
        BY <1>3, <2>1, <2>2, <3>1, WithoutWriterAfter
      <3> QED BY <1>1, <1>4, <1>5, <2>2, <2>3, <3>2, IsLost
    <2> QED BY <2>1, <2>4, <2>5
  <1>7. CASE PrepareTrace
    <2>1. /\ lane = "collect" /\ lane' \in {"prepared", "spawn"}
          /\ UNCHANGED <<finished, poll>>
      BY <1>7 DEF PrepareTrace, Go, LeaveRunner
    <2>2. writer = "none" /\ Unprepared /\ TraceState = "none"
      BY <1>3, <2>1, WithoutWriter DEF Unprepared, Parts, StartSound
    <2>3. ~Unprepared' /\ Polling' = Polling
      BY <2>1 DEF Unprepared, Polling
    <2>4. CASE UNCHANGED <<writer, files>>
      <3>1. TraceState' = "gone"
        BY <1>3, <2>2, <2>3, <2>4, WithoutWriterAfter
      <3> QED BY <1>1, <1>4, <1>5, <2>2, <2>3, <3>1, IsLost
    <2>5. CASE ~abandoned /\ writer' = "opened" /\ files' = files \cup {"temp"}
      <3>1. "final" \notin files' /\ writer' # "none" /\ ~stopReady'
        BY <1>2, <1>3, <2>5
      <3>2. TraceState' = "open"
        BY <3>1 DEF TraceState
      <3> QED BY <1>1, <1>3, <1>4, <1>5, <2>2, <2>3, <2>5, <3>2, IsOpened
    <2> QED BY <1>7, <2>4, <2>5 DEF PrepareTrace
  <1>8. CASE CheckAbandoned
    <2>1. /\ lane = "prepared" /\ lane' \in {"spawn", "attach"} /\ UNCHANGED <<finished, poll>>
          /\ Discard \/ UNCHANGED <<writer, files>>
      BY <1>8 DEF CheckAbandoned, Go, LeaveRunner, trace
    <2>2. ~Unprepared /\ ~Unprepared' /\ Polling' = Polling /\ writer = "opened"
      BY <2>1 DEF Unprepared, Polling, Parts, StartSound
    <2>3. CASE UNCHANGED <<writer, files>>
      BY <1>1, <1>2, <1>4, <1>5, <2>2, <2>3, StateKept, Unseen
    <2>4. CASE Discard
      <3>1. writer' = "none" /\ "final" \notin files'
        BY <1>3, <2>4, DiscardFacts
      <3> QED BY <1>1, <1>4, <1>5, <2>2, <3>1, WriterCloses, IsLost
    <2> QED BY <2>1, <2>3, <2>4
  <1>9. CASE AttachWriter
    <2>1. /\ lane = "attach" /\ lane' = "first" /\ writer' = "attached"
          /\ UNCHANGED <<finished, poll, files>>
      BY <1>9 DEF AttachWriter, Go, LeaveRunner
    <2>2. ~Unprepared /\ ~Unprepared' /\ Polling' = Polling /\ writer = "opened"
      BY <2>1 DEF Unprepared, Polling, Parts, StartSound
    <2> QED BY <1>1, <1>2, <1>4, <1>5, <2>1, <2>2, StateKept, Unseen
  <1>10. CASE StartPolling
    <2>1. /\ lane = "spawn" /\ UNCHANGED <<writer, files>>
          /\ lane' \in {"baseline", "undo"} \/ "start" \in finished'
          /\ poll' \in {poll, "run"}
      BY <1>10 DEF StartPolling, Go, Settle, trace
    <2>2. ~Unprepared /\ ~Unprepared'
      BY <2>1 DEF Unprepared
    <2>3. TraceState' = TraceState
      BY <1>2, <2>1, <2>2, StateKept
    <2>4. TraceState \notin {"sealed", "published"}
      BY <1>3 DEF TraceState
    <2>5. Polling' \/ Polling' = Polling
      BY <2>1 DEF Polling
    <2> QED BY <1>1, <1>4, <1>5, <2>3, <2>4, <2>5, PollingBegins, Unseen
  <1> QED BY <1>6, <1>7, <1>8, <1>9, <1>10

(* The lane takes a sample.                                                *)
LEMMA SampleKeeps ==
  ASSUME Queue, Parts, LaneStep, ~TakeJob,
         LaneReads \/ FirstSample \/ SwitchPhase \/ LastSample
  PROVE  [Contract!Next]_(Contract!vars)
  <1>1. UNCHANGED <<abandoned, report>>
    BY InJob
  <1>2. UNCHANGED <<stopReady, poll>> /\ Polling' = Polling
    BY DEF LaneReads, FirstSample, SwitchPhase, LastSample, LeaveRunner, monitorVars, Polling
  <1>3. lane \in {"first", "baseline", "last", "firstSample", "switch", "lastSample"}
    BY DEF LaneReads, FirstSample, SwitchPhase, LastSample
  <1>4. ~stopReady /\ "final" \notin files
    BY <1>3, InStart, InStop DEF StartLanes, StopLanes, Parts, StopSound
  <1>5. Unprepared' = Unprepared
    BY <1>3 DEF LaneReads, FirstSample, SwitchPhase, LastSample, Go, Settle, Unprepared
  <1>6. CASE LaneReads
    <2>1. /\ lock = "free"
          /\ lane' \in {"spawn", "release", "switch", "firstSample", "lastSample"}
          /\ \/ UNCHANGED <<lock, writer, files>>
             \/ writer = "attached" /\ Discard /\ UNCHANGED lock
             \/ writer = "attached" /\ lock' = "lane" /\ UNCHANGED <<writer, files>>
      BY <1>6 DEF LaneReads, Go, trace
    <2>2. ~Sampling
      BY <2>1 DEF Sampling
    <2>3. CASE UNCHANGED <<lock, writer, files>>
      BY <1>1, <1>2, <1>5, <2>1, <2>2, <2>3, StateKept, Unseen DEF Sampling
    <2>4. CASE writer = "attached" /\ Discard /\ UNCHANGED lock
      <3>1. writer' = "none" /\ "final" \notin files'
        BY <1>4, <2>4, DiscardFacts
      <3>2. ~Sampling'
        BY <2>1, <2>4 DEF Sampling
      <3> QED BY <1>1, <1>2, <1>5, <2>2, <2>4, <3>1, <3>2, WriterCloses, IsLost
    <2>5. CASE writer = "attached" /\ lock' = "lane" /\ UNCHANGED <<writer, files>>
      <3>1. Sampling'
        BY <2>1, <2>5 DEF Sampling
      <3>2. TraceState = "open" /\ TraceState' = TraceState
        BY <1>2, <1>4, <1>5, <2>5, WithWriter, StateKept
      <3> QED BY <1>1, <1>2, <2>2, <3>1, <3>2, SampleBegins
    <2> QED BY <2>1, <2>3, <2>4, <2>5
  <1>7. CASE FirstSample \/ SwitchPhase \/ LastSample
    <2>1. /\ lane \in {"firstSample", "switch", "lastSample"}
          /\ lock' = "free" \/ lane' = "flush"
          /\ \/ UNCHANGED <<writer, files>>
             \/ /\ writer = "attached" /\ writer' = "none"
                /\ files' \subseteq (files \ {"temp"}) \cup {"partial"}
      <3>1. CASE FirstSample
        BY <3>1, RecordFacts DEF FirstSample
      <3>2. CASE SwitchPhase
        BY <3>2, RecordFacts DEF SwitchPhase, trace
      <3>3. CASE LastSample
        BY <3>3, RecordFacts DEF LastSample, Go
      <3> QED BY <1>7, <3>1, <3>2, <3>3
    <2>2. ~Sampling'
      BY <2>1 DEF Sampling
    <2>3. CASE Sampling
      <3>1. TraceState' = TraceState \/ (TraceState = "open" /\ TraceState' = "gone")
        <4>1. CASE UNCHANGED <<writer, files>>
          BY <1>2, <1>5, <4>1, StateKept
        <4>2. CASE writer = "attached" /\ writer' = "none"
                   /\ files' \subseteq (files \ {"temp"}) \cup {"partial"}
          BY <1>4, <1>5, <4>2, WithWriter, WriterCloses
        <4> QED BY <2>1, <4>1, <4>2
      <3> QED BY <1>1, <1>2, <2>2, <2>3, <3>1, SampleEnds
    <2>4. CASE ~Sampling
      <3>1. lock = "free"
        BY <2>1, <2>4 DEF Sampling
      <3>2. writer # "attached"
        BY <2>1, <3>1 DEF Parts, LockSound
      <3> QED BY <1>1, <1>2, <1>5, <2>1, <2>2, <2>4, <3>2, StateKept, Unseen
    <2> QED BY <2>3, <2>4
  <1> QED BY <1>6, <1>7

(* The lane gives a start up, and stops.                                   *)
LEMMA StopKeeps ==
  ASSUME Queue, Parts, LaneStep, ~TakeJob,
         \/ Undo \/ UndoJoined \/ UndoJoinTimeout \/ Joined \/ JoinTimeout
         \/ FlushTrace \/ StopCollectors \/ Summarize
  PROVE  [Contract!Next]_(Contract!vars)
  <1>1. UNCHANGED <<abandoned, report>>
    BY InJob
  <1>2. UNCHANGED poll /\ Polling' = Polling
    BY DEF Undo, UndoJoined, UndoJoinTimeout, Joined, JoinTimeout, FlushTrace,
       StopCollectors, Summarize, LeaveRunner, Polling
  <1>3. Unprepared' = Unprepared
    BY DEF Undo, UndoJoined, UndoJoinTimeout, Joined, JoinTimeout, FlushTrace,
       StopCollectors, Summarize, Go, Settle, Unprepared
  <1>4. CASE \/ Undo \/ UndoJoinTimeout \/ Joined \/ JoinTimeout
             \/ StopCollectors \/ Summarize
    <2>1. UNCHANGED <<writer, files, stopReady, lock>> /\ lane # "flush" /\ lane' # "flush"
      BY <1>4 DEF Undo, UndoJoinTimeout, Joined, JoinTimeout, StopCollectors, Summarize,
         Go, Settle, trace, monitorVars
    <2> QED BY <1>1, <1>2, <1>3, <2>1, StateKept, Unseen DEF Sampling
  <1>5. CASE UndoJoined
    <2>1. /\ lane = "undoJoin" /\ lock = "free" /\ UNCHANGED <<stopReady, lock>>
          /\ PreserveIfOpen
      BY <1>5 DEF UndoJoined
    <2>2. ~Sampling /\ ~Sampling'
      BY <2>1 DEF Sampling
    <2>3. CASE writer = "attached"
      <3>1. writer' = "none" /\ "final" \notin files'
        BY <2>1, <2>3, DiscardFacts, InStart DEF StartLanes
      <3> QED BY <1>1, <1>2, <1>3, <2>2, <2>3, <3>1, WriterCloses, IsLost
    <2>4. CASE writer # "attached"
      <3>1. UNCHANGED <<writer, files>>
        BY <2>1, <2>4 DEF PreserveIfOpen, trace
      <3> QED BY <1>1, <1>2, <1>3, <2>1, <2>2, <3>1, StateKept, Unseen
    <2> QED BY <2>3, <2>4
  <1>6. CASE FlushTrace
    <2>1. lane = "flush" /\ lane' = "release" /\ lock' = "free"
      BY <1>6 DEF FlushTrace, Go
    <2>2. ~Sampling /\ ~Sampling'
      BY <2>1 DEF Sampling
    <2>3. ~Polling /\ ~stopReady /\ "final" \notin files
      BY <2>1, InStop DEF StopLanes, Parts, StopSound
    <2>4. CASE writer = "attached" /\ (Discard \/ Preserve)
      <3>1. writer' = "none" /\ "final" \notin files'
        BY <2>3, <2>4, DiscardFacts
      <3> QED BY <1>1, <1>2, <1>3, <2>2, <2>4, <3>1, WriterCloses, IsLost
    <2>5. CASE UNCHANGED <<writer, files>> /\ writer # "attached"
      <3>1. writer = "none"
        BY <2>1, <2>5 DEF Parts, Types, StartSound
      <3> QED BY <1>1, <1>2, <1>3, <2>2, <2>5, <3>1, StateKept, Unseen
    <2>6. CASE /\ UNCHANGED <<writer, files>> /\ writer = "attached"
               /\ ~abandoned /\ stopReady'
      <3>1. TraceState = "open"
        BY <2>3, <2>6, WithWriter
      <3>2. TraceState' = "sealed"
        BY <2>3, <2>6 DEF TraceState
      <3> QED BY <1>1, <1>2, <2>2, <2>3, <2>6, <3>1, <3>2, IsSealed
    <2> QED BY <1>6, <2>4, <2>5, <2>6 DEF FlushTrace, DiscardIfOpen, trace
  <1> QED BY <1>4, <1>5, <1>6

(* The lane takes a job.                                                   *)
LEMMA TakeKeeps ==
  ASSUME Queue, Parts, TakeJob
  PROVE  [Contract!Next]_(Contract!vars)
  <1>1. Head(jobs) \in Job
    BY TakeFacts DEF TakeJob
  <1>2. /\ lane = "idle" /\ lane' \in {"collect", "join", "summary", "closed"}
        /\ UNCHANGED <<finished, stopReady, poll, lock, abandoned, writer, files, report>>
    BY <1>1 DEF TakeJob, Go, Entered, Job, trace
  <1>3. Unprepared' = Unprepared /\ Sampling' = Sampling /\ Polling' = Polling
    BY <1>2 DEF Unprepared, Sampling, Polling
  <1> QED BY <1>2, <1>3, StateKept, Unseen

(* The callback lane.                                                      *)
LEMMA LaneKeeps ==
  ASSUME Queue, Parts, LaneStep
  PROVE  [Contract!Next]_(Contract!vars)
  <1>1. CASE TakeJob
    BY <1>1, TakeKeeps
  <1>2. CASE ~TakeJob
    BY <1>2, StartKeeps, SampleKeeps, StopKeeps DEF LaneStep
  <1> QED BY <1>1, <1>2

-----------------------------------------------------------------------------
(* The refinement.                                                         *)

(* Who got to the trace stays past it.                                     *)
LEMMA PassOnce ==
  ASSUME Queue, Parts, LaneStep, ~TakeJob, Unprepared'
  PROVE  Unprepared
  <1>1. "start" \notin finished
    BY InJob DEF Unprepared
  <1>2. ASSUME lane \in Past PROVE FALSE
    <2>1. lane' \in Past \/ "start" \in finished'
      BY <1>2 DEF LaneStep, StartCollector, PrepareTrace, CheckAbandoned, AttachWriter,
         LaneReads, FirstSample, StartPolling, SwitchPhase, Undo, UndoJoined,
         UndoJoinTimeout, Joined, JoinTimeout, LastSample, FlushTrace, StopCollectors,
         Summarize, Go, Settle, Past, StartLanes
    <2> QED BY <2>1 DEF Unprepared, Past, StartLanes
  <1> QED BY <1>1, <1>2, PreparedOrNot DEF Parts

(* A start that did not get to the trace has no status to report.          *)
LEMMA UntouchedKept ==
  ASSUME Queue, Parts, Untouched, Next
  PROVE  Untouched'
  <1> SUFFICES ASSUME Unprepared', ~abandoned'
               PROVE  artifact' = "unavailable"
    BY DEF Untouched
  <1>1. CASE RunnerStep
    <2>1. UNCHANGED <<lane, finished>>
      BY <1>1 DEF RunnerStep, StartMonitor, EngineFails, StartSettled, StartTimeout,
         MeasurementEnds, StopWaited, SummaryWaited, CloseWaited, Abandon, AbandonLocked,
         AbandonGivesUp, Finalize, FinalizeTimesOut, FinalizeGivesUp, Report,
       LeaveLane, laneVars
    <2>2. Unprepared /\ writer = "none"
      BY <2>1, WithWriter DEF Unprepared
    <2>3. CASE AbandonLocked
      BY <2>3 DEF AbandonLocked, Parts, StopFollows
    <2>4. CASE ~AbandonLocked
      <3>1. UNCHANGED artifact /\ (abandoned => abandoned')
        BY <1>1, <2>2, <2>4 DEF RunnerStep, StartMonitor, EngineFails, StartSettled,
           StartTimeout, MeasurementEnds, StopWaited, SummaryWaited, CloseWaited, Abandon,
           AbandonGivesUp, Finalize, FinalizeTimesOut, FinalizeGivesUp, Report,
           KeepTrace, trace
      <3> QED BY <2>2, <3>1 DEF Untouched
    <2> QED BY <2>3, <2>4
  <1>2. CASE LaneStep
    <2>1. UNCHANGED abandoned
      <3>1. CASE TakeJob
        BY <3>1 DEF TakeJob
      <3> QED BY <1>2, <3>1, InJob
    <2>2. ~PrepareTrace
      BY DEF PrepareTrace, Go, Unprepared
    <2>3. Unprepared
      <3>1. CASE TakeJob
        BY <3>1 DEF TakeJob, Go, Unprepared
      <3>2. CASE ~TakeJob
        BY <1>2, <3>2, PassOnce
      <3> QED BY <3>1, <3>2
    <2>4. writer = "none"
      BY <2>3, WithWriter
    <2>5. UNCHANGED artifact
      BY <1>2, <2>2, <2>3, <2>4
      DEF LaneStep, TakeJob, StartCollector, CheckAbandoned, AttachWriter, LaneReads,
          FirstSample, StartPolling, SwitchPhase, Undo, UndoJoined, UndoJoinTimeout, Joined,
          JoinTimeout, LastSample, FlushTrace, StopCollectors, Summarize, Record,
          DiscardIfOpen, PreserveIfOpen, trace, Unprepared
    <2> QED BY <2>1, <2>3, <2>5 DEF Untouched
  <1>3. CASE PollStep
    <2>1. UNCHANGED <<lane, finished, abandoned>>
      BY <1>3 DEF PollStep, PollDue, PollRead, PollWrite, PollLeaves, PollEnds, LeaveOthers,
         mainVars, laneVars, monitorVars
    <2>2. Unprepared /\ writer = "none"
      BY <2>1, WithWriter DEF Unprepared
    <2>3. UNCHANGED artifact
      BY <1>3, <2>2 DEF PollStep, PollDue, PollRead, PollWrite, PollLeaves, PollEnds,
         Record, DiscardIfOpen, trace
    <2> QED BY <2>1, <2>2, <2>3 DEF Untouched
  <1> QED BY <1>1, <1>2, <1>3 DEF Next

(* A step of the run is a step of the contract, or unseen.                 *)
LEMMA StepKeeps ==
  ASSUME IInv, Untouched, [Next]_vars
  PROVE  [Contract!Next]_(Contract!vars)
  <1>1. CASE Next
    BY <1>1, RunnerKeeps, LaneKeeps, PollKeeps DEF IInv, Next
  <1>2. CASE UNCHANGED vars
    <2>1. UNCHANGED <<lane, finished, stopReady, poll, lock, abandoned, writer, files, report>>
      BY <1>2 DEF vars, mainVars, laneVars, monitorVars, trace
    <2>2. Unprepared' = Unprepared /\ Sampling' = Sampling /\ Polling' = Polling
      BY <2>1 DEF Unprepared, Sampling, Polling
    <2> QED BY <2>1, <2>2, StateKept, Unseen
  <1> QED BY <1>1, <1>2

(* The run begins without a trace.                                         *)
LEMMA InitKeeps == Init => Contract!Init
  <1> SUFFICES ASSUME Init PROVE Contract!Init
    OBVIOUS
  <1>1. Unprepared /\ TraceState = "none" /\ ~Sampling /\ ~Polling
    BY DEF Init, Unprepared, TraceState, Sampling, Polling
  <1> QED BY <1>1 DEF Init, Contract!Init, TraceState, Sampling

(* What a reader of a saved result may rely on: a trace is published once, *)
(* sealed and wanted, and reported complete exactly then.                  *)
THEOREM ContractImplemented == Spec => ImplementsContract
  <1>1. Init => Untouched
    BY DEF Init, Untouched
  <1>2. IInv /\ Untouched /\ [Next]_vars => Untouched'
    <2>1. CASE Next
      BY <2>1, UntouchedKept DEF IInv
    <2>2. CASE UNCHANGED vars
      BY <2>2 DEF vars, laneVars, trace, Untouched, Unprepared
    <2> QED BY <2>1, <2>2
  <1>3. IInv /\ Untouched /\ [Next]_vars => [Contract!Next]_(Contract!vars)
    BY StepKeeps
  <1> QED BY <1>1, <1>2, <1>3, InitKeeps, Invariance, PTL
      DEF Spec, ImplementsContract, Contract!Spec
=============================================================================
