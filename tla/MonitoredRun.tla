---------------------------- MODULE MonitoredRun ----------------------------
(***************************************************************************)
(* A measured pass with its hardware monitor: the callback lane and the    *)
(* bounded waits of core/async_inference/runner.py, start(), stop() and    *)
(* the polling thread of HWMonitor in monitors/base.py, the power trace    *)
(* file of core/power_trace.py, and the decision of main.py to publish or  *)
(* to abandon the trace before the result is saved.                        *)
(*                                                                         *)
(* Three threads: the runner, the callback lane, which runs the monitor's  *)
(* methods one after the other, and the polling thread.  A collector may   *)
(* take any time over any call, so every wait of the runner and every      *)
(* acquire() with a timeout may give up while what it waits for is not     *)
(* there.  One action is one region under _power_attempt_lock or one call; *)
(* a region in which the collector is read is two, taking the lock and     *)
(* writing the sample.  Left out: summaries and their locks, missed        *)
(* deadlines (samples without a reading), the preload session, and trace   *)
(* publication inside stop(), which the asynchronous path always defers.   *)
(* An operation may have a faulty variant in front of it, which the module *)
(* never uses: a plausible mistake, for which a property must fail.        *)
(***************************************************************************)
EXTENDS Naturals, Sequences, FiniteSets

CONSTANTS
  Collector,   \* the monitor's collectors
  MaxFault     \* bound on calls that raise

ASSUME MonitorAssumption == IsFiniteSet(Collector) /\ MaxFault \in Nat

VARIABLES
  \* the runner and main
  run,
  jobs,        \* the lane's queue
  timedOut,    \* job.timed_out
  invalid,     \* the result carries callback_timeout
  report,      \* power_trace_status of the saved result
  late,        \* history: the flag came behind the polling thread's last look
  \* the lane
  lane,
  finished,    \* job.finished
  failed,      \* jobs that ended with a diagnostic
  \* the monitor
  started,     \* _started_collectors
  owned,       \* _thread is not None
  stopEvent,
  poll,        \* the polling thread
  lock,        \* holder of _power_attempt_lock across a collector call
  phase,       \* _power_phase
  stopReady,   \* _power_stop_ready
  abandoned,   \* _power_abandoned
  \* the trace
  writer,      \* "opened" while only _prepare_power_trace() knows it
  files,       \* what the trace directory holds
  artifact,    \* status of _power_artifact
  \* history and bounds
  holding,     \* collectors that hold resources
  loaded,      \* a baseline sample was taken while requests ran
  faults

mainVars == <<run, jobs, timedOut, invalid, report, late>>
laneVars == <<lane, finished, failed>>
monitorVars == <<started, owned, stopEvent, phase, stopReady, holding>>
trace == <<writer, files, artifact>>
vars == <<mainVars, laneVars, monitorVars, poll, lock, abandoned, trace,
          loaded, faults>>

Job == {"start", "stop", "summary", "close"}

Init ==
  /\ run = "engine_start" /\ jobs = <<>> /\ timedOut = {}
  /\ invalid = FALSE /\ report = "none" /\ late = FALSE
  /\ lane = "idle" /\ finished = {} /\ failed = {}
  /\ started = {} /\ owned = FALSE /\ stopEvent = FALSE
  /\ phase = "baseline" /\ stopReady = FALSE /\ holding = {}
  /\ poll = "none" /\ lock = "free" /\ abandoned = FALSE
  /\ writer = "none" /\ files = {} /\ artifact = "unavailable"
  /\ loaded = FALSE /\ faults = 0

Fault == faults < MaxFault /\ faults' = faults + 1
Steady == UNCHANGED faults
Polling == poll \notin {"none", "ended"}
Submit(job) == jobs' = Append(jobs, job)

(* writer.fail(): the temporary file goes, with preserve_partial under     *)
(* another name unless the link fails too.                                 *)
Discard == writer' = "none" /\ artifact' = "failed" /\ files' = files \ {"temp"}
Preserve ==
  /\ writer' = "none" /\ artifact' = "failed"
  /\ \/ files' = (files \ {"temp"}) \cup {"partial"}
     \/ files' = files \ {"temp"}

(* _abort_power_trace().                                                   *)
DiscardIfOpen == IF writer = "attached" THEN Discard ELSE UNCHANGED trace
PreserveIfOpen == IF writer = "attached" THEN Preserve ELSE UNCHANGED trace

(* _record_power_read() in the present phase: a reading that fails is a    *)
(* sample too, a write that fails ends the trace.                          *)
Record(p) ==
  /\ loaded' = (loaded \/ (run = "measuring" /\ p = "baseline"
                             /\ writer = "attached"))
  /\ \/ UNCHANGED trace /\ Steady
     \/ writer = "attached" /\ Preserve /\ Fault

-----------------------------------------------------------------------------
(* The runner.                                                             *)

LeaveLane == UNCHANGED <<laneVars, monitorVars, poll, lock, loaded>>
KeepTrace == UNCHANGED <<trace, abandoned>>

(* start_monitor() after engine.start().                                   *)
StartMonitor ==
  /\ run = "engine_start" /\ run' = "starting" /\ Submit("start")
  /\ LeaveLane /\ KeepTrace /\ Steady /\ UNCHANGED <<timedOut, invalid, report, late>>

EngineFails ==
  /\ run = "engine_start" /\ Fault
  /\ run' = "closing" /\ Submit("close")
  /\ LeaveLane /\ KeepTrace /\ UNCHANGED <<timedOut, invalid, report, late>>

StartSettled ==
  /\ run = "starting" /\ "start" \in finished /\ run' = "measuring"
  /\ LeaveLane /\ KeepTrace /\ Steady
  /\ UNCHANGED <<jobs, timedOut, invalid, report, late>>

StartTimeoutUnmarked ==
  /\ run = "starting" /\ "start" \notin finished /\ run' = "measuring"
  /\ timedOut' = timedOut \cup {"start"} /\ Submit("stop")
  /\ LeaveLane /\ KeepTrace /\ Steady /\ UNCHANGED <<invalid, report, late>>

(* The run goes on without waiting; a stop is queued behind the start.     *)
StartTimeout ==
  /\ run = "starting" /\ "start" \notin finished /\ run' = "measuring"
  /\ timedOut' = timedOut \cup {"start"} /\ invalid' = TRUE /\ Submit("stop")
  /\ LeaveLane /\ KeepTrace /\ Steady /\ UNCHANGED <<report, late>>

(* Producer, close_submission() and flush() are over: stop, or wait for    *)
(* the stop that is queued already.                                        *)
MeasurementEnds ==
  /\ run = "measuring" /\ run' = "stopping"
  /\ IF "start" \in timedOut THEN UNCHANGED jobs ELSE Submit("stop")
  /\ LeaveLane /\ KeepTrace /\ Steady /\ UNCHANGED <<timedOut, invalid, report, late>>

(* A bounded wait for a job: it has ended, or the deadline passes.         *)
Wait(job) ==
  IF job \in finished THEN UNCHANGED <<timedOut, invalid>>
  ELSE timedOut' = timedOut \cup {job} /\ invalid' = TRUE

(* Then engine.shutdown() and monitor.summary(), unless something fatal    *)
(* was met on the way: run() closes the lane and raises.                   *)
StopWaited ==
  /\ run = "stopping" /\ Wait("stop")
  /\ \/ run' = "summary" /\ Submit("summary") /\ Steady
     \/ run' = "raising" /\ Submit("close") /\ Fault
  /\ LeaveLane /\ KeepTrace /\ UNCHANGED <<report, late>>

SummaryWaited ==
  /\ run = "summary" /\ Wait("summary")
  /\ \/ run' = "closing" /\ Steady
     \/ run' = "raising" /\ Fault
  /\ Submit("close")
  /\ LeaveLane /\ KeepTrace /\ UNCHANGED <<report, late>>

(* lane.close() waits for its end or not; then outstanding().              *)
CloseWaited ==
  /\ run \in {"closing", "raising"}
  /\ run' = IF run = "raising" \/ timedOut \ finished # {}
            THEN "abandon" ELSE "finalize"
  /\ LeaveLane /\ KeepTrace /\ Steady
  /\ UNCHANGED <<jobs, timedOut, invalid, report, late>>

(* abandon_power_trace(): the flag first, the lock for 0.1 s afterwards.   *)
Abandon ==
  /\ run = "abandon" /\ run' = "abandoning" /\ abandoned' = TRUE
  /\ LeaveLane /\ Steady /\ UNCHANGED <<jobs, timedOut, invalid, report, late, trace>>

AbandonLocked ==
  /\ run = "abandoning" /\ lock = "free" /\ run' = "reporting"
  /\ IF writer = "attached" THEN Discard
     ELSE /\ artifact' = IF artifact = "complete" THEN artifact ELSE "failed"
          /\ UNCHANGED <<writer, files>>
  /\ LeaveLane /\ Steady
  /\ UNCHANGED <<jobs, timedOut, invalid, report, late, abandoned>>

AbandonGivesUp ==
  /\ run = "abandoning" /\ lock # "free" /\ run' = "reporting"
  /\ LeaveLane /\ KeepTrace /\ Steady
  /\ UNCHANGED <<jobs, timedOut, invalid, report, late>>

PublishUnasked == ~abandoned

(* finalize_power_trace() under the lock: publication by writer.finish(),  *)
(* which takes a published file back when a later step of it raises.       *)
MayPublish == ~abandoned /\ stopReady

Finalize ==
  /\ run = "finalize" /\ lock = "free" /\ run' = "reporting"
  /\ \/ writer # "attached" /\ KeepTrace /\ Steady
     \/ writer = "attached" /\ ~MayPublish /\ abandoned' = TRUE /\ Discard /\ Steady
     \/ /\ writer = "attached" /\ MayPublish /\ UNCHANGED abandoned
        /\ \/ /\ writer' = "none" /\ artifact' = "complete"
              /\ files' = (files \ {"temp"}) \cup {"final"} /\ Steady
           \/ Preserve /\ Fault
  /\ LeaveLane /\ UNCHANGED <<jobs, timedOut, invalid, report, late>>

(* Its acquire has a timeout too.  The flag is set after that, without the *)
(* lock, by when the polling thread may have written, looked and left.     *)
FinalizeTimesOut ==
  /\ run = "finalize" /\ lock # "free" /\ run' = "yielding"
  /\ LeaveLane /\ KeepTrace /\ Steady
  /\ UNCHANGED <<jobs, timedOut, invalid, report, late>>

FinalizeGivesUp ==
  /\ run = "yielding" /\ run' = "reporting"
  /\ abandoned' = TRUE /\ late' = ~Polling
  /\ LeaveLane /\ Steady /\ UNCHANGED <<jobs, timedOut, invalid, report, trace>>

(* power_trace_metadata(), saved with the result.                          *)
Report ==
  /\ run = "reporting" /\ run' = "reported"
  /\ report' = IF abandoned /\ artifact # "complete" THEN "failed" ELSE artifact
  /\ LeaveLane /\ KeepTrace /\ Steady /\ UNCHANGED <<jobs, timedOut, invalid, late>>

RunnerStep ==
  \/ StartMonitor \/ EngineFails \/ StartSettled \/ StartTimeout
  \/ MeasurementEnds \/ StopWaited \/ SummaryWaited \/ CloseWaited
  \/ Abandon \/ AbandonLocked \/ AbandonGivesUp
  \/ Finalize \/ FinalizeTimesOut \/ FinalizeGivesUp \/ Report

-----------------------------------------------------------------------------
(* The callback lane: one job after the other.                             *)

LeaveRunner == UNCHANGED <<mainVars, poll, abandoned>>
Go(step) == lane' = step /\ UNCHANGED <<finished, failed>>
Settle(job, ok) ==
  /\ lane' = "idle" /\ finished' = finished \cup {job}
  /\ failed' = IF ok THEN failed ELSE failed \cup {job}

(* start() is entered once per pass, so it is never refused as "already    *)
(* started"; stop() signals the polling thread if there is anything to     *)
(* stop.                                                                   *)
Entered(job) ==
  CASE job = "start" -> "collect" [] job = "stop" -> "join"
    [] job = "summary" -> "summary" [] job = "close" -> "closed"

TakeJobUnsignalled ==
  /\ lane = "idle" /\ jobs # <<>>
  /\ jobs' = Tail(jobs) /\ Go(Entered(Head(jobs)))
  /\ UNCHANGED <<run, timedOut, invalid, report, late, monitorVars,
                  poll, lock, abandoned, trace, loaded, faults>>

TakeJob ==
  /\ lane = "idle" /\ jobs # <<>>
  /\ jobs' = Tail(jobs) /\ Go(Entered(Head(jobs)))
  /\ stopEvent' = (stopEvent \/ (Head(jobs) = "stop" /\ (owned \/ started # {})))
  /\ UNCHANGED <<run, timedOut, invalid, report, late, started, owned, phase,
                 stopReady, holding, poll, lock, abandoned, trace, loaded, faults>>

StartCollectorLate(c) ==
  /\ lane = "collect" /\ c \notin started
  /\ \/ holding' = holding \cup {c} /\ started' = started \cup {c}
        /\ Go("collect") /\ Steady
     \/ holding' \in {holding, holding \cup {c}} /\ Go("undo") /\ Fault
        /\ UNCHANGED started
  /\ LeaveRunner /\ UNCHANGED <<owned, stopEvent, phase, stopReady, lock, trace, loaded>>

(* One collector.start(); it is a cleanup owner before it is called, for   *)
(* it may acquire resources and raise.                                     *)
StartCollector(c) ==
  /\ lane = "collect" /\ c \notin started
  /\ started' = started \cup {c}
  /\ \/ holding' = holding \cup {c} /\ Go("collect") /\ Steady
     \/ holding' \in {holding, holding \cup {c}} /\ Go("undo") /\ Fault
  /\ LeaveRunner /\ UNCHANGED <<owned, stopEvent, phase, stopReady, lock, trace, loaded>>

(* _prepare_power_trace(): no source of readings, a writer that does not   *)
(* start, or an open temporary file.                                       *)
PrepareTrace ==
  /\ lane = "collect" /\ started = Collector
  /\ \/ /\ ~abandoned /\ writer' = "opened" /\ files' = files \cup {"temp"}
        /\ Go("prepared") /\ Steady /\ UNCHANGED artifact
     \/ /\ ~abandoned /\ artifact' = "unavailable" /\ Go("spawn") /\ Steady
        /\ UNCHANGED <<writer, files>>
     \/ /\ artifact' = "failed" /\ Go("spawn")
        /\ IF abandoned THEN Steady ELSE Fault
        /\ UNCHANGED <<writer, files>>
  /\ LeaveRunner /\ UNCHANGED <<monitorVars, lock, loaded>>

(* The second look at the flag, with the file open, and the hand-over of   *)
(* the writer to the monitor.                                              *)
CheckAbandoned ==
  /\ lane = "prepared"
  /\ IF abandoned THEN Discard /\ Go("spawn") ELSE UNCHANGED trace /\ Go("attach")
  /\ LeaveRunner /\ Steady /\ UNCHANGED <<monitorVars, lock, loaded>>

AttachWriter ==
  /\ lane = "attach" /\ Go("first")
  /\ writer' = "attached" /\ phase' = "baseline"
  /\ LeaveRunner /\ Steady
  /\ UNCHANGED <<started, owned, stopEvent, stopReady, holding, lock, files,
                 artifact, loaded>>

(* A read of the collector with the lock held, at the three places where   *)
(* the lane takes a sample.                                                *)
LaneReads ==
  /\ lane \in {"first", "baseline", "last"} /\ lock = "free"
  /\ \/ writer # "attached" /\ UNCHANGED <<lock, trace>>
        /\ Go(IF lane = "first" THEN "spawn" ELSE IF lane = "last" THEN "release"
              ELSE "switch")
     \/ /\ writer = "attached" /\ lane = "last" /\ abandoned
        /\ Discard /\ Go("release") /\ UNCHANGED lock
     \/ /\ writer = "attached" /\ ~(lane = "last" /\ abandoned)
        /\ lock' = "lane" /\ UNCHANGED trace
        /\ Go(IF lane = "first" THEN "firstSample" ELSE IF lane = "last"
              THEN "lastSample" ELSE "switch")
  /\ LeaveRunner /\ Steady /\ UNCHANGED <<monitorVars, loaded>>

FirstSample ==
  /\ lane = "firstSample" /\ lock' = "free" /\ Record("baseline") /\ Go("spawn")
  /\ LeaveRunner /\ UNCHANGED monitorVars

(* thread.start(); with a trace the baseline is waited for.                *)
StartPolling ==
  /\ lane = "spawn" /\ owned' = TRUE
  /\ \/ /\ poll' = "run" /\ Steady
        /\ IF writer = "attached" THEN Go("baseline") ELSE Settle("start", TRUE)
     \/ Go("undo") /\ Fault /\ UNCHANGED poll
  /\ UNCHANGED <<mainVars, abandoned, started, stopEvent, phase, stopReady,
                 holding, lock, trace, loaded>>

(* The end of the baseline: the phase is switched, begin_inference_summary *)
(* called and a sample forced in one region.                               *)
SwitchPhase ==
  /\ lane = "switch" /\ lock' = "free" /\ phase' = "inference"
  /\ \/ Record("inference") /\ Settle("start", TRUE)
     \/ Go("undo") /\ Fault /\ UNCHANGED <<trace, loaded>>
  /\ LeaveRunner /\ UNCHANGED <<started, owned, stopEvent, stopReady, holding>>

(* The handler of start(): signal, join for 5 s; with the thread gone the  *)
(* trace is aborted and the collectors are stopped, else all is kept for a *)
(* later stop().                                                           *)
Undo ==
  /\ lane = "undo" /\ Go("undoJoin") /\ stopEvent' = TRUE
  /\ LeaveRunner /\ Steady
  /\ UNCHANGED <<started, owned, phase, stopReady, holding, lock, trace, loaded>>

UndoJoined ==
  /\ lane = "undoJoin" /\ ~Polling /\ lock = "free"
  /\ owned' = FALSE /\ PreserveIfOpen /\ Go("undoRelease")
  /\ LeaveRunner /\ Steady
  /\ UNCHANGED <<started, stopEvent, phase, stopReady, holding, lock, loaded>>

UndoJoinTimeout ==
  /\ lane = "undoJoin" /\ Polling /\ Settle("start", FALSE)
  /\ LeaveRunner /\ Steady /\ UNCHANGED <<monitorVars, lock, trace, loaded>>

(* stop(): join for 5 s, or raise and keep everything.                     *)
Joined ==
  /\ lane = "join" /\ ~Polling /\ owned' = FALSE /\ Go("last")
  /\ LeaveRunner /\ Steady
  /\ UNCHANGED <<started, stopEvent, phase, stopReady, holding, lock, trace, loaded>>

JoinTimeout ==
  /\ lane = "join" /\ Polling /\ Settle("stop", FALSE)
  /\ LeaveRunner /\ Steady /\ UNCHANGED <<monitorVars, lock, trace, loaded>>

(* _finish_power_trace() after the last reading: the flag is looked at     *)
(* again, then publication is left to the runner's side.                   *)
LastSample ==
  /\ lane = "lastSample" /\ Record(phase) /\ Go("flush")
  /\ LeaveRunner /\ UNCHANGED <<monitorVars, lock>>

FlushAndPublish ==
  /\ lane = "flush" /\ lock' = "free" /\ Go("release") /\ Steady
  /\ stopReady' = TRUE
  /\ IF writer = "attached"
     THEN /\ writer' = "none" /\ artifact' = "complete"
          /\ files' = (files \ {"temp"}) \cup {"final"}
     ELSE UNCHANGED trace
  /\ LeaveRunner /\ UNCHANGED <<started, owned, stopEvent, phase, holding, loaded>>

FlushWithoutLook ==
  /\ lane = "flush" /\ lock' = "free" /\ Go("release") /\ stopReady' = TRUE
  /\ \/ UNCHANGED trace /\ Steady
     \/ writer = "attached" /\ Preserve /\ Fault
  /\ LeaveRunner /\ UNCHANGED <<started, owned, stopEvent, phase, holding, loaded>>

FlushTrace ==
  /\ lane = "flush" /\ lock' = "free" /\ Go("release")
  /\ IF abandoned THEN DiscardIfOpen /\ Steady /\ UNCHANGED stopReady
     ELSE /\ stopReady' = TRUE
          /\ \/ UNCHANGED trace /\ Steady
             \/ writer = "attached" /\ Preserve /\ Fault
  /\ LeaveRunner /\ UNCHANGED <<started, owned, stopEvent, phase, holding, loaded>>

(* _stop_started_collectors(): all are tried, those that raise are kept.   *)
StopCollectors ==
  /\ lane \in {"release", "undoRelease"}
  /\ \E kept \in SUBSET started :
       /\ started' = kept /\ holding' = holding \ (started \ kept)
       /\ IF kept = {} THEN Steady ELSE Fault
       /\ IF lane = "release" THEN Settle("stop", kept = {}) ELSE Settle("start", FALSE)
  /\ LeaveRunner /\ UNCHANGED <<owned, stopEvent, phase, stopReady, lock, trace, loaded>>

Summarize ==
  /\ lane = "summary" /\ Settle("summary", TRUE)
  /\ LeaveRunner /\ Steady /\ UNCHANGED <<monitorVars, lock, trace, loaded>>

LaneStep ==
  \/ TakeJob \/ (\E c \in Collector : StartCollector(c)) \/ PrepareTrace
  \/ CheckAbandoned \/ AttachWriter \/ LaneReads \/ FirstSample \/ StartPolling
  \/ SwitchPhase \/ Undo \/ UndoJoined \/ UndoJoinTimeout
  \/ Joined \/ JoinTimeout \/ LastSample \/ FlushTrace \/ StopCollectors
  \/ Summarize

-----------------------------------------------------------------------------
(* The polling thread.                                                     *)

LeaveOthers == UNCHANGED <<mainVars, laneVars, monitorVars, abandoned>>

PollDue ==
  /\ poll = "run" /\ ~stopEvent /\ writer = "attached" /\ poll' = "due"
  /\ LeaveOthers /\ Steady /\ UNCHANGED <<lock, trace, loaded>>

(* Under the lock it looks at the writer again, not at the event.          *)
PollRead ==
  /\ poll = "due" /\ lock = "free"
  /\ IF writer = "attached" THEN poll' = "reading" /\ lock' = "poll"
     ELSE poll' = "run" /\ UNCHANGED lock
  /\ LeaveOthers /\ Steady /\ UNCHANGED <<trace, loaded>>

PollWrite ==
  /\ poll = "reading" /\ poll' = "run" /\ lock' = "free" /\ Record(phase)
  /\ LeaveOthers

(* It sees the event; in the finally clause an abandoned trace is          *)
(* aborted.                                                                *)
PollLeaves ==
  /\ poll = "run" /\ stopEvent /\ poll' = "leaving"
  /\ LeaveOthers /\ Steady /\ UNCHANGED <<lock, trace, loaded>>

PollEnds ==
  /\ poll = "leaving" /\ poll' = "ended"
  /\ IF abandoned THEN lock = "free" /\ DiscardIfOpen ELSE UNCHANGED trace
  /\ LeaveOthers /\ Steady /\ UNCHANGED <<lock, loaded>>

PollStep == PollDue \/ PollRead \/ PollWrite \/ PollLeaves \/ PollEnds

Next == RunnerStep \/ LaneStep \/ PollStep
Spec == Init /\ [][Next]_vars

(* The runner's waits have deadlines, so it always moves.                  *)
RunnerFairness == WF_vars(RunnerStep /\ UNCHANGED faults)

(* Collectors return.  Between two reads the polling thread sleeps until   *)
(* its next deadline, so the lane gets the lock.                           *)
CollectorFairness == SF_vars(LaneStep /\ UNCHANGED faults) /\ WF_vars(PollStep /\ UNCHANGED faults)

FairSpec == Spec /\ RunnerFairness /\ CollectorFairness

-----------------------------------------------------------------------------
TypeOK ==
  /\ jobs \in Seq(Job) /\ timedOut \cup finished \cup failed \subseteq Job
  /\ started \cup holding \subseteq Collector
  /\ lock \in {"free", "lane", "poll"}
  /\ writer \in {"none", "opened", "attached"}
  /\ files \subseteq {"temp", "partial", "final"}
  /\ artifact \in {"unavailable", "failed", "complete"}
  /\ report \in {"none", "unavailable", "failed", "complete"}
  /\ faults \in 0..MaxFault

(* The saved result tells what is on disk: a trace reported complete is    *)
(* there, one reported otherwise is not published afterwards by a callback *)
(* that was given up.                                                      *)
ReportMatchesFile ==
  /\ report = "complete" => "final" \in files
  /\ report \in {"failed", "unavailable"} => "final" \notin files

(* A trace is published only after a stop() that ended the polling thread  *)
(* and took the last sample: nothing can be written to it any more.        *)
PublishedIsSealed ==
  "final" \in files => stopReady /\ ~Polling /\ "stop" \in finished

(* A valid result with a complete trace has a baseline taken before the    *)
(* requests ran, although a start that was given up goes on beside them.   *)
BaselineIsQuiet == report = "complete" /\ ~invalid => ~loaded

(* When lane, polling thread and runner have ended, no trace file is left  *)
(* open (its reservation locked), whichever of them had to give up, with   *)
(* one exception, which is the code's: stop() could not end the polling    *)
(* thread, finalize_power_trace() timed out at the lock, and the thread    *)
(* wrote its sample, found no flag and ended before the flag was set.      *)
AllEnded == run = "reported" /\ lane = "closed" /\ ~Polling
NothingLeftOpen ==
  AllEnded =>
    \/ writer = "none" /\ "temp" \notin files
    \/ late /\ "stop" \in failed

(* A lane that has ended has released every collector that took a          *)
(* resource, also one that raised in start(), unless stop() reported an    *)
(* error.                                                                  *)
CollectorsReleased == lane = "closed" => holding = {} \/ "stop" \in failed

(* If the collectors return, the polling thread ends and the lane closes:  *)
(* a monitor whose start was given up does not run on.                     *)
MonitorEnds == <>[]AllEnded

(* start() has not got to the trace.                                       *)
Unprepared ==
  "start" \notin finished /\
  lane \in {"idle", "collect", "join", "last", "lastSample", "flush", "release",
           "summary", "closed"}

(* What the readers of a saved result rely on.  The trace is open from     *)
(* _prepare_power_trace() until its writer is closed, sealed by stop();    *)
(* a sample is taken while the lock is held and it is not yet written.     *)
Contract ==
  INSTANCE TraceContract WITH
    state <- CASE "final" \in files -> "published"
               [] writer # "none" /\ stopReady -> "sealed"
               [] writer # "none" /\ ~stopReady -> "open"
               [] OTHER -> IF Unprepared THEN "none" ELSE "gone",
    sampling <- (lock # "free" /\ lane # "flush"),
    polling <- Polling, givenUp <- abandoned, report <- report
ImplementsContract == Contract!Spec

=============================================================================
