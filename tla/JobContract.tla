----------------------------- MODULE JobContract -----------------------------
(***************************************************************************)
(* What the job queue promises its users, without locks, threads, events   *)
(* and the life of the server: jobs run one at a time and in the order of  *)
(* their creation; a benchmark that is supervised belongs to the job that  *)
(* is in charge, and its row is settled only after it has left the device; *)
(* what the row then says is how the benchmark ended; a finished row stays *)
(* as it is, but for a failure found in the attempt to record it.          *)
(***************************************************************************)
EXTENDS Integers, FiniteSets

CONSTANTS Job, NoJob, MaxQueued

VARIABLES
  row,      \* status of a job
  asked,    \* jobs that were asked to stop while they ran
  current,  \* the job in charge, or NoJob
  device,   \* of a job: "free", or how its supervised benchmark is doing
  verdict   \* how the benchmark of the current job ended, or "none"

vars == <<row, asked, current, device, verdict>>

Finished == {"completed", "failed", "cancelled", "timed_out", "interrupted"}
Free == \A j \in Job : device[j] = "free"
Set(j, s) == row' = [row EXCEPT ![j] = s]

Init ==
  /\ row = [j \in Job |-> "absent"]
  /\ asked = [j \in Job |-> FALSE]
  /\ current = NoJob
  /\ device = [j \in Job |-> "free"]
  /\ verdict = "none"

Submit(j) ==
  /\ row[j] = "absent" /\ \A i \in Job : row[i] = "absent" => j <= i
  /\ Cardinality({i \in Job : row[i] = "queued"}) < MaxQueued
  /\ Set(j, "queued")
  /\ UNCHANGED <<asked, current, device, verdict>>

(* The server may lose the job in the same step.                           *)
Take(j) ==
  /\ current = NoJob /\ Free /\ \A i \in Job : row[i] # "running"
  /\ row[j] = "queued" /\ \A i \in Job : row[i] = "queued" => j <= i
  /\ Set(j, "running")
  /\ current' \in {j, NoJob}
  /\ UNCHANGED <<asked, device, verdict>>

Cancel(j) ==
  /\ \/ row[j] = "queued" /\ Set(j, "cancelled") /\ UNCHANGED asked
     \/ row[j] = "running" /\ asked' = [asked EXCEPT ![j] = TRUE] /\ UNCHANGED row
  /\ UNCHANGED <<current, device, verdict>>

Launch(j) ==
  /\ j = current /\ row[j] = "running" /\ Free
  /\ device' = [device EXCEPT ![j] = "busy"]
  /\ UNCHANGED <<row, asked, current, verdict>>

Ends(j) ==
  /\ device[j] = "busy"
  /\ \E how \in {"good", "bad"} : device' = [device EXCEPT ![j] = how]
  /\ UNCHANGED <<row, asked, current, verdict>>

(* The benchmark is waited for, after it was terminated or has ended.      *)
Reap(j) ==
  /\ device[j] # "free" /\ current = j
  /\ \E v \in {"none", "completed", "failed", "cancelled", "timed_out"} :
       /\ v = "completed" => device[j] = "good"
       /\ v = "failed" => device[j] = "bad"
       /\ verdict' = v
  /\ device' = [device EXCEPT ![j] = "free"]
  /\ UNCHANGED <<row, asked, current>>

(* Stopped by the server, not by a user.                                   *)
Interrupt ==
  /\ verdict = "cancelled" /\ ~asked[current]
  /\ verdict' = "interrupted"
  /\ UNCHANGED <<row, asked, current, device>>

(* The row says how the benchmark ended, that a user did not want it, or   *)
(* that something failed, be it the recording of the former.               *)
Settle(s) ==
  /\ current # NoJob /\ Free
  /\ \/ s = verdict /\ row[current] = "running"
     \/ s = "cancelled" /\ verdict = "none" /\ asked[current] /\ row[current] = "running"
     \/ s = "failed" /\ row[current] \in {"running"} \cup Finished
  /\ Set(current, s)
  /\ verdict' = "none"
  /\ current' \in {current, NoJob}
  /\ UNCHANGED <<asked, device>>

(* The row could not be written, or the job is left.                       *)
Drop ==
  /\ Free
  /\ verdict' = "none"
  /\ current' \in {current, NoJob}
  /\ UNCHANGED <<row, asked, device>>

(* With the server its knowledge is gone; a benchmark may go on, but is    *)
(* not supervised any more.                                                *)
Crash ==
  /\ current' = NoJob /\ verdict' = "none"
  /\ device' = [j \in Job |-> "free"]
  /\ UNCHANGED <<row, asked>>

(* A job that nobody is in charge of is interrupted; old rows are removed. *)
Recover ==
  /\ current = NoJob /\ Free
  /\ \E old \in SUBSET {j \in Job : row[j] \in Finished \cup {"running"}} :
       row' = [j \in Job |-> CASE j \in old -> "pruned"
                               [] j \notin old /\ row[j] = "running" -> "interrupted"
                               [] OTHER -> row[j]]
  /\ UNCHANGED <<asked, current, device, verdict>>

Next ==
  \/ \E j \in Job :
       Submit(j) \/ Take(j) \/ Cancel(j) \/ Launch(j) \/ Ends(j) \/ Reap(j)
  \/ Interrupt
  \/ \E s \in Finished : Settle(s)
  \/ Drop \/ Crash \/ Recover

Spec == Init /\ [][Next]_vars
=============================================================================
