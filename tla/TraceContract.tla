---------------------------- MODULE TraceContract ----------------------------
(***************************************************************************)
(* What a reader of a saved result may rely on about the power trace,      *)
(* without the lane, the lock, the collectors and the waits: a trace is    *)
(* opened once, and not after the run gave it up or has reported; samples  *)
(* are taken one at a time and only into an open trace, and nobody closes  *)
(* it under one; it is sealed when nobody can sample any more, published   *)
(* only then and by a run that did not give it up; and the result says     *)
(* complete for exactly the published trace, to which nothing happens.     *)
(***************************************************************************)

VARIABLES
  state,     \* of the trace file: "none", "open", "sealed", "published", "gone"
  sampling,  \* a sample is being taken
  polling,   \* the polling thread lives
  givenUp,   \* the run does not want the trace any more
  report     \* what the saved result says, or "none"

vars == <<state, sampling, polling, givenUp, report>>

Init ==
  /\ state = "none"
  /\ sampling = FALSE /\ polling = FALSE /\ givenUp = FALSE
  /\ report = "none"

Open ==
  /\ state = "none" /\ ~givenUp /\ report = "none"
  /\ state' = "open"
  /\ UNCHANGED <<sampling, polling, givenUp, report>>

StartsPolling ==
  /\ ~polling /\ state \notin {"sealed", "published"}
  /\ polling' = TRUE
  /\ UNCHANGED <<state, sampling, givenUp, report>>

BeginSample ==
  /\ state = "open" /\ ~sampling
  /\ sampling' = TRUE
  /\ UNCHANGED <<state, polling, givenUp, report>>

(* A sample that cannot be written ends the trace.                         *)
EndSample ==
  /\ sampling
  /\ sampling' = FALSE
  /\ \/ UNCHANGED state
     \/ state = "open" /\ state' = "gone"
  /\ UNCHANGED <<polling, givenUp, report>>

Seal ==
  /\ state = "open" /\ ~sampling /\ ~polling /\ ~givenUp
  /\ state' = "sealed"
  /\ UNCHANGED <<sampling, polling, givenUp, report>>

(* There will be no trace, by a failure or because it is not wanted.  The  *)
(* polling thread may do this as its last act.                             *)
Lose ==
  /\ state \in {"none", "open", "sealed"} /\ ~sampling
  /\ state' = "gone"
  /\ givenUp' \in {givenUp, TRUE} /\ polling' \in {polling, FALSE}
  /\ givenUp # givenUp' => report = "none"
  /\ UNCHANGED <<sampling, report>>

EndsPolling ==
  /\ polling
  /\ polling' = FALSE
  /\ UNCHANGED <<state, sampling, givenUp, report>>

GiveUp ==
  /\ report = "none"
  /\ givenUp' = TRUE
  /\ UNCHANGED <<state, sampling, polling, report>>

Publish ==
  /\ state = "sealed" /\ ~sampling /\ ~polling /\ ~givenUp /\ report = "none"
  /\ state' = "published"
  /\ UNCHANGED <<sampling, polling, givenUp, report>>

(* A trace that is still open was given up: it will not be published.      *)
Report ==
  /\ report = "none"
  /\ \/ state = "published" /\ report' = "complete"
     \/ state \in {"none", "gone"} /\ ~givenUp /\ report' = "unavailable"
     \/ /\ state = "gone" \/ (state # "published" /\ givenUp)
        /\ report' = "failed"
  /\ UNCHANGED <<state, sampling, polling, givenUp>>

Next ==
  \/ Open \/ StartsPolling \/ BeginSample \/ EndSample \/ Seal \/ Lose
  \/ EndsPolling \/ GiveUp \/ Publish \/ Report

Spec == Init /\ [][Next]_vars
=============================================================================
