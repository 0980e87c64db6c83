--------------------------- MODULE EngineContract ---------------------------
(***************************************************************************)
(* What AsyncInferenceEngine promises its caller, without slots, workers,  *)
(* batches or deadlines: a request is accepted or rejected, once, and only *)
(* accepted while submission is open; submit() does not contradict that;   *)
(* an accepted request gets its terminal record once; shutdown() says True *)
(* only when nothing accepted is left without one.                         *)
(***************************************************************************)
CONSTANT Request

VARIABLES
  open,    \* requests may still be accepted
  fate,    \* what became of a request
  answer,  \* what submit() said of it
  result   \* what shutdown() said

vars == <<open, fate, answer, result>>

Init ==
  /\ open = TRUE
  /\ fate = [r \in Request |-> "none"]
  /\ answer = [r \in Request |-> "none"]
  /\ result = "none"

(* Whatever fails ends the submissions.                                    *)
MayClose == open' \in {open, FALSE}

Accept(r) ==
  /\ open /\ fate[r] = "none"
  /\ fate' = [fate EXCEPT ![r] = "accepted"]
  /\ MayClose /\ UNCHANGED <<answer, result>>

(* submit() may say so in the same step, or later.                         *)
Reject(S) ==
  /\ \A r \in S : fate[r] = "none"
  /\ fate' = [r \in Request |-> IF r \in S THEN "rejected" ELSE fate[r]]
  /\ \/ UNCHANGED answer
     \/ \E r \in S : answer[r] = "none" /\ answer' = [answer EXCEPT ![r] = "false"]
  /\ MayClose /\ UNCHANGED result

(* True means accepted, False means rejected; an exception leaves it open. *)
Answer(r) ==
  /\ answer[r] = "none"
  /\ \/ fate[r] \in {"accepted", "ended"} /\ answer' = [answer EXCEPT ![r] = "true"]
     \/ fate[r] = "rejected" /\ answer' = [answer EXCEPT ![r] = "false"]
     \/ answer' = [answer EXCEPT ![r] = "raised"]
  /\ MayClose /\ UNCHANGED <<fate, result>>

End(S) ==
  /\ \A r \in S : fate[r] = "accepted"
  /\ fate' = [r \in Request |-> IF r \in S THEN "ended" ELSE fate[r]]
  /\ MayClose /\ UNCHANGED <<answer, result>>

Close ==
  /\ open' = FALSE
  /\ UNCHANGED <<fate, answer, result>>

Shutdown ==
  /\ result = "none" /\ ~open
  /\ \/ result' = "true" /\ \A r \in Request : fate[r] # "accepted"
     \/ result' = "false"
  /\ MayClose /\ UNCHANGED <<fate, answer>>

Next ==
  \/ \E r \in Request : Accept(r) \/ Answer(r)
  \/ \E S \in SUBSET Request : Reject(S) \/ End(S)
  \/ Close \/ Shutdown

Spec == Init /\ [][Next]_vars
=============================================================================
