------------------------- MODULE CompletionContract -------------------------
(***************************************************************************)
(* What CompletionCoordinator promises the engine, without the queue, the  *)
(* thread, the acknowledgements and the waiting: a request is accepted     *)
(* only while the coordinator runs; it is counted at most once, and its    *)
(* terminal is for good; a batch is handed in once, and its execution is   *)
(* given back only when every request of it is over; the coordinator goes  *)
(* away only when nobody waits for a terminal, and stop() says True only   *)
(* then.                                                                   *)
(***************************************************************************)
EXTENDS Naturals

CONSTANTS Request, Batch

VARIABLES
  phase,      \* of a request, between its registration and its terminal
  counted,    \* how often the metrics have counted it
  members,    \* the requests of a batch
  returned,   \* batches whose execution the executor got back
  accepting,  \* the coordinator runs
  gone,       \* its thread has ended
  clean,      \* stop() has said True
  degraded    \* a call to the coordinator's collaborators has raised

vars == <<phase, counted, members, returned, accepting, gone, clean, degraded>>

Init ==
  /\ phase = [r \in Request |-> "none"]
  /\ counted = [r \in Request |-> 0]
  /\ members = [h \in Batch |-> {}]
  /\ returned = {}
  /\ accepting = TRUE
  /\ gone = FALSE /\ clean = FALSE /\ degraded = FALSE

Moves(r, from, to) ==
  /\ phase[r] \in from
  /\ phase' = [phase EXCEPT ![r] = to]
  /\ UNCHANGED <<counted, members, returned, accepting, gone, clean>>

Reserve(r) == accepting /\ Moves(r, {"none"}, "reserved")

Accept(r) == accepting /\ Moves(r, {"reserved"}, "open")

GiveUp(r) == Moves(r, {"reserved"}, "none")

(* The engine rejects a request after all.  Its terminal may be under way  *)
(* already; then it may still come.                                        *)
Withdraw(r) ==
  /\ \A h \in Batch : r \notin members[h]
  /\ \/ counted[r] = 0 /\ Moves(r, {"open"}, "none")
     \/ Moves(r, {"open"}, "withdrawn")

Count(r) ==
  /\ phase[r] \in {"open", "withdrawn"} /\ counted[r] = 0
  /\ counted' = [counted EXCEPT ![r] = 1]
  /\ UNCHANGED <<phase, members, returned, accepting, gone, clean>>

End(r) ==
  /\ counted[r] = 1 \/ degraded
  /\ Moves(r, {"open", "withdrawn"}, "over")

HandIn(h) ==
  /\ members[h] = {}
  /\ \E b \in (SUBSET Request) \ {{}} :
       /\ \A r \in b : phase[r] \in {"open", "withdrawn", "over"}
       /\ members' = [members EXCEPT ![h] = b]
  /\ UNCHANGED <<phase, counted, returned, accepting, gone, clean>>

Over(h) == members[h] # {} /\ \A r \in members[h] : phase[r] = "over"

Return(H) ==
  /\ \A h \in H : Over(h)
  /\ returned' = returned \cup H
  /\ \/ UNCHANGED gone
     \/ gone' = TRUE /\ ~accepting /\ \A r \in Request : phase[r] # "open"
  /\ UNCHANGED <<phase, counted, members, accepting, clean>>

Close ==
  /\ accepting' = FALSE
  /\ UNCHANGED <<phase, counted, members, returned, gone, clean>>

StopSaysTrue ==
  /\ ~accepting /\ \A r \in Request : phase[r] \notin {"reserved", "open"}
  /\ clean' = TRUE
  /\ UNCHANGED <<phase, counted, members, returned, accepting, gone>>

Degrade ==
  /\ degraded' = TRUE
  /\ UNCHANGED <<phase, counted, members, returned, accepting, gone, clean>>

(* A call may raise in the step of its effect.                             *)
Next ==
  /\ degraded' \in BOOLEAN /\ (degraded => degraded')
  /\ \/ \E r \in Request :
          Reserve(r) \/ Accept(r) \/ GiveUp(r) \/ Withdraw(r) \/ Count(r) \/ End(r)
     \/ \E h \in Batch : HandIn(h)
     \/ \E H \in SUBSET Batch : Return(H)
     \/ Close \/ StopSaysTrue \/ Degrade

Spec == Init /\ [][Next]_vars
=============================================================================
