--------------------------- MODULE NativeContract ---------------------------
(***************************************************************************)
(* What NativeAsyncRuntimeExecutor promises to the engine above and to the *)
(* SDK below, without permits, threads or callbacks: at most MaxInflight   *)
(* dispatches hold device resources; the device works only for a dispatch  *)
(* that holds them, at most once; every dispatch is answered once; the     *)
(* resources go back only after the answer and after the device is done;   *)
(* nothing is admitted once closed.                                        *)
(***************************************************************************)
EXTENDS Integers, FiniteSets

CONSTANTS MaxInflight, Token

VARIABLES
  open,      \* new work is admitted
  admitted,  \* dispatches ever admitted
  held,      \* dispatches that hold a slot and their buffers
  begun,     \* dispatches ever handed to the device
  working,   \* dispatches the device works on
  answered   \* dispatches whose caller has its answer

vars == <<open, admitted, held, begun, working, answered>>

Init ==
  /\ open = TRUE
  /\ admitted = {} /\ held = {} /\ begun = {} /\ working = {} /\ answered = {}

Admit(t) ==
  /\ open
  /\ t \notin admitted
  /\ Cardinality(held) < MaxInflight
  /\ admitted' = admitted \cup {t}
  /\ held' = held \cup {t}
  /\ UNCHANGED <<open, begun, working, answered>>

Begin(t) ==
  /\ t \in held \ (begun \cup answered)
  /\ begun' = begun \cup {t}
  /\ working' = working \cup {t}
  /\ UNCHANGED <<open, admitted, held, answered>>

Finish(t) ==
  /\ t \in working
  /\ working' = working \ {t}
  /\ UNCHANGED <<open, admitted, held, begun, answered>>

Answer(t) ==
  /\ t \in held \ answered
  /\ answered' = answered \cup {t}
  /\ UNCHANGED <<open, admitted, held, begun, working>>

Release(t) ==
  /\ t \in (held \cap answered) \ working
  /\ held' = held \ {t}
  /\ UNCHANGED <<open, admitted, begun, working, answered>>

Close ==
  /\ open' = FALSE
  /\ UNCHANGED <<admitted, held, begun, working, answered>>

Next ==
  \/ \E t \in Token : Admit(t) \/ Begin(t) \/ Finish(t) \/ Answer(t) \/ Release(t)
  \/ Close

Spec == Init /\ [][Next]_vars
=============================================================================
