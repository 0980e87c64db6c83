--------------------------- MODULE ResultContract ---------------------------
(***************************************************************************)
(* What the result store promises about reserved runs (the reservation     *)
(* protocol of result_store.py): before a run's row becomes visible the    *)
(* store commits to its content; the row that appears is that content, it  *)
(* appears again only if a user deleted it and the transaction had not     *)
(* been closed, and a closed transaction never writes again.               *)
(***************************************************************************)
CONSTANTS Id,    \* run ids
          Row,   \* contents of a row
          None   \* no row

VARIABLES intent,  \* the content the store has committed to, by run
          row,     \* the row readers see
          closed   \* runs whose transaction is over

vars == <<intent, row, closed>>

Init ==
  /\ intent = [i \in Id |-> None]
  /\ row = [i \in Id |-> None]
  /\ closed = {}

Intend(i) ==
  /\ intent[i] = None
  /\ \E r \in Row : intent' = [intent EXCEPT ![i] = r]
  /\ UNCHANGED <<row, closed>>

Record(i) ==
  /\ intent[i] # None /\ row[i] = None /\ i \notin closed
  /\ row' = [row EXCEPT ![i] = intent[i]]
  /\ UNCHANGED <<intent, closed>>

Close(i) ==
  /\ intent[i] # None
  /\ closed' = closed \cup {i}
  /\ UNCHANGED <<intent, row>>

Delete(i) ==
  /\ row' = [row EXCEPT ![i] = None]
  /\ UNCHANGED <<intent, closed>>

Next == \E i \in Id : Intend(i) \/ Record(i) \/ Close(i) \/ Delete(i)

Spec == Init /\ [][Next]_vars
=============================================================================
