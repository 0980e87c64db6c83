------------------------- MODULE ResultStoreFaultProofs -------------------------
(***************************************************************************)
(* Proof that one failing file operation loses no measured run, for any    *)
(* processes, any run ids and any number of other failures: the invariant  *)
(* says what is known of a run whose row is not in the CSV yet.            *)
(***************************************************************************)
EXTENDS ResultStoreProofs

Ours == AsyncRun \cup PowerRun

HasRow(i) == csv[i] # <<>> \/ i \in deleted
Lucky == faults <= 1 /\ ~torn
Unsaved(p) == run[p].measured /\ Lucky /\ ~HasRow(run[p].id)

(* A measured run without a row, and at most one operation has failed: it  *)
(* is on its way to its first row, or it has met the failure and repeats   *)
(* the pending row, or replaces a row that was not begun by a failure row. *)
AtRisk(p) ==
  LET i == run[p].id
      r == run[p].row
      pc == run[p].pc
      call == run[p].call
  IN /\ call # "final"
     /\ pc \in {"sidecar", "check", "publish", "write", "failed", "inspect", "fdetails", "crashed"}
     /\ pc \in {"failed", "inspect", "fdetails"} => faults # 0
     /\ pc \in {"check", "publish", "write"} /\ call # "normal" => faults # 0
     /\ pc = "failed" => call = "normal"
     /\ pc \in {"failed", "inspect"} => pending[i] \in {None, NormalRow(p)}
     /\ pc \in {"sidecar", "fdetails"} => pending[i] = None /\ p \in AsyncRun
     /\ pc \in {"check", "publish", "write"} /\ call = "normal" => r = NormalRow(p)
     /\ pc = "check" /\ call # "retry" => pending[i] = None
     /\ pc = "check" /\ call = "retry" =>
          pending[i] = NormalRow(p) /\ r = [NormalRow(p) EXCEPT !.stamp = "retry"]

FaultSound(p) ==
  /\ run[p].pc \in {"start", "measure"} =>
       ~run[p].measured /\ ~run[p].csvOk /\ run[p].call = "normal"
  /\ run[p].measured => run[p].id # None
  /\ run[p].csvOk \/ run[p].pc = "saved" => run[p].id # None /\ HasRow(run[p].id)
  /\ Unsaved(p) => AtRisk(p)

FaultInv == \A p \in Ours : FaultSound(p)

-----------------------------------------------------------------------------
(* Failures are counted, and a torn CSV stays torn.                        *)
Onward == faults \in Nat /\ faults' \in Nat /\ faults <= faults' /\ (torn => torn')

(* A step that leaves a run and its files alone takes nothing from it.     *)
LEMMA Elsewhere ==
  ASSUME NEW p, FaultSound(p), Onward, run'[p] = run[p],
         run[p].id # None =>
           /\ pending'[run[p].id] = pending[run[p].id]
           /\ HasRow(run[p].id) => HasRow(run[p].id)'
  PROVE  FaultSound(p)'
  <1>1. /\ run[p].csvOk \/ run[p].pc = "saved" => run[p].id # None /\ HasRow(run[p].id)'
        /\ run[p].measured => run[p].id # None
    BY DEF FaultSound
  <1>2. ASSUME Unsaved(p)' PROVE AtRisk(p)'
    <2>1. run[p].measured /\ Lucky
      BY <1>2 DEF Unsaved, Lucky, Onward
    <2>2. Unsaved(p)
      BY <1>1, <1>2, <2>1 DEF Unsaved
    <2>3. AtRisk(p) /\ pending'[run[p].id] = pending[run[p].id] /\ (faults # 0 => faults' # 0)
      BY <1>1, <2>1, <2>2 DEF FaultSound, Onward
    <2> QED BY <2>3 DEF AtRisk, NormalRow
  <1> QED BY <1>1, <1>2 DEF FaultSound

(* A step of the run itself: what is left to show of it.                   *)
LEMMA Itself ==
  ASSUME NEW p, FaultSound(p), Onward,
         run'[p].id = run[p].id, run'[p].measured = run[p].measured,
         run'[p].pc \notin {"start", "measure"},
         HasRow(run[p].id) => HasRow(run[p].id)',
         run'[p].csvOk \/ run'[p].pc = "saved" => run[p].id # None /\ HasRow(run[p].id)',
         Unsaved(p) /\ AtRisk(p) /\ Unsaved(p)' => AtRisk(p)'
  PROVE  FaultSound(p)'
  <1>1. Unsaved(p)' => Unsaved(p)
    BY DEF Unsaved, Lucky, Onward
  <1> QED BY <1>1 DEF FaultSound

(* A failure is counted.                                                   *)
LEMMA Counted ==
  ASSUME TypeOK, Fault \/ UNCHANGED faults, torn => torn'
  PROVE  /\ Onward
         /\ Fault => faults' # 0
         /\ Fault /\ Lucky' => faults = 0
  BY ResultStoreAssumption DEF TypeOK, Fault, Onward, Lucky

(* A process goes to another step, and nothing else of it changes.         *)
LEMMA GoesTo ==
  ASSUME TypeOK, NEW p \in Run, NEW s, Goto(p, s)
  PROVE  /\ run'[p].pc = s /\ run'[p].id = run[p].id /\ run'[p].call = run[p].call
         /\ run'[p].row = run[p].row /\ run'[p].measured = run[p].measured
         /\ run'[p].csvOk = run[p].csvOk
  BY DEF TypeOK, Goto

(* A process proposes a row; its flags stay.                               *)
LEMMA StartsTo ==
  ASSUME TypeOK, NEW p \in Run, NEW call, NEW r, StartSave(p, call, r)
  PROVE  /\ run'[p].pc = "check" /\ run'[p].id = run[p].id /\ run'[p].call = call
         /\ run'[p].row = [r EXCEPT !.stamp = call] /\ run'[p].measured = run[p].measured
         /\ run'[p].csvOk = run[p].csvOk
  BY DEF TypeOK, StartSave

(* A run that owns files without a row has no consumed file either.        *)
LEMMA NoRow ==
  ASSUME IInv, NEW i \in Id, ~HasRow(i)
  PROVE  csv[i] = <<>> /\ consumed[i] = None /\ Agree(i) /\ Len(csv[i]) = 0
  BY DEF IInv, Shared, FilesSound, HasRow

-----------------------------------------------------------------------------
(* Steps of the run itself, up to its first save.                          *)

(* A reservation: the run begins.                                          *)
LEMMA ReserveFaults ==
  ASSUME IInv, NEW p \in Ours, FaultSound(p), Reserve(p)
  PROVE  FaultSound(p)'
  <1>1. run[p].pc = "start" /\ p \in Run /\ TypeOK
    BY DEF Reserve, At, Ours, Run, Reserved, IInv
  <1>2. ~run[p].measured /\ ~run[p].csvOk /\ run[p].call = "normal"
    BY <1>1 DEF FaultSound
  <1>3. /\ ~run'[p].measured /\ ~run'[p].csvOk /\ run'[p].call = "normal"
        /\ run'[p].pc \in {"measure", "done"}
    <2>1. CASE Goto(p, "done")
      BY <1>1, <1>2, <2>1, GoesTo
    <2>2. CASE \E i \in Id : run' = [run EXCEPT ![p].id = i, ![p].pc = "measure"]
      BY <1>1, <1>2, <2>2 DEF TypeOK
    <2> QED BY <2>1, <2>2 DEF Reserve
  <1> QED BY <1>3 DEF FaultSound, Unsaved

(* The measurement succeeds: there is something to lose.                   *)
LEMMA MeasuredFaults ==
  ASSUME IInv, NEW p \in Ours, FaultSound(p), Measured(p)
  PROVE  FaultSound(p)'
  <1>1. run[p].pc = "measure" /\ p \in Run /\ p \in Reserved /\ TypeOK
    BY DEF Measured, At, Ours, Run, Reserved, IInv
  <1>2. /\ ~run[p].csvOk /\ run[p].call = "normal" /\ run[p].id \in Id
        /\ pending[run[p].id] = None
    BY <1>1, HasId, ResultStoreAssumption
    DEF FaultSound, Away, IInv, Shared, TruthSound, DetailsTruth
  <1>3. /\ UNCHANGED <<pending, csv, torn, deleted, faults>>
        /\ run'[p].id = run[p].id /\ ~run'[p].csvOk /\ run'[p].call = "normal"
        /\ \/ run'[p].pc = "sidecar" /\ p \in AsyncRun
           \/ run'[p].pc = "check" /\ run'[p].row = NormalRow(p)
    <2>1. UNCHANGED <<pending, csv, torn, deleted, faults>>
      BY DEF Measured, files
    <2>2. CASE p \in PowerRun
      <3>1. run' = [run EXCEPT ![p].measured = TRUE, ![p].call = "normal",
                               ![p].row = NormalRow(p), ![p].pc = "check"]
        BY <2>2 DEF Measured
      <3> QED BY <1>1, <1>2, <2>1, <3>1 DEF TypeOK
    <2>3. CASE p \notin PowerRun
      <3>1. run' = [run EXCEPT ![p].measured = TRUE, ![p].pc = "sidecar"]
        BY <2>3 DEF Measured
      <3> QED BY <1>1, <1>2, <2>1, <2>3, <3>1 DEF TypeOK, Ours
    <2> QED BY <2>2, <2>3
  <1>4. run'[p].id # None
    BY <1>2, <1>3, ResultStoreAssumption
  <1>5. AtRisk(p)'
    BY <1>2, <1>3 DEF AtRisk
  <1> QED BY <1>3, <1>4, <1>5 DEF FaultSound

(* The measurement fails: nothing was measured.                            *)
LEMMA MeasurementFailsFaults ==
  ASSUME IInv, NEW p \in Ours, FaultSound(p), MeasurementFails(p)
  PROVE  FaultSound(p)'
  <1>1. run[p].pc = "measure" /\ p \in Run /\ TypeOK
    BY DEF MeasurementFails, At, Ours, Run, Reserved, IInv
  <1>2. ~run[p].measured /\ ~run[p].csvOk
    BY <1>1 DEF FaultSound
  <1>3. /\ ~run'[p].measured /\ ~run'[p].csvOk
        /\ run'[p].pc \in {"fdetails", "inspect", "frecord", "raised"}
    BY <1>1, <1>2, GoesTo DEF MeasurementFails
  <1> QED BY <1>3 DEF FaultSound, Unsaved

(* The details of the run: if they fail, nothing of its row is begun.      *)
LEMMA SaveDetailsFaults ==
  ASSUME IInv, NEW p \in Ours, FaultSound(p), SaveDetails(p)
  PROVE  FaultSound(p)'
  <1>1. /\ run[p].pc = "sidecar" /\ p \in Run /\ p \in Reserved /\ TypeOK
        /\ UNCHANGED <<pending, csv, torn, deleted>> /\ (Fault \/ UNCHANGED faults)
    BY DEF SaveDetails, At, Ours, Run, Reserved, IInv
  <1>2. run[p].id \in Id /\ pending[run[p].id] = None
    BY <1>1, HasId DEF Away, IInv, Shared, TruthSound, DetailsTruth
  <1>3. /\ run'[p].id = run[p].id /\ run'[p].measured = run[p].measured
        /\ run'[p].csvOk = run[p].csvOk
        /\ \/ /\ run'[p].pc = "check" /\ run'[p].call = "normal"
              /\ run'[p].row = NormalRow(p)
           \/ /\ run'[p].pc = "fdetails" /\ run'[p].call = run[p].call
              /\ p \in AsyncRun /\ Fault
           \/ run'[p].pc = "done" /\ p \notin AsyncRun
    BY <1>1 DEF SaveDetails, TypeOK, Goto
  <1>4. Onward /\ (Fault => faults' # 0)
    BY <1>1, Counted
  <1>5. Unsaved(p) /\ AtRisk(p) => AtRisk(p)'
    BY <1>1, <1>2, <1>3, <1>4 DEF AtRisk
  <1>6. run'[p].csvOk => run[p].id # None /\ HasRow(run[p].id)'
    BY <1>1, <1>3 DEF FaultSound, HasRow
  <1> QED BY <1>1, <1>3, <1>4, <1>5, <1>6, Itself DEF HasRow
(* A run at work: who it is, and what it owns.                             *)
LEMMA AtWork ==
  ASSUME IInv, NEW p \in Ours, run[p].pc \notin Away
  PROVE  /\ p \in Run /\ p \in Reserved /\ TypeOK
         /\ run[p].id \in Id /\ run[p].id # None
  <1>1. p \in Run /\ p \in Reserved
    BY DEF Ours, Run, Reserved
  <1> QED BY <1>1, HasId, ResultStoreAssumption DEF IInv

-----------------------------------------------------------------------------
(* Steps of a save.                                                        *)

(* The decision of a save: a run without a row is never refused one.       *)
LEMMA CheckFaults ==
  ASSUME IInv, NEW p \in Ours, FaultSound(p), Check(p)
  PROVE  FaultSound(p)'
  <1>1. /\ run[p].pc = "check" /\ run[p].pc \notin Away
        /\ UNCHANGED <<pending, csv, torn, deleted>> /\ (Fault \/ UNCHANGED faults)
    BY DEF Check, At, Away, files
  <1>2. PICK i \in Id : i = run[p].id /\ i # None /\ p \in Run /\ TypeOK
    BY <1>1, AtWork
  <1>3. Onward /\ (Fault => faults' # 0) /\ (Fault /\ Lucky' => faults = 0)
    BY <1>1, <1>2, Counted
  <1> DEFINE r == Restamped(i, run[p].row)
  <1>4. /\ run'[p].id = i /\ run'[p].measured = run[p].measured
        /\ run'[p].csvOk = run[p].csvOk /\ run'[p].call = run[p].call
        /\ \/ ~torn /\ run'[p].row = r /\ run'[p].pc = Decision(i, r)
           \/ run'[p].pc = "failed" /\ (torn \/ Fault)
    <2>1. CASE ~torn /\ run' = [run EXCEPT ![p].row = r, ![p].pc = Decision(i, r)]
      <3> HIDE DEF r
      <3> QED BY <1>2, <2>1 DEF TypeOK
    <2>2. CASE Goto(p, "failed") /\ (torn \/ Fault)
      BY <1>2, <2>2, GoesTo
    <2> QED BY <1>2, <2>1, <2>2 DEF Check
  <1>5. Decision(i, r) \in {"failed", "consume", "clear", "publish", "write"}
    BY DEF Decision
  <1>6. ASSUME Unsaved(p), AtRisk(p), Unsaved(p)' PROVE AtRisk(p)'
    <2>1. ~torn /\ csv[i] = <<>> /\ consumed[i] = None /\ Agree(i) /\ ~(Len(csv[i]) > 1)
      BY <1>2, <1>6, NoRow DEF Unsaved, Lucky
    <2>2. CASE run'[p].row = r /\ run'[p].pc = Decision(i, r)
      <3>1. CASE pending[i] = None
        <4>1. r = run[p].row
          BY <2>1, <3>1 DEF Restamped
        <4>2. Decision(i, r) = "publish"
          BY <2>1, <3>1 DEF Decision, Refused
        <4>3. run[p].call # "retry"
          <5>1. NormalRow(p) # None
            BY RowFacts, ResultStoreAssumption
          <5> QED BY <1>1, <1>2, <1>6, <3>1, <5>1 DEF AtRisk
        <4> HIDE DEF r
        <4> QED BY <1>1, <1>2, <1>3, <1>4, <1>6, <2>2, <4>1, <4>2, <4>3
                DEF AtRisk, Onward, Unsaved, Lucky
      <3>2. CASE pending[i] # None
        <4>1. /\ run[p].call = "retry" /\ pending[i] = NormalRow(p)
              /\ run[p].row = [NormalRow(p) EXCEPT !.stamp = "retry"] /\ faults # 0
          BY <1>1, <1>2, <1>6, <3>2 DEF AtRisk
        <4>2. r = NormalRow(p)
          BY <3>2, <4>1 DEF Restamped, NormalRow
        <4>3. Decision(i, r) = "write"
          BY <2>1, <3>2, <4>1, <4>2 DEF Decision, Refused
        <4> HIDE DEF r
        <4>4. faults' # 0
          BY <1>3, <4>1 DEF Onward
        <4> QED BY <1>2, <1>4, <2>2, <4>1, <4>3, <4>4 DEF AtRisk
      <3> QED BY <3>1, <3>2
    <2>3. CASE run'[p].pc = "failed" /\ Fault
      <3>1. faults = 0 /\ faults' # 0
        BY <1>3, <1>6, <2>3 DEF Unsaved
      <3>2. run[p].call = "normal" /\ pending[i] = None
        BY <1>1, <1>2, <1>6, <3>1 DEF AtRisk
      <3> QED BY <1>1, <1>2, <1>4, <2>3, <3>1, <3>2 DEF AtRisk
    <2> HIDE DEF r
    <2> QED BY <1>4, <2>1, <2>2, <2>3
  <1> HIDE DEF r
  <1>7. run'[p].csvOk \/ run'[p].pc = "saved" => run[p].id # None /\ HasRow(run[p].id)'
    BY <1>1, <1>2, <1>4, <1>5 DEF FaultSound, HasRow
  <1>8. run'[p].pc \notin {"start", "measure"}
    BY <1>4, <1>5
  <1> QED BY <1>1, <1>2, <1>3, <1>4, <1>6, <1>7, <1>8, Itself DEF HasRow

(* The pending file: without it, or with it, the row can be repeated.      *)
LEMMA PublishPendingFaults ==
  ASSUME IInv, NEW p \in Ours, FaultSound(p), PublishPending(p)
  PROVE  FaultSound(p)'
  <1>1. /\ run[p].pc = "publish" /\ run[p].pc \notin Away /\ run[p].pc \in Saving
        /\ UNCHANGED <<csv, torn, deleted>> /\ (Fault \/ UNCHANGED faults)
    BY DEF PublishPending, At, Away, Saving
  <1>2. PICK i \in Id : i = run[p].id /\ i # None /\ p \in Run /\ TypeOK
    BY <1>1, AtWork
  <1>3. Onward /\ (Fault => faults' # 0) /\ (Fault /\ Lucky' => faults = 0)
    BY <1>1, <1>2, Counted
  <1>4. pending[i] = None
    BY <1>1, <1>2, SaveFacts DEF SaveSound
  <1>5. /\ run'[p].id = i /\ run'[p].measured = run[p].measured
        /\ run'[p].csvOk = run[p].csvOk /\ run'[p].call = run[p].call
        /\ run'[p].row = run[p].row /\ pending'[i] \in {None, run[p].row}
        /\ \/ run'[p].pc = "write"
           \/ run'[p].pc = "failed" /\ Fault
    BY <1>2, <1>4, GoesTo DEF PublishPending, MayDo, TypeOK
  <1>6. ASSUME Unsaved(p), AtRisk(p), Unsaved(p)' PROVE AtRisk(p)'
    <2>1. CASE run'[p].pc = "write"
      BY <1>1, <1>2, <1>3, <1>5, <1>6, <2>1 DEF AtRisk, Onward
    <2>2. CASE run'[p].pc = "failed" /\ Fault
      <3>1. faults = 0 /\ faults' # 0
        BY <1>3, <1>6, <2>2 DEF Unsaved
      <3>2. run[p].call = "normal" /\ run[p].row = NormalRow(p)
        BY <1>1, <1>6, <3>1 DEF AtRisk
      <3> QED BY <1>5, <2>2, <3>1, <3>2 DEF AtRisk
    <2> QED BY <1>5, <2>1, <2>2
  <1>7. run'[p].csvOk \/ run'[p].pc = "saved" => run[p].id # None /\ HasRow(run[p].id)'
    BY <1>1, <1>2, <1>5 DEF FaultSound, HasRow
  <1> QED BY <1>1, <1>2, <1>3, <1>5, <1>6, <1>7, Itself DEF HasRow

(* The row: a failing write leaves the pending file for the repetition.    *)
LEMMA WriteRowFaults ==
  ASSUME IInv, NEW p \in Ours, FaultSound(p), WriteRow(p)
  PROVE  FaultSound(p)'
  <1>1. /\ run[p].pc = "write" /\ run[p].pc \notin Away /\ run[p].pc \in Saving
        /\ UNCHANGED <<pending, torn, deleted>> /\ (Fault \/ UNCHANGED faults)
    BY DEF WriteRow, At, Away, Saving
  <1>2. PICK i \in Id : i = run[p].id /\ i # None /\ p \in Run /\ TypeOK
    BY <1>1, AtWork
  <1>3. Onward /\ (Fault => faults' # 0) /\ (Fault /\ Lucky' => faults = 0)
    BY <1>1, <1>2, Counted
  <1>4. csv[i] = <<>> /\ pending[i] = run[p].row /\ Append(csv[i], run[p].row) # <<>>
    <2>1. csv[i] = <<>> /\ pending[i] = run[p].row
      BY <1>1, <1>2, SaveFacts DEF SaveSound
    <2> QED BY <2>1
  <1>5. /\ run'[p].id = i /\ run'[p].measured = run[p].measured
        /\ run'[p].csvOk = run[p].csvOk /\ run'[p].call = run[p].call
        /\ run'[p].row = run[p].row
        /\ \/ run'[p].pc \in {"consume", "failed"} /\ csv'[i] # <<>>
           \/ run'[p].pc = "failed" /\ Fault /\ UNCHANGED csv
    BY <1>2, <1>4, GoesTo DEF WriteRow, MayDo, TypeOK
  <1>6. ASSUME Unsaved(p), AtRisk(p), Unsaved(p)' PROVE AtRisk(p)'
    <2>1. run'[p].pc = "failed" /\ Fault
      BY <1>5, <1>6 DEF Unsaved, HasRow
    <2>2. faults = 0 /\ faults' # 0
      BY <1>3, <1>6, <2>1 DEF Unsaved
    <2>3. run[p].call = "normal" /\ run[p].row = NormalRow(p)
      BY <1>1, <1>6, <2>2 DEF AtRisk
    <2> QED BY <1>1, <1>4, <1>5, <2>1, <2>2, <2>3 DEF AtRisk
  <1>7. HasRow(i) => HasRow(i)'
    BY <1>1, <1>4, <1>5 DEF HasRow
  <1>8. run'[p].csvOk \/ run'[p].pc = "saved" => run[p].id # None /\ HasRow(run[p].id)'
    BY <1>2, <1>5, <1>7 DEF FaultSound
  <1> QED BY <1>2, <1>3, <1>5, <1>6, <1>7, <1>8, Itself

(* The consumed file and the end of the pending one: the row is there.     *)
LEMMA EndOfSaveFaults ==
  ASSUME IInv, NEW p \in Ours, FaultSound(p), PublishConsumed(p) \/ ClearPending(p)
  PROVE  FaultSound(p)'
  <1>1. /\ run[p].pc \in {"consume", "clear"} /\ run[p].pc \notin Away
        /\ run[p].pc \in Saving
        /\ UNCHANGED <<csv, torn, deleted>> /\ (Fault \/ UNCHANGED faults)
    BY DEF PublishConsumed, ClearPending, At, Away, Saving
  <1>2. PICK i \in Id : i = run[p].id /\ i # None /\ p \in Run /\ TypeOK
    BY <1>1, AtWork
  <1>3. Onward
    BY <1>1, <1>2, Counted
  <1>4. HasRow(i)
    BY <1>1, <1>2, SaveFacts DEF SaveSound, HasRow
  <1>5. /\ run'[p].id = i /\ run'[p].measured = run[p].measured
        /\ run'[p].pc \in {"clear", "saved", "failed"}
    BY <1>2, GoesTo DEF PublishConsumed, ClearPending
  <1>6. HasRow(i)'
    BY <1>1, <1>4 DEF HasRow
  <1> QED BY <1>2, <1>3, <1>5, <1>6, Itself DEF Unsaved

(* A save returns: the row is there.                                       *)
LEMMA SavedFaults ==
  ASSUME IInv, NEW p \in Ours, FaultSound(p), Saved(p)
  PROVE  FaultSound(p)'
  <1>1. /\ run[p].pc = "saved" /\ run[p].pc \notin Away
        /\ UNCHANGED <<csv, torn, deleted, faults>>
    BY DEF Saved, At, Away, files
  <1>2. PICK i \in Id : i = run[p].id /\ i # None /\ p \in Run /\ TypeOK
    BY <1>1, AtWork
  <1>3. Onward
    BY <1>1, <1>2, Counted
  <1>4. HasRow(i)
    BY <1>1, <1>2 DEF FaultSound
  <1>5. /\ run'[p].id = i /\ run'[p].measured = run[p].measured
        /\ run'[p].pc \in {"done", "fdetails", "frecord", "raised"}
    <2>1. CASE run' = [run EXCEPT ![p].csvOk = TRUE, ![p].announced = TRUE, ![p].pc = "done"]
      BY <1>2, <2>1 DEF TypeOK
    <2>2. CASE \E s \in {"fdetails", "frecord"} :
                 run' = [run EXCEPT ![p].csvOk = TRUE, ![p].pc = s]
      BY <1>2, <2>2 DEF TypeOK
    <2>3. CASE \E b \in BOOLEAN, s \in {"raised", "done"} :
                 run' = [run EXCEPT ![p].announced = b, ![p].pc = s]
      BY <1>2, <2>3 DEF TypeOK
    <2> QED BY <2>1, <2>2, <2>3 DEF Saved
  <1>6. HasRow(i)'
    BY <1>1, <1>4 DEF HasRow
  <1> QED BY <1>2, <1>3, <1>5, <1>6, Itself DEF Unsaved

(* A save raises: a run without a row looks into it.                       *)
LEMMA SaveFailsFaults ==
  ASSUME IInv, NEW p \in Ours, FaultSound(p), SaveFails(p)
  PROVE  FaultSound(p)'
  <1>1. /\ run[p].pc = "failed" /\ run[p].pc \notin Away
        /\ UNCHANGED <<pending, csv, torn, deleted, faults>>
    BY DEF SaveFails, At, Away, files
  <1>2. PICK i \in Id : i = run[p].id /\ i # None /\ p \in Run /\ TypeOK
    BY <1>1, AtWork
  <1>3. Onward
    BY <1>1, <1>2, Counted
  <1>4. p \notin ServerRun /\ (p \in AsyncRun \/ p \in PowerRun)
    BY ResultStoreAssumption DEF Ours
  <1>5. /\ run'[p].id = i /\ run'[p].measured = run[p].measured
        /\ run'[p].csvOk = run[p].csvOk /\ run'[p].call = run[p].call
        /\ run'[p].row = run[p].row
        /\ run'[p].pc \in {"inspect", "fdetails", "frecord", "done", "raised"}
        /\ run[p].call = "normal" => run'[p].pc = "inspect"
    <2>1. CASE run[p].call = "normal"
      <3>1. Goto(p, "inspect")
        BY <1>4, <2>1 DEF SaveFails
      <3> QED BY <1>2, <3>1, GoesTo
    <2>2. CASE run' = [run EXCEPT ![p].recover = TRUE, ![p].pc = "frecord"]
               /\ run[p].call # "normal"
      BY <1>2, <2>2 DEF TypeOK
    <2>3. CASE (\E s \in {"fdetails", "done", "raised"} : Goto(p, s))
               /\ run[p].call # "normal"
      BY <1>2, <2>3, GoesTo
    <2> QED BY <1>4, <2>1, <2>2, <2>3 DEF SaveFails
  <1>6. Unsaved(p) /\ AtRisk(p) => AtRisk(p)'
    BY <1>1, <1>2, <1>5 DEF AtRisk
  <1>7. run'[p].csvOk \/ run'[p].pc = "saved" => run[p].id # None /\ HasRow(run[p].id)'
    BY <1>1, <1>2, <1>5 DEF FaultSound, HasRow
  <1>8. HasRow(i) => HasRow(i)'
    BY <1>1 DEF HasRow
  <1> QED BY <1>2, <1>3, <1>5, <1>6, <1>7, <1>8, Itself

(* A failed save is looked into: a pending row is repeated, and one that   *)
(* was not begun is given up for a failure row.                            *)
LEMMA InspectFaults ==
  ASSUME IInv, NEW p \in Ours, FaultSound(p), Inspect(p)
  PROVE  FaultSound(p)'
  <1>1. /\ run[p].pc = "inspect" /\ run[p].pc \notin Away
        /\ UNCHANGED <<pending, consumed, csv, torn, deleted>> /\ (Fault \/ UNCHANGED faults)
    BY DEF Inspect, At, Away, files
  <1>2. PICK i \in Id : i = run[p].id /\ i # None /\ p \in Run /\ TypeOK
    BY <1>1, AtWork
  <1>3. Onward /\ (Fault /\ Lucky' => faults = 0)
    BY <1>1, <1>2, Counted
  <1>4. PICK s \in {"retry", "failure", "consumed", "fdetails", "raised"} :
          /\ run'[p].id = i /\ run'[p].measured = run[p].measured
          /\ \/ /\ s = "retry" /\ pending[i] # None
                /\ StartSave(p, "retry", NormalRow(p))
             \/ /\ s = "failure" /\ pending[i] = None
                /\ StartSave(p, "failure", FailureRow(FALSE, FALSE))
             \/ /\ s = "consumed" /\ consumed[i] # None /\ run'[p].pc = "fdetails"
             \/ /\ s = "fdetails" /\ p \in AsyncRun /\ Goto(p, "fdetails")
                /\ pending[i] = None \/ ~Inspectable(i) \/ Fault
             \/ /\ s = "raised" /\ Goto(p, "raised")
                /\ \/ pending[i] # None /\ ~run[p].measured
                   \/ consumed[i] # None \/ ~Inspectable(i) \/ Fault
    <2>1. CASE run' = [run EXCEPT ![p].csvOk = TRUE, ![p].pc = "fdetails"]
               /\ ResultState(i) = "consumed"
      <3>1. /\ run'[p].id = i /\ run'[p].measured = run[p].measured
            /\ run'[p].pc = "fdetails" /\ consumed[i] # None
        BY <1>2, <2>1 DEF TypeOK, ResultState
      <3> WITNESS "consumed" \in {"retry", "failure", "consumed", "fdetails", "raised"}
      <3> QED BY <3>1
    <2>2. CASE StartSave(p, "retry", NormalRow(p)) /\ ResultState(i) = "pending"
      <3>1. run'[p].id = i /\ run'[p].measured = run[p].measured /\ pending[i] # None
        BY <1>2, <2>2, StartsTo DEF ResultState
      <3> WITNESS "retry" \in {"retry", "failure", "consumed", "fdetails", "raised"}
      <3> QED BY <2>2, <3>1
    <2>3. CASE /\ StartSave(p, "failure", FailureRow(FALSE, FALSE))
               /\ ResultState(i) = "active"
      <3>1. run'[p].id = i /\ run'[p].measured = run[p].measured /\ pending[i] = None
        BY <1>2, <2>3, StartsTo DEF ResultState
      <3> WITNESS "failure" \in {"retry", "failure", "consumed", "fdetails", "raised"}
      <3> QED BY <2>3, <3>1
    <2>4. CASE /\ Goto(p, "fdetails") /\ p \in AsyncRun
               /\ ResultState(i) \notin {"pending", "consumed"} \/ ~Inspectable(i) \/ Fault
      <3>1. /\ run'[p].id = i /\ run'[p].measured = run[p].measured
            /\ pending[i] = None \/ ~Inspectable(i) \/ Fault
        BY <1>2, <2>4, GoesTo DEF ResultState
      <3> WITNESS "fdetails" \in {"retry", "failure", "consumed", "fdetails", "raised"}
      <3> QED BY <2>4, <3>1
    <2>5. CASE /\ Goto(p, "raised")
               /\ \/ /\ ResultState(i) # "active"
                     /\ ~(ResultState(i) = "pending" /\ run[p].measured)
                  \/ ~Inspectable(i) \/ Fault
      <3>1. /\ run'[p].id = i /\ run'[p].measured = run[p].measured
            /\ \/ pending[i] # None /\ ~run[p].measured
               \/ consumed[i] # None \/ ~Inspectable(i) \/ Fault
        BY <1>2, <2>5, GoesTo DEF ResultState
      <3> WITNESS "raised" \in {"retry", "failure", "consumed", "fdetails", "raised"}
      <3> QED BY <2>5, <3>1
    <2> QED BY <1>2, <2>1, <2>2, <2>3, <2>4, <2>5
            DEF Inspect, InspectAsync, InspectPower
  <1>5. consumed[i] # None => HasRow(i)
    BY DEF IInv, Shared, FilesSound, HasRow
  <1>6. ASSUME Unsaved(p), AtRisk(p), Unsaved(p)' PROVE AtRisk(p)'
    <2>1. /\ run[p].measured /\ ~torn /\ csv[i] = <<>> /\ consumed[i] = None
          /\ Agree(i) /\ Len(csv[i]) <= 1
      BY <1>2, <1>6, NoRow DEF Unsaved, Lucky
    <2>2. Inspectable(i)
      BY <2>1 DEF Inspectable
    <2>3. faults # 0 /\ ~Fault /\ faults' # 0
      BY <1>1, <1>3, <1>6 DEF AtRisk, Unsaved, Onward
    <2>4. pending[i] \in {None, NormalRow(p)} /\ run[p].call # "final"
      BY <1>1, <1>2, <1>6 DEF AtRisk
    <2>5. CASE StartSave(p, "retry", NormalRow(p)) /\ pending[i] # None
      <3>1. /\ run'[p].pc = "check" /\ run'[p].id = i /\ run'[p].call = "retry"
            /\ run'[p].row = [NormalRow(p) EXCEPT !.stamp = "retry"]
        BY <1>2, <2>5, StartsTo
      <3> QED BY <1>1, <2>3, <2>4, <2>5, <3>1 DEF AtRisk
    <2>6. CASE StartSave(p, "failure", FailureRow(FALSE, FALSE)) /\ pending[i] = None
      <3>1. run'[p].pc = "check" /\ run'[p].id = i /\ run'[p].call = "failure"
        BY <1>2, <2>6, StartsTo
      <3> QED BY <1>1, <2>3, <2>6, <3>1 DEF AtRisk
    <2>7. CASE Goto(p, "fdetails") /\ p \in AsyncRun /\ pending[i] = None
      <3>1. run'[p].pc = "fdetails" /\ run'[p].id = i /\ run'[p].call = run[p].call
        BY <1>2, <2>7, GoesTo
      <3> QED BY <1>1, <2>3, <2>4, <2>7, <3>1 DEF AtRisk
    <2> QED BY <1>4, <2>1, <2>2, <2>3, <2>5, <2>6, <2>7
  <1>7. HasRow(i) => HasRow(i)'
    BY <1>1 DEF HasRow
  <1>8. /\ run'[p].pc \in {"check", "fdetails", "raised"}
        /\ run'[p].csvOk => run[p].csvOk \/ consumed[i] # None
    BY <1>2, <1>4, GoesTo, StartsTo
  <1>9. run'[p].csvOk \/ run'[p].pc = "saved" => run[p].id # None /\ HasRow(run[p].id)'
    BY <1>2, <1>4, <1>5, <1>7, <1>8 DEF FaultSound
  <1> QED BY <1>2, <1>3, <1>4, <1>6, <1>7, <1>8, <1>9, Itself

-----------------------------------------------------------------------------
(* Steps of the failure path, and the end.                                 *)

(* What the failure path writes: a failure row, unless a row is committed. *)
LEMMA FailureSaveTo ==
  ASSUME TypeOK, NEW p \in Run, NEW d \in BOOLEAN, NEW c \in BOOLEAN, FailureSave(p, d, c)
  PROVE  /\ run'[p].id = run[p].id /\ run'[p].measured = run[p].measured
         /\ run'[p].csvOk = run[p].csvOk
         /\ run'[p].pc = IF run[p].csvOk THEN "frecord" ELSE "check"
         /\ run'[p].call = IF run[p].call = "final" THEN "final" ELSE "failure"
  <1>1. PICK s, k, r : /\ s = (IF run[p].csvOk THEN "frecord" ELSE "check")
                       /\ k = (IF run[p].call = "final" THEN "final" ELSE "failure")
                       /\ run' = [run EXCEPT ![p].detailsOk = d, ![p].recover = c,
                                             ![p].pc = s, ![p].call = k, ![p].row = r]
    BY DEF FailureSave
  <1>2. /\ run'[p].id = run[p].id /\ run'[p].measured = run[p].measured
        /\ run'[p].csvOk = run[p].csvOk /\ run'[p].pc = s /\ run'[p].call = k
    BY <1>1 DEF TypeOK
  <1> QED BY <1>1, <1>2

(* The failure details, and the failure row that follows.                  *)
LEMMA FailureDetailsFaults ==
  ASSUME IInv, NEW p \in Ours, FaultSound(p), FailureDetails(p)
  PROVE  FaultSound(p)'
  <1>1. /\ run[p].pc = "fdetails" /\ run[p].pc \notin Away
        /\ UNCHANGED <<pending, csv, torn, deleted>> /\ (Fault \/ UNCHANGED faults)
    BY DEF FailureDetails, At, Away
  <1>2. PICK i \in Id : i = run[p].id /\ i # None /\ p \in Run /\ TypeOK
    BY <1>1, AtWork
  <1>3. Onward
    BY <1>1, <1>2, Counted
  <1>4. PICK d \in BOOLEAN, c \in BOOLEAN : FailureSave(p, d, c)
    <2>1. run[p].csvOk \in BOOLEAN
      BY <1>2 DEF TypeOK
    <2> QED BY <2>1 DEF FailureDetails
  <1>5. /\ run'[p].id = i /\ run'[p].measured = run[p].measured
        /\ run'[p].csvOk = run[p].csvOk
        /\ run'[p].pc = IF run[p].csvOk THEN "frecord" ELSE "check"
        /\ run'[p].call = IF run[p].call = "final" THEN "final" ELSE "failure"
    BY <1>2, <1>4, FailureSaveTo
  <1>6. HasRow(i) => HasRow(i)'
    BY <1>1 DEF HasRow
  <1>7. ASSUME Unsaved(p), AtRisk(p), Unsaved(p)' PROVE AtRisk(p)'
    <2>1. ~run[p].csvOk
      BY <1>2, <1>7 DEF FaultSound, Unsaved
    <2>2. /\ faults # 0 /\ pending'[i] = None /\ faults' # 0
          /\ run'[p].pc = "check" /\ run'[p].call = "failure"
      BY <1>1, <1>2, <1>3, <1>5, <1>7, <2>1 DEF AtRisk, Onward, Unsaved, Lucky
    <2> QED BY <1>5, <2>2 DEF AtRisk
  <1>8. run'[p].csvOk \/ run'[p].pc = "saved" => run[p].id # None /\ HasRow(run[p].id)'
    BY <1>2, <1>5, <1>6 DEF FaultSound
  <1> QED BY <1>2, <1>3, <1>5, <1>6, <1>7, <1>8, Itself

(* The recovery record: the row is in the CSV by now.                      *)
LEMMA FailureRecordFaults ==
  ASSUME IInv, NEW p \in Ours, FaultSound(p), FailureRecord(p)
  PROVE  FaultSound(p)'
  <1>1. /\ run[p].pc = "frecord" /\ run[p].pc \notin Away
        /\ UNCHANGED <<pending, csv, torn, deleted>> /\ (Fault \/ UNCHANGED faults)
    BY DEF FailureRecord, At, Away
  <1>2. PICK i \in Id : i = run[p].id /\ i # None /\ p \in Run /\ TypeOK
    BY <1>1, AtWork
  <1>3. Onward
    BY <1>1, <1>2, Counted
  <1>4. PICK b \in BOOLEAN, s \in {"done", "raised"} :
          run' = [run EXCEPT ![p].announced = b, ![p].pc = s]
    <2>1. p \notin ServerRun
      BY ResultStoreAssumption DEF Ours
    <2>2. PICK ok \in BOOLEAN : AfterRecord(p, ok)
      <3>1. run[p].detailsOk \in BOOLEAN
        BY <1>2 DEF TypeOK
      <3> QED BY <3>1 DEF FailureRecord
    <2>3. run' = [run EXCEPT ![p].announced = run[p].csvOk /\ ok,
                            ![p].pc = IF run[p].call = "final" THEN "done" ELSE "raised"]
      BY <2>1, <2>2 DEF AfterRecord
    <2> QED BY <2>3
  <1>5. /\ run'[p].id = i /\ run'[p].measured = run[p].measured
        /\ run'[p].csvOk = run[p].csvOk /\ run'[p].pc \in {"done", "raised"}
    BY <1>2, <1>4 DEF TypeOK
  <1>6. HasRow(i) => HasRow(i)'
    BY <1>1 DEF HasRow
  <1>7. ~(Unsaved(p) /\ AtRisk(p))
    BY <1>1 DEF AtRisk
  <1>8. run'[p].csvOk \/ run'[p].pc = "saved" => run[p].id # None /\ HasRow(run[p].id)'
    BY <1>2, <1>5, <1>6 DEF FaultSound
  <1> QED BY <1>2, <1>3, <1>5, <1>6, <1>7, <1>8, Itself

(* The exception leaves the benchmark: a measured run has its row.         *)
LEMMA UnwindFaults ==
  ASSUME IInv, NEW p \in Ours, FaultSound(p), Unwind(p)
  PROVE  FaultSound(p)'
  <1>1. /\ run[p].pc = "raised" /\ run[p].pc \notin Away
        /\ UNCHANGED <<pending, csv, torn, deleted>> /\ (Fault \/ UNCHANGED faults)
    BY DEF Unwind, At, Away, files
  <1>2. PICK i \in Id : i = run[p].id /\ i # None /\ p \in Run /\ TypeOK
    BY <1>1, AtWork
  <1>3. Onward
    BY <1>1, <1>2, Counted
  <1>4. /\ run'[p].id = i /\ run'[p].measured = run[p].measured
        /\ run'[p].csvOk => run[p].csvOk
        /\ run'[p].pc \in {"done", "check", "fdetails"}
    <2>1. CASE Goto(p, "done")
      BY <1>2, <2>1, GoesTo
    <2>2. CASE StartSave(p, "final", FailureRow(FALSE, FALSE))
      BY <1>2, <2>2, StartsTo
    <2>3. CASE run' = [run EXCEPT ![p].call = "final", ![p].csvOk = FALSE,
                         ![p].detailsOk = FALSE, ![p].recover = FALSE, ![p].pc = "fdetails"]
      BY <1>2, <2>3 DEF TypeOK
    <2> QED BY <2>1, <2>2, <2>3 DEF Unwind
  <1>5. HasRow(i) => HasRow(i)'
    BY <1>1 DEF HasRow
  <1>6. ~(Unsaved(p) /\ AtRisk(p))
    BY <1>1 DEF AtRisk
  <1>7. run'[p].csvOk \/ run'[p].pc = "saved" => run[p].id # None /\ HasRow(run[p].id)'
    BY <1>2, <1>4, <1>5 DEF FaultSound
  <1> QED BY <1>2, <1>3, <1>4, <1>5, <1>6, <1>7, Itself

(* A process dies.                                                         *)
LEMMA CrashFaults ==
  ASSUME IInv, NEW p \in Ours, FaultSound(p), Crash(p)
  PROVE  FaultSound(p)'
  <1>1. /\ run[p].pc \notin Away
        /\ UNCHANGED <<pending, csv, torn, deleted, faults>>
    BY DEF Crash, Away, files
  <1>2. PICK i \in Id : i = run[p].id /\ i # None /\ p \in Run /\ TypeOK
    BY <1>1, AtWork
  <1>3. Onward
    BY <1>1, <1>2, Counted
  <1>4. /\ run'[p].id = i /\ run'[p].measured = run[p].measured
        /\ run'[p].csvOk = run[p].csvOk /\ run'[p].call = run[p].call
        /\ run'[p].pc = "crashed"
    BY <1>2, GoesTo DEF Crash
  <1>5. HasRow(i) => HasRow(i)'
    BY <1>1 DEF HasRow
  <1>6. AtRisk(p) => AtRisk(p)'
    BY <1>4 DEF AtRisk
  <1>7. run'[p].csvOk \/ run'[p].pc = "saved" => run[p].id # None /\ HasRow(run[p].id)'
    BY <1>2, <1>4, <1>5 DEF FaultSound
  <1> QED BY <1>2, <1>3, <1>4, <1>5, <1>6, <1>7, Itself

-----------------------------------------------------------------------------
(* Steps of others.                                                        *)

(* A step of another process leaves a run and its id's files alone.        *)
LEMMA Bystander ==
  ASSUME IInv, NEW p \in Ours, NEW q \in Run, q # p, RunStep(q) \/ Crash(q)
  PROVE  /\ Onward /\ run'[p] = run[p]
         /\ run[p].id # None =>
              /\ pending'[run[p].id] = pending[run[p].id]
              /\ HasRow(run[p].id) => HasRow(run[p].id)'
  <1>1. p \in Run /\ p \in Reserved /\ TypeOK
    BY DEF Ours, Run, Reserved, IInv
  <1>2. run'[p] = run[p]
    <2>1. run \in [Run -> RunRecord]
      BY <1>1 DEF TypeOK, RunRecord
    <2>2. CASE \/ Reserve(q) \/ SavePlain(q) \/ Measured(q) \/ MeasurementFails(q)
               \/ SaveDetails(q) \/ Check(q) \/ PublishPending(q) \/ WriteRow(q)
               \/ PublishConsumed(q) \/ ClearPending(q) \/ Crash(q)
      BY <1>1, <2>1, <2>2
      DEF Reserve, SavePlain, Measured, MeasurementFails, SaveDetails, Check,
          PublishPending, WriteRow, PublishConsumed, ClearPending, Crash, Goto
    <2>3. CASE \/ Saved(q) \/ SaveFails(q) \/ Inspect(q) \/ FailureDetails(q)
               \/ FailureRecord(q) \/ Unwind(q)
      BY <1>1, <2>1, <2>3
      DEF Saved, SaveFails, Inspect, InspectAsync, InspectPower, FailureDetails,
          FailureSave, FailureRecord, AfterRecord, StartSave, Unwind, Goto
    <2> QED BY <2>2, <2>3 DEF RunStep
  <1>3. deleted' = deleted /\ (torn => torn') /\ (Fault \/ UNCHANGED faults)
    <2>1. CASE Reserve(q) \/ SavePlain(q)
      <3>1. deleted' = deleted /\ (Fault \/ UNCHANGED faults)
        BY <2>1 DEF Reserve, SavePlain
      <3>2. UNCHANGED torn \/ ~torn
        BY <2>1 DEF Reserve, SavePlain
      <3> QED BY <3>1, <3>2
    <2>2. CASE Measured(q) \/ MeasurementFails(q) \/ Check(q) \/ Saved(q)
      BY <2>2 DEF Measured, MeasurementFails, Check, Saved, files
    <2>3. CASE SaveDetails(q) \/ FailureDetails(q) \/ FailureRecord(q) \/ Unwind(q)
      <3>1. UNCHANGED <<deleted, torn>>
        BY <2>3 DEF SaveDetails, FailureDetails, FailureRecord, Unwind, files
      <3>2. Fault \/ UNCHANGED faults
        <4>1. CASE SaveDetails(q) \/ Unwind(q)
          BY <4>1 DEF SaveDetails, Unwind
        <4>2. CASE FailureDetails(q)
          BY <4>2 DEF FailureDetails
        <4>3. CASE FailureRecord(q)
          BY <4>3 DEF FailureRecord
        <4> QED BY <2>3, <4>1, <4>2, <4>3
      <3> QED BY <3>1, <3>2
    <2>4. CASE PublishPending(q) \/ WriteRow(q) \/ PublishConsumed(q) \/ ClearPending(q)
      BY <2>4 DEF PublishPending, WriteRow, PublishConsumed, ClearPending, files
    <2>5. CASE SaveFails(q) \/ Inspect(q) \/ Crash(q)
      BY <2>5 DEF SaveFails, Inspect, Crash, files
    <2> QED BY <2>1, <2>2, <2>3, <2>4, <2>5 DEF RunStep
  <1>4. Onward
    BY <1>1, <1>3, Counted
  <1>5. ASSUME run[p].id # None
        PROVE  /\ pending'[run[p].id] = pending[run[p].id]
               /\ csv'[run[p].id] = csv[run[p].id]
    <2>1. PICK i \in Id : i = run[p].id
      BY <1>1, <1>5 DEF TypeOK
    <2>2. CASE PublishPending(q) \/ WriteRow(q) \/ ClearPending(q)
      <3>1. run[q].pc \notin Away
        BY <2>2 DEF PublishPending, WriteRow, ClearPending, At, Away
      <3>2. q \in Reserved /\ run[q].id \in Id /\ run[q].id # i
        BY <1>1, <1>5, <2>1, <3>1, HasId, Apart DEF IInv
      <3>3. CASE UNCHANGED csv /\ (\E v : MayDo(pending, run[q].id, v))
        BY <1>1, <2>1, <3>2, <3>3 DEF MayDo, TypeOK
      <3>4. CASE UNCHANGED pending /\ (\E v : MayDo(csv, run[q].id, v))
        BY <1>1, <2>1, <3>2, <3>4 DEF MayDo, TypeOK
      <3> QED BY <2>2, <3>3, <3>4 DEF PublishPending, WriteRow, ClearPending, MayDo
    <2>3. CASE SavePlain(q)
      <3>1. marker[i] # None /\ UNCHANGED pending
        BY <1>1, <1>5, <2>1, <2>3, ResultStoreAssumption
        DEF IInv, Shared, OwnerSound, SavePlain, Run
      <3>2. UNCHANGED csv \/ \E j \in Id : \E v : j # i /\ csv' = [csv EXCEPT ![j] = v]
        BY <2>3, <3>1 DEF SavePlain, MayDo, FreeForPlain, Occupied
      <3> QED BY <1>1, <2>1, <3>1, <3>2 DEF TypeOK
    <2>4. CASE ~(PublishPending(q) \/ WriteRow(q) \/ ClearPending(q) \/ SavePlain(q))
      <3>1. UNCHANGED <<pending, csv>>
        BY <2>4
        DEF RunStep, Reserve, Measured, MeasurementFails, SaveDetails, Check,
            PublishConsumed, Crash, Saved, SaveFails, Inspect, FailureDetails,
            FailureRecord, Unwind, files
      <3> QED BY <2>1, <3>1
    <2> QED BY <2>2, <2>3, <2>4
  <1> QED BY <1>2, <1>3, <1>4, <1>5 DEF HasRow

(* A deletion is remembered: nobody calls the row lost.                    *)
LEMMA DeleteFaults ==
  ASSUME IInv, NEW p \in Ours, FaultSound(p), NEW i \in Id, Delete(i)
  PROVE  FaultSound(p)'
  <1>1. /\ csv' = [csv EXCEPT ![i] = <<>>] /\ deleted' = deleted \cup {i}
        /\ UNCHANGED <<pending, torn, run, faults>> /\ TypeOK /\ p \in Run
    BY DEF Delete, IInv, Ours, Run, Reserved
  <1>2. Onward
    BY <1>1, Counted
  <1>3. ASSUME run[p].id # None, HasRow(run[p].id) PROVE HasRow(run[p].id)'
    <2>1. run[p].id \in Id
      BY <1>1, <1>3 DEF TypeOK
    <2> QED BY <1>1, <1>3, <2>1 DEF HasRow, TypeOK
  <1> QED BY <1>1, <1>2, <1>3, Elsewhere

(* No run has measured anything at the start.                              *)
LEMMA InitFaults == Init => FaultInv
  <1> SUFFICES ASSUME Init, NEW p \in Ours PROVE FaultSound(p)
    BY DEF FaultInv
  <1>1. run[p] = NewRun
    BY DEF Init, Ours, Run, Reserved
  <1> QED BY <1>1 DEF NewRun, FaultSound, Unsaved

(* Every step keeps what is known of the runs whose row is not out.        *)
LEMMA NextFaults == IInv /\ FaultInv /\ [Next]_vars => FaultInv'
  <1> SUFFICES ASSUME IInv, FaultInv, [Next]_vars, NEW p \in Ours PROVE FaultSound(p)'
    BY DEF FaultInv
  <1>1. FaultSound(p) /\ p \in Run /\ TypeOK
    BY DEF FaultInv, Ours, Run, Reserved, IInv
  <1>2. CASE UNCHANGED vars
    <2>1. UNCHANGED <<pending, csv, torn, run, deleted, faults>>
      BY <1>2 DEF vars, files
    <2>2. Onward
      BY <1>1, <2>1, Counted
    <2> QED BY <1>1, <2>1, <2>2, Elsewhere DEF HasRow
  <1>3. CASE \E i \in Id : Delete(i)
    BY <1>1, <1>3, DeleteFaults
  <1>4. ASSUME NEW q \in Run, q # p, RunStep(q) \/ Crash(q) PROVE FaultSound(p)'
    BY <1>1, <1>4, Bystander, Elsewhere
  <1>5. CASE Crash(p)
    BY <1>1, <1>5, CrashFaults
  <1>6. CASE RunStep(p)
    <2>1. ~SavePlain(p)
      BY ResultStoreAssumption DEF SavePlain, Ours, Reserved
    <2>2. CASE \/ Reserve(p) \/ Measured(p) \/ MeasurementFails(p) \/ SaveDetails(p)
               \/ Check(p) \/ PublishPending(p) \/ WriteRow(p)
      BY <1>1, <2>2, ReserveFaults, MeasuredFaults, MeasurementFailsFaults,
         SaveDetailsFaults, CheckFaults, PublishPendingFaults, WriteRowFaults
    <2>3. CASE \/ PublishConsumed(p) \/ ClearPending(p) \/ Saved(p) \/ SaveFails(p)
               \/ Inspect(p) \/ FailureDetails(p) \/ FailureRecord(p) \/ Unwind(p)
      BY <1>1, <2>3, EndOfSaveFaults, SavedFaults, SaveFailsFaults, InspectFaults,
         FailureDetailsFaults, FailureRecordFaults, UnwindFaults
    <2> QED BY <1>6, <2>1, <2>2, <2>3 DEF RunStep
  <1> QED BY <1>2, <1>3, <1>4, <1>5, <1>6 DEF Next

(* Both invariants hold in every state of every run.                       *)
THEOREM FaultInvariance == Spec => [](IInv /\ FaultInv)
  <1>1. Init => IInv /\ FaultInv
    BY InitInvariant, InitFaults
  <1>2. IInv /\ FaultInv /\ [Next]_vars => IInv' /\ FaultInv'
    BY NextInvariant, NextFaults
  <1> QED BY <1>1, <1>2, PTL DEF Spec

(* One failing file operation loses no measured run: when its process is   *)
(* done, its row is there or a user has deleted it.                        *)
THEOREM NothingIsLost == Spec => []OneFaultLosesNothing
  <1>1. FaultInv => OneFaultLosesNothing
    BY DEF FaultInv, FaultSound, Unsaved, Lucky, HasRow, AtRisk, Ours, OneFaultLosesNothing
  <1> QED BY <1>1, FaultInvariance, PTL

=============================================================================
