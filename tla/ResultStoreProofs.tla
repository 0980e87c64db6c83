--------------------------- MODULE ResultStoreProofs ---------------------------
(***************************************************************************)
(* Proofs about ResultStore, for any processes of the four kinds, any run  *)
(* ids and any number of failing file operations.                          *)
(***************************************************************************)
EXTENDS ResultStore, SequenceTheorems, TLAPS

(* A save holds the lock of the CSV; up to its last file operation it      *)
(* knows what the files of its id hold.                                    *)
Saving == {"publish", "write", "consume", "clear"}
Holding == Saving \cup {"saved", "failed"}
Proposing == {"check"} \cup Saving
Away == {"start", "done", "crashed"}

RunRecord ==
  [pc: Step, id: Id \cup {None}, call: Call, row: Row \cup {None},
   measured: BOOLEAN, detailsOk: BOOLEAN, csvOk: BOOLEAN,
   recover: BOOLEAN, announced: BOOLEAN]

(* The files of one id.                                                    *)
FilesSound(i) ==
  /\ Len(csv[i]) <= 1 /\ Agree(i)
  /\ marker[i] # None /\ csv[i] # <<>> => Provenance(i) = csv[i][1]
  /\ marker[i] = None =>
       pending[i] = None /\ consumed[i] = None /\ details[i] = "none"
  /\ consumed[i] # None => csv[i] # <<>> \/ i \in deleted

(* A reserved run owns its id through the marker.                          *)
OwnerSound(p) ==
  /\ run[p].id # None => marker[run[p].id] = p
  /\ run[p].pc \notin Away => run[p].id # None
  /\ run[p].pc = "start" => run[p].id = None

LockSound(p) == run[p].pc \in Holding => lock = p

(* What a run in the middle of a save knows.                               *)
SaveSound(p) ==
  LET i == run[p].id
      r == run[p].row
  IN /\ run[p].pc \in Proposing => r \in Row
     /\ run[p].pc = "publish" => csv[i] = <<>> /\ pending[i] = None /\ consumed[i] = None
     /\ run[p].pc = "write" => csv[i] = <<>> /\ pending[i] = r /\ consumed[i] = None
     /\ run[p].pc = "consume" => csv[i] = <<r>> /\ pending[i] = r /\ consumed[i] = None
     /\ run[p].pc = "clear" => csv[i] = <<r>> /\ consumed[i] = r /\ pending[i] \in {None, r}

(* A row that may be written for run p agrees with the details on disk.    *)
Truthful(p, r) ==
  /\ r.details => details[run[p].id] # "none"
  /\ r.kind = "normal" /\ p \notin PowerRun => details[run[p].id] = "normal"

RowTruth(p) == run[p].pc \in Proposing => Truthful(p, run[p].row)

FileTruth(p) ==
  LET i == run[p].id IN
    i # None => /\ pending[i] # None => Truthful(p, pending[i])
                /\ consumed[i] # None => Truthful(p, consumed[i])

DetailsTruth(p) ==
  LET i == run[p].id IN
    /\ run[p].detailsOk => i # None /\ details[i] # "none"
    /\ run[p].pc \in {"measure", "sidecar"} =>
         details[i] = "none" /\ pending[i] = None /\ consumed[i] = None

(* The normal details of an async run are out while its normal row is      *)
(* saved, and when the failure of that save is looked into.                *)
AsyncTruth(p) ==
  /\ run[p].pc = "inspect" => p \in AsyncRun \cup PowerRun
  /\ p \in AsyncRun \ PowerRun =>
       /\ run[p].pc = "inspect" => details[run[p].id] = "normal"
       /\ /\ run[p].pc \in {"check"} \cup Holding
          /\ run[p].call \in {"normal", "retry"}
          => details[run[p].id] = "normal"

TruthSound(p) == RowTruth(p) /\ FileTruth(p) /\ DetailsTruth(p) /\ AsyncTruth(p)

(* A process without a reservation starts and ends.                        *)
PlainSound == \A p \in PlainRun : run[p].pc \in {"start", "done"}

Shared ==
  /\ \A i \in Id : FilesSound(i)
  /\ \A p \in Run : LockSound(p)
  /\ \A p \in Reserved : OwnerSound(p) /\ SaveSound(p) /\ TruthSound(p)
  /\ PlainSound
IInv == TypeOK /\ Shared

-----------------------------------------------------------------------------
(* Moves of one process.                                                   *)
Others(p) == \A q \in Run : q # p => run'[q] = run[q]
Moves(p) == run' \in [Run -> RunRecord] /\ run'[p].id = run[p].id /\ Others(p)

(* A process goes to another step.                                         *)
LEMMA Goes ==
  ASSUME TypeOK, NEW p \in Run, NEW s \in Step, Goto(p, s)
  PROVE  /\ Moves(p) /\ run'[p].pc = s
         /\ run'[p].row = run[p].row /\ run'[p].call = run[p].call
         /\ run'[p].detailsOk = run[p].detailsOk
  BY DEF TypeOK, Goto, Moves, Others, RunRecord

(* The same for a flag on the way.                                         *)
LEMMA SetPc ==
  ASSUME NEW f \in [Run -> RunRecord], NEW p \in Run, NEW s \in Step
  PROVE  LET g == [f EXCEPT ![p].pc = s]
         IN /\ g \in [Run -> RunRecord] /\ g[p].pc = s /\ g[p].id = f[p].id
            /\ g[p].detailsOk = f[p].detailsOk
            /\ \A q \in Run : q # p => g[q] = f[q]
  BY DEF RunRecord

(* A process sets one of its flags.                                        *)
LEMMA SetFlag ==
  ASSUME TypeOK, NEW p \in Run, NEW b \in BOOLEAN, NEW g,
         \/ g = [run EXCEPT ![p].csvOk = b]
         \/ g = [run EXCEPT ![p].recover = b]
         \/ g = [run EXCEPT ![p].announced = b]
  PROVE  /\ g \in [Run -> RunRecord] /\ g[p].id = run[p].id
         /\ g[p].detailsOk = run[p].detailsOk
         /\ \A q \in Run : q # p => g[q] = run[q]
  <1>1. run \in [Run -> RunRecord]
    BY DEF TypeOK, RunRecord
  <1>2. CASE g = [run EXCEPT ![p].csvOk = b]
    BY <1>1, <1>2 DEF RunRecord
  <1>3. CASE g = [run EXCEPT ![p].recover = b]
    BY <1>1, <1>3 DEF RunRecord
  <1>4. CASE g = [run EXCEPT ![p].announced = b]
    BY <1>1, <1>4 DEF RunRecord
  <1> QED BY <1>2, <1>3, <1>4

(* A process sets a flag and goes to another step.                         *)
LEMMA FlagGoes ==
  ASSUME TypeOK, NEW p \in Run, NEW b \in BOOLEAN, NEW s \in Step,
         \/ run' = [run EXCEPT ![p].csvOk = b, ![p].pc = s]
         \/ run' = [run EXCEPT ![p].recover = b, ![p].pc = s]
         \/ run' = [run EXCEPT ![p].announced = b, ![p].pc = s]
  PROVE  Moves(p) /\ run'[p].pc = s /\ run'[p].detailsOk = run[p].detailsOk
  <1>1. PICK g : /\ \/ g = [run EXCEPT ![p].csvOk = b]
                    \/ g = [run EXCEPT ![p].recover = b]
                    \/ g = [run EXCEPT ![p].announced = b]
                 /\ run' = [g EXCEPT ![p].pc = s]
    OBVIOUS
  <1>2. /\ g \in [Run -> RunRecord] /\ g[p].id = run[p].id
        /\ g[p].detailsOk = run[p].detailsOk
        /\ \A q \in Run : q # p => g[q] = run[q]
    BY <1>1, SetFlag
  <1> QED BY <1>1, <1>2, SetPc DEF Moves, Others

(* A process proposes a row.                                               *)
LEMMA Starts ==
  ASSUME TypeOK, NEW p \in Run, NEW call \in Call, NEW r \in Row, StartSave(p, call, r)
  PROVE  /\ Moves(p) /\ run'[p].pc = "check" /\ run'[p].call = call
         /\ run'[p].row \in Row /\ run'[p].row.kind = r.kind
         /\ run'[p].row.details = r.details
         /\ run'[p].detailsOk = run[p].detailsOk
  <1>1. [r EXCEPT !.stamp = call] \in Row
    BY DEF Row
  <1>2. "check" \in Step
    BY DEF Step
  <1>3. run' = [run EXCEPT ![p] = [run[p] EXCEPT !.pc = "check", !.call = call,
                                   !.row = [r EXCEPT !.stamp = call]]]
    BY DEF StartSave
  <1>4. \A x \in Row : [run[p] EXCEPT !.pc = "check", !.call = call, !.row = x] \in RunRecord
    <2>1. run[p] \in RunRecord
      BY DEF TypeOK, RunRecord
    <2> SUFFICES ASSUME NEW x \in Row
                 PROVE  [run[p] EXCEPT !.pc = "check", !.call = call, !.row = x] \in RunRecord
      OBVIOUS
    <2>2. [run[p] EXCEPT !.pc = "check"] \in RunRecord
      BY <1>2, <2>1 DEF RunRecord
    <2>3. [run[p] EXCEPT !.pc = "check", !.call = call] \in RunRecord
      BY <2>2 DEF RunRecord
    <2> QED BY <2>3 DEF RunRecord
  <1>5. [run[p] EXCEPT !.pc = "check", !.call = call,
                       !.row = [r EXCEPT !.stamp = call]] \in RunRecord
    BY <1>1, <1>4
  <1> QED BY <1>1, <1>3, <1>5 DEF TypeOK, Moves, Others, RunRecord, Row

(* The same for a change of several fields.                                *)
LEMMA Becomes ==
  ASSUME TypeOK, NEW p \in Run, NEW y \in RunRecord, y.id = run[p].id,
         run' = [run EXCEPT ![p] = y]
  PROVE  Moves(p) /\ run'[p] = y
  BY DEF TypeOK, Moves, Others, RunRecord

(* The bound on faults is kept.                                            *)
LEMMA FaultFacts ==
  ASSUME TypeOK, Fault \/ UNCHANGED faults
  PROVE  faults' \in 0..MaxFault
  BY ResultStoreAssumption DEF TypeOK, Fault

(* The rows that are proposed.                                             *)
LEMMA RowFacts ==
  /\ PlainRow \in Row
  /\ \A p : NormalRow(p) \in Row /\ NormalRow(p).kind = "normal"
  /\ \A p \in PowerRun : ~NormalRow(p).details
  /\ \A d, r \in BOOLEAN : FailureRow(d, r) \in Row
  BY DEF PlainRow, NormalRow, FailureRow, Row, Call

(* Two reserved runs never share an id.                                    *)
LEMMA Apart ==
  ASSUME Shared, NEW p \in Reserved, NEW q \in Reserved, p # q,
         run[p].id # None
  PROVE  run[q].id # run[p].id
  BY DEF Shared, OwnerSound

(* A step of a reserved run that has its id touches the files of that id   *)
(* only; what holds of the others goes on to hold.                         *)
LEMMA Frame ==
  ASSUME IInv, NEW p \in Reserved, NEW i \in Id, i = run[p].id, Moves(p),
         marker' = marker, deleted' = deleted, run'[p].pc # "start",
         \A j \in Id : j # i =>
           /\ pending'[j] = pending[j] /\ consumed'[j] = consumed[j]
           /\ csv'[j] = csv[j] /\ details'[j] = details[j],
         \A q \in Run : q # p /\ run[q].pc \in Holding => lock' = q,
         FilesSound(i)', LockSound(p)', SaveSound(p)', TruthSound(p)'
  PROVE  Shared'
  <1>1. \A j \in Id : FilesSound(j)'
    <2> SUFFICES ASSUME NEW j \in Id, j # i PROVE FilesSound(j)'
      OBVIOUS
    <2> QED BY DEF IInv, Shared, FilesSound, Agree, Provenance
  <1>2. \A q \in Run : LockSound(q)'
    <2> SUFFICES ASSUME NEW q \in Run, q # p PROVE LockSound(q)'
      OBVIOUS
    <2> QED BY DEF LockSound, Moves, Others
  <1>3. ASSUME NEW q \in Reserved, q # p
        PROVE  OwnerSound(q)' /\ SaveSound(q)' /\ TruthSound(q)'
    <2>1. run'[q] = run[q] /\ run[q].id # i /\ run[q].id \in Id \cup {None}
      BY <1>3, Apart, ResultStoreAssumption
      DEF IInv, TypeOK, RunRecord, Moves, Others, Run
    <2>2. OwnerSound(q) /\ SaveSound(q) /\ TruthSound(q)
      BY DEF IInv, Shared
    <2>3. OwnerSound(q)'
      BY <2>1, <2>2 DEF OwnerSound
    <2>4. CASE run[q].id = None
      <3>1. run[q].pc \in Away
        BY <2>2, <2>4 DEF OwnerSound
      <3> QED BY <2>1, <2>2, <2>3, <2>4, <3>1
              DEF SaveSound, TruthSound, RowTruth, FileTruth, DetailsTruth, AsyncTruth,
                  Proposing, Saving, Holding, Away
    <2>5. CASE run[q].id \in Id
      <3>1. /\ pending'[run[q].id] = pending[run[q].id]
            /\ consumed'[run[q].id] = consumed[run[q].id]
            /\ csv'[run[q].id] = csv[run[q].id] /\ details'[run[q].id] = details[run[q].id]
        BY <2>1, <2>5
      <3>2. SaveSound(q)'
        BY <2>1, <2>2, <3>1 DEF SaveSound
      <3>3. TruthSound(q)'
        BY <2>1, <2>2, <3>1
        DEF TruthSound, RowTruth, FileTruth, DetailsTruth, AsyncTruth, Truthful
      <3> QED BY <2>3, <3>2, <3>3
    <2> QED BY <2>1, <2>4, <2>5
  <1>4. OwnerSound(p)'
    BY ResultStoreAssumption DEF IInv, Shared, OwnerSound, Moves
  <1>5. PlainSound'
    BY ResultStoreAssumption DEF IInv, Shared, PlainSound, Moves, Others, Run
  <1> QED BY <1>1, <1>2, <1>3, <1>4, <1>5 DEF Shared

(* A run in the middle of its work owns an id.                             *)
LEMMA HasId ==
  ASSUME IInv, NEW p \in Run, run[p].pc \notin Away
  PROVE  p \in Reserved /\ run[p].id \in Id /\ marker[run[p].id] = p
  BY ResultStoreAssumption
  DEF IInv, TypeOK, RunRecord, Shared, PlainSound, OwnerSound, Run, Away

(* What a step may do to the lock of the CSV.                              *)
LockMoves(p) ==
  \/ UNCHANGED lock
  \/ lock = None /\ lock' = p
  \/ lock = p /\ lock' = None

(* The lock of another process is not taken away.                          *)
LEMMA LockFacts ==
  ASSUME IInv, NEW p \in Run, LockMoves(p)
  PROVE  /\ lock' \in Run \cup {None}
         /\ \A q \in Run : q # p /\ run[q].pc \in Holding => lock' = q
  BY ResultStoreAssumption DEF IInv, TypeOK, Shared, LockSound, LockMoves

-----------------------------------------------------------------------------
(* A step that touches none of the files that count keeps the invariant.   *)
LEMMA Quiet ==
  ASSUME IInv, NEW p \in Run, run[p].pc \notin Away, Moves(p),
         UNCHANGED <<marker, pending, consumed, csv, torn, details, deleted>>,
         recovery' \in [Id -> BOOLEAN], Fault \/ UNCHANGED faults,
         LockMoves(p), run'[p].pc \in Holding => lock' = p,
         run'[p].detailsOk => run[p].detailsOk,
         run'[p].pc \notin {"start", "measure"}, run'[p].pc = "sidecar" => run[p].pc = "measure",
         SaveSound(p)', RowTruth(p)', AsyncTruth(p)'
  PROVE  IInv'
  <1>1. p \in Reserved /\ run[p].id \in Id
    BY HasId
  <1>2. PICK i \in Id : i = run[p].id
    BY <1>1
  <1>3. FilesSound(i)'
    <2>1. FilesSound(i)
      BY DEF IInv, Shared
    <2> QED BY <2>1 DEF FilesSound, Agree, Provenance
  <1>4. TruthSound(p)'
    <2>1. FileTruth(p) /\ DetailsTruth(p)
      BY <1>1 DEF IInv, Shared, TruthSound
    <2>2. FileTruth(p)'
      BY <2>1 DEF FileTruth, Truthful, Moves
    <2>3. DetailsTruth(p)'
      BY <2>1 DEF DetailsTruth, Moves
    <2> QED BY <2>2, <2>3 DEF TruthSound
  <1>5. LockSound(p)'
    BY DEF LockSound
  <1>6. Shared'
    BY <1>1, <1>2, <1>3, <1>4, <1>5, Frame, LockFacts
  <1>7. TypeOK'
    BY LockFacts, FaultFacts DEF IInv, TypeOK, RunRecord, Moves
  <1> QED BY <1>6, <1>7 DEF IInv

(* A step out of a save, or at the end of a run: nothing is to be known.   *)
LEMMA Rests ==
  ASSUME NEW p \in Run, run'[p].pc \in {"fdetails", "frecord", "raised", "done", "crashed"}
  PROVE  /\ SaveSound(p)' /\ RowTruth(p)' /\ AsyncTruth(p)'
         /\ run'[p].pc \notin Holding \cup {"start", "measure", "sidecar"}
  BY DEF SaveSound, RowTruth, AsyncTruth, Proposing, Saving, Holding

(* A proposal.                                                             *)
LEMMA Proposes ==
  ASSUME IInv, NEW p \in Run, NEW call \in Call, NEW r \in Row, StartSave(p, call, r),
         UNCHANGED details, Truthful(p, r),
         p \in AsyncRun \ PowerRun /\ call \in {"normal", "retry"} =>
           details[run[p].id] = "normal"
  PROVE  /\ SaveSound(p)' /\ RowTruth(p)' /\ AsyncTruth(p)' /\ Moves(p)
         /\ run'[p].pc \notin Holding \cup {"start", "measure", "sidecar"}
         /\ run'[p].detailsOk = run[p].detailsOk
  <1>1. /\ Moves(p) /\ run'[p].pc = "check" /\ run'[p].call = call
        /\ run'[p].row \in Row /\ run'[p].row.kind = r.kind
        /\ run'[p].row.details = r.details
        /\ run'[p].detailsOk = run[p].detailsOk
    BY Starts DEF IInv
  <1>2. SaveSound(p)'
    BY <1>1 DEF SaveSound
  <1>3. RowTruth(p)'
    BY <1>1 DEF RowTruth, Truthful, Moves
  <1>4. AsyncTruth(p)'
    BY <1>1 DEF AsyncTruth, Moves
  <1> QED BY <1>1, <1>2, <1>3, <1>4 DEF Holding, Saving

(* The measurement succeeds: the details or the row come next.             *)
LEMMA MeasuredStep ==
  ASSUME IInv, NEW p \in Run, Measured(p)
  PROVE  IInv'
  <1>1. run[p].pc = "measure" /\ run[p].pc \notin Away /\ TypeOK
    BY DEF Measured, Away, IInv, At
  <1>2. /\ UNCHANGED <<marker, pending, consumed, csv, torn, details, recovery, deleted>>
        /\ UNCHANGED <<lock, faults>>
    BY DEF Measured, files
  <1>3. /\ Moves(p) /\ run'[p].detailsOk = run[p].detailsOk
        /\ \/ p \in PowerRun /\ run'[p].pc = "check" /\ run'[p].row = NormalRow(p)
           \/ p \notin PowerRun /\ run'[p].pc = "sidecar"
    <2>1. NormalRow(p) \in Row
      BY RowFacts
    <2> QED BY <1>1, <2>1 DEF Measured, TypeOK, Moves, Others, RunRecord, Step, Call
  <1>4. SaveSound(p)'
    BY <1>3, RowFacts DEF SaveSound, Proposing, Saving
  <1>5. RowTruth(p)'
    BY <1>3, RowFacts DEF RowTruth, Truthful, Proposing, Saving
  <1>6. AsyncTruth(p)'
    BY <1>3 DEF AsyncTruth, Holding, Saving
  <1>7. run'[p].pc \notin Holding /\ recovery' \in [Id -> BOOLEAN]
    BY <1>1, <1>2, <1>3 DEF Holding, Saving, TypeOK
  <1> QED BY <1>1, <1>2, <1>3, <1>4, <1>5, <1>6, <1>7, Quiet DEF LockMoves

(* The measurement fails: its caller records that.                         *)
LEMMA MeasurementFailsStep ==
  ASSUME IInv, NEW p \in Run, MeasurementFails(p)
  PROVE  IInv'
  <1>1. run[p].pc = "measure" /\ run[p].pc \notin Away /\ TypeOK
    BY DEF MeasurementFails, Away, IInv, At
  <1>2. /\ UNCHANGED <<marker, pending, consumed, csv, torn, details, recovery, deleted>>
        /\ UNCHANGED <<lock, faults>>
    BY DEF MeasurementFails, files
  <1>3. /\ Moves(p) /\ run'[p].detailsOk = run[p].detailsOk
        /\ run'[p].pc \in {"fdetails", "frecord", "raised", "inspect"}
        /\ run'[p].pc = "inspect" => p \in PowerRun
    BY <1>1, Goes DEF MeasurementFails, Step
  <1>4. SaveSound(p)' /\ RowTruth(p)' /\ AsyncTruth(p)'
    BY <1>3 DEF SaveSound, RowTruth, AsyncTruth, Proposing, Saving, Holding
  <1>5. run'[p].pc \notin Holding /\ recovery' \in [Id -> BOOLEAN]
    BY <1>1, <1>2, <1>3 DEF Holding, Saving, TypeOK
  <1> QED BY <1>1, <1>2, <1>3, <1>4, <1>5, Quiet DEF LockMoves

(* The decision of a save knows what the files hold.                       *)
LEMMA CheckStep ==
  ASSUME IInv, NEW p \in Run, Check(p)
  PROVE  IInv'
  <1>1. run[p].pc = "check" /\ run[p].pc \notin Away /\ TypeOK
    BY DEF Check, Away, IInv, At
  <1>2. /\ UNCHANGED <<marker, pending, consumed, csv, torn, details, recovery, deleted>>
        /\ lock = None /\ lock' = p /\ (Fault \/ UNCHANGED faults)
        /\ recovery' \in [Id -> BOOLEAN]
    BY <1>1 DEF Check, files, TypeOK
  <1>3. PICK i \in Id : i = run[p].id /\ p \in Reserved /\ marker[i] = p
    BY <1>1, HasId
  <1>4. FilesSound(i) /\ SaveSound(p) /\ TruthSound(p) /\ marker[i] # None
    BY <1>3, ResultStoreAssumption DEF IInv, Shared, Run
  <1> DEFINE r == Restamped(i, run[p].row)
  <1>5. run[p].row \in Row /\ csv[i] \in Seq(Row) /\ pending[i] \in Row \cup {None}
        /\ consumed[i] \in Row \cup {None}
    BY <1>1, <1>4 DEF SaveSound, Proposing, TypeOK
  <1>6. r \in Row /\ r.kind = run[p].row.kind /\ r.details = run[p].row.details
    <2>1. csv[i] # <<>> => csv[i][1] \in Row
      BY <1>5
    <2>2. ASSUME NEW x \in Row, NEW y \in Row
          PROVE  LET z == [x EXCEPT !.stamp = y.stamp]
                 IN z \in Row /\ z.kind = x.kind /\ z.details = x.details
      BY DEF Row
    <2> QED BY <1>5, <2>1, <2>2 DEF Restamped
  <1>7. CASE ~torn /\ run' = [run EXCEPT ![p].row = r, ![p].pc = Decision(i, r)]
    <2>1. Decision(i, r) \in {"failed", "consume", "clear", "publish", "write"}
      BY DEF Decision
    <2>2. /\ Moves(p) /\ run'[p].detailsOk = run[p].detailsOk
          /\ run'[p].row = r /\ run'[p].call = run[p].call
          /\ run'[p].pc = Decision(i, r)
      <3> HIDE DEF r
      <3>1. Decision(i, r) \in Step
        BY <2>1 DEF Step
      <3> QED BY <1>1, <1>6, <1>7, <3>1 DEF TypeOK, Moves, Others, RunRecord
    <2>3. SaveSound(p)'
      <3> HIDE DEF r
      <3>1. /\ csv[i] # <<>> /\ ~Refused(i, r) => csv[i] = <<r>>
            /\ csv[i] # <<>> /\ ~Refused(i, r) => Provenance(i) = r
        BY <1>4, <1>5 DEF Refused, FilesSound
      <3>2. /\ Decision(i, r) = "publish" => csv[i] = <<>> /\ pending[i] = None /\ consumed[i] = None
            /\ Decision(i, r) = "write" => csv[i] = <<>> /\ pending[i] = r /\ consumed[i] = None
            /\ Decision(i, r) = "consume" => csv[i] # <<>> /\ ~Refused(i, r) /\ consumed[i] = None
            /\ Decision(i, r) = "clear" => csv[i] # <<>> /\ ~Refused(i, r) /\ consumed[i] # None
        BY DEF Decision, Refused
      <3>3. None # r
        BY <1>6, ResultStoreAssumption
      <3>4. /\ Decision(i, r) = "consume" => pending[i] = r
            /\ Decision(i, r) = "clear" => consumed[i] = r /\ pending[i] \in {None, r}
        BY <1>4, <3>1, <3>2, <3>3 DEF Provenance, FilesSound, Agree
      <3> QED BY <1>2, <1>3, <1>6, <2>1, <2>2, <3>1, <3>2, <3>4 DEF SaveSound, Moves
    <2>4. RowTruth(p)'
      BY <1>1, <1>2, <1>4, <1>6, <2>2 DEF TruthSound, RowTruth, Truthful, Moves, Proposing
    <2>5. AsyncTruth(p)'
      BY <1>1, <1>2, <1>4, <2>1, <2>2 DEF TruthSound, AsyncTruth, Moves, Holding, Saving
    <2> QED BY <1>1, <1>2, <2>1, <2>2, <2>3, <2>4, <2>5, Quiet DEF LockMoves
  <1>8. CASE Goto(p, "failed")
    <2>1. /\ Moves(p) /\ run'[p].pc = "failed" /\ run'[p].call = run[p].call
          /\ run'[p].detailsOk = run[p].detailsOk
      BY <1>1, <1>8, Goes DEF Step
    <2>2. SaveSound(p)' /\ RowTruth(p)'
      BY <2>1 DEF SaveSound, RowTruth, Proposing, Saving
    <2>3. AsyncTruth(p)'
      BY <1>1, <1>2, <1>4, <2>1 DEF TruthSound, AsyncTruth, Moves, Holding, Saving
    <2> QED BY <1>1, <1>2, <2>1, <2>2, <2>3, Quiet DEF LockMoves
  <1> QED BY <1>3, <1>7, <1>8 DEF Check

(* A failed save is looked into.                                           *)
LEMMA InspectStep ==
  ASSUME IInv, NEW p \in Run, Inspect(p)
  PROVE  IInv'
  <1>1. run[p].pc = "inspect" /\ run[p].pc \notin Away /\ TypeOK
    BY DEF Inspect, Away, IInv, At
  <1>2. /\ UNCHANGED <<marker, pending, consumed, csv, torn, details, recovery, deleted>>
        /\ UNCHANGED lock /\ (Fault \/ UNCHANGED faults) /\ recovery' \in [Id -> BOOLEAN]
    BY <1>1 DEF Inspect, files, TypeOK
  <1>3. AsyncTruth(p)
    BY <1>1, HasId DEF IInv, Shared, TruthSound
  <1>4. CASE \E s \in {"fdetails", "raised"} : Goto(p, s)
    <2>1. /\ Moves(p) /\ run'[p].pc \in {"fdetails", "raised"}
          /\ run'[p].detailsOk = run[p].detailsOk
      BY <1>1, <1>4, Goes DEF Step
    <2> QED BY <1>1, <1>2, <2>1, Rests, Quiet DEF LockMoves
  <1>5. CASE run' = [run EXCEPT ![p].csvOk = TRUE, ![p].pc = "fdetails"]
    <2>1. /\ Moves(p) /\ run'[p].pc = "fdetails" /\ run'[p].detailsOk = run[p].detailsOk
      BY <1>1, <1>5, FlagGoes DEF Step
    <2> QED BY <1>1, <1>2, <2>1, Rests, Quiet DEF LockMoves
  <1>6. CASE StartSave(p, "retry", NormalRow(p))
    <2>1. NormalRow(p) \in Row /\ Truthful(p, NormalRow(p))
      BY <1>1, <1>3, RowFacts DEF Truthful, AsyncTruth
    <2>2. p \in AsyncRun \ PowerRun => details[run[p].id] = "normal"
      BY <1>1, <1>3 DEF AsyncTruth
    <2> QED BY <1>1, <1>2, <1>6, <2>1, <2>2, Proposes, Quiet DEF LockMoves, Call
  <1>7. CASE StartSave(p, "failure", FailureRow(FALSE, FALSE))
    <2>1. FailureRow(FALSE, FALSE) \in Row /\ Truthful(p, FailureRow(FALSE, FALSE))
      BY DEF FailureRow, Truthful, Row, Call
    <2> QED BY <1>1, <1>2, <1>7, <2>1, Proposes, Quiet DEF LockMoves, Call
  <1> QED BY <1>4, <1>5, <1>6, <1>7 DEF Inspect, InspectAsync, InspectPower, ResultState

(* A save returns.                                                         *)
LEMMA SavedStep ==
  ASSUME IInv, NEW p \in Run, Saved(p)
  PROVE  IInv'
  <1>1. run[p].pc = "saved" /\ run[p].pc \notin Away /\ TypeOK /\ lock = p
    BY DEF Saved, Away, IInv, At, Shared, LockSound, Holding
  <1>2. /\ UNCHANGED <<marker, pending, consumed, csv, torn, details, recovery, deleted>>
        /\ lock' = None /\ UNCHANGED faults /\ recovery' \in [Id -> BOOLEAN]
    BY <1>1 DEF Saved, files, TypeOK
  <1>3. run[p].call \in Call
    BY <1>1 DEF TypeOK
  <1>4. /\ Moves(p) /\ run'[p].detailsOk = run[p].detailsOk
        /\ run'[p].pc \in {"fdetails", "frecord", "raised", "done"}
    <2>1. CASE p \in AsyncRun
      <3>1. CASE run[p].call = "normal"
        <4> DEFINE f == [run EXCEPT ![p].csvOk = TRUE, ![p].announced = TRUE]
        <4>1. f \in [Run -> RunRecord]
          BY <1>1 DEF TypeOK, RunRecord
        <4>2. run' = [f EXCEPT ![p].pc = "done"]
          BY <2>1, <3>1 DEF Saved
        <4>3. /\ f[p].id = run[p].id /\ f[p].detailsOk = run[p].detailsOk
              /\ \A q \in Run : q # p => f[q] = run[q]
          BY <1>1 DEF TypeOK, RunRecord
        <4> HIDE DEF f
        <4>4. "done" \in Step
          BY DEF Step
        <4>5. /\ run' \in [Run -> RunRecord] /\ run'[p].pc = "done"
              /\ run'[p].id = f[p].id /\ run'[p].detailsOk = f[p].detailsOk
              /\ \A q \in Run : q # p => run'[q] = f[q]
          BY <4>1, <4>2, <4>4, SetPc
        <4> QED BY <4>3, <4>5 DEF Moves, Others
      <3>2. CASE run[p].call # "normal"
        <4>1. PICK s \in {"fdetails", "frecord"} :
                run' = [run EXCEPT ![p].csvOk = TRUE, ![p].pc = s]
          BY <2>1, <3>2 DEF Saved
        <4> QED BY <1>1, <4>1, FlagGoes DEF Step
      <3> QED BY <3>1, <3>2
    <2>2. CASE p \notin AsyncRun
      <3>1. PICK b \in BOOLEAN, s \in {"raised", "done"} :
              run' = [run EXCEPT ![p].announced = b, ![p].pc = s]
        BY <2>2 DEF Saved
      <3> QED BY <1>1, <3>1, FlagGoes DEF Step
    <2> QED BY <2>1, <2>2
  <1> QED BY <1>1, <1>2, <1>4, Rests, Quiet DEF LockMoves

(* A save raises.                                                          *)
LEMMA SaveFailsStep ==
  ASSUME IInv, NEW p \in Run, SaveFails(p)
  PROVE  IInv'
  <1>1. run[p].pc = "failed" /\ run[p].pc \notin Away /\ TypeOK /\ lock = p
    BY DEF SaveFails, Away, IInv, At, Shared, LockSound, Holding
  <1>2. /\ UNCHANGED <<marker, pending, consumed, csv, torn, details, recovery, deleted>>
        /\ lock' = None /\ UNCHANGED faults /\ recovery' \in [Id -> BOOLEAN]
    BY <1>1 DEF SaveFails, files, TypeOK
  <1>3. CASE \E s \in {"fdetails", "raised", "done"} : Goto(p, s)
    <2>1. /\ Moves(p) /\ run'[p].pc \in {"fdetails", "raised", "done"}
          /\ run'[p].detailsOk = run[p].detailsOk
      BY <1>1, <1>3, Goes DEF Step
    <2> QED BY <1>1, <1>2, <2>1, Rests, Quiet DEF LockMoves
  <1>4. CASE run' = [run EXCEPT ![p].recover = TRUE, ![p].pc = "frecord"]
    <2>1. /\ Moves(p) /\ run'[p].pc = "frecord" /\ run'[p].detailsOk = run[p].detailsOk
      BY <1>1, <1>4, FlagGoes DEF Step
    <2> QED BY <1>1, <1>2, <2>1, Rests, Quiet DEF LockMoves
  <1>5. CASE run[p].call = "normal" /\ p \in AsyncRun \cup PowerRun /\ Goto(p, "inspect")
    <2>1. /\ Moves(p) /\ run'[p].pc = "inspect" /\ run'[p].detailsOk = run[p].detailsOk
      BY <1>1, <1>5, Goes DEF Step
    <2>2. SaveSound(p)' /\ RowTruth(p)'
      BY <2>1 DEF SaveSound, RowTruth, Proposing, Saving
    <2>3. AsyncTruth(p)
      BY <1>1, HasId DEF IInv, Shared, TruthSound
    <2>4. AsyncTruth(p)'
      BY <1>1, <1>2, <1>5, <2>1, <2>3 DEF AsyncTruth, Moves, Holding, Saving
    <2> QED BY <1>1, <1>2, <2>1, <2>2, <2>4, Quiet DEF LockMoves, Holding, Saving
  <1> QED BY <1>3, <1>4, <1>5, ResultStoreAssumption DEF SaveFails

(* The exception leaves the benchmark.                                     *)
LEMMA UnwindStep ==
  ASSUME IInv, NEW p \in Run, Unwind(p)
  PROVE  IInv'
  <1>1. run[p].pc = "raised" /\ run[p].pc \notin Away /\ TypeOK
    BY DEF Unwind, Away, IInv, At
  <1>2. /\ UNCHANGED <<marker, pending, consumed, csv, torn, details, recovery, deleted>>
        /\ UNCHANGED lock /\ (Fault \/ UNCHANGED faults) /\ recovery' \in [Id -> BOOLEAN]
    BY <1>1 DEF Unwind, files, TypeOK
  <1>3. CASE Goto(p, "done")
    <2>1. /\ Moves(p) /\ run'[p].pc = "done" /\ run'[p].detailsOk = run[p].detailsOk
      BY <1>1, <1>3, Goes DEF Step
    <2> QED BY <1>1, <1>2, <2>1, Rests, Quiet DEF LockMoves
  <1>4. CASE StartSave(p, "final", FailureRow(FALSE, FALSE))
    <2>1. FailureRow(FALSE, FALSE) \in Row /\ Truthful(p, FailureRow(FALSE, FALSE))
      BY DEF FailureRow, Truthful, Row, Call
    <2> QED BY <1>1, <1>2, <1>4, <2>1, Proposes, Quiet DEF LockMoves, Call
  <1>5. CASE run' = [run EXCEPT ![p].call = "final", ![p].csvOk = FALSE,
                       ![p].detailsOk = FALSE, ![p].recover = FALSE, ![p].pc = "fdetails"]
    <2>1. Moves(p) /\ run'[p].pc = "fdetails" /\ ~run'[p].detailsOk
      BY <1>1, <1>5 DEF TypeOK, Moves, Others, RunRecord, Step, Call
    <2> QED BY <1>1, <1>2, <2>1, Rests, Quiet DEF LockMoves
  <1> QED BY <1>3, <1>4, <1>5 DEF Unwind

(* The recovery record.                                                    *)
LEMMA FailureRecordStep ==
  ASSUME IInv, NEW p \in Run, FailureRecord(p)
  PROVE  IInv'
  <1>1. run[p].pc = "frecord" /\ run[p].pc \notin Away /\ TypeOK
    BY DEF FailureRecord, Away, IInv, At
  <1>2. /\ UNCHANGED <<marker, pending, consumed, csv, torn, details, deleted>>
        /\ UNCHANGED lock /\ (Fault \/ UNCHANGED faults)
    BY <1>1 DEF FailureRecord
  <1>3. recovery' \in [Id -> BOOLEAN]
    BY <1>1 DEF FailureRecord, MayDo, TypeOK
  <1>4. PICK ok \in BOOLEAN : AfterRecord(p, ok)
    <2>1. run[p].detailsOk \in BOOLEAN
      BY <1>1 DEF TypeOK
    <2> QED BY <2>1 DEF FailureRecord
  <1>5. CASE StartSave(p, "failure", FailureRow(FALSE, TRUE))
    <2>1. FailureRow(FALSE, TRUE) \in Row /\ Truthful(p, FailureRow(FALSE, TRUE))
      BY DEF FailureRow, Truthful, Row, Call
    <2> QED BY <1>1, <1>2, <1>3, <1>5, <2>1, Proposes, Quiet DEF LockMoves, Call
  <1>6. CASE Goto(p, "done")
    <2>1. /\ Moves(p) /\ run'[p].pc = "done" /\ run'[p].detailsOk = run[p].detailsOk
      BY <1>1, <1>6, Goes DEF Step
    <2> QED BY <1>1, <1>2, <1>3, <2>1, Rests, Quiet DEF LockMoves
  <1>7. CASE run' = [run EXCEPT ![p].announced = run[p].csvOk /\ ok,
                       ![p].pc = IF run[p].call = "final" THEN "done" ELSE "raised"]
    <2>1. PICK b \in BOOLEAN, s \in {"raised", "done"} :
            run' = [run EXCEPT ![p].announced = b, ![p].pc = s]
      BY <1>7
    <2>2. /\ Moves(p) /\ run'[p].pc \in {"raised", "done"}
          /\ run'[p].detailsOk = run[p].detailsOk
      BY <1>1, <2>1, FlagGoes DEF Step
    <2> QED BY <1>1, <1>2, <1>3, <2>2, Rests, Quiet DEF LockMoves
  <1> QED BY <1>4, <1>5, <1>6, <1>7 DEF AfterRecord

(* A process dies.                                                         *)
LEMMA CrashStep ==
  ASSUME IInv, NEW p \in Run, Crash(p)
  PROVE  IInv'
  <1>1. run[p].pc \notin Away /\ TypeOK
    BY DEF Crash, Away, IInv
  <1>2. /\ UNCHANGED <<marker, pending, consumed, csv, torn, details, recovery, deleted>>
        /\ LockMoves(p) /\ UNCHANGED faults /\ recovery' \in [Id -> BOOLEAN]
    BY <1>1 DEF Crash, files, LockMoves, TypeOK
  <1>3. /\ Moves(p) /\ run'[p].pc = "crashed" /\ run'[p].detailsOk = run[p].detailsOk
    BY <1>1, Goes DEF Crash, Step
  <1> QED BY <1>1, <1>2, <1>3, Rests, Quiet

-----------------------------------------------------------------------------
(* Steps of a reserved run that change a file of its id.                   *)

(* file' differs from file at i at most, where it may have become v.       *)
Touches(file, new, i, v) ==
  /\ new[i] \in {file[i], v}
  /\ \A j \in Id : j # i => new[j] = file[j]

(* A sequence of one row.                                                  *)
LEMMA OneRow ==
  ASSUME NEW s, NEW r, s = <<>> \/ s = <<r>>
  PROVE  Len(s) <= 1 /\ (s # <<>> => s[1] = r)
  <1>1. Len(<<>>) <= 1 /\ Len(<<r>>) <= 1 /\ <<r>>[1] = r
    OBVIOUS
  <1>2. CASE s = <<>>
    BY <1>1, <1>2, Zenon
  <1>3. CASE s = <<r>>
    BY <1>1, <1>3, Zenon
  <1> QED BY <1>2, <1>3

(* A step that changes files of its own id only.                           *)
LEMMA OwnFiles ==
  ASSUME IInv, NEW p \in Run, run[p].pc \notin Away, Moves(p),
         NEW i \in Id, i = run[p].id,
         UNCHANGED <<marker, torn, recovery, lock, deleted>>, Fault \/ UNCHANGED faults,
         pending' \in [Id -> Row \cup {None}], consumed' \in [Id -> Row \cup {None}],
         csv' \in [Id -> Seq(Row)], details' \in [Id -> {"none", "normal", "failure"}],
         \A j \in Id : j # i =>
           /\ pending'[j] = pending[j] /\ consumed'[j] = consumed[j]
           /\ csv'[j] = csv[j] /\ details'[j] = details[j],
         run'[p].pc # "start", LockSound(p)', FilesSound(i)', SaveSound(p)', TruthSound(p)'
  PROVE  IInv'
  <1>1. p \in Reserved
    BY HasId
  <1>2. Shared'
    BY <1>1, Frame, LockFacts DEF LockMoves
  <1>3. TypeOK'
    BY FaultFacts DEF IInv, TypeOK, RunRecord, Moves
  <1> QED BY <1>2, <1>3 DEF IInv

(* A run in the middle of a save: what it knows.                           *)
LEMMA SaveFacts ==
  ASSUME IInv, NEW p \in Run, run[p].pc \in Saving
  PROVE  /\ p \in Reserved /\ run[p].id \in Id /\ marker[run[p].id] = p /\ p # None
         /\ TypeOK /\ run[p].row \in Row /\ run[p].row # None
         /\ FilesSound(run[p].id) /\ SaveSound(p) /\ TruthSound(p)
         /\ Truthful(p, run[p].row) /\ lock = p
  <1>1. run[p].pc \notin Away /\ run[p].pc \in Proposing /\ run[p].pc \in Holding
    BY DEF Saving, Away, Proposing, Holding
  <1>2. p \in Reserved /\ run[p].id \in Id /\ marker[run[p].id] = p
    BY <1>1, HasId
  <1>3. FilesSound(run[p].id) /\ SaveSound(p) /\ TruthSound(p) /\ lock = p
    BY <1>1, <1>2 DEF IInv, Shared, LockSound
  <1>4. run[p].row \in Row /\ Truthful(p, run[p].row)
    BY <1>1, <1>3 DEF SaveSound, TruthSound, RowTruth
  <1> QED BY <1>2, <1>3, <1>4, ResultStoreAssumption DEF IInv, Run

(* A step of a save that leaves the details alone.                         *)
LEMMA SaveMoves ==
  ASSUME IInv, NEW p \in Run, run[p].pc \in Saving,
         NEW s \in {"write", "consume", "clear", "saved", "failed"}, Goto(p, s),
         UNCHANGED <<marker, torn, details, recovery, lock, deleted>>,
         Fault \/ UNCHANGED faults,
         pending' \in [Id -> Row \cup {None}], consumed' \in [Id -> Row \cup {None}],
         csv' \in [Id -> Seq(Row)],
         NEW i \in Id, i = run[p].id,
         \A j \in Id : j # i =>
           pending'[j] = pending[j] /\ consumed'[j] = consumed[j] /\ csv'[j] = csv[j],
         pending'[i] \in {None, pending[i], run[p].row},
         consumed'[i] \in {None, consumed[i], run[p].row},
         FilesSound(i)', SaveSound(p)'
  PROVE  IInv'
  <1>1. /\ Moves(p) /\ run'[p].pc = s /\ run'[p].row = run[p].row
        /\ run'[p].call = run[p].call /\ run'[p].detailsOk = run[p].detailsOk
    BY Goes DEF Step, IInv
  <1>2. TruthSound(p) /\ Truthful(p, run[p].row) /\ lock = p
    BY SaveFacts
  <1>3. RowTruth(p)'
    BY <1>1, <1>2 DEF RowTruth, Truthful, Moves
  <1>4. FileTruth(p)'
    BY <1>1, <1>2 DEF TruthSound, FileTruth, Truthful, Moves
  <1>5. DetailsTruth(p)'
    BY <1>1, <1>2 DEF TruthSound, DetailsTruth, Moves
  <1>6. AsyncTruth(p)'
    BY <1>1, <1>2 DEF TruthSound, AsyncTruth, Moves, Holding, Saving
  <1>7. LockSound(p)'
    BY <1>2 DEF LockSound
  <1>8. details' \in [Id -> {"none", "normal", "failure"}] /\ run[p].pc \notin Away
    BY DEF IInv, TypeOK, Saving, Away
  <1>9. TruthSound(p)'
    BY <1>3, <1>4, <1>5, <1>6 DEF TruthSound
  <1> QED BY <1>1, <1>7, <1>8, <1>9, OwnFiles

(* The first state file is published.                                      *)
LEMMA PublishPendingStep ==
  ASSUME IInv, NEW p \in Run, PublishPending(p)
  PROVE  IInv'
  <1>1. run[p].pc = "publish" /\ run[p].pc \in Saving
    BY DEF PublishPending, At, Saving
  <1>2. PICK i \in Id : i = run[p].id
    BY <1>1, SaveFacts
  <1>3. /\ csv[i] = <<>> /\ pending[i] = None /\ consumed[i] = None
        /\ marker[i] # None /\ TypeOK /\ run[p].row \in Row
    BY <1>1, <1>2, SaveFacts DEF SaveSound
  <1>4. UNCHANGED <<marker, consumed, csv, torn, details, recovery, lock, deleted>>
    BY DEF PublishPending
  <1>5. /\ pending' \in [Id -> Row \cup {None}] /\ Touches(pending, pending', i, run[p].row)
        /\ Fault \/ UNCHANGED faults
    <2>1. /\ pending' \in {pending, [pending EXCEPT ![i] = run[p].row]}
          /\ Fault \/ UNCHANGED faults
      BY <1>2, <1>3 DEF PublishPending, MayDo
    <2>2. pending \in [Id -> Row \cup {None}]
      BY <1>3 DEF TypeOK
    <2> QED BY <1>3, <2>1, <2>2 DEF Touches
  <1>6. FilesSound(i)'
    BY <1>3, <1>4 DEF FilesSound, Agree
  <1>7. consumed' \in [Id -> Row \cup {None}] /\ csv' \in [Id -> Seq(Row)]
    BY <1>3, <1>4 DEF TypeOK
  <1>8. PICK s \in {"write", "failed"} :
          Goto(p, s) /\ (s = "write" => pending' = [pending EXCEPT ![i] = run[p].row])
    BY <1>2 DEF PublishPending
  <1>9. SaveSound(p)'
    <2>1. run'[p].pc = s /\ run'[p].row = run[p].row /\ run'[p].id = i
      BY <1>2, <1>3, <1>8, Goes DEF Step, Moves
    <2>2. s = "write" => pending'[i] = run[p].row
      BY <1>3, <1>8 DEF TypeOK
    <2> QED BY <1>3, <1>4, <2>1, <2>2 DEF SaveSound, Proposing, Saving
  <1> QED BY <1>1, <1>2, <1>3, <1>4, <1>5, <1>6, <1>7, <1>8, <1>9, SaveMoves DEF Touches

(* The row is written.                                                     *)
LEMMA WriteRowStep ==
  ASSUME IInv, NEW p \in Run, WriteRow(p)
  PROVE  IInv'
  <1>1. run[p].pc = "write" /\ run[p].pc \in Saving
    BY DEF WriteRow, At, Saving
  <1>2. PICK i \in Id : i = run[p].id
    BY <1>1, SaveFacts
  <1>3. /\ csv[i] = <<>> /\ pending[i] = run[p].row /\ consumed[i] = None
        /\ marker[i] # None /\ TypeOK /\ run[p].row \in Row /\ run[p].row # None
    BY <1>1, <1>2, SaveFacts DEF SaveSound
  <1>4. UNCHANGED <<marker, pending, consumed, torn, details, recovery, lock, deleted>>
    BY DEF WriteRow
  <1>5. Append(csv[i], run[p].row) = <<run[p].row>> /\ <<run[p].row>> \in Seq(Row)
    BY <1>3
  <1>6. /\ csv' \in [Id -> Seq(Row)] /\ Touches(csv, csv', i, <<run[p].row>>)
        /\ Fault \/ UNCHANGED faults
    <2>1. /\ csv' \in {csv, [csv EXCEPT ![i] = <<run[p].row>>]}
          /\ Fault \/ UNCHANGED faults
      BY <1>2, <1>5, <1>3 DEF WriteRow, MayDo
    <2>2. csv \in [Id -> Seq(Row)]
      BY <1>3 DEF TypeOK
    <2> QED BY <1>3, <1>5, <2>1, <2>2 DEF Touches
  <1>7. csv'[i] = <<>> \/ csv'[i] = <<run[p].row>>
    BY <1>3, <1>6 DEF Touches
  <1>8. FilesSound(i)'
    <2>1. Len(csv'[i]) <= 1 /\ (csv'[i] # <<>> => csv'[i][1] = run[p].row)
      BY <1>7, OneRow, Zenon
    <2>2. pending'[i] = run[p].row /\ consumed'[i] = None /\ marker'[i] # None
      BY <1>3, <1>4
    <2> QED BY <1>3, <2>1, <2>2 DEF FilesSound, Agree, Provenance
  <1>9. consumed' \in [Id -> Row \cup {None}] /\ pending' \in [Id -> Row \cup {None}]
    BY <1>3, <1>4 DEF TypeOK
  <1>10. PICK s \in {"consume", "failed"} :
           Goto(p, s) /\ (s = "consume" => csv' = [csv EXCEPT ![i] = <<run[p].row>>])
    BY <1>2, <1>5 DEF WriteRow
  <1>11. SaveSound(p)'
    <2>1. run'[p].pc = s /\ run'[p].row = run[p].row /\ run'[p].id = i
      BY <1>2, <1>3, <1>10, Goes DEF Step, Moves
    <2>2. s = "consume" => csv'[i] = <<run[p].row>>
      BY <1>3, <1>10 DEF TypeOK
    <2> QED BY <1>3, <1>4, <2>1, <2>2 DEF SaveSound, Proposing, Saving
  <1> QED BY <1>1, <1>2, <1>3, <1>4, <1>6, <1>8, <1>9, <1>10, <1>11, SaveMoves DEF Touches

(* The second state file is published.                                     *)
LEMMA PublishConsumedStep ==
  ASSUME IInv, NEW p \in Run, PublishConsumed(p)
  PROVE  IInv'
  <1>1. run[p].pc = "consume" /\ run[p].pc \in Saving
    BY DEF PublishConsumed, At, Saving
  <1>2. PICK i \in Id : i = run[p].id
    BY <1>1, SaveFacts
  <1>3. /\ csv[i] = <<run[p].row>> /\ pending[i] = run[p].row /\ consumed[i] = None
        /\ marker[i] # None /\ TypeOK /\ run[p].row \in Row /\ run[p].row # None
    BY <1>1, <1>2, SaveFacts DEF SaveSound
  <1>4. UNCHANGED <<marker, pending, csv, torn, details, recovery, lock, deleted>>
    BY DEF PublishConsumed
  <1>5. /\ consumed' \in [Id -> Row \cup {None}] /\ Touches(consumed, consumed', i, run[p].row)
        /\ Fault \/ UNCHANGED faults
    <2>1. /\ consumed' \in {consumed, [consumed EXCEPT ![i] = run[p].row]}
          /\ Fault \/ UNCHANGED faults
      BY <1>2, <1>3 DEF PublishConsumed, MayDo
    <2>2. consumed \in [Id -> Row \cup {None}]
      BY <1>3 DEF TypeOK
    <2> QED BY <1>3, <2>1, <2>2 DEF Touches
  <1>6. FilesSound(i)'
    <2>1. Len(csv'[i]) <= 1 /\ (csv'[i] # <<>> => csv'[i][1] = run[p].row)
      BY <1>3, <1>4, OneRow, Zenon
    <2>2. /\ pending'[i] \in {None, run[p].row} /\ consumed'[i] \in {None, run[p].row}
          /\ ~(pending'[i] = None /\ consumed'[i] = None) /\ marker'[i] # None
      BY <1>3, <1>4, <1>5 DEF Touches
    <2>3. csv'[i] # <<>>
      <3>1. csv'[i] = <<run[p].row>> /\ <<run[p].row>> # <<>>
        BY <1>3, <1>4
      <3> QED BY <3>1, Zenon
    <2> QED BY <1>3, <2>1, <2>2, <2>3 DEF FilesSound, Agree, Provenance
  <1>7. pending' \in [Id -> Row \cup {None}] /\ csv' \in [Id -> Seq(Row)]
    BY <1>3, <1>4 DEF TypeOK
  <1>8. PICK s \in {"clear", "failed"} :
          Goto(p, s) /\ (s = "clear" => consumed' = [consumed EXCEPT ![i] = run[p].row])
    BY <1>2 DEF PublishConsumed
  <1>9. SaveSound(p)'
    <2>1. run'[p].pc = s /\ run'[p].row = run[p].row /\ run'[p].id = i
      BY <1>2, <1>3, <1>8, Goes DEF Step, Moves
    <2>2. s = "clear" => consumed'[i] = run[p].row
      BY <1>3, <1>8 DEF TypeOK
    <2> QED BY <1>3, <1>4, <2>1, <2>2 DEF SaveSound, Proposing, Saving
  <1> QED BY <1>1, <1>2, <1>3, <1>4, <1>5, <1>6, <1>7, <1>8, <1>9, SaveMoves DEF Touches

(* The first state file is removed.                                        *)
LEMMA ClearPendingStep ==
  ASSUME IInv, NEW p \in Run, ClearPending(p)
  PROVE  IInv'
  <1>1. run[p].pc = "clear" /\ run[p].pc \in Saving
    BY DEF ClearPending, At, Saving
  <1>2. PICK i \in Id : i = run[p].id
    BY <1>1, SaveFacts
  <1>3. /\ csv[i] = <<run[p].row>> /\ consumed[i] = run[p].row /\ pending[i] \in {None, run[p].row}
        /\ marker[i] # None /\ TypeOK /\ run[p].row \in Row /\ run[p].row # None
    BY <1>1, <1>2, SaveFacts DEF SaveSound
  <1>4. UNCHANGED <<marker, consumed, csv, torn, details, recovery, lock, deleted>>
    BY DEF ClearPending
  <1>5. /\ pending' \in [Id -> Row \cup {None}] /\ Touches(pending, pending', i, None)
        /\ Fault \/ UNCHANGED faults
    <2>1. /\ pending' \in {pending, [pending EXCEPT ![i] = None]}
          /\ Fault \/ UNCHANGED faults
      BY <1>2, <1>3 DEF ClearPending, MayDo
    <2>2. pending \in [Id -> Row \cup {None}]
      BY <1>3 DEF TypeOK
    <2> QED BY <1>3, <2>1, <2>2 DEF Touches
  <1>6. FilesSound(i)'
    <2>1. Len(csv'[i]) <= 1 /\ (csv'[i] # <<>> => csv'[i][1] = run[p].row)
      BY <1>3, <1>4, OneRow, Zenon
    <2>2. /\ pending'[i] \in {None, run[p].row} /\ consumed'[i] \in {None, run[p].row}
          /\ ~(pending'[i] = None /\ consumed'[i] = None) /\ marker'[i] # None
      BY <1>3, <1>4, <1>5 DEF Touches
    <2>3. csv'[i] # <<>>
      <3>1. csv'[i] = <<run[p].row>> /\ <<run[p].row>> # <<>>
        BY <1>3, <1>4
      <3> QED BY <3>1, Zenon
    <2> QED BY <1>3, <2>1, <2>2, <2>3 DEF FilesSound, Agree, Provenance
  <1>7. consumed' \in [Id -> Row \cup {None}] /\ csv' \in [Id -> Seq(Row)]
    BY <1>3, <1>4 DEF TypeOK
  <1>8. PICK s \in {"saved", "failed"} : Goto(p, s)
    BY DEF ClearPending
  <1>9. SaveSound(p)'
    <2>1. run'[p].pc = s
      BY <1>3, <1>8, Goes DEF Step
    <2> QED BY <2>1 DEF SaveSound, Proposing, Saving
  <1> QED BY <1>1, <1>2, <1>3, <1>4, <1>5, <1>6, <1>7, <1>8, <1>9, SaveMoves DEF Touches

(* A step that publishes details, or tries to.                             *)
LEMMA DetailsMove ==
  ASSUME IInv, NEW p \in Run, run[p].pc \notin Away, run[p].pc \notin Holding, Moves(p),
         NEW i \in Id, i = run[p].id,
         UNCHANGED <<marker, pending, consumed, csv, torn, recovery, lock, deleted>>,
         Fault \/ UNCHANGED faults,
         details' \in [Id -> {"none", "normal", "failure"}],
         \A j \in Id : j # i => details'[j] = details[j],
         details'[i] # details[i] => pending[i] = None /\ consumed[i] = None,
         run'[p].pc \in {"check", "fdetails", "frecord", "done"},
         run'[p].pc = "check" => run'[p].row \in Row,
         run'[p].detailsOk => details'[i] # "none",
         RowTruth(p)', AsyncTruth(p)'
  PROVE  IInv'
  <1>1. /\ TypeOK /\ FilesSound(i) /\ marker[i] # None /\ FileTruth(p) /\ p \in Reserved
    BY HasId, ResultStoreAssumption DEF IInv, Shared, TruthSound, Run
  <1>3. /\ pending' \in [Id -> Row \cup {None}] /\ consumed' \in [Id -> Row \cup {None}]
        /\ csv' \in [Id -> Seq(Row)]
    BY <1>1 DEF TypeOK
  <1>4. LockSound(p)'
    BY DEF LockSound, Holding, Saving
  <1>5. FilesSound(i)'
    BY <1>1 DEF FilesSound, Agree, Provenance
  <1>6. SaveSound(p)'
    BY DEF SaveSound, Proposing, Saving
  <1>7. FileTruth(p)'
    <2>1. run'[p].id = i
      BY DEF Moves
    <2>2. CASE details'[i] = details[i]
      BY <1>1, <2>1, <2>2 DEF FileTruth, Truthful
    <2>3. CASE pending[i] = None /\ consumed[i] = None
      BY <2>1, <2>3 DEF FileTruth
    <2> QED BY <2>2, <2>3
  <1>8. DetailsTruth(p)'
    BY <1>1, ResultStoreAssumption DEF DetailsTruth, Moves
  <1>9. TruthSound(p)'
    BY <1>7, <1>8 DEF TruthSound
  <1> QED BY <1>3, <1>4, <1>5, <1>6, <1>9, OwnFiles

(* The details of a measured run are published.                            *)
LEMMA SaveDetailsStep ==
  ASSUME IInv, NEW p \in Run, SaveDetails(p)
  PROVE  IInv' /\ \A i \in Id : details[i] # "none" => details'[i] = details[i]
  <1>1. /\ run[p].pc = "sidecar" /\ run[p].pc \notin Away /\ run[p].pc \notin Holding
        /\ TypeOK
    BY DEF SaveDetails, Away, IInv, At, Holding, Saving
  <1>2. PICK i \in Id : i = run[p].id
    BY <1>1, HasId
  <1>3. /\ UNCHANGED <<marker, pending, consumed, csv, torn, recovery, lock, deleted>>
        /\ Fault \/ UNCHANGED faults
        /\ details' \in [Id -> {"none", "normal", "failure"}]
        /\ \A j \in Id : j # i => details'[j] = details[j]
    BY <1>1, <1>2 DEF SaveDetails, MayDo, TypeOK
  <1>4. /\ details[i] = "none" /\ pending[i] = None /\ consumed[i] = None
        /\ ~run[p].detailsOk
    BY <1>1, <1>2, HasId DEF IInv, Shared, TruthSound, DetailsTruth
  <1>5. FilesSound(i) /\ details \in [Id -> {"none", "normal", "failure"}]
    BY <1>1 DEF IInv, Shared, TypeOK
  <1>6. NormalRow(p) \in Row
    BY RowFacts
  <1>7. /\ Moves(p)
        /\ \/ /\ run'[p].pc = "check" /\ run'[p].row = NormalRow(p) /\ run'[p].detailsOk
              /\ details' = [details EXCEPT ![i] = "normal"]
           \/ /\ run'[p].pc \in {"fdetails", "done"} /\ ~run'[p].detailsOk
           \/ /\ run'[p].pc = "fdetails" /\ details' = [details EXCEPT ![i] = "normal"]
    <2>1. CASE /\ details' = [details EXCEPT ![i] = "normal"]
               /\ run' = [run EXCEPT ![p].detailsOk = TRUE, ![p].call = "normal",
                                     ![p].row = NormalRow(p), ![p].pc = "check"]
      <3> DEFINE y0 == [run[p] EXCEPT !.detailsOk = TRUE, !.call = "normal"]
                 y == [y0 EXCEPT !.row = NormalRow(p), !.pc = "check"]
      <3>1. run[p] \in RunRecord
        BY <1>1 DEF TypeOK, RunRecord
      <3>2. y0 \in RunRecord /\ y0.id = run[p].id /\ y0.detailsOk
        BY <3>1 DEF RunRecord, Call
      <3>3. /\ y \in RunRecord /\ y.id = y0.id /\ y.detailsOk = y0.detailsOk
            /\ y.pc = "check" /\ y.row = NormalRow(p)
        <4> HIDE DEF y0
        <4> QED BY <1>6, <3>2 DEF RunRecord, Step
      <3>4. run' = [run EXCEPT ![p] = y]
        BY <2>1
      <3> HIDE DEF y, y0
      <3> QED BY <1>1, <2>1, <3>2, <3>3, <3>4, Becomes
    <2>2. CASE \E s \in {"fdetails", "done"} : Goto(p, s)
      BY <1>1, <1>4, <2>2, Goes DEF Step
    <2>3. CASE /\ details' = [details EXCEPT ![i] = "normal"]
               /\ run' = [run EXCEPT ![p].detailsOk = TRUE, ![p].pc = "fdetails"]
      <3> DEFINE y == [run[p] EXCEPT !.detailsOk = TRUE, !.pc = "fdetails"]
      <3>1. y \in RunRecord /\ y.id = run[p].id /\ y.pc = "fdetails"
        BY <1>1 DEF TypeOK, RunRecord, Step
      <3>2. run' = [run EXCEPT ![p] = y]
        BY <2>3
      <3> HIDE DEF y
      <3> QED BY <1>1, <2>3, <3>1, <3>2, Becomes
    <2> QED BY <1>2, <2>1, <2>2, <2>3 DEF SaveDetails
  <1>8. run'[p].id = i
    BY <1>2, <1>7 DEF Moves
  <1>9. RowTruth(p)' /\ AsyncTruth(p)'
    BY <1>5, <1>6, <1>7, <1>8, RowFacts
    DEF RowTruth, AsyncTruth, Truthful, Proposing, Saving, Holding
  <1>10. /\ run'[p].pc \in {"check", "fdetails", "frecord", "done"}
         /\ run'[p].pc = "check" => run'[p].row \in Row
    BY <1>6, <1>7
  <1>11. run'[p].detailsOk => details'[i] # "none"
    BY <1>5, <1>7
  <1>12. IInv'
    BY <1>1, <1>2, <1>3, <1>4, <1>7, <1>9, <1>10, <1>11, DetailsMove
  <1> QED BY <1>3, <1>4, <1>5, <1>12

(* The row of a failure, and where its save goes on.                       *)
LEMMA FailureSaveFacts ==
  ASSUME TypeOK, NEW p \in Run, NEW hasDetails \in BOOLEAN, NEW hasRecovery \in BOOLEAN,
         FailureSave(p, hasDetails, hasRecovery)
  PROVE  /\ Moves(p) /\ run'[p].detailsOk = hasDetails
         /\ run'[p].pc \in {"check", "frecord"} /\ run'[p].call \in {"failure", "final"}
         /\ run'[p].pc = "check" =>
              /\ run'[p].row \in Row /\ run'[p].row.kind = "failure"
              /\ run'[p].row.details = hasDetails
  <1>1. PICK s \in {"check", "frecord"}, c \in {"failure", "final"}, x \in Row \cup {None} :
          /\ run' = [run EXCEPT ![p].detailsOk = hasDetails, ![p].recover = hasRecovery,
                                ![p].pc = s, ![p].call = c, ![p].row = x]
          /\ s = "check" => x \in Row /\ x.kind = "failure" /\ x.details = hasDetails
    <2> DEFINE s == IF run[p].csvOk THEN "frecord" ELSE "check"
               c == IF run[p].call = "final" THEN "final" ELSE "failure"
               y == [FailureRow(hasDetails, hasRecovery) EXCEPT
                       !.stamp = IF run[p].call = "final" THEN "final" ELSE "failure"]
               x == IF run[p].csvOk THEN run[p].row ELSE y
    <2>1. y \in Row /\ y.kind = "failure" /\ y.details = hasDetails
      BY DEF FailureRow, Row, Call
    <2>2. run[p].row \in Row \cup {None}
      BY DEF TypeOK
    <2>3. run' = [run EXCEPT ![p].detailsOk = hasDetails, ![p].recover = hasRecovery,
                             ![p].pc = s, ![p].call = c, ![p].row = x]
      BY DEF FailureSave, TypeOK
    <2>4. s \in {"check", "frecord"} /\ c \in {"failure", "final"} /\ x \in Row \cup {None}
      BY <2>1, <2>2
    <2>5. s = "check" => x \in Row /\ x.kind = "failure" /\ x.details = hasDetails
      BY <2>1
    <2> HIDE DEF s, c, x, y
    <2> QED BY <2>3, <2>4, <2>5
  <1> DEFINE y0 == [run[p] EXCEPT !.detailsOk = hasDetails, !.recover = hasRecovery]
             y1 == [y0 EXCEPT !.pc = s, !.call = c]
             y == [y1 EXCEPT !.row = x]
  <1>2. run[p] \in RunRecord
    BY DEF TypeOK, RunRecord
  <1>3. y0 \in RunRecord /\ y0.id = run[p].id /\ y0.detailsOk = hasDetails
    BY <1>2 DEF RunRecord
  <1>4. /\ y1 \in RunRecord /\ y1.id = y0.id /\ y1.detailsOk = y0.detailsOk
        /\ y1.pc = s /\ y1.call = c
    <2> HIDE DEF y0
    <2> QED BY <1>1, <1>3 DEF RunRecord, Step, Call
  <1>5. /\ y \in RunRecord /\ y.id = y1.id /\ y.detailsOk = y1.detailsOk
        /\ y.pc = s /\ y.call = c /\ y.row = x
    <2> HIDE DEF y1
    <2> QED BY <1>1, <1>4 DEF RunRecord
  <1>6. run' = [run EXCEPT ![p] = y]
    BY <1>1
  <1> HIDE DEF y, y0, y1
  <1>7. Moves(p) /\ run'[p] = y
    BY <1>3, <1>4, <1>5, <1>6, Becomes
  <1>8. /\ run'[p].pc = s /\ run'[p].call = c /\ run'[p].row = x
    BY <1>5, <1>7
  <1>9. run'[p].detailsOk = hasDetails
    BY <1>3, <1>4, <1>5, <1>7
  <1> QED BY <1>1, <1>7, <1>8, <1>9

(* The details of a failure are published, if none are.                    *)
LEMMA FailureDetailsStep ==
  ASSUME IInv, NEW p \in Run, FailureDetails(p)
  PROVE  IInv' /\ \A i \in Id : details[i] # "none" => details'[i] = details[i]
  <1>1. /\ run[p].pc = "fdetails" /\ run[p].pc \notin Away /\ run[p].pc \notin Holding
        /\ TypeOK
    BY DEF FailureDetails, Away, IInv, At, Holding, Saving
  <1>2. PICK i \in Id : i = run[p].id
    BY <1>1, HasId
  <1>3. /\ UNCHANGED <<marker, pending, consumed, csv, torn, recovery, lock, deleted>>
        /\ Fault \/ UNCHANGED faults
        /\ details' \in [Id -> {"none", "normal", "failure"}]
        /\ \A j \in Id : j # i => details'[j] = details[j]
    BY <1>1, <1>2 DEF FailureDetails, MayDo, TypeOK
  <1>4. run[p].detailsOk => details[i] # "none"
    BY <1>1, <1>2, HasId DEF IInv, Shared, TruthSound, DetailsTruth
  <1>5. details \in [Id -> {"none", "normal", "failure"}] /\ run[p].csvOk \in BOOLEAN
    BY <1>1 DEF TypeOK
  <1>6. \/ UNCHANGED details
        \/ details[i] = "none" /\ pending[i] = None /\ consumed[i] = None
    BY <1>2 DEF FailureDetails, MayPublishDetails, ActiveOnly
  <1>7. PICK hd \in BOOLEAN, hr \in BOOLEAN :
          FailureSave(p, hd, hr) /\ (hd => details'[i] # "none")
    BY <1>2, <1>4, <1>5 DEF FailureDetails
  <1>8. /\ Moves(p) /\ run'[p].detailsOk = hd
        /\ run'[p].pc \in {"check", "frecord"} /\ run'[p].call \in {"failure", "final"}
        /\ run'[p].pc = "check" =>
             /\ run'[p].row \in Row /\ run'[p].row.kind = "failure"
             /\ run'[p].row.details = hd
    BY <1>1, <1>7, FailureSaveFacts
  <1>9. run'[p].id = i
    BY <1>2, <1>8 DEF Moves
  <1>10. RowTruth(p)'
    BY <1>7, <1>8, <1>9 DEF RowTruth, Truthful, Proposing, Saving
  <1>11. AsyncTruth(p)'
    BY <1>8 DEF AsyncTruth
  <1>12. run'[p].detailsOk => details'[i] # "none"
    BY <1>7, <1>8, Zenon
  <1>13. run'[p].pc \in {"check", "fdetails", "frecord", "done"}
    BY <1>8
  <1>14. run'[p].pc = "check" => run'[p].row \in Row
    BY <1>8
  <1>15. details'[i] # details[i] => pending[i] = None /\ consumed[i] = None
    BY <1>6
  <1>16. Moves(p)
    BY <1>8
  <1>17. IInv'
    BY <1>1, <1>2, <1>3, <1>10, <1>11, <1>12, <1>13, <1>14, <1>15, <1>16, DetailsMove
  <1> QED BY <1>3, <1>5, <1>6, <1>17

-----------------------------------------------------------------------------
(* Steps that are not a reserved run's own save.                           *)

(* What holds of a run goes on to hold if neither it nor its files change. *)
LEMMA Untouched ==
  ASSUME IInv, NEW q \in Reserved, run'[q] = run[q],
         run[q].id # None =>
           /\ marker'[run[q].id] = marker[run[q].id]
           /\ pending'[run[q].id] = pending[run[q].id]
           /\ consumed'[run[q].id] = consumed[run[q].id]
           /\ csv'[run[q].id] = csv[run[q].id]
           /\ details'[run[q].id] = details[run[q].id]
  PROVE  OwnerSound(q)' /\ SaveSound(q)' /\ TruthSound(q)'
  <1>1. OwnerSound(q) /\ SaveSound(q) /\ TruthSound(q)
    BY DEF IInv, Shared
  <1>2. OwnerSound(q)'
    BY <1>1 DEF OwnerSound
  <1>3. CASE run[q].id = None
    <2>1. run[q].pc \in Away
      BY <1>1, <1>3 DEF OwnerSound
    <2>2. SaveSound(q)'
      BY <2>1 DEF SaveSound, Proposing, Saving, Away
    <2>3. TruthSound(q)'
      BY <1>1, <1>3, <2>1
      DEF TruthSound, RowTruth, FileTruth, DetailsTruth, AsyncTruth, Proposing, Saving,
          Holding, Away
    <2> QED BY <1>2, <2>2, <2>3
  <1>4. CASE run[q].id # None
    <2>1. SaveSound(q)'
      BY <1>1, <1>4 DEF SaveSound
    <2>2. TruthSound(q)'
      BY <1>1, <1>4
      DEF TruthSound, RowTruth, FileTruth, DetailsTruth, AsyncTruth, Truthful
    <2> QED BY <1>2, <2>1, <2>2
  <1> QED BY <1>3, <1>4

(* A reservation takes an id that nothing is known of.                     *)
LEMMA ReserveStep ==
  ASSUME IInv, NEW p \in Run, Reserve(p)
  PROVE  IInv'
  <1>1. /\ run[p].pc = "start" /\ p \in Reserved /\ TypeOK
        /\ UNCHANGED <<pending, consumed, csv, torn, details, recovery, lock, deleted>>
        /\ Fault \/ UNCHANGED faults
    BY DEF Reserve, IInv, At
  <1>2. run[p].id = None /\ ~run[p].detailsOk
    BY <1>1 DEF IInv, Shared, OwnerSound, TruthSound, DetailsTruth
  <1>3. ASSUME Others(p), run' \in [Run -> RunRecord],
               NEW i \in Id, csv[i] = <<>>, marker[i] = None,
               marker' \in {marker, [marker EXCEPT ![i] = p]},
               ~run'[p].detailsOk,
               \/ run'[p].pc = "done" /\ run'[p].id = None
               \/ run'[p].pc = "measure" /\ run'[p].id = i /\ marker'[i] = p
        PROVE  IInv'
    <2>1. /\ marker' \in [Id -> Reserved \cup {None}]
          /\ \A j \in Id : j # i => marker'[j] = marker[j]
      BY <1>1, <1>3 DEF TypeOK
    <2>2. FilesSound(i) /\ \A j \in Id : FilesSound(j)
      BY DEF IInv, Shared
    <2>3. FilesSound(i)'
      BY <1>1, <1>3, <2>2 DEF FilesSound, Agree
    <2>4. \A j \in Id : FilesSound(j)'
      BY <1>1, <2>1, <2>2, <2>3 DEF FilesSound, Agree, Provenance
    <2>5. \A q \in Run : LockSound(q)'
      BY <1>1, <1>3 DEF IInv, Shared, LockSound, Others, Holding, Saving
    <2>6. ASSUME NEW q \in Reserved, q # p
          PROVE  OwnerSound(q)' /\ SaveSound(q)' /\ TruthSound(q)'
      <3>1. run'[q] = run[q] /\ run[q].id \in Id \cup {None}
        BY <1>1, <1>3, <2>6 DEF Others, Run, TypeOK
      <3>2. run[q].id # None => run[q].id # i
        BY <1>3, ResultStoreAssumption DEF IInv, Shared, OwnerSound, Run
      <3> QED BY <1>1, <2>1, <3>1, <3>2, Untouched
    <2>7. OwnerSound(p)'
      BY <1>3, ResultStoreAssumption DEF OwnerSound, Away
    <2>8. SaveSound(p)'
      BY <1>3 DEF SaveSound, Proposing, Saving
    <2>9. TruthSound(p)'
      <3>1. pending[i] = None /\ consumed[i] = None /\ details[i] = "none"
        BY <1>3, <2>2 DEF FilesSound
      <3>2. RowTruth(p)' /\ AsyncTruth(p)'
        BY <1>3 DEF RowTruth, AsyncTruth, Proposing, Saving, Holding
      <3>3. FileTruth(p)'
        BY <1>1, <1>3, <3>1 DEF FileTruth
      <3>4. DetailsTruth(p)'
        BY <1>1, <1>3, <3>1 DEF DetailsTruth
      <3> QED BY <3>2, <3>3, <3>4 DEF TruthSound
    <2>10. PlainSound'
      BY <1>1, <1>3, ResultStoreAssumption DEF IInv, Shared, PlainSound, Others, Run
    <2>11. TypeOK'
      BY <1>1, <1>3, <2>1, FaultFacts DEF TypeOK, RunRecord
    <2> QED BY <2>4, <2>5, <2>6, <2>7, <2>8, <2>9, <2>10, <2>11 DEF IInv, Shared
  <1>4. CASE \E i \in Id :
               /\ csv[i] = <<>> /\ marker[i] = None
               /\ marker' = [marker EXCEPT ![i] = p]
               /\ run' = [run EXCEPT ![p].id = i, ![p].pc = "measure"]
    <2>1. PICK i \in Id :
            /\ csv[i] = <<>> /\ marker[i] = None
            /\ marker' = [marker EXCEPT ![i] = p]
            /\ run' = [run EXCEPT ![p].id = i, ![p].pc = "measure"]
      BY <1>4
    <2> DEFINE y == [run[p] EXCEPT !.id = i, !.pc = "measure"]
    <2>2. /\ y \in RunRecord /\ y.id = i /\ y.pc = "measure"
          /\ y.detailsOk = run[p].detailsOk
      BY <1>1 DEF TypeOK, RunRecord, Step
    <2>3. run' = [run EXCEPT ![p] = y]
      BY <2>1
    <2> HIDE DEF y
    <2>4. run' \in [Run -> RunRecord] /\ run'[p] = y /\ Others(p)
      BY <1>1, <2>2, <2>3 DEF TypeOK, RunRecord, Others
    <2>5. marker'[i] = p
      BY <1>1, <2>1 DEF TypeOK
    <2>6. ~run'[p].detailsOk
      BY <1>2, <2>2, <2>4
    <2> QED BY <1>3, <2>1, <2>2, <2>4, <2>5, <2>6
  <1>5. CASE /\ Goto(p, "done")
             /\ \E i \in Id : /\ csv[i] = <<>> /\ marker[i] = None
                              /\ marker' \in {marker, [marker EXCEPT ![i] = p]}
    <2>1. /\ Moves(p) /\ run'[p].pc = "done" /\ run'[p].detailsOk = run[p].detailsOk
      BY <1>1, <1>5, Goes DEF Step
    <2>2. ~run'[p].detailsOk /\ run'[p].id = None
      BY <1>2, <2>1 DEF Moves
    <2> QED BY <1>3, <1>5, <2>1, <2>2 DEF Moves
  <1>6. CASE Goto(p, "done") /\ UNCHANGED marker
    <2>1. /\ Moves(p) /\ run'[p].pc = "done" /\ run'[p].detailsOk = run[p].detailsOk
      BY <1>1, <1>6, Goes DEF Step
    <2>2. \A q \in Reserved \ {p} : OwnerSound(q)' /\ SaveSound(q)' /\ TruthSound(q)'
      BY <1>1, <1>6, <2>1, Untouched DEF Moves, Others, Run
    <2>3. OwnerSound(p)' /\ SaveSound(p)' /\ TruthSound(p)'
      BY <1>2, <2>1
      DEF Moves, OwnerSound, SaveSound, TruthSound, RowTruth, FileTruth, DetailsTruth,
          AsyncTruth, Away, Proposing, Saving, Holding
    <2>4. \A j \in Id : FilesSound(j)'
      BY <1>1, <1>6 DEF IInv, Shared, FilesSound, Agree, Provenance
    <2>5. \A q \in Run : LockSound(q)'
      BY <1>1, <2>1 DEF IInv, Shared, LockSound, Moves, Others, Holding, Saving
    <2>6. PlainSound'
      BY <1>1, <2>1, ResultStoreAssumption
      DEF IInv, Shared, PlainSound, Moves, Others, Run
    <2>7. TypeOK'
      BY <1>1, <1>6, <2>1, FaultFacts DEF TypeOK, RunRecord, Moves
    <2> QED BY <2>2, <2>3, <2>4, <2>5, <2>6, <2>7 DEF IInv, Shared
  <1> QED BY <1>4, <1>5, <1>6 DEF Reserve, MayDo

(* A plain save appends to an id without a marker.                         *)
LEMMA SavePlainStep ==
  ASSUME IInv, NEW p \in Run, SavePlain(p)
  PROVE  IInv'
  <1>1. /\ p \in PlainRun /\ p \notin Reserved /\ TypeOK /\ run[p].pc = "start"
        /\ UNCHANGED <<marker, pending, consumed, details, recovery, lock, deleted>>
        /\ Fault \/ UNCHANGED faults
    BY ResultStoreAssumption DEF SavePlain, IInv, At
  <1>2. torn' \in BOOLEAN
    BY <1>1 DEF SavePlain, TypeOK
  <1>3. run' \in [Run -> RunRecord] /\ run'[p].pc = "done" /\ Others(p)
    <2>1. CASE Goto(p, "done")
      BY <1>1, <2>1, Goes DEF Step, Moves
    <2>2. CASE \E i \in Id :
            run' = [run EXCEPT ![p].id = i, ![p].announced = TRUE, ![p].pc = "done"]
      <3>1. PICK i \in Id :
              run' = [run EXCEPT ![p].id = i, ![p].announced = TRUE, ![p].pc = "done"]
        BY <2>2
      <3> DEFINE y0 == [run[p] EXCEPT !.id = i, !.announced = TRUE]
                 y == [y0 EXCEPT !.pc = "done"]
      <3>2. y0 \in RunRecord
        BY <1>1 DEF TypeOK, RunRecord
      <3>3. y \in RunRecord /\ y.pc = "done"
        <4> HIDE DEF y0
        <4> QED BY <3>2 DEF RunRecord, Step
      <3>4. run' = [run EXCEPT ![p] = y]
        BY <3>1
      <3> HIDE DEF y, y0
      <3> QED BY <1>1, <3>3, <3>4 DEF TypeOK, RunRecord, Others
    <2> QED BY <2>1, <2>2 DEF SavePlain
  <1>4. /\ csv' \in [Id -> Seq(Row)]
        /\ \A j \in Id : \/ csv'[j] = csv[j]
                         \/ csv'[j] = <<PlainRow>> /\ marker[j] = None
    <2>1. CASE UNCHANGED csv
      BY <1>1, <2>1 DEF TypeOK
    <2>2. CASE \E i \in Id : FreeForPlain(i) /\ csv' = [csv EXCEPT ![i] = <<PlainRow>>]
      <3>1. <<PlainRow>> \in Seq(Row)
        BY RowFacts
      <3> QED BY <1>1, <2>2, <3>1 DEF TypeOK, FreeForPlain, Occupied
    <2>3. \A i \in Id : FreeForPlain(i) => Append(csv[i], PlainRow) = <<PlainRow>>
      BY DEF FreeForPlain
    <2>4. ASSUME NEW i \in Id, FreeForPlain(i), csv' = [csv EXCEPT ![i] = Append(@, PlainRow)]
          PROVE  csv' = [csv EXCEPT ![i] = <<PlainRow>>]
      BY <2>3, <2>4
    <2> QED BY <2>1, <2>2, <2>4 DEF SavePlain, MayDo
  <1>5. ASSUME NEW j \in Id PROVE FilesSound(j)'
    <2>1. FilesSound(j)
      BY DEF IInv, Shared
    <2>2. CASE csv'[j] = csv[j]
      BY <1>1, <2>1, <2>2 DEF FilesSound, Agree, Provenance
    <2>3. CASE csv'[j] = <<PlainRow>> /\ marker[j] = None
      <3>1. Len(csv'[j]) <= 1
        BY <2>3, OneRow, Zenon
      <3> QED BY <1>1, <2>1, <2>3, <3>1 DEF FilesSound, Agree
    <2> QED BY <1>4, <2>2, <2>3
  <1>6. ASSUME NEW q \in Reserved
        PROVE  OwnerSound(q)' /\ SaveSound(q)' /\ TruthSound(q)'
    <2>1. run'[q] = run[q] /\ run[q].id \in Id \cup {None} /\ q # None
      BY <1>1, <1>3, ResultStoreAssumption DEF Others, Run, TypeOK
    <2>2. run[q].id # None => marker[run[q].id] # None
      BY <2>1 DEF IInv, Shared, OwnerSound
    <2> QED BY <1>1, <1>4, <2>1, <2>2, Untouched
  <1>7. \A q \in Run : LockSound(q)'
    BY <1>1, <1>3 DEF IInv, Shared, LockSound, Others, Holding, Saving
  <1>8. PlainSound'
    BY <1>1, <1>3 DEF IInv, Shared, PlainSound, Others, Run
  <1>9. TypeOK'
    BY <1>1, <1>2, <1>3, <1>4, FaultFacts DEF TypeOK, RunRecord
  <1> QED BY <1>5, <1>6, <1>7, <1>8, <1>9 DEF IInv, Shared

(* A deletion finds no save under way: it has the lock.                    *)
LEMMA DeleteStep ==
  ASSUME IInv, NEW i \in Id, Delete(i)
  PROVE  IInv'
  <1>1. /\ UNCHANGED <<marker, pending, consumed, torn, details, recovery, lock, run>>
        /\ UNCHANGED faults /\ lock = None /\ TypeOK
        /\ csv' = [csv EXCEPT ![i] = <<>>] /\ deleted' = deleted \cup {i}
    BY DEF Delete, IInv
  <1>2. csv' \in [Id -> Seq(Row)] /\ csv'[i] = <<>> /\ \A j \in Id : j # i => csv'[j] = csv[j]
    <2>1. <<>> \in Seq(Row)
      OBVIOUS
    <2> QED BY <1>1, <2>1 DEF TypeOK
  <1>3. ASSUME NEW j \in Id PROVE FilesSound(j)'
    <2>1. FilesSound(j)
      BY DEF IInv, Shared
    <2>2. CASE j = i
      BY <1>1, <1>2, <2>1, <2>2 DEF FilesSound, Agree
    <2>3. CASE j # i
      BY <1>1, <1>2, <2>1, <2>3 DEF FilesSound, Agree, Provenance
    <2> QED BY <2>2, <2>3
  <1>4. ASSUME NEW q \in Reserved
        PROVE  OwnerSound(q)' /\ SaveSound(q)' /\ TruthSound(q)'
    <2>1. OwnerSound(q) /\ SaveSound(q) /\ TruthSound(q)
      BY DEF IInv, Shared
    <2>2. run[q].pc \notin Holding
      BY <1>1, ResultStoreAssumption DEF IInv, Shared, LockSound, Run
    <2>3. OwnerSound(q)'
      BY <1>1, <2>1 DEF OwnerSound
    <2>4. SaveSound(q)'
      BY <1>1, <2>1, <2>2 DEF SaveSound, Holding, Saving
    <2>5. TruthSound(q)'
      BY <1>1, <2>1
      DEF TruthSound, RowTruth, FileTruth, DetailsTruth, AsyncTruth, Truthful
    <2> QED BY <2>3, <2>4, <2>5
  <1>5. \A q \in Run : LockSound(q)'
    BY <1>1 DEF IInv, Shared, LockSound
  <1>6. PlainSound'
    BY <1>1 DEF IInv, Shared, PlainSound
  <1>7. TypeOK'
    BY <1>1, <1>2 DEF TypeOK
  <1> QED BY <1>3, <1>4, <1>5, <1>6, <1>7 DEF IInv, Shared

-----------------------------------------------------------------------------
(* The invariant holds at the start.                                       *)
LEMMA InitInvariant == Init => IInv
  <1> SUFFICES ASSUME Init PROVE IInv
    OBVIOUS
  <1>1. NewRun \in RunRecord
    BY DEF NewRun, RunRecord, Step, Call
  <1>2. TypeOK
    <2>1. run \in [Run -> RunRecord]
      <3> HIDE DEF NewRun
      <3> QED BY <1>1 DEF Init
    <2>2. faults \in 0..MaxFault
      BY ResultStoreAssumption DEF Init
    <2>3. csv \in [Id -> Seq(Row)]
      BY DEF Init
    <2> QED BY <2>1, <2>2, <2>3 DEF Init, TypeOK, RunRecord
  <1>3. \A i \in Id : FilesSound(i)
    BY DEF Init, FilesSound, Agree
  <1>4. \A p \in Run : run[p].pc = "start" /\ run[p].id = None /\ ~run[p].detailsOk
    BY DEF Init, NewRun
  <1>5. \A p \in Run : LockSound(p)
    BY <1>4 DEF LockSound, Holding, Saving
  <1>6. ASSUME NEW p \in Reserved PROVE OwnerSound(p) /\ SaveSound(p) /\ TruthSound(p)
    <2>1. run[p].pc = "start" /\ run[p].id = None /\ ~run[p].detailsOk
      BY <1>4 DEF Run
    <2> QED BY <2>1
            DEF OwnerSound, SaveSound, TruthSound, RowTruth, FileTruth, DetailsTruth,
                AsyncTruth, Away, Proposing, Saving, Holding
  <1>7. PlainSound
    BY <1>4 DEF PlainSound, Run
  <1> QED BY <1>2, <1>3, <1>5, <1>6, <1>7 DEF IInv, Shared

(* Every step keeps the invariant.                                         *)
LEMMA NextInvariant == IInv /\ [Next]_vars => IInv'
  <1> SUFFICES ASSUME IInv, [Next]_vars PROVE IInv'
    OBVIOUS
  <1>1. CASE UNCHANGED vars
    <2>1. /\ UNCHANGED <<marker, pending, consumed, csv, torn, details, recovery>>
          /\ UNCHANGED <<lock, run, deleted, faults>>
      BY <1>1 DEF vars, files
    <2>2. TypeOK'
      BY <2>1 DEF IInv, TypeOK
    <2>3. \A i \in Id : FilesSound(i)'
      BY <2>1 DEF IInv, Shared, FilesSound, Agree, Provenance
    <2>4. \A p \in Reserved : OwnerSound(p)' /\ SaveSound(p)' /\ TruthSound(p)'
      BY <2>1, Untouched
    <2>5. (\A p \in Run : LockSound(p)') /\ PlainSound'
      BY <2>1 DEF IInv, Shared, LockSound, PlainSound
    <2> QED BY <2>2, <2>3, <2>4, <2>5 DEF IInv, Shared
  <1>2. CASE \E i \in Id : Delete(i)
    BY <1>2, DeleteStep
  <1>3. ASSUME NEW p \in Run, RunStep(p) PROVE IInv'
    BY <1>3, ReserveStep, SavePlainStep, MeasuredStep, MeasurementFailsStep,
       SaveDetailsStep, CheckStep, PublishPendingStep, WriteRowStep, PublishConsumedStep,
       ClearPendingStep, SavedStep, SaveFailsStep, InspectStep, FailureDetailsStep,
       FailureRecordStep, UnwindStep
    DEF RunStep
  <1>4. ASSUME NEW p \in Run, Crash(p) PROVE IInv'
    BY <1>4, CrashStep
  <1> QED BY <1>1, <1>2, <1>3, <1>4 DEF Next

(* The invariant holds in every state of every run.                        *)
THEOREM Invariance == Spec => []IInv
  BY InitInvariant, NextInvariant, PTL DEF Spec

(* Every variable keeps its type.                                          *)
THEOREM TypeCorrect == Spec => []TypeOK
  <1>1. IInv => TypeOK
    BY DEF IInv
  <1> QED BY <1>1, Invariance, PTL

(* A run id has at most one row, the one its state files vouch for.        *)
THEOREM RowsAreVouchedFor == Spec => []RowIsVouchedFor
  <1>1. IInv => RowIsVouchedFor
    BY DEF IInv, Shared, FilesSound, RowIsVouchedFor
  <1> QED BY <1>1, Invariance, PTL

(* A row agrees with the details that are on disk.                         *)
THEOREM RowsTellTheTruth == Spec => []RowTellsTheTruth
  <1>1. ASSUME IInv, NEW p \in Reserved, run[p].id # None,
               NEW k \in 1..Len(csv[run[p].id])
        PROVE  Truthful(p, csv[run[p].id][k])
    <2>1. PICK i \in Id : i = run[p].id
      BY <1>1 DEF IInv, TypeOK, Run
    <2>2. FilesSound(i) /\ FileTruth(p) /\ marker[i] = p /\ p # None
      BY <1>1, <2>1, ResultStoreAssumption
      DEF IInv, Shared, TruthSound, OwnerSound, Run
    <2>3. csv[i] \in Seq(Row) /\ Len(csv[i]) <= 1
      BY <2>1, <2>2, <1>1 DEF FilesSound, IInv, TypeOK
    <2>4. k = 1 /\ csv[i] # <<>> /\ csv[i][1] \in Row
      BY <1>1, <2>1, <2>3
    <2>5. Provenance(i) = csv[i][1] /\ csv[i][1] # None
      BY <2>2, <2>4, ResultStoreAssumption DEF FilesSound
    <2>6. csv[i][1] \in {pending[i], consumed[i]}
      BY <2>5 DEF Provenance
    <2>7. Truthful(p, csv[i][1])
      <3>1. i # None
        BY ResultStoreAssumption
      <3>2. CASE csv[i][1] = pending[i]
        BY <2>1, <2>2, <2>5, <3>1, <3>2 DEF FileTruth
      <3>3. CASE csv[i][1] = consumed[i]
        BY <2>1, <2>2, <2>5, <3>1, <3>3 DEF FileTruth
      <3> QED BY <2>6, <3>2, <3>3
    <2> QED BY <2>1, <2>4, <2>7
  <1>2. IInv => RowTellsTheTruth
    BY <1>1 DEF RowTellsTheTruth, Truthful
  <1> QED BY <1>2, Invariance, PTL

(* A consumed file promises a row: only a user's deletion takes it away.   *)
THEOREM ConsumedRowsStay == Spec => []ConsumedHasRow
  <1>1. IInv => ConsumedHasRow
    BY DEF IInv, Shared, FilesSound, ConsumedHasRow
  <1> QED BY <1>1, Invariance, PTL

(* Published details are never replaced.                                   *)
THEOREM DetailsStay == Spec => DetailsArePermanent
  <1> DEFINE Kept == \A i \in Id : details[i] # "none" => details'[i] = details[i]
  <1>1. ASSUME IInv, NEW p \in Run, RunStep(p) PROVE Kept
    <2>1. CASE SaveDetails(p)
      BY <1>1, <2>1, SaveDetailsStep
    <2>2. CASE FailureDetails(p)
      BY <1>1, <2>2, FailureDetailsStep
    <2>3. CASE ~(SaveDetails(p) \/ FailureDetails(p))
      <3>1. UNCHANGED details
        BY <1>1, <2>3
        DEF RunStep, Reserve, SavePlain, Measured, MeasurementFails, Check,
            PublishPending, WriteRow, PublishConsumed, ClearPending, Saved, SaveFails,
            Inspect, FailureRecord, Unwind, files
      <3> QED BY <3>1
    <2> QED BY <2>1, <2>2, <2>3
  <1>2. ASSUME NEW p \in Run, Crash(p) PROVE Kept
    BY <1>2 DEF Crash, files
  <1>3. ASSUME NEW i \in Id, Delete(i) PROVE Kept
    BY <1>3 DEF Delete
  <1>4. IInv /\ [Next]_vars => [Kept]_vars
    BY <1>1, <1>2, <1>3 DEF Next
  <1> HIDE DEF Kept
  <1>5. Spec => [][Kept]_vars
    BY <1>4, Invariance, PTL DEF Spec
  <1> QED BY <1>5 DEF DetailsArePermanent, Kept

-----------------------------------------------------------------------------
(* The refinement: what readers see, and what the store has committed to.  *)
Intent == [i \in Id |-> Provenance(i)]
Visible == [i \in Id |-> IF marker[i] # None /\ csv[i] # <<>> THEN csv[i][1] ELSE None]
Closed == {i \in Id : consumed[i] # None}
ContractStutters == Intent' = Intent /\ Visible' = Visible /\ Closed' = Closed

(* A step that leaves markers, state files and rows alone says nothing new. *)
LEMMA SameFiles ==
  ASSUME UNCHANGED <<marker, pending, consumed, csv>>
  PROVE  ContractStutters
  BY DEF ContractStutters, Intent, Visible, Closed, Provenance

(* The first state file commits to the row.                                *)
LEMMA PublishIntends ==
  ASSUME IInv, NEW p \in Run, PublishPending(p)
  PROVE  (\E i \in Id : Contract!Intend(i)) \/ ContractStutters
  <1>1. run[p].pc \in Saving
    BY DEF PublishPending, At, Saving
  <1>2. PICK i \in Id : i = run[p].id
    BY <1>1, SaveFacts
  <1>3. /\ pending[i] = None /\ consumed[i] = None /\ TypeOK
        /\ run[p].row \in Row /\ run[p].row # None
        /\ UNCHANGED <<marker, consumed, csv>>
    BY <1>1, <1>2, SaveFacts DEF SaveSound, PublishPending, At
  <1>4. CASE UNCHANGED pending
    BY <1>3, <1>4, SameFiles
  <1>5. CASE pending' = [pending EXCEPT ![i] = run[p].row]
    <2>1. \A j \in Id : pending'[j] = IF j = i THEN run[p].row ELSE pending[j]
      BY <1>3, <1>5 DEF TypeOK
    <2>2. \A j \in Id : Provenance(j)' = IF j = i THEN run[p].row ELSE Provenance(j)
      BY <1>3, <2>1 DEF Provenance
    <2>3. Intent[i] = None
      BY <1>3 DEF Intent, Provenance
    <2>4. Intent' = [Intent EXCEPT ![i] = run[p].row]
      BY <2>2 DEF Intent
    <2>5. Visible' = Visible /\ Closed' = Closed
      BY <1>3 DEF Visible, Closed
    <2>6. Contract!Intend(i)
      BY <1>3, <2>3, <2>4, <2>5 DEF Contract!Intend, Intent, Visible, Closed
    <2> QED BY <2>6
  <1> QED BY <1>2, <1>4, <1>5 DEF PublishPending, MayDo

(* The row that appears is the one committed to.                           *)
LEMMA WriteRecords ==
  ASSUME IInv, NEW p \in Run, WriteRow(p)
  PROVE  (\E i \in Id : Contract!Record(i)) \/ ContractStutters
  <1>1. run[p].pc \in Saving
    BY DEF WriteRow, At, Saving
  <1>2. PICK i \in Id : i = run[p].id
    BY <1>1, SaveFacts
  <1>3. /\ csv[i] = <<>> /\ pending[i] = run[p].row /\ consumed[i] = None
        /\ marker[i] # None /\ TypeOK /\ run[p].row \in Row /\ run[p].row # None
        /\ UNCHANGED <<marker, pending, consumed>>
    BY <1>1, <1>2, SaveFacts DEF SaveSound, WriteRow, At
  <1>4. CASE UNCHANGED csv
    BY <1>3, <1>4, SameFiles
  <1>5. CASE csv' = [csv EXCEPT ![i] = <<run[p].row>>]
    <2>1. \A j \in Id : csv'[j] = IF j = i THEN <<run[p].row>> ELSE csv[j]
      BY <1>3, <1>5 DEF TypeOK
    <2>2. csv'[i] # <<>> /\ csv'[i][1] = run[p].row
      BY <2>1
    <2>3. Intent[i] = run[p].row /\ Visible[i] = None /\ i \notin Closed
      BY <1>3 DEF Intent, Provenance, Visible, Closed
    <2>4. Intent' = Intent /\ Closed' = Closed
      BY <1>3 DEF Intent, Provenance, Closed
    <2>5. Visible' = [Visible EXCEPT ![i] = run[p].row]
      <3>1. \A j \in Id : j # i => csv'[j] = csv[j]
        BY <2>1
      <3>2. Visible'[i] = run[p].row /\ \A j \in Id : j # i => Visible'[j] = Visible[j]
        BY <1>3, <2>2, <3>1 DEF Visible
      <3>3. Visible' = [j \in Id |-> Visible'[j]] /\ Visible = [j \in Id |-> Visible[j]]
        BY DEF Visible
      <3> HIDE DEF Visible
      <3> QED BY <3>2, <3>3
    <2>6. Contract!Record(i)
      BY <1>3, <2>3, <2>4, <2>5 DEF Contract!Record, Intent, Visible, Closed
    <2> QED BY <2>6
  <1>6. Append(csv[i], run[p].row) = <<run[p].row>>
    BY <1>3
  <1> QED BY <1>2, <1>4, <1>5, <1>6 DEF WriteRow, MayDo

(* The second state file closes the transaction.                           *)
LEMMA ConsumeCloses ==
  ASSUME IInv, NEW p \in Run, PublishConsumed(p)
  PROVE  (\E i \in Id : Contract!Close(i)) \/ ContractStutters
  <1>1. run[p].pc \in Saving
    BY DEF PublishConsumed, At, Saving
  <1>2. PICK i \in Id : i = run[p].id
    BY <1>1, SaveFacts
  <1>3. /\ pending[i] = run[p].row /\ consumed[i] = None /\ TypeOK
        /\ run[p].row \in Row /\ run[p].row # None
        /\ UNCHANGED <<marker, pending, csv>>
    BY <1>1, <1>2, SaveFacts DEF SaveSound, PublishConsumed, At
  <1>4. CASE UNCHANGED consumed
    BY <1>3, <1>4, SameFiles
  <1>5. CASE consumed' = [consumed EXCEPT ![i] = run[p].row]
    <2>1. \A j \in Id : consumed'[j] = IF j = i THEN run[p].row ELSE consumed[j]
      BY <1>3, <1>5 DEF TypeOK
    <2>2. \A j \in Id : Provenance(j)' = Provenance(j)
      BY <1>3, <2>1 DEF Provenance
    <2>3. Intent' = Intent /\ Visible' = Visible
      BY <1>3, <2>2 DEF Intent, Visible
    <2>4. Closed' = Closed \cup {i} /\ Intent[i] # None
      BY <1>3, <2>1 DEF Closed, Intent, Provenance
    <2>5. Contract!Close(i)
      BY <2>3, <2>4 DEF Contract!Close, Intent, Visible, Closed
    <2> QED BY <2>5
  <1> QED BY <1>2, <1>4, <1>5 DEF PublishConsumed, MayDo

(* Without the pending file the consumed one vouches for the same row.     *)
LEMMA ClearStutters ==
  ASSUME IInv, NEW p \in Run, ClearPending(p)
  PROVE  ContractStutters
  <1>1. run[p].pc \in Saving
    BY DEF ClearPending, At, Saving
  <1>2. PICK i \in Id : i = run[p].id
    BY <1>1, SaveFacts
  <1>3. /\ pending[i] \in {None, run[p].row} /\ consumed[i] = run[p].row /\ TypeOK
        /\ run[p].row # None /\ UNCHANGED <<marker, consumed, csv>>
    BY <1>1, <1>2, SaveFacts DEF SaveSound, ClearPending, At
  <1>4. CASE UNCHANGED pending
    BY <1>3, <1>4, SameFiles
  <1>5. CASE pending' = [pending EXCEPT ![i] = None]
    <2>1. \A j \in Id : pending'[j] = IF j = i THEN None ELSE pending[j]
      BY <1>3, <1>5 DEF TypeOK
    <2>2. \A j \in Id : Provenance(j)' = Provenance(j)
      BY <1>3, <2>1 DEF Provenance
    <2> QED BY <1>3, <2>2 DEF ContractStutters, Intent, Visible, Closed
  <1> QED BY <1>2, <1>4, <1>5 DEF ClearPending, MayDo

(* A marker or an unreserved row appears where no row could be seen.       *)
LEMMA BeginningStutters ==
  ASSUME IInv, NEW p \in Run, Reserve(p) \/ SavePlain(p)
  PROVE  ContractStutters
  <1>1. TypeOK /\ UNCHANGED <<pending, consumed>>
    BY DEF Reserve, SavePlain, IInv
  <1>2. Intent' = Intent /\ Closed' = Closed
    BY <1>1 DEF Intent, Provenance, Closed
  <1>3. CASE Reserve(p)
    <2>1. UNCHANGED csv
      BY <1>3 DEF Reserve
    <2>2. CASE UNCHANGED marker
      BY <2>1, <2>2, <1>2 DEF ContractStutters, Visible
    <2>3. CASE \E i \in Id : csv[i] = <<>> /\ marker' = [marker EXCEPT ![i] = p]
      <3>1. \A j \in Id : csv[j] # <<>> => marker'[j] = marker[j]
        BY <1>1, <2>3 DEF TypeOK
      <3> QED BY <1>2, <2>1, <3>1 DEF ContractStutters, Visible
    <2> QED BY <1>3, <2>2, <2>3 DEF Reserve, MayDo
  <1>4. CASE SavePlain(p)
    <2>1. UNCHANGED marker
      BY <1>4 DEF SavePlain
    <2>2. \A j \in Id : marker[j] # None => csv'[j] = csv[j]
      BY <1>1, <1>4 DEF SavePlain, MayDo, FreeForPlain, Occupied, TypeOK
    <2> QED BY <1>2, <2>1, <2>2 DEF ContractStutters, Visible
  <1> QED BY <1>3, <1>4

(* A deletion is the contract's own step.                                  *)
LEMMA DeletionDeletes ==
  ASSUME IInv, NEW i \in Id, Delete(i)
  PROVE  Contract!Delete(i)
  <1>1. /\ UNCHANGED <<marker, pending, consumed>> /\ csv' = [csv EXCEPT ![i] = <<>>]
        /\ TypeOK
    BY DEF Delete, IInv
  <1>2. csv'[i] = <<>> /\ \A j \in Id : j # i => csv'[j] = csv[j]
    BY <1>1 DEF TypeOK
  <1>3. Visible' = [Visible EXCEPT ![i] = None]
    <2>1. Visible'[i] = None /\ \A j \in Id : j # i => Visible'[j] = Visible[j]
      BY <1>1, <1>2 DEF Visible
    <2>2. Visible' = [j \in Id |-> Visible'[j]] /\ Visible = [j \in Id |-> Visible[j]]
      BY DEF Visible
    <2> HIDE DEF Visible
    <2> QED BY <2>1, <2>2
  <1>4. Intent' = Intent /\ Closed' = Closed
    BY <1>1 DEF Intent, Provenance, Closed
  <1> QED BY <1>3, <1>4 DEF Contract!Delete, Intent, Visible, Closed

(* The reservation protocol implements its contract: a row shows what was  *)
(* committed to, and comes back only from a transaction still open.        *)
THEOREM ContractImplemented == Spec => ImplementsContract
  <1>1. Init => Contract!Init
    BY DEF Init, Contract!Init, Provenance
  <1>2. ContractStutters => UNCHANGED (Contract!vars)
    BY DEF ContractStutters, Contract!vars, Intent, Visible, Closed
  <1>3. ASSUME IInv, NEW p \in Run, RunStep(p)
        PROVE  [Contract!Next]_(Contract!vars)
    <2>1. CASE PublishPending(p)
      BY <1>2, <1>3, <2>1, PublishIntends DEF Contract!Next
    <2>2. CASE WriteRow(p)
      BY <1>2, <1>3, <2>2, WriteRecords DEF Contract!Next
    <2>3. CASE PublishConsumed(p)
      BY <1>2, <1>3, <2>3, ConsumeCloses DEF Contract!Next
    <2>4. CASE ClearPending(p)
      BY <1>2, <1>3, <2>4, ClearStutters
    <2>5. CASE Reserve(p) \/ SavePlain(p)
      BY <1>2, <1>3, <2>5, BeginningStutters
    <2>6. CASE \/ Measured(p) \/ MeasurementFails(p) \/ SaveDetails(p) \/ Check(p)
               \/ Saved(p) \/ SaveFails(p) \/ Inspect(p) \/ FailureDetails(p)
               \/ FailureRecord(p) \/ Unwind(p)
      <3>1. UNCHANGED <<marker, pending, consumed, csv>>
        BY <2>6
        DEF Measured, MeasurementFails, SaveDetails, Check, Saved, SaveFails, Inspect,
            FailureDetails, FailureRecord, Unwind, files
      <3> QED BY <1>2, <3>1, SameFiles
    <2> QED BY <1>3, <2>1, <2>2, <2>3, <2>4, <2>5, <2>6 DEF RunStep
  <1>4. ASSUME NEW p \in Run, Crash(p)
        PROVE  [Contract!Next]_(Contract!vars)
    <2>1. UNCHANGED <<marker, pending, consumed, csv>>
      BY <1>4 DEF Crash, files
    <2> QED BY <1>2, <2>1, SameFiles
  <1>5. ASSUME IInv, NEW i \in Id, Delete(i)
        PROVE  [Contract!Next]_(Contract!vars)
    BY <1>5, DeletionDeletes DEF Contract!Next
  <1>6. ASSUME UNCHANGED vars
        PROVE  [Contract!Next]_(Contract!vars)
    <2>1. UNCHANGED <<marker, pending, consumed, csv>>
      BY <1>6 DEF vars, files
    <2> QED BY <1>2, <2>1, SameFiles
  <1>7. IInv /\ [Next]_vars => [Contract!Next]_(Contract!vars)
    BY <1>3, <1>4, <1>5, <1>6 DEF Next
  <1> QED BY <1>1, <1>7, Invariance, PTL DEF Spec, ImplementsContract, Contract!Spec

=============================================================================
