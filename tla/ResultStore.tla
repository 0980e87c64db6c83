---------------------------- MODULE ResultStore ----------------------------
(***************************************************************************)
(* The result files of one results root, shared by every benchmark process *)
(* and the web server: the CSV, the reservation marker and the pending and *)
(* consumed files of each run id (artifact_reservation.py), the details    *)
(* and recovery sidecars (result_store.py), and the callers that publish   *)
(* them and pick up after a failure (main.py, rngd_server_benchmark.py).   *)
(*                                                                         *)
(* One action is one durable change of a file (a link, a rename, an        *)
(* unlink), or a read and the decision taken from it under the locks.      *)
(* Each change is followed by an fsync before the next one starts, so a    *)
(* power loss leaves what a crash between two actions leaves.  Every save  *)
(* takes the lock of its run id and then that of the CSV; a sidecar takes  *)
(* the first only, whose other users find the marker and give up, so only  *)
(* the lock of the CSV is kept.  Identity checks of directories and inodes *)
(* succeed or are one of the faults.                                       *)
(* An operation may have a faulty variant in front of it, which the module *)
(* never uses: a plausible mistake, for which a property must fail.        *)
(***************************************************************************)
EXTENDS Naturals, Sequences, FiniteSets

CONSTANTS
  AsyncRun,   \* processes with --inference-mode async_queue
  PowerRun,   \* processes with mode e2e and --power-trace: reserved as well
  ServerRun,  \* rngd_server_benchmark.py: external_server
  PlainRun,   \* processes with mode e2e: no reservation
  Preload,    \* those of AsyncRun, PowerRun whose power session reserves early
  Id,         \* run ids create_run_id() may draw
  None,
  MaxFault    \* bound on failing file operations

Reserved == AsyncRun \cup PowerRun \cup ServerRun
Run == Reserved \cup PlainRun

(* The calls of save_result() a process can make, in order.  The call is   *)
(* also the timestamp of the row it proposes.                              *)
Call == {"normal", "retry", "failure", "final"}
Row == [kind: {"normal", "failure"}, stamp: Call,
        details: BOOLEAN, recovery: BOOLEAN]

ASSUME ResultStoreAssumption ==
  /\ Preload \subseteq AsyncRun \cup PowerRun
  /\ PlainRun \cap Reserved = {}  \* a process has one mode
  /\ AsyncRun \cap PowerRun = {} /\ (AsyncRun \cup PowerRun) \cap ServerRun = {}
  /\ None \notin Id /\ None \notin Run /\ None \notin Row
  /\ MaxFault \in Nat

Step == {"start", "measure", "sidecar", "check", "publish", "write",
         "consume", "clear", "saved", "failed", "inspect", "fdetails",
         "frecord", "raised", "done", "crashed"}

VARIABLES
  \* the files
  marker,    \* <id>.json: the process that reserved the id
  pending,   \* <id>.pending: fingerprint and timestamp of a row to commit
  consumed,  \* <id>.consumed: fingerprint of the committed row
  csv,       \* the rows of each id
  torn,      \* an append stopped half-way: the CSV no longer parses
  details,   \* details/<id>.json
  recovery,  \* details/<id>.failure.json
  \* the processes
  lock,      \* holder of the CSV's lock
  run,       \* state of each process
  \* history and bounds
  deleted,   \* ids whose row the web API has deleted
  faults     \* file operations that have failed

files == <<marker, pending, consumed, csv, torn, details, recovery>>
vars == <<files, lock, run, deleted, faults>>

NewRun == [pc |-> "start", id |-> None, call |-> "normal", row |-> None,
           measured |-> FALSE,   \* normal_save_kwargs exist
           detailsOk |-> FALSE,  \* sidecar_committed
           csvOk |-> FALSE,      \* csv_committed
           recover |-> FALSE,    \* recovery_required
           announced |-> FALSE]  \* RUN_ID= printed

Init ==
  /\ marker = [i \in Id |-> None]
  /\ pending = [i \in Id |-> None]
  /\ consumed = [i \in Id |-> None]
  /\ csv = [i \in Id |-> <<>>]
  /\ torn = FALSE
  /\ details = [i \in Id |-> "none"]
  /\ recovery = [i \in Id |-> FALSE]
  /\ lock = None
  /\ run = [p \in Run |-> NewRun]
  /\ deleted = {}
  /\ faults = 0

At(p, step) == run[p].pc = step
Goto(p, step) == run' = [run EXCEPT ![p].pc = step]

(* A file operation of the action fails; it may have taken effect.         *)
Fault == faults < MaxFault /\ faults' = faults + 1
MayDo(file, i, v) == file' \in {file, [file EXCEPT ![i] = v]}

(***************************************************************************)
(* Reservation and the save without one                                    *)
(***************************************************************************)
(* reserve_run_artifacts(): an id with a row or a marker is drawn again.   *)
(* A failure is raised before the process knows its reservation, whose     *)
(* marker may stay behind.                                                 *)
Reserve(p) ==
  /\ At(p, "start") /\ p \in Reserved /\ lock = None
  /\ \/ /\ ~torn
        /\ \E i \in Id :
             /\ csv[i] = <<>> /\ marker[i] = None
             /\ marker' = [marker EXCEPT ![i] = p]
             /\ run' = [run EXCEPT ![p].id = i, ![p].pc = "measure"]
        /\ UNCHANGED faults
     \/ /\ ~torn /\ Fault
        /\ \E i \in Id : csv[i] = <<>> /\ marker[i] = None /\ MayDo(marker, i, p)
        /\ Goto(p, "done")
     \/ torn /\ Goto(p, "done") /\ UNCHANGED <<marker, faults>>
  /\ UNCHANGED <<pending, consumed, csv, torn, details, recovery, lock, deleted>>

PlainRow == [kind |-> "normal", stamp |-> "normal",
             details |-> FALSE, recovery |-> FALSE]

(* _run_artifact_authority_exists(): a marker, pending or consumed file.   *)
Occupied(i) == marker[i] # None \/ pending[i] # None \/ consumed[i] # None

FreeForPlain(i) == ~Occupied(i) /\ csv[i] = <<>>

(* _save_unreserved_result(): the row is appended in place, and nothing    *)
(* takes back what a failing append has written.                           *)
SavePlain(p) ==
  /\ At(p, "start") /\ p \in PlainRun /\ lock = None
  /\ \/ /\ ~torn
        /\ \E i \in Id :
             /\ FreeForPlain(i)
             /\ csv' = [csv EXCEPT ![i] = Append(@, PlainRow)]
             /\ run' = [run EXCEPT ![p].id = i, ![p].announced = TRUE,
                                   ![p].pc = "done"]
        /\ UNCHANGED <<torn, faults>>
     \/ /\ ~torn /\ Fault
        /\ \E i \in Id : FreeForPlain(i) /\ MayDo(csv, i, <<PlainRow>>)
        /\ torn' \in BOOLEAN
        /\ Goto(p, "done")
     \/ torn /\ Goto(p, "done") /\ UNCHANGED <<csv, torn, faults>>
  /\ UNCHANGED <<marker, pending, consumed, details, recovery, lock, deleted>>

(***************************************************************************)
(* save_result() with a reservation                                        *)
(***************************************************************************)
StartSave(p, call, r) ==
  run' = [run EXCEPT ![p].pc = "check", ![p].call = call,
                     ![p].row = [r EXCEPT !.stamp = call]]

(* The row of a run whose measurement succeeded: _result_save_kwargs() and *)
(* save_kwargs in _complete_async_benchmark().                             *)
NormalRow(p) == [kind |-> "normal", stamp |-> "normal",
                 details |-> p \notin PowerRun, recovery |-> FALSE]
FailureRow(hasDetails, hasRecovery) ==
  [kind |-> "failure", stamp |-> "failure",
   details |-> hasDetails, recovery |-> hasRecovery]

Provenance(i) == IF pending[i] # None THEN pending[i] ELSE consumed[i]
Agree(i) == pending[i] = None \/ consumed[i] = None \/ pending[i] = consumed[i]

(* A repeated save proposes its row with the timestamp of the first one.   *)
NotRestamped(i, r) == r

Restamped(i, r) ==
  IF pending[i] # None THEN [r EXCEPT !.stamp = pending[i].stamp]
  ELSE IF csv[i] # <<>> THEN [r EXCEPT !.stamp = csv[i][1].stamp]
  ELSE r

(* What _save_reserved_result() does after reading CSV and state files.    *)
RefusedIgnoringConsumed(i, r) ==
  \/ ~Agree(i)
  \/ csv[i] # <<>> /\ (Provenance(i) # r \/ csv[i][1] # r)
  \/ csv[i] = <<>> /\ pending[i] \notin {None, r}
Refused(i, r) ==
  \/ Len(csv[i]) > 1
  \/ ~Agree(i)
  \/ csv[i] # <<>> /\ (Provenance(i) # r \/ csv[i][1] # r)
  \/ csv[i] = <<>> /\ consumed[i] # None
  \/ csv[i] = <<>> /\ pending[i] \notin {None, r}

Decision(i, r) ==
  IF Refused(i, r) THEN "failed"
  ELSE IF csv[i] # <<>> THEN IF consumed[i] = None THEN "consume" ELSE "clear"
  ELSE IF pending[i] = None THEN "publish" ELSE "write"

Check(p) ==
  /\ At(p, "check") /\ lock = None
  /\ lock' = p
  /\ LET i == run[p].id
         r == Restamped(i, run[p].row)
     IN \/ /\ ~torn
           /\ run' = [run EXCEPT ![p].row = r, ![p].pc = Decision(i, r)]
           /\ UNCHANGED faults
        \/ torn /\ Goto(p, "failed") /\ UNCHANGED faults
        \/ Fault /\ Goto(p, "failed")
  /\ UNCHANGED <<files, deleted>>

SkipPending(p) ==
  /\ At(p, "publish") /\ Goto(p, "write")
  /\ UNCHANGED <<files, lock, deleted, faults>>

(* publish_pending(), then revalidate_reservation().  A publication that   *)
(* fails is rolled back, and the rollback may fail as well.                *)
PublishPending(p) ==
  /\ At(p, "publish")
  /\ LET i == run[p].id IN
       \/ /\ pending' = [pending EXCEPT ![i] = run[p].row]
          /\ Goto(p, "write") /\ UNCHANGED faults
       \/ Fault /\ MayDo(pending, i, run[p].row) /\ Goto(p, "failed")
  /\ UNCHANGED <<marker, consumed, csv, torn, details, recovery, lock, deleted>>

(* _atomic_write_csv_at(), and the row is read back.                       *)
WriteRow(p) ==
  /\ At(p, "write")
  /\ LET i == run[p].id
         after == Append(csv[i], run[p].row)
     IN \/ /\ csv' = [csv EXCEPT ![i] = after]
           /\ Goto(p, IF after = <<run[p].row>> THEN "consume" ELSE "failed")
           /\ UNCHANGED faults
        \/ Fault /\ MayDo(csv, i, after) /\ Goto(p, "failed")
  /\ UNCHANGED <<marker, pending, consumed, torn, details, recovery, lock, deleted>>

(* publish_consumed(); it too is rolled back or left behind if it fails.   *)
PublishConsumed(p) ==
  /\ At(p, "consume")
  /\ LET i == run[p].id IN
       \/ /\ consumed' = [consumed EXCEPT ![i] = run[p].row]
          /\ Goto(p, "clear") /\ UNCHANGED faults
       \/ Fault /\ MayDo(consumed, i, run[p].row) /\ Goto(p, "failed")
  /\ UNCHANGED <<marker, pending, csv, torn, details, recovery, lock, deleted>>

(* clear_pending() and the last revalidation.                              *)
ClearPending(p) ==
  /\ At(p, "clear")
  /\ LET i == run[p].id IN
       \/ /\ pending' = [pending EXCEPT ![i] = None]
          /\ Goto(p, "saved") /\ UNCHANGED faults
       \/ Fault /\ MayDo(pending, i, None) /\ Goto(p, "failed")
  /\ UNCHANGED <<marker, consumed, csv, torn, details, recovery, lock, deleted>>

(***************************************************************************)
(* The callers: execute_benchmark(), _persist_async_failure(),             *)
(* _finalize_server_preload_setup_failure(), run_server_benchmark()        *)
(***************************************************************************)
(* The measurement ends; if it fails, its caller records the failure.      *)
Measured(p) ==
  /\ At(p, "measure")
  /\ IF p \in PowerRun
       THEN run' = [run EXCEPT ![p].measured = TRUE, ![p].call = "normal",
                               ![p].row = NormalRow(p), ![p].pc = "check"]
       ELSE run' = [run EXCEPT ![p].measured = TRUE, ![p].pc = "sidecar"]
  /\ UNCHANGED <<files, lock, deleted, faults>>

MeasurementFails(p) ==
  /\ At(p, "measure")
  /\ \/ p \in AsyncRun /\ Goto(p, "fdetails")
     \/ p \in PowerRun /\ Goto(p, "inspect")
     \/ p \in ServerRun /\ Goto(p, "frecord")
     \/ p \in Preload /\ Goto(p, "raised")   \* before execute_benchmark()
  /\ UNCHANGED <<files, lock, deleted, faults>>

SaveDetailsIgnoringErrors(p) ==
  /\ At(p, "sidecar")
  /\ \/ details' = [details EXCEPT ![run[p].id] = "normal"] /\ UNCHANGED faults
     \/ Fault /\ UNCHANGED details
  /\ run' = [run EXCEPT ![p].detailsOk = TRUE, ![p].call = "normal",
                        ![p].row = NormalRow(p), ![p].pc = "check"]
  /\ UNCHANGED <<marker, pending, consumed, csv, torn, recovery, lock, deleted>>

(* save_async_details() of a measured run.  The third outcome is an error  *)
(* after the file is in place and known to be (final_file_committed).      *)
SaveDetails(p) ==
  /\ At(p, "sidecar")
  /\ LET i == run[p].id IN
       \/ /\ details' = [details EXCEPT ![i] = "normal"]
          /\ run' = [run EXCEPT ![p].detailsOk = TRUE, ![p].call = "normal",
                                ![p].row = NormalRow(p), ![p].pc = "check"]
          /\ UNCHANGED faults
       \/ /\ Fault /\ MayDo(details, i, "normal")
          /\ Goto(p, IF p \in AsyncRun THEN "fdetails" ELSE "done")
       \/ /\ Fault /\ p \in AsyncRun
          /\ details' = [details EXCEPT ![i] = "normal"]
          /\ run' = [run EXCEPT ![p].detailsOk = TRUE, ![p].pc = "fdetails"]
  /\ UNCHANGED <<marker, pending, consumed, csv, torn, recovery, lock, deleted>>

(* The except branch after a failing save: get_reserved_result_state().    *)
Inspectable(i) ==
  /\ ~torn /\ Len(csv[i]) <= 1 /\ Agree(i)
  /\ IF csv[i] = <<>> THEN consumed[i] = None
     ELSE Provenance(i) # None /\ csv[i][1] = Provenance(i)

ResultState(i) ==
  IF pending[i] # None THEN "pending"
  ELSE IF consumed[i] # None THEN "consumed" ELSE "active"

InspectAsync(p, state) ==
  CASE state = "consumed" ->
         run' = [run EXCEPT ![p].csvOk = TRUE, ![p].pc = "fdetails"]
    [] state = "pending"  -> StartSave(p, "retry", NormalRow(p))
    [] OTHER              -> Goto(p, "fdetails")

InspectPower(p, state) ==
  CASE state = "pending" /\ run[p].measured -> StartSave(p, "retry", NormalRow(p))
    [] state = "active" -> StartSave(p, "failure", FailureRow(FALSE, FALSE))
    [] OTHER            -> Goto(p, "raised")

Inspect(p) ==
  /\ At(p, "inspect") /\ lock = None
  /\ LET i == run[p].id
         state == ResultState(i)
     IN \/ /\ Inspectable(i) /\ UNCHANGED faults
           /\ IF p \in AsyncRun THEN InspectAsync(p, state) ELSE InspectPower(p, state)
        \/ /\ \/ ~Inspectable(i) /\ UNCHANGED faults
              \/ Fault
           /\ Goto(p, IF p \in AsyncRun THEN "fdetails" ELSE "raised")
  /\ UNCHANGED <<files, lock, deleted>>

(* _persist_async_failure() up to its CSV row: failure details unless the  *)
(* normal ones are committed, published only under an active reservation   *)
(* and never over a file that is there.                                    *)
FailureSave(p, hasDetails, hasRecovery) ==
  run' = [run EXCEPT
    ![p].detailsOk = hasDetails, ![p].recover = hasRecovery,
    ![p].pc = IF run[p].csvOk THEN "frecord" ELSE "check",
    ![p].call = IF @ = "final" THEN "final" ELSE "failure",
    ![p].row = IF run[p].csvOk THEN @ ELSE
       [FailureRow(hasDetails, hasRecovery) EXCEPT
          !.stamp = IF run[p].call = "final" THEN "final" ELSE "failure"]]

ActiveOnly(i) == pending[i] = None /\ consumed[i] = None
MayPublishDetails(i) == ActiveOnly(i) /\ details[i] = "none"

FailureDetails(p) ==
  /\ At(p, "fdetails")
  /\ LET i == run[p].id
         fresh == MayPublishDetails(i)
     IN \/ /\ run[p].detailsOk /\ FailureSave(p, TRUE, TRUE)
           /\ UNCHANGED <<details, faults>>
        \/ /\ ~run[p].detailsOk /\ fresh
           /\ details' = [details EXCEPT ![i] = "failure"]
           /\ FailureSave(p, TRUE, run[p].csvOk)
           /\ UNCHANGED faults
        \/ /\ ~run[p].detailsOk /\ ~fresh /\ FailureSave(p, FALSE, TRUE)
           /\ UNCHANGED <<details, faults>>
        \/ /\ ~run[p].detailsOk /\ fresh /\ Fault
           /\ MayDo(details, i, "failure")
           /\ \/ FailureSave(p, FALSE, TRUE)
              \/ details'[i] = "failure" /\ FailureSave(p, TRUE, TRUE)
  /\ UNCHANGED <<marker, pending, consumed, csv, torn, recovery, lock, deleted>>

(* RUN_ID= is printed if the row and the truth about the failure are out.  *)
AfterRecord(p, ok) ==
  IF p \in ServerRun
    THEN IF ok THEN StartSave(p, "failure", FailureRow(FALSE, TRUE)) ELSE Goto(p, "done")
    ELSE run' = [run EXCEPT ![p].announced = run[p].csvOk /\ ok,
                            ![p].pc = IF run[p].call = "final" THEN "done" ELSE "raised"]

(* The rest of _persist_async_failure(): the recovery record.  For a       *)
(* server run: save_async_failure_details(), then the row.                 *)
FailureRecord(p) ==
  /\ At(p, "frecord")
  /\ LET i == run[p].id
         needed == p \in ServerRun \/ run[p].recover
     IN \/ /\ ~needed /\ AfterRecord(p, run[p].detailsOk)
           /\ UNCHANGED <<recovery, faults>>
        \/ /\ needed /\ ~recovery[i]
           /\ recovery' = [recovery EXCEPT ![i] = TRUE]
           /\ AfterRecord(p, TRUE) /\ UNCHANGED faults
        \/ /\ needed /\ recovery[i] /\ AfterRecord(p, FALSE)
           /\ UNCHANGED <<recovery, faults>>
        \/ /\ needed /\ Fault /\ MayDo(recovery, i, TRUE) /\ AfterRecord(p, FALSE)
  /\ UNCHANGED <<marker, pending, consumed, csv, torn, details, lock, deleted>>

(* save_result() returns.                                                  *)
Saved(p) ==
  /\ At(p, "saved")
  /\ lock' = None
  /\ LET call == run[p].call IN
       IF p \in AsyncRun
         THEN CASE call = "normal" ->
                     run' = [run EXCEPT ![p].csvOk = TRUE, ![p].announced = TRUE,
                                        ![p].pc = "done"]
                [] call = "retry"  ->
                     run' = [run EXCEPT ![p].csvOk = TRUE, ![p].pc = "fdetails"]
                [] OTHER           ->
                     run' = [run EXCEPT ![p].csvOk = TRUE, ![p].pc = "frecord"]
         ELSE run' = [run EXCEPT
                ![p].announced = p \in ServerRun \/ call \in {"normal", "final"},
                ![p].pc = IF p \in PowerRun /\ call \in {"retry", "failure"}
                          THEN "raised" ELSE "done"]
  /\ UNCHANGED <<files, deleted, faults>>

(* save_result() raises.                                                   *)
SaveFails(p) ==
  /\ At(p, "failed")
  /\ lock' = None
  /\ LET call == run[p].call IN
       CASE p \in ServerRun -> Goto(p, "done")
         [] p \in AsyncRun /\ call = "normal" -> Goto(p, "inspect")
         [] p \in AsyncRun /\ call = "retry"  -> Goto(p, "fdetails")
         [] p \in AsyncRun /\ call \in {"failure", "final"} ->
              run' = [run EXCEPT ![p].recover = TRUE, ![p].pc = "frecord"]
         [] p \in PowerRun /\ call = "normal" -> Goto(p, "inspect")
         [] p \in PowerRun /\ call = "final"  -> Goto(p, "done")
         [] OTHER -> Goto(p, "raised")
  /\ UNCHANGED <<files, deleted, faults>>

(* The exception leaves execute_benchmark().  If the power session had     *)
(* reserved the run, its exit callback records a run that still is active. *)
Unwind(p) ==
  /\ At(p, "raised")
  /\ \/ p \notin Preload /\ Goto(p, "done") /\ UNCHANGED faults
     \/ /\ p \in Preload /\ lock = None /\ Inspectable(run[p].id)
        /\ UNCHANGED faults
        /\ IF ResultState(run[p].id) # "active" THEN Goto(p, "done")
           ELSE IF p \in PowerRun THEN StartSave(p, "final", FailureRow(FALSE, FALSE))
           ELSE run' = [run EXCEPT ![p].call = "final", ![p].csvOk = FALSE,
                          ![p].detailsOk = FALSE, ![p].recover = FALSE,
                          ![p].pc = "fdetails"]
     \/ /\ p \in Preload /\ lock = None /\ Goto(p, "done")
        /\ \/ ~Inspectable(run[p].id) /\ UNCHANGED faults
           \/ Fault
  /\ UNCHANGED <<files, lock, deleted>>

(***************************************************************************)
(* The web API and crashes                                                 *)
(***************************************************************************)
(* delete_result(): takes only the lock of the CSV and looks at no marker. *)
(* The bound: each id is deleted once.                                     *)
Delete(i) ==
  /\ lock = None /\ ~torn /\ csv[i] # <<>> /\ i \notin deleted
  /\ csv' = [csv EXCEPT ![i] = <<>>]
  /\ deleted' = deleted \cup {i}
  /\ UNCHANGED <<marker, pending, consumed, torn, details, recovery, lock, run, faults>>

(* The kernel releases a dead process's lock.  Nobody resumes its run: the *)
(* reservation object dies with it.                                        *)
Crash(p) ==
  /\ run[p].pc \notin {"start", "done", "crashed"}
  /\ Goto(p, "crashed")
  /\ lock' = IF lock = p THEN None ELSE lock
  /\ UNCHANGED <<files, deleted, faults>>

RunStep(p) ==
  \/ Reserve(p) \/ SavePlain(p) \/ Measured(p) \/ MeasurementFails(p)
  \/ SaveDetails(p) \/ Check(p) \/ PublishPending(p) \/ WriteRow(p)
  \/ PublishConsumed(p) \/ ClearPending(p) \/ Saved(p) \/ SaveFails(p)
  \/ Inspect(p) \/ FailureDetails(p) \/ FailureRecord(p) \/ Unwind(p)

Next ==
  \/ \E p \in Run : RunStep(p) \/ Crash(p)
  \/ \E i \in Id : Delete(i)

Spec == Init /\ [][Next]_vars

-----------------------------------------------------------------------------
TypeOK ==
  /\ marker \in [Id -> Reserved \cup {None}]
  /\ pending \in [Id -> Row \cup {None}]
  /\ consumed \in [Id -> Row \cup {None}]
  /\ csv \in [Id -> Seq(Row)]
  /\ torn \in BOOLEAN
  /\ details \in [Id -> {"none", "normal", "failure"}]
  /\ recovery \in [Id -> BOOLEAN]
  /\ lock \in Run \cup {None}
  /\ run \in [Run -> [pc: Step, id: Id \cup {None}, call: Call, row: Row \cup {None},
                      measured: BOOLEAN, detailsOk: BOOLEAN, csvOk: BOOLEAN,
                      recover: BOOLEAN, announced: BOOLEAN]]
  /\ deleted \subseteq Id
  /\ faults \in 0..MaxFault

(* Whatever fails or crashes between the marker files and the CSV, and     *)
(* however often a save is repeated, a run id has at most one row, and the *)
(* row of a reserved run is the one its pending or consumed file vouches   *)
(* for; files that both exist vouch for the same row (result_store.py      *)
(* :1396-1527, artifact_reservation.py:1391-1649).                         *)
RowIsVouchedFor ==
  \A i \in Id :
    /\ Len(csv[i]) <= 1
    /\ Agree(i)
    /\ marker[i] # None /\ csv[i] # <<>> => Provenance(i) = csv[i][1]

(* A consumed file promises a row: only a user's deletion takes the row    *)
(* away, never a crash or a failed step (result_store.py:1379, :1471).     *)
ConsumedHasRow ==
  \A i \in Id : consumed[i] # None => csv[i] # <<>> \/ i \in deleted

(* A row never points to details that were not published, and a row that   *)
(* claims a successful async or server run points to that run's own        *)
(* details, not to those of its failure (main.py:2246-2275, :2761).        *)
RowTellsTheTruth ==
  \A p \in Reserved : LET i == run[p].id IN
    i # None => \A k \in 1..Len(csv[i]) :
      /\ csv[i][k].details => details[i] # "none"
      /\ csv[i][k].kind = "normal" /\ p \notin PowerRun => details[i] = "normal"

(* One failing file operation never loses a measured run of main.py: the   *)
(* row is there when the process ends, at the first try, by the repetition *)
(* of a pending row or as a failure row (main.py:3522-3560, :3147-3172).   *)
OneFaultLosesNothing ==
  \A p \in AsyncRun \cup PowerRun :
    /\ run[p].measured /\ run[p].pc = "done" /\ faults <= 1 /\ ~torn
    => csv[run[p].id] # <<>> \/ run[p].id \in deleted

(* Published details are never replaced, by whatever the failure path      *)
(* wants to publish under the same name (result_store.py:675-820).         *)
DetailsArePermanent ==
  [][\A i \in Id : details[i] # "none" => details'[i] = details[i]]_vars

(* The reservation protocol implements ResultContract: in particular a     *)
(* deleted row comes back only from a transaction that was not closed, and *)
(* then with the same content (result_store.py:1604 against :1440-1500).   *)
Contract ==
  INSTANCE ResultContract WITH
    intent <- [i \in Id |-> Provenance(i)],
    row <- [i \in Id |-> IF marker[i] # None /\ csv[i] # <<>> THEN csv[i][1] ELSE None],
    closed <- {i \in Id : consumed[i] # None}
ImplementsContract == Contract!Spec
=============================================================================
