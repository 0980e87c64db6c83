--------------------------- MODULE NativeExecutor ---------------------------
(***************************************************************************)
(* NativeAsyncRuntimeExecutor of framework/src/core/runtime_executor.py:   *)
(* the bridge between an SDK that answers by callback and workers that     *)
(* block in execute() until the answer or the deadline.                    *)
(*                                                                         *)
(* One action is one critical section of self._condition, one operation of *)
(* the semaphore, or one step of the SDK.  Time is the flag expired[t]:    *)
(* the deadline of dispatch t, fixed when execute() is entered, has passed.*)
(* How long the caller waited for a permit is not tracked: a permit wait   *)
(* can time out whenever no permit is free, and a dispatch can be          *)
(* registered with its deadline behind it.                                 *)
(*                                                                         *)
(* The definition of an operation can have a faulty variant in front of it *)
(* (RegisterUnchecked before Register, ...).  No specification uses these: *)
(* each is a bug that one of the properties below has to notice.           *)
(***************************************************************************)
EXTENDS Integers, FiniteSets

CONSTANTS
  Worker,       \* threads that call execute()
  Call,         \* callback invocations the SDK can make for one dispatch
  MaxInflight,  \* max_inflight of the constructor
  MaxToken      \* bound on the dispatches of a behaviour

ASSUME ExecutorAssumption ==
  /\ IsFiniteSet(Worker)
  /\ MaxInflight \in Nat \ {0}
  /\ MaxToken \in Nat
  /\ Call \cap {"none", "timeout", "submit_failure", "protocol_error"} = {}

Token == 1..MaxToken

Terminal == {"none", "callback", "timeout", "submit_failure"}

(* An outcome is the callback invocation that brought it, or a failure the *)
(* executor made up itself.                                                *)
Outcome == Call \cup {"none", "timeout", "submit_failure"}

Dispatch == [terminal : Terminal, outcome : Outcome, acknowledged : BOOLEAN,
             started : BOOLEAN, physical : BOOLEAN]

Step == {"idle", "permit", "register", "gate", "submit", "returned",
         "raised", "wait", "expire", "read"}

VARIABLES
  permits,      \* value of self._permits
  closed,       \* self._closed
  nextToken,    \* self._next_dispatch_token
  dispatches,   \* keys of self._dispatches
  dispatch,     \* the _NativeDispatch objects, which callbacks keep alive
  counts,       \* the four diagnostic counters
  pc,           \* where each worker is in execute()
  token,        \* local variable `token' of each worker, 0 before it is set
  observed,     \* whether `observed_at' was past the deadline
  expired,      \* deadline of the dispatch has passed
  returned,     \* outcome in the RuntimeExecution that execute() returned
  sdk,          \* what the SDK does with the job of a dispatch
  invoked,      \* callback invocations begun
  normalizing,  \* callback invocations between their two critical sections
  closing       \* progress of shutdown()

execVars == <<permits, closed, nextToken, dispatches, dispatch, counts>>
workerVars == <<pc, token, observed, returned>>
sdkVars == <<sdk, invoked, normalizing>>
vars == <<execVars, workerVars, sdkVars, expired, closing>>

FreshDispatch == [terminal |-> "none", outcome |-> "none",
                  acknowledged |-> FALSE, started |-> FALSE,
                  physical |-> FALSE]

Init ==
  /\ permits = MaxInflight
  /\ closed = FALSE
  /\ nextToken = 1
  /\ dispatches = {}
  /\ dispatch = [t \in Token |-> FreshDispatch]
  /\ counts = [duplicate |-> 0, late |-> 0, submit_failure |-> 0, timeout |-> 0]
  /\ pc = [w \in Worker |-> "idle"]
  /\ token = [w \in Worker |-> 0]
  /\ observed = [w \in Worker |-> FALSE]
  /\ expired = [t \in Token |-> FALSE]
  /\ returned = [t \in Token |-> "none"]
  /\ sdk = [t \in Token |-> "none"]
  /\ invoked = [t \in Token |-> {}]
  /\ normalizing = [t \in Token |-> {}]
  /\ closing = "never"

-----------------------------------------------------------------------------
(* Helpers nested in execute(), over a dispatch record d and the counters. *)

(* commit_timeout_locked: the first terminal wins.                         *)
CommitTimeout(d) ==
  IF d.terminal # "none" THEN d
  ELSE [d EXCEPT !.terminal = "timeout", !.outcome = "timeout"]

Count(kind) == [counts EXCEPT ![kind] = @ + 1]

CountTimeout(d) == IF d.terminal # "none" THEN counts ELSE Count("timeout")

(* classify_existing_terminal_locked, for a dispatch with a terminal.      *)
Classified(d) ==
  IF d.terminal = "timeout" THEN Count("late") ELSE Count("duplicate")

RetirableOnAcknowledgement(d) == d.acknowledged
RetirableOnCallback(d) == d.physical

Retirable(d) == d.acknowledged /\ d.physical

(* _retire_dispatch_locked, at the end of a critical section that leaves   *)
(* dispatch t as d: the permit and the buffers go back once the answer is  *)
(* acknowledged and the device is known to be done.                        *)
SettleAndRetire(t, d) ==
  IF t \in dispatches /\ Retirable(d)
  THEN /\ dispatches' = dispatches \ {t}
       /\ dispatch' = [dispatch EXCEPT ![t] = [d EXCEPT !.outcome = "none"]]
       /\ permits' = permits + 1
  ELSE /\ dispatch' = [dispatch EXCEPT ![t] = d]
       /\ UNCHANGED <<dispatches, permits>>

GoTo(w, step) == pc' = [pc EXCEPT ![w] = step]

-----------------------------------------------------------------------------
(* execute(), one worker.                                                  *)

(* Calls that still have to take a token: bounds the behaviour.            *)
Unregistered == {w \in Worker : pc[w] \in {"permit", "register"}}

Execute(w) ==
  /\ pc[w] = "idle"
  /\ nextToken + Cardinality(Unregistered) <= MaxToken
  /\ ~closed
  /\ GoTo(w, "permit")
  /\ UNCHANGED <<execVars, token, observed, returned, sdkVars, expired, closing>>

AcquireUnbounded(w) ==
  /\ pc[w] = "permit"
  /\ permits' = permits - 1
  /\ GoTo(w, "register")
  /\ UNCHANGED <<closed, nextToken, dispatches, dispatch, counts, token,
                 observed, returned, sdkVars, expired, closing>>

AcquirePermit(w) ==
  /\ pc[w] = "permit"
  /\ permits > 0
  /\ permits' = permits - 1
  /\ GoTo(w, "register")
  /\ UNCHANGED <<closed, nextToken, dispatches, dispatch, counts, token,
                 observed, returned, sdkVars, expired, closing>>

PermitTimeoutNever(w) == FALSE

PermitTimeout(w) ==
  /\ pc[w] = "permit"
  /\ permits = 0
  /\ GoTo(w, "idle")
  /\ UNCHANGED <<execVars, token, observed, returned, sdkVars, expired, closing>>

RefuseKeepingPermit(w) ==
  /\ pc[w] = "register"
  /\ closed
  /\ GoTo(w, "idle")
  /\ UNCHANGED <<execVars, token, observed, returned, sdkVars, expired, closing>>

(* The second look at _closed, after the permit wait.                      *)
Refuse(w) ==
  /\ pc[w] = "register"
  /\ closed
  /\ permits' = permits + 1
  /\ GoTo(w, "idle")
  /\ UNCHANGED <<closed, nextToken, dispatches, dispatch, counts, token,
                 observed, returned, sdkVars, expired, closing>>

RegisterUnchecked(w) ==
  /\ pc[w] = "register"
  /\ nextToken \in Token
  /\ token' = [token EXCEPT ![w] = nextToken]
  /\ nextToken' = nextToken + 1
  /\ dispatches' = dispatches \cup {nextToken}
  /\ \E late \in BOOLEAN : expired' = [expired EXCEPT ![nextToken] = late]
  /\ GoTo(w, "gate")
  /\ UNCHANGED <<permits, closed, dispatch, counts, observed, returned,
                 sdkVars, closing>>

Register(w) ==
  /\ ~closed
  /\ RegisterUnchecked(w)

(* The submit gate: nothing is handed to the SDK after the deadline, which *)
(* proves that the device will not work on this dispatch.                  *)
GateExpired(w) ==
  LET t == token[w] d == dispatch[t] IN
  /\ pc[w] = "gate"
  /\ expired[t]
  /\ dispatch' = [dispatch EXCEPT ![t] =
                    [CommitTimeout(d) EXCEPT !.physical = TRUE]]
  /\ counts' = CountTimeout(d)
  /\ GoTo(w, "wait")
  /\ UNCHANGED <<permits, closed, nextToken, dispatches, token, observed,
                 returned, sdkVars, expired, closing>>

CallSubmit(w) ==
  /\ pc[w] = "gate"
  /\ ~expired[token[w]]
  /\ sdk' = [sdk EXCEPT ![token[w]] = "called"]
  /\ GoTo(w, "submit")
  /\ UNCHANGED <<execVars, token, observed, returned, invoked, normalizing,
                 expired, closing>>

(* submit_async returns: it has accepted the job.                          *)
SubmitReturns(w) ==
  /\ pc[w] = "submit"
  /\ sdk[token[w]] # "called"
  /\ observed' = [observed EXCEPT ![w] = expired[token[w]]]
  /\ GoTo(w, "returned")
  /\ UNCHANGED <<execVars, token, returned, sdkVars, expired, closing>>

(* submit_async raises: no job was accepted, unless a callback was already *)
(* delivered.                                                              *)
SubmitRaises(w) ==
  LET t == token[w] IN
  /\ pc[w] = "submit"
  /\ sdk[t] = "called" \/ dispatch[t].started
  /\ sdk' = [sdk EXCEPT ![t] = IF @ = "called" THEN "refused" ELSE @]
  /\ observed' = [observed EXCEPT ![w] = expired[t]]
  /\ GoTo(w, "raised")
  /\ UNCHANGED <<execVars, token, returned, invoked, normalizing, expired,
                 closing>>

RecordSubmission(w) ==
  LET t == token[w] d == dispatch[t] IN
  /\ pc[w] = "returned"
  /\ IF observed[w]
     THEN /\ dispatch' = [dispatch EXCEPT ![t] = CommitTimeout(d)]
          /\ counts' = CountTimeout(d)
     ELSE UNCHANGED <<dispatch, counts>>
  /\ GoTo(w, "wait")
  /\ UNCHANGED <<permits, closed, nextToken, dispatches, token, observed,
                 returned, sdkVars, expired, closing>>

(* The exception tells the device's state only if no callback has begun.   *)
RecordFailureUnproven(w) ==
  LET t == token[w] d == dispatch[t] IN
  /\ pc[w] = "raised"
  /\ IF d.terminal = "none"
     THEN /\ dispatch' = [dispatch EXCEPT ![t] =
                            [d EXCEPT !.terminal = "submit_failure",
                                      !.outcome = "submit_failure"]]
          /\ counts' = Count("submit_failure")
     ELSE UNCHANGED <<dispatch, counts>>
  /\ GoTo(w, "wait")
  /\ UNCHANGED <<permits, closed, nextToken, dispatches, token, observed,
                 returned, sdkVars, expired, closing>>

RecordFailure(w) ==
  LET t == token[w] d == dispatch[t] IN
  /\ pc[w] = "raised"
  /\ \/ /\ d.started
        /\ UNCHANGED <<dispatch, counts>>
     \/ /\ ~d.started
        /\ observed[w] \/ d.terminal # "none"
        /\ dispatch' = [dispatch EXCEPT ![t] =
                          [CommitTimeout(d) EXCEPT !.physical = TRUE]]
        /\ counts' = CountTimeout(d)
     \/ /\ ~d.started
        /\ ~observed[w] /\ d.terminal = "none"
        /\ dispatch' = [dispatch EXCEPT ![t] =
                          [d EXCEPT !.terminal = "submit_failure",
                                    !.outcome = "submit_failure",
                                    !.physical = TRUE]]
        /\ counts' = Count("submit_failure")
  /\ GoTo(w, "wait")
  /\ UNCHANGED <<permits, closed, nextToken, dispatches, token, observed,
                 returned, sdkVars, expired, closing>>

(* dispatch.event is set in the section that sets terminal_kind.           *)
EventSet(w) ==
  /\ pc[w] = "wait"
  /\ dispatch[token[w]].terminal # "none"
  /\ GoTo(w, "read")
  /\ UNCHANGED <<execVars, token, observed, returned, sdkVars, expired, closing>>

EventTimeout(w) ==
  /\ pc[w] = "wait"
  /\ dispatch[token[w]].terminal = "none"
  /\ expired[token[w]]
  /\ GoTo(w, "expire")
  /\ UNCHANGED <<execVars, token, observed, returned, sdkVars, expired, closing>>

Expire(w) ==
  LET t == token[w] d == dispatch[t] IN
  /\ pc[w] = "expire"
  /\ dispatch' = [dispatch EXCEPT ![t] = CommitTimeout(d)]
  /\ counts' = CountTimeout(d)
  /\ GoTo(w, "read")
  /\ UNCHANGED <<permits, closed, nextToken, dispatches, token, observed,
                 returned, sdkVars, expired, closing>>

(* execute() reads the outcome and returns it; None would be reported as   *)
(* NativeAsyncProtocolError.                                               *)
Return(w) ==
  LET t == token[w] IN
  /\ pc[w] = "read"
  /\ returned' = [returned EXCEPT ![t] =
                    IF dispatch[t].outcome = "none" THEN "protocol_error"
                    ELSE dispatch[t].outcome]
  /\ GoTo(w, "idle")
  /\ UNCHANGED <<execVars, token, observed, sdkVars, expired, closing>>

-----------------------------------------------------------------------------
(* The SDK and its callback thread.                                        *)

SdkAccept(t) ==
  /\ sdk[t] = "called"
  /\ sdk' = [sdk EXCEPT ![t] = "running"]
  /\ UNCHANGED <<execVars, workerVars, invoked, normalizing, expired, closing>>

SdkFinish(t) ==
  /\ sdk[t] = "running"
  /\ sdk' = [sdk EXCEPT ![t] = "finished"]
  /\ UNCHANGED <<execVars, workerVars, invoked, normalizing, expired, closing>>

(* callback(), first critical section.  A job that was refused should get  *)
(* no callback, and a finished one only one; the code is written for SDKs  *)
(* that do otherwise.                                                      *)
Callback(t, c) ==
  LET d == dispatch[t] IN
  /\ sdk[t] \in {"finished", "refused"}
  /\ c \notin invoked[t]
  /\ invoked' = [invoked EXCEPT ![t] = @ \cup {c}]
  /\ dispatch' = [dispatch EXCEPT ![t].started = TRUE]
  /\ IF d.physical /\ d.terminal # "none"
     THEN counts' = Classified(d) /\ UNCHANGED normalizing
     ELSE /\ normalizing' = [normalizing EXCEPT ![t] = @ \cup {c}]
          /\ UNCHANGED counts
  /\ UNCHANGED <<permits, closed, nextToken, dispatches, workerVars, sdk,
                 expired, closing>>

(* callback(), second critical section, after _protocol_outcome.  Each     *)
(* alternative is one of its returns.                                      *)
CallbackRepeated(t) ==
  LET d == dispatch[t] IN
  /\ d.physical
  /\ counts' = IF d.terminal # "none" THEN Classified(d) ELSE counts
  /\ UNCHANGED <<permits, dispatches, dispatch>>

CallbackAnswered(t) ==
  LET d == dispatch[t] IN
  /\ ~d.physical /\ d.terminal # "none"
  /\ counts' = Classified(d)
  /\ SettleAndRetire(t, [d EXCEPT !.physical = TRUE])

CallbackLate(t) ==
  LET d == dispatch[t] IN
  /\ ~d.physical /\ d.terminal = "none" /\ expired[t]
  /\ counts' = [CountTimeout(d) EXCEPT !.late = @ + 1]
  /\ SettleAndRetire(t, [CommitTimeout(d) EXCEPT !.physical = TRUE])

CallbackWins(t, c) ==
  LET d == dispatch[t] IN
  /\ ~d.physical /\ d.terminal = "none" /\ ~expired[t]
  /\ UNCHANGED counts
  /\ SettleAndRetire(t, [d EXCEPT !.physical = TRUE, !.outcome = c,
                                  !.terminal = "callback"])

CallbackCommit(t, c) ==
  /\ c \in normalizing[t]
  /\ normalizing' = [normalizing EXCEPT ![t] = @ \ {c}]
  /\ \/ CallbackRepeated(t)
     \/ CallbackAnswered(t)
     \/ CallbackLate(t)
     \/ CallbackWins(t, c)
  /\ UNCHANGED <<closed, nextToken, workerVars, sdk, invoked, expired, closing>>

(* After the terminal the deadline is looked at only where submit_async    *)
(* has yet to return.                                                      *)
Deadline(t) ==
  /\ t < nextToken
  /\ \/ dispatch[t].terminal = "none"
     \/ \E w \in Worker : pc[w] = "submit" /\ token[w] = t
  /\ ~expired[t]
  /\ expired' = [expired EXCEPT ![t] = TRUE]
  /\ UNCHANGED <<execVars, workerVars, sdkVars, closing>>

-----------------------------------------------------------------------------
(* The owner of the executor: acknowledge() with an execution it was given,*)
(* once or more, and shutdown(), again after a timeout if it likes.        *)

Acknowledge(t) ==
  /\ returned[t] # "none"
  /\ t \in dispatches
  /\ SettleAndRetire(t, [dispatch[t] EXCEPT !.acknowledged = TRUE])
  /\ UNCHANGED <<closed, nextToken, counts, workerVars, sdkVars, expired, closing>>

Shutdown ==
  /\ closing # "waiting"
  /\ closed' = TRUE
  /\ closing' = "waiting"
  /\ UNCHANGED <<permits, nextToken, dispatches, dispatch, counts, workerVars,
                 sdkVars, expired>>

(* shutdown() returns True.                                                *)
ShutdownDrained ==
  /\ closing = "waiting"
  /\ dispatches = {}
  /\ closing' = "drained"
  /\ UNCHANGED <<execVars, workerVars, sdkVars, expired>>

(* shutdown() returns False.                                               *)
ShutdownTimeout ==
  /\ closing = "waiting"
  /\ dispatches # {}
  /\ closing' = "timed_out"
  /\ UNCHANGED <<execVars, workerVars, sdkVars, expired>>

-----------------------------------------------------------------------------
WorkerStep(w) ==
  \/ AcquirePermit(w) \/ PermitTimeout(w) \/ Refuse(w) \/ Register(w)
  \/ GateExpired(w) \/ CallSubmit(w)
  \/ SubmitReturns(w) \/ SubmitRaises(w)
  \/ RecordSubmission(w) \/ RecordFailure(w)
  \/ EventSet(w) \/ EventTimeout(w) \/ Expire(w) \/ Return(w)

SdkStep(t) ==
  \/ SdkAccept(t) \/ SdkFinish(t)
  \/ \E c \in Call : Callback(t, c) \/ CallbackCommit(t, c)

Next ==
  \/ \E w \in Worker : Execute(w) \/ WorkerStep(w)
  \/ \E t \in Token : SdkStep(t) \/ Deadline(t) \/ Acknowledge(t)
  \/ Shutdown \/ ShutdownDrained \/ ShutdownTimeout

Spec == Init /\ [][Next]_vars

(* Threads that can run do run, submit_async returns promptly (accepts or  *)
(* raises) and time passes.  Nothing is assumed of the device.             *)
CallerFairness ==
  /\ \A w \in Worker : WF_vars(WorkerStep(w))
  /\ \A t \in Token : WF_vars(SdkAccept(t)) /\ WF_vars(Deadline(t))

(* The device finishes what it accepted and its callback runs to the end;  *)
(* the framework acknowledges every execution it was given, once.  No      *)
(* callback is promised for a job that was refused.                        *)
CompletionFairness ==
  \A t \in Token :
    /\ WF_vars(SdkFinish(t))
    /\ WF_vars(\E c \in Call : sdk[t] = "finished" /\ Callback(t, c))
    /\ WF_vars(\E c \in Call : CallbackCommit(t, c))
    /\ WF_vars(~dispatch[t].acknowledged /\ Acknowledge(t))

FairSpec == Spec /\ CallerFairness

-----------------------------------------------------------------------------
(* Every variable stays in its type.                                       *)
TypeOK ==
  /\ permits \in Nat
  /\ closed \in BOOLEAN
  /\ nextToken \in 1..(MaxToken + 1)
  /\ dispatches \subseteq Token
  /\ dispatch \in [Token -> Dispatch]
  /\ counts \in [{"duplicate", "late", "submit_failure", "timeout"} -> Nat]
  /\ pc \in [Worker -> Step]
  /\ token \in [Worker -> 0..MaxToken]
  /\ observed \in [Worker -> BOOLEAN]
  /\ expired \in [Token -> BOOLEAN]
  /\ returned \in [Token -> Outcome \cup {"protocol_error"}]
  /\ sdk \in [Token -> {"none", "called", "running", "finished", "refused"}]
  /\ invoked \in [Token -> SUBSET Call]
  /\ normalizing \in [Token -> SUBSET Call]
  /\ closing \in {"never", "waiting", "drained", "timed_out"}

HoldingPermit == {w \in Worker : pc[w] = "register"}

(* Every permit is free, held by a registered dispatch, or in the hands of *)
(* a worker between acquire() and registration: none is lost on any exit of*)
(* execute() or of a callback, and none is released twice (the             *)
(* BoundedSemaphore would raise inside the critical section).              *)
PermitsAccounted ==
  permits + Cardinality(dispatches) + Cardinality(HoldingPermit) = MaxInflight

(* While the device works on a job, its dispatch is registered: inputs are *)
(* kept alive and the permit is not given to another job, even after a     *)
(* timeout answered the caller and the answer was acknowledged.            *)
BuffersHeld == \A t \in Token : sdk[t] = "running" => t \in dispatches

(* Whichever of acknowledgement and physical completion comes last retires *)
(* the dispatch in the same critical section: it is never left registered  *)
(* with nobody to retire it.                                               *)
NoStrandedDispatch == \A t \in dispatches : ~Retirable(dispatch[t])

(* The caller gets the one outcome that won the race between callback,     *)
(* deadline and submit failure, and never "ended without an outcome".      *)
AnswerIsTheTerminal ==
  \A t \in Token : returned[t] # "none" =>
    IF dispatch[t].terminal = "callback" THEN returned[t] \in invoked[t]
    ELSE returned[t] = dispatch[t].terminal

(* When shutdown() has returned True the runtime can be unloaded: no       *)
(* dispatch is registered, the device works on nothing, and no worker is   *)
(* past the point where it could still hand work to the SDK.               *)
UnloadSafe ==
  closing = "drained" =>
    /\ dispatches = {}
    /\ \A t \in Token : sdk[t] \notin {"called", "running"}
    /\ \A w \in Worker : pc[w] \in {"idle", "permit", "register"}

(* A terminal, once committed, is never replaced: a late or a repeated     *)
(* callback, a failed submission or the expired wait leaves the outcome as *)
(* it is until retirement drops it.                                        *)
TerminalIsFinal ==
  [][\A t \in Token : dispatch[t].terminal # "none" =>
       /\ dispatch'[t].terminal = dispatch[t].terminal
       /\ \/ dispatch'[t].outcome = dispatch[t].outcome
          \/ t \in dispatches \ dispatches']_vars

(* Every call of execute() returns, whatever the device does.              *)
ExecuteReturns == \A w \in Worker : pc[w] # "idle" ~> pc[w] = "idle"

(* If the device answers and answers are acknowledged, every dispatch      *)
(* gives its permit back.                                                  *)
DispatchRetires ==
  CompletionFairness => \A t \in Token : t \in dispatches ~> t \notin dispatches

-----------------------------------------------------------------------------
(* The executor implements its contract: a slot is held from registration  *)
(* to retirement, the answer is what execute() returned.                   *)
Contract == INSTANCE NativeContract WITH
  MaxInflight <- MaxInflight,
  Token <- Token,
  open <- ~closed,
  admitted <- 1..(nextToken - 1),
  held <- dispatches,
  begun <- {t \in Token : sdk[t] \in {"running", "finished"}},
  working <- {t \in Token : sdk[t] = "running"},
  answered <- {t \in Token : returned[t] # "none"}

ImplementsContract == Contract!Spec

=============================================================================
