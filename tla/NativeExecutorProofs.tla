------------------------ MODULE NativeExecutorProofs ------------------------
(***************************************************************************)
(* Proofs about NativeExecutor, for any number of workers, permits,        *)
(* dispatches and repeated callbacks.                                      *)
(***************************************************************************)
EXTENDS NativeExecutor, FiniteSetTheorems, TLAPS

(* Where a worker has a dispatch of its own.                               *)
InCall == {"gate", "submit", "returned", "raised", "wait", "expire", "read"}

(* The dispatch of a running execute() is registered, unanswered, and only *)
(* that call's.                                                            *)
OwnDispatch ==
  \A w \in Worker : pc[w] \in InCall =>
    token[w] \in dispatches /\ returned[token[w]] = "none"

OneOwner ==
  \A v, w \in Worker :
    pc[v] \in InCall /\ pc[w] \in InCall /\ token[v] = token[w] => v = w

(* Tokens are given out in order, and nothing is known of the next ones.   *)
Numbered ==
  \A t \in Token :
    /\ t \in dispatches => t < nextToken
    /\ t >= nextToken =>
         /\ dispatch[t] = FreshDispatch
         /\ sdk[t] = "none" /\ returned[t] = "none"

(* A dispatch leaves the table only when it is retirable.                  *)
RetiredProperly ==
  \A t \in Token :
    t < nextToken /\ t \notin dispatches => Retirable(dispatch[t])

(* What the flags of a dispatch say of the caller and of the device.       *)
FlagsSound ==
  \A t \in Token :
    /\ dispatch[t].acknowledged => returned[t] # "none"
    /\ dispatch[t].physical =>
         dispatch[t].terminal # "none" /\ sdk[t] \notin {"called", "running"}
    /\ dispatch[t].started \/ normalizing[t] # {} =>
         sdk[t] \in {"finished", "refused"}
    /\ normalizing[t] \subseteq invoked[t]
    /\ returned[t] # "none" => sdk[t] # "called"

(* A registered dispatch has an outcome exactly when it has a terminal,    *)
(* and it is that terminal's.                                              *)
OutcomeSound ==
  \A t \in dispatches :
    IF dispatch[t].terminal = "callback"
    THEN dispatch[t].outcome \in invoked[t]
    ELSE dispatch[t].outcome = dispatch[t].terminal

PhaseSound ==
  \A w \in Worker :
    /\ pc[w] = "gate" =>
         sdk[token[w]] = "none" /\ ~dispatch[token[w]].physical
    /\ pc[w] = "raised" => sdk[token[w]] \in {"finished", "refused"}
    /\ pc[w] \in {"returned", "wait", "expire", "read"} =>
         sdk[token[w]] # "called"
    /\ pc[w] = "read" => dispatch[token[w]].terminal # "none"

ClosingSound ==
  /\ closing # "never" => closed
  /\ closing = "drained" => dispatches = {}


(* Everything but the permits.                                             *)
SInv ==
  /\ TypeOK
  /\ OwnDispatch
  /\ OneOwner
  /\ Numbered
  /\ RetiredProperly
  /\ FlagsSound
  /\ OutcomeSound
  /\ PhaseSound
  /\ ClosingSound
  /\ NoStrandedDispatch
  /\ AnswerIsTheTerminal

IInv == SInv /\ PermitsAccounted

-----------------------------------------------------------------------------
(* What the helpers over a dispatch record do.                             *)

(* commit_timeout_locked: the first terminal wins.                         *)
LEMMA CommitTimeoutFacts ==
  ASSUME NEW d \in Dispatch
  PROVE  LET e == CommitTimeout(d) IN
         /\ e \in Dispatch
         /\ e.terminal # "none"
         /\ e.acknowledged = d.acknowledged
         /\ e.started = d.started
         /\ e.physical = d.physical
         /\ d.terminal # "none" => e = d
         /\ d.terminal = "none" => e.terminal = "timeout" /\ e.outcome = "timeout"
  BY DEF CommitTimeout, Dispatch, Terminal, Outcome

(* commit_timeout_locked, with the device known to be done.                *)
LEMMA CommitTimeoutDoneFacts ==
  ASSUME NEW d \in Dispatch
  PROVE  LET e == [CommitTimeout(d) EXCEPT !.physical = TRUE] IN
         /\ e \in Dispatch
         /\ e.terminal # "none"
         /\ e.acknowledged = d.acknowledged
         /\ e.started = d.started
         /\ e.physical
         /\ d.terminal # "none" => e.terminal = d.terminal /\ e.outcome = d.outcome
         /\ d.terminal = "none" => e.terminal = "timeout" /\ e.outcome = "timeout"
  BY DEF CommitTimeout, Dispatch, Terminal, Outcome

(* Counting keeps the counters natural numbers.                            *)
LEMMA CountFacts ==
  ASSUME TypeOK, NEW d \in Dispatch
  PROVE  /\ CountTimeout(d) \in [{"duplicate", "late", "submit_failure", "timeout"} -> Nat]
         /\ Classified(d) \in [{"duplicate", "late", "submit_failure", "timeout"} -> Nat]
         /\ Count("submit_failure") \in [{"duplicate", "late", "submit_failure", "timeout"} -> Nat]
  BY DEF TypeOK, CountTimeout, Classified, Count

(* A worker in its call owns a registered dispatch.                        *)
LEMMA OwnToken ==
  ASSUME SInv, NEW w \in Worker, pc[w] \in InCall
  PROVE  /\ token[w] \in Token /\ token[w] \in dispatches
         /\ returned[token[w]] = "none"
         /\ dispatch[token[w]] \in Dispatch
         /\ ~dispatch[token[w]].acknowledged
         /\ \A v \in Worker \ {w} : pc[v] \in InCall => token[v] # token[w]
  BY DEF SInv, TypeOK, OwnDispatch, OneOwner, FlagsSound

(* A worker's critical section that changes its own dispatch and moves the *)
(* worker on: enough facts about the new record preserve the invariant.    *)
LEMMA OwnSection ==
  ASSUME SInv, NEW w \in Worker, pc[w] \in InCall,
         NEW e \in Dispatch, NEW step \in {"wait", "read"},
         dispatch' = [dispatch EXCEPT ![token[w]] = e],
         counts' \in [{"duplicate", "late", "submit_failure", "timeout"} -> Nat],
         GoTo(w, step),
         UNCHANGED <<permits, closed, nextToken, dispatches, token, observed,
                     returned, sdkVars, expired, closing>>,
         e.acknowledged = dispatch[token[w]].acknowledged,
         e.started = dispatch[token[w]].started,
         e.physical => e.terminal # "none" /\ sdk[token[w]] \notin {"called", "running"},
         IF e.terminal = "callback" THEN e.outcome \in invoked[token[w]]
                                    ELSE e.outcome = e.terminal,
         sdk[token[w]] # "called",
         step = "read" => e.terminal # "none"
  PROVE  SInv'
  <1> DEFINE t == token[w]
  <1>1. /\ t \in Token /\ t \in dispatches /\ returned[t] = "none"
        /\ dispatch[t] \in Dispatch /\ ~dispatch[t].acknowledged
        /\ \A v \in Worker \ {w} : pc[v] \in InCall => token[v] # t
    BY OwnToken
  <1>2. dispatch' \in [Token -> Dispatch] /\ dispatch'[t] = e
    BY <1>1 DEF SInv, TypeOK
  <1>3. \A u \in Token \ {t} : dispatch'[u] = dispatch[u]
    BY <1>1 DEF SInv, TypeOK
  <1>4. pc' \in [Worker -> Step] /\ pc'[w] = step
    BY DEF GoTo, SInv, TypeOK, Step
  <1>5. \A v \in Worker \ {w} : pc'[v] = pc[v]
    BY DEF GoTo, SInv, TypeOK
  <1> HIDE DEF t
  <1>6. TypeOK'
    BY <1>2, <1>4 DEF SInv, TypeOK, sdkVars
  <1>7. OwnDispatch' /\ OneOwner'
    BY <1>4, <1>5 DEF SInv, OwnDispatch, OneOwner, InCall
  <1>8. Numbered'
    BY <1>1, <1>2, <1>3 DEF SInv, Numbered, sdkVars, TypeOK
  <1>9. RetiredProperly'
    BY <1>1, <1>2, <1>3 DEF SInv, RetiredProperly
  <1>10. FlagsSound'
    BY <1>1, <1>2, <1>3 DEF SInv, FlagsSound, sdkVars, t
  <1>11. OutcomeSound'
    BY <1>1, <1>2, <1>3 DEF SInv, OutcomeSound, sdkVars, t, TypeOK
  <1>12. PhaseSound'
    BY <1>1, <1>2, <1>3, <1>4, <1>5 DEF SInv, PhaseSound, sdkVars, t, InCall, OwnDispatch, TypeOK
  <1>13. ClosingSound'
    BY DEF SInv, ClosingSound
  <1>14. NoStrandedDispatch'
    BY <1>1, <1>2, <1>3 DEF SInv, NoStrandedDispatch, Retirable, TypeOK, t
  <1>15. AnswerIsTheTerminal'
    BY <1>1, <1>2, <1>3 DEF SInv, AnswerIsTheTerminal, sdkVars
  <1> QED
    BY <1>6, <1>7, <1>8, <1>9, <1>10, <1>11, <1>12, <1>13, <1>14, <1>15 DEF SInv

(* What _retire_dispatch_locked does at the end of a critical section.     *)
LEMMA SettleFacts ==
  ASSUME TypeOK, NEW t \in Token, NEW e \in Dispatch, SettleAndRetire(t, e)
  PROVE  /\ dispatch' \in [Token -> Dispatch]
         /\ dispatch'[t].terminal = e.terminal
         /\ dispatch'[t].acknowledged = e.acknowledged
         /\ dispatch'[t].started = e.started
         /\ dispatch'[t].physical = e.physical
         /\ \A u \in Token \ {t} : dispatch'[u] = dispatch[u]
         /\ \/ /\ t \in dispatches /\ Retirable(e)
               /\ dispatches' = dispatches \ {t} /\ permits' = permits + 1
            \/ /\ ~(t \in dispatches /\ Retirable(e))
               /\ dispatch'[t] = e
               /\ dispatches' = dispatches /\ permits' = permits
  <1> DEFINE f == [e EXCEPT !.outcome = "none"]
  <1>1. /\ f \in Dispatch /\ f.terminal = e.terminal
        /\ f.acknowledged = e.acknowledged /\ f.started = e.started
        /\ f.physical = e.physical
    BY DEF Dispatch, Outcome
  <1>2. CASE t \in dispatches /\ Retirable(e)
    <2>1. /\ dispatch' = [dispatch EXCEPT ![t] = f]
          /\ dispatches' = dispatches \ {t} /\ permits' = permits + 1
      BY <1>2 DEF SettleAndRetire
    <2> HIDE DEF f
    <2> QED BY <1>1, <1>2, <2>1 DEF TypeOK
  <1>3. CASE ~(t \in dispatches /\ Retirable(e))
    <2>1. /\ dispatch' = [dispatch EXCEPT ![t] = e]
          /\ dispatches' = dispatches /\ permits' = permits
      BY <1>3 DEF SettleAndRetire
    <2> QED BY <1>3, <2>1 DEF TypeOK
  <1> QED BY <1>2, <1>3

(* A critical section of an acknowledgement or a callback.                 *)
LEMMA SettledSection ==
  ASSUME SInv, NEW t \in Token, t < nextToken, NEW e \in Dispatch,
         SettleAndRetire(t, e),
         counts' \in [{"duplicate", "late", "submit_failure", "timeout"} -> Nat],
         UNCHANGED <<closed, nextToken, workerVars, sdk, invoked, expired, closing>>,
         normalizing' \in [Token -> SUBSET Call],
         \A u \in Token : normalizing'[u] \subseteq normalizing[u],
         e.started = dispatch[t].started,
         dispatch[t].acknowledged => e.acknowledged,
         e.acknowledged => returned[t] # "none",
         dispatch[t].physical => e.physical,
         e.physical => /\ e.terminal # "none"
                       /\ sdk[t] \notin {"called", "running"}
                       /\ dispatch[t].physical \/ sdk[t] # "none",
         dispatch[t].terminal # "none" => e.terminal = dispatch[t].terminal,
         t \in dispatches =>
           IF e.terminal = "callback" THEN e.outcome \in invoked[t]
                                      ELSE e.outcome = e.terminal
  PROVE  SInv'
  <1>1. /\ dispatch' \in [Token -> Dispatch]
        /\ dispatch'[t].terminal = e.terminal
        /\ dispatch'[t].acknowledged = e.acknowledged
        /\ dispatch'[t].started = e.started
        /\ dispatch'[t].physical = e.physical
        /\ \A u \in Token \ {t} : dispatch'[u] = dispatch[u]
    BY SettleFacts DEF SInv
  <1>2. \/ /\ t \in dispatches /\ Retirable(e)
           /\ dispatches' = dispatches \ {t} /\ permits' = permits + 1
        \/ /\ ~(t \in dispatches /\ Retirable(e))
           /\ dispatch'[t] = e
           /\ dispatches' = dispatches /\ permits' = permits
    BY SettleFacts DEF SInv
  <1>3. TypeOK'
    BY <1>1, <1>2 DEF SInv, TypeOK, workerVars
  <1>4. OwnDispatch'
    BY <1>2 DEF SInv, OwnDispatch, workerVars, Retirable
  <1>5. OneOwner'
    BY DEF SInv, OneOwner, workerVars
  <1>6. Numbered'
    <2>1. dispatches' \subseteq dispatches
      BY <1>2
    <2>2. \A u \in Token : u >= nextToken => u # t
      BY DEF SInv, TypeOK, Token
    <2> QED
      BY <1>1, <2>1, <2>2 DEF SInv, Numbered, workerVars
  <1>7. RetiredProperly'
    BY <1>1, <1>2 DEF SInv, RetiredProperly, Retirable
  <1>8. FlagsSound'
    BY <1>1 DEF SInv, FlagsSound, workerVars
  <1>9. OutcomeSound'
    BY <1>1, <1>2 DEF SInv, OutcomeSound, TypeOK
  <1>10. PhaseSound'
    BY <1>1 DEF SInv, PhaseSound, OwnDispatch, InCall, workerVars, TypeOK
  <1>11. ClosingSound'
    BY <1>2 DEF SInv, ClosingSound
  <1>12. NoStrandedDispatch'
    BY <1>1, <1>2 DEF SInv, NoStrandedDispatch, Retirable, TypeOK
  <1>13. AnswerIsTheTerminal'
    BY <1>1 DEF SInv, AnswerIsTheTerminal, workerVars
  <1> QED
    BY <1>3, <1>4, <1>5, <1>6, <1>7, <1>8, <1>9, <1>10, <1>11, <1>12, <1>13 DEF SInv

(* acknowledge() keeps the invariant.                                      *)
LEMMA AcknowledgeKeeps ==
  ASSUME SInv, NEW t \in Token, Acknowledge(t)  PROVE SInv'
  <1> DEFINE e == [dispatch[t] EXCEPT !.acknowledged = TRUE]
  <1>1. /\ e \in Dispatch /\ e.acknowledged /\ e.started = dispatch[t].started
        /\ e.physical = dispatch[t].physical
        /\ e.terminal = dispatch[t].terminal /\ e.outcome = dispatch[t].outcome
    BY DEF SInv, TypeOK, Dispatch
  <1>2. /\ SettleAndRetire(t, e) /\ returned[t] # "none" /\ t \in dispatches
        /\ UNCHANGED <<closed, nextToken, counts, workerVars, sdkVars, expired, closing>>
    BY DEF Acknowledge
  <1> HIDE DEF e
  <1>3. t < nextToken
    BY <1>2 DEF SInv, Numbered
  <1>4. /\ counts' \in [{"duplicate", "late", "submit_failure", "timeout"} -> Nat]
        /\ normalizing' \in [Token -> SUBSET Call]
        /\ \A u \in Token : normalizing'[u] \subseteq normalizing[u]
    BY <1>2 DEF SInv, TypeOK, sdkVars
  <1>5. e.physical => /\ e.terminal # "none"
                      /\ sdk[t] \notin {"called", "running"}
    BY <1>1 DEF SInv, FlagsSound
  <1>6. IF e.terminal = "callback" THEN e.outcome \in invoked[t]
                                   ELSE e.outcome = e.terminal
    BY <1>1, <1>2 DEF SInv, OutcomeSound
  <1> QED
    BY <1>1, <1>2, <1>3, <1>4, <1>5, <1>6, SettledSection DEF sdkVars

(* The first section of a callback keeps the invariant.                    *)
LEMMA CallbackKeeps ==
  ASSUME SInv, NEW t \in Token, NEW c \in Call, Callback(t, c)  PROVE SInv'
  <1> DEFINE d == dispatch[t]
             e == [d EXCEPT !.started = TRUE]
  <1>1. /\ e \in Dispatch /\ e.started /\ e.acknowledged = d.acknowledged
        /\ e.physical = d.physical
        /\ e.terminal = d.terminal /\ e.outcome = d.outcome
    BY DEF SInv, TypeOK, Dispatch
  <1>2. /\ sdk[t] \in {"finished", "refused"}
        /\ invoked' = [invoked EXCEPT ![t] = @ \cup {c}]
        /\ dispatch' = [dispatch EXCEPT ![t] = e]
        /\ UNCHANGED <<permits, closed, nextToken, dispatches, workerVars, sdk,
                       expired, closing>>
    BY DEF Callback
  <1>3. /\ counts' \in [{"duplicate", "late", "submit_failure", "timeout"} -> Nat]
        /\ normalizing' \in [Token -> SUBSET Call]
        /\ normalizing'[t] \subseteq normalizing[t] \cup {c}
        /\ \A u \in Token \ {t} : normalizing'[u] = normalizing[u]
    <2>1. d \in Dispatch
      BY DEF SInv, TypeOK
    <2>2. Classified(d) \in [{"duplicate", "late", "submit_failure", "timeout"} -> Nat]
      BY <2>1, CountFacts DEF SInv
    <2>3. CASE d.physical /\ d.terminal # "none"
      BY <2>2, <2>3 DEF Callback, SInv, TypeOK
    <2>4. CASE ~(d.physical /\ d.terminal # "none")
      BY <2>4 DEF Callback, SInv, TypeOK
    <2> QED BY <2>3, <2>4
  <1> HIDE DEF e
  <1>4. /\ dispatch' \in [Token -> Dispatch] /\ dispatch'[t] = e
        /\ \A u \in Token \ {t} : dispatch'[u] = dispatch[u]
    BY <1>1, <1>2 DEF SInv, TypeOK
  <1>5. /\ invoked' \in [Token -> SUBSET Call] /\ invoked'[t] = invoked[t] \cup {c}
        /\ \A u \in Token \ {t} : invoked'[u] = invoked[u]
    BY <1>2 DEF SInv, TypeOK
  <1>6. TypeOK'
    BY <1>2, <1>3, <1>4, <1>5 DEF SInv, TypeOK, workerVars
  <1>7. OwnDispatch' /\ OneOwner' /\ ClosingSound'
    BY <1>2 DEF SInv, OwnDispatch, OneOwner, ClosingSound, workerVars
  <1>8. Numbered' /\ RetiredProperly'
    BY <1>1, <1>2, <1>4 DEF SInv, Numbered, RetiredProperly, Retirable, workerVars
  <1>9. FlagsSound'
    BY <1>1, <1>2, <1>3, <1>4, <1>5 DEF SInv, FlagsSound, workerVars
  <1>10. OutcomeSound' /\ NoStrandedDispatch'
    BY <1>1, <1>2, <1>4, <1>5
    DEF SInv, OutcomeSound, NoStrandedDispatch, Retirable, TypeOK
  <1>11. PhaseSound'
    BY <1>1, <1>2, <1>4 DEF SInv, PhaseSound, workerVars, TypeOK
  <1>12. AnswerIsTheTerminal'
    BY <1>1, <1>2, <1>4, <1>5 DEF SInv, AnswerIsTheTerminal, workerVars
  <1> QED
    BY <1>6, <1>7, <1>8, <1>9, <1>10, <1>11, <1>12 DEF SInv

(* The second section of a callback keeps it: the first terminal stays.    *)
LEMMA CallbackCommitKeeps ==
  ASSUME SInv, NEW t \in Token, NEW c \in Call, CallbackCommit(t, c)
  PROVE  SInv'
  <1> DEFINE d == dispatch[t]
  <1>1. /\ c \in normalizing[t]
        /\ normalizing' = [normalizing EXCEPT ![t] = @ \ {c}]
        /\ UNCHANGED <<closed, nextToken, workerVars, sdk, invoked, expired, closing>>
    BY DEF CallbackCommit
  <1>2. /\ normalizing' \in [Token -> SUBSET Call]
        /\ \A u \in Token : normalizing'[u] \subseteq normalizing[u]
    BY <1>1 DEF SInv, TypeOK
  <1>3. /\ d \in Dispatch /\ c \in invoked[t]
        /\ sdk[t] \in {"finished", "refused"}
        /\ d.acknowledged => returned[t] # "none"
        /\ returned[t] # "none" => d.terminal # "none"
    BY <1>1 DEF SInv, TypeOK, FlagsSound, AnswerIsTheTerminal
  <1>4. t < nextToken
    BY <1>3 DEF SInv, Numbered, TypeOK, Token
  <1>5. t \in dispatches =>
          IF d.terminal = "callback" THEN d.outcome \in invoked[t]
                                     ELSE d.outcome = d.terminal
    BY DEF SInv, OutcomeSound
  <1>6. CASE CallbackRepeated(t)
    <2>1. counts' \in [{"duplicate", "late", "submit_failure", "timeout"} -> Nat]
      BY <1>3, <1>6, CountFacts DEF CallbackRepeated, SInv, TypeOK
    <2>2. UNCHANGED <<permits, dispatches, dispatch>>
      BY <1>6 DEF CallbackRepeated
    <2>3. TypeOK'
      BY <1>1, <1>2, <2>1, <2>2 DEF SInv, TypeOK, workerVars
    <2>4. FlagsSound'
      BY <1>1, <1>2, <2>2 DEF SInv, FlagsSound, workerVars
    <2>5. OwnDispatch' /\ OneOwner' /\ PhaseSound' /\ ClosingSound'
      BY <1>1, <2>2 DEF SInv, OwnDispatch, OneOwner, PhaseSound, ClosingSound, workerVars
    <2>6. Numbered' /\ RetiredProperly' /\ NoStrandedDispatch'
      BY <1>1, <2>2
      DEF SInv, Numbered, RetiredProperly, NoStrandedDispatch, Retirable, workerVars
    <2>7. OutcomeSound' /\ AnswerIsTheTerminal'
      BY <1>1, <2>2 DEF SInv, OutcomeSound, AnswerIsTheTerminal, workerVars
    <2> QED
      BY <2>3, <2>4, <2>5, <2>6, <2>7 DEF SInv
  <1>7. CASE CallbackAnswered(t)
    <2> DEFINE e == [d EXCEPT !.physical = TRUE]
    <2>1. /\ e \in Dispatch /\ e.physical /\ e.started = d.started
          /\ e.acknowledged = d.acknowledged
          /\ e.terminal = d.terminal /\ e.outcome = d.outcome
      BY <1>3 DEF Dispatch
    <2>2. /\ ~d.physical /\ d.terminal # "none" /\ SettleAndRetire(t, e)
          /\ counts' \in [{"duplicate", "late", "submit_failure", "timeout"} -> Nat]
      BY <1>3, <1>7, CountFacts DEF CallbackAnswered, SInv
    <2> HIDE DEF e
    <2> QED
      BY <1>1, <1>2, <1>3, <1>4, <1>5, <2>1, <2>2, SettledSection
  <1>8. CASE CallbackLate(t)
    <2> DEFINE e == [CommitTimeout(d) EXCEPT !.physical = TRUE]
    <2>1. /\ e \in Dispatch /\ e.physical /\ e.started = d.started
          /\ e.acknowledged = d.acknowledged
          /\ d.terminal = "none" => e.terminal = "timeout" /\ e.outcome = "timeout"
      BY <1>3, CommitTimeoutDoneFacts
    <2>2. ~d.physical /\ d.terminal = "none" /\ SettleAndRetire(t, e)
      BY <1>8 DEF CallbackLate
    <2>3. counts' \in [{"duplicate", "late", "submit_failure", "timeout"} -> Nat]
      BY <1>3, <1>8, CountFacts DEF CallbackLate, SInv
    <2> HIDE DEF e
    <2> QED
      BY <1>1, <1>2, <1>3, <1>4, <1>5, <2>1, <2>2, <2>3, SettledSection
  <1>9. CASE CallbackWins(t, c)
    <2> DEFINE e == [d EXCEPT !.physical = TRUE, !.outcome = c, !.terminal = "callback"]
    <2>1. /\ e \in Dispatch /\ e.physical /\ e.started = d.started
          /\ e.acknowledged = d.acknowledged
          /\ e.terminal = "callback" /\ e.outcome = c
      BY <1>3 DEF Dispatch, Terminal, Outcome
    <2>2. /\ ~d.physical /\ d.terminal = "none" /\ SettleAndRetire(t, e)
          /\ counts' \in [{"duplicate", "late", "submit_failure", "timeout"} -> Nat]
      BY <1>9 DEF CallbackWins, SInv, TypeOK
    <2> HIDE DEF e
    <2> QED
      BY <1>1, <1>2, <1>3, <1>4, <1>5, <2>1, <2>2, SettledSection
  <1> QED
    BY <1>6, <1>7, <1>8, <1>9 DEF CallbackCommit

(* A submit gate that finds the deadline passed keeps the invariant.       *)
LEMMA GateExpiredKeeps ==
  ASSUME SInv, NEW w \in Worker, GateExpired(w)  PROVE SInv'
  <1> DEFINE d == dispatch[token[w]]
             e == [CommitTimeout(d) EXCEPT !.physical = TRUE]
  <1>1. pc[w] \in InCall /\ d \in Dispatch /\ token[w] \in dispatches
    BY OwnToken DEF GateExpired, InCall
  <1>2. sdk[token[w]] = "none"
    BY DEF GateExpired, SInv, PhaseSound
  <1>3. IF d.terminal = "callback" THEN d.outcome \in invoked[token[w]]
                                   ELSE d.outcome = d.terminal
    BY <1>1 DEF SInv, OutcomeSound
  <1>4. counts' \in [{"duplicate", "late", "submit_failure", "timeout"} -> Nat]
    BY <1>1, CountFacts DEF GateExpired, SInv
  <1>5. dispatch' = [dispatch EXCEPT ![token[w]] = e] /\ GoTo(w, "wait")
    BY DEF GateExpired
  <1>6. UNCHANGED <<permits, closed, nextToken, dispatches, token, observed,
                    returned, sdkVars, expired, closing>>
    BY DEF GateExpired
  <1>7. /\ e \in Dispatch /\ e.terminal # "none"
        /\ e.acknowledged = d.acknowledged /\ e.started = d.started
        /\ d.terminal # "none" => e.terminal = d.terminal /\ e.outcome = d.outcome
        /\ d.terminal = "none" => e.terminal = "timeout" /\ e.outcome = "timeout"
    BY <1>1, CommitTimeoutDoneFacts
  <1> HIDE DEF d, e
  <1> QED
    BY <1>1, <1>2, <1>3, <1>4, <1>5, <1>6, <1>7, OwnSection DEF d

(* The section behind a submit_async that returned keeps it.               *)
LEMMA RecordSubmissionKeeps ==
  ASSUME SInv, NEW w \in Worker, RecordSubmission(w)  PROVE SInv'
  <1> DEFINE d == dispatch[token[w]]
             e == IF observed[w] THEN CommitTimeout(d) ELSE d
  <1>1. pc[w] \in InCall /\ d \in Dispatch /\ token[w] \in dispatches /\ token[w] \in Token
    BY OwnToken DEF RecordSubmission, InCall
  <1>2. /\ sdk[token[w]] # "called"
        /\ d.physical => d.terminal # "none" /\ sdk[token[w]] \notin {"called", "running"}
    BY <1>1 DEF RecordSubmission, SInv, PhaseSound, FlagsSound
  <1>3. IF d.terminal = "callback" THEN d.outcome \in invoked[token[w]]
                                   ELSE d.outcome = d.terminal
    BY <1>1 DEF SInv, OutcomeSound
  <1>4. counts' \in [{"duplicate", "late", "submit_failure", "timeout"} -> Nat]
    BY <1>1, CountFacts DEF RecordSubmission, SInv, TypeOK
  <1>5. dispatch' = [dispatch EXCEPT ![token[w]] = e] /\ GoTo(w, "wait")
    BY DEF RecordSubmission, SInv, TypeOK
  <1>6. UNCHANGED <<permits, closed, nextToken, dispatches, token, observed,
                    returned, sdkVars, expired, closing>>
    BY DEF RecordSubmission
  <1>7. /\ e \in Dispatch /\ e.physical = d.physical
        /\ e.acknowledged = d.acknowledged /\ e.started = d.started
        /\ d.terminal # "none" => e = d
        /\ d.terminal = "none" =>
             e = d \/ (e.terminal = "timeout" /\ e.outcome = "timeout")
    BY <1>1, CommitTimeoutFacts
  <1> HIDE DEF d, e
  <1> QED
    BY <1>1, <1>2, <1>3, <1>4, <1>5, <1>6, <1>7, OwnSection DEF d

(* The section behind an expired wait keeps it.                            *)
LEMMA ExpireKeeps ==
  ASSUME SInv, NEW w \in Worker, Expire(w)  PROVE SInv'
  <1> DEFINE d == dispatch[token[w]]
             e == CommitTimeout(d)
  <1>1. pc[w] \in InCall /\ d \in Dispatch /\ token[w] \in dispatches /\ token[w] \in Token
    BY OwnToken DEF Expire, InCall
  <1>2. /\ sdk[token[w]] # "called"
        /\ d.physical => d.terminal # "none" /\ sdk[token[w]] \notin {"called", "running"}
    BY <1>1 DEF Expire, SInv, PhaseSound, FlagsSound
  <1>3. IF d.terminal = "callback" THEN d.outcome \in invoked[token[w]]
                                   ELSE d.outcome = d.terminal
    BY <1>1 DEF SInv, OutcomeSound
  <1>4. counts' \in [{"duplicate", "late", "submit_failure", "timeout"} -> Nat]
    BY <1>1, CountFacts DEF Expire, SInv
  <1>5. dispatch' = [dispatch EXCEPT ![token[w]] = e] /\ GoTo(w, "read")
    BY DEF Expire
  <1>6. UNCHANGED <<permits, closed, nextToken, dispatches, token, observed,
                    returned, sdkVars, expired, closing>>
    BY DEF Expire
  <1>7. /\ e \in Dispatch /\ e.terminal # "none" /\ e.physical = d.physical
        /\ e.acknowledged = d.acknowledged /\ e.started = d.started
        /\ d.terminal # "none" => e = d
        /\ d.terminal = "none" => e.terminal = "timeout" /\ e.outcome = "timeout"
    BY <1>1, CommitTimeoutFacts
  <1> HIDE DEF d, e
  <1> QED
    BY <1>1, <1>2, <1>3, <1>4, <1>5, <1>6, <1>7, OwnSection DEF d

(* The section behind a submit_async that raised keeps it.                 *)
LEMMA RecordFailureKeeps ==
  ASSUME SInv, NEW w \in Worker, RecordFailure(w)  PROVE SInv'
  <1> DEFINE d == dispatch[token[w]]
             e == IF d.started THEN d
                  ELSE IF observed[w] \/ d.terminal # "none"
                       THEN [CommitTimeout(d) EXCEPT !.physical = TRUE]
                       ELSE [d EXCEPT !.terminal = "submit_failure",
                                      !.outcome = "submit_failure",
                                      !.physical = TRUE]
  <1>1. pc[w] \in InCall /\ d \in Dispatch /\ token[w] \in dispatches /\ token[w] \in Token
    BY OwnToken DEF RecordFailure, InCall
  <1>2. /\ sdk[token[w]] \notin {"called", "running"}
        /\ d.physical => d.terminal # "none"
    BY <1>1 DEF RecordFailure, SInv, PhaseSound, FlagsSound
  <1>3. IF d.terminal = "callback" THEN d.outcome \in invoked[token[w]]
                                   ELSE d.outcome = d.terminal
    BY <1>1 DEF SInv, OutcomeSound
  <1>4. counts' \in [{"duplicate", "late", "submit_failure", "timeout"} -> Nat]
    BY <1>1, CountFacts DEF RecordFailure, SInv, TypeOK
  <1>5. dispatch' = [dispatch EXCEPT ![token[w]] = e] /\ GoTo(w, "wait")
    BY <1>1 DEF RecordFailure, SInv, TypeOK
  <1>6. UNCHANGED <<permits, closed, nextToken, dispatches, token, observed,
                    returned, sdkVars, expired, closing>>
    BY DEF RecordFailure
  <1>7. /\ e \in Dispatch
        /\ e.acknowledged = d.acknowledged /\ e.started = d.started
        /\ d.terminal # "none" => e.terminal = d.terminal /\ e.outcome = d.outcome
        /\ \/ e = d
           \/ e.terminal = d.terminal /\ e.outcome = d.outcome /\ d.terminal # "none"
           \/ e.terminal = "timeout" /\ e.outcome = "timeout"
           \/ e.terminal = "submit_failure" /\ e.outcome = "submit_failure"
    <2>1. CASE d.started
      BY <1>1, <2>1
    <2>2. CASE ~d.started /\ (observed[w] \/ d.terminal # "none")
      BY <1>1, <2>2, CommitTimeoutDoneFacts
    <2>3. CASE ~d.started /\ ~observed[w] /\ d.terminal = "none"
      BY <1>1, <2>3 DEF Dispatch, Terminal, Outcome
    <2> QED BY <2>1, <2>2, <2>3
  <1> HIDE DEF d, e
  <1> QED
    BY <1>1, <1>2, <1>3, <1>4, <1>5, <1>6, <1>7, OwnSection DEF d

(* Registration takes a token nobody has and keeps the invariant.          *)
LEMMA RegisterKeeps ==
  ASSUME SInv, NEW w \in Worker, Register(w)  PROVE SInv'
  <1> DEFINE t == nextToken
  <1>1. /\ pc[w] = "register" /\ ~closed /\ t \in Token
        /\ token' = [token EXCEPT ![w] = t]
        /\ t' = t + 1
        /\ dispatches' = dispatches \cup {t}
        /\ GoTo(w, "gate")
        /\ UNCHANGED <<permits, closed, dispatch, counts, observed, returned,
                       sdkVars, closing>>
    BY DEF Register, RegisterUnchecked
  <1>2. expired' \in [Token -> BOOLEAN]
    BY DEF Register, RegisterUnchecked, SInv, TypeOK
  <1>3. /\ t \notin dispatches /\ returned[t] = "none" /\ sdk[t] = "none"
        /\ dispatch[t] = FreshDispatch
    BY <1>1 DEF SInv, Numbered, TypeOK, Token
  <1>4. /\ token'[w] = t /\ token' \in [Worker -> 0..MaxToken]
        /\ pc'[w] = "gate" /\ pc' \in [Worker -> Step]
        /\ \A v \in Worker \ {w} : token'[v] = token[v] /\ pc'[v] = pc[v]
    BY <1>1 DEF GoTo, SInv, TypeOK, Token, Step
  <1>5. nextToken' \in 1..(MaxToken + 1)
    BY <1>1, ExecutorAssumption DEF Token, SInv, TypeOK
  <1>6. t \in Int /\ \A u \in Token : u \in Int /\ (u >= t + 1 => u >= t /\ u # t)
                                  /\ (u < t + 1 => u < t \/ u = t)
    BY <1>1 DEF Token
  <1> HIDE DEF t
  <1>7. TypeOK'
    BY <1>1, <1>2, <1>4, <1>5 DEF SInv, TypeOK, sdkVars
  <1>8. OwnDispatch'
    BY <1>1, <1>3, <1>4 DEF SInv, OwnDispatch
  <1>9. OneOwner'
    BY <1>3, <1>4 DEF SInv, OneOwner, OwnDispatch, InCall
  <1>10. Numbered'
    <2>1. \A u \in Token : u \in dispatches' => u < nextToken'
      BY <1>1, <1>6 DEF SInv, Numbered, t
    <2>2. \A u \in Token : u >= nextToken' => u >= nextToken
      BY <1>1, <1>6 DEF t
    <2> QED BY <1>1, <2>1, <2>2 DEF SInv, Numbered, sdkVars
  <1>11. RetiredProperly'
    <2>1. \A u \in Token : u < nextToken' /\ u \notin dispatches' => u < nextToken /\ u \notin dispatches
      BY <1>1, <1>6 DEF t
    <2> QED BY <1>1, <2>1 DEF SInv, RetiredProperly, Retirable
  <1>12. FlagsSound'
    BY <1>1 DEF SInv, FlagsSound, sdkVars
  <1>13. OutcomeSound' /\ NoStrandedDispatch'
    BY <1>1, <1>3 DEF SInv, OutcomeSound, NoStrandedDispatch, Retirable, FreshDispatch, sdkVars
  <1>14. PhaseSound'
    BY <1>1, <1>3, <1>4 DEF SInv, PhaseSound, FreshDispatch, sdkVars
  <1>15. ClosingSound'
    BY <1>1 DEF SInv, ClosingSound
  <1>16. AnswerIsTheTerminal'
    BY <1>1 DEF SInv, AnswerIsTheTerminal, sdkVars
  <1> QED
    BY <1>7, <1>8, <1>9, <1>10, <1>11, <1>12, <1>13, <1>14, <1>15, <1>16 DEF SInv

(* The steps of execute() that only move the worker.                      *)
LEMMA ExecuteKeeps ==
  ASSUME SInv, NEW w \in Worker, Execute(w)  PROVE SInv'
  BY ExecutorAssumption
  DEF SInv, Execute, TypeOK, OwnDispatch, OneOwner, Numbered, RetiredProperly,
      FlagsSound, OutcomeSound, PhaseSound, ClosingSound, NoStrandedDispatch,
      AnswerIsTheTerminal, Retirable, GoTo, Step, InCall, execVars, workerVars, sdkVars

(* Taking a permit keeps the invariant.                                    *)
LEMMA AcquirePermitKeeps ==
  ASSUME SInv, NEW w \in Worker, AcquirePermit(w)  PROVE SInv'
  BY ExecutorAssumption
  DEF SInv, AcquirePermit, TypeOK, OwnDispatch, OneOwner, Numbered, RetiredProperly,
      FlagsSound, OutcomeSound, PhaseSound, ClosingSound, NoStrandedDispatch,
      AnswerIsTheTerminal, Retirable, GoTo, Step, InCall, execVars, workerVars, sdkVars

(* Giving up on a permit keeps the invariant.                              *)
LEMMA PermitTimeoutKeeps ==
  ASSUME SInv, NEW w \in Worker, PermitTimeout(w)  PROVE SInv'
  BY ExecutorAssumption
  DEF SInv, PermitTimeout, TypeOK, OwnDispatch, OneOwner, Numbered, RetiredProperly,
      FlagsSound, OutcomeSound, PhaseSound, ClosingSound, NoStrandedDispatch,
      AnswerIsTheTerminal, Retirable, GoTo, Step, InCall, execVars, workerVars, sdkVars

(* Refusal of a call on a closed executor keeps it.                        *)
LEMMA RefuseKeeps ==
  ASSUME SInv, NEW w \in Worker, Refuse(w)  PROVE SInv'
  BY ExecutorAssumption
  DEF SInv, Refuse, TypeOK, OwnDispatch, OneOwner, Numbered, RetiredProperly,
      FlagsSound, OutcomeSound, PhaseSound, ClosingSound, NoStrandedDispatch,
      AnswerIsTheTerminal, Retirable, GoTo, Step, InCall, execVars, workerVars, sdkVars

(* A wait ended by the event keeps it.                                     *)
LEMMA EventSetKeeps ==
  ASSUME SInv, NEW w \in Worker, EventSet(w)  PROVE SInv'
  BY ExecutorAssumption
  DEF SInv, EventSet, TypeOK, OwnDispatch, OneOwner, Numbered, RetiredProperly,
      FlagsSound, OutcomeSound, PhaseSound, ClosingSound, NoStrandedDispatch,
      AnswerIsTheTerminal, Retirable, GoTo, Step, InCall, execVars, workerVars, sdkVars

(* A wait ended by the deadline keeps it.                                  *)
LEMMA EventTimeoutKeeps ==
  ASSUME SInv, NEW w \in Worker, EventTimeout(w)  PROVE SInv'
  BY ExecutorAssumption
  DEF SInv, EventTimeout, TypeOK, OwnDispatch, OneOwner, Numbered, RetiredProperly,
      FlagsSound, OutcomeSound, PhaseSound, ClosingSound, NoStrandedDispatch,
      AnswerIsTheTerminal, Retirable, GoTo, Step, InCall, execVars, workerVars, sdkVars

(* The steps of execute() around the SDK call, and the return.            *)
LEMMA CallSubmitKeeps ==
  ASSUME SInv, NEW w \in Worker, CallSubmit(w)  PROVE SInv'
  BY ExecutorAssumption
  DEF SInv, CallSubmit, TypeOK, OwnDispatch, OneOwner, Numbered, RetiredProperly,
      FlagsSound, OutcomeSound, PhaseSound, ClosingSound, NoStrandedDispatch,
      AnswerIsTheTerminal, Retirable, GoTo, Step, InCall, execVars, workerVars, sdkVars

(* submit_async returning keeps it.                                        *)
LEMMA SubmitReturnsKeeps ==
  ASSUME SInv, NEW w \in Worker, SubmitReturns(w)  PROVE SInv'
  BY ExecutorAssumption
  DEF SInv, SubmitReturns, TypeOK, OwnDispatch, OneOwner, Numbered, RetiredProperly,
      FlagsSound, OutcomeSound, PhaseSound, ClosingSound, NoStrandedDispatch,
      AnswerIsTheTerminal, Retirable, GoTo, Step, InCall, execVars, workerVars, sdkVars

(* submit_async raising keeps it.                                          *)
LEMMA SubmitRaisesKeeps ==
  ASSUME SInv, NEW w \in Worker, SubmitRaises(w)  PROVE SInv'
  BY ExecutorAssumption
  DEF SInv, SubmitRaises, TypeOK, OwnDispatch, OneOwner, Numbered, RetiredProperly,
      FlagsSound, OutcomeSound, PhaseSound, ClosingSound, NoStrandedDispatch,
      AnswerIsTheTerminal, Retirable, GoTo, Step, InCall, execVars, workerVars, sdkVars

(* execute() returns the terminal's outcome and keeps the invariant.       *)
LEMMA ReturnKeeps ==
  ASSUME SInv, NEW w \in Worker, Return(w)  PROVE SInv'
  <1> DEFINE t == token[w]
             d == dispatch[t]
  <1>1. /\ t \in Token /\ t \in dispatches /\ returned[t] = "none"
        /\ ~d.acknowledged
        /\ \A v \in Worker \ {w} : pc[v] \in InCall => token[v] # t
    BY OwnToken DEF Return, InCall
  <1>2. /\ d.terminal # "none" /\ sdk[t] # "called"
        /\ IF d.terminal = "callback" THEN d.outcome \in invoked[t]
                                      ELSE d.outcome = d.terminal
    BY <1>1 DEF Return, SInv, PhaseSound, OutcomeSound
  <1>3. /\ invoked[t] \subseteq Call /\ d.outcome \in Outcome /\ d.outcome # "none"
    BY <1>1, <1>2, ExecutorAssumption DEF SInv, TypeOK, Dispatch
  <1>4. /\ returned' = [returned EXCEPT ![t] = d.outcome]
        /\ pc' = [pc EXCEPT ![w] = "idle"]
        /\ UNCHANGED <<execVars, token, observed, sdkVars, expired, closing>>
    BY <1>3 DEF Return, GoTo
  <1>5. /\ returned'[t] = d.outcome /\ pc'[w] = "idle"
        /\ \A u \in Token \ {t} : returned'[u] = returned[u]
        /\ \A v \in Worker \ {w} : pc'[v] = pc[v]
    BY <1>1, <1>4 DEF SInv, TypeOK
  <1>6. t < nextToken
    BY <1>1 DEF SInv, Numbered
  <1> HIDE DEF t, d
  <1>7. TypeOK'
    BY <1>3, <1>4 DEF SInv, TypeOK, Step, execVars, sdkVars
  <1>8. OwnDispatch' /\ OneOwner'
    BY <1>1, <1>4, <1>5 DEF SInv, TypeOK, OwnDispatch, OneOwner, InCall, execVars
  <1>9. Numbered'
    <2>1. \A u \in Token : u >= nextToken => u # t
      BY <1>1, <1>6 DEF SInv, TypeOK, Token
    <2> QED BY <1>4, <1>5, <2>1 DEF SInv, Numbered, execVars, sdkVars
  <1>10. RetiredProperly' /\ NoStrandedDispatch' /\ ClosingSound' /\ OutcomeSound'
    BY <1>4 DEF SInv, RetiredProperly, NoStrandedDispatch, ClosingSound,
                OutcomeSound, Retirable, execVars, sdkVars
  <1>11. FlagsSound'
    BY <1>2, <1>3, <1>4, <1>5 DEF SInv, FlagsSound, execVars, sdkVars
  <1>12. PhaseSound'
    BY <1>4, <1>5 DEF SInv, PhaseSound, execVars, sdkVars
  <1>13. AnswerIsTheTerminal'
    BY <1>2, <1>4, <1>5 DEF SInv, AnswerIsTheTerminal, execVars, sdkVars, d, t
  <1> QED
    BY <1>7, <1>8, <1>9, <1>10, <1>11, <1>12, <1>13 DEF SInv

(* The environment.                                                       *)
LEMMA SdkAcceptKeeps ==
  ASSUME SInv, NEW t \in Token, SdkAccept(t)  PROVE SInv'
  BY ExecutorAssumption
  DEF SInv, SdkAccept, TypeOK, OwnDispatch, OneOwner, Numbered, RetiredProperly,
      FlagsSound, OutcomeSound, PhaseSound, ClosingSound, NoStrandedDispatch,
      AnswerIsTheTerminal, Retirable, GoTo, Step, InCall, execVars, workerVars, sdkVars

(* The device finishing a job keeps the invariant.                         *)
LEMMA SdkFinishKeeps ==
  ASSUME SInv, NEW t \in Token, SdkFinish(t)  PROVE SInv'
  BY ExecutorAssumption
  DEF SInv, SdkFinish, TypeOK, OwnDispatch, OneOwner, Numbered, RetiredProperly,
      FlagsSound, OutcomeSound, PhaseSound, ClosingSound, NoStrandedDispatch,
      AnswerIsTheTerminal, Retirable, GoTo, Step, InCall, execVars, workerVars, sdkVars

(* A deadline passing keeps the invariant.                                 *)
LEMMA DeadlineKeeps ==
  ASSUME SInv, NEW t \in Token, Deadline(t)  PROVE SInv'
  BY ExecutorAssumption
  DEF SInv, Deadline, TypeOK, OwnDispatch, OneOwner, Numbered, RetiredProperly,
      FlagsSound, OutcomeSound, PhaseSound, ClosingSound, NoStrandedDispatch,
      AnswerIsTheTerminal, Retirable, GoTo, Step, InCall, execVars, workerVars, sdkVars

(* shutdown().                                                            *)
LEMMA ShutdownKeeps ==
  ASSUME SInv, Shutdown  PROVE SInv'
  BY ExecutorAssumption
  DEF SInv, Shutdown, TypeOK, OwnDispatch, OneOwner, Numbered, RetiredProperly,
      FlagsSound, OutcomeSound, PhaseSound, ClosingSound, NoStrandedDispatch,
      AnswerIsTheTerminal, Retirable, GoTo, Step, InCall, execVars, workerVars, sdkVars

(* shutdown() returning True keeps it.                                     *)
LEMMA ShutdownDrainedKeeps ==
  ASSUME SInv, ShutdownDrained  PROVE SInv'
  BY ExecutorAssumption
  DEF SInv, ShutdownDrained, TypeOK, OwnDispatch, OneOwner, Numbered, RetiredProperly,
      FlagsSound, OutcomeSound, PhaseSound, ClosingSound, NoStrandedDispatch,
      AnswerIsTheTerminal, Retirable, GoTo, Step, InCall, execVars, workerVars, sdkVars

(* shutdown() returning False keeps it.                                    *)
LEMMA ShutdownTimeoutKeeps ==
  ASSUME SInv, ShutdownTimeout  PROVE SInv'
  BY ExecutorAssumption
  DEF SInv, ShutdownTimeout, TypeOK, OwnDispatch, OneOwner, Numbered, RetiredProperly,
      FlagsSound, OutcomeSound, PhaseSound, ClosingSound, NoStrandedDispatch,
      AnswerIsTheTerminal, Retirable, GoTo, Step, InCall, execVars, workerVars, sdkVars

-----------------------------------------------------------------------------
(* The permits.                                                            *)

(* The sets that are counted are finite.                                   *)
LEMMA FiniteSetsFacts ==
  ASSUME TypeOK
  PROVE  /\ IsFiniteSet(dispatches) /\ IsFiniteSet(HoldingPermit)
         /\ Cardinality(dispatches) \in Nat /\ Cardinality(HoldingPermit) \in Nat
  <1>1. IsFiniteSet(Token)
    BY ExecutorAssumption, FS_Interval DEF Token
  <1>2. IsFiniteSet(dispatches)
    BY <1>1, FS_Subset DEF TypeOK
  <1>3. IsFiniteSet(HoldingPermit)
    BY FS_Subset, ExecutorAssumption DEF HoldingPermit
  <1> QED BY <1>2, <1>3, FS_CardinalityType

(* A worker enters or leaves the window between acquire and registration.  *)
LEMMA HoldingMoves ==
  ASSUME TypeOK, NEW w \in Worker, NEW step \in Step, GoTo(w, step)
  PROVE  HoldingPermit' = IF step = "register" THEN HoldingPermit \cup {w}
                                               ELSE HoldingPermit \ {w}
  BY DEF TypeOK, GoTo, HoldingPermit

(* A permit moves from the semaphore to a worker.                          *)
LEMMA AcquirePermitAccounted ==
  ASSUME TypeOK, PermitsAccounted, NEW w \in Worker, AcquirePermit(w)
  PROVE  PermitsAccounted'
  <1>1. HoldingPermit' = HoldingPermit \cup {w}
    BY HoldingMoves DEF AcquirePermit, Step
  <1>2. w \notin HoldingPermit
    BY DEF AcquirePermit, HoldingPermit
  <1>3. Cardinality(HoldingPermit') = Cardinality(HoldingPermit) + 1
    BY <1>1, <1>2, FS_AddElement, FiniteSetsFacts
  <1>4. permits' = permits - 1 /\ dispatches' = dispatches
    BY DEF AcquirePermit
  <1> QED
    BY <1>3, <1>4, FiniteSetsFacts, ExecutorAssumption DEF PermitsAccounted, TypeOK

(* A refused worker gives its permit back.                                 *)
LEMMA RefuseAccounted ==
  ASSUME TypeOK, PermitsAccounted, NEW w \in Worker, Refuse(w)
  PROVE  PermitsAccounted'
  <1>1. HoldingPermit' = HoldingPermit \ {w}
    BY HoldingMoves DEF Refuse, Step
  <1>2. w \in HoldingPermit
    BY DEF Refuse, HoldingPermit
  <1>3. Cardinality(HoldingPermit') = Cardinality(HoldingPermit) - 1
    BY <1>1, <1>2, FS_RemoveElement, FiniteSetsFacts
  <1>4. permits' = permits + 1 /\ dispatches' = dispatches
    BY DEF Refuse
  <1> QED
    BY <1>3, <1>4, FiniteSetsFacts, ExecutorAssumption DEF PermitsAccounted, TypeOK

(* A permit moves from a worker to its dispatch.                           *)
LEMMA RegisterAccounted ==
  ASSUME SInv, PermitsAccounted, NEW w \in Worker, Register(w)
  PROVE  PermitsAccounted'
  <1> USE DEF SInv
  <1>1. HoldingPermit' = HoldingPermit \ {w}
    BY HoldingMoves DEF Register, RegisterUnchecked, Step
  <1>2. w \in HoldingPermit
    BY DEF Register, RegisterUnchecked, HoldingPermit
  <1>3. Cardinality(HoldingPermit') = Cardinality(HoldingPermit) - 1
    BY <1>1, <1>2, FS_RemoveElement, FiniteSetsFacts
  <1>4. dispatches' = dispatches \cup {nextToken} /\ permits' = permits
    BY DEF Register, RegisterUnchecked
  <1>5. nextToken \notin dispatches
    BY DEF Register, RegisterUnchecked, Numbered, TypeOK, Token
  <1>6. Cardinality(dispatches') = Cardinality(dispatches) + 1
    BY <1>4, <1>5, FS_AddElement, FiniteSetsFacts
  <1> QED
    BY <1>3, <1>4, <1>6, FiniteSetsFacts, ExecutorAssumption DEF PermitsAccounted, TypeOK

(* Retirement moves one dispatch from the table to the permits.            *)
LEMMA SettleAccounted ==
  ASSUME TypeOK, PermitsAccounted, NEW t \in Token, NEW e,
         SettleAndRetire(t, e), UNCHANGED pc
  PROVE  PermitsAccounted'
  <1>1. HoldingPermit' = HoldingPermit
    BY DEF HoldingPermit
  <1>2. CASE t \in dispatches /\ Retirable(e)
    <2>1. dispatches' = dispatches \ {t} /\ permits' = permits + 1
      BY <1>2 DEF SettleAndRetire
    <2>2. Cardinality(dispatches') = Cardinality(dispatches) - 1
      BY <1>2, <2>1, FS_RemoveElement, FiniteSetsFacts
    <2> QED
      BY <1>1, <2>1, <2>2, FiniteSetsFacts, ExecutorAssumption DEF PermitsAccounted, TypeOK
  <1>3. CASE ~(t \in dispatches /\ Retirable(e))
    BY <1>1, <1>3 DEF SettleAndRetire, PermitsAccounted
  <1> QED BY <1>2, <1>3

(* A worker's step that has nothing to do with permits.                    *)
LEMMA WorkerMoveAccounted ==
  ASSUME TypeOK, PermitsAccounted, NEW w \in Worker, NEW step \in Step,
         GoTo(w, step), step # "register", pc[w] # "register",
         UNCHANGED <<permits, dispatches>>
  PROVE  PermitsAccounted'
  <1>1. HoldingPermit' = HoldingPermit
    BY HoldingMoves DEF HoldingPermit
  <1> QED BY <1>1 DEF PermitsAccounted

(* No step of execute() loses or doubles a permit.                         *)
LEMMA WorkerAccounted ==
  ASSUME SInv, PermitsAccounted, NEW w \in Worker, Execute(w) \/ WorkerStep(w)
  PROVE  PermitsAccounted'
  <1> USE DEF SInv
  <1>1. CASE AcquirePermit(w)  BY <1>1, AcquirePermitAccounted
  <1>2. CASE Refuse(w)         BY <1>2, RefuseAccounted
  <1>3. CASE Register(w)       BY <1>3, RegisterAccounted
  <1>4. CASE Execute(w)
    BY <1>4, WorkerMoveAccounted DEF Execute, execVars, Step
  <1>5. CASE PermitTimeout(w)
    BY <1>5, WorkerMoveAccounted DEF PermitTimeout, execVars, Step
  <1>6. CASE GateExpired(w)
    BY <1>6, WorkerMoveAccounted DEF GateExpired, Step
  <1>7. CASE CallSubmit(w)
    BY <1>7, WorkerMoveAccounted DEF CallSubmit, execVars, Step
  <1>8. CASE SubmitReturns(w)
    BY <1>8, WorkerMoveAccounted DEF SubmitReturns, execVars, Step
  <1>9. CASE SubmitRaises(w)
    BY <1>9, WorkerMoveAccounted DEF SubmitRaises, execVars, Step
  <1>10. CASE RecordSubmission(w)
    BY <1>10, WorkerMoveAccounted DEF RecordSubmission, Step
  <1>11. CASE RecordFailure(w)
    BY <1>11, WorkerMoveAccounted DEF RecordFailure, Step
  <1>12. CASE EventSet(w)
    BY <1>12, WorkerMoveAccounted DEF EventSet, execVars, Step
  <1>13. CASE EventTimeout(w)
    BY <1>13, WorkerMoveAccounted DEF EventTimeout, execVars, Step
  <1>14. CASE Expire(w)
    BY <1>14, WorkerMoveAccounted DEF Expire, Step
  <1>15. CASE Return(w)
    BY <1>15, WorkerMoveAccounted DEF Return, execVars, Step
  <1> QED
    BY <1>1, <1>2, <1>3, <1>4, <1>5, <1>6, <1>7, <1>8, <1>9, <1>10, <1>11,
       <1>12, <1>13, <1>14, <1>15 DEF WorkerStep

(* No step of the SDK, the clock or acknowledge() does either.             *)
LEMMA OthersAccounted ==
  ASSUME SInv, PermitsAccounted, NEW t \in Token,
         SdkStep(t) \/ Deadline(t) \/ Acknowledge(t)
  PROVE  PermitsAccounted'
  <1> USE DEF SInv
  <1>1. CASE Acknowledge(t)
    BY <1>1, SettleAccounted DEF Acknowledge, workerVars
  <1>2. CASE UNCHANGED <<permits, dispatches, pc>>
    BY <1>2 DEF PermitsAccounted, HoldingPermit
  <1>3. ASSUME NEW c \in Call, CallbackCommit(t, c)  PROVE PermitsAccounted'
    <2>1. UNCHANGED pc
      BY <1>3 DEF CallbackCommit, workerVars
    <2>2. CASE CallbackRepeated(t)
      BY <1>2, <2>1, <2>2 DEF CallbackRepeated
    <2>3. CASE CallbackAnswered(t)
      BY <2>1, <2>3, SettleAccounted DEF CallbackAnswered
    <2>4. CASE CallbackLate(t)
      BY <2>1, <2>4, SettleAccounted DEF CallbackLate
    <2>5. CASE CallbackWins(t, c)
      BY <2>1, <2>5, SettleAccounted DEF CallbackWins
    <2> QED BY <1>3, <2>2, <2>3, <2>4, <2>5 DEF CallbackCommit
  <1>4. CASE SdkAccept(t) \/ SdkFinish(t) \/ Deadline(t)
    BY <1>2, <1>4 DEF SdkAccept, SdkFinish, Deadline, execVars, workerVars
  <1>5. ASSUME NEW c \in Call, Callback(t, c)  PROVE PermitsAccounted'
    BY <1>2, <1>5 DEF Callback, workerVars
  <1> QED BY <1>1, <1>3, <1>4, <1>5 DEF SdkStep

-----------------------------------------------------------------------------
(* The invariant holds in every behaviour.                                 *)

(* The invariant holds initially.                                          *)
LEMMA InitInvariant == Init => IInv
  <1> SUFFICES ASSUME Init PROVE IInv
    OBVIOUS
  <1>1. SInv
    <2>1. counts \in [{"duplicate", "late", "submit_failure", "timeout"} -> Nat]
      BY DEF Init
    <2>2. FreshDispatch \in Dispatch /\ ~Retirable(FreshDispatch)
      BY DEF FreshDispatch, Dispatch, Terminal, Outcome, Retirable
    <2>3. TypeOK
      <3>1. permits \in Nat /\ nextToken \in 1..(MaxToken + 1)
        BY ExecutorAssumption DEF Init
      <3>2. /\ dispatch \in [Token -> Dispatch]
            /\ pc \in [Worker -> Step]
            /\ returned \in [Token -> Outcome \cup {"protocol_error"}]
        BY <2>2 DEF Init, Outcome, Step
      <3>3. token \in [Worker -> 0..MaxToken]
        BY ExecutorAssumption DEF Init
      <3> QED BY <2>1, <3>1, <3>2, <3>3 DEF Init, TypeOK
    <2>4. OwnDispatch /\ OneOwner /\ PhaseSound /\ ClosingSound
      BY DEF Init, OwnDispatch, OneOwner, PhaseSound, ClosingSound, InCall
    <2>5. Numbered /\ RetiredProperly
      BY DEF Init, Numbered, RetiredProperly, Token
    <2>6. FlagsSound /\ OutcomeSound /\ NoStrandedDispatch /\ AnswerIsTheTerminal
      BY DEF Init, FlagsSound, OutcomeSound, NoStrandedDispatch,
             AnswerIsTheTerminal, FreshDispatch
    <2> QED BY <2>3, <2>4, <2>5, <2>6 DEF SInv
  <1>2. dispatches = {} /\ HoldingPermit = {}
    BY DEF Init, HoldingPermit
  <1>3. PermitsAccounted
    BY <1>2, FS_EmptySet, ExecutorAssumption DEF Init, PermitsAccounted
  <1> QED BY <1>1, <1>3 DEF IInv

(* Every step of the executor keeps the structural part.                   *)
LEMMA StepSInv == SInv /\ [Next]_vars => SInv'
  <1> SUFFICES ASSUME SInv, [Next]_vars PROVE SInv'
    OBVIOUS
  <1>1. ASSUME NEW w \in Worker, Execute(w) \/ WorkerStep(w)  PROVE SInv'
    BY <1>1, ExecuteKeeps, AcquirePermitKeeps, PermitTimeoutKeeps, RefuseKeeps,
       RegisterKeeps, GateExpiredKeeps, CallSubmitKeeps, SubmitReturnsKeeps,
       SubmitRaisesKeeps, RecordSubmissionKeeps, RecordFailureKeeps,
       EventSetKeeps, EventTimeoutKeeps, ExpireKeeps, ReturnKeeps, Zenon
    DEF WorkerStep
  <1>2. ASSUME NEW t \in Token, SdkStep(t) \/ Deadline(t) \/ Acknowledge(t)
        PROVE  SInv'
    BY <1>2, SdkAcceptKeeps, SdkFinishKeeps, CallbackKeeps, CallbackCommitKeeps,
       DeadlineKeeps, AcknowledgeKeeps, Zenon DEF SdkStep
  <1>3. CASE Shutdown \/ ShutdownDrained \/ ShutdownTimeout
    BY <1>3, ShutdownKeeps, ShutdownDrainedKeeps, ShutdownTimeoutKeeps, Zenon
  <1>4. CASE UNCHANGED vars
    BY <1>4
    DEF vars, SInv, TypeOK, OwnDispatch, OneOwner, Numbered, RetiredProperly,
        FlagsSound, OutcomeSound, PhaseSound, ClosingSound, NoStrandedDispatch,
        AnswerIsTheTerminal, Retirable, execVars, workerVars, sdkVars
  <1> QED BY <1>1, <1>2, <1>3, <1>4 DEF Next

(* Every step of the executor keeps the account of the permits.            *)
LEMMA StepPermits == IInv /\ [Next]_vars => PermitsAccounted'
  <1> SUFFICES ASSUME IInv, [Next]_vars PROVE PermitsAccounted'
    OBVIOUS
  <1> USE DEF IInv
  <1>1. ASSUME NEW w \in Worker, Execute(w) \/ WorkerStep(w)
        PROVE  PermitsAccounted'
    BY <1>1, WorkerAccounted
  <1>2. ASSUME NEW t \in Token, SdkStep(t) \/ Deadline(t) \/ Acknowledge(t)
        PROVE  PermitsAccounted'
    BY <1>2, OthersAccounted
  <1>3. CASE UNCHANGED <<permits, dispatches, pc>>
    BY <1>3 DEF PermitsAccounted, HoldingPermit
  <1>4. CASE Shutdown \/ ShutdownDrained \/ ShutdownTimeout
    BY <1>3, <1>4
    DEF Shutdown, ShutdownDrained, ShutdownTimeout, execVars, workerVars
  <1>5. CASE UNCHANGED vars
    BY <1>3, <1>5 DEF vars, execVars, workerVars
  <1> QED BY <1>1, <1>2, <1>4, <1>5 DEF Next

(* The inductive invariant holds in every reachable state of the executor. *)
THEOREM Invariance == Spec => []IInv
  <1>1. Init => IInv
    BY InitInvariant
  <1>2. IInv /\ [Next]_vars => IInv'
    BY StepSInv, StepPermits DEF IInv
  <1> QED BY <1>1, <1>2, PTL DEF Spec

(* Types.                                                                  *)
THEOREM TypeCorrect == Spec => []TypeOK
  <1>1. IInv => TypeOK
    BY DEF IInv, SInv
  <1> QED BY <1>1, Invariance, PTL

(* _permits is never over-released and no exit of execute() loses a permit.*)
THEOREM PermitsSafe == Spec => []PermitsAccounted
  <1>1. IInv => PermitsAccounted
    BY DEF IInv
  <1> QED BY <1>1, Invariance, PTL

(* The device never works on buffers of a retired dispatch.                *)
THEOREM BuffersSafe == Spec => []BuffersHeld
  <1>1. IInv => BuffersHeld
    <2> SUFFICES ASSUME IInv, NEW t \in Token, sdk[t] = "running"
                 PROVE  t \in dispatches
      BY DEF BuffersHeld
    <2>1. t < nextToken
      BY DEF IInv, SInv, Numbered, TypeOK, Token
    <2>2. ~dispatch[t].physical
      BY DEF IInv, SInv, FlagsSound
    <2> QED BY <2>1, <2>2 DEF IInv, SInv, RetiredProperly, Retirable
  <1> QED BY <1>1, Invariance, PTL

(* No acknowledged and completed dispatch is left in the table.            *)
THEOREM NeverStranded == Spec => []NoStrandedDispatch
  <1>1. IInv => NoStrandedDispatch
    BY DEF IInv, SInv
  <1> QED BY <1>1, Invariance, PTL

(* execute() returns the outcome of the one terminal of its dispatch.      *)
THEOREM AnswersSound == Spec => []AnswerIsTheTerminal
  <1>1. IInv => AnswerIsTheTerminal
    BY DEF IInv, SInv
  <1> QED BY <1>1, Invariance, PTL

(* shutdown() returning True makes unloading the runtime safe.             *)
THEOREM ShutdownSafe == Spec => []UnloadSafe
  <1>1. IInv => UnloadSafe
    <2> SUFFICES ASSUME IInv, closing = "drained"
                 PROVE  /\ dispatches = {}
                        /\ \A t \in Token : sdk[t] \notin {"called", "running"}
                        /\ \A w \in Worker : pc[w] \in {"idle", "permit", "register"}
      BY DEF UnloadSafe
    <2>1. dispatches = {}
      BY DEF IInv, SInv, ClosingSound
    <2>2. ASSUME NEW t \in Token PROVE sdk[t] \notin {"called", "running"}
      <3>1. CASE t < nextToken
        BY <2>1, <3>1 DEF IInv, SInv, RetiredProperly, Retirable, FlagsSound
      <3>2. CASE t >= nextToken
        BY <3>2 DEF IInv, SInv, Numbered
      <3> QED BY <3>1, <3>2 DEF IInv, SInv, TypeOK, Token
    <2>3. \A w \in Worker : pc[w] \in {"idle", "permit", "register"}
      BY <2>1 DEF IInv, SInv, TypeOK, OwnDispatch, InCall, Step
    <2> QED BY <2>1, <2>2, <2>3
  <1> QED BY <1>1, Invariance, PTL

-----------------------------------------------------------------------------
(* Terminals are final.                                                    *)

TerminalKept ==
  \A t \in Token : dispatch[t].terminal # "none" =>
    /\ dispatch'[t].terminal = dispatch[t].terminal
    /\ \/ dispatch'[t].outcome = dispatch[t].outcome
       \/ t \in dispatches \ dispatches'

(* The new record keeps the terminal and the outcome of the old one.       *)
KeepsTerminal(d, e) ==
  d.terminal # "none" => e.terminal = d.terminal /\ e.outcome = d.outcome

(* Flags can change under a committed terminal.                            *)
LEMMA OverwriteKeepsTerminal ==
  ASSUME TypeOK, NEW t \in Token, NEW e,
         dispatch' = [dispatch EXCEPT ![t] = e], KeepsTerminal(dispatch[t], e)
  PROVE  TerminalKept
  BY DEF TypeOK, TerminalKept, KeepsTerminal

(* Settling a dispatch keeps a terminal it was given.                      *)
LEMMA SettleKeepsTerminal ==
  ASSUME TypeOK, NEW t \in Token, NEW e \in Dispatch, SettleAndRetire(t, e),
         KeepsTerminal(dispatch[t], e)
  PROVE  TerminalKept
  BY SettleFacts DEF TerminalKept, KeepsTerminal

(* No step of execute() replaces a terminal.                               *)
LEMMA WorkerKeepsTerminal ==
  ASSUME SInv, NEW w \in Worker, Execute(w) \/ WorkerStep(w)
  PROVE  TerminalKept
  <1> DEFINE t == token[w]
             d == dispatch[t]
  <1> USE DEF SInv
  <1>1. CASE UNCHANGED dispatch
    BY <1>1 DEF TerminalKept
  <1>2. pc[w] \in InCall => t \in Token /\ d \in Dispatch
    BY OwnToken
  <1>3. CASE GateExpired(w)
    <2>1. KeepsTerminal(d, [CommitTimeout(d) EXCEPT !.physical = TRUE])
      BY <1>2, <1>3, CommitTimeoutDoneFacts DEF KeepsTerminal, GateExpired, InCall
    <2> QED
      BY <1>2, <1>3, <2>1, OverwriteKeepsTerminal DEF GateExpired, InCall
  <1>4. CASE RecordSubmission(w)
    <2>1. KeepsTerminal(d, CommitTimeout(d))
      BY <1>2, <1>4, CommitTimeoutFacts DEF KeepsTerminal, RecordSubmission, InCall
    <2> QED
      BY <1>1, <1>2, <1>4, <2>1, OverwriteKeepsTerminal DEF RecordSubmission, InCall
  <1>5. CASE RecordFailure(w)
    <2>1. KeepsTerminal(d, [CommitTimeout(d) EXCEPT !.physical = TRUE])
      BY <1>2, <1>5, CommitTimeoutDoneFacts DEF KeepsTerminal, RecordFailure, InCall
    <2>2. d.terminal = "none" =>
            KeepsTerminal(d, [d EXCEPT !.terminal = "submit_failure",
                                       !.outcome = "submit_failure",
                                       !.physical = TRUE])
      BY DEF KeepsTerminal
    <2>3. pc[w] \in InCall
      BY <1>5 DEF RecordFailure, InCall
    <2> QED
      BY <1>1, <1>2, <1>5, <2>1, <2>2, <2>3, OverwriteKeepsTerminal DEF RecordFailure
  <1>6. CASE Expire(w)
    <2>1. KeepsTerminal(d, CommitTimeout(d))
      BY <1>2, <1>6, CommitTimeoutFacts DEF KeepsTerminal, Expire, InCall
    <2> QED
      BY <1>2, <1>6, <2>1, OverwriteKeepsTerminal DEF Expire, InCall
  <1>7. CASE \/ Execute(w) \/ AcquirePermit(w) \/ PermitTimeout(w) \/ Refuse(w)
             \/ Register(w) \/ CallSubmit(w) \/ SubmitReturns(w) \/ SubmitRaises(w)
             \/ EventSet(w) \/ EventTimeout(w) \/ Return(w)
    BY <1>1, <1>7
    DEF Execute, AcquirePermit, PermitTimeout, Refuse, Register, RegisterUnchecked,
        CallSubmit, SubmitReturns, SubmitRaises, EventSet, EventTimeout, Return,
        execVars
  <1> QED BY <1>3, <1>4, <1>5, <1>6, <1>7 DEF WorkerStep

(* No step of the SDK, the clock or acknowledge() replaces one.            *)
LEMMA OthersKeepTerminal ==
  ASSUME SInv, NEW t \in Token, SdkStep(t) \/ Deadline(t) \/ Acknowledge(t)
  PROVE  TerminalKept
  <1> DEFINE d == dispatch[t]
  <1> USE DEF SInv
  <1>1. CASE UNCHANGED dispatch
    BY <1>1 DEF TerminalKept
  <1>2. d \in Dispatch
    BY DEF TypeOK
  <1>3. CASE Acknowledge(t)
    <2>1. /\ [d EXCEPT !.acknowledged = TRUE] \in Dispatch
          /\ KeepsTerminal(d, [d EXCEPT !.acknowledged = TRUE])
      BY <1>2 DEF KeepsTerminal, Dispatch
    <2> QED BY <1>3, <2>1, SettleKeepsTerminal DEF Acknowledge
  <1>4. ASSUME NEW c \in Call, Callback(t, c)  PROVE TerminalKept
    <2>1. dispatch' = [dispatch EXCEPT ![t] = [d EXCEPT !.started = TRUE]]
      BY <1>4 DEF Callback
    <2>2. KeepsTerminal(d, [d EXCEPT !.started = TRUE])
      BY <1>2 DEF KeepsTerminal, Dispatch
    <2> QED BY <2>1, <2>2, OverwriteKeepsTerminal
  <1>5. ASSUME NEW c \in Call, CallbackCommit(t, c)  PROVE TerminalKept
    <2>1. CASE CallbackRepeated(t)
      BY <1>1, <2>1 DEF CallbackRepeated
    <2>2. CASE CallbackAnswered(t)
      <3>1. /\ [d EXCEPT !.physical = TRUE] \in Dispatch
            /\ KeepsTerminal(d, [d EXCEPT !.physical = TRUE])
        BY <1>2 DEF KeepsTerminal, Dispatch
      <3> QED BY <2>2, <3>1, SettleKeepsTerminal DEF CallbackAnswered
    <2>3. CASE CallbackLate(t)
      <3> DEFINE e == [CommitTimeout(d) EXCEPT !.physical = TRUE]
      <3>1. e \in Dispatch /\ KeepsTerminal(d, e)
        BY <1>2, CommitTimeoutDoneFacts DEF KeepsTerminal
      <3>2. SettleAndRetire(t, e)
        BY <2>3 DEF CallbackLate
      <3> HIDE DEF e
      <3> QED BY <3>1, <3>2, SettleKeepsTerminal
    <2>4. CASE CallbackWins(t, c)
      <3> DEFINE e == [d EXCEPT !.physical = TRUE, !.outcome = c, !.terminal = "callback"]
      <3>1. e \in Dispatch
        BY <1>2 DEF Dispatch, Terminal, Outcome
      <3>2. SettleAndRetire(t, e) /\ d.terminal = "none"
        BY <2>4 DEF CallbackWins
      <3>3. KeepsTerminal(d, e)
        BY <3>2 DEF KeepsTerminal
      <3> HIDE DEF e
      <3> QED BY <3>1, <3>2, <3>3, SettleKeepsTerminal
    <2> QED BY <1>5, <2>1, <2>2, <2>3, <2>4 DEF CallbackCommit
  <1>6. CASE SdkAccept(t) \/ SdkFinish(t) \/ Deadline(t)
    BY <1>1, <1>6 DEF SdkAccept, SdkFinish, Deadline, execVars
  <1> QED BY <1>3, <1>4, <1>5, <1>6 DEF SdkStep

(* A committed terminal is never replaced by a late or repeated callback,  *)
(* a timeout or a submit failure.                                          *)
THEOREM TerminalsFinal == Spec => TerminalIsFinal
  <1>1. IInv /\ [Next]_vars => [TerminalKept]_vars
    <2> SUFFICES ASSUME IInv, Next PROVE TerminalKept
      OBVIOUS
    <2>1. SInv
      BY DEF IInv
    <2>2. ASSUME NEW w \in Worker, Execute(w) \/ WorkerStep(w)
          PROVE  TerminalKept
      BY <2>1, <2>2, WorkerKeepsTerminal
    <2>3. ASSUME NEW t \in Token, SdkStep(t) \/ Deadline(t) \/ Acknowledge(t)
          PROVE  TerminalKept
      BY <2>1, <2>3, OthersKeepTerminal
    <2>4. CASE Shutdown \/ ShutdownDrained \/ ShutdownTimeout
      BY <2>4 DEF Shutdown, ShutdownDrained, ShutdownTimeout, execVars, TerminalKept
    <2> QED BY <2>2, <2>3, <2>4 DEF Next
  <1> QED
    BY <1>1, Invariance, PTL DEF Spec, TerminalIsFinal, TerminalKept

-----------------------------------------------------------------------------
(* The executor implements its contract.                                   *)

Begun == {t \in Token : sdk[t] \in {"running", "finished"}}
Working == {t \in Token : sdk[t] = "running"}
Answered == {t \in Token : returned[t] # "none"}

(* Nothing the contract speaks of changes.                                 *)
ContractStutters ==
  /\ UNCHANGED <<closed, nextToken, dispatches>>
  /\ Begun' = Begun /\ Working' = Working /\ Answered' = Answered

(* A step that leaves the mapped variables alone is a stutter.             *)
LEMMA StutterFacts ==
  ASSUME UNCHANGED <<closed, nextToken, dispatches, sdk, returned>>
  PROVE  ContractStutters
  BY DEF ContractStutters, Begun, Working, Answered

(* Registration is Admit of the contract.                                  *)
LEMMA RegisterAdmits ==
  ASSUME IInv, NEW w \in Worker, Register(w)
  PROVE  Contract!Admit(nextToken)
  <1> USE DEF IInv, SInv
  <1>1. Cardinality(dispatches) < MaxInflight
    <2>1. w \in HoldingPermit
      BY DEF Register, RegisterUnchecked, HoldingPermit
    <2>2. Cardinality(HoldingPermit) # 0
      BY <2>1, FS_EmptySet, FiniteSetsFacts
    <2> QED
      BY <2>2, FiniteSetsFacts, ExecutorAssumption DEF PermitsAccounted, TypeOK
  <1>2. /\ ~closed /\ nextToken' = nextToken + 1
        /\ dispatches' = dispatches \cup {nextToken}
        /\ UNCHANGED <<closed, sdk, returned>>
    BY DEF Register, RegisterUnchecked, sdkVars
  <1>3. /\ nextToken \notin 1..(nextToken - 1)
        /\ 1..(nextToken' - 1) = 1..(nextToken - 1) \cup {nextToken}
    BY <1>2 DEF TypeOK
  <1>4. Begun' = Begun /\ Working' = Working /\ Answered' = Answered
    BY <1>2 DEF Begun, Working, Answered
  <1>5. Contract!Cardinality(dispatches) = Cardinality(dispatches)
    BY DEF Contract!Cardinality, Cardinality
  <1> QED
    BY <1>1, <1>2, <1>3, <1>4, <1>5 DEF Contract!Admit, Begun, Working, Answered

(* The SDK accepting a job is Begin of the contract.                       *)
LEMMA AcceptBegins ==
  ASSUME IInv, NEW t \in Token, SdkAccept(t)
  PROVE  Contract!Begin(t)
  <1> USE DEF IInv, SInv
  <1>1. /\ sdk[t] = "called" /\ sdk' = [sdk EXCEPT ![t] = "running"]
        /\ UNCHANGED <<closed, nextToken, dispatches, returned>>
    BY DEF SdkAccept, execVars, workerVars
  <1>2. t \in dispatches
    BY <1>1 DEF TypeOK, Token, Numbered, RetiredProperly, Retirable, FlagsSound
  <1>3. t \notin Begun /\ t \notin Answered
    BY <1>1 DEF Begun, Answered, FlagsSound
  <1>4. Begun' = Begun \cup {t} /\ Working' = Working \cup {t} /\ Answered' = Answered
    BY <1>1 DEF Begun, Working, Answered, TypeOK
  <1> QED
    BY <1>1, <1>2, <1>3, <1>4 DEF Contract!Begin, Begun, Working, Answered

(* The device finishing is Finish of the contract.                         *)
LEMMA FinishFinishes ==
  ASSUME IInv, NEW t \in Token, SdkFinish(t)
  PROVE  Contract!Finish(t)
  <1> USE DEF IInv, SInv
  <1>1. /\ sdk[t] = "running" /\ sdk' = [sdk EXCEPT ![t] = "finished"]
        /\ UNCHANGED <<closed, nextToken, dispatches, returned>>
    BY DEF SdkFinish, execVars, workerVars
  <1>2. t \in Working
    BY <1>1 DEF Working
  <1>3. Begun' = Begun /\ Working' = Working \ {t} /\ Answered' = Answered
    BY <1>1 DEF Begun, Working, Answered, TypeOK
  <1> QED
    BY <1>1, <1>2, <1>3 DEF Contract!Finish, Begun, Working, Answered

(* execute() returning is Answer of the contract.                          *)
LEMMA ReturnAnswers ==
  ASSUME IInv, NEW w \in Worker, Return(w), NEW t \in Token, t = token[w]
  PROVE  Contract!Answer(t)
  <1> USE DEF IInv, SInv
  <1>1. t \in dispatches /\ returned[t] = "none"
    BY OwnToken DEF Return, InCall
  <1>2. /\ dispatch[t].outcome \in Outcome \cup {"protocol_error"}
        /\ UNCHANGED <<closed, nextToken, dispatches, sdk>>
    BY <1>1 DEF Return, TypeOK, Dispatch, execVars, sdkVars
  <1>3. returned'[t] # "none" /\ \A u \in Token \ {t} : returned'[u] = returned[u]
    BY <1>1 DEF Return, TypeOK
  <1>4. t \notin Answered /\ Answered' = Answered \cup {t}
    BY <1>1, <1>3 DEF Answered
  <1>5. Begun' = Begun /\ Working' = Working
    BY <1>2 DEF Begun, Working
  <1> QED
    BY <1>1, <1>2, <1>4, <1>5 DEF Contract!Answer, Begun, Working, Answered

(* A critical section that may retire releases properly or changes nothing.*)
LEMMA SettleReleases ==
  ASSUME IInv, NEW t \in Token, NEW e \in Dispatch, SettleAndRetire(t, e),
         e.acknowledged => returned[t] # "none",
         e.physical => sdk[t] # "running",
         UNCHANGED <<closed, nextToken, sdk, returned>>
  PROVE  Contract!Release(t) \/ ContractStutters
  <1>1. Begun' = Begun /\ Working' = Working /\ Answered' = Answered
    BY DEF Begun, Working, Answered
  <1>2. CASE t \in dispatches /\ Retirable(e)
    <2>1. dispatches' = dispatches \ {t}
      BY <1>2 DEF SettleAndRetire
    <2>2. t \in Answered /\ t \notin Working
      BY <1>2 DEF Retirable, Answered, Working
    <2> QED
      BY <1>1, <1>2, <2>1, <2>2 DEF Contract!Release, Begun, Working, Answered
  <1>3. CASE ~(t \in dispatches /\ Retirable(e))
    BY <1>1, <1>3 DEF SettleAndRetire, ContractStutters
  <1> QED BY <1>2, <1>3

(* acknowledge() is Release of the contract or a stutter.                  *)
LEMMA AcknowledgeReleases ==
  ASSUME IInv, NEW t \in Token, Acknowledge(t)
  PROVE  Contract!Release(t) \/ ContractStutters
  <1> DEFINE e == [dispatch[t] EXCEPT !.acknowledged = TRUE]
  <1>1. e \in Dispatch /\ e.physical = dispatch[t].physical
    BY DEF IInv, SInv, TypeOK, Dispatch
  <1>2. /\ SettleAndRetire(t, e) /\ returned[t] # "none"
        /\ UNCHANGED <<closed, nextToken, sdk, returned>>
    BY DEF Acknowledge, workerVars, sdkVars
  <1>3. e.physical => sdk[t] # "running"
    BY <1>1 DEF IInv, SInv, FlagsSound
  <1> HIDE DEF e
  <1> QED BY <1>1, <1>2, <1>3, SettleReleases

(* A callback's commit is Release of the contract or a stutter.            *)
LEMMA CallbackReleases ==
  ASSUME IInv, NEW t \in Token, NEW c \in Call, CallbackCommit(t, c)
  PROVE  Contract!Release(t) \/ ContractStutters
  <1> DEFINE d == dispatch[t]
  <1>1. d \in Dispatch /\ sdk[t] # "running" /\ (d.acknowledged => returned[t] # "none")
    BY DEF CallbackCommit, IInv, SInv, TypeOK, FlagsSound
  <1>2. UNCHANGED <<closed, nextToken, sdk, returned>>
    BY DEF CallbackCommit, workerVars
  <1>3. CASE CallbackRepeated(t)
    BY <1>2, <1>3, StutterFacts DEF CallbackRepeated
  <1>4. CASE CallbackAnswered(t)
    <2>1. /\ [d EXCEPT !.physical = TRUE] \in Dispatch
          /\ [d EXCEPT !.physical = TRUE].acknowledged = d.acknowledged
      BY <1>1 DEF Dispatch
    <2> QED BY <1>1, <1>2, <1>4, <2>1, SettleReleases DEF CallbackAnswered
  <1>5. CASE CallbackLate(t)
    <2> DEFINE e == [CommitTimeout(d) EXCEPT !.physical = TRUE]
    <2>1. e \in Dispatch /\ e.acknowledged = d.acknowledged
      BY <1>1, CommitTimeoutDoneFacts
    <2>2. SettleAndRetire(t, e)
      BY <1>5 DEF CallbackLate
    <2> HIDE DEF e
    <2> QED BY <1>1, <1>2, <2>1, <2>2, SettleReleases
  <1>6. CASE CallbackWins(t, c)
    <2> DEFINE e == [d EXCEPT !.physical = TRUE, !.outcome = c, !.terminal = "callback"]
    <2>1. e \in Dispatch /\ e.acknowledged = d.acknowledged
      BY <1>1 DEF Dispatch, Terminal, Outcome
    <2>2. SettleAndRetire(t, e)
      BY <1>6 DEF CallbackWins
    <2> HIDE DEF e
    <2> QED BY <1>1, <1>2, <2>1, <2>2, SettleReleases
  <1> QED BY <1>3, <1>4, <1>5, <1>6 DEF CallbackCommit

(* The other steps of a worker: the SDK call has begun nothing yet.        *)
LEMMA WorkerStutters ==
  ASSUME IInv, NEW w \in Worker, Execute(w) \/ WorkerStep(w),
         ~Register(w), ~Return(w)
  PROVE  ContractStutters
  <1>1. CASE CallSubmit(w) \/ SubmitRaises(w)
    <2>1. UNCHANGED <<closed, nextToken, dispatches, returned>>
      BY <1>1 DEF CallSubmit, SubmitRaises, execVars
    <2>2. \E step \in {"called", "refused"} :
            /\ sdk' = [sdk EXCEPT ![token[w]] = step] \/ sdk' = sdk
            /\ sdk[token[w]] \in {"none", "called"} \/ sdk' = sdk
      BY <1>1 DEF CallSubmit, SubmitRaises, IInv, SInv, PhaseSound, TypeOK
    <2>3. Begun' = Begun /\ Working' = Working
      BY <2>2 DEF Begun, Working, IInv, SInv, TypeOK
    <2> QED BY <2>1, <2>3 DEF ContractStutters, Answered
  <1>2. CASE \/ Execute(w) \/ AcquirePermit(w) \/ PermitTimeout(w) \/ Refuse(w)
             \/ GateExpired(w) \/ SubmitReturns(w) \/ RecordSubmission(w)
             \/ RecordFailure(w) \/ EventSet(w) \/ EventTimeout(w) \/ Expire(w)
    BY <1>2, StutterFacts
    DEF Execute, AcquirePermit, PermitTimeout, Refuse, GateExpired, SubmitReturns,
        RecordSubmission, RecordFailure, EventSet, EventTimeout, Expire, execVars,
        sdkVars
  <1> QED BY <1>1, <1>2 DEF WorkerStep

(* Every step of the executor is a step of the contract or a stutter.      *)
LEMMA ContractStep ==
  ASSUME IInv, [Next]_vars
  PROVE  [Contract!Next]_(Contract!vars)
  <1>1. CASE ContractStutters
    BY <1>1 DEF ContractStutters, Contract!vars, Begun, Working, Answered
  <1>2. ASSUME NEW w \in Worker, Execute(w) \/ WorkerStep(w)
        PROVE  [Contract!Next]_(Contract!vars)
    <2>1. CASE Register(w)
      <3>1. nextToken \in Token
        BY <2>1 DEF Register, RegisterUnchecked
      <3> QED BY <2>1, <3>1, RegisterAdmits DEF Contract!Next
    <2>2. CASE Return(w)
      <3>1. token[w] \in Token
        BY <2>2, OwnToken DEF Return, InCall, IInv
      <3>2. PICK t \in Token : t = token[w]
        BY <3>1
      <3>3. Contract!Answer(t)
        BY <2>2, <3>2, ReturnAnswers
      <3> QED BY <3>3 DEF Contract!Next
    <2> QED BY <1>1, <1>2, <2>1, <2>2, WorkerStutters
  <1>3. ASSUME NEW t \in Token, SdkStep(t) \/ Deadline(t) \/ Acknowledge(t)
        PROVE  [Contract!Next]_(Contract!vars)
    <2>1. CASE SdkAccept(t)
      BY <2>1, AcceptBegins DEF Contract!Next
    <2>2. CASE SdkFinish(t)
      BY <2>2, FinishFinishes DEF Contract!Next
    <2>3. ASSUME NEW c \in Call, Callback(t, c)  PROVE ContractStutters
      BY <2>3, StutterFacts DEF Callback, workerVars
    <2>4. ASSUME NEW c \in Call, CallbackCommit(t, c)
          PROVE  Contract!Release(t) \/ ContractStutters
      BY <2>4, CallbackReleases
    <2>5. CASE Deadline(t)
      BY <1>1, <2>5, StutterFacts DEF Deadline, execVars, workerVars, sdkVars
    <2>6. Contract!Release(t) => Contract!Next
      BY DEF Contract!Next
    <2> QED
      BY <1>1, <1>3, <2>1, <2>2, <2>3, <2>4, <2>5, <2>6, AcknowledgeReleases
      DEF SdkStep
  <1>4. CASE Shutdown
    <2>1. /\ closed' = TRUE
          /\ UNCHANGED <<nextToken, dispatches, sdk, returned>>
      BY <1>4 DEF Shutdown, workerVars, sdkVars
    <2>2. Contract!Close
      BY <2>1 DEF Contract!Close
    <2> QED BY <2>2 DEF Contract!Next
  <1>5. CASE ShutdownDrained \/ ShutdownTimeout \/ UNCHANGED vars
    BY <1>1, <1>5, StutterFacts
    DEF ShutdownDrained, ShutdownTimeout, vars, execVars, workerVars, sdkVars
  <1> QED BY <1>2, <1>3, <1>4, <1>5 DEF Next

(* Every behaviour of the executor is one the contract allows.             *)
THEOREM ContractImplemented == Spec => ImplementsContract
  <1>1. Init => Contract!Init
    BY DEF Init, Contract!Init
  <1>2. IInv /\ [Next]_vars => [Contract!Next]_(Contract!vars)
    BY ContractStep
  <1> QED BY <1>1, <1>2, Invariance, PTL DEF Spec, ImplementsContract, Contract!Spec

=============================================================================
