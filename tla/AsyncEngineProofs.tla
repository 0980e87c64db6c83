-------------------------- MODULE AsyncEngineProofs --------------------------
(***************************************************************************)
(* Proofs about AsyncEngine, for any set of requests and of workers, any   *)
(* capacity and any batch size: the safety properties, and that the engine *)
(* implements EngineContract.  IInv is the inductive invariant.            *)
(***************************************************************************)
EXTENDS AsyncEngine, FiniteSetTheorems, TLAPS

(* What a queue holds, and that it holds nothing but x twice.              *)
Items(q) == {q[i] : i \in DOMAIN q}
Distinct(q, x) == \A i, j \in DOMAIN q : q[i] = q[j] /\ q[i] # x => i = j

Early == {"idle", "entered", "asleep", "leased", "reserved", "rejecting", "raising"}
Cancelling == {"cancelling", "submitting", "awaiting"}
Closing == {"stopping", "placing", "sealing", "joining", "telling", "ending", "finishing"}

(* What a submitter has told the metrics, the coordinator and its caller   *)
(* by the place it is at.                                                  *)
SubmitInv ==
  \A r \in Request :
    /\ pc[r] # "returned" => answer[r] = "none"
    /\ pc[r] \in {"idle", "entered", "asleep", "leased"} => outcome[r] = "none"
    /\ pc[r] = "reserved" => outcome[r] = "rejected" \/ (outcome[r] = "none" /\ r \in reserved)
    /\ pc[r] \in {"published", "recovering"} => outcome[r] = "accepted"
    /\ pc[r] \in {"rejecting", "raising"} => outcome[r] = "rejected"
    /\ pc[r] \in Early \cup {"recovering"} => ledger[r] = "none"
    /\ pc[r] = "published" => ledger[r] # "none"
    /\ ledger[r] # "none" => outcome[r] = "accepted"
    /\ outcome[r] = "accepted" /\ ledger[r] = "none" => r \in reserved
    /\ r \in tx => \/ pc[r] \in {"reserved", "published", "recovering", "rejecting", "raising"}
                   \/ r \in unresolved

(* A submission that shutdown() has cut off finds the engine not running.  *)
CutInv ==
  \A r \in Request : pc[r] = "reserved" /\ outcome[r] = "rejected" => state # "running"

(* From close_submission() on the engine is not running again.             *)
Past ==
  /\ ctl.at \notin {"created", "producing", "closing"}
  /\ ~(ctl.at \in Cancelling /\ ctl.then = "closing")
ControlInv ==
  /\ ctl.at = "created" <=> state = "created"
  /\ state = "created" => /\ coord = "running" /\ asleep = {}
                          /\ \A r \in Request : pc[r] = "idle"
                          /\ \A w \in Worker : worker[w] = Idle
  /\ Past => state \notin {"created", "running"}
  /\ ctl.at \in Cancelling => ctl.then \in {"closing", "resumed", "stopping"}
  /\ ctl.at = "returned" <=> result # "none"
  /\ coord \in {"failed", "stopped"} => Pending = {}

(* The queue is closed before shutdown() waits for anybody.                *)
ClosedInv == ctl.at \in {"joining", "telling", "ending", "finishing"} => closed

(* What shutdown() has seen while it still may answer True.                *)
Quiet ==
  \/ ctl.at \in Closing
  \/ ctl.at \in Cancelling /\ ctl.then = "stopping"
EndInv ==
  /\ ok /\ Quiet => \A r \in Request : pc[r] \in {"idle", "returned"}
  /\ ok /\ (ctl.at = "finishing" \/ (ctl.at = "joining" /\ ~flushed)) =>
       coord = "stopped" /\ reserved = {}
  /\ ok /\ (ctl.at = "finishing" \/ (ctl.at \in {"telling", "ending"} /\ flushed)) =>
       \A w \in Worker : Gone(w)
  /\ result = "true" =>
       /\ \A r \in Request : pc[r] \in {"idle", "returned"}
       /\ coord = "stopped" /\ reserved = {} /\ unresolved = {} /\ leases = {}
       /\ \A w \in Worker : Gone(w)
  /\ unloaded => result = "true"

(* A request is hidden while it is published, and then it is queued.       *)
QueueInv ==
  /\ hidden \subseteq Queued
  /\ hidden \cap drainOp = {}
  /\ \A r \in Request :
       /\ pc[r] \in {"published", "recovering"} => r \in hidden
       /\ pc[r] \in Early => r \notin Queued \cup drainOp
  /\ Distinct(queue, Stop)

(* A request is in one place: in the queue, with one worker, run or taken  *)
(* back.                                                                   *)
Own(w) ==
  IF worker[w].pc \in {"dequeued", "batching", "waiting", "candidate", "full", "passing"}
  THEN worker[w].owned ELSE {}
Hands(w) == Own(w) \cup PendingOf(w)
PlaceInv ==
  /\ \A w \in Worker :
       /\ Hands(w) \cap (Queued \cup drainOp \cup ran \cup dropped) = {}
       /\ Own(w) \cap PendingOf(w) = {}
       /\ \A v \in Worker \ {w} : Hands(v) \cap Hands(w) = {}
       /\ \A r \in Hands(w) : pc[r] \notin Early
  /\ Queued \cap (drainOp \cup ran \cup dropped) = {}
  /\ ran \cap (drainOp \cup dropped) = {}
  /\ \A r \in ran \cup dropped : pc[r] \notin Early

(* A worker starts its next batch with empty hands.                        *)
TopInv == \A w \in Worker : worker[w].pc = "top" => worker[w].owned = {}

(* Who is about to give a slot back.                                       *)
LeaseInv ==
  \A r \in leases :
    \/ pc[r] \in {"leased", "reserved", "rejecting", "raising"}
    \/ r \in Queued \cup unresolved
    \/ \E w \in Worker : \/ worker[w].pc = "dequeued" /\ r \in worker[w].owned
                         \/ worker[w].pc = "candidate" /\ r = worker[w].pend

(* A sleeping worker has nothing to do, and with work at the head of the   *)
(* queue another is awake that will take it.                               *)
Taker(w) == \/ worker[w].pc = "waiting"
            \/ worker[w].pc = "top" /\ worker[w].pend = None
SleepInv ==
  /\ \A w \in asleep : Taker(w)
  /\ asleep # {} /\ HeadVisible => \E v \in Worker \ asleep : Taker(v)
  /\ closed => asleep = {}

IInv ==
  /\ TypeOK /\ SubmitInv /\ CutInv /\ ControlInv /\ EndInv /\ QueueInv /\ PlaceInv
  /\ ClosedInv /\ TopInv /\ LeaseInv /\ SleepInv

(* Induction over the natural numbers, for a set of them.                  *)
LEMMA Counting ==
  ASSUME NEW A, 0 \in A, \A n \in Nat : n \in A => n + 1 \in A
  PROVE  Nat \subseteq A
  <1> SUFFICES ASSUME NEW n \in Nat, n \notin A PROVE FALSE
    OBVIOUS
  <1> DEFINE B == {i \in 0..n : i \in A}
             C == B \ {0}
             f == [i \in B |-> i + 1]
  <1>1. IsFiniteSet(0..n)
    BY FS_Interval
  <1>2. IsFiniteSet(B) /\ Cardinality(B) \in Nat
    BY <1>1, FS_Subset, FS_CardinalityType
  <1>3. IsFiniteSet(C) /\ Cardinality(C) = Cardinality(B) - 1
    <2>1. 0 \in B
      OBVIOUS
    <2> HIDE DEF B
    <2> QED BY <1>2, <2>1, FS_RemoveElement
  <1>4. f \in [B -> C]
    <2> SUFFICES ASSUME NEW i \in B PROVE i + 1 \in C
      OBVIOUS
    <2>1. i # n
      OBVIOUS
    <2> QED BY <2>1
  <1> HIDE DEF f
  <1>5. \E x, y \in B : x # y /\ f[x] = f[y]
    BY <1>2, <1>3, <1>4, FS_PigeonHole
  <1> QED BY <1>5 DEF f

Prefix(f, S, U, n) ==
  /\ f \in [0..n -> Seq(U)]
  /\ f[0] = <<>>
  /\ \A i \in 1..n : f[i] = IF queue[i] \in S THEN f[i - 1]
                            ELSE Append(f[i - 1], queue[i])

(* The function that Without filters the queue with exists: Prefix states  *)
(* its clauses up to the queue's length.                                   *)
LEMMA Exists ==
  ASSUME NEW U, queue \in Seq(U), NEW S
  PROVE  \E f : Prefix(f, S, U, Len(queue))
  <1> DEFINE A == {n \in Nat : n <= Len(queue) => \E f : Prefix(f, S, U, n)}
  <1>1. 0 \in A
    <2>1. Prefix([i \in 0..0 |-> <<>>], S, U, 0)
      BY DEF Prefix
    <2> QED BY <2>1
  <1>2. ASSUME NEW n \in Nat, n \in A PROVE n + 1 \in A
    <2> SUFFICES ASSUME n + 1 <= Len(queue) PROVE \E f : Prefix(f, S, U, n + 1)
      OBVIOUS
    <2>1. Len(queue) \in Nat
      OBVIOUS
    <2>2. PICK f : Prefix(f, S, U, n)
      BY <1>2, <2>1
    <2> DEFINE x == IF queue[n + 1] \in S THEN f[n] ELSE Append(f[n], queue[n + 1])
               g == [i \in 0..(n + 1) |-> IF i = n + 1 THEN x ELSE f[i]]
    <2>3. queue[n + 1] \in U /\ f[n] \in Seq(U)
      BY <2>1, <2>2 DEF Prefix
    <2>4. x \in Seq(U)
      BY <2>3
    <2> HIDE DEF x
    <2>5. g \in [0..(n + 1) -> Seq(U)]
      BY <2>2, <2>4 DEF Prefix
    <2>6. g[0] = <<>>
      BY <2>2 DEF Prefix
    <2>7. ASSUME NEW i \in 1..(n + 1)
          PROVE  g[i] = IF queue[i] \in S THEN g[i - 1] ELSE Append(g[i - 1], queue[i])
      <3>1. CASE i = n + 1
        <4>1. g[i - 1] = f[n] /\ g[i] = x
          BY <3>1
        <4> QED BY <3>1, <4>1 DEF x
      <3>2. CASE i \in 1..n
        <4>1. g[i - 1] = f[i - 1] /\ g[i] = f[i]
          BY <3>2
        <4> QED BY <2>2, <3>2, <4>1 DEF Prefix
      <3> QED BY <3>1, <3>2
    <2> HIDE DEF g
    <2> QED BY <2>5, <2>6, <2>7 DEF Prefix
  <1>3. Nat \subseteq A
    BY <1>1, <1>2, Counting
  <1> QED BY <1>3

(* Without is the last value of a function that meets its recursive        *)
(* clauses.                                                                *)
LEMMA Unfolded ==
  ASSUME NEW U, queue \in Seq(U), NEW S
  PROVE  \E k : /\ Without(S) = k[Len(queue)]
                /\ k[0] = <<>>
                /\ \A n \in 1..Len(queue) :
                     k[n] = IF queue[n] \in S THEN k[n - 1]
                            ELSE Append(k[n - 1], queue[n])
  <1> DEFINE Body(k) == [n \in 0..Len(queue) |->
                           IF n = 0 THEN <<>>
                           ELSE IF queue[n] \in S THEN k[n - 1]
                           ELSE Append(k[n - 1], queue[n])]
             K == CHOOSE k : k = Body(k)
  <1>1. PICK f : Prefix(f, S, U, Len(queue))
    BY Exists
  <1>2. f = Body(f)
    <2>1. ASSUME NEW n \in 0..Len(queue) PROVE f[n] = Body(f)[n]
      <3>1. CASE n = 0
        BY <1>1, <3>1 DEF Prefix
      <3>2. CASE n \in 1..Len(queue)
        BY <1>1, <3>2 DEF Prefix
      <3> QED BY <3>1, <3>2
    <2>2. DOMAIN f = 0..Len(queue) /\ f = [n \in 0..Len(queue) |-> f[n]]
      BY <1>1 DEF Prefix
    <2>3. f = [n \in 0..Len(queue) |-> Body(f)[n]]
      <3> HIDE DEF Body
      <3> QED BY <2>1, <2>2
    <2> QED BY <2>3
  <1>3. K = Body(K)
    <2> HIDE DEF Body
    <2> QED BY <1>2
  <1>4. Without(S) = K[Len(queue)]
    BY DEF Without
  <1> HIDE DEF K
  <1>5. ASSUME NEW n \in 0..Len(queue)
        PROVE  K[n] = IF n = 0 THEN <<>> ELSE IF queue[n] \in S THEN K[n - 1]
                      ELSE Append(K[n - 1], queue[n])
    BY <1>3
  <1>6. Len(queue) \in Nat
    OBVIOUS
  <1>7. K[0] = <<>>
    BY <1>5, <1>6
  <1>8. ASSUME NEW n \in 1..Len(queue)
        PROVE  K[n] = IF queue[n] \in S THEN K[n - 1] ELSE Append(K[n - 1], queue[n])
    <2>1. n \in 0..Len(queue) /\ n # 0
      BY <1>6
    <2> QED BY <1>5, <2>1
  <1> QED BY <1>4, <1>7, <1>8

(* Taking some requests out of a queue leaves the others, in a queue of    *)
(* the same type that still repeats nothing but X.                         *)
LEMMA Filtered ==
  ASSUME NEW U, queue \in Seq(U), NEW S, NEW X
  PROVE  /\ Without(S) \in Seq(U)
         /\ Len(Without(S)) <= Len(queue)
         /\ Items(Without(S)) = Items(queue) \ S
         /\ Distinct(queue, X) => Distinct(Without(S), X)
  <1>1. PICK k : /\ Without(S) = k[Len(queue)]
                 /\ k[0] = <<>>
                 /\ \A n \in 1..Len(queue) :
                      k[n] = IF queue[n] \in S THEN k[n - 1]
                             ELSE Append(k[n - 1], queue[n])
    BY Unfolded
  <1> DEFINE Front(n) == {queue[i] : i \in 1..n}
             Good(n) == /\ k[n] \in Seq(U) /\ Len(k[n]) <= n
                        /\ Items(k[n]) = Front(n) \ S
                        /\ Distinct(queue, X) => Distinct(k[n], X)
             A == {n \in Nat : n <= Len(queue) => Good(n)}
  <1>2. 0 \in A
    <2>1. k[0] = <<>>
      BY <1>1
    <2>2. <<>> \in Seq(U) /\ Len(<<>>) = 0
      OBVIOUS
    <2>3. DOMAIN <<>> = {} /\ Front(0) = {}
      OBVIOUS
    <2>4. Items(<<>>) = {} /\ Distinct(<<>>, X)
      BY <2>3 DEF Items, Distinct
    <2> HIDE DEF Front
    <2>5. Good(0)
      BY <2>1, <2>2, <2>3, <2>4
    <2> QED BY <2>5
  <1>3. ASSUME NEW n \in Nat, n \in A PROVE n + 1 \in A
    <2> SUFFICES ASSUME n + 1 <= Len(queue) PROVE Good(n + 1)
      OBVIOUS
    <2>1. Len(queue) \in Nat /\ n + 1 \in 1..Len(queue) /\ n + 1 \in DOMAIN queue
      OBVIOUS
    <2>2. Good(n)
      BY <1>3, <2>1
    <2>3. k[n + 1] = IF queue[n + 1] \in S THEN k[n] ELSE Append(k[n], queue[n + 1])
      BY <1>1, <2>1
    <2>4. Front(n + 1) = Front(n) \cup {queue[n + 1]}
      BY <2>1
    <2>5. CASE queue[n + 1] \in S
      <3>1. k[n + 1] = k[n]
        BY <2>3, <2>5
      <3>2. Front(n + 1) \ S = Front(n) \ S
        BY <2>4, <2>5
      <3> HIDE DEF Front
      <3> QED BY <2>1, <2>2, <3>1, <3>2
    <2>6. CASE queue[n + 1] \notin S
      <3> DEFINE s == k[n]
                 x == queue[n + 1]
                 t == Append(s, x)
      <3>1. k[n + 1] = t
        BY <2>3, <2>6
      <3>2. x \in U /\ s \in Seq(U) /\ Len(s) \in Nat /\ Len(s) <= n
        BY <2>1, <2>2
      <3>3. t \in Seq(U) /\ Len(t) = Len(s) + 1 /\ t[Len(s) + 1] = x
            /\ \A i \in 1..Len(s) : t[i] = s[i]
        BY <3>2
      <3>4. DOMAIN t = 1..(Len(s) + 1) /\ DOMAIN s = 1..Len(s)
        BY <3>2, <3>3
      <3>i. Items(s) = Front(n) \ S /\ (Distinct(queue, X) => Distinct(s, X))
        BY <2>2
      <3> HIDE DEF t, s
      <3>5. Items(t) = Items(s) \cup {x}
        <4>1. ASSUME NEW i \in 1..(Len(s) + 1) PROVE t[i] \in Items(s) \cup {x}
          <5>1. CASE i = Len(s) + 1
            BY <3>3, <5>1
          <5>2. CASE i \in 1..Len(s)
            BY <3>3, <3>4, <5>2 DEF Items
          <5> QED BY <3>2, <5>1, <5>2
        <4>2. x \in Items(t) /\ \A i \in 1..Len(s) : s[i] \in Items(t)
          <5>1. Len(s) + 1 \in DOMAIN t /\ \A i \in 1..Len(s) : i \in DOMAIN t
            BY <3>2, <3>4
          <5> QED BY <3>3, <5>1 DEF Items
        <4> QED BY <3>4, <4>1, <4>2 DEF Items
      <3>6. Items(t) = Front(n + 1) \ S
        <4> HIDE DEF Front
        <4> QED BY <2>4, <2>6, <3>5, <3>i
      <3>7. ASSUME Distinct(queue, X) PROVE Distinct(t, X)
        <4>1. x # X => x \notin Items(s)
          <5> SUFFICES ASSUME x # X, NEW i \in 1..n, queue[i] = x PROVE FALSE
            BY <3>i
          <5> QED BY <2>1, <3>7 DEF Distinct
        <4>2. SUFFICES ASSUME NEW i \in 1..(Len(s) + 1), NEW j \in 1..(Len(s) + 1),
                              t[i] = t[j], t[i] # X
                       PROVE  i = j
          BY <3>4 DEF Distinct
        <4>3. CASE i \in 1..Len(s) /\ j \in 1..Len(s)
          BY <3>3, <3>4, <3>7, <3>i, <4>2, <4>3 DEF Distinct
        <4>4. CASE i = Len(s) + 1 /\ j \in 1..Len(s)
          BY <3>3, <3>4, <4>1, <4>2, <4>4 DEF Items
        <4>5. CASE i \in 1..Len(s) /\ j = Len(s) + 1
          BY <3>3, <3>4, <4>1, <4>2, <4>5 DEF Items
        <4>6. CASE i = Len(s) + 1 /\ j = Len(s) + 1
          BY <4>6
        <4> QED BY <3>2, <4>3, <4>4, <4>5, <4>6
      <3> HIDE DEF Front
      <3>8. Len(t) <= n + 1
        BY <3>2, <3>3
      <3> QED BY <3>1, <3>3, <3>6, <3>7, <3>8
    <2> QED BY <2>5, <2>6
  <1>4. Nat \subseteq A
    BY <1>2, <1>3, Counting
  <1>5. Len(queue) \in Nat /\ DOMAIN queue = 1..Len(queue)
    OBVIOUS
  <1>6. Good(Len(queue))
    <2> HIDE DEF Good
    <2>1. Len(queue) \in A
      BY <1>4, <1>5
    <2> QED BY <2>1, <1>5
  <1> QED BY <1>1, <1>5, <1>6 DEF Items

(* What an Append adds to a queue.                                         *)
LEMMA Added ==
  ASSUME NEW U, NEW q \in Seq(U), NEW x \in U, NEW y
  PROVE  /\ Append(q, x) \in Seq(U) /\ Append(q, x) # <<>>
         /\ Items(Append(q, x)) = Items(q) \cup {x}
         /\ Head(Append(q, x)) = IF q = <<>> THEN x ELSE Head(q)
         /\ Distinct(q, y) /\ (x \in Items(q) => x = y) => Distinct(Append(q, x), y)
  <1> DEFINE t == Append(q, x)
  <1>1. t \in Seq(U) /\ Len(t) = Len(q) + 1 /\ t[Len(q) + 1] = x /\ Len(q) \in Nat
    OBVIOUS
  <1>2. \A i \in 1..Len(q) : t[i] = q[i]
    OBVIOUS
  <1>3. DOMAIN t = 1..(Len(q) + 1) /\ DOMAIN q = 1..Len(q)
    BY <1>1
  <1>4. t # <<>> /\ Head(t) = IF q = <<>> THEN x ELSE Head(q)
    <2>1. Head(t) = t[1] /\ Len(t) # 0
      BY <1>1
    <2>2. CASE q = <<>>
      BY <1>1, <2>1, <2>2
    <2>3. CASE q # <<>>
      <3>1. Len(q) # 0 /\ 1 \in 1..Len(q) /\ Head(q) = q[1]
        BY <2>3
      <3> QED BY <1>1, <1>2, <2>1, <2>3, <3>1
    <2> QED BY <2>2, <2>3
  <1> HIDE DEF t
  <1>5. Items(t) = Items(q) \cup {x}
    <2>1. ASSUME NEW i \in DOMAIN t PROVE t[i] \in Items(q) \cup {x}
      <3>1. CASE i = Len(q) + 1
        BY <1>1, <3>1
      <3>2. CASE i \in 1..Len(q)
        BY <1>2, <1>3, <3>2 DEF Items
      <3> QED BY <1>1, <1>3, <3>1, <3>2
    <2>2. x \in Items(t) /\ \A i \in DOMAIN q : q[i] \in Items(t)
      <3>1. Len(q) + 1 \in DOMAIN t /\ \A i \in DOMAIN q : i \in DOMAIN t
        BY <1>1, <1>3
      <3> QED BY <1>1, <1>2, <1>3, <3>1 DEF Items
    <2> QED BY <2>1, <2>2 DEF Items
  <1>6. ASSUME Distinct(q, y), x \in Items(q) => x = y
        PROVE  Distinct(t, y)
    <2> SUFFICES ASSUME NEW i \in DOMAIN t, NEW j \in DOMAIN t, t[i] = t[j], t[i] # y
                 PROVE  i = j
      BY DEF Distinct
    <2>1. CASE i \in DOMAIN q /\ j \in DOMAIN q
      BY <1>2, <1>3, <1>6, <2>1 DEF Distinct
    <2>2. CASE i = Len(q) + 1 /\ j \in DOMAIN q
      BY <1>1, <1>2, <1>3, <1>6, <2>2 DEF Items
    <2>3. CASE i \in DOMAIN q /\ j = Len(q) + 1
      BY <1>1, <1>2, <1>3, <1>6, <2>3 DEF Items
    <2>4. CASE i = Len(q) + 1 /\ j = Len(q) + 1
      BY <2>4
    <2> QED BY <1>1, <1>3, <2>1, <2>2, <2>3, <2>4
  <1> QED BY <1>1, <1>4, <1>5, <1>6 DEF t

(* What taking the head off a queue leaves.                                *)
LEMMA Removed ==
  ASSUME NEW U, NEW q \in Seq(U), q # <<>>, NEW y
  PROVE  /\ Tail(q) \in Seq(U) /\ Head(q) \in U
         /\ Items(q) = Items(Tail(q)) \cup {Head(q)}
         /\ Distinct(q, y) =>
              Distinct(Tail(q), y) /\ (Head(q) \in Items(Tail(q)) => Head(q) = y)
  <1> DEFINE t == Tail(q)
  <1>1. /\ Len(q) \in Nat /\ Len(q) > 0 /\ Head(q) = q[1] /\ Head(q) \in U
        /\ t \in Seq(U) /\ Len(t) = Len(q) - 1
    OBVIOUS
  <1>2. \A i \in 1..(Len(q) - 1) : t[i] = q[i + 1]
    OBVIOUS
  <1>3. DOMAIN t = 1..(Len(q) - 1) /\ DOMAIN q = 1..Len(q)
    BY <1>1
  <1> HIDE DEF t
  <1>4. Items(q) = Items(t) \cup {Head(q)}
    <2>1. ASSUME NEW i \in DOMAIN q PROVE q[i] \in Items(t) \cup {Head(q)}
      <3>1. CASE i = 1
        BY <1>1, <3>1
      <3>2. CASE i # 1
        <4>1. i - 1 \in DOMAIN t /\ t[i - 1] = q[i]
          BY <1>1, <1>2, <1>3, <3>2
        <4> QED BY <4>1 DEF Items
      <3> QED BY <3>1, <3>2
    <2>2. Head(q) \in Items(q) /\ \A i \in DOMAIN t : t[i] \in Items(q)
      <3>1. 1 \in DOMAIN q /\ \A i \in DOMAIN t : i + 1 \in DOMAIN q
        BY <1>1, <1>3
      <3> QED BY <1>1, <1>2, <1>3, <3>1 DEF Items
    <2> QED BY <2>1, <2>2 DEF Items
  <1>5. ASSUME Distinct(q, y)
        PROVE  Distinct(t, y) /\ (Head(q) \in Items(t) => Head(q) = y)
    <2>1. ASSUME NEW i \in DOMAIN t, NEW j \in DOMAIN t, t[i] = t[j], t[i] # y
          PROVE  i = j
      <3>1. i + 1 \in DOMAIN q /\ j + 1 \in DOMAIN q
        BY <1>1, <1>3
      <3>2. i + 1 = j + 1
        BY <1>2, <1>3, <1>5, <2>1, <3>1 DEF Distinct
      <3> QED BY <1>1, <1>3, <3>2
    <2>2. ASSUME NEW i \in DOMAIN t, t[i] = Head(q), Head(q) # y
          PROVE  FALSE
      <3>1. i + 1 \in DOMAIN q /\ 1 \in DOMAIN q /\ i + 1 # 1
        BY <1>1, <1>3
      <3> QED BY <1>1, <1>2, <1>3, <1>5, <2>2, <3>1 DEF Distinct
    <2> QED BY <2>1, <2>2 DEF Distinct, Items
  <1> QED BY <1>1, <1>4, <1>5 DEF t

(* Requests that wait for a slot are woken, the others stay where they are. *)
Woken(p) ==
  /\ pc' \in [Request -> SubmitPc]
  /\ \A r \in Request : pc'[r] = p[r] \/ (p[r] = "asleep" /\ pc'[r] = "entered")

(* Release gives the slots back and wakes submitters.                      *)
LEMMA Released ==
  ASSUME NEW S, NEW p \in [Request -> SubmitPc], Release(S, p)
  PROVE  leases' = leases \ S /\ Woken(p)
  BY DEF Release, Woken, SubmitPc

(* What a drain leaves in the queue.                                       *)
LEMMA Left ==
  ASSUME TypeOK, QueueInv, NEW D
  PROVE  /\ Without(D) \in Seq(Request \cup {Stop})
         /\ Items(Without(D)) = Items(queue) \ D
         /\ Distinct(Without(D), Stop)
  BY Filtered DEF TypeOK, QueueInv

-----------------------------------------------------------------------------
(* What the actions do with the queue and with the slots.                  *)

(* An item is taken from the head.                                         *)
LEMMA HeadTaken ==
  ASSUME IInv, queue # <<>>, queue' = Tail(queue)
  PROVE  /\ queue' \in Seq(Request \cup {Stop}) /\ Distinct(queue', Stop)
         /\ Head(queue) \in Queued \cup {Stop}
         /\ Queued' = Queued \ {Head(queue)}
  <1>1. queue \in Seq(Request \cup {Stop}) /\ Distinct(queue, Stop)
    BY DEF IInv, TypeOK, QueueInv
  <1>2. /\ Tail(queue) \in Seq(Request \cup {Stop})
        /\ Items(queue) = Items(Tail(queue)) \cup {Head(queue)}
        /\ Distinct(Tail(queue), Stop)
        /\ Head(queue) \in Items(Tail(queue)) => Head(queue) = Stop
    BY <1>1, Removed
  <1>3. Queued = Items(queue) \ {Stop} /\ Queued' = Items(Tail(queue)) \ {Stop}
    BY DEF Queued, Items
  <1> QED BY <1>2, <1>3

(* An item is added at the end.                                            *)
LEMMA EndAdded ==
  ASSUME IInv, NEW x \in Request \cup {Stop}, x \notin Queued, queue' = Append(queue, x)
  PROVE  /\ queue' \in Seq(Request \cup {Stop}) /\ Distinct(queue', Stop)
         /\ Queued' = Queued \cup ({x} \ {Stop})
         /\ queue' # <<>> /\ Head(queue') = IF queue = <<>> THEN x ELSE Head(queue)
  <1>1. queue \in Seq(Request \cup {Stop}) /\ Distinct(queue, Stop)
    BY DEF IInv, TypeOK, QueueInv
  <1>2. Queued = Items(queue) \ {Stop} /\ Queued' = Items(Append(queue, x)) \ {Stop}
    BY DEF Queued, Items
  <1>3. /\ Append(queue, x) \in Seq(Request \cup {Stop}) /\ Append(queue, x) # <<>>
        /\ Items(Append(queue, x)) = Items(queue) \cup {x}
        /\ Head(Append(queue, x)) = IF queue = <<>> THEN x ELSE Head(queue)
        /\ Distinct(Append(queue, x), Stop)
    BY <1>1, <1>2, Added
  <1> QED BY <1>2, <1>3

(* Requests are taken out wherever they are.                               *)
LEMMA TakenOut ==
  ASSUME IInv, NEW D, queue' = Without(D)
  PROVE  /\ queue' \in Seq(Request \cup {Stop}) /\ Distinct(queue', Stop)
         /\ Queued' = Queued \ D
  <1>1. Queued = Items(queue) \ {Stop} /\ Queued' = Items(Without(D)) \ {Stop}
    BY DEF Queued, Items
  <1> QED BY <1>1, Left DEF IInv

(* A drain takes visible requests, never the stop token.                   *)
LEMMA DrainType == IInv => DrainSet \subseteq Request /\ DrainSet \cap hidden = {}
                           /\ Queued \subseteq Request
  <1> SUFFICES ASSUME IInv
               PROVE  /\ DrainSet \subseteq Request /\ DrainSet \cap hidden = {}
                      /\ Queued \subseteq Request
    OBVIOUS
  <1>1. \A i \in DOMAIN queue : queue[i] \in Request \cup {Stop}
    <2>1. queue \in Seq(Request \cup {Stop})
      BY DEF IInv, TypeOK
    <2> QED BY <2>1
  <1>2. Queued \subseteq Request
    BY <1>1 DEF Queued
  <1>3. drainOp \subseteq Request /\ drainOp \cap hidden = {}
    BY DEF IInv, TypeOK, QueueInv
  <1> QED BY <1>2, <1>3 DEF DrainSet

(* What Publish does to the queue: the request is in it, hidden, so that   *)
(* no worker has more to take than before.                                 *)
LEMMA PublishFacts ==
  ASSUME IInv, NEW r \in Request, queue' = Append(queue, r), pc[r] = "reserved",
         hidden' = hidden \cup {r}
  PROVE  /\ queue' \in Seq(Request \cup {Stop}) /\ Distinct(queue', Stop)
         /\ Queued' = Queued \cup {r}
         /\ HeadVisible' => HeadVisible
  <1>1. r \notin Queued /\ r # Stop
    BY EngineAssumption DEF IInv, QueueInv, Early
  <1>2. /\ queue' \in Seq(Request \cup {Stop}) /\ Distinct(queue', Stop)
        /\ Queued' = Queued \cup ({r} \ {Stop})
        /\ queue' # <<>> /\ Head(queue') = IF queue = <<>> THEN r ELSE Head(queue)
    BY <1>1, EndAdded
  <1> QED BY <1>1, <1>2 DEF HeadVisible, Visible

(* Complete shows the request, or takes it out with its slot when it is    *)
(* already over.                                                           *)
LEMMA CompleteFacts ==
  ASSUME IInv, NEW r \in Request, Complete(r)
  PROVE  /\ queue' \in Seq(Request \cup {Stop}) /\ Distinct(queue', Stop)
         /\ hidden' = hidden \ {r} /\ leases' \subseteq leases
         /\ pc' \in [Request -> SubmitPc] /\ pc'[r] = "returned"
         /\ \A q \in Request \ {r} :
              pc'[q] = pc[q] \/ (pc[q] = "asleep" /\ pc'[q] = "entered")
         /\ \/ Queued' = Queued
            \/ Queued' = Queued \ {r} /\ r \notin leases'
         /\ \/ asleep' = {}
            \/ asleep' = asleep /\ ~HeadVisible'
            \/ \E w \in asleep : asleep' = asleep \ {w}
  <1>1. CASE /\ hidden' = hidden \ {r} /\ WakeOne
             /\ pc' = [pc EXCEPT ![r] = "returned"]
             /\ UNCHANGED <<queue, leases>>
    <2>1. /\ queue' \in Seq(Request \cup {Stop}) /\ Distinct(queue', Stop)
          /\ Queued' = Queued
      <3>1. queue \in Seq(Request \cup {Stop}) /\ Distinct(queue, Stop) /\ queue' = queue
        BY <1>1 DEF IInv, TypeOK, QueueInv
      <3> QED BY <3>1 DEF Queued
    <2>2. /\ pc' \in [Request -> SubmitPc] /\ pc'[r] = "returned"
          /\ \A q \in Request \ {r} : pc'[q] = pc[q]
      BY <1>1 DEF IInv, TypeOK, SubmitPc
    <2>3. asleep' = {} \/ \E w \in asleep : asleep' = asleep \ {w}
      BY <1>1 DEF WakeOne
    <2>4. leases' = leases /\ hidden' = hidden \ {r}
      BY <1>1
    <2> QED BY <2>1, <2>2, <2>3, <2>4
  <1>2. CASE /\ queue' = Without({r}) /\ hidden' = hidden \ {r}
             /\ WakeAllIf(Visible(Without({r}), hidden \ {r}))
             /\ Release({r}, [pc EXCEPT ![r] = "returned"])
    <2>1. [pc EXCEPT ![r] = "returned"] \in [Request -> SubmitPc]
      BY DEF IInv, TypeOK, SubmitPc
    <2>2. leases' = leases \ {r} /\ Woken([pc EXCEPT ![r] = "returned"])
      BY <1>2, <2>1, Released
    <2>3. /\ queue' \in Seq(Request \cup {Stop}) /\ Distinct(queue', Stop)
          /\ Queued' = Queued \ {r}
      BY <1>2, TakenOut
    <2>4. HeadVisible' = Visible(Without({r}), hidden \ {r})
      BY <1>2 DEF HeadVisible
    <2>5. /\ pc' \in [Request -> SubmitPc] /\ pc'[r] = "returned"
          /\ \A q \in Request \ {r} :
               pc'[q] = pc[q] \/ (pc[q] = "asleep" /\ pc'[q] = "entered")
      BY <2>2 DEF Woken, IInv, TypeOK
    <2>6. asleep' = {} \/ (asleep' = asleep /\ ~HeadVisible')
      BY <1>2, <2>4 DEF WakeAllIf
    <2>7. r \notin leases' /\ leases' \subseteq leases
      BY <2>2
    <2>8. hidden' = hidden \ {r}
      BY <1>2
    <2> QED BY <2>3, <2>5, <2>6, <2>7, <2>8
  <1> QED BY <1>1, <1>2 DEF Complete

(* Undo gives back the slot of one request and may wake another submitter. *)
LEMMA UndoFacts ==
  ASSUME IInv, NEW r \in Request, Undo(r)
  PROVE  /\ leases' = leases \ {r}
         /\ pc' \in [Request -> SubmitPc] /\ pc'[r] = "returned"
         /\ \A q \in Request \ {r} :
              pc'[q] = pc[q] \/ (pc[q] = "asleep" /\ pc'[q] = "entered")
  <1>1. [pc EXCEPT ![r] = "returned"] \in [Request -> SubmitPc]
    BY DEF IInv, TypeOK, SubmitPc
  <1>2. leases' = leases \ {r} /\ Woken([pc EXCEPT ![r] = "returned"])
    BY <1>1, Released DEF Undo
  <1> QED BY <1>2 DEF Woken, IInv, TypeOK

(* Release changes nobody's place but that of the submitters it wakes.     *)
LEMMA ReleaseFacts ==
  ASSUME IInv, NEW S, Release(S, pc)
  PROVE  /\ leases' = leases \ S
         /\ pc' \in [Request -> SubmitPc]
         /\ \A q \in Request :
              pc'[q] = pc[q] \/ (pc[q] = "asleep" /\ pc'[q] = "entered")
  <1>1. pc \in [Request -> SubmitPc]
    BY DEF IInv, TypeOK
  <1>2. leases' = leases \ S /\ Woken(pc)
    BY <1>1, Released
  <1> QED BY <1>2 DEF Woken

(* A drain takes visible requests only, and afterwards no worker sleeps in *)
(* front of a visible head unless it was there before.                     *)
LEMMA DrainFacts ==
  ASSUME IInv, TakeDrained(DrainSet), UNCHANGED hidden
  PROVE  /\ queue' \in Seq(Request \cup {Stop}) /\ Distinct(queue', Stop)
         /\ Queued' = Queued \ DrainSet
         /\ drainOp' = DrainSet /\ DrainSet \subseteq Request
         /\ DrainSet \cap hidden = {}
         /\ asleep' = {} \/ (asleep' = asleep /\ ~HeadVisible')
  <1>1. queue' = Without(DrainSet) /\ drainOp' = DrainSet
    BY DEF TakeDrained
  <1>2. /\ queue' \in Seq(Request \cup {Stop}) /\ Distinct(queue', Stop)
        /\ Queued' = Queued \ DrainSet
    BY <1>1, TakenOut
  <1>3. HeadVisible' = Visible(Without(DrainSet), hidden)
    BY <1>1 DEF HeadVisible
  <1> QED BY <1>1, <1>2, <1>3, DrainType DEF TakeDrained, WakeAllIf

(* The last drain, in Finish, also takes the stop token.                   *)
LEMMA FinishFacts ==
  ASSUME IInv, Finish
  PROVE  /\ queue' \in Seq(Request \cup {Stop}) /\ Distinct(queue', Stop)
         /\ Queued' = Queued \ DrainSet
         /\ DrainSet \subseteq Request /\ DrainSet \cap hidden = {}
  <1>1. queue' = Without(DrainSet \cup {Stop})
    BY DEF Finish
  <1>2. /\ queue' \in Seq(Request \cup {Stop}) /\ Distinct(queue', Stop)
        /\ Queued' = Queued \ (DrainSet \cup {Stop})
    BY <1>1, TakenOut
  <1>3. Stop \notin Queued
    BY DEF Queued
  <1> QED BY <1>2, <1>3, DrainType

(* A worker takes the head of the queue, which nobody hides.               *)
LEMMA TakeFacts ==
  ASSUME IInv, NEW w \in Worker, Take(w) \/ TakeCandidate(w)
  PROVE  /\ queue' \in Seq(Request \cup {Stop}) /\ Distinct(queue', Stop)
         /\ Head(queue) \in Queued \cup {Stop}
         /\ Queued' = Queued \ {Head(queue)} /\ Queued \subseteq Request
         /\ Head(queue) \notin hidden /\ hidden' = hidden
         /\ asleep' = {} \/ (asleep' \subseteq asleep /\ ~HeadVisible')
  <1>1. queue # <<>> /\ Head(queue) \notin hidden /\ queue' = Tail(queue) /\ hidden' = hidden
    BY DEF Take, TakeCandidate, Taken, HeadVisible, Visible
  <1>2. HeadVisible' = Visible(Tail(queue), hidden)
    BY <1>1 DEF HeadVisible
  <1>3. asleep' = {} \/ (asleep' \subseteq asleep /\ ~HeadVisible')
    BY <1>2 DEF Take, TakeCandidate, Taken, WakeAllIf
  <1> QED BY <1>1, <1>3, HeadTaken, DrainType

(* PlaceStop adds the stop token, and no request.                          *)
LEMMA StopFacts ==
  ASSUME IInv, PlaceStop
  PROVE  /\ queue' \in Seq(Request \cup {Stop}) /\ Distinct(queue', Stop)
         /\ Queued' = Queued
         /\ \/ asleep' = {}
            \/ asleep' = asleep /\ HeadVisible' = HeadVisible
            \/ \E w \in asleep : asleep' = asleep \ {w}
  <1>1. CASE queue' = Append(queue, Stop) /\ WakeOne
    <2>1. Stop \notin Queued
      BY DEF Queued
    <2>2. /\ queue' \in Seq(Request \cup {Stop}) /\ Distinct(queue', Stop)
          /\ Queued' = Queued \cup ({Stop} \ {Stop})
      BY <1>1, <2>1, EndAdded
    <2>3. asleep' = {} \/ \E w \in asleep : asleep' = asleep \ {w}
      BY <1>1 DEF WakeOne
    <2> QED BY <2>2, <2>3
  <1>2. CASE queue' = queue /\ asleep' = asleep
    <2>1. Queued' = Queued
      BY <1>2 DEF Queued
    <2>2. hidden' = hidden
      BY DEF PlaceStop, OffStop
    <2>3. HeadVisible' = HeadVisible
      BY <1>2, <2>2 DEF HeadVisible
    <2>4. queue \in Seq(Request \cup {Stop}) /\ Distinct(queue, Stop)
      BY DEF IInv, TypeOK, QueueInv
    <2> QED BY <1>2, <2>1, <2>3, <2>4
  <1> QED BY <1>1, <1>2 DEF PlaceStop

(* What is queued, and what is visible, depends on the queue only.         *)
LEMMA QueueSame ==
  /\ UNCHANGED queue => Queued' = Queued
  /\ UNCHANGED <<queue, hidden>> => HeadVisible' = HeadVisible
  BY DEF Queued, HeadVisible

(* The types of what submitters and the coordinator write.                 *)
LEMMA PcTyped == IInv => /\ pc \in [Request -> SubmitPc]
                            /\ answer \in [Request -> {"none", "true", "false", "raised"}]
                            /\ outcome \in [Request -> {"none", "accepted", "rejected"}]
                            /\ ledger \in [Request -> {"none", "pending", "done"}]
  BY DEF IInv, TypeOK

(* The type of worker.                                                     *)
LEMMA WorkerTyped == IInv => worker \in [Worker -> [pc : WorkerPc, owned : SUBSET Request,
                                          pend : Request \cup {None}, drained : BOOLEAN,
                                          failures : Nat]]
  BY DEF IInv, TypeOK

(* The type of ctl.                                                        *)
LEMMA CtlTyped == IInv => ctl \in [at : ControlPc, then : ControlPc \cup {""},
                                      again : BOOLEAN]
  BY DEF IInv, TypeOK

(* The types of the sets, and the constants that are no request.           *)
LEMMA SetsTyped == IInv => /\ hidden \subseteq Request /\ drainOp \subseteq Request
                          /\ Queued \subseteq Request /\ asleep \subseteq Worker
                          /\ leases \subseteq Request /\ ran \subseteq Request
                          /\ dropped \subseteq Request
                          /\ None \notin Request /\ Stop \notin Request
  BY DrainType, EngineAssumption DEF IInv, TypeOK

(* The type invariant, one group of variables at a time.                   *)
SharedTypes ==
  /\ state \in {"created", "running", "draining", "stopped", "failed"}
  /\ stopReq \in BOOLEAN /\ closed \in BOOLEAN /\ faults \in 0..MaxFault
  /\ ran \subseteq Request /\ dropped \subseteq Request
QueueTypes ==
  /\ queue \in Seq(Request \cup {Stop}) /\ hidden \subseteq Request
  /\ drainOp \subseteq Request /\ ops \subseteq Request /\ leases \subseteq Request
SubmitTypes ==
  /\ pc \in [Request -> SubmitPc]
  /\ answer \in [Request -> {"none", "true", "false", "raised"}]
  /\ outcome \in [Request -> {"none", "accepted", "rejected"}]
  /\ tx \subseteq Request /\ unresolved \subseteq Request
CoordTypes ==
  /\ coord \in {"running", "failing", "failed", "stopping", "stopped"}
  /\ reserved \subseteq Request /\ watched \in BOOLEAN
  /\ ledger \in [Request -> {"none", "pending", "done"}]
BoxTypes ==
  box \subseteq [by : Worker \cup Request \cup {Control}, of : SUBSET Request,
                 drain : BOOLEAN, st : {"queued", "acked", "refused"}]
WorkerTypes ==
  /\ worker \in [Worker -> [pc : WorkerPc, owned : SUBSET Request,
                            pend : Request \cup {None}, drained : BOOLEAN,
                            failures : Nat]]
  /\ asleep \subseteq Worker /\ mine \in [Worker -> SUBSET SUBSET Request]
ControlTypes ==
  /\ ctl \in [at : ControlPc, then : ControlPc \cup {""}, again : BOOLEAN]
  /\ snap \subseteq Request /\ flushed \in BOOLEAN /\ ok \in BOOLEAN
  /\ result \in {"none", "true", "false"} /\ unloaded \in BOOLEAN
  /\ cancelOp \in [of : SUBSET Request, drain : BOOLEAN]

(* The groups of types make up the type invariant.                         *)
LEMMA Typed == TypeOK <=> /\ SharedTypes /\ QueueTypes /\ SubmitTypes /\ CoordTypes
                          /\ BoxTypes /\ WorkerTypes /\ ControlTypes
  BY DEF TypeOK, SharedTypes, QueueTypes, SubmitTypes, CoordTypes, BoxTypes,
         WorkerTypes, ControlTypes

(* The type invariant, under the names of its groups.                      *)
LEMMA Types == IInv => /\ SharedTypes /\ QueueTypes /\ SubmitTypes /\ CoordTypes
                       /\ BoxTypes /\ WorkerTypes /\ ControlTypes
  BY Typed DEF IInv

-----------------------------------------------------------------------------
(* Where a thread goes.                                                    *)

(* The controller goes on to another place.                                *)
LEMMA GoFacts ==
  ASSUME NEW label, Go(label)
  PROVE  /\ ctl'.at = label /\ ctl'.then = "" /\ ctl'.again = FALSE
         /\ label \in ControlPc =>
              ctl' \in [at : ControlPc, then : ControlPc \cup {""}, again : BOOLEAN]
  BY DEF Go, At

(* The controller cancels, and goes on elsewhere after that.               *)
LEMMA ThenFacts ==
  ASSUME NEW label, NEW next, Then(label, next)
  PROVE  /\ ctl'.at = label /\ ctl'.then = next /\ ctl'.again = FALSE
         /\ label \in ControlPc /\ next \in ControlPc =>
              ctl' \in [at : ControlPc, then : ControlPc \cup {""}, again : BOOLEAN]
  BY DEF Then

(* The controller moves on within a cancellation.                          *)
LEMMA AgainFacts ==
  ASSUME IInv, NEW label \in ControlPc, NEW b \in BOOLEAN,
         \/ ctl' = [ctl EXCEPT !.at = label]
         \/ ctl' = [ctl EXCEPT !.at = label, !.again = b]
  PROVE  /\ ctl'.at = label /\ ctl'.then = ctl.then
         /\ ctl' \in [at : ControlPc, then : ControlPc \cup {""}, again : BOOLEAN]
  BY Types DEF ControlTypes

Others(w) == \A v \in Worker \ {w} : worker'[v] = worker[v]

(* To changes the place of one worker and nothing else about it.           *)
LEMMA ToFacts ==
  ASSUME IInv, NEW w \in Worker, NEW label \in WorkerPc, To(w, label)
  PROVE  /\ worker' \in [Worker -> [pc : WorkerPc, owned : SUBSET Request,
                            pend : Request \cup {None}, drained : BOOLEAN,
                            failures : Nat]]
         /\ worker'[w].pc = label /\ worker'[w].owned = worker[w].owned
         /\ worker'[w].pend = worker[w].pend /\ Others(w)
  BY Types DEF WorkerTypes, To, Others

(* The places of requests when X goes from the queue into one worker's     *)
(* hands, and when M is taken back.                                        *)
LEMMA PlaceTaken ==
  ASSUME IInv, NEW w \in Worker, NEW X \in SUBSET Queued,
         Queued' \subseteq Queued \ X, Hands(w)' \subseteq Hands(w) \cup X,
         \A v \in Worker \ {w} : Hands(v)' \subseteq Hands(v),
         \A v \in Worker : Own(v)' \cap PendingOf(v)' = {},
         UNCHANGED <<drainOp, ran, dropped>>,
         \A r \in Request : pc[r] \notin Early => pc'[r] \notin Early
  PROVE  PlaceInv'
  <1>1. /\ \A r \in Queued : r \in Request /\ pc'[r] \notin Early
        /\ \A v \in Worker : \A r \in Hands(v) : r \in Request /\ pc'[r] \notin Early
        /\ \A r \in ran \cup dropped : pc'[r] \notin Early
    BY Types, DrainType DEF IInv, QueueInv, PlaceInv, WorkerTypes, SharedTypes, Hands, Own,
       PendingOf
  <1>2. \A v \in Worker : Hands(v)' \cap (Queued' \cup drainOp \cup ran \cup dropped) = {}
    BY DEF IInv, PlaceInv
  <1>3. \A u, v \in Worker : u # v => Hands(u)' \cap Hands(v)' = {}
    BY DEF IInv, PlaceInv
  <1>4. \A v \in Worker : \A r \in Hands(v)' : pc'[r] \notin Early
    BY <1>1
  <1> QED BY <1>1, <1>2, <1>3, <1>4 DEF IInv, PlaceInv

(* Requests may be taken out of the queue, or from a worker, and be        *)
(* counted as dropped: everybody still is in one place.                    *)
LEMMA PlaceDropped ==
  ASSUME IInv, NEW M,
         \A r \in M : r \in Queued \cup drainOp \/ \E v \in Worker : r \in Hands(v),
         Queued' \subseteq Queued \ M,
         \A v \in Worker : /\ Hands(v)' \subseteq Hands(v) \ M
                           /\ Own(v)' \cap PendingOf(v)' = {},
         drainOp' \subseteq drainOp \cup M, dropped' \subseteq dropped \cup M,
         UNCHANGED ran,
         \A r \in Request : pc[r] \notin Early => pc'[r] \notin Early
  PROVE  PlaceInv'
  <1>1. /\ \A v \in Worker : \A r \in Hands(v) : r \in Request /\ pc'[r] \notin Early
        /\ \A r \in Queued \cup drainOp : r \in Request /\ pc'[r] \notin Early
        /\ \A r \in ran \cup dropped : r \in Request /\ pc'[r] \notin Early
    <2>1. \A r \in Queued \cup drainOp : r \in Request /\ pc[r] \notin Early
      BY Types, DrainType DEF IInv, QueueInv, QueueTypes
    <2>2. \A v \in Worker : \A r \in Hands(v) : r \in Request /\ pc[r] \notin Early
      BY Types DEF IInv, PlaceInv, WorkerTypes, Hands, Own, PendingOf
    <2>3. \A r \in ran \cup dropped : r \in Request /\ pc[r] \notin Early
      BY Types DEF IInv, PlaceInv, SharedTypes
    <2> QED BY <2>1, <2>2, <2>3
  <1>2. M \cap ran = {}
    BY DEF IInv, PlaceInv
  <1>3. \A v \in Worker : Hands(v)' \cap (Queued' \cup drainOp' \cup ran \cup dropped') = {}
    BY DEF IInv, PlaceInv
  <1>4. \A u, v \in Worker : u # v => Hands(u)' \cap Hands(v)' = {}
    BY DEF IInv, PlaceInv
  <1>5. Queued' \cap (drainOp' \cup ran \cup dropped') = {}
    BY DEF IInv, PlaceInv
  <1>6. ran \cap (drainOp' \cup dropped') = {}
    BY <1>2 DEF IInv, PlaceInv
  <1>7. \A r \in ran \cup dropped' : pc'[r] \notin Early
    BY <1>1
  <1>8. \A v \in Worker : \A r \in Hands(v)' : pc'[r] \notin Early
    BY <1>1
  <1> QED BY <1>3, <1>4, <1>5, <1>6, <1>7, <1>8 DEF PlaceInv

-----------------------------------------------------------------------------
(* Submitters.                                                             *)

(* While the engine accepts, shutdown() has not seen anything yet.         *)
LEMMA OpenIsEarly ==
  IInv /\ state \in {"created", "running"} =>
    ~Quiet /\ ctl.at \notin Closing /\ result = "none" /\ ~unloaded
  BY DEF IInv, ControlInv, EndInv, Quiet, Closing, Cancelling, Past

(* While the engine is open, EndInv speaks of nothing that a step of       *)
(* another thread could spoil.                                             *)
LEMMA OpenEnd ==
  ASSUME IInv, state \in {"created", "running"}, UNCHANGED controlVars
  PROVE  EndInv'
  BY OpenIsEarly DEF EndInv, Quiet, Closing, controlVars

(* What Publish changes outside the queue.                                 *)
LEMMA PublishMoves ==
  ASSUME IInv, NEW r \in Request, Publish(r)
  PROVE  /\ pc[r] = "reserved" /\ pc' = [pc EXCEPT ![r] = "published"]
         /\ state = "running" /\ coord = "running"
         /\ outcome' = [outcome EXCEPT ![r] = IF @ = "none" THEN "accepted" ELSE @]
         /\ ledger' = [ledger EXCEPT ![r] = "pending"]
         /\ reserved' = reserved \ {r}
         /\ UNCHANGED <<shared, drainOp, ops, leases, answer, tx, unresolved, coord,
                        watched, box, workerVars, controlVars, history, faults>>
  BY DEF Publish, Append1, Journal

(* Enter finds the engine running, or returns at once: a shutdown that has *)
(* seen all submitters out is not contradicted.                            *)
LEMMA EnterEnd ==
  ASSUME IInv, NEW r \in Request, Enter(r)
  PROVE  EndInv'
  <1>1. CASE state = "running"
    BY <1>1, OpenEnd DEF Enter
  <1>2. CASE state # "running"
    <2>1. pc' = [pc EXCEPT ![r] = "returned"]
      BY <1>2 DEF Enter
    <2>2. \A q \in Request : pc[q] \in {"idle", "returned"} => pc'[q] \in {"idle", "returned"}
      BY <2>1, Types DEF SubmitTypes
    <2>3. UNCHANGED <<ok, ctl, flushed, coord, reserved, worker, result, unresolved, leases,
                      unloaded>>
      BY DEF Enter, controlVars, coordVars, workerVars
    <2>4. Quiet' = Quiet /\ \A w \in Worker : Gone(w)' = Gone(w)
      BY <2>3 DEF Quiet, Gone
    <2> QED BY <2>2, <2>3, <2>4 DEF EndInv, IInv
  <1> QED BY <1>1, <1>2

(* A submitter whose request joins no queue leaves every request in its    *)
(* place.                                                                  *)
LEMMA SubmitPlace ==
  ASSUME IInv, Queued' \subseteq Queued, UNCHANGED <<drainOp, ran, dropped, worker>>,
         \A q \in Request : pc[q] \notin Early => pc'[q] \notin Early
  PROVE  PlaceInv'
  <1>1. \A v \in Worker : Hands(v)' = Hands(v) /\ Own(v)' = Own(v) /\ PendingOf(v)' = PendingOf(v)
    BY DEF Hands, Own, PendingOf
  <1>2. \A v \in Worker : Own(v) \cap PendingOf(v) = {}
    BY DEF IInv, PlaceInv
  <1>3. /\ Queued' \subseteq Queued \ {}
        /\ \A v \in Worker : /\ Hands(v)' \subseteq Hands(v) \ {}
                             /\ Own(v)' \cap PendingOf(v)' = {}
        /\ drainOp' \subseteq drainOp \cup {} /\ dropped' \subseteq dropped \cup {}
    BY <1>1, <1>2
  <1> QED BY <1>3, PlaceDropped

(* Enter moves no request.                                                 *)
LEMMA EnterPlace ==
  ASSUME IInv, NEW r \in Request, Enter(r)
  PROVE  PlaceInv'
  <1>1. \A q \in Request : pc[q] \notin Early => pc'[q] \notin Early
    BY Types DEF Enter, SubmitTypes, Early
  <1> QED BY <1>1, SubmitPlace, QueueSame DEF Enter, queueVars, workerVars, history

(* Complete at most takes the request out of the queue.                    *)
LEMMA CompletePlace ==
  ASSUME IInv, NEW r \in Request, Complete(r)
  PROVE  PlaceInv'
  <1>1. \A q \in Request : pc[q] \notin Early => pc'[q] \notin Early
    BY CompleteFacts DEF Early
  <1>2. Queued' \subseteq Queued
    BY CompleteFacts
  <1>3. UNCHANGED <<drainOp, ran, dropped, worker>>
    BY DEF Complete, history
  <1> QED BY <1>1, <1>2, <1>3, SubmitPlace

(* Undo moves no request: it was never queued.                             *)
LEMMA UndoPlace ==
  ASSUME IInv, NEW r \in Request, Undo(r)
  PROVE  PlaceInv'
  <1>1. \A q \in Request : pc[q] \notin Early => pc'[q] \notin Early
    BY UndoFacts DEF Early
  <1> QED BY <1>1, SubmitPlace, QueueSame DEF Undo, queueVars, workerVars, history

(* A request that is published is nowhere else.                            *)
LEMMA PublishPlaced ==
  ASSUME IInv, NEW r \in Request, pc[r] = "reserved", Queued' = Queued \cup {r},
         UNCHANGED <<drainOp, ran, dropped, worker>>,
         \A q \in Request \ {r} : pc'[q] = pc[q], pc'[r] \notin Early
  PROVE  PlaceInv'
  <1>1. /\ r \notin drainOp \cup ran \cup dropped
        /\ \A w \in Worker : r \notin Hands(w)
    BY DEF IInv, QueueInv, PlaceInv, Early
  <1>2. \A v \in Worker : Hands(v)' = Hands(v) /\ Own(v)' = Own(v) /\ PendingOf(v)' = PendingOf(v)
    BY DEF Hands, Own, PendingOf
  <1>3. \A q : pc[q] \notin Early /\ q \in Request => pc'[q] \notin Early
    OBVIOUS
  <1>4. /\ \A w \in Worker : \A q \in Hands(w) : q \in Request
        /\ \A q \in ran \cup dropped : q \in Request
    BY Types DEF WorkerTypes, SharedTypes, Hands, Own, PendingOf
  <1>5. /\ \A w \in Worker : \A q \in Hands(w) : pc'[q] \notin Early
        /\ \A q \in ran \cup dropped : pc'[q] \notin Early
    BY <1>3, <1>4 DEF IInv, PlaceInv
  <1>6. \A w \in Worker :
          /\ Hands(w) \cap (Queued' \cup drainOp \cup ran \cup dropped) = {}
          /\ Own(w) \cap PendingOf(w) = {}
          /\ \A v \in Worker \ {w} : Hands(v) \cap Hands(w) = {}
    BY <1>1 DEF IInv, PlaceInv
  <1>7. Queued' \cap (drainOp \cup ran \cup dropped) = {} /\ ran \cap (drainOp \cup dropped) = {}
    BY <1>1 DEF IInv, PlaceInv
  <1> QED BY <1>2, <1>5, <1>6, <1>7 DEF PlaceInv

(* Publish puts the request in the queue, and it was nowhere before.       *)
LEMMA PublishPlace ==
  ASSUME IInv, NEW r \in Request, Publish(r)
  PROVE  PlaceInv'
  <1>1. pc[r] = "reserved" /\ pc' = [pc EXCEPT ![r] = "published"]
    BY PublishMoves
  <1>2. Queued' = Queued \cup {r}
    BY <1>1, PublishFacts DEF Publish, Append1
  <1>3. UNCHANGED <<drainOp, ran, dropped, worker>>
    BY PublishMoves DEF workerVars, history
  <1>4. pc'[r] \notin Early /\ \A q \in Request \ {r} : pc'[q] = pc[q]
    BY <1>1, Types DEF SubmitTypes, Early
  <1> QED BY <1>1, <1>2, <1>3, <1>4, PublishPlaced

(* An acceptance that raises has put the request in the queue, where it    *)
(* stays hidden.                                                           *)
LEMMA RaisesPlace ==
  ASSUME IInv, NEW r \in Request, PublishRaises(r)
  PROVE  PlaceInv'
  <1>1. pc[r] = "reserved" /\ Queued' = Queued \cup {r}
    BY PublishFacts DEF PublishRaises
  <1>2. pc' = [pc EXCEPT ![r] = "recovering"] \/ pc' = [pc EXCEPT ![r] = "returned"]
    BY DEF PublishRaises
  <1>3. UNCHANGED <<drainOp, ran, dropped, worker>>
    BY DEF PublishRaises, workerVars, history
  <1>4. pc'[r] \notin Early /\ \A q \in Request \ {r} : pc'[q] = pc[q]
    BY <1>2, Types DEF SubmitTypes, Early
  <1> QED BY <1>1, <1>3, <1>4, PublishPlaced

(* Publish needs the engine running, and then shutdown() has promised      *)
(* nothing.                                                                *)
LEMMA PublishEnd ==
  ASSUME IInv, NEW r \in Request, Publish(r)
  PROVE  EndInv'
  BY PublishMoves, OpenEnd

(* Publish needs the engine and the coordinator running, and then pending  *)
(* requests are allowed.                                                   *)
LEMMA PublishControl ==
  ASSUME IInv, NEW r \in Request, Publish(r)
  PROVE  ControlInv'
  <1>1. /\ state = "running" /\ coord = "running"
        /\ UNCHANGED <<state, ctl, coord, result>>
    BY PublishMoves DEF shared, controlVars
  <1> QED BY <1>1 DEF IInv, ControlInv, Past, Cancelling

(* Publish keeps the types of what submit() writes.                        *)
LEMMA PublishTypes ==
  ASSUME IInv, NEW r \in Request, Publish(r)
  PROVE  SubmitTypes'
  BY PublishMoves, Types DEF SubmitTypes, SubmitPc

(* Refused keeps the types of the shared fields.                           *)
LEMMA RefusedTypes ==
  ASSUME IInv, NEW r \in Request, Refused(r)
  PROVE  SharedTypes'
  <1>1. UNCHANGED <<stopReq, closed, ran, dropped>>
    BY DEF Refused, Reject, history
  <1>2. state' = state \/ state' = Failed
    BY DEF Refused
  <1>3. faults' \in 0..MaxFault
    BY EngineAssumption, Types DEF SharedTypes, Refused, Fault
  <1> QED BY <1>1, <1>2, <1>3, Types DEF SharedTypes, Failed

(* Recover adds a handoff of the right type.                               *)
LEMMA RecoverTypes ==
  ASSUME IInv, NEW r \in Request, Recover(r)
  PROVE  BoxTypes'
  <1>1. Handoff(r, {r}, FALSE, "queued") \in
          [by : Worker \cup Request \cup {Control}, of : SUBSET Request,
           drain : BOOLEAN, st : {"queued", "acked", "refused"}]
    BY DEF Handoff
  <1>2. box' = box \/ box' = box \cup {Handoff(r, {r}, FALSE, "queued")}
    BY DEF Recover
  <1> QED BY <1>1, <1>2, Types DEF BoxTypes

(* Complete answers for a request that was accepted.                       *)
LEMMA CompleteSubmit ==
  ASSUME IInv, NEW r \in Request, Complete(r)
  PROVE  SubmitInv'
  <1>1. /\ pc[r] = "published" /\ ledger[r] # "none"
        /\ tx' = tx \ {r} /\ answer' = [answer EXCEPT ![r] = "true"]
        /\ UNCHANGED <<outcome, unresolved, ledger, reserved>>
    BY DEF Complete, coordVars
  <1>2. /\ pc'[r] = "returned"
        /\ \A q \in Request \ {r} :
             /\ pc'[q] = pc[q] \/ (pc[q] = "asleep" /\ pc'[q] = "entered")
             /\ answer'[q] = answer[q]
    BY <1>1, CompleteFacts, Types DEF SubmitTypes
  <1>3. SubmitInv
    BY DEF IInv
  <1> QED BY <1>1, <1>2, <1>3 DEF SubmitInv, Early

(* Undo answers for a request that was rejected.                           *)
LEMMA UndoSubmit ==
  ASSUME IInv, NEW r \in Request, Undo(r)
  PROVE  SubmitInv'
  <1>1. /\ pc[r] \in {"rejecting", "raising"} /\ reserved' = reserved \ {r}
        /\ tx' = tx \ {r} /\ UNCHANGED <<outcome, unresolved, ledger>>
        /\ answer' = [answer EXCEPT ![r] = IF pc[r] = "rejecting" THEN "false" ELSE "raised"]
    BY DEF Undo
  <1>2. /\ pc'[r] = "returned"
        /\ \A q \in Request \ {r} :
             /\ pc'[q] = pc[q] \/ (pc[q] = "asleep" /\ pc'[q] = "entered")
             /\ answer'[q] = answer[q]
    BY <1>1, UndoFacts, Types DEF SubmitTypes
  <1>3. SubmitInv
    BY DEF IInv
  <1> QED BY <1>1, <1>2, <1>3 DEF SubmitInv, Early

(* Publish records the acceptance with the coordinator and the metrics at  *)
(* once.                                                                   *)
LEMMA PublishSubmit ==
  ASSUME IInv, NEW r \in Request, Publish(r)
  PROVE  SubmitInv'
  <1>1. /\ pc[r] = "reserved" /\ pc'[r] = "published"
        /\ outcome'[r] = (IF outcome[r] = "none" THEN "accepted" ELSE outcome[r])
        /\ ledger'[r] = "pending" /\ reserved' = reserved \ {r}
        /\ \A q \in Request \ {r} : pc'[q] = pc[q] /\ outcome'[q] = outcome[q]
                                    /\ ledger'[q] = ledger[q]
        /\ UNCHANGED <<answer, tx, unresolved>>
    BY PublishMoves, Types DEF SubmitTypes, CoordTypes
  <1>2. outcome[r] = "none"
    BY PublishMoves DEF IInv, SubmitInv, CutInv
  <1>3. SubmitInv
    BY DEF IInv
  <1> QED BY <1>1, <1>2, <1>3 DEF SubmitInv, Early

(* Complete leaves the request queued, or gives its slot back.             *)
LEMMA CompleteLease ==
  ASSUME IInv, NEW r \in Request, Complete(r)
  PROVE  LeaseInv'
  <1>1. UNCHANGED <<worker, unresolved>> /\ pc[r] = "published"
    BY DEF Complete
  <1>2. SUFFICES ASSUME NEW q \in leases'
                 PROVE  \/ pc'[q] \in {"leased", "reserved", "rejecting", "raising"}
                        \/ q \in Queued' \cup unresolved
                        \/ \E w \in Worker :
                             \/ worker[w].pc = "dequeued" /\ q \in worker[w].owned
                             \/ worker[w].pc = "candidate" /\ q = worker[w].pend
    BY <1>1 DEF LeaseInv
  <1>3. q \in leases /\ q \in Request
    BY CompleteFacts, Types DEF QueueTypes
  <1>4. pc[q] \in {"leased", "reserved", "rejecting", "raising"} => pc'[q] = pc[q]
    BY <1>1, <1>3, CompleteFacts
  <1>5. q \in Queued => q \in Queued'
    BY CompleteFacts
  <1> QED BY <1>3, <1>4, <1>5 DEF IInv, LeaseInv

(* Undo gives the slot of its request back.                                *)
LEMMA UndoLease ==
  ASSUME IInv, NEW r \in Request, Undo(r)
  PROVE  LeaseInv'
  <1>1. UNCHANGED <<worker, unresolved, queue>>
    BY DEF Undo, workerVars, queueVars
  <1>2. SUFFICES ASSUME NEW q \in leases'
                 PROVE  \/ pc'[q] \in {"leased", "reserved", "rejecting", "raising"}
                        \/ q \in Queued \cup unresolved
                        \/ \E w \in Worker :
                             \/ worker[w].pc = "dequeued" /\ q \in worker[w].owned
                             \/ worker[w].pc = "candidate" /\ q = worker[w].pend
    BY <1>1, QueueSame DEF LeaseInv
  <1>3. q \in leases /\ q \in Request \ {r}
    BY UndoFacts, Types DEF QueueTypes
  <1>4. pc[q] \in {"leased", "reserved", "rejecting", "raising"} => pc'[q] = pc[q]
    BY <1>3, UndoFacts
  <1> QED BY <1>3, <1>4 DEF IInv, LeaseInv

(* Recover shows the request and wakes a worker for it.                    *)
LEMMA RecoverSleep ==
  ASSUME IInv, NEW r \in Request, Recover(r)
  PROVE  SleepInv'
  <1>1. UNCHANGED <<worker, closed, queue>>
    BY DEF Recover
  <1>2. \A v \in Worker : Taker(v)' = Taker(v)
    BY <1>1 DEF Taker
  <1>3. CASE UNCHANGED <<hidden, asleep>>
    BY <1>1, <1>2, <1>3, QueueSame, Types DEF IInv, SleepInv, WorkerTypes
  <1>4. CASE WakeOne
    <2>1. asleep' = {} \/ \E v \in asleep : v \notin asleep' /\ asleep' \subseteq asleep
      BY <1>4 DEF WakeOne
    <2> QED BY <1>1, <1>2, <2>1, Types DEF IInv, SleepInv, WorkerTypes
  <1> QED BY <1>3, <1>4 DEF Recover

(* An acceptance that raises is in the journal with its registration, or   *)
(* is unresolved.                                                          *)
LEMMA RaisesSubmit ==
  ASSUME IInv, NEW r \in Request, PublishRaises(r)
  PROVE  SubmitInv'
  <1>1. /\ pc[r] = "reserved" /\ state = "running"
        /\ UNCHANGED <<tx, ledger, reserved>>
    BY DEF PublishRaises, coordVars
  <1>2. outcome[r] = "none" /\ r \in reserved /\ ledger[r] = "none"
    BY <1>1 DEF IInv, SubmitInv, CutInv, Early
  <1>3. /\ \A q \in Request \ {r} : /\ pc'[q] = pc[q] /\ outcome'[q] = outcome[q]
                                    /\ answer'[q] = answer[q]
        /\ unresolved \subseteq unresolved'
        /\ \/ pc'[r] = "recovering" /\ outcome'[r] = "accepted" /\ answer'[r] = answer[r]
           \/ pc'[r] = "returned" /\ outcome'[r] = outcome[r] /\ r \in unresolved'
    <2>1. CASE /\ Journal(r, "accepted") /\ pc' = [pc EXCEPT ![r] = "recovering"]
               /\ UNCHANGED <<state, answer, unresolved>>
      BY <1>2, <2>1, Types DEF SubmitTypes, Journal
    <2>2. CASE /\ pc' = [pc EXCEPT ![r] = "returned"]
               /\ answer' = [answer EXCEPT ![r] = "raised"]
               /\ unresolved' = unresolved \cup {r} /\ UNCHANGED outcome
      BY <2>2, Types DEF SubmitTypes
    <2> QED BY <2>1, <2>2 DEF PublishRaises
  <1>4. SubmitInv
    BY DEF IInv
  <1> QED BY <1>1, <1>2, <1>3, <1>4 DEF SubmitInv, Early

(* Reserve is no cut-off submission: nothing has been recorded of it.      *)
LEMMA ReserveCut ==
  ASSUME IInv, NEW r \in Request, Reserve(r)
  PROVE  CutInv'
  BY Types DEF Reserve, IInv, CutInv, SubmitInv, SubmitTypes

(* Start finds no submission.                                              *)
LEMMA StartCut ==
  ASSUME IInv, Start
  PROVE  CutInv'
  <1>1. state = "created"
    BY DEF Start, IInv, ControlInv
  <1>2. \A r \in Request : pc[r] = "idle"
    BY <1>1 DEF IInv, ControlInv
  <1>3. UNCHANGED pc
    BY DEF Start, submitVars
  <1> QED BY <1>2, <1>3 DEF CutInv

(* WaitForSubmitters cuts submissions off when the engine is not running.  *)
LEMMA WaitCut ==
  ASSUME IInv, WaitForSubmitters
  PROVE  CutInv'
  <1>1. ctl.at = "submitters"
    BY DEF WaitForSubmitters
  <1>2. state # "running"
    BY <1>1 DEF IInv, ControlInv, Past, Cancelling
  <1>3. state' = state \/ state' = Failed
    BY DEF WaitForSubmitters
  <1> QED BY <1>2, <1>3 DEF CutInv, Failed

-----------------------------------------------------------------------------
(* Workers.                                                                *)

WorkerFunctions ==
  [Worker -> [pc : WorkerPc, owned : SUBSET Request, pend : Request \cup {None},
              drained : BOOLEAN, failures : Nat]]

(* What Take does to the workers.                                          *)
LEMMA TakeMoves ==
  ASSUME IInv, NEW w \in Worker, Take(w)
  PROVE  /\ worker' \in WorkerFunctions /\ Others(w)
         /\ worker[w].pc = "top" /\ worker[w].pend = None
         /\ worker'[w].pend = None
         /\ \/ worker'[w].pc = "passing" /\ Head(queue) = Stop
               /\ worker'[w].owned = worker[w].owned
            \/ worker'[w].pc = "dequeued" /\ Head(queue) \in Queued
               /\ worker'[w].owned = {Head(queue)}
  <1>1. Is(w, "top") /\ worker[w].pend = None
    BY DEF Take
  <1>2. CASE Head(queue) = Stop
    <2>1. To(w, "passing")
      BY <1>2 DEF Take
    <2> QED BY <1>1, <1>2, <2>1, ToFacts DEF WorkerFunctions, WorkerPc, Is
  <1>3. CASE Head(queue) # Stop
    <2>1. worker' = [worker EXCEPT ![w].pc = "dequeued", ![w].owned = {Head(queue)}]
      BY <1>3 DEF Take
    <2>2. Head(queue) \in Queued /\ Head(queue) \in Request
      BY <1>3, TakeFacts
    <2>3. /\ worker' \in WorkerFunctions /\ Others(w) /\ worker'[w].pend = worker[w].pend
          /\ worker'[w].pc = "dequeued" /\ worker'[w].owned = {Head(queue)}
      BY <2>1, <2>2, Types DEF WorkerTypes, WorkerFunctions, WorkerPc, Others
    <2> QED BY <1>1, <2>2, <2>3 DEF Is
  <1> QED BY <1>2, <1>3

(* What TakeCandidate does to the workers.                                 *)
LEMMA TakeCandidateMoves ==
  ASSUME IInv, NEW w \in Worker, TakeCandidate(w)
  PROVE  /\ worker' \in WorkerFunctions /\ Others(w)
         /\ worker[w].pc \in {"batching", "waiting"} /\ worker'[w].owned = worker[w].owned
         /\ \/ worker'[w].pc = "passing" /\ Head(queue) = Stop
               /\ worker'[w].pend = worker[w].pend
            \/ worker'[w].pc = "candidate" /\ Head(queue) \in Queued
               /\ worker'[w].pend = Head(queue)
  <1>1. worker[w].pc \in {"batching", "waiting"}
    BY DEF TakeCandidate
  <1>2. CASE Head(queue) = Stop
    <2>1. To(w, "passing")
      BY <1>2 DEF TakeCandidate
    <2> QED BY <1>1, <1>2, <2>1, ToFacts DEF WorkerFunctions, WorkerPc
  <1>3. CASE Head(queue) # Stop
    <2>1. worker' = [worker EXCEPT ![w].pc = "candidate", ![w].pend = Head(queue)]
      BY <1>3 DEF TakeCandidate
    <2>2. Head(queue) \in Queued /\ Head(queue) \in Request
      BY <1>3, TakeFacts
    <2> QED BY <1>1, <2>1, <2>2, Types DEF WorkerTypes, WorkerFunctions, WorkerPc, Others
  <1> QED BY <1>2, <1>3

(* Taking a request keeps the workers' types.                              *)
LEMMA TakeTypes ==
  ASSUME IInv, NEW w \in Worker, Take(w) \/ TakeCandidate(w)
  PROVE  WorkerTypes'
  <1>1. worker' \in WorkerFunctions
    BY TakeMoves, TakeCandidateMoves
  <1>2. asleep' \subseteq asleep
    BY TakeFacts
  <1>3. UNCHANGED mine
    BY DEF Take, TakeCandidate, OffQueue
  <1> QED BY <1>1, <1>2, <1>3, Types DEF WorkerTypes, WorkerFunctions

(* The request that a worker takes leaves the queue in the same step.      *)
LEMMA TakePlace ==
  ASSUME IInv, NEW w \in Worker, Take(w) \/ TakeCandidate(w)
  PROVE  PlaceInv'
  <1> DEFINE X == {Head(queue)} \cap Queued
  <1>1. X \subseteq Queued /\ Queued' \subseteq Queued \ X
    BY TakeFacts
  <1>2. UNCHANGED <<drainOp, ran, dropped, pc>>
    BY DEF Take, TakeCandidate, OffQueue, submitVars
  <1>3. \A v \in Worker \ {w} : /\ Hands(v)' = Hands(v) /\ Own(v)' = Own(v)
                                /\ PendingOf(v)' = PendingOf(v)
    <2>1. Others(w)
      BY TakeMoves, TakeCandidateMoves
    <2> QED BY <2>1 DEF Others, Hands, Own, PendingOf
  <1>4. Hands(w)' \subseteq Hands(w) \cup X
    <2>1. CASE Take(w)
      BY <2>1, TakeMoves DEF Hands, Own, PendingOf, IInv, TopInv
    <2>2. CASE TakeCandidate(w)
      BY <2>2, TakeCandidateMoves DEF Hands, Own, PendingOf
    <2> QED BY <2>1, <2>2
  <1>5. Own(w)' \cap PendingOf(w)' = {}
    <2>1. CASE Take(w)
      BY <2>1, TakeMoves DEF Own, PendingOf
    <2>2. CASE TakeCandidate(w)
      <3>1. Own(w)' = Own(w) /\ PendingOf(w)' \subseteq PendingOf(w) \cup X
        BY <2>2, TakeCandidateMoves DEF Own, PendingOf
      <3>2. Own(w) \cap (PendingOf(w) \cup X) = {}
        BY DEF IInv, PlaceInv, Hands
      <3> QED BY <3>1, <3>2
    <2> QED BY <2>1, <2>2
  <1>6. \A v \in Worker : Own(v)' \cap PendingOf(v)' = {}
    BY <1>3, <1>5 DEF IInv, PlaceInv
  <1> HIDE DEF X
  <1> QED BY <1>1, <1>2, <1>3, <1>4, <1>6, PlaceTaken

(* The request that a worker takes has its slot returned by that worker.   *)
LEMMA TakeLease ==
  ASSUME IInv, NEW w \in Worker, Take(w) \/ TakeCandidate(w)
  PROVE  LeaseInv'
  <1>1. UNCHANGED <<leases, pc, unresolved>>
    BY DEF Take, TakeCandidate, OffQueue, submitVars
  <1>2. worker[w].pc \notin {"dequeued", "candidate"} /\ Others(w)
    BY TakeMoves, TakeCandidateMoves
  <1>3. SUFFICES ASSUME NEW r \in leases
                 PROVE  \/ pc[r] \in {"leased", "reserved", "rejecting", "raising"}
                        \/ r \in Queued' \cup unresolved
                        \/ \E v \in Worker :
                             \/ worker'[v].pc = "dequeued" /\ r \in worker'[v].owned
                             \/ worker'[v].pc = "candidate" /\ r = worker'[v].pend
    BY <1>1 DEF LeaseInv
  <1>4. CASE \E v \in Worker : \/ worker[v].pc = "dequeued" /\ r \in worker[v].owned
                               \/ worker[v].pc = "candidate" /\ r = worker[v].pend
    BY <1>2, <1>4 DEF Others
  <1>5. CASE r \in Queued /\ r \notin Queued'
    <2>1. r = Head(queue)
      BY <1>5, TakeFacts
    <2>2. Head(queue) # Stop
      BY <1>5, <2>1 DEF Queued
    <2> QED BY <2>1, <2>2, TakeMoves, TakeCandidateMoves
  <1> QED BY <1>4, <1>5 DEF IInv, LeaseInv

(* A drain, whatever else happens in its step.                              *)
Drained ==
  /\ drainOp' = DrainSet /\ Queued' = Queued \ DrainSet /\ Distinct(queue', Stop)
  /\ UNCHANGED hidden
  /\ pc' \in [Request -> SubmitPc]
  /\ \A r \in Request : pc'[r] = pc[r] \/ (pc[r] = "asleep" /\ pc'[r] = "entered")

(* A drain takes no hidden request: QueueInv survives it.                  *)
LEMMA DrainedQueue ==
  ASSUME IInv, Drained
  PROVE  QueueInv'
  <1>1. DrainSet \subseteq drainOp \cup Queued /\ DrainSet \cap hidden = {}
    BY DrainType DEF DrainSet
  <1>2. hidden \subseteq Queued' /\ hidden \cap drainOp' = {}
    BY <1>1 DEF Drained, IInv, QueueInv
  <1>3. ASSUME NEW r \in Request
        PROVE  /\ pc'[r] \in {"published", "recovering"} => r \in hidden
               /\ pc'[r] \in Early => r \notin Queued' \cup drainOp'
    <2>1. pc'[r] = pc[r] \/ (pc[r] = "asleep" /\ pc'[r] = "entered")
      BY DEF Drained
    <2>2. pc'[r] \in Early => pc[r] \in Early
      BY <2>1 DEF Early
    <2>3. /\ pc[r] \in {"published", "recovering"} => r \in hidden
          /\ pc[r] \in Early => r \notin Queued \cup drainOp
      BY DEF IInv, QueueInv
    <2> QED BY <1>1, <2>1, <2>2, <2>3 DEF Drained
  <1>4. hidden' = hidden /\ Distinct(queue', Stop)
    BY DEF Drained
  <1> QED BY <1>2, <1>3, <1>4 DEF QueueInv

(* DrainSet and P are taken back, dropped or not.                          *)
LEMMA DrainedPlace ==
  ASSUME IInv, Drained, NEW P,
         \A r \in P : \E v \in Worker : r \in Hands(v),
         \A v \in Worker : /\ Hands(v)' \subseteq Hands(v) \ P
                           /\ Own(v)' \cap PendingOf(v)' = {},
         dropped' \subseteq dropped \cup P \cup DrainSet, UNCHANGED ran
  PROVE  PlaceInv'
  <1> DEFINE M == P \cup DrainSet
  <1>1. DrainSet \subseteq drainOp \cup Queued
    BY DEF DrainSet
  <1>2. \A r \in M : r \in Queued \cup drainOp \/ \E v \in Worker : r \in Hands(v)
    BY <1>1
  <1>3. Queued' \subseteq Queued \ M
    BY DEF Drained, IInv, PlaceInv
  <1>4. \A v \in Worker : Hands(v)' \subseteq Hands(v) \ M
    BY <1>1 DEF IInv, PlaceInv
  <1>5. drainOp' \subseteq drainOp \cup M /\ dropped' \subseteq dropped \cup M
    BY DEF Drained
  <1>6. \A r \in Request : pc[r] \notin Early => pc'[r] \notin Early
    BY DEF Drained, Early
  <1> HIDE DEF M
  <1> QED BY <1>2, <1>3, <1>4, <1>5, <1>6, PlaceDropped

(* A drain that gives the slots of what it takes back leaves no slot       *)
(* without somebody to return it.                                          *)
LEMMA DrainedLease ==
  ASSUME IInv, Drained, NEW S, leases' = leases \ S, UNCHANGED unresolved,
         \A r \in DrainSet : r \in S,
         \A v \in Worker :
           \/ worker'[v] = worker[v]
           \/ /\ worker[v].pc = "dequeued" =>
                   worker'[v].pc = "dequeued" /\ worker'[v].owned = worker[v].owned
              /\ worker[v].pc = "candidate" => worker[v].pend \in S
  PROVE  LeaseInv'
  <1>1. SUFFICES ASSUME NEW r \in leases, r \notin S
                 PROVE  \/ pc'[r] \in {"leased", "reserved", "rejecting", "raising"}
                        \/ r \in Queued' \cup unresolved
                        \/ \E v \in Worker :
                             \/ worker'[v].pc = "dequeued" /\ r \in worker'[v].owned
                             \/ worker'[v].pc = "candidate" /\ r = worker'[v].pend
    BY DEF LeaseInv
  <1>2. r \in Request
    BY Types DEF QueueTypes
  <1>3. pc[r] \in {"leased", "reserved", "rejecting", "raising"} => pc'[r] = pc[r]
    BY <1>2 DEF Drained
  <1>4. r \in Queued => r \in Queued'
    BY <1>1 DEF Drained
  <1>5. ASSUME NEW v \in Worker, \/ worker[v].pc = "dequeued" /\ r \in worker[v].owned
                                 \/ worker[v].pc = "candidate" /\ r = worker[v].pend
        PROVE  \/ worker'[v].pc = "dequeued" /\ r \in worker'[v].owned
               \/ worker'[v].pc = "candidate" /\ r = worker'[v].pend
    BY <1>1, <1>5
  <1> QED BY <1>3, <1>4, <1>5 DEF IInv, LeaseInv

(* A drain and the release of slots that goes with it.                     *)
LEMMA TakeDrainedFacts ==
  ASSUME IInv, NEW S, TakeDrained(DrainSet), UNCHANGED hidden, Release(S, pc)
  PROVE  Drained /\ leases' = leases \ S
  BY DrainFacts, ReleaseFacts DEF Drained

(* A worker that finds nothing has empty hands.                            *)
LEMMA SleepOrLeavePlace ==
  ASSUME IInv, NEW w \in Worker, SleepOrLeave(w)
  PROVE  PlaceInv'
  <1>1. UNCHANGED <<queue, drainOp, ran, dropped, pc>>
    BY DEF SleepOrLeave, OffQueue, submitVars
  <1>2. Is(w, "top") /\ worker[w].pend = None /\ (To(w, "leaving") \/ UNCHANGED worker)
    BY DEF SleepOrLeave
  <1>3. /\ Others(w) /\ worker'[w].pend = None
        /\ worker'[w].pc \in {"top", "leaving"}
    BY <1>2, ToFacts DEF Is, WorkerPc, Others
  <1>4. Hands(w)' = {}
    BY <1>3 DEF Hands, Own, PendingOf
  <1>5. \A v \in Worker \ {w} : /\ Hands(v)' = Hands(v) /\ Own(v)' = Own(v)
                                /\ PendingOf(v)' = PendingOf(v)
    BY <1>3 DEF Others, Hands, Own, PendingOf
  <1>6. \A v \in Worker : Own(v)' \cap PendingOf(v)' = {}
    BY <1>4, <1>5 DEF IInv, PlaceInv, Hands
  <1> QED BY <1>1, <1>4, <1>5, <1>6, PlaceTaken, QueueSame

(* A candidate joins the batch of the worker that holds it, or stays its   *)
(* candidate.                                                              *)
LEMMA CandidatePlace ==
  ASSUME IInv, NEW w \in Worker, Candidate(w)
  PROVE  PlaceInv'
  <1>1. UNCHANGED <<queue, drainOp, ran, dropped>>
    BY DEF Candidate, queueVars, history
  <1>2. \A r \in Request : pc[r] \notin Early => pc'[r] \notin Early
    BY ReleaseFacts DEF Candidate, Early
  <1>3. /\ Others(w) /\ Hands(w)' \subseteq Hands(w) /\ Own(w)' \cap PendingOf(w)' = {}
    <2>1. worker[w].pc = "candidate" /\ Own(w) \cap PendingOf(w) = {}
      BY DEF Candidate, Is, IInv, PlaceInv
    <2>2. CASE worker' = [worker EXCEPT ![w].pc = "full"]
      <3>1. /\ Others(w) /\ worker'[w].pc = "full" /\ worker'[w].owned = worker[w].owned
            /\ worker'[w].pend = worker[w].pend
        BY <2>2, Types DEF WorkerTypes, Others
      <3> QED BY <2>1, <3>1 DEF Hands, Own, PendingOf
    <2>3. CASE /\ worker[w].pend # None
               /\ worker' = [worker EXCEPT ![w].pc = "batching", ![w].pend = None,
                               ![w].owned = @ \cup {worker[w].pend}]
      <3>1. /\ Others(w) /\ worker'[w].pc = "batching" /\ worker'[w].pend = None
            /\ worker'[w].owned = worker[w].owned \cup {worker[w].pend}
        BY <2>3, Types DEF WorkerTypes, Others
      <3> QED BY <2>1, <2>3, <3>1 DEF Hands, Own, PendingOf
    <2> QED BY <2>2, <2>3 DEF Candidate
  <1>4. \A v \in Worker \ {w} : /\ Hands(v)' = Hands(v) /\ Own(v)' = Own(v)
                                /\ PendingOf(v)' = PendingOf(v)
    BY <1>3 DEF Others, Hands, Own, PendingOf
  <1>5. \A v \in Worker : Own(v)' \cap PendingOf(v)' = {}
    BY <1>3, <1>4 DEF IInv, PlaceInv
  <1> QED BY <1>1, <1>2, <1>3, <1>4, <1>5, PlaceTaken, QueueSame

(* Writing a worker's fields keeps the type of the workers.                *)
LEMMA Updated ==
  ASSUME NEW f \in WorkerFunctions, NEW w \in Worker, NEW p \in WorkerPc,
         NEW o \in SUBSET Request, NEW n \in Request \cup {None}, NEW d \in BOOLEAN
  PROVE  /\ [f EXCEPT ![w].pc = p, ![w].owned = o, ![w].pend = n] \in WorkerFunctions
         /\ [f EXCEPT ![w].pc = p, ![w].owned = o, ![w].pend = n, ![w].drained = d]
              \in WorkerFunctions
  <1> DEFINE R == [pc : WorkerPc, owned : SUBSET Request, pend : Request \cup {None},
                   drained : BOOLEAN, failures : Nat]
             a == [f[w] EXCEPT !.pc = p, !.owned = o, !.pend = n]
             b == [f[w] EXCEPT !.pc = p, !.owned = o, !.pend = n, !.drained = d]
  <1>1. f \in [Worker -> R]
    BY DEF WorkerFunctions
  <1>2. f[w] \in R
    BY <1>1
  <1>3. a \in R /\ b \in R
    BY <1>2
  <1>4. /\ [f EXCEPT ![w].pc = p, ![w].owned = o, ![w].pend = n] = [f EXCEPT ![w] = a]
        /\ [f EXCEPT ![w].pc = p, ![w].owned = o, ![w].pend = n, ![w].drained = d]
             = [f EXCEPT ![w] = b]
    BY <1>1
  <1> HIDE DEF R, a, b
  <1>5. [f EXCEPT ![w] = a] \in [Worker -> R] /\ [f EXCEPT ![w] = b] \in [Worker -> R]
    BY <1>1, <1>3
  <1> QED BY <1>4, <1>5 DEF WorkerFunctions, R

(* What After does to the workers.                                         *)
LEMMA AfterMoves ==
  ASSUME IInv, NEW w \in Worker, After(w)
  PROVE  /\ worker' \in WorkerFunctions /\ Others(w)
         /\ worker[w].pc = "handed"
         /\ worker'[w].pc \in {"top", "leaving", "crashed"}
         /\ worker'[w].pend = worker[w].pend \/ worker'[w].pend = None
  <1> DEFINE p == IF ~stopReq THEN "top"
                  ELSE IF worker[w].pend = None THEN "leaving" ELSE "crashed"
             o == IF stopReq THEN {worker[w].pend} \ {None} ELSE {}
             n == IF stopReq THEN None ELSE worker[w].pend
  <1>1. worker' = [worker EXCEPT ![w].pc = p, ![w].owned = o, ![w].pend = n]
    BY Types DEF After, WorkerTypes
  <1>2. worker[w].pend \in Request \cup {None}
    BY Types DEF WorkerTypes
  <1>3. p \in {"top", "leaving", "crashed"} /\ o \in SUBSET Request /\ n \in Request \cup {None}
        /\ (n = worker[w].pend \/ n = None)
    BY <1>2
  <1> HIDE DEF p, o, n
  <1>4. worker[w].pc = "handed"
    BY DEF After, Is
  <1>5. worker \in WorkerFunctions
    BY Types DEF WorkerTypes, WorkerFunctions
  <1>6. /\ Others(w) /\ worker'[w].pc = p /\ worker'[w].pend = n
    BY <1>1, <1>5 DEF WorkerFunctions, Others
  <1>7. worker' \in WorkerFunctions
    <2>1. p \in WorkerPc
      BY <1>3 DEF WorkerPc
    <2> QED BY <1>1, <1>3, <1>5, <2>1, Updated
  <1> QED BY <1>3, <1>4, <1>6, <1>7

(* After keeps the workers' types.                                         *)
LEMMA AfterTypes ==
  ASSUME IInv, NEW w \in Worker, After(w)
  PROVE  WorkerTypes'
  <1>1. UNCHANGED <<asleep, mine>>
    BY DEF After, OffQueue
  <1> QED BY <1>1, AfterMoves, Types DEF WorkerTypes, WorkerFunctions

(* After a batch the worker holds at most the candidate it held before.    *)
LEMMA AfterPlace ==
  ASSUME IInv, NEW w \in Worker, After(w)
  PROVE  PlaceInv'
  <1>1. UNCHANGED <<queue, drainOp, ran, dropped, pc>>
    BY DEF After, OffQueue, submitVars
  <1>2. Others(w) /\ Hands(w)' \subseteq Hands(w) /\ Own(w)' = {}
    BY AfterMoves DEF Hands, Own, PendingOf
  <1>4. \A v \in Worker \ {w} : /\ Hands(v)' = Hands(v) /\ Own(v)' = Own(v)
                                /\ PendingOf(v)' = PendingOf(v)
    BY <1>2 DEF Others, Hands, Own, PendingOf
  <1>5. \A v \in Worker : Own(v)' \cap PendingOf(v)' = {}
    BY <1>2, <1>4 DEF IInv, PlaceInv
  <1> QED BY <1>1, <1>2, <1>4, <1>5, PlaceTaken, QueueSame

(* What Crash does: the worker drops what it has and drains the queue.     *)
LEMMA CrashMoves ==
  ASSUME IInv, NEW w \in Worker, Crash(w)
  PROVE  /\ worker' \in WorkerFunctions /\ Others(w)
         /\ worker[w].pc = "crashed" /\ worker'[w].pc \in {"dead", "failing"}
         /\ worker'[w].pend = None
         /\ Drained
         /\ dropped' \subseteq dropped \cup PendingOf(w) \cup DrainSet
         /\ \E S \in SUBSET Request : leases' = leases \ S /\ DrainSet \subseteq S
         /\ stopReq' = TRUE /\ state' = Failed
         /\ UNCHANGED <<closed, ops, answer, tx, outcome, unresolved, coordVars, mine,
                        controlVars, ran, faults>>
  <1> DEFINE failed == worker[w].owned \cup ({worker[w].pend} \ {None}) \cup DrainSet
             p == IF failed = {} THEN "dead" ELSE "failing"
             d == DrainSet # {}
  <1>1. worker \in WorkerFunctions
    BY Types DEF WorkerTypes, WorkerFunctions
  <1>2. failed \in SUBSET Request /\ p \in {"dead", "failing"} /\ d \in BOOLEAN
    <2>1. worker[w].owned \subseteq Request /\ worker[w].pend \in Request \cup {None}
      BY <1>1 DEF WorkerFunctions
    <2> QED BY <2>1, DrainType
  <1>3. /\ TakeDrained(DrainSet) /\ Release(failed, pc) /\ UNCHANGED hidden
        /\ worker' = [worker EXCEPT ![w].pc = p, ![w].owned = failed, ![w].pend = None,
                                    ![w].drained = d]
        /\ dropped' = dropped \cup (failed \ worker[w].owned)
    BY DEF Crash
  <1>4. dropped' \subseteq dropped \cup PendingOf(w) \cup DrainSet /\ DrainSet \subseteq failed
    BY <1>3 DEF PendingOf
  <1> HIDE DEF failed, p, d
  <1>5. worker' \in WorkerFunctions
    <2>1. p \in WorkerPc
      BY <1>2 DEF WorkerPc
    <2>2. worker[w].pend \in Request \cup {None} /\ None \in Request \cup {None}
      BY <1>1 DEF WorkerFunctions
    <2> QED BY <1>1, <1>2, <1>3, <2>1, <2>2, Updated
  <1>6. Others(w) /\ worker'[w].pc = p /\ worker'[w].pend = None
    BY <1>1, <1>3 DEF WorkerFunctions, Others
  <1>7. Drained /\ leases' = leases \ failed
    BY <1>3, TakeDrainedFacts
  <1>8. /\ worker[w].pc = "crashed" /\ stopReq' = TRUE /\ state' = Failed
        /\ UNCHANGED <<closed, ops, answer, tx, outcome, unresolved, coordVars, mine,
                       controlVars, ran, faults>>
    BY DEF Crash, Is
  <1> QED BY <1>2, <1>4, <1>5, <1>6, <1>7, <1>8

(* Crash keeps the types of the shared fields.                             *)
LEMMA CrashShared ==
  ASSUME IInv, NEW w \in Worker, Crash(w)
  PROVE  SharedTypes'
  <1>1. PendingOf(w) \subseteq Request /\ DrainSet \subseteq Request
    BY DrainType, Types DEF WorkerTypes, PendingOf
  <1> QED BY <1>1, CrashMoves, Types DEF SharedTypes, Failed

(* Crash keeps the workers' types.                                         *)
LEMMA CrashTypes ==
  ASSUME IInv, NEW w \in Worker, Crash(w)
  PROVE  WorkerTypes'
  <1>1. asleep' \subseteq asleep
    BY DrainFacts DEF Crash
  <1> QED BY <1>1, CrashMoves, Types DEF WorkerTypes, WorkerFunctions

(* Crash fails the engine, which opens nothing.                            *)
LEMMA CrashControl ==
  ASSUME IInv, NEW w \in Worker, Crash(w)
  PROVE  ControlInv'
  <1>1. worker[w].pc = "crashed" /\ state' = Failed
        /\ UNCHANGED <<ctl, coord, ledger, result>>
    BY CrashMoves DEF controlVars, coordVars
  <1>2. state # "created"
    BY <1>1 DEF IInv, ControlInv, Idle
  <1> QED BY <1>1, <1>2 DEF IInv, ControlInv, Past, Cancelling, Failed, Pending

(* Crash starts no batch.                                                  *)
LEMMA CrashTop ==
  ASSUME IInv, NEW w \in Worker, Crash(w)
  PROVE  TopInv'
  BY CrashMoves DEF IInv, TopInv, Others

(* The drain of a dying worker takes no hidden request.                    *)
LEMMA CrashQueue ==
  ASSUME IInv, NEW w \in Worker, Crash(w)
  PROVE  QueueInv'
  BY CrashMoves, DrainedQueue

(* What a dying worker takes from the queue, or held as candidate, is      *)
(* dropped and no longer anywhere else.                                    *)
LEMMA CrashPlace ==
  ASSUME IInv, NEW w \in Worker, Crash(w)
  PROVE  PlaceInv'
  <1>1. /\ Others(w) /\ worker[w].pc = "crashed" /\ worker'[w].pc \in {"dead", "failing"}
        /\ worker'[w].pend = None
    BY CrashMoves
  <1>2. Hands(w) = PendingOf(w) /\ Hands(w)' = {}
    BY <1>1 DEF Hands, Own, PendingOf
  <1>3. \A v \in Worker \ {w} : /\ Hands(v)' = Hands(v) /\ Own(v)' = Own(v)
                                /\ PendingOf(v)' = PendingOf(v)
    BY <1>1 DEF Others, Hands, Own, PendingOf
  <1>4. \A v \in Worker : Hands(v)' \subseteq Hands(v) \ PendingOf(w)
    BY <1>2, <1>3 DEF IInv, PlaceInv
  <1>5. \A v \in Worker : Own(v)' \cap PendingOf(v)' = {}
    <2>1. Own(w)' = {}
      BY <1>2 DEF Hands
    <2> QED BY <2>1, <1>3 DEF IInv, PlaceInv
  <1>6. \A r \in PendingOf(w) : \E v \in Worker : r \in Hands(v)
    BY <1>2
  <1> QED BY <1>4, <1>5, <1>6, CrashMoves, DrainedPlace

(* A dying worker gives back the slots of everything it drops.             *)
LEMMA CrashLease ==
  ASSUME IInv, NEW w \in Worker, Crash(w)
  PROVE  LeaseInv'
  <1>1. Drained /\ UNCHANGED unresolved /\ worker[w].pc = "crashed" /\ Others(w)
    BY CrashMoves
  <1>2. PICK S \in SUBSET Request : leases' = leases \ S /\ DrainSet \subseteq S
    BY CrashMoves
  <1>3. \A v \in Worker :
          \/ worker'[v] = worker[v]
          \/ /\ worker[v].pc = "dequeued" =>
                  worker'[v].pc = "dequeued" /\ worker'[v].owned = worker[v].owned
             /\ worker[v].pc = "candidate" => worker[v].pend \in S
    BY <1>1 DEF Others
  <1> QED BY <1>1, <1>2, <1>3, DrainedLease

-----------------------------------------------------------------------------
(* Coordinator and controller.                                             *)

(* Workers that do not change hold what they held.                         *)
LEMMA SameHands ==
  ASSUME UNCHANGED worker
  PROVE  \A v \in Worker : /\ Hands(v)' = Hands(v) /\ Own(v)' = Own(v)
                           /\ PendingOf(v)' = PendingOf(v) /\ Gone(v)' = Gone(v)
  BY DEF Hands, Own, PendingOf, Gone

(* A drain whose requests are not yet counted as dropped leaves every      *)
(* request in one place.                                                   *)
LEMMA IdlyDrainedPlace ==
  ASSUME IInv, Drained, UNCHANGED <<worker, ran, dropped>>
  PROVE  PlaceInv'
  <1>1. \A v \in Worker : Hands(v)' \subseteq Hands(v) \ {} /\ Own(v)' \cap PendingOf(v)' = {}
    BY SameHands DEF IInv, PlaceInv
  <1> QED BY <1>1, DrainedPlace

(* The drain after a failure of the coordinator takes no hidden request.   *)
LEMMA WatchQueue ==
  ASSUME IInv, Watch
  PROVE  QueueInv'
  <1>1. Drained
    BY TakeDrainedFacts DEF Watch
  <1> QED BY <1>1, DrainedQueue

(* The drain after a failure of the coordinator leaves the requests in the *)
(* open drain.                                                             *)
LEMMA WatchPlace ==
  ASSUME IInv, Watch
  PROVE  PlaceInv'
  <1>1. Drained
    BY TakeDrainedFacts DEF Watch
  <1> QED BY <1>1, IdlyDrainedPlace DEF Watch, history

(* The last drain is one, with the stop token.                             *)
LEMMA FinishDrained ==
  ASSUME IInv, Finish
  PROVE  Drained /\ leases' = leases \ DrainSet
  BY FinishFacts, ReleaseFacts DEF Finish, Drained

(* The last drain takes no hidden request.                                 *)
LEMMA FinishQueue ==
  ASSUME IInv, Finish
  PROVE  QueueInv'
  BY FinishDrained, DrainedQueue

(* The last drain leaves the requests in the open drain.                   *)
LEMMA FinishPlace ==
  ASSUME IInv, Finish
  PROVE  PlaceInv'
  BY FinishDrained, IdlyDrainedPlace DEF Finish, workerVars, history

(* Moves of the controller up to the point where it closes the engine.     *)
LEMMA NoResult ==
  IInv /\ ctl.at # "returned" => result = "none" /\ unloaded = FALSE
  BY Types DEF IInv, ControlInv, EndInv, ControlTypes

(* Only before start() is the engine "created".                            *)
LEMMA NotCreated ==
  IInv /\ ctl.at # "created" => state # "created"
  BY DEF IInv, ControlInv

(* A step of the controller, between start() and its return, keeps         *)
(* ControlInv if it does not open the engine again.                        *)
LEMMA ControlKept ==
  ASSUME IInv, ctl.at \notin {"created", "returned"}, ctl'.at \notin {"created", "returned"},
         state' \in {state, Failed}, Past' => Past \/ state # "running",
         ctl'.at \in Cancelling => ctl'.then \in {"closing", "resumed", "stopping"},
         UNCHANGED <<coord, ledger, result>>
  PROVE  ControlInv'
  <1>1. state # "created" /\ state' # "created" /\ result = "none"
    BY NotCreated, NoResult DEF Failed
  <1>2. Past' => state' # "running"
    BY DEF IInv, ControlInv, Failed
  <1>3. coord' \in {"failed", "stopped"} => Pending' = {}
    BY DEF IInv, ControlInv, Pending
  <1> QED BY <1>1, <1>2, <1>3 DEF ControlInv

(* Before it closes the queue the controller has promised nothing that     *)
(* EndInv or ClosedInv could speak of, save that the submitters are out.   *)
LEMMA EndOpen ==
  ASSUME IInv, ctl.at # "returned", UNCHANGED <<result, unloaded>>,
         ctl'.at \notin Closing \ {"stopping"},
         ok' /\ Quiet' => \A r \in Request : pc'[r] \in {"idle", "returned"}
  PROVE  EndInv' /\ ClosedInv'
  <1>1. result' = "none" /\ unloaded' = FALSE
    BY NoResult
  <1>2. ctl'.at \notin {"finishing", "joining", "telling", "ending"}
    BY DEF Closing
  <1> QED BY <1>1, <1>2 DEF EndInv, ClosedInv

(* Nobody is in submit() once the controller has seen so.                  *)
LEMMA StaysQuiet ==
  IInv /\ ok /\ Quiet => \A r \in Request : pc[r] \in {"idle", "returned"}
  BY DEF IInv, EndInv

(* What Start does: it starts the workers, all or some.                    *)
LEMMA StartMoves ==
  ASSUME IInv, Start
  PROVE  /\ worker' \in WorkerFunctions
         /\ \A w \in Worker : worker'[w].pc \in {"off", "top"} /\ worker'[w].owned = {}
                              /\ worker'[w].pend = None
         /\ state = "created" /\ (\A w \in Worker : worker[w] = Idle)
         /\ \/ state' = "running" /\ Go("producing") /\ UNCHANGED <<stopReq, faults>>
            \/ state' = "failed" /\ stopReq' = TRUE /\ Go("closing") /\ Fault
         /\ UNCHANGED <<closed, queueVars, leases, submitVars, coordVars, asleep, mine,
                        snap, flushed, ok, result, cancelOp, unloaded, history>>
  <1>1. state = "created" /\ \A w \in Worker : worker[w] = Idle
    BY DEF Start, IInv, ControlInv
  <1>2. PICK W \in SUBSET Worker :
          /\ worker' = [w \in Worker |-> IF w \in W THEN [Idle EXCEPT !.pc = "top"] ELSE Idle]
          /\ \/ state' = "running" /\ Go("producing") /\ UNCHANGED <<stopReq, faults>>
             \/ state' = "failed" /\ stopReq' = TRUE /\ Go("closing") /\ Fault
    BY DEF Start
  <1>3. /\ worker' \in WorkerFunctions
        /\ \A w \in Worker : worker'[w].pc \in {"off", "top"} /\ worker'[w].owned = {}
                             /\ worker'[w].pend = None
    BY <1>2 DEF WorkerFunctions, Idle, WorkerPc
  <1>4. UNCHANGED <<closed, queueVars, leases, submitVars, coordVars, asleep, mine,
                    snap, flushed, ok, result, cancelOp, unloaded, history>>
    BY DEF Start
  <1> QED BY <1>1, <1>2, <1>3, <1>4

(* Start keeps the types of the shared fields.                             *)
LEMMA StartShared ==
  ASSUME IInv, Start
  PROVE  SharedTypes'
  <1>1. faults' \in 0..MaxFault
    <2>1. UNCHANGED faults \/ Fault
      BY StartMoves
    <2>2. faults \in 0..MaxFault /\ MaxFault \in Nat
      BY Types, EngineAssumption DEF SharedTypes
    <2> QED BY <2>1, <2>2 DEF Fault
  <1>2. UNCHANGED <<closed, ran, dropped>> /\ stopReq' \in BOOLEAN
        /\ state' \in {"running", "failed"}
    BY StartMoves, Types DEF SharedTypes, history
  <1> QED BY <1>1, <1>2, Types DEF SharedTypes

(* Start keeps the workers' types.                                         *)
LEMMA StartTypes ==
  ASSUME IInv, Start
  PROVE  WorkerTypes'
  BY StartMoves, Types DEF WorkerTypes, WorkerFunctions

(* Start keeps the controller's types.                                     *)
LEMMA StartControlTypes ==
  ASSUME IInv, Start
  PROVE  ControlTypes'
  <1>1. ctl' \in [at : ControlPc, then : ControlPc \cup {""}, again : BOOLEAN]
    BY StartMoves, GoFacts DEF ControlPc
  <1> QED BY <1>1, StartMoves, Types DEF ControlTypes

(* Start opens an engine in which nothing has happened, or fails it.       *)
LEMMA StartControl ==
  ASSUME IInv, Start
  PROVE  ControlInv'
  <1>1. ctl.at = "created" /\ result = "none" /\ coord = "running"
    BY StartMoves DEF Start, IInv, ControlInv
  <1>2. ctl'.at \in {"producing", "closing"} /\ state' \in {"running", "failed"}
    BY StartMoves, GoFacts
  <1>3. UNCHANGED <<result, coord>>
    BY StartMoves DEF coordVars
  <1> QED BY <1>1, <1>2, <1>3 DEF ControlInv, Past, Cancelling

(* Start comes before every promise of shutdown().                         *)
LEMMA StartEnd ==
  ASSUME IInv, Start
  PROVE  EndInv' /\ ClosedInv'
  <1>1. ctl.at = "created" /\ ctl'.at \in {"producing", "closing"}
    BY StartMoves, GoFacts DEF Start
  <1> QED BY <1>1, StartMoves, EndOpen DEF Quiet, Closing, Cancelling

(* Start holds no slot.                                                    *)
LEMMA StartLease ==
  ASSUME IInv, Start
  PROVE  LeaseInv'
  <1>1. UNCHANGED <<leases, pc, queue, unresolved>>
    BY StartMoves DEF submitVars, queueVars
  <1>2. \A w \in Worker : worker[w].pc = "off"
    BY StartMoves DEF Idle
  <1> QED BY <1>1, <1>2, QueueSame DEF IInv, LeaseInv

(* Produced moves the controller only.                                     *)
LEMMA ProducedMoves ==
  ASSUME IInv, Produced
  PROVE  ControlTypes' /\ ControlInv' /\ EndInv' /\ ClosedInv'
  <1>1. ctl.at = "producing" /\ (Go("closing") \/ Then("cancelling", "closing"))
    BY DEF Produced
  <1>2. UNCHANGED <<state, coord, ledger, snap, flushed, ok, result, cancelOp, unloaded>>
    BY DEF Produced, OffControl, coordVars, shared
  <1>3. /\ ctl' \in [at : ControlPc, then : ControlPc \cup {""}, again : BOOLEAN]
        /\ ctl'.at = "closing" \/ (ctl'.at = "cancelling" /\ ctl'.then = "closing")
    BY <1>1, GoFacts, ThenFacts DEF ControlPc
  <1>4. ControlTypes'
    BY <1>2, <1>3, Types DEF ControlTypes
  <1>5. ~Past' /\ ~Quiet' /\ ctl'.at \notin Closing
    BY <1>3 DEF Past, Quiet, Closing, Cancelling
  <1>6. ControlInv'
    BY <1>1, <1>2, <1>3, <1>5, ControlKept DEF Cancelling
  <1>7. EndInv' /\ ClosedInv'
    BY <1>1, <1>2, <1>5, EndOpen
  <1> QED BY <1>4, <1>6, <1>7

(* However a flush ends, the controller's parts of the invariant hold.     *)
LEMMA FlushEndMoves ==
  ASSUME IInv, NEW b \in BOOLEAN, FlushEnds(b), state' \in {state, Failed}
  PROVE  ControlTypes' /\ ControlInv' /\ EndInv' /\ ClosedInv'
  <1>1. ctl.at \in {"wait1", "wait2"} /\ (Go("resuming") \/ Go("submitters"))
    BY DEF FlushEnds
  <1>2. UNCHANGED <<coord, ledger, snap, result, cancelOp, unloaded>>
    BY DEF FlushEnds
  <1>3. /\ ctl' \in [at : ControlPc, then : ControlPc \cup {""}, again : BOOLEAN]
        /\ ctl'.at \in {"resuming", "submitters"}
    BY <1>1, GoFacts DEF ControlPc
  <1>4. flushed' \in BOOLEAN /\ ok' \in BOOLEAN
    BY Types DEF FlushEnds, ControlTypes
  <1>5. ControlTypes'
    BY <1>2, <1>3, <1>4, Types DEF ControlTypes
  <1>6. Past /\ ~Quiet' /\ ctl'.at \notin Closing \cup Cancelling
    BY <1>1, <1>3 DEF Past, Quiet, Closing, Cancelling
  <1>7. ControlInv'
    BY <1>1, <1>2, <1>3, <1>6, ControlKept
  <1>8. EndInv' /\ ClosedInv'
    BY <1>1, <1>2, <1>6, EndOpen
  <1> QED BY <1>5, <1>7, <1>8

(* Resume moves the controller and perhaps gives up on True.               *)
LEMMA ResumeMoves ==
  ASSUME IInv, Resume
  PROVE  ControlTypes' /\ ControlInv' /\ EndInv' /\ ClosedInv'
  <1>1. /\ ctl.at = "resuming" /\ (Go("flush2") \/ Then("cancelling", "resumed"))
        /\ ok' = ok \/ ok' = FALSE
    BY DEF Resume
  <1>2. UNCHANGED <<state, coord, ledger, snap, flushed, result, cancelOp, unloaded>>
    BY DEF Resume, OffSome, OffControl, coordVars, shared
  <1>3. /\ ctl' \in [at : ControlPc, then : ControlPc \cup {""}, again : BOOLEAN]
        /\ ctl'.at = "flush2" \/ (ctl'.at = "cancelling" /\ ctl'.then = "resumed")
    BY <1>1, GoFacts, ThenFacts DEF ControlPc
  <1>4. ControlTypes'
    BY <1>1, <1>2, <1>3, Types DEF ControlTypes
  <1>5. Past /\ ~Quiet' /\ ctl'.at \notin Closing
    BY <1>1, <1>3 DEF Past, Quiet, Closing, Cancelling
  <1>6. ControlInv'
    BY <1>1, <1>2, <1>3, <1>5, ControlKept DEF Cancelling
  <1>7. EndInv' /\ ClosedInv'
    BY <1>1, <1>2, <1>5, EndOpen
  <1> QED BY <1>4, <1>6, <1>7

(* A flush that is done, or has timed out, leaves the queue and the slots  *)
(* alone.                                                                  *)
LEMMA FlushSame ==
  ASSUME Flush \/ FlushTimeout
  PROVE  /\ FlushEnds(TRUE) \/ FlushEnds(FALSE)
         /\ UNCHANGED <<state, queue, drainOp, leases, asleep, pc>>
         /\ ops' \subseteq ops /\ box' \subseteq box
  BY DEF Flush, FlushTimeout

(* A flush only forgets operations, so the queue's types stay.             *)
LEMMA FlushTypes ==
  ASSUME IInv, Flush \/ FlushTimeout
  PROVE  QueueTypes'
  BY FlushSame, Types DEF FlushEnds, QueueTypes

(* A flush that is done, or has timed out, keeps the controller's parts of *)
(* the invariant.                                                          *)
LEMMA FlushControl ==
  ASSUME IInv, Flush \/ FlushTimeout
  PROVE  ControlTypes' /\ ControlInv' /\ EndInv' /\ ClosedInv'
  BY FlushSame, FlushEndMoves

(* What FlushFails does: the engine fails and the queue is drained.        *)
LEMMA FailsMoves ==
  ASSUME IInv, FlushFails
  PROVE  /\ FlushEnds(FALSE) /\ state' = Failed
         /\ Drained /\ leases' = leases \ DrainSet
         /\ queue' \in Seq(Request \cup {Stop}) /\ DrainSet \subseteq Request
         /\ asleep' = {} \/ (asleep' = asleep /\ ~HeadVisible')
         /\ UNCHANGED <<stopReq, closed, hidden, answer, tx, outcome, unresolved, coord,
                        reserved, watched, ledger, worker, mine, ops, box, history, faults>>
  <1>1. FlushEnds(FALSE) /\ state' = Failed /\ TakeDrained(DrainSet) /\ Release(DrainSet, pc)
        /\ UNCHANGED <<ops, box>>
    BY DEF FlushFails
  <1>2. UNCHANGED <<stopReq, closed, hidden, answer, tx, outcome, unresolved, coord,
                    reserved, watched, ledger, worker, mine, history, faults>>
    BY <1>1 DEF FlushEnds
  <1> QED BY <1>1, <1>2, TakeDrainedFacts, DrainFacts

(* FlushFails keeps the types of what its drain writes.                    *)
LEMMA FailsTypes ==
  ASSUME IInv, FlushFails
  PROVE  SharedTypes' /\ QueueTypes' /\ SubmitTypes' /\ WorkerTypes'
  <1>1. SharedTypes'
    BY FailsMoves, Types DEF SharedTypes, Failed, history
  <1>2. QueueTypes'
    BY FailsMoves, Types DEF QueueTypes, Drained
  <1>3. SubmitTypes'
    BY FailsMoves, Types DEF SubmitTypes, Drained
  <1>4. WorkerTypes'
    BY FailsMoves, Types DEF WorkerTypes
  <1> QED BY <1>1, <1>2, <1>3, <1>4

(* FlushFails keeps the controller's parts of the invariant: it never      *)
(* answers True.                                                           *)
LEMMA FailsControl ==
  ASSUME IInv, FlushFails
  PROVE  ControlTypes' /\ ControlInv' /\ EndInv' /\ ClosedInv'
  BY FailsMoves, FlushEndMoves

(* A drain may wake submitters, and changes nothing of what they have told *)
(* anyone.                                                                 *)
LEMMA DrainedSubmit ==
  ASSUME IInv, Drained, UNCHANGED <<answer, tx, outcome, unresolved, reserved, ledger>>
  PROVE  SubmitInv'
  <1>1. \A r \in Request : pc'[r] = pc[r] \/ (pc[r] = "asleep" /\ pc'[r] = "entered")
    BY DEF Drained
  <1>2. SubmitInv
    BY DEF IInv
  <1> QED BY <1>1, <1>2 DEF SubmitInv, Early

(* FlushFails says nothing for a submitter.                                *)
LEMMA FailsSubmit ==
  ASSUME IInv, FlushFails
  PROVE  SubmitInv'
  BY FailsMoves, DrainedSubmit

(* The drain of FlushFails takes no hidden request.                        *)
LEMMA FailsQueue ==
  ASSUME IInv, FlushFails
  PROVE  QueueInv'
  BY FailsMoves, DrainedQueue

(* The drain of FlushFails leaves the requests in the open drain.          *)
LEMMA FailsPlace ==
  ASSUME IInv, FlushFails
  PROVE  PlaceInv'
  BY FailsMoves, IdlyDrainedPlace DEF history

(* The drain of FlushFails gives back the slots of what it takes.          *)
LEMMA FailsLease ==
  ASSUME IInv, FlushFails
  PROVE  LeaseInv'
  BY FailsMoves, DrainedLease

(* The drain of FlushFails wakes the workers when something is left to     *)
(* take.                                                                   *)
LEMMA FailsSleep ==
  ASSUME IInv, FlushFails
  PROVE  SleepInv'
  <1>1. UNCHANGED <<worker, closed>> /\ (asleep' = {} \/ (asleep' = asleep /\ ~HeadVisible'))
    BY FailsMoves
  <1>2. \A v \in Worker : Taker(v)' = Taker(v)
    BY <1>1 DEF Taker
  <1>3. asleep \subseteq Worker
    BY Types DEF WorkerTypes
  <1> QED BY <1>1, <1>2, <1>3 DEF IInv, SleepInv

(* What WaitForSubmitters does, whether they all return or not.            *)
LEMMA WaitMoves ==
  ASSUME IInv, WaitForSubmitters
  PROVE  /\ ctl.at = "submitters" /\ (Go("stopping") \/ Then("cancelling", "stopping"))
         /\ state' \in {state, Failed} /\ ok' \in BOOLEAN
         /\ ok' => \A r \in Request : pc'[r] \in {"idle", "returned"}
         /\ UNCHANGED <<coord, ledger, snap, flushed, result, cancelOp, unloaded>>
  <1>1. /\ ctl.at = "submitters" /\ (Go("stopping") \/ Then("cancelling", "stopping"))
        /\ state' \in {state, Failed}
        /\ UNCHANGED <<coord, ledger, snap, flushed, result, cancelOp, unloaded>>
    BY DEF WaitForSubmitters
  <1>2. /\ ok' \in BOOLEAN
        /\ ok' => \A r \in Request : pc'[r] \in {"idle", "returned"}
    BY Types DEF WaitForSubmitters, ControlTypes
  <1> QED BY <1>1, <1>2

(* WaitForSubmitters goes on hoping for True only when nobody is in        *)
(* submit().                                                               *)
LEMMA WaitControl ==
  ASSUME IInv, WaitForSubmitters
  PROVE  ControlTypes' /\ ControlInv' /\ EndInv' /\ ClosedInv'
  <1>3. /\ ctl' \in [at : ControlPc, then : ControlPc \cup {""}, again : BOOLEAN]
        /\ ctl'.at = "stopping" \/ (ctl'.at = "cancelling" /\ ctl'.then = "stopping")
    BY WaitMoves, GoFacts, ThenFacts DEF ControlPc
  <1>4. ControlTypes'
    BY <1>3, WaitMoves, Types DEF ControlTypes
  <1>5. Past /\ ctl'.at \notin Closing \ {"stopping"}
    BY <1>3, WaitMoves DEF Past, Closing, Cancelling
  <1>6. ControlInv'
    BY <1>3, <1>5, WaitMoves, ControlKept DEF Cancelling
  <1>7. EndInv' /\ ClosedInv'
    BY <1>5, WaitMoves, EndOpen
  <1> QED BY <1>4, <1>6, <1>7

(* WaitForSubmitters moves no request.                                     *)
LEMMA WaitPlace ==
  ASSUME IInv, WaitForSubmitters
  PROVE  PlaceInv'
  <1>1. UNCHANGED <<queue, drainOp, ran, dropped, worker>>
    BY DEF WaitForSubmitters, queueVars, workerVars, history
  <1>2. \A r \in Request : pc[r] \notin Early => pc'[r] \notin Early
    BY ReleaseFacts DEF WaitForSubmitters, Early
  <1> QED BY <1>1, <1>2, SubmitPlace, QueueSame

(* A cancellation ends where it was to go on, or stays one.                *)
LEMMA CancelMoves ==
  ASSUME IInv, ctl.at \in Cancelling, UNCHANGED <<result, unloaded, coord, ledger, ok>>,
         state' \in {state, Failed},
         \A r \in Request : pc[r] \in {"idle", "returned"} => pc'[r] \in {"idle", "returned"},
         \/ ctl'.at = ctl.then
         \/ ctl'.at \in Cancelling /\ ctl'.then = ctl.then
  PROVE  ControlInv' /\ EndInv' /\ ClosedInv'
  <1>1. ctl.then \in {"closing", "resumed", "stopping"}
    BY DEF IInv, ControlInv
  <1>2. /\ ctl.at \notin {"created", "returned"} /\ ctl'.at \notin {"created", "returned"}
        /\ ctl'.at \notin Closing \ {"stopping"}
        /\ ctl'.at \in Cancelling => ctl'.then \in {"closing", "resumed", "stopping"}
    BY <1>1 DEF Cancelling, Closing
  <1>3. Past' => Past
    BY <1>1 DEF Past, Cancelling
  <1>4. Quiet' => Quiet
    BY <1>1 DEF Quiet, Cancelling, Closing
  <1>5. ok' /\ Quiet' => \A r \in Request : pc'[r] \in {"idle", "returned"}
    BY <1>4, StaysQuiet
  <1> QED BY <1>2, <1>3, <1>5, ControlKept, EndOpen

(* A cancellation knows where to go on.                                    *)
LEMMA ThenTyped ==
  ASSUME IInv, ctl.at \in Cancelling
  PROVE  ctl.then \in ControlPc
  BY DEF IInv, ControlInv, ControlPc

(* A cancellation that ends goes on at one of the controller's places.     *)
LEMMA RetireTypes ==
  ASSUME IInv, RetireCancel
  PROVE  ControlTypes'
  <1>1. cancelOp' \in [of : SUBSET Request, drain : BOOLEAN]
    BY DEF RetireCancel, RetireCancelled, NoCancel
  <1>2. UNCHANGED <<ctl, snap, flushed, ok, result, unloaded>>
    BY DEF RetireCancel
  <1> QED BY <1>1, <1>2, Types DEF ControlTypes

(* What CancelSubmit does: the failures are handed to the coordinator.     *)
LEMMA CancelSubmitMoves ==
  ASSUME IInv, CancelSubmit
  PROVE  /\ ctl.at = "submitting"
         /\ Go(ctl.then) \/ ctl' = [ctl EXCEPT !.at = "awaiting"]
         /\ state' \in {state, Failed}
         /\ \/ UNCHANGED box
            \/ \E st \in {"queued", "refused"} :
                 box' = box \cup {Handoff(Control, cancelOp.of, cancelOp.drain, st)}
         /\ UNCHANGED <<submitVars, coord, ledger, snap, flushed, ok, result, cancelOp, unloaded>>
  BY DEF CancelSubmit, Submits

(* CancelSubmit adds a handoff of the right type.                          *)
LEMMA CancelSubmitBox ==
  ASSUME IInv, CancelSubmit
  PROVE  BoxTypes'
  <1>1. ASSUME NEW st \in {"queued", "refused"}
        PROVE  Handoff(Control, cancelOp.of, cancelOp.drain, st) \in
                 [by : Worker \cup Request \cup {Control}, of : SUBSET Request,
                  drain : BOOLEAN, st : {"queued", "acked", "refused"}]
    BY Types DEF ControlTypes, Handoff
  <1> QED BY <1>1, CancelSubmitMoves, Types DEF BoxTypes

(* CancelSubmit keeps the controller's parts of the invariant: it goes on  *)
(* where the cancellation was told to, or waits.                           *)
LEMMA CancelSubmitControl ==
  ASSUME IInv, CancelSubmit
  PROVE  ControlTypes' /\ ControlInv' /\ EndInv' /\ ClosedInv'
  <1>1. /\ ctl.at \in Cancelling /\ "awaiting" \in ControlPc /\ "awaiting" \in Cancelling
        /\ ctl.then \in ControlPc
    BY CancelSubmitMoves, ThenTyped DEF Cancelling, ControlPc
  <1>2. /\ ctl' \in [at : ControlPc, then : ControlPc \cup {""}, again : BOOLEAN]
        /\ ctl'.at = ctl.then \/ (ctl'.at = "awaiting" /\ ctl'.then = ctl.then)
    BY <1>1, CancelSubmitMoves, GoFacts, AgainFacts
  <1>3. ControlTypes'
    BY <1>2, CancelSubmitMoves, Types DEF ControlTypes
  <1> QED BY <1>1, <1>2, <1>3, CancelSubmitMoves, CancelMoves DEF submitVars

(* The end of a cancellation, acknowledged or not, keeps the controller's  *)
(* parts of the invariant.                                                 *)
LEMMA CancelEndsControl ==
  ASSUME IInv, CancelEnds
  PROVE  ControlTypes' /\ ControlInv' /\ EndInv' /\ ClosedInv'
  <1>1. /\ ctl.at \in Cancelling /\ "cancelling" \in ControlPc /\ "cancelling" \in Cancelling
        /\ ctl.then \in ControlPc
    BY ThenTyped DEF CancelEnds, Cancelling, ControlPc
  <1>2. \/ ctl' = [ctl EXCEPT !.at = "cancelling", !.again = FALSE]
        \/ ctl' = At(ctl.then)
    BY DEF CancelEnds, Go
  <1>3. /\ ctl' \in [at : ControlPc, then : ControlPc \cup {""}, again : BOOLEAN]
        /\ ctl'.at = ctl.then \/ (ctl'.at = "cancelling" /\ ctl'.then = ctl.then)
    BY <1>1, <1>2, GoFacts, AgainFacts DEF Go
  <1>4. cancelOp' \in [of : SUBSET Request, drain : BOOLEAN]
    <2>1. cancelOp' = cancelOp \/ cancelOp' = NoCancel
      BY DEF CancelEnds, RetireCancelled
    <2>2. NoCancel \in [of : SUBSET Request, drain : BOOLEAN]
      BY DEF NoCancel
    <2> QED BY <2>1, <2>2, Types DEF ControlTypes
  <1>5. /\ state' \in {state, Failed}
        /\ UNCHANGED <<submitVars, coord, ledger, snap, flushed, ok, result, unloaded>>
    BY DEF CancelEnds
  <1>6. ControlTypes'
    BY <1>3, <1>4, <1>5, Types DEF ControlTypes
  <1> QED BY <1>1, <1>3, <1>5, <1>6, CancelMoves DEF submitVars

(* What Collect does: it drains the queue and claims the candidates that   *)
(* the workers hold.                                                       *)
LEMMA CollectMoves ==
  ASSUME IInv, Collect
  PROVE  /\ \E S \in SUBSET Request :
              /\ S = DrainSet \cup UNION {PendingOf(w) : w \in Worker}
              /\ leases' = leases \ S /\ dropped' = dropped \cup S
              /\ cancelOp' = [of |-> S, drain |-> DrainSet # {}]
         /\ Drained /\ asleep' \subseteq asleep
         /\ worker' = [w \in Worker |-> [worker[w] EXCEPT !.pend = None]]
         /\ ctl.at = "cancelling"
         /\ ctl' = At(ctl.then) \/ ctl' = [ctl EXCEPT !.at = "submitting"]
         /\ UNCHANGED <<shared, ops, answer, tx, outcome, unresolved, coordVars, mine,
                        snap, flushed, ok, result, unloaded, ran, faults>>
  <1> DEFINE S == DrainSet \cup UNION {PendingOf(w) : w \in Worker}
  <1>1. S \in SUBSET Request
    BY DrainType, Types DEF WorkerTypes, PendingOf
  <1>2. /\ TakeDrained(DrainSet) /\ Release(S, pc) /\ dropped' = dropped \cup S
        /\ UNCHANGED hidden
        /\ cancelOp' = [of |-> S, drain |-> DrainSet # {}]
        /\ ctl' = At(ctl.then) \/ ctl' = [ctl EXCEPT !.at = "submitting"]
    BY DEF Collect
  <1>3. /\ worker' = [w \in Worker |-> [worker[w] EXCEPT !.pend = None]]
        /\ ctl.at = "cancelling"
        /\ UNCHANGED <<shared, ops, answer, tx, outcome, unresolved, coordVars, mine,
                       snap, flushed, ok, result, unloaded, ran, faults>>
    BY DEF Collect
  <1> HIDE DEF S
  <1>4. Drained /\ leases' = leases \ S
    BY <1>2, TakeDrainedFacts
  <1>5. asleep' \subseteq asleep
    BY <1>2, DrainFacts
  <1> QED BY <1>1, <1>2, <1>3, <1>4, <1>5 DEF S

(* Collect takes candidates from workers, and moves none.                  *)
LEMMA CollectWorkers ==
  ASSUME IInv, Collect
  PROVE  /\ worker' \in WorkerFunctions
         /\ \A w \in Worker : /\ worker'[w].pc = worker[w].pc /\ worker'[w].pend = None
                              /\ worker'[w].owned = worker[w].owned
  <1>1. worker \in WorkerFunctions
    BY Types DEF WorkerTypes, WorkerFunctions
  <1>2. worker' = [w \in Worker |-> [worker[w] EXCEPT !.pend = None]]
    BY CollectMoves
  <1> QED BY <1>1, <1>2 DEF WorkerFunctions

(* Collect keeps the types of the shared fields and of the workers.        *)
LEMMA CollectTypes ==
  ASSUME IInv, Collect
  PROVE  SharedTypes' /\ WorkerTypes'
  <1>1. SharedTypes'
    BY CollectMoves, Types DEF SharedTypes, shared
  <1>2. WorkerTypes'
    BY CollectMoves, CollectWorkers, Types DEF WorkerTypes, WorkerFunctions
  <1> QED BY <1>1, <1>2

(* Collect keeps the controller's parts of the invariant.                  *)
LEMMA CollectControl ==
  ASSUME IInv, Collect
  PROVE  ControlTypes' /\ ControlInv' /\ EndInv' /\ ClosedInv'
  <1>1. /\ ctl.at \in Cancelling /\ "submitting" \in ControlPc /\ "submitting" \in Cancelling
        /\ ctl.then \in ControlPc
    BY CollectMoves, ThenTyped DEF Cancelling, ControlPc
  <1>3. /\ ctl' \in [at : ControlPc, then : ControlPc \cup {""}, again : BOOLEAN]
        /\ ctl'.at = ctl.then \/ (ctl'.at = "submitting" /\ ctl'.then = ctl.then)
    BY <1>1, CollectMoves, GoFacts, AgainFacts DEF Go
  <1>4. cancelOp' \in [of : SUBSET Request, drain : BOOLEAN]
    <2>1. PICK S \in SUBSET Request : cancelOp' = [of |-> S, drain |-> DrainSet # {}]
      BY CollectMoves
    <2> QED BY <2>1
  <1>5. /\ UNCHANGED <<state, coord, ledger, snap, flushed, ok, result, unloaded>>
        /\ \A r \in Request : pc[r] \in {"idle", "returned"} => pc'[r] \in {"idle", "returned"}
    BY CollectMoves DEF shared, coordVars, Drained
  <1>6. ControlTypes'
    BY <1>3, <1>4, <1>5, Types DEF ControlTypes
  <1> QED BY <1>1, <1>3, <1>5, <1>6, CancelMoves

(* The drain of a cancellation takes no hidden request.                    *)
LEMMA CollectQueue ==
  ASSUME IInv, Collect
  PROVE  QueueInv'
  BY CollectMoves, DrainedQueue

(* What Collect takes from the queue and from the workers is dropped and   *)
(* no longer there, so that no worker runs it.                             *)
LEMMA CollectPlace ==
  ASSUME IInv, Collect
  PROVE  PlaceInv'
  <1> DEFINE P == UNION {PendingOf(w) : w \in Worker}
  <1>1. \A r \in P : \E v \in Worker : r \in Hands(v)
    BY DEF Hands
  <1>2. \A v \in Worker : Own(v)' = Own(v) /\ PendingOf(v)' = {}
    BY CollectWorkers DEF Own, PendingOf
  <1>3. \A v, w \in Worker : Own(v) \cap PendingOf(w) = {}
    BY DEF IInv, PlaceInv, Hands
  <1>4. \A v \in Worker : Hands(v)' \subseteq Hands(v) \ P /\ Own(v)' \cap PendingOf(v)' = {}
    BY <1>2, <1>3 DEF Hands
  <1>5. dropped' \subseteq dropped \cup P \cup DrainSet /\ UNCHANGED ran /\ Drained
    BY CollectMoves
  <1> HIDE DEF P
  <1> QED BY <1>1, <1>4, <1>5, DrainedPlace

(* Collect gives back the slots of everything it takes.                    *)
LEMMA CollectLease ==
  ASSUME IInv, Collect
  PROVE  LeaseInv'
  <1>1. PICK S \in SUBSET Request : /\ S = DrainSet \cup UNION {PendingOf(w) : w \in Worker}
                                    /\ leases' = leases \ S
    BY CollectMoves
  <1>2. Drained /\ UNCHANGED unresolved /\ \A r \in DrainSet : r \in S
    BY <1>1, CollectMoves
  <1>3. SUFFICES ASSUME NEW r \in leases, r \notin S
                 PROVE  \/ pc'[r] \in {"leased", "reserved", "rejecting", "raising"}
                        \/ r \in Queued' \cup unresolved
                        \/ \E v \in Worker :
                             \/ worker'[v].pc = "dequeued" /\ r \in worker'[v].owned
                             \/ worker'[v].pc = "candidate" /\ r = worker'[v].pend
    BY <1>1, <1>2 DEF LeaseInv
  <1>4. r \in Request
    BY Types DEF QueueTypes
  <1>5. pc[r] \in {"leased", "reserved", "rejecting", "raising"} => pc'[r] = pc[r]
    BY <1>2, <1>4 DEF Drained
  <1>6. r \in Queued => r \in Queued'
    BY <1>2, <1>3 DEF Drained
  <1>7. \A v \in Worker : r # worker[v].pend
    BY <1>1, <1>3, <1>4, EngineAssumption DEF PendingOf
  <1> QED BY <1>5, <1>6, <1>7, CollectWorkers DEF IInv, LeaseInv

(* PlaceStop keeps what shutdown() has seen so far.                        *)
LEMMA PlaceStopEnd ==
  ASSUME IInv, PlaceStop
  PROVE  EndInv'
  <1>1. ctl.at = "placing" /\ ctl'.at = "sealing" /\ (ok' = ok \/ ok' = FALSE)
    BY GoFacts DEF PlaceStop
  <1>2. UNCHANGED <<result, unloaded, pc>>
    BY DEF PlaceStop, OffStop, submitVars
  <1>3. Quiet
    BY <1>1 DEF Quiet, Closing
  <1>4. ctl'.at \notin {"finishing", "joining", "telling", "ending"} /\ result' = "none"
        /\ unloaded' = FALSE
    BY <1>1, <1>2, NoResult
  <1>5. ok' => \A r \in Request : pc'[r] \in {"idle", "returned"}
    BY <1>1, <1>2, <1>3, StaysQuiet
  <1> QED BY <1>4, <1>5 DEF EndInv

(* Finish answers True only for what it has seen: no submitter, no worker, *)
(* the coordinator stopped, no slot held.                                  *)
LEMMA FinishEnd ==
  ASSUME IInv, Finish
  PROVE  EndInv'
  <1>1. /\ ctl.at = "finishing" /\ ctl'.at = "returned" /\ ctl'.then = ""
        /\ result' = (IF ok /\ Settled THEN "true" ELSE "false")
        /\ UNCHANGED <<worker, coord, reserved, unresolved, unloaded>>
    BY GoFacts DEF Finish, workerVars, coordVars
  <1>2. unloaded' = FALSE
    BY <1>1, NoResult
  <1>3. ~Quiet' /\ ctl'.at \notin {"finishing", "joining", "telling", "ending"}
    BY <1>1 DEF Quiet, Closing, Cancelling
  <1>4. ASSUME ok /\ Settled
        PROVE  /\ \A r \in Request : pc'[r] \in {"idle", "returned"}
               /\ coord = "stopped" /\ reserved = {} /\ unresolved = {} /\ leases' = {}
               /\ \A w \in Worker : Gone(w)
    <2>1. \A r \in Request : pc[r] \in {"idle", "returned"}
      BY <1>1, <1>4, StaysQuiet DEF Quiet, Closing
    <2>2. \A r \in Request : pc'[r] \in {"idle", "returned"}
      BY <2>1, FinishDrained DEF Drained
    <2>3. /\ coord = "stopped" /\ reserved = {} /\ unresolved = {} /\ Queued = {}
          /\ \A w \in Worker : Gone(w)
      BY <1>1, <1>4 DEF IInv, EndInv, Settled
    <2>4. leases = {}
      <3>1. ASSUME NEW r \in leases PROVE FALSE
        <4>1. r \in Request
          BY Types DEF QueueTypes
        <4>2. \/ pc[r] \in {"leased", "reserved", "rejecting", "raising"}
              \/ \E w \in Worker : worker[w].pc \in {"dequeued", "candidate"}
          BY <2>3 DEF IInv, LeaseInv
        <4> QED BY <2>1, <2>3, <4>1, <4>2 DEF Gone
      <3> QED BY <3>1
    <2> QED BY <2>2, <2>3, <2>4, FinishDrained
  <1>5. \A w \in Worker : Gone(w)' = Gone(w)
    BY <1>1, SameHands
  <1> QED BY <1>1, <1>2, <1>3, <1>4, <1>5 DEF EndInv

(* The queue is closed in Finish, so that nobody sleeps.                   *)
LEMMA FinishSleep ==
  ASSUME IInv, Finish
  PROVE  SleepInv'
  <1>1. asleep' = {} /\ UNCHANGED worker
    BY DEF Finish, workerVars, IInv, ClosedInv, SleepInv
  <1> QED BY <1>1 DEF SleepInv

(* Dequeued leaves the request with its worker.                            *)
LEMMA DequeuedPlace ==
  ASSUME IInv, NEW w \in Worker, Dequeued(w)
  PROVE  PlaceInv'
  <1>1. UNCHANGED <<queue, drainOp, ran, dropped>>
    BY DEF Dequeued, queueVars, history
  <1>2. \A r \in Request : pc[r] \notin Early => pc'[r] \notin Early
    BY ReleaseFacts DEF Dequeued, Early
  <1>3. /\ Others(w) /\ worker[w].pc = "dequeued" /\ worker'[w].pc \in {"batching", "crashed"}
        /\ worker'[w].owned = worker[w].owned /\ worker'[w].pend = worker[w].pend
    BY ToFacts DEF Dequeued, Is, WorkerPc
  <1>4. Own(w)' \subseteq Own(w) /\ PendingOf(w)' = PendingOf(w)
    BY <1>3 DEF Own, PendingOf
  <1>5. Hands(w)' \subseteq Hands(w)
    BY <1>4 DEF Hands
  <1>6. \A v \in Worker \ {w} : /\ Hands(v)' = Hands(v) /\ Own(v)' = Own(v)
                                /\ PendingOf(v)' = PendingOf(v)
    BY <1>3 DEF Others, Hands, Own, PendingOf
  <1>7. \A v \in Worker : Own(v)' \cap PendingOf(v)' = {}
    BY <1>4, <1>6 DEF IInv, PlaceInv
  <1> QED BY <1>1, <1>2, <1>5, <1>6, <1>7, PlaceTaken, QueueSame

-----------------------------------------------------------------------------
(* One lemma per action: it preserves the invariant.                       *)

(* A part of the invariant depends on no other variables than these.       *)
LEMMA Frame ==
  ASSUME IInv
  PROVE  /\ UNCHANGED <<state, stopReq, closed, ran, dropped, faults>> => SharedTypes'
         /\ UNCHANGED <<queue, hidden, drainOp, ops, leases>> => QueueTypes'
         /\ UNCHANGED <<pc, answer, tx, outcome, unresolved>> => SubmitTypes'
         /\ UNCHANGED <<coord, reserved, watched, ledger>> => CoordTypes'
         /\ UNCHANGED <<box>> => BoxTypes'
         /\ UNCHANGED <<worker, asleep, mine>> => WorkerTypes'
         /\ UNCHANGED <<ctl, snap, flushed, ok, result, cancelOp, unloaded>> => ControlTypes'
         /\ UNCHANGED <<pc, answer, tx, outcome, unresolved, reserved, ledger>> => SubmitInv'
         /\ UNCHANGED <<state, pc, outcome>> => CutInv'
         /\ UNCHANGED <<state, pc, coord, ledger, worker, asleep, ctl, result>> => ControlInv'
         /\ UNCHANGED <<closed, ctl>> => ClosedInv'
         /\ UNCHANGED <<leases, pc, unresolved, coord, reserved, worker, ctl, flushed, ok, result, unloaded>> => EndInv'
         /\ UNCHANGED <<queue, hidden, drainOp, pc>> => QueueInv'
         /\ UNCHANGED <<queue, drainOp, pc, worker, ran, dropped>> => PlaceInv'
         /\ UNCHANGED <<worker>> => TopInv'
         /\ UNCHANGED <<queue, leases, pc, unresolved, worker>> => LeaseInv'
         /\ UNCHANGED <<closed, queue, hidden, worker, asleep>> => SleepInv'
  <1>1. UNCHANGED <<state, stopReq, closed, ran, dropped, faults>> => SharedTypes'
    BY Types DEF SharedTypes
  <1>2. UNCHANGED <<queue, hidden, drainOp, ops, leases>> => QueueTypes'
    BY Types DEF QueueTypes
  <1>3. UNCHANGED <<pc, answer, tx, outcome, unresolved>> => SubmitTypes'
    BY Types DEF SubmitTypes
  <1>4. UNCHANGED <<coord, reserved, watched, ledger>> => CoordTypes'
    BY Types DEF CoordTypes
  <1>5. UNCHANGED <<box>> => BoxTypes'
    BY Types DEF BoxTypes
  <1>6. UNCHANGED <<worker, asleep, mine>> => WorkerTypes'
    BY Types DEF WorkerTypes
  <1>7. UNCHANGED <<ctl, snap, flushed, ok, result, cancelOp, unloaded>> => ControlTypes'
    BY Types DEF ControlTypes
  <1>8. UNCHANGED <<pc, answer, tx, outcome, unresolved, reserved, ledger>> => SubmitInv'
    BY DEF SubmitInv, Early, Pending, IInv
  <1>9. UNCHANGED <<state, pc, outcome>> => CutInv'
    BY DEF CutInv, Past, IInv
  <1>10. UNCHANGED <<state, pc, coord, ledger, worker, asleep, ctl, result>> => ControlInv'
    BY DEF ControlInv, Past, Cancelling, Pending, Idle, IInv
  <1>11. UNCHANGED <<closed, ctl>> => ClosedInv'
    BY DEF ClosedInv, Cancelling, IInv
  <1>12. UNCHANGED <<leases, pc, unresolved, coord, reserved, worker, ctl, flushed, ok, result, unloaded>> => EndInv'
    BY DEF EndInv, Quiet, Closing, Cancelling, Gone, IInv
  <1>13. UNCHANGED <<queue, hidden, drainOp, pc>> => QueueInv'
    BY QueueSame DEF QueueInv, Early, IInv
  <1>14. UNCHANGED <<queue, drainOp, pc, worker, ran, dropped>> => PlaceInv'
    BY QueueSame DEF PlaceInv, Own, Hands, PendingOf, Early, IInv
  <1>15. UNCHANGED <<worker>> => TopInv'
    BY DEF TopInv, IInv
  <1>16. UNCHANGED <<queue, leases, pc, unresolved, worker>> => LeaseInv'
    BY QueueSame DEF LeaseInv, IInv
  <1>17. UNCHANGED <<closed, queue, hidden, worker, asleep>> => SleepInv'
    BY QueueSame DEF SleepInv, Taker, IInv
  <1> QED BY <1>1, <1>2, <1>3, <1>4, <1>5, <1>6, <1>7, <1>8, <1>9, <1>10,
     <1>11, <1>12, <1>13, <1>14, <1>15, <1>16, <1>17

(* The parts make up the invariant.                                         *)
LEMMA Kept ==
  ASSUME SharedTypes', QueueTypes', SubmitTypes', CoordTypes', BoxTypes',
            WorkerTypes', ControlTypes', SubmitInv', CutInv', ControlInv',
            ClosedInv', EndInv', QueueInv', PlaceInv', TopInv', LeaseInv',
            SleepInv'
  PROVE  IInv'
  BY DEF IInv, TypeOK, SharedTypes, QueueTypes, SubmitTypes, CoordTypes, BoxTypes,
         WorkerTypes, ControlTypes

(* submit() is entered, or refuses an engine that is not running.          *)
LEMMA EnterStep ==
  ASSUME IInv, NEW r \in Request, Enter(r)
  PROVE  IInv'
  <1>1. SharedTypes' /\ QueueTypes' /\ CoordTypes' /\ BoxTypes' /\ WorkerTypes' /\
        ControlTypes' /\ ClosedInv' /\ TopInv' /\ SleepInv'
    BY Frame DEF Enter, shared, queueVars, coordVars, workerVars, controlVars,
       history
  <1>2. SubmitTypes'
    BY Types DEF Enter, SubmitTypes, SubmitPc
  <1>3. SubmitInv'
    BY PcTyped DEF Enter, coordVars, IInv, SubmitInv, Early, Pending
  <1>4. CutInv'
    BY PcTyped DEF Enter, shared, IInv, CutInv, Past
  <1>5. ControlInv'
    BY DEF Enter, shared, coordVars, workerVars, controlVars, IInv,
       ControlInv, Past, Cancelling, Pending, Idle
  <1>6. QueueInv'
    BY QueueSame, PcTyped DEF Enter, queueVars, IInv, QueueInv, Early
  <1>7. LeaseInv'
    BY QueueSame, PcTyped, WorkerTyped, SetsTyped DEF Enter, queueVars,
       workerVars, IInv, LeaseInv
  <1>8. EndInv'
    BY EnterEnd
  <1>9. PlaceInv'
    BY EnterPlace
  <1> QED BY <1>1, <1>2, <1>3, <1>4, <1>5, <1>6, <1>7, <1>8, <1>9, Kept

(* submit() gets a slot.                                                   *)
LEMMA AcquireStep ==
  ASSUME IInv, NEW r \in Request, Acquire(r)
  PROVE  IInv'
  <1>1. SharedTypes' /\ CoordTypes' /\ BoxTypes' /\ WorkerTypes' /\ ControlTypes'
        /\ ClosedInv' /\ TopInv' /\ SleepInv'
    BY Frame DEF Acquire, shared, queueVars, coordVars, workerVars,
       controlVars, history
  <1>2. QueueTypes'
    BY Types DEF Acquire, queueVars, QueueTypes
  <1>3. SubmitTypes'
    BY Types DEF Acquire, SubmitTypes, SubmitPc
  <1>4. SubmitInv'
    BY DEF Acquire, coordVars, IInv, SubmitInv, Early, Pending
  <1>5. CutInv'
    BY DEF Acquire, shared, IInv, CutInv, Past
  <1>6. ControlInv'
    BY DEF Acquire, shared, coordVars, workerVars, controlVars, IInv,
       ControlInv, Past, Cancelling, Pending, Idle
  <1>7. EndInv'
    BY DEF Acquire, coordVars, workerVars, controlVars, IInv, EndInv, Quiet,
       Closing, Cancelling, Gone
  <1>8. QueueInv'
    BY QueueSame DEF Acquire, queueVars, IInv, QueueInv, Early
  <1>9. PlaceInv'
    BY QueueSame DEF Acquire, queueVars, workerVars, history, IInv, PlaceInv,
       Own, Hands, PendingOf, Early
  <1>10. LeaseInv'
    BY QueueSame, PcTyped DEF Acquire, queueVars, workerVars, IInv,
       LeaseInv
  <1> QED BY <1>1, <1>2, <1>3, <1>4, <1>5, <1>6, <1>7, <1>8, <1>9, <1>10, Kept

(* submit() waits for a slot.                                              *)
LEMMA SleepForSlotStep ==
  ASSUME IInv, NEW r \in Request, SleepForSlot(r)
  PROVE  IInv'
  <1>1. SharedTypes' /\ QueueTypes' /\ CoordTypes' /\ BoxTypes' /\ WorkerTypes' /\
        ControlTypes' /\ ClosedInv' /\ TopInv' /\ SleepInv'
    BY Frame DEF SleepForSlot, shared, queueVars, coordVars, workerVars,
       controlVars, history
  <1>2. SubmitTypes'
    BY Types DEF SleepForSlot, SubmitTypes, SubmitPc
  <1>3. SubmitInv'
    BY DEF SleepForSlot, coordVars, IInv, SubmitInv, Early, Pending
  <1>4. CutInv'
    BY DEF SleepForSlot, shared, IInv, CutInv, Past
  <1>5. ControlInv'
    BY DEF SleepForSlot, shared, coordVars, workerVars, controlVars, IInv,
       ControlInv, Past, Cancelling, Pending, Idle
  <1>6. EndInv'
    BY DEF SleepForSlot, coordVars, workerVars, controlVars, IInv, EndInv,
       Quiet, Closing, Cancelling, Gone
  <1>7. QueueInv'
    BY QueueSame DEF SleepForSlot, queueVars, IInv, QueueInv, Early
  <1>8. PlaceInv'
    BY QueueSame DEF SleepForSlot, queueVars, workerVars, history, IInv,
       PlaceInv, Own, Hands, PendingOf, Early
  <1>9. LeaseInv'
    BY QueueSame DEF SleepForSlot, queueVars, workerVars, IInv, LeaseInv
  <1> QED BY <1>1, <1>2, <1>3, <1>4, <1>5, <1>6, <1>7, <1>8, <1>9, Kept

(* submit() answers False without a slot.                                  *)
LEMMA RejectEarlyStep ==
  ASSUME IInv, NEW r \in Request, RejectEarly(r)
  PROVE  IInv'
  <1>1. SharedTypes' /\ QueueTypes' /\ CoordTypes' /\ BoxTypes' /\ WorkerTypes' /\
        ControlTypes' /\ ClosedInv' /\ TopInv' /\ SleepInv'
    BY Frame DEF RejectEarly, shared, queueVars, coordVars, workerVars,
       controlVars, history
  <1>2. SubmitTypes'
    BY Types DEF RejectEarly, SubmitTypes, SubmitPc
  <1>3. SubmitInv'
    BY PcTyped DEF RejectEarly, coordVars, IInv, SubmitInv, Early, Pending
  <1>4. CutInv'
    BY DEF RejectEarly, shared, IInv, CutInv, Past
  <1>5. ControlInv'
    BY DEF RejectEarly, shared, coordVars, workerVars, controlVars, IInv,
       ControlInv, Past, Cancelling, Pending, Idle
  <1>6. EndInv'
    BY DEF RejectEarly, coordVars, workerVars, controlVars, IInv, EndInv,
       Quiet, Closing, Cancelling, Gone
  <1>7. QueueInv'
    BY QueueSame DEF RejectEarly, queueVars, IInv, QueueInv, Early
  <1>8. PlaceInv'
    BY QueueSame DEF RejectEarly, queueVars, workerVars, history, IInv,
       PlaceInv, Own, Hands, PendingOf, Early
  <1>9. LeaseInv'
    BY QueueSame DEF RejectEarly, queueVars, workerVars, IInv, LeaseInv
  <1> QED BY <1>1, <1>2, <1>3, <1>4, <1>5, <1>6, <1>7, <1>8, <1>9, Kept

(* submit() registers with the coordinator.                                *)
LEMMA ReserveStep ==
  ASSUME IInv, NEW r \in Request, Reserve(r)
  PROVE  IInv'
  <1>1. SharedTypes' /\ QueueTypes' /\ BoxTypes' /\ WorkerTypes' /\ ControlTypes'
        /\ ClosedInv' /\ TopInv' /\ SleepInv'
    BY Frame DEF Reserve, shared, queueVars, workerVars, controlVars, history
  <1>2. SubmitTypes'
    BY Types DEF Reserve, SubmitTypes, SubmitPc
  <1>3. CoordTypes'
    BY Types DEF Reserve, CoordTypes, Pending
  <1>4. SubmitInv'
    BY PcTyped DEF Reserve, IInv, SubmitInv, Early, Pending
  <1>5. ControlInv'
    BY DEF Reserve, shared, workerVars, controlVars, IInv, ControlInv, Past,
       Cancelling, Pending, Idle
  <1>6. EndInv'
    BY DEF Reserve, workerVars, controlVars, IInv, EndInv, Quiet, Closing,
       Cancelling, Gone
  <1>7. QueueInv'
    BY QueueSame DEF Reserve, queueVars, IInv, QueueInv, Early
  <1>8. PlaceInv'
    BY QueueSame DEF Reserve, queueVars, workerVars, history, IInv, PlaceInv,
       Own, Hands, PendingOf, Early
  <1>9. LeaseInv'
    BY QueueSame DEF Reserve, queueVars, workerVars, IInv, LeaseInv
  <1>10. CutInv'
    BY ReserveCut
  <1> QED BY <1>1, <1>2, <1>3, <1>4, <1>5, <1>6, <1>7, <1>8, <1>9, <1>10, Kept

(* submit() finds the engine closed, or its preflight fails.               *)
LEMMA RefusedStep ==
  ASSUME IInv, NEW r \in Request, Refused(r)
  PROVE  IInv'
  <1>1. QueueTypes' /\ CoordTypes' /\ BoxTypes' /\ WorkerTypes' /\ ControlTypes'
        /\ ClosedInv' /\ TopInv' /\ SleepInv'
    BY Frame DEF Refused, Reject, queueVars, coordVars, workerVars,
       controlVars
  <1>2. SubmitTypes'
    BY Types DEF Refused, Reject, Journal, SubmitTypes, SubmitPc
  <1>3. SubmitInv'
    BY PcTyped DEF Refused, Reject, Journal, coordVars, IInv, SubmitInv,
       Early, Pending
  <1>4. CutInv'
    BY PcTyped DEF Refused, Reject, Failed, Journal, IInv, CutInv, Past
  <1>5. ControlInv'
    BY DEF Refused, Reject, Failed, coordVars, workerVars, controlVars, IInv,
       ControlInv, Past, Cancelling, Pending, Idle
  <1>6. EndInv'
    BY DEF Refused, Reject, coordVars, workerVars, controlVars, IInv, EndInv,
       Quiet, Closing, Cancelling, Gone
  <1>7. QueueInv'
    BY QueueSame, PcTyped DEF Refused, Reject, queueVars, IInv, QueueInv,
       Early
  <1>8. PlaceInv'
    BY QueueSame, PcTyped, WorkerTyped, SetsTyped DEF Refused, Reject,
       queueVars, workerVars, history, IInv, PlaceInv, Own, Hands, PendingOf,
       Early
  <1>9. LeaseInv'
    BY QueueSame, PcTyped, WorkerTyped, SetsTyped DEF Refused, Reject,
       queueVars, workerVars, IInv, LeaseInv
  <1>10. SharedTypes'
    BY RefusedTypes
  <1> QED BY <1>1, <1>2, <1>3, <1>4, <1>5, <1>6, <1>7, <1>8, <1>9, <1>10, Kept

(* submit() accepts the request.                                           *)
LEMMA PublishStep ==
  ASSUME IInv, NEW r \in Request, Publish(r)
  PROVE  IInv'
  <1>1. SharedTypes' /\ BoxTypes' /\ WorkerTypes' /\ ControlTypes' /\ ClosedInv'
        /\ TopInv'
    BY Frame DEF Publish, Append1, shared, workerVars, controlVars, history
  <1>2. QueueTypes'
    BY Types, PublishFacts DEF Publish, Append1, QueueTypes
  <1>3. CoordTypes'
    BY Types DEF Publish, CoordTypes, Pending
  <1>4. CutInv'
    BY DEF Publish, Journal, shared, IInv, CutInv, Past
  <1>5. QueueInv'
    BY PublishFacts, QueueSame, PcTyped DEF Publish, Append1, IInv,
       QueueInv, Early
  <1>6. LeaseInv'
    BY PublishFacts, QueueSame DEF Publish, Append1, workerVars, IInv,
       LeaseInv
  <1>7. SleepInv'
    BY PublishFacts, QueueSame DEF Publish, Append1, shared, workerVars, IInv,
       SleepInv, Taker
  <1>8. SubmitTypes'
    BY PublishTypes
  <1>9. SubmitInv'
    BY PublishSubmit
  <1>10. ControlInv'
    BY PublishControl
  <1>11. EndInv'
    BY PublishEnd
  <1>12. PlaceInv'
    BY PublishPlace
  <1> QED BY <1>1, <1>2, <1>3, <1>4, <1>5, <1>6, <1>7, <1>8, <1>9, <1>10,
     <1>11, <1>12, Kept

(* The acceptance raises half-way.                                         *)
LEMMA PublishRaisesStep ==
  ASSUME IInv, NEW r \in Request, PublishRaises(r)
  PROVE  IInv'
  <1>1. CoordTypes' /\ BoxTypes' /\ WorkerTypes' /\ ControlTypes' /\ ClosedInv' /\
        TopInv'
    BY Frame DEF PublishRaises, coordVars, workerVars, controlVars
  <1>2. SharedTypes'
    BY Types, EngineAssumption, DrainType DEF PublishRaises, Fault, Failed,
       history, SharedTypes, QueueTypes, SubmitTypes, CoordTypes, BoxTypes,
       WorkerTypes, NoCancel, RetireCancelled, SubmitPc, Pending, WorkerPc
  <1>3. QueueTypes'
    BY Types, PublishFacts DEF PublishRaises, QueueTypes
  <1>4. SubmitTypes'
    BY Types DEF PublishRaises, Journal, SubmitTypes, SubmitPc
  <1>5. CutInv'
    BY PcTyped DEF PublishRaises, Journal, Failed, IInv, CutInv, Past
  <1>6. ControlInv'
    BY DEF PublishRaises, Failed, coordVars, workerVars, controlVars, IInv,
       ControlInv, Past, Cancelling, Pending, Idle
  <1>7. EndInv'
    BY DEF PublishRaises, coordVars, workerVars, controlVars, IInv, EndInv,
       Quiet, Closing, Cancelling, Gone
  <1>8. QueueInv'
    BY PublishFacts, QueueSame, PcTyped DEF PublishRaises, IInv, QueueInv,
       Early
  <1>9. LeaseInv'
    BY PublishFacts, QueueSame, PcTyped, WorkerTyped, SetsTyped DEF
       PublishRaises, workerVars, IInv, LeaseInv
  <1>10. SleepInv'
    BY PublishFacts, QueueSame DEF PublishRaises, workerVars, IInv, SleepInv,
       Taker
  <1>11. SubmitInv'
    BY RaisesSubmit
  <1>12. PlaceInv'
    BY RaisesPlace
  <1> QED BY <1>1, <1>2, <1>3, <1>4, <1>5, <1>6, <1>7, <1>8, <1>9, <1>10,
     <1>11, <1>12, Kept

(* The submission that raised is recovered, or given up.                   *)
LEMMA RecoverStep ==
  ASSUME IInv, NEW r \in Request, Recover(r)
  PROVE  IInv'
  <1>1. ControlTypes' /\ ClosedInv' /\ TopInv'
    BY Frame DEF Recover, controlVars
  <1>2. SharedTypes'
    BY Types DEF Recover, Failed, history, SharedTypes
  <1>3. QueueTypes'
    BY Types DEF Recover, QueueTypes
  <1>4. SubmitTypes'
    BY Types DEF Recover, SubmitTypes, SubmitPc
  <1>5. CoordTypes'
    BY Types DEF Recover, CoordTypes, Pending
  <1>6. WorkerTypes'
    BY Types DEF Recover, WakeOne, WorkerTypes, WorkerPc
  <1>7. SubmitInv'
    BY ZenonT(40), PcTyped DEF Recover, IInv, SubmitInv, Early, Pending
  <1>8. CutInv'
    BY PcTyped DEF Recover, Failed, IInv, CutInv, Past
  <1>9. ControlInv'
    BY DEF Recover, WakeOne, Failed, controlVars, IInv, ControlInv, Past,
       Cancelling, Pending, Idle
  <1>10. EndInv'
    BY DEF Recover, controlVars, IInv, EndInv, Quiet, Closing, Cancelling,
       Gone
  <1>11. QueueInv'
    BY QueueSame, PcTyped DEF Recover, IInv, QueueInv, Early
  <1>12. PlaceInv'
    BY QueueSame DEF Recover, history, IInv, PlaceInv, Own, Hands, PendingOf,
       Early
  <1>13. LeaseInv'
    BY ZenonT(40), QueueSame, PcTyped, WorkerTyped, SetsTyped DEF Recover, IInv,
       LeaseInv
  <1>14. BoxTypes'
    BY RecoverTypes
  <1>15. SleepInv'
    BY RecoverSleep
  <1> QED BY <1>1, <1>2, <1>3, <1>4, <1>5, <1>6, <1>7, <1>8, <1>9, <1>10,
     <1>11, <1>12, <1>13, <1>14, <1>15, Kept

(* submit() shows the request to the workers and answers True.             *)
LEMMA CompleteStep ==
  ASSUME IInv, NEW r \in Request, Complete(r)
  PROVE  IInv'
  <1>1. SharedTypes' /\ CoordTypes' /\ BoxTypes' /\ ControlTypes' /\ ClosedInv' /\
        TopInv'
    BY Frame DEF Complete, shared, coordVars, controlVars, history
  <1>2. QueueTypes'
    BY Types, CompleteFacts DEF Complete, QueueTypes
  <1>3. SubmitTypes'
    BY Types, CompleteFacts DEF Complete, SubmitTypes, SubmitPc
  <1>4. WorkerTypes'
    BY Types, CompleteFacts DEF Complete, WakeOne, WakeAllIf, WorkerTypes,
       WorkerPc
  <1>5. CutInv'
    BY CompleteFacts DEF Complete, shared, IInv, CutInv, Past
  <1>6. ControlInv'
    BY CompleteFacts DEF Complete, WakeOne, WakeAllIf, shared, coordVars,
       controlVars, IInv, ControlInv, Past, Cancelling, Pending, Idle
  <1>7. EndInv'
    BY CompleteFacts DEF Complete, coordVars, controlVars, IInv, EndInv,
       Quiet, Closing, Cancelling, Gone
  <1>8. QueueInv'
    BY CompleteFacts, QueueSame DEF Complete, IInv, QueueInv, Early
  <1>9. SleepInv'
    BY CompleteFacts, QueueSame, WorkerTyped, SetsTyped DEF Complete, WakeOne,
       WakeAllIf, shared, IInv, SleepInv, Taker
  <1>10. SubmitInv'
    BY CompleteSubmit
  <1>11. PlaceInv'
    BY CompletePlace
  <1>12. LeaseInv'
    BY CompleteLease
  <1> QED BY <1>1, <1>2, <1>3, <1>4, <1>5, <1>6, <1>7, <1>8, <1>9, <1>10,
     <1>11, <1>12, Kept

(* submit() cannot show the request in time.                               *)
LEMMA CompleteTimeoutStep ==
  ASSUME IInv, NEW r \in Request, CompleteTimeout(r)
  PROVE  IInv'
  <1>1. QueueTypes' /\ CoordTypes' /\ BoxTypes' /\ WorkerTypes' /\ ControlTypes'
        /\ ClosedInv' /\ TopInv' /\ SleepInv'
    BY Frame DEF CompleteTimeout, queueVars, coordVars, workerVars,
       controlVars
  <1>2. SharedTypes'
    BY Types DEF CompleteTimeout, Failed, history, SharedTypes
  <1>3. SubmitTypes'
    BY Types DEF CompleteTimeout, SubmitTypes, SubmitPc
  <1>4. SubmitInv'
    BY PcTyped DEF CompleteTimeout, coordVars, IInv, SubmitInv, Early,
       Pending
  <1>5. CutInv'
    BY DEF CompleteTimeout, Failed, IInv, CutInv, Past
  <1>6. ControlInv'
    BY DEF CompleteTimeout, Failed, coordVars, workerVars, controlVars, IInv,
       ControlInv, Past, Cancelling, Pending, Idle
  <1>7. EndInv'
    BY DEF CompleteTimeout, coordVars, workerVars, controlVars, IInv, EndInv,
       Quiet, Closing, Cancelling, Gone
  <1>8. QueueInv'
    BY QueueSame DEF CompleteTimeout, queueVars, IInv, QueueInv, Early
  <1>9. PlaceInv'
    BY QueueSame DEF CompleteTimeout, queueVars, workerVars, history, IInv,
       PlaceInv, Own, Hands, PendingOf, Early
  <1>10. LeaseInv'
    BY QueueSame DEF CompleteTimeout, queueVars, workerVars, IInv, LeaseInv
  <1> QED BY <1>1, <1>2, <1>3, <1>4, <1>5, <1>6, <1>7, <1>8, <1>9, <1>10, Kept

(* submit() undoes what it reserved for a rejected request.                *)
LEMMA UndoStep ==
  ASSUME IInv, NEW r \in Request, Undo(r)
  PROVE  IInv'
  <1>1. SharedTypes' /\ BoxTypes' /\ WorkerTypes' /\ ControlTypes' /\ ClosedInv'
        /\ TopInv' /\ SleepInv'
    BY Frame DEF Undo, shared, queueVars, workerVars, controlVars, history
  <1>2. QueueTypes'
    BY Types, UndoFacts DEF Undo, queueVars, QueueTypes
  <1>3. SubmitTypes'
    BY Types, UndoFacts DEF Undo, SubmitTypes, SubmitPc
  <1>4. CoordTypes'
    BY Types DEF Undo, CoordTypes, Pending
  <1>5. CutInv'
    BY UndoFacts DEF Undo, shared, IInv, CutInv, Past
  <1>6. ControlInv'
    BY UndoFacts DEF Undo, shared, workerVars, controlVars, IInv, ControlInv,
       Past, Cancelling, Pending, Idle
  <1>7. EndInv'
    BY UndoFacts DEF Undo, workerVars, controlVars, IInv, EndInv, Quiet,
       Closing, Cancelling, Gone
  <1>8. QueueInv'
    BY UndoFacts, QueueSame DEF Undo, queueVars, IInv, QueueInv, Early
  <1>9. SubmitInv'
    BY UndoSubmit
  <1>10. PlaceInv'
    BY UndoPlace
  <1>11. LeaseInv'
    BY UndoLease
  <1> QED BY <1>1, <1>2, <1>3, <1>4, <1>5, <1>6, <1>7, <1>8, <1>9, <1>10,
     <1>11, Kept

(* A worker forgets its acknowledged handoffs.                             *)
LEMMA RetireMineStep ==
  ASSUME IInv, NEW w \in Worker, RetireMine(w)
  PROVE  IInv'
  <1>1. SharedTypes' /\ SubmitTypes' /\ CoordTypes' /\ ControlTypes' /\ SubmitInv'
        /\ CutInv' /\ ControlInv' /\ ClosedInv' /\ EndInv' /\ QueueInv' /\
        PlaceInv' /\ TopInv' /\ LeaseInv' /\ SleepInv'
    BY Frame DEF RetireMine, shared, submitVars, controlVars, history
  <1>2. QueueTypes'
    BY Types DEF RetireMine, QueueTypes
  <1>3. BoxTypes'
    BY Types DEF RetireMine, BoxTypes
  <1>4. WorkerTypes'
    BY Types DEF RetireMine, WorkerTypes, WorkerPc
  <1> QED BY <1>1, <1>2, <1>3, <1>4, Kept

(* A worker takes its next request.                                        *)
LEMMA TakeStep ==
  ASSUME IInv, NEW w \in Worker, Take(w)
  PROVE  IInv'
  <1>1. SharedTypes' /\ SubmitTypes' /\ CoordTypes' /\ BoxTypes' /\ ControlTypes'
        /\ SubmitInv' /\ CutInv' /\ ClosedInv'
    BY Frame DEF Take, OffQueue, shared, submitVars, coordVars, controlVars
  <1>2. QueueTypes'
    BY Types, TakeFacts DEF Take, Taken, OffQueue, QueueTypes
  <1>3. ControlInv'
    BY TakeFacts DEF Take, Is, To, Taken, WakeAllIf, OffQueue, shared,
       submitVars, coordVars, controlVars, IInv, ControlInv, Past, Cancelling,
       Pending, Idle
  <1>4. EndInv'
    BY DEF Take, Is, To, OffQueue, submitVars, coordVars, controlVars, IInv,
       EndInv, Quiet, Closing, Cancelling, Gone
  <1>5. QueueInv'
    BY TakeFacts, QueueSame DEF Take, Is, Taken, OffQueue, submitVars, IInv,
       QueueInv, Early
  <1>6. TopInv'
    BY WorkerTyped DEF Take, Is, To, IInv, TopInv
  <1>7. SleepInv'
    BY TakeFacts, QueueSame, WorkerTyped, SetsTyped DEF Take, Is, To, Taken,
       WakeAllIf, OffQueue, shared, IInv, SleepInv, Taker
  <1>8. WorkerTypes'
    BY TakeTypes
  <1>9. PlaceInv'
    BY TakePlace
  <1>10. LeaseInv'
    BY TakeLease
  <1> QED BY <1>1, <1>2, <1>3, <1>4, <1>5, <1>6, <1>7, <1>8, <1>9, <1>10, Kept

(* A worker starts a batch with the candidate it kept.                     *)
LEMMA TakePendingStep ==
  ASSUME IInv, NEW w \in Worker, TakePending(w)
  PROVE  IInv'
  <1>1. SharedTypes' /\ QueueTypes' /\ SubmitTypes' /\ CoordTypes' /\ BoxTypes' /\
        ControlTypes' /\ SubmitInv' /\ CutInv' /\ ClosedInv' /\ QueueInv'
    BY Frame DEF TakePending, OffQueue, shared, submitVars, coordVars,
       controlVars
  <1>2. WorkerTypes'
    BY Types DEF TakePending, OffQueue, WorkerTypes, WorkerPc
  <1>3. ControlInv'
    BY DEF TakePending, Is, OffQueue, shared, submitVars, coordVars,
       controlVars, IInv, ControlInv, Past, Cancelling, Pending, Idle
  <1>4. EndInv'
    BY DEF TakePending, Is, OffQueue, submitVars, coordVars, controlVars,
       IInv, EndInv, Quiet, Closing, Cancelling, Gone
  <1>5. PlaceInv'
    BY QueueSame, PcTyped, WorkerTyped, SetsTyped DEF TakePending, Is,
       OffQueue, submitVars, IInv, PlaceInv, Own, Hands, PendingOf, Early
  <1>6. TopInv'
    BY WorkerTyped DEF TakePending, Is, IInv, TopInv
  <1>7. LeaseInv'
    BY QueueSame, PcTyped, WorkerTyped DEF TakePending, Is, OffQueue,
       submitVars, IInv, LeaseInv
  <1>8. SleepInv'
    BY QueueSame, WorkerTyped DEF TakePending, Is, OffQueue, shared, IInv,
       SleepInv, Taker
  <1> QED BY <1>1, <1>2, <1>3, <1>4, <1>5, <1>6, <1>7, <1>8, Kept

(* A worker waits, or leaves when the queue is closed.                     *)
LEMMA SleepOrLeaveStep ==
  ASSUME IInv, NEW w \in Worker, SleepOrLeave(w)
  PROVE  IInv'
  <1>1. SharedTypes' /\ QueueTypes' /\ SubmitTypes' /\ CoordTypes' /\ BoxTypes' /\
        ControlTypes' /\ SubmitInv' /\ CutInv' /\ ClosedInv' /\ QueueInv'
    BY Frame DEF SleepOrLeave, OffQueue, shared, submitVars, coordVars,
       controlVars
  <1>2. WorkerTypes'
    BY Types DEF SleepOrLeave, To, OffQueue, WorkerTypes, WorkerPc
  <1>3. ControlInv'
    BY DEF SleepOrLeave, Is, To, OffQueue, shared, submitVars, coordVars,
       controlVars, IInv, ControlInv, Past, Cancelling, Pending, Idle
  <1>4. EndInv'
    BY DEF SleepOrLeave, Is, To, OffQueue, submitVars, coordVars, controlVars,
       IInv, EndInv, Quiet, Closing, Cancelling, Gone
  <1>5. TopInv'
    BY WorkerTyped DEF SleepOrLeave, Is, To, IInv, TopInv
  <1>6. LeaseInv'
    BY QueueSame, PcTyped, WorkerTyped DEF SleepOrLeave, Is, To, OffQueue,
       submitVars, IInv, LeaseInv
  <1>7. SleepInv'
    BY QueueSame DEF SleepOrLeave, Is, To, OffQueue, shared, IInv, SleepInv,
       Taker
  <1>8. PlaceInv'
    BY SleepOrLeavePlace
  <1> QED BY <1>1, <1>2, <1>3, <1>4, <1>5, <1>6, <1>7, <1>8, Kept

(* A worker returns the slot of the request it took.                       *)
LEMMA DequeuedStep ==
  ASSUME IInv, NEW w \in Worker, Dequeued(w)
  PROVE  IInv'
  <1>1. CoordTypes' /\ BoxTypes' /\ ControlTypes' /\ ClosedInv'
    BY Frame DEF Dequeued, shared, coordVars, controlVars
  <1>2. SharedTypes'
    BY Types, EngineAssumption, DrainType DEF Dequeued, Is, Fault, shared,
       history, SharedTypes, QueueTypes, SubmitTypes, CoordTypes, BoxTypes,
       WorkerTypes, NoCancel, RetireCancelled, SubmitPc, Pending, WorkerPc
  <1>3. QueueTypes'
    BY Types, ReleaseFacts DEF Dequeued, queueVars, QueueTypes
  <1>4. SubmitTypes'
    BY Types, ReleaseFacts DEF Dequeued, SubmitTypes, SubmitPc
  <1>5. WorkerTypes'
    BY Types DEF Dequeued, To, WorkerTypes, WorkerPc
  <1>6. SubmitInv'
    BY ReleaseFacts DEF Dequeued, Is, coordVars, IInv, SubmitInv, Early,
       Pending
  <1>7. CutInv'
    BY ReleaseFacts DEF Dequeued, Is, shared, IInv, CutInv, Past
  <1>8. ControlInv'
    BY ReleaseFacts DEF Dequeued, Is, To, shared, coordVars, controlVars,
       IInv, ControlInv, Past, Cancelling, Pending, Idle
  <1>9. EndInv'
    BY ReleaseFacts DEF Dequeued, Is, To, coordVars, controlVars, IInv,
       EndInv, Quiet, Closing, Cancelling, Gone
  <1>10. QueueInv'
    BY ReleaseFacts, QueueSame DEF Dequeued, Is, queueVars, IInv, QueueInv,
       Early
  <1>11. TopInv'
    BY WorkerTyped DEF Dequeued, Is, To, IInv, TopInv
  <1>12. LeaseInv'
    BY ReleaseFacts, QueueSame, PcTyped, WorkerTyped, SetsTyped DEF Dequeued,
       Is, To, queueVars, IInv, LeaseInv
  <1>13. SleepInv'
    BY QueueSame, WorkerTyped, SetsTyped DEF Dequeued, Is, To, shared,
       queueVars, IInv, SleepInv, Taker
  <1>14. PlaceInv'
    BY DequeuedPlace
  <1> QED BY <1>1, <1>2, <1>3, <1>4, <1>5, <1>6, <1>7, <1>8, <1>9, <1>10,
     <1>11, <1>12, <1>13, <1>14, Kept

(* A worker takes a candidate for its batch.                               *)
LEMMA TakeCandidateStep ==
  ASSUME IInv, NEW w \in Worker, TakeCandidate(w)
  PROVE  IInv'
  <1>1. SharedTypes' /\ SubmitTypes' /\ CoordTypes' /\ BoxTypes' /\ ControlTypes'
        /\ SubmitInv' /\ CutInv' /\ ClosedInv'
    BY Frame DEF TakeCandidate, OffQueue, shared, submitVars, coordVars,
       controlVars
  <1>2. QueueTypes'
    BY Types, TakeFacts DEF TakeCandidate, OffQueue, QueueTypes
  <1>3. ControlInv'
    BY TakeFacts DEF TakeCandidate, To, OffQueue, shared, submitVars,
       coordVars, controlVars, IInv, ControlInv, Past, Cancelling, Pending,
       Idle
  <1>4. EndInv'
    BY DEF TakeCandidate, To, OffQueue, submitVars, coordVars, controlVars,
       IInv, EndInv, Quiet, Closing, Cancelling, Gone
  <1>5. QueueInv'
    BY TakeFacts, QueueSame DEF TakeCandidate, OffQueue, submitVars, IInv,
       QueueInv, Early
  <1>6. TopInv'
    BY WorkerTyped DEF TakeCandidate, To, IInv, TopInv
  <1>7. SleepInv'
    BY TakeFacts, QueueSame, WorkerTyped, SetsTyped DEF TakeCandidate, To,
       OffQueue, shared, IInv, SleepInv, Taker
  <1>8. WorkerTypes'
    BY TakeTypes
  <1>9. PlaceInv'
    BY TakePlace
  <1>10. LeaseInv'
    BY TakeLease
  <1> QED BY <1>1, <1>2, <1>3, <1>4, <1>5, <1>6, <1>7, <1>8, <1>9, <1>10, Kept

(* A worker waits for a candidate.                                         *)
LEMMA AwaitCandidateStep ==
  ASSUME IInv, NEW w \in Worker, AwaitCandidate(w)
  PROVE  IInv'
  <1>1. SharedTypes' /\ QueueTypes' /\ SubmitTypes' /\ CoordTypes' /\ BoxTypes' /\
        ControlTypes' /\ SubmitInv' /\ CutInv' /\ ClosedInv' /\ QueueInv'
    BY Frame DEF AwaitCandidate, OffQueue, shared, submitVars, coordVars,
       controlVars
  <1>2. WorkerTypes'
    BY Types DEF AwaitCandidate, To, OffQueue, WorkerTypes, WorkerPc
  <1>3. ControlInv'
    BY DEF AwaitCandidate, To, OffQueue, shared, submitVars, coordVars,
       controlVars, IInv, ControlInv, Past, Cancelling, Pending, Idle
  <1>4. EndInv'
    BY DEF AwaitCandidate, To, OffQueue, submitVars, coordVars, controlVars,
       IInv, EndInv, Quiet, Closing, Cancelling, Gone
  <1>5. PlaceInv'
    BY QueueSame DEF AwaitCandidate, To, OffQueue, submitVars, IInv, PlaceInv,
       Own, Hands, PendingOf, Early
  <1>6. TopInv'
    BY DEF AwaitCandidate, To, IInv, TopInv
  <1>7. LeaseInv'
    BY QueueSame DEF AwaitCandidate, To, OffQueue, submitVars, IInv, LeaseInv
  <1>8. SleepInv'
    BY QueueSame, WorkerTyped DEF AwaitCandidate, To, OffQueue, shared, IInv,
       SleepInv, Taker
  <1> QED BY <1>1, <1>2, <1>3, <1>4, <1>5, <1>6, <1>7, <1>8, Kept

(* A worker adds its candidate to the batch, or keeps it for the next.     *)
LEMMA CandidateStep ==
  ASSUME IInv, NEW w \in Worker, Candidate(w)
  PROVE  IInv'
  <1>1. SharedTypes' /\ CoordTypes' /\ BoxTypes' /\ ControlTypes' /\ ClosedInv'
    BY Frame DEF Candidate, shared, coordVars, controlVars, history
  <1>2. QueueTypes'
    BY Types, ReleaseFacts DEF Candidate, queueVars, QueueTypes
  <1>3. SubmitTypes'
    BY Types, ReleaseFacts DEF Candidate, SubmitTypes, SubmitPc
  <1>4. WorkerTypes'
    BY Types DEF Candidate, WorkerTypes, WorkerPc
  <1>5. SubmitInv'
    BY ReleaseFacts DEF Candidate, Is, coordVars, IInv, SubmitInv, Early,
       Pending
  <1>6. CutInv'
    BY ReleaseFacts DEF Candidate, Is, shared, IInv, CutInv, Past
  <1>7. ControlInv'
    BY ReleaseFacts DEF Candidate, Is, shared, coordVars, controlVars, IInv,
       ControlInv, Past, Cancelling, Pending, Idle
  <1>8. EndInv'
    BY ReleaseFacts DEF Candidate, Is, coordVars, controlVars, IInv, EndInv,
       Quiet, Closing, Cancelling, Gone
  <1>9. QueueInv'
    BY ReleaseFacts, QueueSame DEF Candidate, Is, queueVars, IInv, QueueInv,
       Early
  <1>10. TopInv'
    BY WorkerTyped DEF Candidate, Is, IInv, TopInv
  <1>11. LeaseInv'
    BY SMTT(40), ReleaseFacts, QueueSame, PcTyped, WorkerTyped, SetsTyped DEF
       Candidate, Is, queueVars, IInv, LeaseInv
  <1>12. SleepInv'
    BY QueueSame, WorkerTyped, SetsTyped DEF Candidate, Is, shared, queueVars,
       IInv, SleepInv, Taker
  <1>13. PlaceInv'
    BY CandidatePlace
  <1> QED BY <1>1, <1>2, <1>3, <1>4, <1>5, <1>6, <1>7, <1>8, <1>9, <1>10,
     <1>11, <1>12, <1>13, Kept

(* A worker runs its batch.                                                *)
LEMMA ExecuteStep ==
  ASSUME IInv, NEW w \in Worker, Execute(w)
  PROVE  IInv'
  <1>1. QueueTypes' /\ SubmitTypes' /\ CoordTypes' /\ BoxTypes' /\ ControlTypes'
        /\ SubmitInv' /\ CutInv' /\ ClosedInv' /\ QueueInv'
    BY Frame DEF Execute, OffQueue, shared, submitVars, coordVars, controlVars
  <1>2. SharedTypes'
    BY Types DEF Execute, Is, OffQueue, shared, SharedTypes, QueueTypes,
       SubmitTypes, CoordTypes, BoxTypes, WorkerTypes, NoCancel,
       RetireCancelled, SubmitPc, Pending, WorkerPc
  <1>3. WorkerTypes'
    BY Types DEF Execute, To, OffQueue, WorkerTypes, WorkerPc
  <1>4. ControlInv'
    BY DEF Execute, Is, To, OffQueue, shared, submitVars, coordVars,
       controlVars, IInv, ControlInv, Past, Cancelling, Pending, Idle
  <1>5. EndInv'
    BY DEF Execute, Is, To, OffQueue, submitVars, coordVars, controlVars,
       IInv, EndInv, Quiet, Closing, Cancelling, Gone
  <1>6. PlaceInv'
    BY QueueSame, PcTyped, WorkerTyped, SetsTyped DEF Execute, Is, To,
       OffQueue, submitVars, IInv, PlaceInv, Own, Hands, PendingOf, Early
  <1>7. TopInv'
    BY DEF Execute, Is, To, IInv, TopInv
  <1>8. LeaseInv'
    BY QueueSame DEF Execute, Is, To, OffQueue, submitVars, IInv, LeaseInv
  <1>9. SleepInv'
    BY QueueSame DEF Execute, Is, To, OffQueue, shared, IInv, SleepInv, Taker
  <1> QED BY <1>1, <1>2, <1>3, <1>4, <1>5, <1>6, <1>7, <1>8, <1>9, Kept

(* A worker passes the stop token on.                                      *)
LEMMA PassStopStep ==
  ASSUME IInv, NEW w \in Worker, PassStop(w)
  PROVE  IInv'
  <1>1. SharedTypes' /\ QueueTypes' /\ SubmitTypes' /\ CoordTypes' /\ BoxTypes' /\
        ControlTypes' /\ SubmitInv' /\ CutInv' /\ ClosedInv' /\ QueueInv'
    BY Frame DEF PassStop, OffQueue, shared, submitVars, coordVars,
       controlVars
  <1>2. WorkerTypes'
    BY Types DEF PassStop, To, OffQueue, WorkerTypes, WorkerPc
  <1>3. ControlInv'
    BY DEF PassStop, Is, To, OffQueue, shared, submitVars, coordVars,
       controlVars, IInv, ControlInv, Past, Cancelling, Pending, Idle
  <1>4. EndInv'
    BY DEF PassStop, Is, To, OffQueue, submitVars, coordVars, controlVars,
       IInv, EndInv, Quiet, Closing, Cancelling, Gone
  <1>5. PlaceInv'
    BY QueueSame DEF PassStop, Is, To, OffQueue, submitVars, IInv, PlaceInv,
       Own, Hands, PendingOf, Early
  <1>6. TopInv'
    BY DEF PassStop, Is, To, IInv, TopInv
  <1>7. LeaseInv'
    BY QueueSame DEF PassStop, Is, To, OffQueue, submitVars, IInv, LeaseInv
  <1>8. SleepInv'
    BY QueueSame DEF PassStop, Is, To, OffQueue, shared, IInv, SleepInv, Taker
  <1> QED BY <1>1, <1>2, <1>3, <1>4, <1>5, <1>6, <1>7, <1>8, Kept

(* execute() returns, or raises.                                           *)
LEMMA ExecutedStep ==
  ASSUME IInv, NEW w \in Worker, Executed(w)
  PROVE  IInv'
  <1>1. QueueTypes' /\ SubmitTypes' /\ CoordTypes' /\ BoxTypes' /\ ControlTypes'
        /\ SubmitInv' /\ ClosedInv' /\ QueueInv'
    BY Frame DEF Executed, queueVars, submitVars, coordVars, controlVars
  <1>2. SharedTypes'
    BY Types, EngineAssumption, DrainType DEF Executed, Is, Fault, Failed,
       history, SharedTypes, QueueTypes, SubmitTypes, CoordTypes, BoxTypes,
       WorkerTypes, NoCancel, RetireCancelled, SubmitPc, Pending, WorkerPc
  <1>3. WorkerTypes'
    BY Types DEF Executed, To, WorkerTypes, WorkerPc
  <1>4. CutInv'
    BY DEF Executed, Is, Failed, submitVars, IInv, CutInv, Past
  <1>5. ControlInv'
    BY DEF Executed, Is, Failed, To, submitVars, coordVars, controlVars, IInv,
       ControlInv, Past, Cancelling, Pending, Idle
  <1>6. EndInv'
    BY DEF Executed, Is, To, submitVars, coordVars, controlVars, IInv, EndInv,
       Quiet, Closing, Cancelling, Gone
  <1>7. PlaceInv'
    BY QueueSame, PcTyped, WorkerTyped, SetsTyped DEF Executed, Is, To,
       queueVars, submitVars, history, IInv, PlaceInv, Own, Hands, PendingOf,
       Early
  <1>8. TopInv'
    BY WorkerTyped DEF Executed, Is, To, IInv, TopInv
  <1>9. LeaseInv'
    BY QueueSame, PcTyped, WorkerTyped DEF Executed, Is, To, queueVars,
       submitVars, IInv, LeaseInv
  <1>10. SleepInv'
    BY QueueSame, WorkerTyped, SetsTyped DEF Executed, Is, To, queueVars, IInv,
       SleepInv, Taker
  <1> QED BY <1>1, <1>2, <1>3, <1>4, <1>5, <1>6, <1>7, <1>8, <1>9, <1>10, Kept

(* A worker hands its batch to the coordinator.                            *)
LEMMA HandOffStep ==
  ASSUME IInv, NEW w \in Worker, HandOff(w)
  PROVE  IInv'
  <1>1. SharedTypes' /\ QueueTypes' /\ SubmitTypes' /\ CoordTypes' /\
        ControlTypes' /\ SubmitInv' /\ CutInv' /\ ClosedInv' /\ QueueInv'
    BY Frame DEF HandOff, shared, queueVars, submitVars, controlVars, history
  <1>2. BoxTypes'
    BY Types DEF HandOff, Is, Submits, Handoff, BoxTypes, SharedTypes,
       QueueTypes, SubmitTypes, CoordTypes, WorkerTypes, NoCancel,
       RetireCancelled, SubmitPc, Pending, WorkerPc
  <1>3. WorkerTypes'
    BY Types, EngineAssumption, DrainType DEF HandOff, Is, WorkerTypes,
       SharedTypes, QueueTypes, SubmitTypes, CoordTypes, BoxTypes, NoCancel,
       RetireCancelled, WorkerPc, SubmitPc, Pending
  <1>4. ControlInv'
    BY DEF HandOff, Is, shared, submitVars, controlVars, IInv, ControlInv,
       Past, Cancelling, Pending, Idle
  <1>5. EndInv'
    BY DEF HandOff, Is, submitVars, controlVars, IInv, EndInv, Quiet, Closing,
       Cancelling, Gone
  <1>6. PlaceInv'
    BY QueueSame, PcTyped, WorkerTyped, SetsTyped DEF HandOff, Is, queueVars,
       submitVars, history, IInv, PlaceInv, Own, Hands, PendingOf, Early
  <1>7. TopInv'
    BY WorkerTyped DEF HandOff, Is, IInv, TopInv
  <1>8. LeaseInv'
    BY QueueSame, PcTyped, WorkerTyped DEF HandOff, Is, queueVars,
       submitVars, IInv, LeaseInv
  <1>9. SleepInv'
    BY QueueSame, WorkerTyped DEF HandOff, Is, shared, queueVars, IInv,
       SleepInv, Taker
  <1> QED BY <1>1, <1>2, <1>3, <1>4, <1>5, <1>6, <1>7, <1>8, <1>9, Kept

(* A worker goes on after a batch.                                         *)
LEMMA AfterStep ==
  ASSUME IInv, NEW w \in Worker, After(w)
  PROVE  IInv'
  <1>1. SharedTypes' /\ QueueTypes' /\ SubmitTypes' /\ CoordTypes' /\ BoxTypes' /\
        ControlTypes' /\ SubmitInv' /\ CutInv' /\ ClosedInv' /\ QueueInv'
    BY Frame DEF After, OffQueue, shared, submitVars, coordVars, controlVars
  <1>2. ControlInv'
    BY DEF After, Is, OffQueue, shared, submitVars, coordVars, controlVars,
       IInv, ControlInv, Past, Cancelling, Pending, Idle
  <1>3. EndInv'
    BY DEF After, Is, OffQueue, submitVars, coordVars, controlVars, IInv,
       EndInv, Quiet, Closing, Cancelling, Gone
  <1>4. TopInv'
    BY WorkerTyped DEF After, Is, IInv, TopInv
  <1>5. LeaseInv'
    BY QueueSame, PcTyped, WorkerTyped DEF After, Is, OffQueue, submitVars,
       IInv, LeaseInv
  <1>6. SleepInv'
    BY QueueSame, WorkerTyped, SetsTyped DEF After, Is, OffQueue, shared, IInv,
       SleepInv, Taker
  <1>7. WorkerTypes'
    BY AfterTypes
  <1>8. PlaceInv'
    BY AfterPlace
  <1> QED BY <1>1, <1>2, <1>3, <1>4, <1>5, <1>6, <1>7, <1>8, Kept

(* A worker ends.                                                          *)
LEMMA LeaveStep ==
  ASSUME IInv, NEW w \in Worker, Leave(w)
  PROVE  IInv'
  <1>1. SharedTypes' /\ QueueTypes' /\ SubmitTypes' /\ CoordTypes' /\ BoxTypes' /\
        ControlTypes' /\ SubmitInv' /\ CutInv' /\ ClosedInv' /\ QueueInv'
    BY Frame DEF Leave, OffQueue, shared, submitVars, coordVars, controlVars
  <1>2. WorkerTypes'
    BY Types DEF Leave, To, OffQueue, WorkerTypes, WorkerPc
  <1>3. ControlInv'
    BY DEF Leave, Is, To, OffQueue, shared, submitVars, coordVars,
       controlVars, IInv, ControlInv, Past, Cancelling, Pending, Idle
  <1>4. EndInv'
    BY DEF Leave, Is, To, OffQueue, submitVars, coordVars, controlVars, IInv,
       EndInv, Quiet, Closing, Cancelling, Gone
  <1>5. PlaceInv'
    BY QueueSame DEF Leave, Is, To, OffQueue, submitVars, IInv, PlaceInv, Own,
       Hands, PendingOf, Early
  <1>6. TopInv'
    BY DEF Leave, Is, To, IInv, TopInv
  <1>7. LeaseInv'
    BY QueueSame DEF Leave, Is, To, OffQueue, submitVars, IInv, LeaseInv
  <1>8. SleepInv'
    BY QueueSame DEF Leave, Is, To, OffQueue, shared, IInv, SleepInv, Taker
  <1> QED BY <1>1, <1>2, <1>3, <1>4, <1>5, <1>6, <1>7, <1>8, Kept

(* A worker dies and takes the queue with it.                              *)
LEMMA CrashStep ==
  ASSUME IInv, NEW w \in Worker, Crash(w)
  PROVE  IInv'
  <1>1. CoordTypes' /\ BoxTypes' /\ ControlTypes' /\ ClosedInv'
    BY Frame DEF Crash, coordVars, controlVars
  <1>2. QueueTypes'
    BY Types, ReleaseFacts, DrainFacts DEF Crash, QueueTypes
  <1>3. SubmitTypes'
    BY Types, ReleaseFacts DEF Crash, SubmitTypes, SubmitPc
  <1>4. SubmitInv'
    BY ReleaseFacts DEF Crash, Is, coordVars, IInv, SubmitInv, Early, Pending
  <1>5. CutInv'
    BY ReleaseFacts DEF Crash, Is, Failed, IInv, CutInv, Past
  <1>6. EndInv'
    BY ReleaseFacts DEF Crash, Is, coordVars, controlVars, IInv, EndInv,
       Quiet, Closing, Cancelling, Gone
  <1>7. SleepInv'
    BY DrainFacts, QueueSame, WorkerTyped, SetsTyped DEF Crash, Is, WakeAllIf,
       IInv, SleepInv, Taker
  <1>8. SharedTypes'
    BY CrashShared
  <1>9. WorkerTypes'
    BY CrashTypes
  <1>10. ControlInv'
    BY CrashControl
  <1>11. QueueInv'
    BY CrashQueue
  <1>12. PlaceInv'
    BY CrashPlace
  <1>13. TopInv'
    BY CrashTop
  <1>14. LeaseInv'
    BY CrashLease
  <1> QED BY <1>1, <1>2, <1>3, <1>4, <1>5, <1>6, <1>7, <1>8, <1>9, <1>10,
     <1>11, <1>12, <1>13, <1>14, Kept

(* A dying worker reports what it failed.                                  *)
LEMMA FailSubmitStep ==
  ASSUME IInv, NEW w \in Worker, FailSubmit(w)
  PROVE  IInv'
  <1>1. SharedTypes' /\ QueueTypes' /\ SubmitTypes' /\ CoordTypes' /\
        ControlTypes' /\ SubmitInv' /\ CutInv' /\ ClosedInv' /\ QueueInv'
    BY Frame DEF FailSubmit, shared, queueVars, submitVars, controlVars,
       history
  <1>2. BoxTypes'
    BY Types DEF FailSubmit, Is, Submits, Handoff, BoxTypes, SharedTypes,
       QueueTypes, SubmitTypes, CoordTypes, WorkerTypes, NoCancel,
       RetireCancelled, SubmitPc, Pending, WorkerPc
  <1>3. WorkerTypes'
    BY Types DEF FailSubmit, To, WorkerTypes, WorkerPc
  <1>4. ControlInv'
    BY DEF FailSubmit, Is, To, shared, submitVars, controlVars, IInv,
       ControlInv, Past, Cancelling, Pending, Idle
  <1>5. EndInv'
    BY DEF FailSubmit, Is, To, submitVars, controlVars, IInv, EndInv, Quiet,
       Closing, Cancelling, Gone
  <1>6. PlaceInv'
    BY QueueSame DEF FailSubmit, Is, To, queueVars, submitVars, history, IInv,
       PlaceInv, Own, Hands, PendingOf, Early
  <1>7. TopInv'
    BY DEF FailSubmit, Is, To, IInv, TopInv
  <1>8. LeaseInv'
    BY QueueSame DEF FailSubmit, Is, To, queueVars, submitVars, IInv, LeaseInv
  <1>9. SleepInv'
    BY QueueSame DEF FailSubmit, Is, To, shared, queueVars, IInv, SleepInv,
       Taker
  <1> QED BY <1>1, <1>2, <1>3, <1>4, <1>5, <1>6, <1>7, <1>8, <1>9, Kept

(* A dying worker's report is acknowledged, or not in time.                *)
LEMMA FailAckedStep ==
  ASSUME IInv, NEW w \in Worker, FailAcked(w)
  PROVE  IInv'
  <1>1. SharedTypes' /\ SubmitTypes' /\ CoordTypes' /\ ControlTypes' /\ SubmitInv'
        /\ CutInv' /\ ClosedInv'
    BY Frame DEF FailAcked, shared, submitVars, controlVars, history
  <1>2. QueueTypes'
    BY Types DEF FailAcked, QueueTypes
  <1>3. BoxTypes'
    BY Types DEF FailAcked, Forget, BoxTypes
  <1>4. WorkerTypes'
    BY Types DEF FailAcked, To, WorkerTypes, WorkerPc
  <1>5. ControlInv'
    BY DEF FailAcked, Is, To, shared, submitVars, controlVars, IInv,
       ControlInv, Past, Cancelling, Pending, Idle
  <1>6. EndInv'
    BY DEF FailAcked, Is, To, submitVars, controlVars, IInv, EndInv, Quiet,
       Closing, Cancelling, Gone
  <1>7. QueueInv'
    BY QueueSame DEF FailAcked, Is, submitVars, IInv, QueueInv, Early
  <1>8. PlaceInv'
    BY QueueSame DEF FailAcked, Is, To, submitVars, history, IInv, PlaceInv,
       Own, Hands, PendingOf, Early
  <1>9. TopInv'
    BY DEF FailAcked, Is, To, IInv, TopInv
  <1>10. LeaseInv'
    BY QueueSame DEF FailAcked, Is, To, submitVars, IInv, LeaseInv
  <1>11. SleepInv'
    BY QueueSame DEF FailAcked, Is, To, shared, IInv, SleepInv, Taker
  <1> QED BY <1>1, <1>2, <1>3, <1>4, <1>5, <1>6, <1>7, <1>8, <1>9, <1>10,
     <1>11, Kept

(* The coordinator ends the requests of a handoff.                         *)
LEMMA HandleStep ==
  ASSUME IInv, NEW h \in box, Handle(h)
  PROVE  IInv'
  <1>1. SharedTypes' /\ QueueTypes' /\ SubmitTypes' /\ ControlTypes' /\ CutInv' /\
        ClosedInv' /\ EndInv' /\ QueueInv' /\ PlaceInv' /\ TopInv' /\ LeaseInv'
    BY Frame DEF Handle, OffCoord, shared, queueVars, submitVars, controlVars,
       history
  <1>2. CoordTypes'
    BY Types DEF Handle, End, OffCoord, CoordTypes, Pending
  <1>3. BoxTypes'
    BY Types DEF Handle, BoxTypes
  <1>4. WorkerTypes'
    BY Types DEF Handle, OffCoord, WorkerTypes, WorkerPc
  <1>5. SubmitInv'
    BY DEF Handle, End, OffCoord, submitVars, IInv, SubmitInv, Early, Pending
  <1>6. ControlInv'
    BY DEF Handle, End, OffCoord, shared, submitVars, controlVars, IInv,
       ControlInv, Past, Cancelling, Pending, Idle
  <1>7. SleepInv'
    BY QueueSame DEF Handle, OffCoord, shared, queueVars, IInv, SleepInv,
       Taker
  <1> QED BY <1>1, <1>2, <1>3, <1>4, <1>5, <1>6, <1>7, Kept

(* The coordinator fails.                                                  *)
LEMMA CoordFailsStep ==
  ASSUME IInv, CoordFails
  PROVE  IInv'
  <1>1. QueueTypes' /\ SubmitTypes' /\ BoxTypes' /\ WorkerTypes' /\ ControlTypes'
        /\ SubmitInv' /\ CutInv' /\ ClosedInv' /\ QueueInv' /\ PlaceInv' /\
        TopInv' /\ LeaseInv' /\ SleepInv'
    BY Frame DEF CoordFails, OffCoord, shared, queueVars, submitVars,
       controlVars, history
  <1>2. SharedTypes'
    BY Types, EngineAssumption, DrainType DEF CoordFails, Fault, OffCoord,
       shared, history, SharedTypes, QueueTypes, SubmitTypes, CoordTypes,
       BoxTypes, WorkerTypes, NoCancel, RetireCancelled, SubmitPc, Pending,
       WorkerPc
  <1>3. CoordTypes'
    BY Types DEF CoordFails, OffCoord, CoordTypes, Pending
  <1>4. ControlInv'
    BY DEF CoordFails, OffCoord, shared, submitVars, controlVars, IInv,
       ControlInv, Past, Cancelling, Pending, Idle
  <1>5. EndInv'
    BY DEF CoordFails, OffCoord, submitVars, controlVars, IInv, EndInv, Quiet,
       Closing, Cancelling, Gone
  <1> QED BY <1>1, <1>2, <1>3, <1>4, <1>5, Kept

(* A failing coordinator ends whatever is pending.                         *)
LEMMA FailOutstandingStep ==
  ASSUME IInv, FailOutstanding
  PROVE  IInv'
  <1>1. SharedTypes' /\ QueueTypes' /\ SubmitTypes' /\ ControlTypes' /\ CutInv' /\
        ClosedInv' /\ QueueInv' /\ PlaceInv' /\ TopInv' /\ LeaseInv'
    BY Frame DEF FailOutstanding, OffCoord, shared, queueVars, submitVars,
       controlVars, history
  <1>2. CoordTypes'
    BY Types DEF FailOutstanding, End, OffCoord, CoordTypes, Pending
  <1>3. BoxTypes'
    BY Types DEF FailOutstanding, BoxTypes
  <1>4. WorkerTypes'
    BY Types DEF FailOutstanding, OffCoord, WorkerTypes, WorkerPc
  <1>5. SubmitInv'
    BY DEF FailOutstanding, End, OffCoord, submitVars, IInv, SubmitInv, Early,
       Pending
  <1>6. ControlInv'
    BY DEF FailOutstanding, End, OffCoord, shared, submitVars, controlVars,
       IInv, ControlInv, Past, Cancelling, Pending, Idle
  <1>7. EndInv'
    BY DEF FailOutstanding, OffCoord, submitVars, controlVars, IInv, EndInv,
       Quiet, Closing, Cancelling, Gone
  <1>8. SleepInv'
    BY QueueSame DEF FailOutstanding, OffCoord, shared, queueVars, IInv,
       SleepInv, Taker
  <1> QED BY <1>1, <1>2, <1>3, <1>4, <1>5, <1>6, <1>7, <1>8, Kept

(* The coordinator stops, with nothing left to do.                         *)
LEMMA CoordEndsStep ==
  ASSUME IInv, CoordEnds
  PROVE  IInv'
  <1>1. SharedTypes' /\ QueueTypes' /\ SubmitTypes' /\ ControlTypes' /\ CutInv' /\
        ClosedInv' /\ QueueInv' /\ PlaceInv' /\ TopInv' /\ LeaseInv'
    BY Frame DEF CoordEnds, OffCoord, shared, queueVars, submitVars,
       controlVars, history
  <1>2. CoordTypes'
    BY Types DEF CoordEnds, End, OffCoord, CoordTypes, Pending
  <1>3. BoxTypes'
    BY Types DEF CoordEnds, BoxTypes
  <1>4. WorkerTypes'
    BY Types DEF CoordEnds, OffCoord, WorkerTypes, WorkerPc
  <1>5. SubmitInv'
    BY DEF CoordEnds, End, OffCoord, submitVars, IInv, SubmitInv, Early,
       Pending
  <1>6. ControlInv'
    BY DEF CoordEnds, End, OffCoord, shared, submitVars, controlVars, IInv,
       ControlInv, Past, Cancelling, Pending, Idle
  <1>7. EndInv'
    BY DEF CoordEnds, OffCoord, submitVars, controlVars, IInv, EndInv, Quiet,
       Closing, Cancelling, Gone
  <1>8. SleepInv'
    BY QueueSame DEF CoordEnds, OffCoord, shared, queueVars, IInv, SleepInv,
       Taker
  <1> QED BY <1>1, <1>2, <1>3, <1>4, <1>5, <1>6, <1>7, <1>8, Kept

(* The engine notices the failure of the coordinator.                      *)
LEMMA WatchStep ==
  ASSUME IInv, Watch
  PROVE  IInv'
  <1>1. BoxTypes' /\ ControlTypes' /\ ClosedInv' /\ TopInv'
    BY Frame DEF Watch, controlVars
  <1>2. SharedTypes'
    BY Types DEF Watch, Failed, history, SharedTypes
  <1>3. QueueTypes'
    BY Types, ReleaseFacts, DrainFacts DEF Watch, QueueTypes
  <1>4. SubmitTypes'
    BY Types, ReleaseFacts DEF Watch, SubmitTypes, SubmitPc
  <1>5. CoordTypes'
    BY Types DEF Watch, CoordTypes, Pending
  <1>6. WorkerTypes'
    BY Types, DrainFacts DEF Watch, WakeAllIf, WorkerTypes, WorkerPc
  <1>7. SubmitInv'
    BY ReleaseFacts DEF Watch, IInv, SubmitInv, Early, Pending
  <1>8. CutInv'
    BY ReleaseFacts DEF Watch, Failed, IInv, CutInv, Past
  <1>9. ControlInv'
    BY ReleaseFacts, DrainFacts DEF Watch, Failed, WakeAllIf, controlVars,
       IInv, ControlInv, Past, Cancelling, Pending, Idle
  <1>10. EndInv'
    BY ReleaseFacts DEF Watch, controlVars, IInv, EndInv, Quiet, Closing,
       Cancelling, Gone
  <1>11. LeaseInv'
    BY ReleaseFacts, DrainFacts, QueueSame, PcTyped, WorkerTyped, SetsTyped
       DEF Watch, IInv, LeaseInv
  <1>12. SleepInv'
    BY DrainFacts, QueueSame DEF Watch, WakeAllIf, IInv, SleepInv, Taker
  <1>13. QueueInv'
    BY WatchQueue
  <1>14. PlaceInv'
    BY WatchPlace
  <1> QED BY <1>1, <1>2, <1>3, <1>4, <1>5, <1>6, <1>7, <1>8, <1>9, <1>10,
     <1>11, <1>12, <1>13, <1>14, Kept

(* start() starts the workers.                                             *)
LEMMA StartStep ==
  ASSUME IInv, Start
  PROVE  IInv'
  <1>1. QueueTypes' /\ SubmitTypes' /\ CoordTypes' /\ BoxTypes' /\ SubmitInv' /\
        QueueInv'
    BY Frame DEF Start, queueVars, submitVars, coordVars
  <1>2. PlaceInv'
    BY QueueSame DEF Start, Idle, queueVars, submitVars, history, IInv,
       PlaceInv, Own, Hands, PendingOf, Early
  <1>3. TopInv'
    BY DEF Start, Idle, IInv, TopInv
  <1>4. SleepInv'
    BY QueueSame, PcTyped, WorkerTyped, CtlTyped, SetsTyped DEF Start,
       Idle, queueVars, IInv, SleepInv, ControlInv, Taker, Past, Cancelling,
       Pending
  <1>5. SharedTypes'
    BY StartShared
  <1>6. WorkerTypes'
    BY StartTypes
  <1>7. ControlTypes'
    BY StartControlTypes
  <1>8. CutInv'
    BY StartCut
  <1>9. ControlInv'
    BY StartControl
  <1>10. ClosedInv' /\ EndInv'
    BY StartEnd
  <1>11. LeaseInv'
    BY StartLease
  <1> QED BY <1>1, <1>2, <1>3, <1>4, <1>5, <1>6, <1>7, <1>8, <1>9, <1>10,
     <1>11, Kept

(* The producer is done, or interrupted.                                   *)
LEMMA ProducedStep ==
  ASSUME IInv, Produced
  PROVE  IInv'
  <1>1. SharedTypes' /\ QueueTypes' /\ SubmitTypes' /\ CoordTypes' /\ BoxTypes' /\
        WorkerTypes' /\ SubmitInv' /\ CutInv' /\ QueueInv' /\ PlaceInv' /\
        TopInv' /\ LeaseInv' /\ SleepInv'
    BY Frame DEF Produced, OffControl, shared, submitVars, coordVars,
       workerVars, history
  <1>2. ControlTypes' /\ ControlInv' /\ ClosedInv' /\ EndInv'
    BY ProducedMoves
  <1> QED BY <1>1, <1>2, Kept

(* close_submission() ends the submissions.                                *)
LEMMA CloseSubmissionStep ==
  ASSUME IInv, CloseSubmission
  PROVE  IInv'
  <1>1. QueueTypes' /\ SubmitTypes' /\ CoordTypes' /\ BoxTypes' /\ WorkerTypes' /\
        SubmitInv' /\ QueueInv' /\ PlaceInv' /\ TopInv' /\ LeaseInv' /\
        SleepInv'
    BY Frame DEF CloseSubmission, OffSome, OffControl, submitVars, coordVars,
       workerVars, history
  <1>2. SharedTypes'
    BY Types DEF CloseSubmission, OffSome, OffControl, history, SharedTypes
  <1>3. ControlTypes'
    BY Types DEF CloseSubmission, Go, At, OffSome, ControlTypes, ControlPc,
       Pending
  <1>4. CutInv'
    BY DEF CloseSubmission, OffSome, OffControl, submitVars, IInv, CutInv,
       Past
  <1>5. ControlInv'
    BY DEF CloseSubmission, Go, At, OffSome, OffControl, submitVars,
       coordVars, workerVars, IInv, ControlInv, Past, Cancelling, Pending,
       Idle
  <1>6. ClosedInv'
    BY DEF CloseSubmission, Go, At, IInv, ClosedInv, Cancelling
  <1>7. EndInv'
    BY DEF CloseSubmission, Go, At, OffSome, OffControl, submitVars,
       coordVars, workerVars, IInv, EndInv, Quiet, Closing, Cancelling, Gone
  <1> QED BY <1>1, <1>2, <1>3, <1>4, <1>5, <1>6, <1>7, Kept

(* A flush notes what is pending.                                          *)
LEMMA SnapshotStep ==
  ASSUME IInv, Snapshot
  PROVE  IInv'
  <1>1. SharedTypes' /\ QueueTypes' /\ SubmitTypes' /\ CoordTypes' /\ BoxTypes' /\
        WorkerTypes' /\ SubmitInv' /\ CutInv' /\ QueueInv' /\ PlaceInv' /\
        TopInv' /\ LeaseInv' /\ SleepInv'
    BY Frame DEF Snapshot, OffControl, shared, submitVars, coordVars,
       workerVars, history
  <1>2. ControlTypes'
    BY Types DEF Snapshot, Go, At, ControlTypes, ControlPc, Pending
  <1>3. ControlInv'
    BY DEF Snapshot, Go, At, OffControl, shared, submitVars, coordVars,
       workerVars, IInv, ControlInv, Past, Cancelling, Pending, Idle
  <1>4. ClosedInv'
    BY DEF Snapshot, Go, At, shared, IInv, ClosedInv, Cancelling
  <1>5. EndInv'
    BY DEF Snapshot, Go, At, OffControl, submitVars, coordVars, workerVars,
       IInv, EndInv, Quiet, Closing, Cancelling, Gone
  <1> QED BY <1>1, <1>2, <1>3, <1>4, <1>5, Kept

(* A flush has seen all of it end.                                         *)
LEMMA FlushStep ==
  ASSUME IInv, Flush
  PROVE  IInv'
  <1>1. SharedTypes' /\ SubmitTypes' /\ CoordTypes' /\ WorkerTypes' /\ SubmitInv'
        /\ CutInv' /\ QueueInv' /\ PlaceInv' /\ TopInv' /\ LeaseInv' /\
        SleepInv'
    BY Frame DEF Flush, FlushEnds, history
  <1>2. BoxTypes'
    BY Types DEF Flush, BoxTypes
  <1>3. QueueTypes'
    BY FlushTypes
  <1>4. ControlTypes' /\ ControlInv' /\ ClosedInv' /\ EndInv'
    BY FlushControl
  <1> QED BY <1>1, <1>2, <1>3, <1>4, Kept

(* A flush runs out of time.                                               *)
LEMMA FlushTimeoutStep ==
  ASSUME IInv, FlushTimeout
  PROVE  IInv'
  <1>1. SharedTypes' /\ QueueTypes' /\ SubmitTypes' /\ CoordTypes' /\ BoxTypes' /\
        WorkerTypes' /\ SubmitInv' /\ CutInv' /\ QueueInv' /\ PlaceInv' /\
        TopInv' /\ LeaseInv' /\ SleepInv'
    BY Frame DEF FlushTimeout, FlushEnds, history
  <1>2. ControlTypes' /\ ControlInv' /\ ClosedInv' /\ EndInv'
    BY FlushControl
  <1> QED BY <1>1, <1>2, Kept

(* A flush finds the coordinator gone.                                     *)
LEMMA FlushFailsStep ==
  ASSUME IInv, FlushFails
  PROVE  IInv'
  <1>1. CoordTypes' /\ BoxTypes' /\ TopInv'
    BY Frame DEF FlushFails, FlushEnds
  <1>2. CutInv'
    BY ReleaseFacts DEF FlushFails, Failed, IInv, CutInv, Past
  <1>3. SharedTypes' /\ QueueTypes' /\ SubmitTypes' /\ WorkerTypes'
    BY FailsTypes
  <1>4. ControlTypes' /\ ControlInv' /\ ClosedInv' /\ EndInv'
    BY FailsControl
  <1>5. SubmitInv'
    BY FailsSubmit
  <1>6. QueueInv'
    BY FailsQueue
  <1>7. PlaceInv'
    BY FailsPlace
  <1>8. LeaseInv'
    BY FailsLease
  <1>9. SleepInv'
    BY FailsSleep
  <1> QED BY <1>1, <1>2, <1>3, <1>4, <1>5, <1>6, <1>7, <1>8, <1>9, Kept

(* shutdown() looks for a drain that was left open.                        *)
LEMMA ResumeStep ==
  ASSUME IInv, Resume
  PROVE  IInv'
  <1>1. SharedTypes' /\ QueueTypes' /\ SubmitTypes' /\ CoordTypes' /\ BoxTypes' /\
        WorkerTypes' /\ SubmitInv' /\ CutInv' /\ QueueInv' /\ PlaceInv' /\
        TopInv' /\ LeaseInv' /\ SleepInv'
    BY Frame DEF Resume, OffSome, shared, OffControl, submitVars, coordVars,
       workerVars, history
  <1>2. ControlTypes' /\ ControlInv' /\ ClosedInv' /\ EndInv'
    BY ResumeMoves
  <1> QED BY <1>1, <1>2, Kept

(* shutdown() has completed that drain, or could not.                      *)
LEMMA ResumedStep ==
  ASSUME IInv, Resumed
  PROVE  IInv'
  <1>1. SharedTypes' /\ QueueTypes' /\ SubmitTypes' /\ CoordTypes' /\ BoxTypes' /\
        WorkerTypes' /\ SubmitInv' /\ CutInv' /\ QueueInv' /\ PlaceInv' /\
        TopInv' /\ LeaseInv' /\ SleepInv'
    BY Frame DEF Resumed, OffSome, shared, OffControl, submitVars, coordVars,
       workerVars, history
  <1>2. ControlTypes'
    BY Types DEF Resumed, Go, NoCancel, At, OffSome, ControlTypes, ControlPc,
       Pending
  <1>3. ControlInv'
    BY DEF Resumed, Go, At, OffSome, shared, OffControl, submitVars,
       coordVars, workerVars, IInv, ControlInv, Past, Cancelling, Pending,
       Idle
  <1>4. ClosedInv'
    BY DEF Resumed, Go, At, shared, IInv, ClosedInv, Cancelling
  <1>5. EndInv'
    BY DEF Resumed, Go, At, OffSome, OffControl, submitVars, coordVars,
       workerVars, IInv, EndInv, Quiet, Closing, Cancelling, Gone
  <1> QED BY <1>1, <1>2, <1>3, <1>4, <1>5, Kept

(* shutdown() waits for the submitters.                                    *)
LEMMA WaitForSubmittersStep ==
  ASSUME IInv, WaitForSubmitters
  PROVE  IInv'
  <1>1. BoxTypes' /\ WorkerTypes' /\ TopInv' /\ SleepInv'
    BY Frame DEF WaitForSubmitters, queueVars, workerVars
  <1>2. SharedTypes'
    BY Types DEF WaitForSubmitters, Failed, history, SharedTypes
  <1>3. QueueTypes'
    BY Types, ReleaseFacts DEF WaitForSubmitters, queueVars, QueueTypes
  <1>4. SubmitTypes'
    BY Types, ReleaseFacts DEF WaitForSubmitters, SubmitTypes, SubmitPc
  <1>5. CoordTypes'
    BY Types DEF WaitForSubmitters, CoordTypes, Pending
  <1>6. SubmitInv'
    BY ReleaseFacts DEF WaitForSubmitters, Undecided, IInv, SubmitInv, Early,
       Pending
  <1>7. QueueInv'
    BY ReleaseFacts, QueueSame DEF WaitForSubmitters, Undecided, queueVars,
       IInv, QueueInv, Early
  <1>8. LeaseInv'
    BY ReleaseFacts, QueueSame, PcTyped, WorkerTyped, SetsTyped DEF
       WaitForSubmitters, Undecided, queueVars, workerVars, IInv, LeaseInv
  <1>9. ControlTypes' /\ ControlInv' /\ ClosedInv' /\ EndInv'
    BY WaitControl
  <1>10. CutInv'
    BY WaitCut
  <1>11. PlaceInv'
    BY WaitPlace
  <1> QED BY <1>1, <1>2, <1>3, <1>4, <1>5, <1>6, <1>7, <1>8, <1>9, <1>10,
     <1>11, Kept

(* An acknowledged cancellation is retired.                                *)
LEMMA RetireCancelStep ==
  ASSUME IInv, RetireCancel
  PROVE  IInv'
  <1>1. SharedTypes' /\ SubmitTypes' /\ CoordTypes' /\ WorkerTypes' /\ SubmitInv'
        /\ CutInv' /\ ControlInv' /\ ClosedInv' /\ EndInv' /\ TopInv' /\
        LeaseInv' /\ SleepInv'
    BY Frame DEF RetireCancel, shared, submitVars, workerVars, history
  <1>2. QueueTypes'
    BY Types DEF RetireCancel, RetireCancelled, QueueTypes
  <1>3. BoxTypes'
    BY Types DEF RetireCancel, RetireCancelled, Forget, BoxTypes
  <1>4. QueueInv'
    BY QueueSame DEF RetireCancel, RetireCancelled, submitVars, IInv,
       QueueInv, Early
  <1>5. PlaceInv'
    BY QueueSame DEF RetireCancel, RetireCancelled, submitVars, workerVars,
       history, IInv, PlaceInv, Own, Hands, PendingOf, Early
  <1>6. ControlTypes'
    BY RetireTypes
  <1> QED BY <1>1, <1>2, <1>3, <1>4, <1>5, <1>6, Kept

(* cancel_queued() drains the queue and claims the candidates.             *)
LEMMA CollectStep ==
  ASSUME IInv, Collect
  PROVE  IInv'
  <1>1. CoordTypes' /\ BoxTypes'
    BY Frame DEF Collect, coordVars
  <1>2. QueueTypes'
    BY Types, ReleaseFacts, DrainFacts DEF Collect, QueueTypes
  <1>3. SubmitTypes'
    BY Types, ReleaseFacts DEF Collect, SubmitTypes, SubmitPc
  <1>4. SubmitInv'
    BY ReleaseFacts DEF Collect, PendingOf, coordVars, IInv, SubmitInv, Early,
       Pending
  <1>5. CutInv'
    BY ReleaseFacts DEF Collect, PendingOf, shared, IInv, CutInv, Past
  <1>6. TopInv'
    BY WorkerTyped DEF Collect, PendingOf, IInv, TopInv
  <1>7. SleepInv'
    BY DrainFacts, QueueSame, WorkerTyped, SetsTyped DEF Collect, PendingOf,
       WakeAllIf, shared, IInv, SleepInv, Taker
  <1>8. SharedTypes' /\ WorkerTypes'
    BY CollectTypes
  <1>9. ControlTypes' /\ ControlInv' /\ ClosedInv' /\ EndInv'
    BY CollectControl
  <1>10. QueueInv'
    BY CollectQueue
  <1>11. PlaceInv'
    BY CollectPlace
  <1>12. LeaseInv'
    BY CollectLease
  <1> QED BY <1>1, <1>2, <1>3, <1>4, <1>5, <1>6, <1>7, <1>8, <1>9, <1>10,
     <1>11, <1>12, Kept

(* An open cancellation is taken up again.                                 *)
LEMMA CollectAgainStep ==
  ASSUME IInv, CollectAgain
  PROVE  IInv'
  <1>1. SharedTypes' /\ QueueTypes' /\ SubmitTypes' /\ CoordTypes' /\ BoxTypes' /\
        WorkerTypes' /\ SubmitInv' /\ CutInv' /\ QueueInv' /\ PlaceInv' /\
        TopInv' /\ LeaseInv' /\ SleepInv'
    BY Frame DEF CollectAgain, OffSome, shared, OffControl, submitVars,
       coordVars, workerVars, history
  <1>2. ControlTypes'
    BY Types DEF CollectAgain, NoCancel, OffSome, ControlTypes, ControlPc,
       Pending
  <1>3. ControlInv'
    BY DEF CollectAgain, OffSome, shared, OffControl, submitVars, coordVars,
       workerVars, IInv, ControlInv, Past, Cancelling, Pending, Idle
  <1>4. ClosedInv'
    BY DEF CollectAgain, shared, IInv, ClosedInv, Cancelling
  <1>5. EndInv'
    BY DEF CollectAgain, OffSome, OffControl, submitVars, coordVars,
       workerVars, IInv, EndInv, Quiet, Closing, Cancelling, Gone
  <1> QED BY <1>1, <1>2, <1>3, <1>4, <1>5, Kept

(* A cancellation hands its failures to the coordinator.                   *)
LEMMA CancelSubmitStep ==
  ASSUME IInv, CancelSubmit
  PROVE  IInv'
  <1>1. QueueTypes' /\ SubmitTypes' /\ CoordTypes' /\ WorkerTypes' /\ SubmitInv'
        /\ QueueInv' /\ PlaceInv' /\ TopInv' /\ LeaseInv' /\ SleepInv'
    BY Frame DEF CancelSubmit, queueVars, submitVars, workerVars, history
  <1>2. SharedTypes'
    BY Types DEF CancelSubmit, Failed, history, SharedTypes
  <1>3. CutInv'
    BY DEF CancelSubmit, Failed, submitVars, IInv, CutInv, Past
  <1>4. BoxTypes'
    BY CancelSubmitBox
  <1>5. ControlTypes' /\ ControlInv' /\ ClosedInv' /\ EndInv'
    BY CancelSubmitControl
  <1> QED BY <1>1, <1>2, <1>3, <1>4, <1>5, Kept

(* A cancellation ends, acknowledged or not.                               *)
LEMMA CancelEndsStep ==
  ASSUME IInv, CancelEnds
  PROVE  IInv'
  <1>1. SubmitTypes' /\ CoordTypes' /\ WorkerTypes' /\ SubmitInv' /\ TopInv' /\
        LeaseInv' /\ SleepInv'
    BY Frame DEF CancelEnds, submitVars, workerVars
  <1>2. SharedTypes'
    BY Types DEF CancelEnds, Failed, history, SharedTypes
  <1>3. QueueTypes'
    BY Types DEF CancelEnds, RetireCancelled, QueueTypes
  <1>4. BoxTypes'
    BY Types DEF CancelEnds, RetireCancelled, Forget, BoxTypes
  <1>5. CutInv'
    BY DEF CancelEnds, Failed, submitVars, IInv, CutInv, Past
  <1>6. QueueInv'
    BY QueueSame DEF CancelEnds, RetireCancelled, submitVars, IInv, QueueInv,
       Early
  <1>7. PlaceInv'
    BY QueueSame DEF CancelEnds, RetireCancelled, submitVars, workerVars,
       history, IInv, PlaceInv, Own, Hands, PendingOf, Early
  <1>8. ControlTypes' /\ ControlInv' /\ ClosedInv' /\ EndInv'
    BY CancelEndsControl
  <1> QED BY <1>1, <1>2, <1>3, <1>4, <1>5, <1>6, <1>7, <1>8, Kept

(* shutdown() asks the workers to stop.                                    *)
LEMMA RequestStopStep ==
  ASSUME IInv, RequestStop
  PROVE  IInv'
  <1>1. QueueTypes' /\ SubmitTypes' /\ CoordTypes' /\ BoxTypes' /\ WorkerTypes' /\
        SubmitInv' /\ CutInv' /\ QueueInv' /\ PlaceInv' /\ TopInv' /\ LeaseInv'
        /\ SleepInv'
    BY Frame DEF RequestStop, OffSome, OffControl, submitVars, coordVars,
       workerVars, history
  <1>2. SharedTypes'
    BY Types DEF RequestStop, OffSome, OffControl, history, SharedTypes
  <1>3. ControlTypes'
    BY Types DEF RequestStop, Go, At, OffSome, ControlTypes, ControlPc,
       Pending
  <1>4. ControlInv'
    BY DEF RequestStop, Go, At, OffSome, OffControl, submitVars, coordVars,
       workerVars, IInv, ControlInv, Past, Cancelling, Pending, Idle
  <1>5. ClosedInv'
    BY DEF RequestStop, Go, At, IInv, ClosedInv, Cancelling
  <1>6. EndInv'
    BY DEF RequestStop, Go, At, OffSome, OffControl, submitVars, coordVars,
       workerVars, IInv, EndInv, Quiet, Closing, Cancelling, Gone
  <1> QED BY <1>1, <1>2, <1>3, <1>4, <1>5, <1>6, Kept

(* shutdown() places the stop token, if there is room.                     *)
LEMMA PlaceStopStep ==
  ASSUME IInv, PlaceStop
  PROVE  IInv'
  <1>1. SharedTypes' /\ SubmitTypes' /\ CoordTypes' /\ BoxTypes' /\ SubmitInv' /\
        CutInv' /\ TopInv'
    BY Frame DEF PlaceStop, OffStop, shared, submitVars, history
  <1>2. QueueTypes'
    BY Types, StopFacts DEF PlaceStop, OffStop, QueueTypes
  <1>3. WorkerTypes'
    BY Types, StopFacts DEF PlaceStop, WakeOne, OffStop, WorkerTypes, WorkerPc
  <1>4. ControlTypes'
    BY Types DEF PlaceStop, Go, At, OffStop, ControlTypes, ControlPc, Pending
  <1>5. ControlInv'
    BY StopFacts DEF PlaceStop, WakeOne, Go, At, OffStop, shared, submitVars,
       IInv, ControlInv, Past, Cancelling, Pending, Idle
  <1>6. ClosedInv'
    BY DEF PlaceStop, Go, At, shared, IInv, ClosedInv, Cancelling
  <1>7. QueueInv'
    BY StopFacts, QueueSame DEF PlaceStop, OffStop, submitVars, IInv,
       QueueInv, Early
  <1>8. PlaceInv'
    BY StopFacts, QueueSame DEF PlaceStop, OffStop, submitVars, history, IInv,
       PlaceInv, Own, Hands, PendingOf, Early
  <1>9. LeaseInv'
    BY StopFacts, QueueSame DEF PlaceStop, OffStop, submitVars, IInv, LeaseInv
  <1>10. SleepInv'
    BY StopFacts, QueueSame, WorkerTyped, SetsTyped DEF PlaceStop, WakeOne,
       OffStop, shared, IInv, SleepInv, Taker
  <1>11. EndInv'
    BY PlaceStopEnd
  <1> QED BY <1>1, <1>2, <1>3, <1>4, <1>5, <1>6, <1>7, <1>8, <1>9, <1>10,
     <1>11, Kept

(* shutdown() closes the queue.                                            *)
LEMMA SealStep ==
  ASSUME IInv, Seal
  PROVE  IInv'
  <1>1. QueueTypes' /\ SubmitTypes' /\ CoordTypes' /\ BoxTypes' /\ SubmitInv' /\
        CutInv' /\ QueueInv' /\ PlaceInv' /\ TopInv' /\ LeaseInv'
    BY Frame DEF Seal, OffStop, submitVars, history
  <1>2. SharedTypes'
    BY Types DEF Seal, OffStop, history, SharedTypes
  <1>3. WorkerTypes'
    BY Types DEF Seal, OffStop, WorkerTypes, WorkerPc
  <1>4. ControlTypes'
    BY Types DEF Seal, Go, At, OffStop, ControlTypes, ControlPc, Pending
  <1>5. ControlInv'
    BY DEF Seal, Go, At, OffStop, submitVars, IInv, ControlInv, Past,
       Cancelling, Pending, Idle
  <1>6. ClosedInv'
    BY DEF Seal, Go, At, IInv, ClosedInv, Cancelling
  <1>7. EndInv'
    BY DEF Seal, Go, At, OffStop, submitVars, IInv, EndInv, Quiet, Closing,
       Cancelling, Gone
  <1>8. SleepInv'
    BY QueueSame DEF Seal, OffStop, IInv, SleepInv, Taker
  <1> QED BY <1>1, <1>2, <1>3, <1>4, <1>5, <1>6, <1>7, <1>8, Kept

(* shutdown() joins the workers.                                           *)
LEMMA JoinStep ==
  ASSUME IInv, Join
  PROVE  IInv'
  <1>1. SharedTypes' /\ QueueTypes' /\ SubmitTypes' /\ CoordTypes' /\ BoxTypes' /\
        WorkerTypes' /\ SubmitInv' /\ CutInv' /\ QueueInv' /\ PlaceInv' /\
        TopInv' /\ LeaseInv' /\ SleepInv'
    BY Frame DEF Join, OffStop, shared, submitVars, history
  <1>2. ControlTypes'
    BY Types DEF Join, Go, At, OffStop, ControlTypes, ControlPc, Pending
  <1>3. ControlInv'
    BY DEF Join, Go, At, OffStop, shared, submitVars, IInv, ControlInv, Past,
       Cancelling, Pending, Idle
  <1>4. ClosedInv'
    BY DEF Join, Go, At, shared, IInv, ClosedInv, Cancelling
  <1>5. EndInv'
    BY DEF Join, Go, At, OffStop, submitVars, IInv, EndInv, Quiet, Closing,
       Cancelling, Gone
  <1> QED BY <1>1, <1>2, <1>3, <1>4, <1>5, Kept

(* shutdown() tells the coordinator to stop.                               *)
LEMMA TellCoordinatorStep ==
  ASSUME IInv, TellCoordinator
  PROVE  IInv'
  <1>1. SharedTypes' /\ QueueTypes' /\ SubmitTypes' /\ BoxTypes' /\ WorkerTypes'
        /\ SubmitInv' /\ CutInv' /\ QueueInv' /\ PlaceInv' /\ TopInv' /\
        LeaseInv' /\ SleepInv'
    BY Frame DEF TellCoordinator, OffStop, shared, submitVars, history
  <1>2. CoordTypes'
    BY Types DEF TellCoordinator, OffStop, CoordTypes, Pending
  <1>3. ControlTypes'
    BY Types DEF TellCoordinator, Go, At, OffStop, ControlTypes, ControlPc,
       Pending
  <1>4. ControlInv'
    BY DEF TellCoordinator, Go, At, OffStop, shared, submitVars, IInv,
       ControlInv, Past, Cancelling, Pending, Idle
  <1>5. ClosedInv'
    BY DEF TellCoordinator, Go, At, shared, IInv, ClosedInv, Cancelling
  <1>6. EndInv'
    BY DEF TellCoordinator, Go, At, OffStop, submitVars, IInv, EndInv, Quiet,
       Closing, Cancelling, Gone
  <1> QED BY <1>1, <1>2, <1>3, <1>4, <1>5, <1>6, Kept

(* shutdown() waits for the coordinator.                                   *)
LEMMA AwaitCoordinatorStep ==
  ASSUME IInv, AwaitCoordinator
  PROVE  IInv'
  <1>1. SharedTypes' /\ QueueTypes' /\ SubmitTypes' /\ CoordTypes' /\ BoxTypes' /\
        WorkerTypes' /\ SubmitInv' /\ CutInv' /\ QueueInv' /\ PlaceInv' /\
        TopInv' /\ LeaseInv' /\ SleepInv'
    BY Frame DEF AwaitCoordinator, OffStop, shared, submitVars, history
  <1>2. ControlTypes'
    BY Types DEF AwaitCoordinator, Go, At, OffStop, ControlTypes, ControlPc,
       Pending
  <1>3. ControlInv'
    BY DEF AwaitCoordinator, Go, At, OffStop, shared, submitVars, IInv,
       ControlInv, Past, Cancelling, Pending, Idle
  <1>4. ClosedInv'
    BY DEF AwaitCoordinator, Go, At, shared, IInv, ClosedInv, Cancelling
  <1>5. EndInv'
    BY DEF AwaitCoordinator, Go, At, OffStop, submitVars, IInv, EndInv, Quiet,
       Closing, Cancelling, Gone
  <1> QED BY <1>1, <1>2, <1>3, <1>4, <1>5, Kept

(* shutdown() drains what is left and answers.                             *)
LEMMA FinishStep ==
  ASSUME IInv, Finish
  PROVE  IInv'
  <1>1. CoordTypes' /\ BoxTypes' /\ WorkerTypes' /\ TopInv'
    BY Frame DEF Finish, coordVars, workerVars
  <1>2. SharedTypes'
    BY Types DEF Finish, history, SharedTypes
  <1>3. QueueTypes'
    BY Types, ReleaseFacts, FinishFacts DEF Finish, QueueTypes
  <1>4. SubmitTypes'
    BY Types, ReleaseFacts DEF Finish, SubmitTypes, SubmitPc
  <1>5. ControlTypes'
    BY Types DEF Finish, Go, NoCancel, At, ControlTypes, ControlPc, Pending
  <1>6. SubmitInv'
    BY ReleaseFacts DEF Finish, Settled, coordVars, IInv, SubmitInv, Early,
       Pending
  <1>7. CutInv'
    BY ReleaseFacts DEF Finish, Settled, IInv, CutInv, Past
  <1>8. ControlInv'
    BY ReleaseFacts DEF Finish, Settled, Go, At, coordVars, workerVars, IInv,
       ControlInv, Past, Cancelling, Pending, Idle
  <1>9. ClosedInv'
    BY DEF Finish, Settled, Go, At, IInv, ClosedInv, Cancelling
  <1>10. LeaseInv'
    BY ReleaseFacts, FinishFacts, QueueSame, PcTyped, WorkerTyped, SetsTyped
       DEF Finish, Settled, workerVars, IInv, LeaseInv
  <1>11. EndInv'
    BY FinishEnd
  <1>12. QueueInv'
    BY FinishQueue
  <1>13. PlaceInv'
    BY FinishPlace
  <1>14. SleepInv'
    BY FinishSleep
  <1> QED BY <1>1, <1>2, <1>3, <1>4, <1>5, <1>6, <1>7, <1>8, <1>9, <1>10,
     <1>11, <1>12, <1>13, <1>14, Kept

(* The runtime is unloaded.                                                *)
LEMMA UnloadStep ==
  ASSUME IInv, Unload
  PROVE  IInv'
  <1>1. SharedTypes' /\ QueueTypes' /\ SubmitTypes' /\ CoordTypes' /\ BoxTypes' /\
        WorkerTypes' /\ SubmitInv' /\ CutInv' /\ ControlInv' /\ ClosedInv' /\
        QueueInv' /\ PlaceInv' /\ TopInv' /\ LeaseInv' /\ SleepInv'
    BY Frame DEF Unload, OffControl, shared, submitVars, coordVars,
       workerVars, history
  <1>2. ControlTypes'
    BY Types DEF Unload, ControlTypes, ControlPc, Pending
  <1>3. EndInv'
    BY DEF Unload, OffControl, submitVars, coordVars, workerVars, IInv,
       EndInv, Quiet, Closing, Cancelling, Gone
  <1> QED BY <1>1, <1>2, <1>3, Kept

-----------------------------------------------------------------------------
(* The invariant and what follows from it.                                 *)

(* It holds at first.                                                      *)
LEMMA InitInvariant == Init => IInv
  <1> SUFFICES ASSUME Init PROVE IInv
    OBVIOUS
  <1>1. SharedTypes /\ QueueTypes
    <2>1. faults \in 0..MaxFault
      BY EngineAssumption DEF Init
    <2>2. queue \in Seq(Request \cup {Stop})
      BY DEF Init
    <2> QED BY <2>1, <2>2 DEF Init, SharedTypes, QueueTypes
  <1>2. SubmitTypes /\ CoordTypes /\ BoxTypes
    BY DEF Init, SubmitTypes, CoordTypes, BoxTypes, SubmitPc
  <1>3. WorkerTypes
    BY DEF Init, WorkerTypes, Idle, WorkerPc
  <1>4. ControlTypes
    BY DEF Init, ControlTypes, At, NoCancel, ControlPc
  <1>5. SubmitInv /\ CutInv
    BY DEF Init, SubmitInv, CutInv, Early
  <1>6. ControlInv /\ ClosedInv /\ EndInv
    BY DEF Init, At, ControlInv, ClosedInv, EndInv, Past, Quiet, Closing, Cancelling
  <1>7. queue = <<>> /\ Queued = {} /\ Distinct(queue, Stop)
    BY DEF Init, Queued, Distinct
  <1>8. QueueInv
    BY <1>7 DEF Init, QueueInv, Early
  <1>9. \A w \in Worker : Own(w) = {} /\ Hands(w) = {} /\ PendingOf(w) = {}
    BY DEF Init, Idle, Own, Hands, PendingOf
  <1>10. PlaceInv
    BY <1>7, <1>9 DEF Init, PlaceInv
  <1>11. TopInv /\ LeaseInv /\ SleepInv
    BY DEF Init, Idle, TopInv, LeaseInv, SleepInv
  <1> QED BY <1>1, <1>2, <1>3, <1>4, <1>5, <1>6, <1>8, <1>10, <1>11, Typed DEF IInv

(* It does not depend on anything but the variables.                       *)
LEMMA StutterInvariant == IInv /\ UNCHANGED vars => IInv'
  <1> SUFFICES ASSUME IInv, UNCHANGED vars PROVE IInv'
    OBVIOUS
  <1>1. UNCHANGED <<state, stopReq, closed, queue, hidden, drainOp, ops, leases, pc, answer,
                    tx, outcome, unresolved>>
    BY DEF vars, shared, queueVars, submitVars
  <1>2. UNCHANGED <<coord, reserved, watched, ledger, box, worker, asleep, mine, ctl, snap,
                    flushed, ok, result, cancelOp, unloaded, ran, dropped, faults>>
    BY DEF vars, coordVars, workerVars, controlVars, history
  <1> QED BY <1>1, <1>2, Frame, Kept

(* Every step preserves it.                                                *)
LEMMA NextInvariant == IInv /\ [Next]_vars => IInv'
  <1> SUFFICES ASSUME IInv, [Next]_vars PROVE IInv'
    OBVIOUS
  <1>1. ASSUME NEW r \in Request, Submitter(r)
        PROVE  IInv'
    BY <1>1, EnterStep, AcquireStep, SleepForSlotStep, RejectEarlyStep, ReserveStep,
       RefusedStep, PublishStep, PublishRaisesStep, RecoverStep, CompleteStep,
       CompleteTimeoutStep, UndoStep
       DEF Submitter
  <1>2. ASSUME NEW w \in Worker, WorkerStep(w) \/ Executed(w)
        PROVE  IInv'
    BY <1>2, RetireMineStep, TakeStep, TakePendingStep, SleepOrLeaveStep, DequeuedStep,
       TakeCandidateStep, AwaitCandidateStep, CandidateStep, ExecuteStep, PassStopStep,
       ExecutedStep, HandOffStep, AfterStep, LeaveStep, CrashStep, FailSubmitStep,
       FailAckedStep
       DEF WorkerStep
  <1>3. ASSUME Coordinator \/ CoordFails
        PROVE  IInv'
    BY <1>3, HandleStep, FailOutstandingStep, CoordEndsStep, WatchStep, CoordFailsStep
       DEF Coordinator
  <1>4. ASSUME Cancellation
        PROVE  IInv'
    BY <1>4, CollectStep, CollectAgainStep, CancelSubmitStep, CancelEndsStep, RetireCancelStep
       DEF Cancellation
  <1>5. ASSUME Controller
        PROVE  IInv'
    BY <1>4, <1>5, StartStep, ProducedStep, CloseSubmissionStep, SnapshotStep, FlushStep,
       FlushTimeoutStep, FlushFailsStep, ResumeStep, ResumedStep, WaitForSubmittersStep,
       RequestStopStep, PlaceStopStep, SealStep, JoinStep, TellCoordinatorStep,
       AwaitCoordinatorStep, FinishStep, UnloadStep
       DEF Controller
  <1> QED BY <1>1, <1>2, <1>3, <1>5, StutterInvariant DEF Next

(* The inductive invariant holds in every state.                           *)
THEOREM Invariance == Spec => []IInv
  BY InitInvariant, NextInvariant, PTL DEF Spec

(* Every variable keeps to its type.                                       *)
THEOREM TypeCorrect == Spec => []TypeOK
  <1>1. IInv => TypeOK
    BY DEF IInv
  <1> QED BY <1>1, Invariance, PTL

(* No slot leaks: whatever the threads do, somebody is left who gives it   *)
(* back.                                                                   *)
THEOREM SlotsHaveOwners == Spec => []LeaseHasOwner
  <1>1. IInv => LeaseHasOwner
    <2> SUFFICES ASSUME IInv, NEW r \in leases
                 PROVE  \/ r \in Request
                           /\ pc[r] \notin {"idle", "entered", "asleep", "returned"}
                        \/ r \in Queued \cup unresolved
                        \/ \E w \in Worker :
                             /\ worker[w].pc \in {"dequeued", "candidate", "crashed"}
                             /\ r \in worker[w].owned \cup PendingOf(w)
      BY DEF LeaseHasOwner
    <2>1. r \in Request /\ r # None
      BY Types, EngineAssumption DEF QueueTypes
    <2> QED BY <2>1 DEF IInv, LeaseInv, PendingOf
  <1> QED BY <1>1, Invariance, PTL

(* A request that was taken back is not run as well.                       *)
THEOREM RunOrDropped == Spec => []NeverRunAndDropped
  <1>1. IInv => NeverRunAndDropped
    BY DEF IInv, PlaceInv, NeverRunAndDropped
  <1> QED BY <1>1, Invariance, PTL

(* shutdown() answers True only for an engine with nothing left to do.     *)
THEOREM TrueIsSettled == Spec => []TrueMeansSettled
  <1>1. IInv => TrueMeansSettled
    <2> SUFFICES ASSUME IInv, result = "true"
                 PROVE  /\ Pending = {} /\ leases = {} /\ tx = {} /\ reserved = {}
                        /\ \A r \in Request : outcome[r] = "accepted" => ledger[r] = "done"
                        /\ \A w \in Worker : Gone(w)
                        /\ coord = "stopped"
      BY DEF TrueMeansSettled
    <2>1. /\ \A r \in Request : pc[r] \in {"idle", "returned"}
          /\ coord = "stopped" /\ reserved = {} /\ unresolved = {} /\ leases = {}
          /\ \A w \in Worker : Gone(w)
      BY DEF IInv, EndInv
    <2>2. Pending = {}
      BY <2>1 DEF IInv, ControlInv
    <2>3. tx = {}
      BY <2>1, Types DEF IInv, SubmitInv, SubmitTypes
    <2>4. \A r \in Request : outcome[r] = "accepted" => ledger[r] = "done"
      BY <2>1, <2>2, Types DEF IInv, SubmitInv, CoordTypes, Pending
    <2> QED BY <2>1, <2>2, <2>3, <2>4
  <1> QED BY <1>1, Invariance, PTL

(* main.py does not unload the runtime under a worker that may use it.     *)
THEOREM UnloadIsSafe == Spec => []UnloadedOnlyWhenIdle
  <1>1. IInv => UnloadedOnlyWhenIdle
    BY DEF IInv, EndInv, UnloadedOnlyWhenIdle
  <1> QED BY <1>1, Invariance, PTL

(* No wake-up is lost between the queue and its workers.                   *)
THEOREM NobodyOversleeps == Spec => []NoSleepOnWork
  <1>1. IInv => NoSleepOnWork
    BY DEF IInv, SleepInv, Taker, NoSleepOnWork
  <1> QED BY <1>1, Invariance, PTL

-----------------------------------------------------------------------------
(* The engine keeps EngineContract.                                        *)

Fate == [r \in Request |-> IF ledger[r] = "done" THEN "ended" ELSE outcome[r]]
Open == state \in {"created", "running"}

(* A step without a promise leaves open what it likes but opens nothing.   *)
Promised == UNCHANGED <<ledger, outcome, answer, result>>
OpensNothing == Open' \in {Open, FALSE}

(* Submissions that are closed after a step were not opened by it.         *)
LEMMA Closes ==
  ASSUME ~Open'
  PROVE  OpensNothing
  <1>1. Open' = FALSE
    BY DEF Open
  <1> QED BY <1>1 DEF OpensNothing

(* Nor were they by a step that leaves the state as it is, or fails it.    *)
LEMMA StateCloses ==
  ASSUME state' \in {state, Failed}
  PROVE  OpensNothing
  <1>1. CASE state' = state
    <2>1. Open' = Open
      BY <1>1 DEF Open
    <2> QED BY <2>1 DEF OpensNothing
  <1>2. CASE state' # state
    <2>1. ~Open'
      BY <1>2 DEF Open, Failed
    <2> QED BY <2>1, Closes
  <1> QED BY <1>1, <1>2

(* An unpromising step is a stutter of the contract, or closes it.         *)
LEMMA NothingPromised ==
  ASSUME Promised, OpensNothing
  PROVE  [Contract!Next]_(Contract!vars)
  <1>1. Fate' = Fate /\ UNCHANGED <<answer, result>>
    BY DEF Promised, Fate
  <1>2. CASE Open' = Open
    BY <1>1, <1>2 DEF Contract!vars, Fate, Open
  <1>3. CASE Open' = FALSE
    <2>1. Contract!Close
      BY <1>1, <1>3 DEF Contract!Close, Fate, Open
    <2> QED BY <2>1 DEF Contract!Next
  <1> QED BY <1>2, <1>3 DEF OpensNothing

(* submit() answers according to what became of the request.               *)
LEMMA Answered ==
  ASSUME NEW r \in Request, answer[r] = "none", Fate' = Fate, UNCHANGED result,
         OpensNothing,
         \/ Fate[r] \in {"accepted", "ended"} /\ answer' = [answer EXCEPT ![r] = "true"]
         \/ Fate[r] = "rejected" /\ answer' = [answer EXCEPT ![r] = "false"]
         \/ answer' = [answer EXCEPT ![r] = "raised"]
  PROVE  [Contract!Next]_(Contract!vars)
  <1>1. Contract!Answer(r)
    BY DEF Contract!Answer, Contract!MayClose, OpensNothing, Fate, Open
  <1> QED BY <1>1 DEF Contract!Next

(* An acceptance is recorded.                                              *)
LEMMA Accepted ==
  ASSUME NEW r \in Request, Open, Fate[r] = "none", Fate' = [Fate EXCEPT ![r] = "accepted"],
         UNCHANGED <<answer, result>>, OpensNothing
  PROVE  [Contract!Next]_(Contract!vars)
  <1>1. Contract!Accept(r)
    BY DEF Contract!Accept, Contract!MayClose, OpensNothing, Fate, Open
  <1> QED BY <1>1 DEF Contract!Next

(* Rejections are recorded, and perhaps answered in the same step.         *)
LEMMA Rejected ==
  ASSUME NEW S \in SUBSET Request, \A r \in S : Fate[r] = "none",
         Fate' = [r \in Request |-> IF r \in S THEN "rejected" ELSE Fate[r]],
         \/ UNCHANGED answer
         \/ \E r \in S : answer[r] = "none" /\ answer' = [answer EXCEPT ![r] = "false"],
         UNCHANGED result, OpensNothing
  PROVE  [Contract!Next]_(Contract!vars)
  <1>1. Contract!Reject(S)
    BY DEF Contract!Reject, Contract!MayClose, OpensNothing, Fate, Open
  <1> QED BY <1>1 DEF Contract!Next

(* The same, of one request.                                               *)
LEMMA RejectedOne ==
  ASSUME NEW r \in Request, Fate[r] = "none",
         \A q \in Request : Fate'[q] = (IF q = r THEN "rejected" ELSE Fate[q]),
         \/ UNCHANGED answer
         \/ answer[r] = "none" /\ answer' = [answer EXCEPT ![r] = "false"],
         UNCHANGED result, OpensNothing
  PROVE  [Contract!Next]_(Contract!vars)
  <1>1. Fate' = [q \in Request |-> IF q \in {r} THEN "rejected" ELSE Fate[q]]
    BY DEF Fate
  <1>2. {r} \in SUBSET Request /\ \A q \in {r} : Fate[q] = "none"
    OBVIOUS
  <1>3. \/ UNCHANGED answer
        \/ \E q \in {r} : answer[q] = "none" /\ answer' = [answer EXCEPT ![q] = "false"]
    OBVIOUS
  <1> QED BY <1>1, <1>2, <1>3, Rejected

(* Ends of accepted requests are recorded.                                 *)
LEMMA EndRecorded ==
  ASSUME NEW S \in SUBSET Request, \A r \in S : Fate[r] = "accepted",
         Fate' = [r \in Request |-> IF r \in S THEN "ended" ELSE Fate[r]],
         UNCHANGED <<answer, result>>, OpensNothing
  PROVE  [Contract!Next]_(Contract!vars)
  <1>1. Contract!End(S)
    BY DEF Contract!End, Contract!MayClose, OpensNothing, Fate, Open
  <1> QED BY <1>1 DEF Contract!Next

(* Terminal records are given to requests that are pending.                *)
LEMMA Ended ==
  ASSUME IInv, NEW S, End(S), UNCHANGED <<state, outcome, answer, result>>
  PROVE  [Contract!Next]_(Contract!vars)
  <1> DEFINE D == S \cap Pending
  <1>1. D \in SUBSET Request /\ \A r \in D : ledger[r] = "pending"
    BY DEF Pending
  <1>2. \A r \in D : Fate[r] = "accepted"
    BY <1>1 DEF Fate, IInv, SubmitInv
  <1>3. \A r \in Request : ledger'[r] = (IF r \in D THEN "done" ELSE ledger[r])
    BY DEF End
  <1>4. Fate' = [r \in Request |-> IF r \in D THEN "ended" ELSE Fate[r]]
    BY <1>3 DEF Fate
  <1>5. OpensNothing
    BY StateCloses
  <1> HIDE DEF D
  <1> QED BY <1>1, <1>2, <1>4, <1>5, EndRecorded

(* What became of a request as seen from the place its submitter is at.    *)
LEMMA SubmitFate ==
  ASSUME IInv, NEW r \in Request
  PROVE  /\ pc[r] # "returned" => answer[r] = "none"
         /\ pc[r] \in Early \cup {"recovering"} => Fate[r] = outcome[r] /\ ledger[r] = "none"
         /\ pc[r] \in {"published", "recovering"} => Fate[r] \in {"accepted", "ended"}
  BY DEF IInv, SubmitInv, Fate

(* What submit() does, step by step.                                       *)
LEMMA SubmitterKeeps ==
  ASSUME IInv, NEW r \in Request, Submitter(r)
  PROVE  [Contract!Next]_(Contract!vars)
  <1>1. CASE Acquire(r) \/ SleepForSlot(r) \/ Reserve(r)
    <2>1. Promised /\ state' = state
      BY <1>1 DEF Acquire, SleepForSlot, Reserve, Promised, shared, coordVars, controlVars
    <2> QED BY <2>1, StateCloses, NothingPromised
  <1>2. CASE Enter(r)
    <2>1. UNCHANGED <<state, ledger, outcome, result>>
      BY <1>2 DEF Enter, shared, coordVars, controlVars
    <2>2. answer' = answer \/ (answer[r] = "none" /\ answer' = [answer EXCEPT ![r] = "raised"])
      BY <1>2, SubmitFate DEF Enter
    <2>3. Fate' = Fate
      BY <2>1 DEF Fate
    <2> QED BY <2>1, <2>2, <2>3, StateCloses, NothingPromised, Answered DEF Promised
  <1>3. CASE RejectEarly(r)
    <2>1. /\ pc[r] \in {"entered", "asleep"} /\ outcome' = [outcome EXCEPT ![r] = "rejected"]
          /\ answer' = [answer EXCEPT ![r] = "false"]
          /\ UNCHANGED <<state, ledger, result>>
      BY <1>3 DEF RejectEarly, shared, coordVars, controlVars
    <2>2. Fate[r] = "none" /\ answer[r] = "none" /\ ledger[r] = "none"
      BY <2>1, SubmitFate DEF IInv, SubmitInv, Early
    <2>3. \A q \in Request : Fate'[q] = (IF q = r THEN "rejected" ELSE Fate[q])
      BY <2>1, <2>2, Types DEF Fate, SubmitTypes
    <2>4. OpensNothing
      BY <2>1, StateCloses
    <2> QED BY <2>1, <2>2, <2>3, <2>4, RejectedOne
  <1>4. CASE Refused(r)
    <2>1. /\ pc[r] \in {"leased", "reserved"} /\ state' \in {state, Failed}
          /\ Journal(r, "rejected") /\ UNCHANGED <<ledger, answer, result>>
      BY <1>4 DEF Refused, Reject, coordVars, controlVars
    <2>2. ledger[r] = "none" /\ Fate[r] = outcome[r] /\ outcome[r] \in {"none", "rejected"}
      BY <2>1, SubmitFate DEF IInv, SubmitInv, Early
    <2>3. outcome' = [outcome EXCEPT ![r] = "rejected"]
      BY <2>1, <2>2, Types DEF Journal, SubmitTypes
    <2>4. CASE outcome[r] = "none"
      <3>1. \A q \in Request : Fate'[q] = (IF q = r THEN "rejected" ELSE Fate[q])
        BY <2>1, <2>2, <2>3, Types DEF Fate, SubmitTypes
      <3>2. OpensNothing
        BY <2>1, StateCloses
      <3> QED BY <2>1, <2>2, <2>4, <3>1, <3>2, RejectedOne
    <2>5. CASE outcome[r] = "rejected"
      <3>1. outcome' = outcome
        BY <2>3, <2>5, Types DEF SubmitTypes
      <3> QED BY <2>1, <3>1, StateCloses, NothingPromised DEF Promised
    <2> QED BY <2>2, <2>4, <2>5
  <1>5. CASE Publish(r)
    <2>1. Fate[r] = "none" /\ ledger[r] = "none" /\ outcome[r] = "none" /\ Open
      BY <1>5, PublishMoves, SubmitFate DEF IInv, SubmitInv, CutInv, Early, Open
    <2>2. /\ outcome' = [outcome EXCEPT ![r] = "accepted"]
          /\ ledger' = [ledger EXCEPT ![r] = "pending"]
      BY <1>5, <2>1, PublishMoves, Types DEF SubmitTypes
    <2>3. Fate' = [Fate EXCEPT ![r] = "accepted"]
      BY <2>1, <2>2, Types DEF Fate, SubmitTypes, CoordTypes
    <2>4. UNCHANGED <<state, answer, result>>
      BY <1>5, PublishMoves DEF shared, controlVars
    <2> QED BY <2>1, <2>3, <2>4, StateCloses, Accepted
  <1>6. CASE PublishRaises(r)
    <2>1. /\ pc[r] = "reserved" /\ state = "running" /\ UNCHANGED <<ledger, result>>
          /\ \/ Journal(r, "accepted") /\ UNCHANGED <<state, answer>>
             \/ /\ answer' = [answer EXCEPT ![r] = "raised"] /\ state' = Failed
                /\ UNCHANGED outcome
      BY <1>6 DEF PublishRaises, coordVars, controlVars
    <2>2. Fate[r] = "none" /\ ledger[r] = "none" /\ outcome[r] = "none" /\ answer[r] = "none"
      BY <2>1, SubmitFate DEF IInv, SubmitInv, CutInv, Early
    <2>3. CASE Journal(r, "accepted") /\ UNCHANGED <<state, answer>>
      <3>1. Fate' = [Fate EXCEPT ![r] = "accepted"]
        BY <2>1, <2>2, <2>3, Types DEF Fate, SubmitTypes, Journal
      <3> QED BY <2>1, <2>2, <2>3, <3>1, StateCloses, Accepted DEF Open
    <2>4. CASE /\ answer' = [answer EXCEPT ![r] = "raised"] /\ state' = Failed
               /\ UNCHANGED outcome
      <3>1. Fate' = Fate
        BY <2>1, <2>4 DEF Fate
      <3> QED BY <2>1, <2>2, <2>4, <3>1, StateCloses, Answered
    <2> QED BY <2>1, <2>3, <2>4
  <1>7. CASE Recover(r) \/ CompleteTimeout(r)
    <2>1. /\ pc[r] \in {"recovering", "published"} /\ state' \in {state, Failed}
          /\ answer' = [answer EXCEPT ![r] = "raised"] /\ UNCHANGED <<outcome, result>>
          /\ \/ UNCHANGED ledger
             \/ pc[r] = "recovering" /\ ledger' = [ledger EXCEPT ![r] = "pending"]
      BY <1>7 DEF Recover, CompleteTimeout, coordVars, controlVars
    <2>2. \A q \in Request : ledger'[q] = "done" <=> ledger[q] = "done"
      BY <2>1, SubmitFate, Types DEF CoordTypes
    <2>3. Fate' = Fate
      BY <2>1, <2>2 DEF Fate
    <2>4. answer[r] = "none"
      BY <2>1, SubmitFate
    <2> QED BY <2>1, <2>3, <2>4, StateCloses, Answered
  <1>8. CASE Complete(r)
    <2>1. /\ pc[r] = "published" /\ answer' = [answer EXCEPT ![r] = "true"]
          /\ UNCHANGED <<state, outcome, ledger, result>>
      BY <1>8 DEF Complete, shared, coordVars, controlVars
    <2>2. Fate' = Fate
      BY <2>1 DEF Fate
    <2>3. answer[r] = "none" /\ Fate[r] \in {"accepted", "ended"}
      BY <2>1, SubmitFate
    <2> QED BY <2>1, <2>2, <2>3, StateCloses, Answered
  <1>9. CASE Undo(r)
    <2>1. /\ pc[r] \in {"rejecting", "raising"}
          /\ \/ answer' = [answer EXCEPT ![r] = "false"]
             \/ answer' = [answer EXCEPT ![r] = "raised"]
          /\ UNCHANGED <<state, outcome, ledger, result>>
      BY <1>9 DEF Undo, shared, controlVars
    <2>2. Fate' = Fate
      BY <2>1 DEF Fate
    <2>3. answer[r] = "none" /\ Fate[r] = "rejected"
      BY <2>1, SubmitFate DEF IInv, SubmitInv, Early
    <2> QED BY <2>1, <2>2, <2>3, StateCloses, Answered
  <1> QED BY <1>1, <1>2, <1>3, <1>4, <1>5, <1>6, <1>7, <1>8, <1>9 DEF Submitter

(* Workers promise nothing.                                                *)
LEMMA WorkerKeeps ==
  ASSUME IInv, NEW w \in Worker, WorkerStep(w) \/ Executed(w)
  PROVE  [Contract!Next]_(Contract!vars)
  <1>1. CASE \/ Take(w) \/ TakePending(w) \/ SleepOrLeave(w) \/ TakeCandidate(w)
             \/ AwaitCandidate(w) \/ Execute(w) \/ PassStop(w) \/ After(w) \/ Leave(w)
    <2>1. UNCHANGED OffQueue
      BY <1>1 DEF Take, TakePending, SleepOrLeave, TakeCandidate, AwaitCandidate, Execute,
         PassStop, After, Leave, OffQueue
    <2>2. Promised /\ state' = state
      BY <2>1 DEF OffQueue, Promised, shared, submitVars, coordVars, controlVars
    <2> QED BY <2>2, StateCloses, NothingPromised
  <1>2. CASE RetireMine(w) \/ Dequeued(w) \/ Candidate(w)
    <2>1. Promised /\ state' = state
      BY <1>2
      DEF RetireMine, Dequeued, Candidate, Promised, shared, submitVars, coordVars, controlVars
    <2> QED BY <2>1, StateCloses, NothingPromised
  <1>3. CASE HandOff(w) \/ FailSubmit(w) \/ FailAcked(w)
    <2>1. Promised /\ state' = state
      BY <1>3 DEF HandOff, FailSubmit, FailAcked, Promised, shared, submitVars, controlVars
    <2> QED BY <2>1, StateCloses, NothingPromised
  <1>4. CASE Executed(w)
    <2>1. Promised /\ state' \in {state, Failed}
      BY <1>4 DEF Executed, Promised, submitVars, coordVars, controlVars
    <2> QED BY <2>1, StateCloses, NothingPromised
  <1>5. CASE Crash(w)
    <2>1. Promised /\ state' \in {state, Failed}
      BY <1>5 DEF Crash, Promised, coordVars, controlVars
    <2> QED BY <2>1, StateCloses, NothingPromised
  <1> QED BY <1>1, <1>2, <1>3, <1>4, <1>5 DEF WorkerStep

(* The coordinator gives pending requests their terminal records.          *)
LEMMA CoordinatorKeeps ==
  ASSUME IInv, Coordinator \/ CoordFails
  PROVE  [Contract!Next]_(Contract!vars)
  <1>1. ASSUME NEW h \in box, Handle(h)
        PROVE  [Contract!Next]_(Contract!vars)
    <2>1. End(h.of) /\ UNCHANGED <<state, outcome, answer, result>>
      BY <1>1 DEF Handle, OffCoord, shared, submitVars, controlVars
    <2> QED BY <2>1, Ended
  <1>2. CASE FailOutstanding \/ CoordEnds
    <2>1. End(Request) /\ UNCHANGED <<state, outcome, answer, result>>
      BY <1>2 DEF FailOutstanding, CoordEnds, OffCoord, shared, submitVars, controlVars
    <2> QED BY <2>1, Ended
  <1>3. CASE Watch \/ CoordFails
    <2>1. Promised /\ state' \in {state, Failed}
      BY <1>3 DEF Watch, CoordFails, OffCoord, shared, submitVars, controlVars, Promised
    <2> QED BY <2>1, StateCloses, NothingPromised
  <1> QED BY <1>1, <1>2, <1>3 DEF Coordinator

(* At its end shutdown() speaks for every request that was accepted.       *)
LEMMA FinishKeeps ==
  ASSUME IInv, Finish
  PROVE  [Contract!Next]_(Contract!vars)
  <1>1. /\ ctl.at = "finishing" /\ result' = (IF ok /\ Settled THEN "true" ELSE "false")
        /\ state' \in {"stopped", "failed"} /\ UNCHANGED <<outcome, ledger, answer>>
    BY DEF Finish, coordVars
  <1>2. result = "none" /\ ~Open
    BY <1>1, NoResult DEF IInv, ControlInv, Past, Cancelling, Open
  <1>3. ok => \A r \in Request : Fate[r] # "accepted"
    <2> SUFFICES ASSUME ok, NEW r \in Request PROVE Fate[r] # "accepted"
      OBVIOUS
    <2>1. coord = "stopped" /\ reserved = {}
      BY <1>1 DEF IInv, EndInv
    <2>2. ledger[r] # "pending"
      BY <2>1 DEF IInv, ControlInv, Pending
    <2>3. ledger[r] \in {"none", "done"}
      BY <2>2, Types DEF CoordTypes
    <2>4. ledger[r] = "none" => outcome[r] # "accepted"
      BY <2>1 DEF IInv, SubmitInv
    <2> QED BY <2>3, <2>4 DEF Fate
  <1>4. Fate' = Fate /\ ~Open'
    BY <1>1 DEF Fate, Open
  <1>5. OpensNothing /\ UNCHANGED answer
    BY <1>1, <1>4, Closes
  <1>6. \/ result' = "true" /\ \A r \in Request : Fate[r] # "accepted"
        \/ result' = "false"
    BY <1>1, <1>3
  <1>7. Contract!Shutdown
    BY <1>2, <1>4, <1>5, <1>6
    DEF Contract!Shutdown, Contract!MayClose, OpensNothing, Fate, Open
  <1> QED BY <1>7 DEF Contract!Next

(* A submission that is cut off before it decided anything is rejected.    *)
LEMMA WaitKeeps ==
  ASSUME IInv, WaitForSubmitters
  PROVE  [Contract!Next]_(Contract!vars)
  <1>1. /\ state' \in {state, Failed} /\ UNCHANGED <<ledger, answer, result>>
        /\ \/ UNCHANGED outcome
           \/ outcome' = [r \in Request |-> IF r \in Undecided THEN "rejected" ELSE outcome[r]]
    BY DEF WaitForSubmitters
  <1>2. CASE UNCHANGED outcome
    BY <1>1, <1>2, StateCloses, NothingPromised DEF Promised
  <1>3. CASE outcome' = [r \in Request |-> IF r \in Undecided THEN "rejected" ELSE outcome[r]]
    <2>1. Undecided \in SUBSET Request
      BY Types DEF Undecided, SubmitTypes
    <2>2. \A r \in Undecided : Fate[r] = "none" /\ ledger[r] = "none"
      BY <2>1, SubmitFate DEF Undecided, Early
    <2>3. Fate' = [r \in Request |-> IF r \in Undecided THEN "rejected" ELSE Fate[r]]
      BY <1>1, <1>3, <2>1, <2>2 DEF Fate
    <2> QED BY <1>1, <2>1, <2>2, <2>3, StateCloses, Rejected
  <1> QED BY <1>1, <1>2, <1>3

(* The controller otherwise promises nothing and, after start(), opens     *)
(* nothing.                                                                *)
LEMMA ControllerKeeps ==
  ASSUME IInv, Controller
  PROVE  [Contract!Next]_(Contract!vars)
  <1>1. CASE Start
    <2>1. Promised /\ Open
      BY <1>1, StartMoves DEF Promised, Open, submitVars, coordVars
    <2>2. Open' = Open \/ ~Open'
      BY <1>1, <2>1, StartMoves DEF Open
    <2>3. OpensNothing
      BY <2>2, Closes DEF OpensNothing
    <2> QED BY <2>1, <2>3, NothingPromised
  <1>2. CASE \/ Produced \/ CloseSubmission \/ Snapshot \/ Resume \/ Resumed \/ RequestStop
             \/ CollectAgain
    <2>1. Promised
      BY <1>2 DEF Produced, CloseSubmission, Snapshot, Resume, Resumed, RequestStop,
         CollectAgain, OffSome, OffControl, submitVars, coordVars, Promised
    <2>2. state' = state \/ state' = "draining"
      BY <1>2 DEF Produced, CloseSubmission, Snapshot, Resume, Resumed, RequestStop,
         CollectAgain, shared
    <2>3. CASE state' = state
      BY <2>1, <2>3, StateCloses, NothingPromised
    <2>4. CASE state' = "draining"
      <3>1. ~Open'
        BY <2>4 DEF Open
      <3> QED BY <2>1, <3>1, Closes, NothingPromised
    <2> QED BY <2>2, <2>3, <2>4
  <1>3. CASE Flush \/ FlushTimeout \/ FlushFails
    <2>1. Promised
      BY <1>3 DEF Flush, FlushTimeout, FlushFails, FlushEnds, Promised
    <2>2. state' \in {state, Failed}
      BY <1>3 DEF Flush, FlushTimeout, FlushFails
    <2> QED BY <2>1, <2>2, StateCloses, NothingPromised
  <1>4. CASE PlaceStop \/ Seal \/ Join \/ TellCoordinator \/ AwaitCoordinator
    <2>1. Promised /\ state' = state
      BY <1>4 DEF PlaceStop, Seal, Join, TellCoordinator, AwaitCoordinator, OffStop, shared,
         submitVars, Promised
    <2> QED BY <2>1, StateCloses, NothingPromised
  <1>5. CASE Unload \/ RetireCancel
    <2>1. Promised /\ state' = state
      BY <1>5 DEF Unload, RetireCancel, OffControl, shared, submitVars, coordVars, Promised
    <2> QED BY <2>1, StateCloses, NothingPromised
  <1>6. CASE Collect
    <2>1. Promised /\ state' = state
      BY <1>6, CollectMoves DEF shared, coordVars, Promised
    <2> QED BY <2>1, StateCloses, NothingPromised
  <1>7. CASE CancelSubmit \/ CancelEnds
    <2>1. Promised /\ state' \in {state, Failed}
      BY <1>7 DEF CancelSubmit, CancelEnds, submitVars, Promised
    <2> QED BY <2>1, StateCloses, NothingPromised
  <1> QED BY <1>1, <1>2, <1>3, <1>4, <1>5, <1>6, <1>7, FinishKeeps, WaitKeeps
          DEF Controller, Cancellation

(* The engine implements its contract: what submit() answers agrees with   *)
(* what becomes of the request, a request is accepted, rejected and ended  *)
(* once, and True from shutdown() leaves nothing accepted without an end.  *)
THEOREM Implements == Spec => ImplementsContract
  <1>1. Init => Contract!Init
    BY DEF Init, Contract!Init
  <1>2. ASSUME UNCHANGED vars
        PROVE  [Contract!Next]_(Contract!vars)
    <2>1. Promised /\ state' = state
      BY <1>2 DEF vars, Promised, shared, submitVars, coordVars, controlVars
    <2> QED BY <2>1, StateCloses, NothingPromised
  <1>3. IInv /\ [Next]_vars => [Contract!Next]_(Contract!vars)
    BY <1>2, SubmitterKeeps, WorkerKeeps, CoordinatorKeeps, ControllerKeeps DEF Next
  <1> QED BY <1>1, <1>3, Invariance, PTL DEF Spec, ImplementsContract, Contract!Spec
=============================================================================
