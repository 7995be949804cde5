--------------------------- MODULE SemaphoreProofs ---------------------------
(***************************************************************************)
(* Proofs about SemaphoreCloser, for any number of threads and any         *)
(* capacity, with any mixture of cancellations and closers.                *)
(***************************************************************************)
EXTENDS SemaphoreCloser, SequenceTheorems, FiniteSetTheorems, TLAPS

(* What is left of a queue when its i-th element leaves.                   *)
LEMMA RemoveAtProperties ==
    ASSUME NEW S, NEW q \in Seq(S), NEW i \in 1..Len(q)
    PROVE  /\ RemoveAt(q, i) \in Seq(S)
           /\ Len(RemoveAt(q, i)) = Len(q) - 1
           /\ \A j \in 1..(Len(q) - 1) :
                RemoveAt(q, i)[j] = IF j < i THEN q[j] ELSE q[j + 1]
<1> DEFINE a == SubSeq(q, 1, i - 1)
           b == SubSeq(q, i + 1, Len(q))
<1>1. Len(q) \in Nat /\ \A j \in 1..Len(q) : q[j] \in S
  BY LenProperties, ElementOfSeq
<1>2. /\ a \in Seq(S) /\ Len(a) = i - 1
      /\ \A j \in 1..(i - 1) : a[j] = q[j]
  <2>1. i - 1 \in Int /\ 1 \in Int /\ \A j \in 1..(i - 1) : q[j] \in S
    BY <1>1
  <2> QED
    BY <1>1, <2>1, SubSeqProperties
<1>3. /\ b \in Seq(S) /\ Len(b) = Len(q) - i
      /\ \A j \in 1..(Len(q) - i) : b[j] = q[j + i]
  <2>1. i + 1 \in Int /\ Len(q) \in Int
        /\ \A j \in (i + 1)..Len(q) : q[j] \in S
    BY <1>1
  <2>2. /\ b \in Seq(S)
        /\ Len(b) = IF i + 1 <= Len(q) THEN Len(q) - (i + 1) + 1 ELSE 0
        /\ \A j \in 1..(Len(q) - (i + 1) + 1) : b[j] = q[(i + 1) + j - 1]
    BY <2>1, SubSeqProperties
  <2> QED
    BY <1>1, <2>2
<1>4. /\ a \o b \in Seq(S)
      /\ Len(a \o b) = Len(a) + Len(b)
      /\ \A j \in 1..(Len(a) + Len(b)) :
           (a \o b)[j] = IF j <= Len(a) THEN a[j] ELSE b[j - Len(a)]
  BY <1>2, <1>3, ConcatProperties
<1>5. RemoveAt(q, i) = a \o b
  BY DEF RemoveAt
<1> HIDE DEF a, b
<1>6. Len(a) + Len(b) = Len(q) - 1
  BY <1>1, <1>2, <1>3
<1>7. ASSUME NEW j \in 1..(Len(q) - 1)
      PROVE  RemoveAt(q, i)[j] = IF j < i THEN q[j] ELSE q[j + 1]
  <2>1. (a \o b)[j] = IF j <= Len(a) THEN a[j] ELSE b[j - Len(a)]
    BY <1>4, <1>6
  <2>2. CASE j < i
    <3>1. j \in 1..(i - 1) /\ j <= Len(a)
      BY <1>1, <1>2, <2>2
    <3> QED
      BY <1>2, <1>5, <2>1, <2>2, <3>1
  <2>3. CASE ~(j < i)
    <3>1. /\ ~(j <= Len(a)) /\ j - Len(a) \in 1..(Len(q) - i)
          /\ (j - Len(a)) + i = j + 1
      BY <1>1, <1>2, <2>3
    <3>2. b[j - Len(a)] = q[(j - Len(a)) + i]
      BY <1>3, <3>1
    <3> QED
      BY <1>5, <2>1, <2>3, <3>1, <3>2
  <2> QED
    BY <2>2, <2>3
<1> QED
  BY <1>4, <1>5, <1>6, <1>7

(* notify keeps the types of what it writes.                               *)
LEMMA NotifyType ==
    ASSUME TypeOK, NEW c \in 0..MaxUint, NEW q \in Seq(Threads),
           NEW r \in [Threads -> Readys], notify(c, q, r)
    PROVE  /\ cur' \in 0..MaxUint
           /\ waiters' \in Seq(Threads)
           /\ ready' \in [Threads -> Readys]
<1>1. MaxUint \in Nat
  BY SizeAssumption
<1>2. CASE Grants(c, q)
  <2>1. Head(q) \in Threads /\ Tail(q) \in Seq(Threads)
    BY <1>2, HeadTailProperties DEF Grants
  <2>2. cur' = c + 1 /\ c < size
    BY <1>2 DEF notify, Grants
  <2>3. cur' \in 0..MaxUint
    BY <1>1, <2>2 DEF TypeOK
  <2>4. waiters' \in Seq(Threads)
    BY <1>2, <2>1 DEF notify
  <2>5. ready' \in [Threads -> Readys]
    BY <1>2, <2>1 DEF notify, Readys
  <2> QED
    BY <2>3, <2>4, <2>5
<1>3. CASE ~Grants(c, q)
  BY <1>3 DEF notify
<1> QED
  BY <1>2, <1>3

(* So does acquireInternal.                                                *)
LEMMA AcquireInternalType ==
    ASSUME TypeOK, NEW t \in Threads, NEW n \in 1..MaxUint,
           NEW q \in Seq(Threads), NEW ctx \in BOOLEAN,
           acquireInternal(t, n, q, ctx)
    PROVE  /\ size' \in 1..MaxUint
           /\ cur' \in 0..MaxUint
           /\ waiters' \in Seq(Threads)
           /\ pc' \in [Threads -> PCs]
<1>1. MaxUint \in Nat
  BY SizeAssumption
<1>2. Append(q, t) \in Seq(Threads)
  BY AppendProperties
<1>3. size' \in 1..MaxUint
  BY DEF acquireInternal
<1>4. cur' \in 0..MaxUint
  BY <1>1 DEF acquireInternal, TypeOK
<1>5. waiters' \in Seq(Threads)
  BY <1>2 DEF acquireInternal
<1>6. pc' \in [Threads -> PCs]
  BY DEF acquireInternal, TypeOK, PCs, Returned
<1> QED
  BY <1>3, <1>4, <1>5, <1>6

(* Type correctness: s.size is never 0, also after Close, so that the last *)
(* token can always be given out.  Of s.cur it says little, since a uint   *)
(* that wraps around is a uint: see TokensAccountedHolds.                  *)
THEOREM TypeCorrect == Spec => []TypeOK
<1>1. Init => TypeOK
  <2> SUFFICES ASSUME Init
               PROVE  TypeOK
    OBVIOUS
  <2>1. waiters \in Seq(Threads)
    BY EmptySeq DEF Init
  <2>2. size \in 1..MaxUint /\ cur \in 0..MaxUint
    BY SizeAssumption DEF Init
  <2>3. /\ closed \in BOOLEAN
        /\ ready \in [Threads -> Readys]
        /\ ctxDone \in [Threads -> BOOLEAN]
        /\ pc \in [Threads -> PCs]
    BY DEF Init, PCs, Readys
  <2> QED
    BY <2>1, <2>2, <2>3 DEF TypeOK
<1>2. TypeOK /\ [Next]_vars => TypeOK'
  <2> SUFFICES ASSUME TypeOK, [Next]_vars
               PROVE  TypeOK'
    OBVIOUS
  <2>0. MaxUint \in Nat /\ Size \in 1..MaxUint /\ 1 \in 1..MaxUint
    BY SizeAssumption
  <2>1. ASSUME NEW p \in Procs, Acquire(p)
        PROVE  TypeOK'
    <3>1. PICK ctx \in BOOLEAN : acquireInternal(p, size, waiters, ctx)
      BY <2>1 DEF Acquire
    <3>2. p \in Threads
      BY DEF Threads
    <3> QED
      BY <2>1, <3>1, <3>2, AcquireInternalType DEF Acquire, TypeOK
  <2>2. ASSUME NEW t \in Threads, Cancel(t) \/ SelectDone(t) \/ SelectReady(t)
        PROVE  TypeOK'
    BY <2>2 DEF Cancel, SelectDone, SelectReady, TypeOK, PCs
  <2>3. ASSUME NEW t \in Threads, GiveUp(t)
        PROVE  TypeOK'
    <3>1. CASE notify(Decrement(cur), waiters, [ready EXCEPT ![t] = "open"])
      <4>1. Decrement(cur) \in 0..MaxUint
        BY <2>0 DEF TypeOK, Decrement
      <4>2. [ready EXCEPT ![t] = "open"] \in [Threads -> Readys]
        BY DEF TypeOK, Readys
      <4>3. waiters \in Seq(Threads)
        BY DEF TypeOK
      <4> QED
        BY <2>3, <3>1, <4>1, <4>2, <4>3, NotifyType
           DEF GiveUp, TypeOK, PCs, Returned
    <3>2. CASE \E i \in 1..Len(waiters) :
                 IF i = 1 /\ size > cur
                   THEN notify(cur, RemoveAt(waiters, i), ready)
                   ELSE /\ waiters' = RemoveAt(waiters, i)
                        /\ UNCHANGED <<cur, ready>>
      <4>1. PICK i \in 1..Len(waiters) :
                 IF i = 1 /\ size > cur
                   THEN notify(cur, RemoveAt(waiters, i), ready)
                   ELSE /\ waiters' = RemoveAt(waiters, i)
                        /\ UNCHANGED <<cur, ready>>
        BY <3>2
      <4>2. RemoveAt(waiters, i) \in Seq(Threads)
        BY RemoveAtProperties DEF TypeOK
      <4>3. /\ cur' \in 0..MaxUint
            /\ waiters' \in Seq(Threads)
            /\ ready' \in [Threads -> Readys]
        <5>1. CASE i = 1 /\ size > cur
          BY <4>1, <4>2, <5>1, NotifyType DEF TypeOK
        <5>2. CASE ~(i = 1 /\ size > cur)
          BY <4>1, <4>2, <5>2 DEF TypeOK
        <5> QED
          BY <5>1, <5>2
      <4> QED
        BY <2>3, <4>3 DEF GiveUp, TypeOK, PCs, Returned
    <3> QED
      BY <2>3, <3>1, <3>2 DEF GiveUp
  <2>4. ASSUME NEW t \in Threads, CheckDone(t)
        PROVE  TypeOK'
    BY <2>4 DEF CheckDone, TypeOK, PCs, Readys, Returned
  <2>5. ASSUME NEW t \in Threads, Release(t)
        PROVE  TypeOK'
    <3>1. CASE cur = 0
      BY <2>5, <3>1 DEF Release, TypeOK, PCs
    <3>2. CASE cur # 0
      <4>1. cur - 1 \in 0..MaxUint
        BY <2>0, <3>2 DEF TypeOK
      <4>2. [ready EXCEPT ![t] = "open"] \in [Threads -> Readys]
        BY DEF TypeOK, Readys
      <4>3. waiters \in Seq(Threads)
        BY DEF TypeOK
      <4>4. notify(cur - 1, waiters, [ready EXCEPT ![t] = "open"])
        BY <2>5, <3>2 DEF Release
      <4> QED
        BY <2>5, <3>2, <4>1, <4>2, <4>3, <4>4, NotifyType
           DEF Release, TypeOK, PCs, Returned
    <3> QED
      BY <3>1, <3>2
  <2>6. ASSUME NEW c \in Closers, CloseStart(c)
        PROVE  TypeOK'
    BY <2>6 DEF CloseStart, TypeOK, PCs
  <2>7. ASSUME NEW c \in Closers, CloseSend(c)
        PROVE  TypeOK'
    <3>1. Head(waiters) \in Threads /\ Tail(waiters) \in Seq(Threads)
      BY <2>7, HeadTailProperties DEF CloseSend, TypeOK
    <3> QED
      BY <2>7, <3>1 DEF CloseSend, TypeOK, PCs, Readys
  <2>8. ASSUME NEW c \in Closers, CloseDrain(c)
        PROVE  TypeOK'
    <3>1. PICK ctx \in BOOLEAN : acquireInternal(c, 1, waiters, ctx)
      BY <2>8 DEF CloseDrain
    <3>2. c \in Threads
      BY DEF Threads
    <3> QED
      BY <2>0, <2>8, <3>1, <3>2, AcquireInternalType DEF CloseDrain, TypeOK
  <2>9. CASE UNCHANGED vars
    BY <2>9 DEF vars, TypeOK
  <2> QED
    BY <2>1, <2>2, <2>3, <2>4, <2>5, <2>6, <2>7, <2>8, <2>9
       DEF Next, ThreadStep, CloseStep
<1> QED
  BY <1>1, <1>2, PTL DEF Spec

-----------------------------------------------------------------------------
(***************************************************************************)
(* No lost wake-up.  The invariant is inductive given the types.           *)
(***************************************************************************)

(* notify leaves nobody waiting beside a free token, provided that at most *)
(* one token is free when it is called on a queue.                         *)
LEMMA NotifyWakes ==
    ASSUME TypeOK, NEW c \in Nat, NEW q \in Seq(Threads),
           NEW r, notify(c, q, r), size' = size,
           q # <<>> => c + 1 >= size
    PROVE  NoLostWakeup'
<1>1. size \in Nat
  BY SizeAssumption DEF TypeOK
<1>2. CASE Grants(c, q)
  BY <1>1, <1>2 DEF notify, Grants, NoLostWakeup
<1>3. CASE ~Grants(c, q)
  BY <1>1, <1>3 DEF notify, Grants, NoLostWakeup
<1> QED
  BY <1>2, <1>3

(* While a thread queues for a token, every token is in use: whatever      *)
(* Acquire, Release, cancellations and Close do, no wake-up is lost.       *)
THEOREM NoLostWakeupHolds == Spec => []NoLostWakeup
<1>1. Init => NoLostWakeup
  BY DEF Init, NoLostWakeup
<1>2. TypeOK /\ NoLostWakeup /\ [Next]_vars => NoLostWakeup'
  <2> SUFFICES ASSUME TypeOK, NoLostWakeup, [Next]_vars
               PROVE  NoLostWakeup'
    OBVIOUS
  <2>0. /\ MaxUint \in Nat /\ size \in Nat /\ cur \in Nat
        /\ size <= MaxUint /\ cur <= MaxUint
        /\ waiters \in Seq(Threads)
    BY SizeAssumption DEF TypeOK
  <2>1. ASSUME NEW p \in Procs, Acquire(p)
        PROVE  NoLostWakeup'
    <3>1. PICK ctx \in BOOLEAN : acquireInternal(p, size, waiters, ctx)
      BY <2>1 DEF Acquire
    <3> QED
      BY <2>0, <3>1 DEF acquireInternal, NoLostWakeup
  <2>2. ASSUME NEW t \in Threads,
               Cancel(t) \/ SelectDone(t) \/ SelectReady(t) \/ CheckDone(t)
        PROVE  NoLostWakeup'
    BY <2>2 DEF Cancel, SelectDone, SelectReady, CheckDone, NoLostWakeup
  <2>3. ASSUME NEW t \in Threads, GiveUp(t)
        PROVE  NoLostWakeup'
    <3>0. size' = size
      BY <2>3 DEF GiveUp
    <3>1. CASE notify(Decrement(cur), waiters, [ready EXCEPT ![t] = "open"])
      <4>1. Decrement(cur) \in Nat
        BY <2>0 DEF Decrement
      <4>2. waiters # <<>> => Decrement(cur) + 1 >= size
        BY <2>0 DEF Decrement, NoLostWakeup
      <4> QED
        BY <2>0, <3>0, <3>1, <4>1, <4>2, NotifyWakes
    <3>2. ASSUME NEW i \in 1..Len(waiters),
                 IF i = 1 /\ size > cur
                   THEN notify(cur, RemoveAt(waiters, i), ready)
                   ELSE /\ waiters' = RemoveAt(waiters, i)
                        /\ UNCHANGED <<cur, ready>>
          PROVE  NoLostWakeup'
      <4>1. waiters # <<>>
        BY <2>0, EmptySeq
      <4>2. cur >= size
        BY <4>1 DEF NoLostWakeup
      <4> QED
        BY <2>0, <3>0, <3>2, <4>2 DEF NoLostWakeup
    <3> QED
      BY <2>3, <3>1, <3>2 DEF GiveUp
  <2>4. ASSUME NEW t \in Threads, Release(t)
        PROVE  NoLostWakeup'
    <3>1. CASE cur = 0
      BY <2>4, <3>1 DEF Release, NoLostWakeup
    <3>2. CASE cur # 0
      <4>1. notify(cur - 1, waiters, [ready EXCEPT ![t] = "open"])
            /\ size' = size
        BY <2>4, <3>2 DEF Release
      <4>2. cur - 1 \in Nat /\ (waiters # <<>> => (cur - 1) + 1 >= size)
        BY <2>0, <3>2 DEF NoLostWakeup
      <4> QED
        BY <2>0, <4>1, <4>2, NotifyWakes
    <3> QED
      BY <3>1, <3>2
  <2>5. ASSUME NEW c \in Closers, CloseStart(c)
        PROVE  NoLostWakeup'
    BY <2>5 DEF CloseStart, NoLostWakeup
  <2>6. ASSUME NEW c \in Closers, CloseSend(c)
        PROVE  NoLostWakeup'
    BY <2>6 DEF CloseSend, NoLostWakeup
  <2>7. ASSUME NEW c \in Closers, CloseDrain(c)
        PROVE  NoLostWakeup'
    <3>1. PICK ctx \in BOOLEAN : acquireInternal(c, 1, waiters, ctx)
      BY <2>7 DEF CloseDrain
    <3> QED
      BY <2>0, <2>7, <3>1 DEF CloseDrain, acquireInternal, NoLostWakeup
  <2>8. CASE UNCHANGED vars
    BY <2>8 DEF vars, NoLostWakeup
  <2> QED
    BY <2>1, <2>2, <2>3, <2>4, <2>5, <2>6, <2>7, <2>8
       DEF Next, ThreadStep, CloseStep
<1> QED
  BY <1>1, <1>2, TypeCorrect, PTL DEF Spec

-----------------------------------------------------------------------------
(***************************************************************************)
(* The queue, the tokens and the bound on sessions.                        *)
(*                                                                         *)
(* SessionsBounded is not inductive: a step counts tokens in s.cur, not    *)
(* sessions, and Close changes s.size.  Until the semaphore is closed,     *)
(* s.cur equals the number of owners (Account) and is at most Size; from   *)
(* then on the queue holds only closers (ClosedQueue), so nobody else is   *)
(* granted a token.  Account needs to know that a thread that is granted a *)
(* token has none yet and that a thread that releases one has one, which   *)
(* follows from where threads are and what they received (PcReady), from   *)
(* the queue being exact (QueueExact) and from s.err being received only   *)
(* from Close (ErrMeansClosing).                                           *)
(***************************************************************************)
Queued == {"waiting", "cancelled"}

In(t, q) == \E i \in 1..Len(q) : q[i] = t

Distinct(q) == \A i, j \in 1..Len(q) : q[i] = q[j] => i = j

(* QueueExact, and where threads are against what they received, as        *)
(* predicates on a queue q, control points p and channels r.               *)
QueueOf(q, p, r) ==
    /\ Distinct(q)
    /\ \A t \in Threads : In(t, q) <=> (p[t] \in Queued /\ r[t] = "open")

PcReadyOf(p, r) ==
    \A t \in Threads :
        /\ p[t] \in {"idle", "holding", "sending", "failed"} => r[t] = "open"
        /\ p[t] \in Queued => r[t] # "err"
        /\ p[t] \in {"woken", "releasing"} => r[t] # "open"

Struct == QueueOf(waiters, pc, ready) /\ PcReadyOf(pc, ready)

ErrMeansClosing == (\E t \in Threads : ready[t] = "err") => Locked \/ closed

ClosedQueue == closed => \A t \in Procs : ~In(t, waiters)

Account == ~closed => /\ cur = Cardinality(Owners)
                      /\ size = Size
                      /\ cur <= Size

IndInv == /\ Struct
          /\ ErrMeansClosing
          /\ ClosedQueue
          /\ Account
          /\ SessionsBounded

(* Who is left in a queue without duplicates after its i-th element left,  *)
LEMMA RemoveAtQueue ==
    ASSUME NEW q \in Seq(Threads), Distinct(q), NEW i \in 1..Len(q)
    PROVE  /\ Distinct(RemoveAt(q, i))
           /\ \A t : In(t, RemoveAt(q, i)) <=> In(t, q) /\ t # q[i]
<1> DEFINE w == RemoveAt(q, i)
<1>0. Len(q) \in Nat
  BY LenProperties
<1>1. /\ Len(w) = Len(q) - 1
      /\ \A j \in 1..(Len(q) - 1) : w[j] = IF j < i THEN q[j] ELSE q[j + 1]
  BY RemoveAtProperties
<1> HIDE DEF w
<1>2. Distinct(w)
  <2> SUFFICES ASSUME NEW j \in 1..Len(w), NEW k \in 1..Len(w), w[j] = w[k]
               PROVE  j = k
    BY DEF Distinct
  <2>1. /\ j \in 1..Len(q) /\ j + 1 \in 1..Len(q)
        /\ k \in 1..Len(q) /\ k + 1 \in 1..Len(q)
    BY <1>0, <1>1
  <2> QED
    BY <1>0, <1>1, <2>1 DEF Distinct
<1>3. ASSUME NEW t, In(t, w)
      PROVE  In(t, q) /\ t # q[i]
  <2>1. PICK j \in 1..Len(w) : w[j] = t
    BY <1>3 DEF In
  <2>2. j \in 1..Len(q) /\ j + 1 \in 1..Len(q)
    BY <1>0, <1>1
  <2> QED
    BY <1>0, <1>1, <2>1, <2>2 DEF In, Distinct
<1>4. ASSUME NEW t, In(t, q), t # q[i]
      PROVE  In(t, w)
  <2>1. PICK j \in 1..Len(q) : q[j] = t
    BY <1>4 DEF In
  <2>2. CASE j < i
    <3>1. j \in 1..Len(w) /\ w[j] = q[j]
      BY <1>0, <1>1, <2>2
    <3> QED
      BY <2>1, <3>1 DEF In
  <2>3. CASE j > i
    <3>1. j - 1 \in 1..Len(w) /\ ~(j - 1 < i) /\ (j - 1) + 1 = j
      BY <1>0, <1>1, <2>3
    <3>2. w[j - 1] = q[(j - 1) + 1]
      BY <1>1, <3>1
    <3> QED
      BY <2>1, <3>1, <3>2 DEF In
  <2> QED
    BY <1>4, <2>1, <2>2, <2>3
<1> QED
  BY <1>2, <1>3, <1>4 DEF w

(* ... after its head left, ...                                            *)
LEMMA TailQueue ==
    ASSUME NEW q \in Seq(Threads), Distinct(q), q # <<>>
    PROVE  /\ Head(q) \in Threads /\ Tail(q) \in Seq(Threads)
           /\ In(Head(q), q)
           /\ Distinct(Tail(q))
           /\ \A t : In(t, Tail(q)) <=> In(t, q) /\ t # Head(q)
<1>1. /\ Head(q) \in Threads /\ Tail(q) \in Seq(Threads)
      /\ Len(Tail(q)) = Len(q) - 1
      /\ \A i \in 1..Len(Tail(q)) : Tail(q)[i] = q[i + 1]
  BY HeadTailProperties
<1>2. Len(q) \in Nat /\ 1 \in 1..Len(q) /\ Head(q) = q[1]
  BY EmptySeq, LenProperties
<1>3. Distinct(Tail(q))
  <2> SUFFICES ASSUME NEW j \in 1..Len(Tail(q)), NEW k \in 1..Len(Tail(q)),
                      Tail(q)[j] = Tail(q)[k]
               PROVE  j = k
    BY DEF Distinct
  <2>1. j + 1 \in 1..Len(q) /\ k + 1 \in 1..Len(q)
    BY <1>1, <1>2
  <2> QED
    BY <1>1, <1>2, <2>1 DEF Distinct
<1>4. ASSUME NEW t, In(t, Tail(q))
      PROVE  In(t, q) /\ t # Head(q)
  <2>1. PICK j \in 1..Len(Tail(q)) : Tail(q)[j] = t
    BY <1>4 DEF In
  <2>2. j + 1 \in 1..Len(q) /\ j + 1 # 1
    BY <1>1, <1>2
  <2> QED
    BY <1>1, <1>2, <2>1, <2>2 DEF In, Distinct
<1>5. ASSUME NEW t, In(t, q), t # Head(q)
      PROVE  In(t, Tail(q))
  <2>1. PICK j \in 1..Len(q) : q[j] = t
    BY <1>5 DEF In
  <2>2. j - 1 \in 1..Len(Tail(q)) /\ (j - 1) + 1 = j
    BY <1>1, <1>2, <1>5, <2>1
  <2> QED
    BY <1>1, <2>1, <2>2 DEF In
<1> QED
  BY <1>1, <1>2, <1>3, <1>4, <1>5 DEF In

(* ... and after an element joined that was not in it.                     *)
LEMMA AppendQueue ==
    ASSUME NEW q \in Seq(Threads), Distinct(q),
           NEW t \in Threads, ~In(t, q)
    PROVE  /\ Distinct(Append(q, t))
           /\ \A u : In(u, Append(q, t)) <=> In(u, q) \/ u = t
<1>1. /\ Len(Append(q, t)) = Len(q) + 1 /\ Len(q) \in Nat
      /\ \A i \in 1..Len(q) : Append(q, t)[i] = q[i]
      /\ Append(q, t)[Len(q) + 1] = t
  BY AppendProperties, LenProperties
<1>2. \A i \in 1..(Len(q) + 1) : i \in 1..Len(q) \/ i = Len(q) + 1
  BY <1>1
<1>3. \A i \in 1..Len(q) : i \in 1..(Len(q) + 1)
  BY <1>1
<1>4. Len(q) + 1 \in 1..(Len(q) + 1)
  BY <1>1
<1>5. Distinct(Append(q, t))
  BY <1>1, <1>2 DEF Distinct, In
<1>6. \A u : In(u, Append(q, t)) <=> In(u, q) \/ u = t
  BY <1>1, <1>2, <1>3, <1>4 DEF In
<1> QED
  BY <1>5, <1>6

(* notify keeps queue and threads in agreement.                            *)
LEMMA NotifyStruct ==
    ASSUME NEW c, NEW q \in Seq(Threads), NEW r \in [Threads -> Readys], NEW p,
           QueueOf(q, p, r), PcReadyOf(p, r), notify(c, q, r)
    PROVE  QueueOf(waiters', p, ready') /\ PcReadyOf(p, ready')
<1>1. CASE ~Grants(c, q)
  BY <1>1 DEF notify
<1>2. CASE Grants(c, q)
  <2>1. /\ waiters' = Tail(q)
        /\ ready' = [r EXCEPT ![Head(q)] = "granted"]
        /\ q # <<>>
    BY <1>2 DEF notify, Grants
  <2>2. /\ Head(q) \in Threads
        /\ In(Head(q), q)
        /\ Distinct(Tail(q))
        /\ \A t : In(t, Tail(q)) <=> In(t, q) /\ t # Head(q)
    BY <2>1, TailQueue DEF QueueOf
  <2>3. p[Head(q)] \in Queued
    BY <2>2 DEF QueueOf
  <2>4. QueueOf(Tail(q), p, ready')
    BY <2>1, <2>2 DEF QueueOf
  <2>5. PcReadyOf(p, ready')
    BY <2>1, <2>2, <2>3 DEF PcReadyOf, Queued
  <2> QED
    BY <2>1, <2>4, <2>5
<1> QED
  BY <1>1, <1>2

(* So does acquireInternal, entered by a thread that neither waits nor     *)
(* received anything.                                                      *)
LEMMA AcquireInternalStruct ==
    ASSUME TypeOK, Struct, NEW t \in Threads, NEW n, NEW ctx,
           acquireInternal(t, n, waiters, ctx),
           pc[t] \in {"idle", "sending"}, ready' = ready
    PROVE  Struct'
<1>1. ready[t] = "open" /\ ~In(t, waiters)
  BY DEF Struct, PcReadyOf, QueueOf, Queued
<1>2. CASE pc' = [pc EXCEPT ![t] = Returned(t)] /\ waiters' = waiters
  BY <1>1, <1>2 DEF Struct, PcReadyOf, QueueOf, Queued, Returned, TypeOK
<1>3. CASE pc' = [pc EXCEPT ![t] = "holding"] /\ waiters' = waiters
  BY <1>1, <1>3 DEF Struct, PcReadyOf, QueueOf, Queued, TypeOK
<1>4. CASE pc' = [pc EXCEPT ![t] = "waiting"] /\ waiters' = Append(waiters, t)
  <2>1. /\ Distinct(waiters')
        /\ \A u : In(u, waiters') <=> In(u, waiters) \/ u = t
    BY <1>1, <1>4, AppendQueue DEF Struct, QueueOf, TypeOK
  <2>2. QueueOf(waiters', pc', ready')
    BY <1>1, <1>4, <2>1 DEF Struct, QueueOf, Queued, TypeOK
  <2>3. PcReadyOf(pc', ready')
    BY <1>1, <1>4 DEF Struct, PcReadyOf, Queued, TypeOK
  <2> QED
    BY <2>2, <2>3 DEF Struct
<1> QED
  BY <1>2, <1>3, <1>4 DEF acquireInternal

(* Every step keeps queue and threads in agreement.                        *)
LEMMA StructStep ==
    ASSUME TypeOK, Struct, [Next]_vars
    PROVE  Struct'
<1>1. ASSUME NEW p \in Procs, Acquire(p)
      PROVE  Struct'
  <2>1. PICK ctx \in BOOLEAN : acquireInternal(p, size, waiters, ctx)
    BY <1>1 DEF Acquire
  <2> QED
    BY <1>1, <2>1, AcquireInternalStruct DEF Acquire, Threads
<1>2. ASSUME NEW t \in Threads, Cancel(t)
      PROVE  Struct'
  BY <1>2 DEF Cancel, Struct
<1>3. ASSUME NEW t \in Threads, SelectDone(t)
      PROVE  Struct'
  BY <1>3 DEF SelectDone, Struct, QueueOf, PcReadyOf, Queued, TypeOK
<1>4. ASSUME NEW t \in Threads, SelectReady(t)
      PROVE  Struct'
  BY <1>4 DEF SelectReady, Struct, QueueOf, PcReadyOf, Queued, TypeOK
<1>5. ASSUME NEW t \in Threads, GiveUp(t)
      PROVE  Struct'
  <2> DEFINE r == [ready EXCEPT ![t] = "open"]
  <2>0. /\ waiters \in Seq(Threads)
        /\ ready \in [Threads -> Readys]
        /\ r \in [Threads -> Readys]
    BY DEF TypeOK, Readys
  <2>1. CASE ready[t] = "granted" /\ notify(Decrement(cur), waiters, r)
    <3>1. QueueOf(waiters, pc', r) /\ PcReadyOf(pc', r)
      BY <1>5, <2>1 DEF GiveUp, Returned, Struct, QueueOf, PcReadyOf, Queued, TypeOK
    <3> HIDE DEF r
    <3> QED
      BY <2>0, <2>1, <3>1, NotifyStruct DEF Struct
  <2>2. ASSUME ready[t] # "granted",
               NEW i \in 1..Len(waiters), waiters[i] = t,
               IF i = 1 /\ size > cur
                 THEN notify(cur, RemoveAt(waiters, i), ready)
                 ELSE /\ waiters' = RemoveAt(waiters, i)
                      /\ UNCHANGED <<cur, ready>>
        PROVE  Struct'
    <3>1. /\ RemoveAt(waiters, i) \in Seq(Threads)
          /\ Distinct(RemoveAt(waiters, i))
          /\ \A u : In(u, RemoveAt(waiters, i)) <=> In(u, waiters) /\ u # t
      BY <2>0, <2>2, RemoveAtProperties, RemoveAtQueue DEF Struct, QueueOf
    <3>2. ready[t] = "open"
      BY <1>5, <2>0, <2>2 DEF GiveUp, Struct, PcReadyOf, Queued, Readys
    <3>3. /\ QueueOf(RemoveAt(waiters, i), pc', ready)
          /\ PcReadyOf(pc', ready)
      BY <1>5, <3>1, <3>2
         DEF GiveUp, Returned, Struct, QueueOf, PcReadyOf, Queued, TypeOK
    <3>4. CASE i = 1 /\ size > cur
      BY <2>0, <2>2, <3>1, <3>3, <3>4, NotifyStruct DEF Struct
    <3>5. CASE ~(i = 1 /\ size > cur)
      BY <2>2, <3>3, <3>5 DEF Struct
    <3> QED
      BY <3>4, <3>5
  <2> QED
    BY <1>5, <2>1, <2>2 DEF GiveUp
<1>6. ASSUME NEW t \in Threads, CheckDone(t)
      PROVE  Struct'
  BY <1>6 DEF CheckDone, Returned, Struct, QueueOf, PcReadyOf, Queued, TypeOK
<1>7. ASSUME NEW t \in Threads, Release(t)
      PROVE  Struct'
  <2> DEFINE r == [ready EXCEPT ![t] = "open"]
  <2>1. CASE cur = 0
    BY <1>7, <2>1 DEF Release, Struct, QueueOf, PcReadyOf, Queued, TypeOK
  <2>2. CASE cur # 0
    <3>1. waiters \in Seq(Threads) /\ r \in [Threads -> Readys]
      BY DEF TypeOK, Readys
    <3>2. QueueOf(waiters, pc', r) /\ PcReadyOf(pc', r)
      BY <1>7, <2>2
         DEF Release, Returned, Struct, QueueOf, PcReadyOf, Queued, TypeOK
    <3>3. notify(cur - 1, waiters, r)
      BY <1>7, <2>2 DEF Release
    <3> HIDE DEF r
    <3> QED
      BY <3>1, <3>2, <3>3, NotifyStruct DEF Struct
  <2> QED
    BY <2>1, <2>2
<1>8. ASSUME NEW c \in Closers, CloseStart(c)
      PROVE  Struct'
  BY <1>8 DEF CloseStart, Struct, QueueOf, PcReadyOf, Queued, TypeOK, Threads
<1>9. ASSUME NEW c \in Closers, CloseSend(c)
      PROVE  Struct'
  <2>1. /\ Head(waiters) \in Threads
        /\ In(Head(waiters), waiters)
        /\ Distinct(Tail(waiters))
        /\ \A t : In(t, Tail(waiters)) <=> In(t, waiters) /\ t # Head(waiters)
    BY <1>9, TailQueue DEF CloseSend, Struct, QueueOf, TypeOK
  <2> QED
    BY <1>9, <2>1 DEF CloseSend, Struct, QueueOf, PcReadyOf, Queued, TypeOK
<1>10. ASSUME NEW c \in Closers, CloseDrain(c)
       PROVE  Struct'
  <2>1. PICK ctx \in BOOLEAN : acquireInternal(c, 1, waiters, ctx)
    BY <1>10 DEF CloseDrain
  <2> QED
    BY <1>10, <2>1, AcquireInternalStruct DEF CloseDrain, Threads
<1>11. CASE UNCHANGED vars
  BY <1>11 DEF vars, Struct
<1> QED
  BY <1>1, <1>2, <1>3, <1>4, <1>5, <1>6, <1>7, <1>8, <1>9, <1>10, <1>11
     DEF Next, ThreadStep, CloseStep

(* notify sends no error, and nobody new joins the queue.                  *)
LEMMA NotifyAdds ==
    ASSUME NEW c, NEW q \in Seq(Threads), NEW r \in [Threads -> Readys],
           Distinct(q), notify(c, q, r)
    PROVE  /\ \A t \in Threads : ready'[t] = "err" => r[t] = "err"
           /\ \A t : In(t, waiters') => In(t, q)
           /\ \A t \in Threads : ready'[t] = "granted" => r[t] = "granted" \/ In(t, q)
<1>1. CASE ~Grants(c, q)
  BY <1>1 DEF notify
<1>2. CASE Grants(c, q)
  <2>1. /\ waiters' = Tail(q) /\ q # <<>>
        /\ ready' = [r EXCEPT ![Head(q)] = "granted"]
    BY <1>2 DEF notify, Grants
  <2>2. /\ Head(q) \in Threads /\ In(Head(q), q)
        /\ \A t : In(t, Tail(q)) <=> In(t, q) /\ t # Head(q)
    BY <2>1, TailQueue
  <2> QED
    BY <2>1, <2>2
<1> QED
  BY <1>1, <1>2

(* GiveUp, as far as the lemmas below look at it.                          *)
LEMMA GiveUpAdds ==
    ASSUME TypeOK, Struct, NEW t \in Threads, GiveUp(t)
    PROVE  /\ \A u \in Threads : ready'[u] = "err" => ready[u] = "err"
           /\ \A u : In(u, waiters') => In(u, waiters)
           /\ \A u \in Threads :
                ready'[u] = "granted" => ready[u] = "granted" \/ In(u, waiters)
<1> DEFINE r == [ready EXCEPT ![t] = "open"]
<1>0. /\ waiters \in Seq(Threads) /\ Distinct(waiters)
      /\ ready \in [Threads -> Readys] /\ r \in [Threads -> Readys]
      /\ \A u \in Threads : r[u] # "open" => r[u] = ready[u]
  BY DEF TypeOK, Readys, Struct, QueueOf
<1> HIDE DEF r
<1>1. CASE notify(Decrement(cur), waiters, r)
  BY <1>0, <1>1, NotifyAdds
<1>2. ASSUME NEW i \in 1..Len(waiters),
             IF i = 1 /\ size > cur
               THEN notify(cur, RemoveAt(waiters, i), ready)
               ELSE /\ waiters' = RemoveAt(waiters, i)
                    /\ UNCHANGED <<cur, ready>>
      PROVE  /\ \A u \in Threads : ready'[u] = "err" => ready[u] = "err"
             /\ \A u : In(u, waiters') => In(u, waiters)
             /\ \A u \in Threads :
                  ready'[u] = "granted" => ready[u] = "granted" \/ In(u, waiters)
  <2>1. /\ RemoveAt(waiters, i) \in Seq(Threads)
        /\ Distinct(RemoveAt(waiters, i))
        /\ \A u : In(u, RemoveAt(waiters, i)) => In(u, waiters)
    BY <1>0, RemoveAtProperties, RemoveAtQueue
  <2>2. CASE notify(cur, RemoveAt(waiters, i), ready)
    BY <1>0, <2>1, <2>2, NotifyAdds
  <2>3. CASE waiters' = RemoveAt(waiters, i) /\ ready' = ready
    BY <2>1, <2>3
  <2> QED
    BY <1>2, <2>2, <2>3
<1> QED
  BY <1>1, <1>2 DEF GiveUp, r

(* The same for Release.                                                   *)
LEMMA ReleaseAdds ==
    ASSUME TypeOK, Struct, NEW t \in Threads, Release(t)
    PROVE  /\ \A u \in Threads : ready'[u] = "err" => ready[u] = "err"
           /\ \A u : In(u, waiters') => In(u, waiters)
           /\ \A u \in Threads :
                ready'[u] = "granted" => ready[u] = "granted" \/ In(u, waiters)
<1> DEFINE r == [ready EXCEPT ![t] = "open"]
<1>0. /\ waiters \in Seq(Threads) /\ Distinct(waiters)
      /\ r \in [Threads -> Readys]
      /\ \A u \in Threads : r[u] # "open" => r[u] = ready[u]
  BY DEF TypeOK, Readys, Struct, QueueOf
<1> HIDE DEF r
<1>1. CASE notify(cur - 1, waiters, r)
  BY <1>0, <1>1, NotifyAdds
<1>2. CASE UNCHANGED <<waiters, ready>>
  BY <1>2
<1> QED
  BY <1>1, <1>2 DEF Release, r

(* An error is received only from a Close that is in progress or over.     *)
LEMMA ErrStep ==
    ASSUME TypeOK, Struct, ErrMeansClosing, [Next]_vars
    PROVE  ErrMeansClosing'
<1>1. ASSUME NEW p \in Procs, Acquire(p)
      PROVE  ErrMeansClosing'
  BY <1>1 DEF Acquire, ErrMeansClosing, Locked
<1>2. ASSUME NEW t \in Threads,
             Cancel(t) \/ SelectDone(t) \/ SelectReady(t) \/ CheckDone(t)
      PROVE  ErrMeansClosing'
  <2>1. /\ closed' = closed
        /\ \A u \in Threads : ready'[u] = "err" => ready[u] = "err"
    BY <1>2 DEF Cancel, SelectDone, SelectReady, CheckDone, TypeOK
  <2>2. \A c \in Closers : pc[c] = "sending" => pc'[c] = "sending"
    BY <1>2 DEF Cancel, SelectDone, SelectReady, CheckDone, TypeOK, Threads
  <2> QED
    BY <2>1, <2>2 DEF ErrMeansClosing, Locked
<1>3. ASSUME NEW t \in Threads, GiveUp(t)
      PROVE  ErrMeansClosing'
  <2>1. closed' = closed /\ ~Locked
    BY <1>3 DEF GiveUp
  <2> QED
    BY <1>3, <2>1, GiveUpAdds DEF ErrMeansClosing
<1>4. ASSUME NEW t \in Threads, Release(t)
      PROVE  ErrMeansClosing'
  <2>1. closed' = closed /\ ~Locked
    BY <1>4 DEF Release
  <2> QED
    BY <1>4, <2>1, ReleaseAdds DEF ErrMeansClosing
<1>5. ASSUME NEW c \in Closers, CloseStart(c)
      PROVE  ErrMeansClosing'
  BY <1>5 DEF CloseStart, ErrMeansClosing, Locked
<1>6. ASSUME NEW c \in Closers, CloseSend(c)
      PROVE  ErrMeansClosing'
  <2>1. pc[c] = "sending" /\ pc[Head(waiters)] = "waiting" /\ c \in Threads
        /\ pc' = [pc EXCEPT ![Head(waiters)] = "woken"]
    BY <1>6 DEF CloseSend, Threads
  <2>2. pc'[c] = "sending"
    BY <2>1 DEF TypeOK
  <2> QED
    BY <2>2 DEF ErrMeansClosing, Locked
<1>7. ASSUME NEW c \in Closers, CloseDrain(c)
      PROVE  ErrMeansClosing'
  BY <1>7 DEF CloseDrain, ErrMeansClosing
<1>8. CASE UNCHANGED vars
  BY <1>8 DEF vars, ErrMeansClosing, Locked
<1> QED
  BY <1>1, <1>2, <1>3, <1>4, <1>5, <1>6, <1>7, <1>8
     DEF Next, ThreadStep, CloseStep

(* Once the semaphore is closed, only closers queue.                       *)
LEMMA ClosedQueueStep ==
    ASSUME TypeOK, Struct, ClosedQueue, [Next]_vars
    PROVE  ClosedQueue'
<1>0. \A t : ~In(t, <<>>)
  BY EmptySeq DEF In
<1>1. ASSUME NEW p \in Procs, Acquire(p)
      PROVE  ClosedQueue'
  BY <1>1 DEF Acquire, ClosedQueue
<1>2. ASSUME NEW t \in Threads,
             Cancel(t) \/ SelectDone(t) \/ SelectReady(t) \/ CheckDone(t)
      PROVE  ClosedQueue'
  BY <1>2 DEF Cancel, SelectDone, SelectReady, CheckDone, ClosedQueue
<1>3. ASSUME NEW t \in Threads, GiveUp(t) \/ Release(t)
      PROVE  ClosedQueue'
  <2>1. closed' = closed
    BY <1>3 DEF GiveUp, Release
  <2> QED
    BY <1>3, <2>1, GiveUpAdds, ReleaseAdds DEF ClosedQueue
<1>4. ASSUME NEW c \in Closers, CloseStart(c)
      PROVE  ClosedQueue'
  BY <1>4 DEF CloseStart, ClosedQueue
<1>5. ASSUME NEW c \in Closers, CloseSend(c)
      PROVE  ClosedQueue'
  <2>1. waiters' = Tail(waiters) /\ waiters # <<>> /\ closed' = closed
    BY <1>5 DEF CloseSend
  <2>2. \A t : In(t, waiters') => In(t, waiters)
    BY <2>1, TailQueue DEF Struct, QueueOf, TypeOK
  <2> QED
    BY <2>1, <2>2 DEF ClosedQueue
<1>6. ASSUME NEW c \in Closers, CloseDrain(c)
      PROVE  ClosedQueue'
  <2>1. c \in Threads /\ c \notin Procs
    BY ThreadsAssumption DEF Threads
  <2>2. waiters = <<>> /\ (waiters' = waiters \/ waiters' = Append(waiters, c))
    BY <1>6 DEF CloseDrain, acquireInternal
  <2>3. \A t : In(t, Append(waiters, c)) => t = c
    BY <1>0, <2>1, <2>2, AppendQueue DEF Struct, QueueOf, TypeOK
  <2> QED
    BY <1>0, <2>1, <2>2, <2>3 DEF ClosedQueue
<1>7. CASE UNCHANGED vars
  BY <1>7 DEF vars, ClosedQueue
<1> QED
  BY <1>1, <1>2, <1>3, <1>4, <1>5, <1>6, <1>7
     DEF Next, ThreadStep, CloseStep

OwnersOf(p, r) == {t \in Threads : p[t] = "holding" \/ r[t] = "granted"}

(* Sets of owners are finite, so that their sizes can be compared.         *)
LEMMA OwnersFinite ==
    /\ IsFiniteSet(Threads)
    /\ \A p, r : IsFiniteSet(OwnersOf(p, r))
                 /\ Cardinality(OwnersOf(p, r)) \in Nat
<1>1. IsFiniteSet(Threads)
  BY ThreadsAssumption, FS_Union DEF Threads
<1>2. ASSUME NEW p, NEW r
      PROVE  IsFiniteSet(OwnersOf(p, r)) /\ Cardinality(OwnersOf(p, r)) \in Nat
  <2>1. OwnersOf(p, r) \in SUBSET Threads
    BY DEF OwnersOf
  <2>2. IsFiniteSet(OwnersOf(p, r))
    BY <1>1, <2>1, FS_Subset
  <2> QED
    BY <2>2, FS_CardinalityType
<1> QED
  BY <1>1, <1>2

(* notify counts the token it grants.                                      *)
LEMMA NotifyAccount ==
    ASSUME NEW c \in Nat, NEW q \in Seq(Threads), NEW r \in [Threads -> Readys],
           NEW p, QueueOf(q, p, r), c = Cardinality(OwnersOf(p, r)),
           size \in Nat, notify(c, q, r)
    PROVE  /\ cur' = Cardinality(OwnersOf(p, ready'))
           /\ c <= size => cur' <= size
<1>1. CASE ~Grants(c, q)
  BY <1>1 DEF notify
<1>2. CASE Grants(c, q)
  <2>1. /\ cur' = c + 1 /\ c < size /\ q # <<>>
        /\ ready' = [r EXCEPT ![Head(q)] = "granted"]
    BY <1>2 DEF notify, Grants
  <2>2. Head(q) \in Threads /\ In(Head(q), q)
    BY <2>1, TailQueue DEF QueueOf
  <2>3. p[Head(q)] # "holding" /\ r[Head(q)] = "open"
    BY <2>2 DEF QueueOf, Queued
  <2>4. /\ OwnersOf(p, ready') = OwnersOf(p, r) \cup {Head(q)}
        /\ Head(q) \notin OwnersOf(p, r)
    BY <2>1, <2>2, <2>3 DEF OwnersOf
  <2>5. Cardinality(OwnersOf(p, r) \cup {Head(q)}) = c + 1
    BY <2>4, OwnersFinite, FS_AddElement
  <2>6. cur' = Cardinality(OwnersOf(p, ready'))
    BY <2>1, <2>4, <2>5, Zenon
  <2>7. cur' <= size
    BY <2>1
  <2> QED
    BY <2>6, <2>7
<1> QED
  BY <1>1, <1>2

(* A thread that gives its token back, and notify after it.                *)
LEMMA HandBack ==
    ASSUME TypeOK, Struct, NEW t \in Threads, t \in Owners,
           cur = Cardinality(Owners), pc' = [pc EXCEPT ![t] = Returned(t)]
    PROVE  /\ cur # 0
           /\ notify(cur - 1, waiters, [ready EXCEPT ![t] = "open"])
                => /\ cur' = Cardinality(Owners')
                   /\ cur <= size => cur' <= size
<1> DEFINE r == [ready EXCEPT ![t] = "open"]
<1>1. Owners = OwnersOf(pc, ready) /\ Owners' = OwnersOf(pc', ready')
  BY DEF Owners, OwnersOf
<1>2. OwnersOf(pc', r) = Owners \ {t}
  BY DEF Owners, OwnersOf, Returned, TypeOK
<1>3. IsFiniteSet(Owners) /\ Cardinality(Owners) \in Nat
      /\ Cardinality(OwnersOf(pc', r)) \in Nat
  BY <1>1, OwnersFinite
<1>4. Cardinality(OwnersOf(pc', r)) = cur - 1
  BY <1>2, <1>3, FS_RemoveElement
<1>5. QueueOf(waiters, pc', r)
  BY DEF Owners, Returned, Struct, QueueOf, PcReadyOf, Queued, TypeOK
<1>6. /\ waiters \in Seq(Threads) /\ r \in [Threads -> Readys]
      /\ size \in Nat /\ cur \in Nat
  BY SizeAssumption DEF TypeOK, Readys
<1> HIDE DEF r
<1>7. cur - 1 \in Nat /\ (cur <= size => cur - 1 <= size)
  BY <1>3, <1>4, <1>6
<1>8. ASSUME notify(cur - 1, waiters, r)
      PROVE  /\ cur' = Cardinality(OwnersOf(pc', ready'))
             /\ cur - 1 <= size => cur' <= size
  BY <1>4, <1>5, <1>6, <1>7, <1>8, NotifyAccount
<1> QED
  BY <1>1, <1>6, <1>7, <1>8 DEF r

(* Until the semaphore is closed, s.cur is the number of owners.           *)
LEMMA AccountStep ==
    ASSUME TypeOK, NoLostWakeup, Struct, ErrMeansClosing, Account, [Next]_vars
    PROVE  Account'
<1> SUFFICES ASSUME ~closed'
             PROVE  /\ cur' = Cardinality(Owners')
                    /\ size' = Size
                    /\ cur' <= Size
  BY DEF Account
<1> DEFINE Goal == /\ cur' = Cardinality(Owners')
                   /\ size' = Size
                   /\ cur' <= Size
<1>0. /\ Size \in Nat /\ cur \in Nat
      /\ IsFiniteSet(Owners)
  <2>1. Owners = OwnersOf(pc, ready)
    BY DEF Owners, OwnersOf
  <2> QED
    BY <2>1, SizeAssumption, OwnersFinite DEF TypeOK
<1>1. ASSUME NEW p \in Procs, Acquire(p)
      PROVE  Goal
  <2>1. p \in Threads /\ p \notin Owners /\ ready' = ready /\ ~closed
    BY <1>1 DEF Acquire, Owners, Threads, Struct, PcReadyOf
  <2>2. PICK ctx \in BOOLEAN : acquireInternal(p, size, waiters, ctx)
    BY <1>1 DEF Acquire
  <2>3. size' = size
    BY <2>2 DEF acquireInternal
  <2>4. CASE cur' = cur + 1 /\ cur < size /\ pc' = [pc EXCEPT ![p] = "holding"]
    <3>1. Owners' = Owners \cup {p}
      BY <2>1, <2>4 DEF Owners, TypeOK
    <3>2. Cardinality(Owners \cup {p}) = Cardinality(Owners) + 1
      BY <1>0, <2>1, FS_AddElement
    <3> QED
      BY <1>0, <2>1, <2>3, <2>4, <3>1, <3>2 DEF Account
  <2>5. CASE cur' = cur /\ \E l \in {"idle", "failed", "waiting"} :
                                pc' = [pc EXCEPT ![p] = l]
    <3>1. Owners' = Owners
      BY <2>1, <2>5 DEF Owners, TypeOK
    <3> QED
      BY <2>1, <2>3, <2>5, <3>1 DEF Account
  <2> QED
    BY <2>2, <2>4, <2>5 DEF acquireInternal, Returned
<1>2. ASSUME NEW t \in Threads, Cancel(t) \/ SelectDone(t) \/ SelectReady(t)
      PROVE  Goal
  <2>1. Owners' = Owners
    BY <1>2 DEF Cancel, SelectDone, SelectReady, Owners, TypeOK
  <2> QED
    BY <1>2, <2>1 DEF Cancel, SelectDone, SelectReady, Account
<1>3. ASSUME NEW t \in Threads, GiveUp(t)
      PROVE  Goal
  <2>0. /\ pc[t] = "cancelled" /\ ~closed /\ size' = size
        /\ pc' = [pc EXCEPT ![t] = Returned(t)]
    BY <1>3 DEF GiveUp
  <2>1. CASE /\ ready[t] = "granted"
             /\ notify(Decrement(cur), waiters, [ready EXCEPT ![t] = "open"])
    <3>1. t \in Owners
      BY <2>1 DEF Owners
    <3>2. cur # 0
      BY <2>0, <3>1, HandBack DEF Account
    <3>3. notify(cur - 1, waiters, [ready EXCEPT ![t] = "open"])
      BY <2>1, <3>2 DEF Decrement
    <3> QED
      BY <2>0, <3>1, <3>3, HandBack DEF Account
  <2>2. ASSUME ready[t] # "granted",
               NEW i \in 1..Len(waiters),
               IF i = 1 /\ size > cur
                 THEN notify(cur, RemoveAt(waiters, i), ready)
                 ELSE /\ waiters' = RemoveAt(waiters, i)
                      /\ UNCHANGED <<cur, ready>>
        PROVE  Goal
    <3>1. ~(size > cur)
      <4>1. waiters # <<>>
        BY EmptySeq DEF TypeOK
      <4> QED
        BY <1>0, <2>0, <4>1 DEF NoLostWakeup, Account
    <3>2. Owners' = Owners
      BY <2>0, <2>2, <3>1 DEF Owners, Returned, TypeOK
    <3> QED
      BY <2>0, <2>2, <3>1, <3>2 DEF Account
  <2> QED
    BY <1>3, <2>1, <2>2 DEF GiveUp
<1>4. ASSUME NEW t \in Threads, CheckDone(t)
      PROVE  Goal
  <2>1. Owners' = Owners
    BY <1>4 DEF CheckDone, Owners, Returned, TypeOK
  <2> QED
    BY <1>4, <2>1 DEF CheckDone, Account
<1>5. ASSUME NEW t \in Threads, Release(t)
      PROVE  Goal
  <2>1. ~Locked /\ ~closed /\ size' = size
    BY <1>5 DEF Release
  <2>2. t \in Owners
    <3>1. CASE pc[t] = "holding"
      BY <3>1 DEF Owners
    <3>2. CASE pc[t] = "releasing"
      <4>1. ready[t] # "open" /\ ready[t] # "err"
        BY <2>1, <3>2 DEF Struct, PcReadyOf, ErrMeansClosing
      <4>2. ready[t] = "granted"
        BY <4>1 DEF TypeOK, Readys
      <4> QED
        BY <4>2 DEF Owners
    <3> QED
      BY <1>5, <3>1, <3>2 DEF Release
  <2>3. cur # 0
    <3>1. t \in Owners /\ cur = Cardinality(Owners)
      BY <2>1, <2>2 DEF Account
    <3> QED
      BY <1>0, <3>1, FS_EmptySet
  <2>4. /\ notify(cur - 1, waiters, [ready EXCEPT ![t] = "open"])
        /\ pc' = [pc EXCEPT ![t] = Returned(t)]
    BY <1>5, <2>3 DEF Release
  <2> QED
    BY <2>1, <2>2, <2>4, HandBack DEF Account
<1>6. ASSUME NEW c \in Closers, CloseStart(c)
      PROVE  Goal
  <2>1. Owners' = Owners
    BY <1>6 DEF CloseStart, Owners, TypeOK, Threads
  <2> QED
    BY <1>6, <2>1 DEF CloseStart, Account
<1>7. ASSUME NEW c \in Closers, CloseSend(c)
      PROVE  Goal
  <2>1. Head(waiters) \in Threads /\ ready[Head(waiters)] = "open"
    BY <1>7, TailQueue DEF CloseSend, Struct, QueueOf, TypeOK
  <2>2. Owners' = Owners
    BY <1>7, <2>1 DEF CloseSend, Owners, TypeOK
  <2> QED
    BY <1>7, <2>2 DEF CloseSend, Account
<1>8. ASSUME NEW c \in Closers, CloseDrain(c)
      PROVE  Goal
  BY <1>8 DEF CloseDrain
<1>9. CASE UNCHANGED vars
  <2>1. Owners' = Owners
    BY <1>9 DEF vars, Owners
  <2> QED
    BY <1>9, <2>1 DEF vars, Account
<1> QED
  BY <1>1, <1>2, <1>3, <1>4, <1>5, <1>6, <1>7, <1>8, <1>9
     DEF Next, ThreadStep, CloseStep

(* No step that ends with the semaphore closed adds an owner.              *)
LEMMA ShrinkStep ==
    ASSUME TypeOK, Struct, ClosedQueue, [Next]_vars, closed'
    PROVE  (Owners \cap Procs)' \subseteq Owners
<1> DEFINE Goal == \A u \in Procs : u \in Owners' => u \in Owners
<1> SUFFICES Goal
  OBVIOUS
<1>0. Procs \subseteq Threads
  BY DEF Threads
<1>1. ASSUME NEW p \in Procs, Acquire(p)
      PROVE  Goal
  BY <1>1 DEF Acquire
<1>2. ASSUME NEW t \in Threads, Cancel(t) \/ SelectDone(t) \/ SelectReady(t)
      PROVE  Goal
  BY <1>0, <1>2 DEF Cancel, SelectDone, SelectReady, Owners, TypeOK
<1>3. ASSUME NEW t \in Threads, CheckDone(t)
      PROVE  Goal
  BY <1>0, <1>3 DEF CheckDone, Owners, Returned, TypeOK
<1>4. ASSUME NEW t \in Threads, GiveUp(t) \/ Release(t)
      PROVE  Goal
  <2>1. closed /\ \A u \in Procs : ~In(u, waiters)
    BY <1>4 DEF GiveUp, Release, ClosedQueue
  <2>2. \A u \in Procs : ready'[u] = "granted" => ready[u] = "granted"
    BY <1>0, <1>4, <2>1, GiveUpAdds, ReleaseAdds
  <2>3. \A u \in Procs : pc'[u] = "holding" => pc[u] = "holding"
    BY <1>0, <1>4 DEF GiveUp, Release, Returned, TypeOK
  <2> QED
    BY <1>0, <2>2, <2>3 DEF Owners
<1>5. ASSUME NEW c \in Closers, CloseStart(c)
      PROVE  Goal
  BY <1>0, <1>5 DEF CloseStart, Owners, TypeOK, Threads
<1>6. ASSUME NEW c \in Closers, CloseSend(c)
      PROVE  Goal
  BY <1>0, <1>6 DEF CloseSend, Owners, TypeOK
<1>7. ASSUME NEW c \in Closers, CloseDrain(c)
      PROVE  Goal
  <2>1. c \notin Procs
    BY ThreadsAssumption
  <2>2. ready' = ready /\ \A u \in Procs : pc'[u] = pc[u]
    BY <1>0, <1>7, <2>1 DEF CloseDrain, acquireInternal, TypeOK
  <2> QED
    BY <1>0, <2>2 DEF Owners
<1>8. CASE UNCHANGED vars
  BY <1>8 DEF vars, Owners
<1> QED
  BY <1>1, <1>2, <1>3, <1>4, <1>5, <1>6, <1>7, <1>8
     DEF Next, ThreadStep, CloseStep

(* Sessions stay bounded: by s.size while open, by shrinking once closed.  *)
LEMMA BoundedStep ==
    ASSUME TypeOK, Struct, ClosedQueue, SessionsBounded, Account', [Next]_vars
    PROVE  SessionsBounded'
<1> DEFINE O == Owners \cap Procs
           P == Owners' \cap Procs
<1>1. IsFiniteSet(O) /\ IsFiniteSet(Owners')
  <2>1. Owners = OwnersOf(pc, ready) /\ Owners' = OwnersOf(pc', ready')
    BY DEF Owners, OwnersOf
  <2>2. IsFiniteSet(Owners) /\ IsFiniteSet(Owners')
    BY <2>1, OwnersFinite
  <2> QED
    BY <2>2, FS_Subset
<1>2. Size \in Nat
  BY SizeAssumption
<1>3. CASE closed'
  <2>1. P \subseteq O
    BY <1>3, ShrinkStep
  <2>2. /\ Cardinality(P) <= Cardinality(O)
        /\ Cardinality(P) \in Nat /\ Cardinality(O) \in Nat
    <3>1. IsFiniteSet(P) /\ Cardinality(P) <= Cardinality(O)
      BY <1>1, <2>1, FS_Subset
    <3> QED
      BY <1>1, <3>1, FS_CardinalityType
  <2> QED
    BY <1>2, <2>2 DEF SessionsBounded
<1>4. CASE ~closed'
  <2>1. Cardinality(Owners') <= Size
    BY <1>4 DEF Account
  <2>2. /\ Cardinality(P) <= Cardinality(Owners')
        /\ Cardinality(P) \in Nat /\ Cardinality(Owners') \in Nat
    <3>1. P \subseteq Owners'
      OBVIOUS
    <3>2. IsFiniteSet(P) /\ Cardinality(P) <= Cardinality(Owners')
      BY <1>1, <3>1, FS_Subset
    <3> QED
      BY <1>1, <3>2, FS_CardinalityType
  <2> QED
    BY <1>2, <2>1, <2>2 DEF SessionsBounded
<1> QED
  BY <1>3, <1>4

(* The inductive invariant holds of every state of the semaphore, whatever *)
(* threads acquire, cancel, release and close.                             *)
THEOREM IndInvHolds == Spec => []IndInv
<1>1. Init => IndInv
  <2> SUFFICES ASSUME Init PROVE IndInv
    OBVIOUS
  <2>1. Owners = {} /\ Owners \cap Procs = {}
    BY DEF Init, Owners
  <2>2. Cardinality(Owners) = 0 /\ Cardinality(Owners \cap Procs) = 0
    BY <2>1, FS_EmptySet
  <2>3. Size \in Nat
    BY SizeAssumption
  <2>4. Struct
    <3>1. Len(waiters) = 0
      BY EmptySeq DEF Init
    <3> QED
      BY <3>1 DEF Init, Struct, QueueOf, PcReadyOf, Queued, In, Distinct
  <2>5. ErrMeansClosing /\ ClosedQueue
    BY DEF Init, ErrMeansClosing, ClosedQueue
  <2>6. Account /\ SessionsBounded
    BY <2>2, <2>3 DEF Init, Account, SessionsBounded
  <2> QED
    BY <2>4, <2>5, <2>6 DEF IndInv
<1>2. TypeOK /\ NoLostWakeup /\ IndInv /\ [Next]_vars => IndInv'
  <2> SUFFICES ASSUME TypeOK, NoLostWakeup, IndInv, [Next]_vars
               PROVE  IndInv'
    OBVIOUS
  <2>1. /\ Struct /\ ErrMeansClosing /\ ClosedQueue /\ Account
        /\ SessionsBounded
    BY DEF IndInv
  <2>2. Struct' /\ ErrMeansClosing' /\ ClosedQueue' /\ Account'
    BY <2>1, StructStep, ErrStep, ClosedQueueStep, AccountStep
  <2>3. SessionsBounded'
    BY <2>1, <2>2, BoundedStep
  <2> QED
    BY <2>2, <2>3 DEF IndInv
<1> QED
  BY <1>1, <1>2, TypeCorrect, NoLostWakeupHolds, PTL DEF Spec

(* The queue of waiters and the threads always agree: nobody queues twice  *)
(* or leaves without a token, an error, or giving up (semaphore.go 79-125).*)
THEOREM QueueExactHolds == Spec => []QueueExact
<1>1. IndInv => QueueExact
  BY DEF IndInv, Struct, QueueOf, QueueExact, Queued, In, Distinct
<1> QED
  BY <1>1, IndInvHolds, PTL

(* At most Size session tokens are handed out at a time, also while Close  *)
(* lowers s.size to 1 under threads that still hold theirs.                *)
THEOREM SessionsBoundedHolds == Spec => []SessionsBounded
<1>1. IndInv => SessionsBounded
  BY DEF IndInv
<1> QED
  BY <1>1, IndInvHolds, PTL

(* While the semaphore is not closed, s.cur is exactly the number of       *)
(* owners: Release and a cancelled Acquire give back what was taken.       *)
THEOREM TokensAccountedHolds == Spec => []TokensAccounted
<1>1. IndInv => TokensAccounted
  BY DEF IndInv, Account, TokensAccounted
<1> QED
  BY <1>1, IndInvHolds, PTL

(* After Close has set s.closed no thread becomes an owner any more.       *)
THEOREM ClosedOnlyShrinksHolds == Spec => ClosedOnlyShrinks
<1>1. TypeOK /\ IndInv /\ [Next]_vars
        => [closed => (Owners \cap Procs)' \subseteq Owners]_vars
  <2> SUFFICES ASSUME TypeOK, IndInv, [Next]_vars, closed
               PROVE  (Owners \cap Procs)' \subseteq Owners
    OBVIOUS
  <2>1. closed'
    BY DEF Next, ThreadStep, CloseStep, Acquire, Cancel, SelectDone,
           SelectReady, GiveUp, CheckDone, Release, CloseStart, CloseSend,
           CloseDrain, vars
  <2> QED
    BY <2>1, ShrinkStep DEF IndInv
<1> QED
  BY <1>1, TypeCorrect, IndInvHolds, PTL DEF Spec, ClosedOnlyShrinks
=============================================================================
