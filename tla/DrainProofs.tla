----------------------------- MODULE DrainProofs -----------------------------
(***************************************************************************)
(* What Close of the semaphore achieves when the threads that hold or wait *)
(* for sessions are not cancelled: it returns only after the last session  *)
(* came back, and the semaphore implements SessionBudget.                  *)
(*                                                                         *)
(* The hypothesis is needed.  A cancelled waiter that received the error   *)
(* of Close calls Release without owning a token, and s.cur is too small   *)
(* from then on.                                                           *)
(***************************************************************************)
EXTENDS SemaphoreProofs

Uncancelled == Cancellable \cap Procs = {}

(* So nobody but a closer comes to lines 100 to 121.                       *)
PatientThreads ==
    \A p \in Procs : ~ctxDone[p] /\ pc[p] \notin {"cancelled", "releasing"}

(* Closers queue for the last token after the close, hence receive no      *)
(* error, and the one that sends the errors has yet to close.              *)
CloserPlaces ==
    /\ \A c \in Closers :
         /\ ready[c] # "err"
         /\ pc[c] \in Queued \cup {"woken", "releasing", "holding"} => closed
         /\ pc[c] = "sending" => ~closed
    /\ \A c, d \in Closers : pc[c] = "sending" /\ pc[d] = "sending" => c = d

(* s.cur counts the owners, also after the close.                          *)
Exact ==
    /\ cur = Cardinality(Owners)
    /\ closed => size = 1
    /\ \A t \in Threads : pc[t] # "panicked"

(* The closer owns the one token there is, alone.                          *)
LastOwner == \A c \in Closers : c \in Owners => Owners \cap Procs = {}

DrainInv == PatientThreads /\ CloserPlaces /\ Exact /\ LastOwner

-----------------------------------------------------------------------------
LEMMA PatientStep ==
    ASSUME Uncancelled, TypeOK, PatientThreads, [Next]_vars
    PROVE  PatientThreads'
<1>0. Procs \subseteq Threads /\ Procs \cap Closers = {}
  BY ThreadsAssumption DEF Threads
<1>1. ASSUME NEW p \in Procs, Acquire(p)
      PROVE  PatientThreads'
  <2>1. ctxDone' = ctxDone /\ \E l \in {"idle", "holding", "waiting"} : pc' = [pc EXCEPT ![p] = l]
    BY <1>1 DEF Acquire, acquireInternal, Returned
  <2> QED
    BY <1>0, <2>1 DEF PatientThreads, TypeOK
<1>2. ASSUME NEW t \in Threads, Cancel(t)
      PROVE  PatientThreads'
  BY <1>0, <1>2 DEF Cancel, Uncancelled, PatientThreads, TypeOK
<1>3. ASSUME NEW t \in Threads, SelectDone(t) \/ SelectReady(t)
      PROVE  PatientThreads'
  BY <1>0, <1>3 DEF SelectDone, SelectReady, PatientThreads, TypeOK
<1>4. ASSUME NEW t \in Threads, GiveUp(t)
      PROVE  PatientThreads'
  <2>1. ctxDone' = [ctxDone EXCEPT ![t] = FALSE] /\ pc' = [pc EXCEPT ![t] = Returned(t)]
    BY <1>4 DEF GiveUp
  <2> QED
    BY <1>0, <2>1 DEF PatientThreads, TypeOK, Returned
<1>5. ASSUME NEW t \in Threads, Release(t)
      PROVE  PatientThreads'
  <2>1. \E l \in {"idle", "failed", "panicked"} : pc' = [pc EXCEPT ![t] = l]
    BY <1>5 DEF Release, Returned
  <2>2. ctxDone' = [ctxDone EXCEPT ![t] = FALSE] \/ ctxDone' = ctxDone
    BY <1>5 DEF Release
  <2> QED
    BY <1>0, <2>1, <2>2 DEF PatientThreads, TypeOK
<1>6. ASSUME NEW t \in Threads, CheckDone(t)
      PROVE  PatientThreads'
  BY <1>0, <1>6 DEF CheckDone, PatientThreads, TypeOK, Returned
<1>7. ASSUME NEW c \in Closers, CloseStart(c) \/ CloseDrain(c)
      PROVE  PatientThreads'
  <2>1. ctxDone' = ctxDone /\ \A p \in Procs : pc'[p] = pc[p]
    BY <1>0, <1>7 DEF CloseStart, CloseDrain, acquireInternal, TypeOK
  <2> QED
    BY <2>1 DEF PatientThreads
<1>8. ASSUME NEW c \in Closers, CloseSend(c)
      PROVE  PatientThreads'
  BY <1>0, <1>8 DEF CloseSend, PatientThreads, TypeOK
<1>9. CASE UNCHANGED vars
  BY <1>9 DEF vars, PatientThreads
<1> QED
  BY <1>1, <1>2, <1>3, <1>4, <1>5, <1>6, <1>7, <1>8, <1>9
     DEF Next, ThreadStep, CloseStep

LEMMA PlacesStep ==
    ASSUME TypeOK, Struct, CloserPlaces, [Next]_vars
    PROVE  CloserPlaces'
<1>0. Closers \subseteq Threads /\ Procs \subseteq Threads /\ Procs \cap Closers = {}
  BY ThreadsAssumption DEF Threads
<1>1. ASSUME NEW p \in Procs, Acquire(p)
      PROVE  CloserPlaces'
  <2>1. closed' = closed /\ ready' = ready /\ \A c \in Closers : pc'[c] = pc[c]
    BY <1>0, <1>1 DEF Acquire, acquireInternal, TypeOK
  <2> QED
    BY <2>1 DEF CloserPlaces
<1>2. ASSUME NEW t \in Threads, Cancel(t) \/ SelectDone(t) \/ SelectReady(t) \/ CheckDone(t)
      PROVE  CloserPlaces'
  <2>1. /\ closed' = closed
        /\ \A c \in Closers :
             /\ ready'[c] = "err" => ready[c] = "err"
             /\ pc'[c] = "sending" => pc[c] = "sending"
             /\ pc'[c] \in Queued \cup {"woken", "releasing", "holding"}
                  => pc[c] \in Queued \cup {"woken", "releasing", "holding"}
    BY <1>0, <1>2 DEF Cancel, SelectDone, SelectReady, CheckDone, Returned, Queued, TypeOK
  <2> QED
    BY <2>1 DEF CloserPlaces
<1>3. ASSUME NEW t \in Threads, GiveUp(t) \/ Release(t)
      PROVE  CloserPlaces'
  <2>1. closed' = closed /\ \E l \in {"idle", "failed", "panicked"} : pc' = [pc EXCEPT ![t] = l]
    BY <1>3 DEF GiveUp, Release, Returned
  <2>2. \A c \in Closers : ready'[c] # "err"
    BY <1>0, <1>3, GiveUpAdds, ReleaseAdds DEF CloserPlaces
  <2> QED
    BY <1>0, <2>1, <2>2 DEF CloserPlaces, Queued, TypeOK
<1>4. ASSUME NEW c \in Closers, CloseStart(c)
      PROVE  CloserPlaces'
  <2>1. /\ closed' = closed /\ ready' = ready
        /\ pc' = [pc EXCEPT ![c] = IF closed THEN "failed" ELSE "sending"]
        /\ \A d \in Closers : pc[d] # "sending"
    BY <1>4 DEF CloseStart, Locked
  <2> QED
    BY <1>0, <2>1 DEF CloserPlaces, Queued, TypeOK
<1>5. ASSUME NEW c \in Closers, CloseSend(c)
      PROVE  CloserPlaces'
  <2>1. /\ Head(waiters) \in Threads /\ pc[Head(waiters)] = "waiting" /\ ~closed
    BY <1>5, TailQueue DEF CloseSend, Struct, QueueOf, TypeOK, CloserPlaces
  <2>2. Head(waiters) \notin Closers
    BY <2>1 DEF CloserPlaces, Queued
  <2>3. closed' = closed /\ \A d \in Closers : pc'[d] = pc[d] /\ ready'[d] = ready[d]
    BY <1>0, <1>5, <2>1, <2>2 DEF CloseSend, TypeOK
  <2> QED
    BY <2>3 DEF CloserPlaces
<1>6. ASSUME NEW c \in Closers, CloseDrain(c)
      PROVE  CloserPlaces'
  <2>1. /\ closed' /\ ready' = ready /\ pc[c] = "sending"
        /\ \E l \in {"failed", "holding", "waiting"} : pc' = [pc EXCEPT ![c] = l]
    BY <1>0, <1>6 DEF CloseDrain, acquireInternal, Returned
  <2>2. \A d \in Closers : pc'[d] # "sending"
    BY <1>0, <2>1 DEF CloserPlaces, TypeOK
  <2> QED
    BY <2>1, <2>2 DEF CloserPlaces
<1>7. CASE UNCHANGED vars
  BY <1>7 DEF vars, CloserPlaces
<1> QED
  BY <1>1, <1>2, <1>3, <1>4, <1>5, <1>6, <1>7 DEF Next, ThreadStep, CloseStep

(* Whoever calls Release owns the token.                                   *)
LEMMA ReleaserOwns ==
    ASSUME TypeOK, Struct, PatientThreads, CloserPlaces, NEW t \in Threads, Release(t)
    PROVE  t \in Owners
<1>1. CASE pc[t] = "holding"
  BY <1>1 DEF Owners
<1>2. CASE pc[t] = "releasing"
  <2>1. t \in Closers
    BY <1>2 DEF PatientThreads, Threads
  <2>2. ready[t] # "open" /\ ready[t] # "err"
    BY <1>2, <2>1 DEF Struct, PcReadyOf, CloserPlaces
  <2> QED
    BY <2>2 DEF TypeOK, Readys, Owners
<1> QED
  BY <1>1, <1>2 DEF Release

LEMMA ExactStep ==
    ASSUME TypeOK, NoLostWakeup, Struct, PatientThreads, CloserPlaces, Exact, [Next]_vars
    PROVE  Exact'
<1> DEFINE Goal == cur' = Cardinality(Owners')
<1> DEFINE Calm == \A t \in Threads : pc'[t] # "panicked"
<1>0. /\ Closers \subseteq Threads /\ Procs \subseteq Threads
      /\ cur \in Nat /\ size \in Nat /\ IsFiniteSet(Owners)
  <2>1. Owners = OwnersOf(pc, ready)
    BY DEF Owners, OwnersOf
  <2> QED
    BY <2>1, SizeAssumption, OwnersFinite DEF TypeOK, Threads
<1>a. ASSUME NEW t \in Threads, NEW n, NEW ctx, acquireInternal(t, n, waiters, ctx),
             ready' = ready, t \notin Owners
      PROVE  Goal /\ Calm
  <2>1. CASE cur' = cur + 1 /\ pc' = [pc EXCEPT ![t] = "holding"]
    <3>1. Owners' = Owners \cup {t}
      BY <1>a, <2>1 DEF Owners, TypeOK
    <3>2. Cardinality(Owners \cup {t}) = Cardinality(Owners) + 1
      BY <1>0, <1>a, FS_AddElement
    <3>3. Calm
      BY <2>1 DEF Exact, TypeOK
    <3> QED
      BY <1>0, <2>1, <3>1, <3>2, <3>3 DEF Exact
  <2>2. CASE cur' = cur /\ \E l \in {"idle", "failed", "waiting"} : pc' = [pc EXCEPT ![t] = l]
    <3>1. Owners' = Owners
      BY <1>a, <2>2 DEF Owners, TypeOK
    <3>2. Calm
      BY <2>2 DEF Exact, TypeOK
    <3> QED
      BY <2>2, <3>1, <3>2 DEF Exact
  <2> QED
    BY <1>a, <2>1, <2>2 DEF acquireInternal, Returned
<1>1. ASSUME NEW p \in Procs, Acquire(p)
      PROVE  Exact'
  <2>1. p \in Threads /\ p \notin Owners /\ ready' = ready /\ ~closed'
    BY <1>0, <1>1 DEF Acquire, Owners, Struct, PcReadyOf
  <2>2. PICK ctx \in BOOLEAN : acquireInternal(p, size, waiters, ctx)
    BY <1>1 DEF Acquire
  <2> QED
    BY <2>1, <2>2, <1>a DEF Exact
<1>2. ASSUME NEW t \in Threads, Cancel(t) \/ SelectDone(t) \/ SelectReady(t) \/ CheckDone(t)
      PROVE  Exact'
  <2>1. Owners' = Owners
    BY <1>2 DEF Cancel, SelectDone, SelectReady, CheckDone, Owners, Returned, TypeOK
  <2>2. cur' = cur /\ closed' = closed /\ size' = size
    BY <1>2 DEF Cancel, SelectDone, SelectReady, CheckDone
  <2>3. Calm
    BY <1>2 DEF Cancel, SelectDone, SelectReady, CheckDone, Returned, TypeOK, Exact
  <2> QED
    BY <2>1, <2>2, <2>3 DEF Exact
<1>3. ASSUME NEW t \in Threads, GiveUp(t)
      PROVE  Exact'
  <2>0. /\ pc[t] = "cancelled" /\ closed' = closed /\ size' = size
        /\ pc' = [pc EXCEPT ![t] = Returned(t)]
    BY <1>3 DEF GiveUp
  <2>c. Calm
    BY <2>0 DEF Exact, Returned, TypeOK
  <2>1. CASE /\ ready[t] = "granted"
             /\ notify(Decrement(cur), waiters, [ready EXCEPT ![t] = "open"])
    <3>1. t \in Owners
      BY <2>1 DEF Owners
    <3>2. cur # 0
      BY <2>0, <3>1, HandBack DEF Exact
    <3>3. notify(cur - 1, waiters, [ready EXCEPT ![t] = "open"])
      BY <2>1, <3>2 DEF Decrement
    <3>4. Goal
      BY <2>0, <3>1, <3>3, HandBack DEF Exact
    <3> QED
      BY <2>0, <2>c, <3>4 DEF Exact
  <2>2. ASSUME ready[t] # "granted",
               NEW i \in 1..Len(waiters),
               IF i = 1 /\ size > cur
                 THEN notify(cur, RemoveAt(waiters, i), ready)
                 ELSE /\ waiters' = RemoveAt(waiters, i)
                      /\ UNCHANGED <<cur, ready>>
        PROVE  Exact'
    <3>1. ~(size > cur)
      <4>1. waiters # <<>>
        BY EmptySeq DEF TypeOK
      <4> QED
        BY <1>0, <4>1 DEF NoLostWakeup
    <3>2. Owners' = Owners
      BY <2>0, <2>2, <3>1 DEF Owners, Returned, TypeOK
    <3> QED
      BY <2>0, <2>c, <2>2, <3>1, <3>2 DEF Exact
  <2> QED
    BY <1>3, <2>1, <2>2 DEF GiveUp
<1>4. ASSUME NEW t \in Threads, Release(t)
      PROVE  Exact'
  <2>1. t \in Owners
    BY <1>4, ReleaserOwns
  <2>2. cur # 0
    BY <1>0, <2>1, FS_EmptySet DEF Exact
  <2>3. /\ notify(cur - 1, waiters, [ready EXCEPT ![t] = "open"])
        /\ pc' = [pc EXCEPT ![t] = Returned(t)]
        /\ closed' = closed /\ size' = size
    BY <1>4, <2>2 DEF Release
  <2>4. Goal
    BY <2>1, <2>3, HandBack DEF Exact
  <2>5. Calm
    BY <2>3 DEF Exact, Returned, TypeOK
  <2> QED
    BY <2>3, <2>4, <2>5 DEF Exact
<1>5. ASSUME NEW c \in Closers, CloseStart(c)
      PROVE  Exact'
  <2>1. Owners' = Owners
    BY <1>0, <1>5 DEF CloseStart, Owners, TypeOK
  <2>2. Calm
    BY <1>0, <1>5 DEF CloseStart, Exact, TypeOK
  <2> QED
    BY <1>5, <2>1, <2>2 DEF CloseStart, Exact
<1>6. ASSUME NEW c \in Closers, CloseSend(c)
      PROVE  Exact'
  <2>1. Head(waiters) \in Threads /\ ready[Head(waiters)] = "open"
    BY <1>6, TailQueue DEF CloseSend, Struct, QueueOf, TypeOK
  <2>2. Owners' = Owners
    BY <1>6, <2>1 DEF CloseSend, Owners, TypeOK
  <2>3. Calm
    BY <1>6, <2>1 DEF CloseSend, Exact, TypeOK
  <2> QED
    BY <1>6, <2>2, <2>3 DEF CloseSend, Exact
<1>7. ASSUME NEW c \in Closers, CloseDrain(c)
      PROVE  Exact'
  <2>1. c \in Threads /\ c \notin Owners /\ ready' = ready
    BY <1>0, <1>7 DEF CloseDrain, Owners, Struct, PcReadyOf
  <2>2. PICK ctx \in BOOLEAN : acquireInternal(c, 1, waiters, ctx)
    BY <1>7 DEF CloseDrain
  <2>3. size' = 1
    BY <2>2 DEF acquireInternal
  <2> QED
    BY <2>1, <2>2, <2>3, <1>a DEF Exact
<1>8. CASE UNCHANGED vars
  <2>1. Owners' = Owners
    BY <1>8 DEF vars, Owners
  <2> QED
    BY <1>8, <2>1 DEF vars, Exact
<1> QED
  BY <1>1, <1>2, <1>3, <1>4, <1>5, <1>6, <1>7, <1>8 DEF Next, ThreadStep, CloseStep

(* notify in a closed semaphore: a thread it grants owns the only token.   *)
LEMMA GrantIsLast ==
    ASSUME size = 1, NEW n \in Nat, NEW q, NEW r, NEW u, notify(n, q, r),
           ready'[u] = "granted", r[u] # "granted"
    PROVE  cur' = 1
<1>1. Grants(n, q)
  BY DEF notify
<1> QED
  BY <1>1 DEF notify, Grants

(* So a closer that comes to own a token is alone with it.                 *)
LEMMA NewCloserAlone ==
    ASSUME TypeOK, NoLostWakeup, Struct, PatientThreads, CloserPlaces, Exact, [Next]_vars,
           NEW c \in Closers, c \notin Owners, c \in Owners'
    PROVE  cur' = 1
<1>0. /\ Closers \subseteq Threads /\ Procs \cap Closers = {}
      /\ c \in Threads /\ pc[c] # "holding" /\ ready[c] # "granted"
      /\ pc'[c] = "holding" \/ ready'[c] = "granted"
      /\ cur \in Nat /\ MaxUint \in Nat
  BY ThreadsAssumption, SizeAssumption DEF Owners, Threads, TypeOK
<1>1. ASSUME NEW p \in Procs, Acquire(p)
      PROVE  cur' = 1
  BY <1>0, <1>1 DEF Acquire, acquireInternal, TypeOK
<1>2. ASSUME NEW t \in Threads, Cancel(t) \/ SelectDone(t) \/ SelectReady(t) \/ CheckDone(t)
      PROVE  cur' = 1
  BY <1>0, <1>2 DEF Cancel, SelectDone, SelectReady, CheckDone, Returned, TypeOK
<1>3. ASSUME NEW t \in Threads, GiveUp(t) \/ Release(t)
      PROVE  cur' = 1
  <2>1. \E l \in {"idle", "failed", "panicked"} : pc' = [pc EXCEPT ![t] = l]
    BY <1>3 DEF GiveUp, Release, Returned
  <2>2. pc'[c] # "holding" /\ ready'[c] = "granted"
    BY <1>0, <2>1 DEF TypeOK
  <2>3. In(c, waiters)
    BY <1>0, <1>3, <2>2, GiveUpAdds, ReleaseAdds
  <2>4. size = 1
    BY <1>0, <2>3 DEF Struct, QueueOf, CloserPlaces, Exact
  <2>5. cur >= 1
    <3>1. waiters # <<>>
      BY <2>3, EmptySeq DEF In
    <3> QED
      BY <1>0, <2>4, <3>1 DEF NoLostWakeup
  <2>6. [ready EXCEPT ![t] = "open"][c] # "granted"
    BY <1>0 DEF TypeOK
  <2>7. Decrement(cur) \in Nat /\ cur - 1 \in Nat
    BY <1>0, <2>5 DEF Decrement
  <2>8. CASE \E n \in Nat : \E q, r : notify(n, q, r) /\ r[c] # "granted"
    BY <2>2, <2>4, <2>8, GrantIsLast
  <2>9. CASE ready' = ready
    BY <1>0, <2>2, <2>9
  <2>10. CASE GiveUp(t)
    <3>1. CASE notify(Decrement(cur), waiters, [ready EXCEPT ![t] = "open"])
      BY <2>6, <2>7, <2>8, <3>1
    <3>2. ASSUME NEW i \in 1..Len(waiters), notify(cur, RemoveAt(waiters, i), ready)
          PROVE  cur' = 1
      BY <1>0, <2>8, <3>2
    <3> QED
      BY <2>9, <2>10, <3>1, <3>2 DEF GiveUp
  <2>11. CASE Release(t)
    BY <2>6, <2>7, <2>8, <2>9, <2>11 DEF Release
  <2> QED
    BY <1>3, <2>10, <2>11
<1>4. ASSUME NEW d \in Closers, CloseStart(d)
      PROVE  cur' = 1
  BY <1>0, <1>4 DEF CloseStart, TypeOK
<1>5. ASSUME NEW d \in Closers, CloseSend(d)
      PROVE  cur' = 1
  BY <1>0, <1>5 DEF CloseSend, TypeOK
<1>6. ASSUME NEW d \in Closers, CloseDrain(d)
      PROVE  cur' = 1
  <2>1. PICK ctx \in BOOLEAN : acquireInternal(d, 1, waiters, ctx)
    BY <1>6 DEF CloseDrain
  <2> QED
    BY <1>0, <1>6, <2>1 DEF CloseDrain, acquireInternal, Returned, TypeOK
<1>7. CASE UNCHANGED vars
  BY <1>0, <1>7 DEF vars
<1> QED
  BY <1>1, <1>2, <1>3, <1>4, <1>5, <1>6, <1>7 DEF Next, ThreadStep, CloseStep

(* A closer that owns a token knows that the semaphore is closed.          *)
LEMMA OwningCloser ==
    ASSUME TypeOK, Struct, CloserPlaces, Exact, NEW c \in Closers, c \in Owners
    PROVE  closed
<1>1. c \in Threads
  BY DEF Threads
<1>2. pc[c] \in Queued \cup {"woken", "releasing", "holding"}
  BY <1>1 DEF Owners, Struct, PcReadyOf, Exact, TypeOK, PCs, Queued
<1> QED
  BY <1>2 DEF CloserPlaces

LEMMA LastOwnerStep ==
    ASSUME TypeOK, NoLostWakeup, Struct, ClosedQueue, DrainInv, Exact', [Next]_vars
    PROVE  LastOwner'
<1> USE DEF DrainInv
<1> SUFFICES ASSUME NEW c \in Closers, c \in Owners'
             PROVE  Owners' \cap Procs = {}
  BY DEF LastOwner
<1>1. CASE c \in Owners
  <2>1. closed
    BY <1>1, OwningCloser
  <2>2. closed'
    BY <2>1 DEF Next, ThreadStep, CloseStep, Acquire, Cancel, SelectDone,
           SelectReady, GiveUp, CheckDone, Release, CloseStart, CloseSend,
           CloseDrain, vars
  <2> QED
    BY <1>1, <2>2, ShrinkStep DEF LastOwner
<1>2. CASE c \notin Owners
  <2>1. Cardinality(Owners') = 1
    BY <1>2, NewCloserAlone DEF Exact
  <2>2. IsFiniteSet(Owners')
    <3>1. Owners' = OwnersOf(pc', ready')
      BY DEF Owners, OwnersOf
    <3> QED
      BY <3>1, OwnersFinite
  <2>3. PICK x : Owners' = {x}
    BY <2>1, <2>2, FS_Singleton
  <2> QED
    BY <2>3, ThreadsAssumption
<1> QED
  BY <1>1, <1>2

(* The inductive invariant of a semaphore whose users are not cancelled.   *)
LEMMA DrainInvHolds ==
    ASSUME Uncancelled
    PROVE  Spec => []DrainInv
<1>1. Init => DrainInv
  <2> SUFFICES ASSUME Init PROVE DrainInv
    OBVIOUS
  <2>1. Owners = {} /\ Procs \subseteq Threads /\ Closers \subseteq Threads
    BY DEF Init, Owners, Threads
  <2>2. Cardinality(Owners) = 0
    BY <2>1, FS_EmptySet
  <2>3. PatientThreads /\ CloserPlaces
    BY <2>1 DEF Init, PatientThreads, CloserPlaces, Queued
  <2>4. Exact
    BY <2>2 DEF Init, Exact
  <2> QED
    BY <2>1, <2>3, <2>4 DEF DrainInv, LastOwner
<1>2. TypeOK /\ NoLostWakeup /\ IndInv /\ DrainInv /\ [Next]_vars => DrainInv'
  <2> SUFFICES ASSUME TypeOK, NoLostWakeup, IndInv, DrainInv, [Next]_vars
               PROVE  DrainInv'
    OBVIOUS
  <2>1. Struct /\ ClosedQueue /\ PatientThreads /\ CloserPlaces /\ Exact
    BY DEF IndInv, DrainInv
  <2>2. PatientThreads' /\ CloserPlaces'
    BY <2>1, PatientStep, PlacesStep
  <2>3. Exact'
    BY <2>1, ExactStep
  <2>4. LastOwner'
    BY <2>1, <2>3, LastOwnerStep
  <2> QED
    BY <2>2, <2>3, <2>4 DEF DrainInv
<1> QED
  BY <1>1, <1>2, TypeCorrect, NoLostWakeupHolds, IndInvHolds, PTL DEF Spec

(* When Close returns without an error, every session was given back: Drop *)
(* logs out and closes the sessions of the slot right after.               *)
THEOREM DrainedMeansNoOwnersHolds ==
    ASSUME Uncancelled
    PROVE  Spec => []DrainedMeansNoOwners
<1>1. DrainInv => DrainedMeansNoOwners
  BY DEF DrainInv, LastOwner, DrainedMeansNoOwners, Owners, Threads
<1> QED
  BY <1>1, DrainInvHolds, PTL

-----------------------------------------------------------------------------
(***************************************************************************)
(* The semaphore implements SessionBudget                                  *)
(***************************************************************************)
Held == Owners \cap Procs

(* Cardinality as SessionBudget knows it.                                  *)
LEMMA SameCardinality == \A S : Budget!Cardinality(S) = Cardinality(S)
BY DEF Budget!Cardinality, Cardinality

LEMMA PhaseOpen ==
    ASSUME CloserPlaces
    PROVE  ~closed /\ ~Locked <=> Phase = "open"
BY DEF CloserPlaces, Phase

(* What the budget sees of the closers.                                    *)
LEMMA PhaseSame ==
    ASSUME closed' = closed,
           \A c \in Closers : /\ pc'[c] = "holding" <=> pc[c] = "holding"
                              /\ pc'[c] = "sending" <=> pc[c] = "sending"
    PROVE  Phase' = Phase
BY DEF Phase, Locked

LEMMA Stutters ==
    ASSUME Held' = Held, Phase' = Phase
    PROVE  UNCHANGED Budget!bvars
BY DEF Budget!bvars, Held

(* A token that comes back, from a thread that used it or from a closer    *)
(* that gave up waiting.                                                   *)
LEMMA GivesBack ==
    ASSUME TypeOK, Struct, ClosedQueue, CloserPlaces, NEW t \in Threads, ~Locked,
           closed' = closed, pc' = [pc EXCEPT ![t] = Returned(t)], pc[t] # "sending",
           t \in Closers => closed /\ pc[t] # "holding",
           t \in Procs => t \in Owners,
           NEW n, notify(n, waiters, [ready EXCEPT ![t] = "open"])
    PROVE  Budget!BNext \/ UNCHANGED Budget!bvars
<1>0. /\ Closers \subseteq Threads /\ Procs \subseteq Threads /\ Procs \cap Closers = {}
  BY ThreadsAssumption DEF Threads
<1>1. Phase' = Phase
  BY <1>0, PhaseSame DEF TypeOK, Returned
<1>2. CASE ~Grants(n, waiters)
  <2>1. ready' = [ready EXCEPT ![t] = "open"]
    BY <1>2 DEF notify
  <2>2. Held' = Held \ {t}
    BY <1>0, <2>1 DEF Held, Owners, TypeOK, Returned
  <2>3. CASE t \in Procs
    <3>1. t \in Held
      BY <2>3 DEF Held
    <3> QED
      BY <1>1, <2>2, <2>3, <3>1 DEF Budget!BNext, Budget!Return, Held
  <2>4. CASE t \notin Procs
    BY <1>1, <2>2, <2>4, Stutters DEF Held
  <2> QED
    BY <2>3, <2>4
<1>3. CASE Grants(n, waiters)
  <2>1. PICK u \in Threads : u = Head(waiters) /\ In(u, waiters)
    BY <1>3, TailQueue DEF Grants, Struct, QueueOf, TypeOK
  <2>2. pc[u] \in Queued /\ ready[u] = "open"
    BY <2>1 DEF Struct, QueueOf
  <2>3. ready' = [[ready EXCEPT ![t] = "open"] EXCEPT ![u] = "granted"]
    BY <1>3, <2>1 DEF notify
  <2>4. CASE u \in Closers
    <3>1. Held' = Held \ {t}
      BY <1>0, <2>3, <2>4 DEF Held, Owners, TypeOK, Returned
    <3>2. CASE t \in Procs
      <4>1. t \in Held
        BY <3>2 DEF Held
      <4> QED
        BY <1>1, <3>1, <3>2, <4>1 DEF Budget!BNext, Budget!Return, Held
    <3>3. CASE t \notin Procs
      BY <1>1, <3>1, <3>3, Stutters DEF Held
    <3> QED
      BY <3>2, <3>3
  <2>5. CASE u \in Procs
    <3>1. ~closed
      BY <2>1, <2>5 DEF ClosedQueue
    <3>2. Phase = "open"
      BY <3>1, PhaseOpen
    <3>3. t \in Procs
      BY <3>1 DEF Threads
    <3>4. t \in Held /\ u \notin Held
      BY <2>2, <3>3 DEF Held, Owners, Queued
    <3>5. Held' = (Held \ {t}) \cup {u}
      BY <1>0, <2>2, <2>3, <2>5, <3>3 DEF Held, Owners, TypeOK, Returned
    <3> QED
      BY <1>1, <2>5, <3>2, <3>3, <3>4, <3>5 DEF Budget!BNext, Budget!HandOver, Held
  <2> QED
    BY <2>1, <2>4, <2>5 DEF Threads
<1> QED
  BY <1>2, <1>3

(* Every step of the semaphore is one of the budget, or invisible to it.   *)
LEMMA BudgetStep ==
    ASSUME TypeOK, NoLostWakeup, IndInv, DrainInv, DrainInv', [Next]_vars
    PROVE  Budget!BNext \/ UNCHANGED Budget!bvars
<1> DEFINE Goal == Budget!BNext \/ UNCHANGED Budget!bvars
<1> USE DEF IndInv, DrainInv
<1>0. /\ Closers \subseteq Threads /\ Procs \subseteq Threads /\ Procs \cap Closers = {}
      /\ cur \in Nat /\ size \in Nat /\ IsFiniteSet(Owners)
  <2>1. Owners = OwnersOf(pc, ready)
    BY DEF Owners, OwnersOf
  <2> QED
    BY <2>1, ThreadsAssumption, SizeAssumption, OwnersFinite DEF TypeOK, Threads
<1>1. ASSUME NEW p \in Procs, Acquire(p)
      PROVE  Goal
  <2>1. /\ p \notin Owners /\ ready' = ready /\ closed' = closed /\ ~closed /\ ~Locked
        /\ pc[p] = "idle"
    BY <1>0, <1>1 DEF Acquire, Owners, Struct, PcReadyOf
  <2>2. PICK ctx \in BOOLEAN : acquireInternal(p, size, waiters, ctx)
    BY <1>1 DEF Acquire
  <2>3. Phase' = Phase /\ Phase = "open"
    <3>1. \A c \in Closers : pc'[c] = pc[c]
      BY <1>0, <2>2 DEF acquireInternal, TypeOK
    <3> QED
      BY <2>1, <3>1, PhaseSame, PhaseOpen
  <2>4. CASE cur < size /\ pc' = [pc EXCEPT ![p] = "holding"]
    <3>1. Held' = Held \cup {p} /\ p \notin Held
      BY <1>0, <2>1, <2>4 DEF Held, Owners, TypeOK
    <3>2. Cardinality(Held) < Size
      <4>1. Cardinality(Owners) < Size
        BY <2>1, <2>4 DEF Account
      <4>2. Held \subseteq Owners
        BY DEF Held
      <4>3. Cardinality(Held) <= Cardinality(Owners) /\ IsFiniteSet(Held)
        BY <1>0, <4>2, FS_Subset
      <4>4. Cardinality(Held) \in Nat /\ Cardinality(Owners) \in Nat
        BY <1>0, <4>3, FS_CardinalityType
      <4> QED
        BY <4>1, <4>3, <4>4, SizeAssumption
    <3>3. Budget!Grant(p)
      BY <2>3, <3>1, <3>2, SameCardinality DEF Budget!Grant, Held
    <3> QED
      BY <3>3 DEF Budget!BNext
  <2>5. CASE \E l \in {"idle", "failed", "waiting"} : pc' = [pc EXCEPT ![p] = l]
    <3>1. Held' = Held
      BY <1>0, <2>1, <2>5 DEF Held, Owners, TypeOK
    <3> QED
      BY <2>3, <3>1, Stutters
  <2> QED
    BY <2>2, <2>4, <2>5 DEF acquireInternal, Returned
<1>2. ASSUME NEW t \in Threads, Cancel(t) \/ SelectDone(t) \/ SelectReady(t)
      PROVE  Goal
  <2>1. Held' = Held
    BY <1>2 DEF Cancel, SelectDone, SelectReady, Held, Owners, TypeOK
  <2>2. Phase' = Phase
    <3>1. closed' = closed
      BY <1>2 DEF Cancel, SelectDone, SelectReady
    <3>2. \A c \in Closers : /\ pc'[c] = "holding" <=> pc[c] = "holding"
                             /\ pc'[c] = "sending" <=> pc[c] = "sending"
      BY <1>0, <1>2 DEF Cancel, SelectDone, SelectReady, TypeOK
    <3> QED
      BY <3>1, <3>2, PhaseSame
  <2> QED
    BY <2>1, <2>2, Stutters
<1>3. ASSUME NEW t \in Threads, CheckDone(t)
      PROVE  Goal
  <2>1. Held' = Held /\ closed' = closed
    BY <1>3 DEF CheckDone, Held, Owners, TypeOK, Returned
  <2>2. CASE t \in Closers /\ ~ctxDone[t] /\ ready[t] = "granted"
    <3>1. t \in Owners /\ closed
      BY <1>0, <1>3, <2>2 DEF CheckDone, Owners, CloserPlaces
    <3>2. Held = {}
      BY <2>2, <3>1 DEF LastOwner, Held
    <3>3. pc'[t] = "holding"
      BY <1>3, <2>2 DEF CheckDone, TypeOK
    <3>4. Phase' = "drained" /\ Phase \in {"closing", "drained"}
      BY <2>2, <3>1, <3>3 DEF Phase
    <3>5. CASE Phase = "drained"
      BY <2>1, <3>4, <3>5, Stutters
    <3>6. CASE Phase = "closing"
      BY <2>1, <3>2, <3>4, <3>6 DEF Budget!BNext, Budget!Drained, Held
    <3> QED
      BY <3>4, <3>5, <3>6
  <2>3. CASE ~(t \in Closers /\ ~ctxDone[t] /\ ready[t] = "granted")
    <3>1. \A c \in Closers : /\ pc'[c] = "holding" <=> pc[c] = "holding"
                             /\ pc'[c] = "sending" <=> pc[c] = "sending"
      BY <1>0, <1>3, <2>3 DEF CheckDone, Returned, TypeOK
    <3> QED
      BY <2>1, <3>1, PhaseSame, Stutters
  <2> QED
    BY <2>2, <2>3
<1>4. ASSUME NEW t \in Threads, GiveUp(t)
      PROVE  Goal
  <2>1. /\ pc[t] = "cancelled" /\ ~Locked /\ closed' = closed
        /\ pc' = [pc EXCEPT ![t] = Returned(t)]
    BY <1>4 DEF GiveUp
  <2>2. t \in Closers /\ t \notin Procs /\ closed
    BY <1>0, <2>1 DEF PatientThreads, CloserPlaces, Queued, Threads
  <2>3. CASE notify(Decrement(cur), waiters, [ready EXCEPT ![t] = "open"])
    BY <2>1, <2>2, <2>3, GivesBack
  <2>4. ASSUME NEW i \in 1..Len(waiters), cur >= size => ready' = ready
        PROVE  Goal
    <3>1. waiters # <<>>
      BY EmptySeq DEF TypeOK
    <3>2. ready' = ready
      BY <2>4, <3>1 DEF NoLostWakeup
    <3>3. Held' = Held
      BY <1>0, <2>1, <2>2, <3>2 DEF Held, Owners, TypeOK
    <3>4. Phase' = Phase
      BY <1>0, <2>1, <2>2, PhaseSame DEF TypeOK, Returned
    <3> QED
      BY <3>3, <3>4, Stutters
  <2> QED
    BY <1>0, <1>4, <2>3, <2>4 DEF GiveUp
<1>5. ASSUME NEW t \in Threads, Release(t)
      PROVE  Goal
  <2>1. t \in Owners
    BY <1>5, ReleaserOwns
  <2>2. cur # 0
    BY <1>0, <2>1, FS_EmptySet DEF Exact
  <2>3. /\ notify(cur - 1, waiters, [ready EXCEPT ![t] = "open"])
        /\ pc' = [pc EXCEPT ![t] = Returned(t)]
        /\ closed' = closed /\ ~Locked /\ pc[t] \in {"releasing", "holding"}
    BY <1>5, <2>2 DEF Release
  <2>4. t \in Closers => closed /\ pc[t] # "holding"
    BY <1>0, <1>5, <2>3 DEF Release, CloserPlaces
  <2> QED
    BY <2>1, <2>3, <2>4, GivesBack
<1>6. ASSUME NEW c \in Closers, CloseStart(c)
      PROVE  Goal
  <2>1. Held' = Held /\ closed' = closed /\ pc[c] = "idle" /\ ~Locked
    BY <1>0, <1>6 DEF CloseStart, Held, Owners, TypeOK
  <2>2. CASE closed
    BY <1>0, <1>6, <2>1, <2>2, PhaseSame, Stutters DEF CloseStart, TypeOK
  <2>3. CASE ~closed
    <3>1. pc'[c] = "sending" /\ \A d \in Closers : pc'[d] # "holding"
      BY <1>0, <1>6, <2>3 DEF CloseStart, CloserPlaces, TypeOK
    <3>2. Phase = "open" /\ Phase' = "closing"
      BY <2>1, <2>3, <3>1, PhaseOpen DEF Phase, Locked
    <3> QED
      BY <2>1, <3>2 DEF Budget!BNext, Budget!StartClosing, Held
  <2> QED
    BY <2>2, <2>3
<1>7. ASSUME NEW c \in Closers, CloseSend(c)
      PROVE  Goal
  <2>1. Head(waiters) \in Threads /\ ready[Head(waiters)] = "open"
        /\ pc[Head(waiters)] = "waiting"
    BY <1>7, TailQueue DEF CloseSend, Struct, QueueOf, TypeOK
  <2>2. Held' = Held
    BY <1>7, <2>1 DEF CloseSend, Held, Owners, TypeOK
  <2>3. \A d \in Closers : /\ pc'[d] = "holding" <=> pc[d] = "holding"
                           /\ pc'[d] = "sending" <=> pc[d] = "sending"
    BY <1>0, <1>7, <2>1 DEF CloseSend, TypeOK
  <2> QED
    BY <1>7, <2>2, <2>3, PhaseSame, Stutters DEF CloseSend
<1>8. ASSUME NEW c \in Closers, CloseDrain(c)
      PROVE  Goal
  <2>1. /\ closed' /\ ready' = ready /\ pc[c] = "sending" /\ ~closed
        /\ \E l \in {"failed", "holding", "waiting"} : pc' = [pc EXCEPT ![c] = l]
    BY <1>0, <1>8 DEF CloseDrain, acquireInternal, Returned, CloserPlaces
  <2>2. Held' = Held /\ \A d \in Closers : pc'[d] = "holding" => d = c
    BY <1>0, <2>1 DEF Held, Owners, TypeOK, CloserPlaces
  <2>3. Phase = "closing"
    BY <2>1 DEF Phase, Locked, CloserPlaces
  <2>4. CASE pc'[c] = "holding"
    <3>1. Phase' = "drained"
      BY <2>4 DEF Phase
    <3>2. Held' = {}
      BY <1>0, <2>4 DEF Held, LastOwner, Owners
    <3> QED
      BY <2>2, <2>3, <3>1, <3>2 DEF Budget!BNext, Budget!Drained, Held
  <2>5. CASE pc'[c] # "holding"
    <3>1. Phase' = "closing"
      BY <2>1, <2>2, <2>5 DEF Phase
    <3> QED
      BY <2>2, <2>3, <3>1, Stutters
  <2> QED
    BY <2>4, <2>5
<1>9. CASE UNCHANGED vars
  BY <1>9 DEF vars, Budget!bvars, Phase, Locked, Owners
<1> QED
  BY <1>1, <1>2, <1>3, <1>4, <1>5, <1>6, <1>7, <1>8, <1>9 DEF Next, ThreadStep, CloseStep

(* The queue, the channels and the rendezvous of Close implement what the  *)
(* pool relies on: a bounded number of sessions, none granted once Close   *)
(* began, and a Close that returns only when all of them are back.         *)
THEOREM ImplementsBudgetHolds ==
    ASSUME Uncancelled
    PROVE  Spec => ImplementsBudget
<1>1. Init => Budget!BInit
  BY DEF Init, Budget!BInit, Owners, Phase, Locked, Threads
<1>2. TypeOK /\ NoLostWakeup /\ IndInv /\ DrainInv /\ DrainInv' /\ [Next]_vars
        => [Budget!BNext]_(Budget!bvars)
  BY BudgetStep
<1> QED
  BY <1>1, <1>2, TypeCorrect, NoLostWakeupHolds, IndInvHolds, DrainInvHolds, PTL
     DEF Spec, ImplementsBudget, Budget!BSpec
=============================================================================
