--------------------------- MODULE SemaphoreCloser ---------------------------
(***************************************************************************)
(* The closable counting semaphore of the PKCS#11 session pool             *)
(* (kms/pkcs11/internal/session/semaphore.go).                             *)
(*                                                                         *)
(* A token is the right to keep one PKCS#11 session open.  Threads of      *)
(* Procs call Acquire and Release; threads of Closers call Close once.     *)
(* Every section of the code that runs under s.mu without blocking is one  *)
(* action.  Close is the exception: it keeps s.mu while it sends s.err to  *)
(* the waiters over unbuffered channels, so each send is an action of its  *)
(* own and Locked says that the mutex is taken between them.               *)
(***************************************************************************)
EXTENDS Naturals, SequencesExt, FiniteSets

CONSTANTS
    Procs,        \* threads that acquire and release tokens
    Closers,      \* threads that close the semaphore
    Cancellable,  \* threads whose context may be cancelled
    Size,         \* maxSessions - 1, the capacity given by Login
    MaxUint       \* math.MaxUint, the greatest value of a uint

Threads == Procs \cup Closers

ASSUME ThreadsAssumption == /\ Procs \cap Closers = {}
                            /\ IsFiniteSet(Procs) /\ IsFiniteSet(Closers)
                            /\ Cancellable \subseteq Threads
ASSUME SizeAssumption == MaxUint \in Nat /\ Size \in 1..MaxUint

VARIABLES
    size, cur,   \* s.size, s.cur
    waiters,     \* s.waiters, the queue of threads by order of arrival
    closed,      \* s.closed
    ready,       \* per thread, what its ready channel holds
    ctxDone,     \* per thread, whether the context of its call is done
    pc           \* per thread, where it is in the code

vars == <<size, cur, waiters, closed, ready, ctxDone, pc>>

(* "waiting": in the select of line 98.  "cancelled": took its done case,  *)
(* before s.mu.Lock.  "woken": took its ready case.  "releasing": about to *)
(* call Release on line 120.  "sending": in the loop of Close.             *)
PCs == {"idle", "waiting", "cancelled", "woken", "releasing", "holding",
        "sending", "failed", "panicked"}

(* "open": nothing to receive.  "granted": closed by notify, a receive     *)
(* yields nil.  "err": the thread received s.err from Close.               *)
Readys == {"open", "granted", "err"}

TypeOK == /\ size \in 1..MaxUint
          /\ cur \in 0..MaxUint
          /\ waiters \in Seq(Threads)
          /\ closed \in BOOLEAN
          /\ ready \in [Threads -> Readys]
          /\ ctxDone \in [Threads -> BOOLEAN]
          /\ pc \in [Threads -> PCs]

Init == /\ size = Size
        /\ cur = 0
        /\ waiters = <<>>
        /\ closed = FALSE
        /\ ready = [t \in Threads |-> "open"]
        /\ ctxDone = [t \in Threads |-> FALSE]
        /\ pc = [t \in Threads |-> "idle"]

Locked == \E c \in Closers : pc[c] = "sending"

(* s.cur-- of line 105, which nothing guards: a uint wraps around at 0.    *)
(* TokensAccounted rules that out until the close; after the close a       *)
(* surplus Release (line 120) can bring it about.                          *)
Decrement(c) == IF c = 0 THEN MaxUint ELSE c - 1

(***************************************************************************)
(* notify, run with c tokens in use, queue q and channels r, after a token *)
(* came back: at most one waiter is granted, in order of arrival.          *)
(***************************************************************************)
Grants(c, q) == q # <<>> /\ c < size

notify(c, q, r) ==
    IF Grants(c, q)
      THEN /\ cur' = c + 1
           /\ waiters' = Tail(q)
           /\ ready' = [r EXCEPT ![Head(q)] = "granted"]
      ELSE /\ cur' = c
           /\ waiters' = q
           /\ ready' = r

(* Where a call that failed leaves its caller: free to call Acquire again, *)
(* while Close is called once by each closer.                              *)
Returned(t) == IF t \in Procs THEN "idle" ELSE "failed"

(* acquireInternal up to its unlock, entered with capacity n and queue q:  *)
(* fail at once when the context is done, else take a free token, else     *)
(* join the queue.                                                         *)
MutantAcquireOffByOne(t, n, q, ctx) ==
    /\ size' = n
    /\ ~ctx
    /\ \/ /\ cur <= n /\ q = <<>>
          /\ cur' = cur + 1
          /\ pc' = [pc EXCEPT ![t] = "holding"]
          /\ UNCHANGED waiters
       \/ /\ ~(cur <= n /\ q = <<>>)
          /\ waiters' = Append(q, t)
          /\ pc' = [pc EXCEPT ![t] = "waiting"]
          /\ UNCHANGED cur

acquireInternal(t, n, q, ctx) ==
    /\ size' = n
    /\ \/ /\ ctx
          /\ waiters' = q
          /\ pc' = [pc EXCEPT ![t] = Returned(t)]
          /\ UNCHANGED cur
       \/ /\ ~ctx
          /\ cur < n /\ q = <<>>
          /\ waiters' = q
          /\ cur' = cur + 1
          /\ pc' = [pc EXCEPT ![t] = "holding"]
       \/ /\ ~ctx
          /\ ~(cur < n /\ q = <<>>)
          /\ waiters' = Append(q, t)
          /\ pc' = [pc EXCEPT ![t] = "waiting"]
          /\ UNCHANGED cur

(***************************************************************************)
(* Acquire.  A call carries a context of its own, which may be done before *)
(* the call looks at it.                                                   *)
(***************************************************************************)
MutantAcquireAfterClose(p) ==
    /\ pc[p] = "idle" /\ ~Locked
    /\ acquireInternal(p, size, waiters, FALSE)
    /\ UNCHANGED <<closed, ready, ctxDone>>

Acquire(p) ==
    /\ pc[p] = "idle" /\ ~Locked
    /\ ~closed
    /\ \E ctx \in (IF p \in Cancellable THEN BOOLEAN ELSE {FALSE}) :
          acquireInternal(p, size, waiters, ctx)
    /\ UNCHANGED <<closed, ready, ctxDone>>

(* The context of a call is cancelled or times out while the call waits.   *)
Cancel(t) ==
    /\ t \in Cancellable
    /\ pc[t] \in {"waiting", "woken"} /\ ~ctxDone[t]
    /\ ctxDone' = [ctxDone EXCEPT ![t] = TRUE]
    /\ UNCHANGED <<size, cur, waiters, closed, ready, pc>>

(* The select of line 98 takes its done case ...                           *)
SelectDone(t) ==
    /\ pc[t] = "waiting" /\ ctxDone[t]
    /\ pc' = [pc EXCEPT ![t] = "cancelled"]
    /\ UNCHANGED <<size, cur, waiters, closed, ready, ctxDone>>

(* ... or its ready case, after notify closed the channel.                 *)
SelectReady(t) ==
    /\ pc[t] = "waiting" /\ ready[t] = "granted"
    /\ pc' = [pc EXCEPT ![t] = "woken"]
    /\ UNCHANGED <<size, cur, waiters, closed, ready, ctxDone>>

(* Lines 100-115, with s.mu held: a token granted meanwhile is handed on,  *)
(* else the thread leaves the queue.                                       *)
MutantGiveUpNoNotify(t) ==
    /\ pc[t] = "cancelled" /\ ~Locked
    /\ \/ /\ ready[t] = "granted"
          /\ cur' = cur - 1
          /\ ready' = [ready EXCEPT ![t] = "open"]
          /\ UNCHANGED waiters
       \/ /\ ready[t] # "granted"
          /\ waiters' = Remove(waiters, t)
          /\ UNCHANGED <<cur, ready>>
    /\ pc' = [pc EXCEPT ![t] = Returned(t)]
    /\ ctxDone' = [ctxDone EXCEPT ![t] = FALSE]
    /\ UNCHANGED <<size, closed>>

MutantGiveUpStaysQueued(t) ==
    /\ pc[t] = "cancelled" /\ ~Locked
    /\ IF ready[t] = "granted"
         THEN notify(cur - 1, waiters, [ready EXCEPT ![t] = "open"])
         ELSE UNCHANGED <<cur, waiters, ready>>
    /\ pc' = [pc EXCEPT ![t] = Returned(t)]
    /\ ctxDone' = [ctxDone EXCEPT ![t] = FALSE]
    /\ UNCHANGED <<size, closed>>

MutantGiveUpKeepsToken(t) ==
    /\ pc[t] = "cancelled" /\ ~Locked
    /\ waiters' = Remove(waiters, t)
    /\ ready' = [ready EXCEPT ![t] = "open"]
    /\ pc' = [pc EXCEPT ![t] = Returned(t)]
    /\ ctxDone' = [ctxDone EXCEPT ![t] = FALSE]
    /\ UNCHANGED <<size, cur, closed>>

GiveUp(t) ==
    /\ pc[t] = "cancelled" /\ ~Locked
    /\ \/ /\ ready[t] = "granted"
          /\ notify(Decrement(cur), waiters, [ready EXCEPT ![t] = "open"])
       \/ /\ ready[t] # "granted"
          /\ \E i \in 1..Len(waiters) :
               /\ waiters[i] = t
               /\ IF i = 1 /\ size > cur
                    THEN notify(cur, RemoveAt(waiters, i), ready)
                    ELSE /\ waiters' = RemoveAt(waiters, i)
                         /\ UNCHANGED <<cur, ready>>
    /\ pc' = [pc EXCEPT ![t] = Returned(t)]
    /\ ctxDone' = [ctxDone EXCEPT ![t] = FALSE]
    /\ UNCHANGED <<size, closed>>

(* Lines 117-124: what was received is returned, unless the context is     *)
(* done as well, in which case Release is called whatever was received.    *)
CheckDone(t) ==
    /\ pc[t] = "woken"
    /\ \/ /\ ctxDone[t]
          /\ pc' = [pc EXCEPT ![t] = "releasing"]
          /\ UNCHANGED ready
       \/ /\ ~ctxDone[t]
          /\ pc' = [pc EXCEPT ![t] =
                      IF ready[t] = "granted" THEN "holding" ELSE Returned(t)]
          /\ ready' = [ready EXCEPT ![t] = "open"]
    /\ UNCHANGED <<size, cur, waiters, closed, ctxDone>>

(* Release, called by the owner of a session or on line 120.  Its panic    *)
(* stops the thread.                                                       *)
Release(t) ==
    /\ pc[t] = "releasing" \/ (t \in Procs /\ pc[t] = "holding")
    /\ ~Locked
    /\ IF cur = 0
         THEN /\ pc' = [pc EXCEPT ![t] = "panicked"]
              /\ UNCHANGED <<cur, waiters, ready, ctxDone>>
         ELSE /\ notify(cur - 1, waiters, [ready EXCEPT ![t] = "open"])
              /\ pc' = [pc EXCEPT ![t] = Returned(t)]
              /\ ctxDone' = [ctxDone EXCEPT ![t] = FALSE]
    /\ UNCHANGED <<size, closed>>

(***************************************************************************)
(* Close: takes s.mu, sends s.err to each waiter in turn, closes, and then *)
(* waits for a token of a semaphore of capacity 1, which is free once all  *)
(* the others came back.                                                   *)
(***************************************************************************)
CloseStart(c) ==
    /\ pc[c] = "idle" /\ ~Locked
    /\ pc' = [pc EXCEPT ![c] = IF closed THEN "failed" ELSE "sending"]
    /\ UNCHANGED <<size, cur, waiters, closed, ready, ctxDone>>

(* ready <- s.err is a rendezvous with the waiter at the front, which must *)
(* still be in its select.  The code empties the list only after the loop, *)
(* but nobody can look at it while Close holds s.mu.                       *)
MutantCloseSendNobody(c) ==
    /\ pc[c] = "sending"
    /\ waiters # <<>>
    /\ waiters' = <<>>
    /\ UNCHANGED <<size, cur, closed, ready, ctxDone, pc>>

CloseSend(c) ==
    /\ pc[c] = "sending"
    /\ waiters # <<>>
    /\ pc[Head(waiters)] = "waiting"
    /\ pc' = [pc EXCEPT ![Head(waiters)] = "woken"]
    /\ ready' = [ready EXCEPT ![Head(waiters)] = "err"]
    /\ waiters' = Tail(waiters)
    /\ UNCHANGED <<size, cur, closed, ctxDone>>

MutantDrainKeepsSize(c) ==
    /\ pc[c] = "sending" /\ waiters = <<>>
    /\ closed' = TRUE
    /\ acquireInternal(c, size, waiters, FALSE)
    /\ UNCHANGED <<ready, ctxDone>>

MutantDrainNoToken(c) ==
    /\ pc[c] = "sending" /\ waiters = <<>>
    /\ closed' = TRUE
    /\ acquireInternal(c, 0, waiters, FALSE)
    /\ UNCHANGED <<ready, ctxDone>>

MutantDrainStaysOpen(c) ==
    /\ pc[c] = "sending" /\ waiters = <<>>
    /\ acquireInternal(c, 1, waiters, FALSE)
    /\ UNCHANGED <<closed, ready, ctxDone>>

CloseDrain(c) ==
    /\ pc[c] = "sending"
    /\ waiters = <<>>
    /\ closed' = TRUE
    /\ \E ctx \in (IF c \in Cancellable THEN BOOLEAN ELSE {FALSE}) :
          acquireInternal(c, 1, waiters, ctx)
    /\ UNCHANGED <<ready, ctxDone>>

ThreadStep(t) == \/ SelectDone(t)
                 \/ SelectReady(t)
                 \/ GiveUp(t)
                 \/ CheckDone(t)
                 \/ Release(t)

CloseStep(c) == CloseSend(c) \/ CloseDrain(c)

Next == \/ \E p \in Procs : Acquire(p)
        \/ \E t \in Threads : Cancel(t) \/ ThreadStep(t)
        \/ \E c \in Closers : CloseStart(c) \/ CloseStep(c)

(***************************************************************************)
(* The scheduler runs every thread, a mutex that is free is eventually     *)
(* handed to whoever waits for it (s.mu is kept for more than one step     *)
(* only by Close, once per closer), and the owner of a session closes it:  *)
(* pool.Scope does so when the callback returns or panics.  Nobody is      *)
(* obliged to call Acquire or Close, and contexts need not be cancelled.   *)
(***************************************************************************)
Fairness == /\ \A t \in Threads : WF_vars(ThreadStep(t))
            /\ \A c \in Closers : WF_vars(CloseStep(c))

Spec == Init /\ [][Next]_vars

FairSpec == Spec /\ Fairness

-----------------------------------------------------------------------------
(***************************************************************************)
(* Properties                                                              *)
(***************************************************************************)

(* The threads that own a token, including the ones that do not know yet.  *)
Owners == {t \in Threads : pc[t] = "holding" \/ ready[t] = "granted"}

(* No lost wake-up: while a thread queues, every token is in use.  The     *)
(* hazard is a token that comes back (Release, or a grant that its waiter  *)
(* gave up) without notify handing it on, which nobody would do later.     *)
NoLostWakeup == waiters # <<>> => cur >= size

(* The queue and the threads agree: nobody queues twice, and exactly the   *)
(* threads that neither got a token nor an error are queued.               *)
QueueExact ==
    /\ \A i, j \in 1..Len(waiters) : waiters[i] = waiters[j] => i = j
    /\ \A t \in Threads :
          (\E i \in 1..Len(waiters) : waiters[i] = t)
            <=> (pc[t] \in {"waiting", "cancelled"} /\ ready[t] = "open")

(* Until the semaphore is closed, s.cur counts the tokens in use, whatever *)
(* mixture of grants, cancellations and releases led here.                 *)
TokensAccounted == ~closed => cur = Cardinality(Owners)

(* The sessions handed out never exceed what the PKCS#11 token offers,     *)
(* also while the semaphore closes and sets s.size to 1.                   *)
SessionsBounded == Cardinality(Owners \cap Procs) <= Size

(* Close returns nil only when every token came back (the comment on       *)
(* Close: it "attempts to wait until all currently acquired tokens have    *)
(* been released"; Drop logs out and closes all sessions right after).     *)
DrainedMeansNoOwners ==
    (\E c \in Closers : pc[c] = "holding") => Owners \cap Procs = {}

(* Once closed, nobody new gets a session: the set of session owners only  *)
(* shrinks.                                                                *)
ClosedOnlyShrinks ==
    [][closed => (Owners \cap Procs)' \subseteq Owners]_vars

(* The semaphore implements the budget it promises to the pool's users.    *)
Phase == IF \E c \in Closers : pc[c] = "holding" THEN "drained"
         ELSE IF closed \/ Locked THEN "closing" ELSE "open"

Budget == INSTANCE SessionBudget
            WITH held <- Owners \cap Procs, phase <- Phase

(* Every step of the code is a step of the budget, or invisible to it.     *)
ImplementsBudget == Budget!BSpec

(* A thread that waits for a token gets one, or returns an error when its  *)
(* context is done or the semaphore closes.                                *)
WaiterReturns ==
    \A p \in Procs : pc[p] = "waiting" ~> pc[p] \in {"idle", "holding"}

(* Close returns: all sessions are given back eventually.                  *)
CloseReturns ==
    \A c \in Closers : pc[c] = "sending" ~> pc[c] \in {"holding", "failed"}
=============================================================================
