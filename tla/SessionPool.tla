----------------------------- MODULE SessionPool -----------------------------
(***************************************************************************)
(* Shared PKCS#11 modules and session pools: the reference counts of       *)
(* kms/pkcs11/internal/module/module.go, Login, Get, put and Drop of       *)
(* kms/pkcs11/internal/session/pool.go, and their two users, the KMS       *)
(* (pkcs11.go: Open and Close) and the wrapper (wrapper.go: SetConfig,     *)
(* with and Finalize).                                                     *)
(*                                                                         *)
(* All of it runs in one process and shares two global caches.  Everybody  *)
(* here uses the same library, so the module cache has one entry; the pool *)
(* cache has one entry per token slot.  The semaphore of a pool is that of *)
(* SemaphoreCloser with one step per critical section and without the      *)
(* order of its queue: it counts tokens, passes one that comes back to a   *)
(* queued operation, and when it closes tells the queued ones, which may   *)
(* go wrong when their contexts end at that moment.                        *)
(***************************************************************************)
EXTENDS Naturals, FiniteSets

CONSTANTS
    Kmss,         \* pkcs11KMS objects
    Calls,        \* threads that call Encrypt or Decrypt of the one wrapper
    Ops,          \* threads that use a session of somebody's pool
    Slots,        \* token slots
    SlotOf,       \* per client, its token.ID
    PinOf,        \* per client, its PIN
    MaxSessions,  \* what Login reads from the token's info
    TokenErrors,  \* the PKCS#11 functions that may fail
    Timeouts      \* the calls ("Login", "Get", "Drop") whose context may end

Clients == Kmss \cup Calls

(* Bound: the pools that somebody refers to at a time.  An identifier is   *)
(* reused once nobody does; with clients only that many are enough, and    *)
(* operations that a timed-out Drop left behind may use them up.           *)
Pools == Clients
None == "none"

ASSUME ClientsAssumption == /\ Kmss \cap Calls = {}
                            /\ IsFiniteSet(Clients) /\ IsFiniteSet(Ops)
                            /\ None \notin Clients
ASSUME TokensAssumption == /\ SlotOf \in [Clients -> Slots]
                           /\ MaxSessions \in Nat

VARIABLES
    modRefs,    \* module.refs; 0: not in the cache, library finalized
    wrapper,    \* "new", "token", "configured" or "finalized"
    cache,      \* the pool cache: per slot, a pool or None
    pool,       \* per pool: slot, pin, refs, live, dead, closed
    sema,       \* per pool: cur and the queued closer of its semaphore, and
                \* what went wrong with it (history)
    pc,         \* per client, where it is
    ref,        \* per client, the pool it waits for or uses
    dropErr,    \* per client, whether its Drop has failed so far
    opPc,       \* per operation, where it is
    opRef,      \* per operation, the pool it uses
    opFor,      \* per operation, the client whose key it belongs to
    sessions,   \* open sessions of the token: <<pool, thread>>
    loggedIn,   \* the slots whose user is logged in
    unclean     \* history: the slots where closing sessions failed last

poolVars  == <<cache, pool>>
tokenVars == <<sessions, loggedIn, unclean>>
opVars    == <<opPc, opRef, opFor, sema>>
vars == <<modRefs, wrapper, cache, pool, sema, pc, ref, dropErr, opPc, opRef,
          opFor, sessions, loggedIn, unclean>>

ClientPCs == {"new", "token", "lookup", "await", "join", "awaitDead", "create",
              "authenticate", "rollback", "announceFailure", "failed",
              "open", "close", "drain", "logout", "closeAll", "uncache",
              "announce", "dropMod", "leaked", "done", "stuck", "panicked"}
OpPCs == {"idle", "get", "queued", "told", "opening", "using", "putting",
          "panicked"}

PoolRec == [slot : Slots, pin : {PinOf[c] : c \in Clients},
            refs : 0..Cardinality(Clients),
            live : BOOLEAN, dead : BOOLEAN, closed : BOOLEAN]

(* waiting: Close has queued for the last token.  surplus: somebody        *)
(* released a token it never had.  gaveUp: whose Close ended without one.  *)
SemaRec == [cur : Nat, waiting : BOOLEAN, surplus : BOOLEAN,
            gaveUp : {"nobody", "kms", "call"}]

TypeOK ==
    /\ modRefs \in 0..(Cardinality(Kmss) + 1)
    /\ wrapper \in {"new", "token", "configured", "finalized"}
    /\ cache \in [Slots -> Pools \cup {None}]
    /\ pool \in [Pools -> PoolRec]
    /\ pc \in [Clients -> ClientPCs]
    /\ ref \in [Clients -> Pools \cup {None}]
    /\ dropErr \in [Clients -> BOOLEAN]
    /\ opPc \in [Ops -> OpPCs]
    /\ opRef \in [Ops -> Pools \cup {None}]
    /\ opFor \in [Ops -> Clients \cup {None}]
    /\ sessions \subseteq (Pools \X (Clients \cup Ops))
    /\ sema \in [Pools -> SemaRec]
    /\ loggedIn \subseteq Slots
    /\ unclean \subseteq Slots

NewPool(c) == [slot |-> SlotOf[c], pin |-> PinOf[c], refs |-> 1,
               live |-> FALSE, dead |-> FALSE, closed |-> FALSE]
NewSema == [cur |-> 0, waiting |-> FALSE, surplus |-> FALSE, gaveUp |-> "nobody"]

Init ==
    /\ modRefs = 0
    /\ wrapper = "new"
    /\ cache = [s \in Slots |-> None]
    /\ pool = [p \in Pools |-> NewPool(p)]
    /\ pc = [c \in Clients |-> "new"]
    /\ ref = [c \in Clients |-> None]
    /\ dropErr = [c \in Clients |-> FALSE]
    /\ opPc = [o \in Ops |-> "idle"]
    /\ opRef = [o \in Ops |-> None]
    /\ opFor = [o \in Ops |-> None]
    /\ sessions = {}
    /\ loggedIn = {}
    /\ sema = [p \in Pools |-> NewSema]
    /\ unclean = {}

Goto(c, l) == pc' = [pc EXCEPT ![c] = l]

(* The outcomes of a PKCS#11 function: it may fail when TokenErrors says   *)
(* so.                                                                     *)
Outcomes(f) == IF f \in TokenErrors THEN BOOLEAN ELSE {TRUE}

-----------------------------------------------------------------------------
(***************************************************************************)
(* module.go: Open and Drop run under the module cache's lock.             *)
(***************************************************************************)

ModuleOpen == modRefs' = modRefs + 1

(* The last reference finalizes the library and leaves the cache.          *)
ModuleDrop == modRefs' = modRefs - 1

(* pkcs11KMS.Open, first half: module.Open, which fails without a trace    *)
(* when the library does not initialize, then GetToken ...                 *)
KmsOpen(k) ==
    /\ pc[k] = "new"
    /\ \/ ModuleOpen /\ Goto(k, "token")
       \/ /\ modRefs = 0 /\ "Initialize" \in TokenErrors
          /\ Goto(k, "done") /\ UNCHANGED modRefs
    /\ UNCHANGED <<wrapper, poolVars, ref, dropErr, opVars, tokenVars>>

(* ... which failing gives the module back.                                *)
GetToken(k) ==
    /\ pc[k] = "token"
    /\ \E ok \in Outcomes("GetToken") :
          Goto(k, IF ok THEN "lookup" ELSE "failed")
    /\ UNCHANGED <<modRefs, wrapper, poolVars, ref, dropErr, opVars, tokenVars>>

(* pkcs11Wrapper.SetConfig: the same two calls, without a Login after      *)
(* them.  A configuration or a library that does not do changes nothing.   *)
WrapperSetConfig ==
    /\ Calls # {} /\ wrapper = "new"
    /\ wrapper' = "token"
    /\ ModuleOpen
    /\ UNCHANGED <<poolVars, pc, ref, dropErr, opVars, tokenVars>>

WrapperGetToken ==
    /\ wrapper = "token"
    /\ \E ok \in Outcomes("GetToken") :
         IF ok THEN wrapper' = "configured" /\ UNCHANGED modRefs
               ELSE wrapper' = "new" /\ ModuleDrop
    /\ UNCHANGED <<poolVars, pc, ref, dropErr, opVars, tokenVars>>

(* pkcs11Wrapper.Finalize, called when the wrapper is no longer in use.    *)
WrapperFinalize ==
    /\ wrapper = "configured"
    /\ \A c \in Calls : pc[c] = "new"
    /\ wrapper' = "finalized"
    /\ ModuleDrop
    /\ UNCHANGED <<poolVars, pc, ref, dropErr, opVars, tokenVars>>

(* pkcs11Wrapper.with begins with a Login of its own.                      *)
WrapperWith(c) ==
    /\ wrapper = "configured" /\ pc[c] = "new"
    /\ Goto(c, "lookup")
    /\ UNCHANGED <<modRefs, wrapper, poolVars, ref, dropErr, opVars, tokenVars>>

-----------------------------------------------------------------------------
(***************************************************************************)
(* Login                                                                   *)
(***************************************************************************)

Unreferenced(p) == /\ \A s \in Slots : cache[s] # p
                   /\ \A c \in Clients : ref[c] # p
                   /\ \A o \in Ops : opRef[o] # p
                   /\ \A t \in Clients \cup Ops : <<p, t>> \notin sessions

(* Lines 90-96 and 124-153, under the cache's lock: find the pool of the   *)
(* slot, or insert an optimistic one with one reference.                   *)
LoginLookup(c) ==
    /\ pc[c] = "lookup"
    /\ IF cache[SlotOf[c]] # None
         THEN /\ ref' = [ref EXCEPT ![c] = cache[SlotOf[c]]]
              /\ Goto(c, "await")
              /\ UNCHANGED <<poolVars, sema>>
       ELSE IF MaxSessions < 2
         THEN /\ Goto(c, "failed")
              /\ UNCHANGED <<poolVars, sema, ref>>
       ELSE LET p == CHOOSE q \in Pools : Unreferenced(q) IN
              /\ \E q \in Pools : Unreferenced(q)
              /\ pool' = [pool EXCEPT ![p] = NewPool(c)]
              /\ sema' = [sema EXCEPT ![p] = NewSema]
              /\ cache' = [cache EXCEPT ![SlotOf[c]] = p]
              /\ ref' = [ref EXCEPT ![c] = p]
              /\ Goto(c, "create")
    /\ UNCHANGED <<modRefs, wrapper, dropErr, opPc, opRef, opFor, tokenVars>>

(* Lines 98-108: wait until the pool found is live or dead.                *)
LoginAwait(c) ==
    /\ pc[c] = "await"
    /\ \/ /\ pool[ref[c]].live
          /\ IF pool[ref[c]].pin = PinOf[c]
               THEN Goto(c, "join") /\ UNCHANGED ref
               ELSE Goto(c, "failed") /\ ref' = [ref EXCEPT ![c] = None]
       \/ /\ pool[ref[c]].dead
          /\ Goto(c, "lookup")
          /\ ref' = [ref EXCEPT ![c] = None]
    /\ UNCHANGED <<modRefs, wrapper, poolVars, dropErr, opVars, tokenVars>>

(* Lines 110-121: incRefs fails on a pool whose last reference is gone.    *)
MutantJoinUncounted(c) ==
    /\ pc[c] = "join"
    /\ Goto(c, IF pool[ref[c]].refs = 0 THEN "awaitDead" ELSE "open")
    /\ UNCHANGED <<modRefs, wrapper, poolVars, ref, dropErr, opVars, tokenVars>>

MutantJoinDying(c) ==
    /\ pc[c] = "join"
    /\ pool' = [pool EXCEPT ![ref[c]].refs = @ + 1]
    /\ Goto(c, "open")
    /\ UNCHANGED <<modRefs, wrapper, cache, ref, dropErr, opVars, tokenVars>>

LoginJoin(c) ==
    /\ pc[c] = "join"
    /\ IF pool[ref[c]].refs = 0
         THEN Goto(c, "awaitDead") /\ UNCHANGED pool
         ELSE /\ pool' = [pool EXCEPT ![ref[c]].refs = @ + 1]
              /\ Goto(c, "open")
    /\ UNCHANGED <<modRefs, wrapper, cache, ref, dropErr, opVars, tokenVars>>

LoginAwaitDead(c) ==
    /\ pc[c] = "awaitDead" /\ pool[ref[c]].dead
    /\ Goto(c, "lookup")
    /\ ref' = [ref EXCEPT ![c] = None]
    /\ UNCHANGED <<modRefs, wrapper, poolVars, dropErr, opVars, tokenVars>>

(* Either wait ends when the context of the Login is done.                 *)
LoginTimeout(c) ==
    /\ "Login" \in Timeouts
    /\ pc[c] \in {"await", "awaitDead"}
    /\ Goto(c, "failed")
    /\ ref' = [ref EXCEPT ![c] = None]
    /\ UNCHANGED <<modRefs, wrapper, poolVars, dropErr, opVars, tokenVars>>

(* CloseSession: the session s of the slot t is gone unless it fails.      *)
CloseSession(t, s) ==
    \E ok \in Outcomes("CloseSession") :
        /\ sessions' = IF ok THEN sessions \ {s} ELSE sessions
        /\ unclean' = IF ok THEN unclean ELSE unclean \cup {t}

(* Lines 169-172: the persistent session of a new pool.                    *)
LoginOpenSession(c) ==
    /\ pc[c] = "create"
    /\ \E ok \in Outcomes("OpenSession") :
          /\ Goto(c, IF ok THEN "authenticate" ELSE "rollback")
          /\ sessions' = IF ok THEN sessions \cup {<<ref[c], c>>} ELSE sessions
    /\ UNCHANGED <<modRefs, wrapper, poolVars, ref, dropErr, opVars, loggedIn,
                   unclean>>

(* Lines 175-185.  The token refuses to log in twice.                      *)
LoginAuthenticate(c) ==
    /\ pc[c] = "authenticate"
    /\ \E ok \in Outcomes("Login") :
         IF ok /\ SlotOf[c] \notin loggedIn
           THEN /\ loggedIn' = loggedIn \cup {SlotOf[c]}
                /\ pool' = [pool EXCEPT ![ref[c]].live = TRUE]
                /\ Goto(c, "open")
                /\ UNCHANGED <<sessions, unclean>>
           ELSE /\ CloseSession(SlotOf[c], <<ref[c], c>>)
                /\ Goto(c, "rollback")
                /\ UNCHANGED <<pool, loggedIn>>
    /\ UNCHANGED <<modRefs, wrapper, cache, ref, dropErr, opVars>>

(* Lines 160-164: the deferred rollback, which announces the death of the  *)
(* pool to those who wait for it only after the cache forgot it.           *)
LoginRollback(c) ==
    /\ pc[c] = "rollback"
    /\ cache' = [cache EXCEPT ![SlotOf[c]] = None]
    /\ Goto(c, "announceFailure")
    /\ UNCHANGED <<modRefs, wrapper, pool, ref, dropErr, opVars, tokenVars>>

MutantFailureUnannounced(c) ==
    /\ pc[c] = "announceFailure"
    /\ ref' = [ref EXCEPT ![c] = None]
    /\ Goto(c, "failed")
    /\ UNCHANGED <<modRefs, wrapper, poolVars, dropErr, opVars, tokenVars>>

LoginAnnounceFailure(c) ==
    /\ pc[c] = "announceFailure"
    /\ pool' = [pool EXCEPT ![ref[c]].dead = TRUE]
    /\ ref' = [ref EXCEPT ![c] = None]
    /\ Goto(c, "failed")
    /\ UNCHANGED <<modRefs, wrapper, cache, dropErr, opVars, tokenVars>>

(* What a failed Login leads to: the KMS gives its module back, a call of  *)
(* the wrapper returns.                                                    *)
MutantFailedCallDropsModule(c) ==
    /\ pc[c] = "failed"
    /\ ModuleDrop
    /\ Goto(c, IF c \in Kmss THEN "done" ELSE "new")
    /\ UNCHANGED <<wrapper, poolVars, ref, dropErr, opVars, tokenVars>>

OpenFailed(c) ==
    /\ pc[c] = "failed"
    /\ IF c \in Kmss THEN ModuleDrop /\ Goto(c, "done")
                     ELSE Goto(c, "new") /\ UNCHANGED modRefs
    /\ UNCHANGED <<wrapper, poolVars, ref, dropErr, opVars, tokenVars>>

-----------------------------------------------------------------------------
(***************************************************************************)
(* Get and put, around an operation on a session                           *)
(***************************************************************************)

(* A key of an open client starts an operation.                            *)
OpStart(o) ==
    /\ opPc[o] = "idle"
    /\ \E c \in Clients : /\ pc[c] = "open"
                         /\ opFor' = [opFor EXCEPT ![o] = c]
                         /\ opRef' = [opRef EXCEPT ![o] = ref[c]]
    /\ opPc' = [opPc EXCEPT ![o] = "get"]
    /\ UNCHANGED <<modRefs, wrapper, poolVars, sema, pc, ref, dropErr, tokenVars>>

InUse(p) == {o \in Ops : opRef[o] = p /\ opPc[o] \in {"opening", "using", "putting"}}
Queued(p) == {o \in Ops : opRef[o] = p /\ opPc[o] = "queued"}

(* A Close that blocks at line 65 of semaphore.go keeps s.mu for ever.     *)
Locked(p) == \E c \in Clients : pc[c] = "stuck" /\ ref[c] = p

OpGoto(o, l) == opPc' = [opPc EXCEPT ![o] = l] /\ UNCHANGED <<opRef, opFor>>

OpEnd(o) == /\ opPc' = [opPc EXCEPT ![o] = "idle"]
            /\ opRef' = [opRef EXCEPT ![o] = None]
            /\ opFor' = [opFor EXCEPT ![o] = None]

(* Release with cur > 0 and no operation queued: the last token of a       *)
(* closed semaphore passes to the Close that waits for it.                 *)
Released(s) == IF s.waiting /\ s.cur = 1 THEN [s EXCEPT !.waiting = FALSE]
                                         ELSE [s EXCEPT !.cur = @ - 1]

(* sema.Acquire: an error when it is closed or the context has ended, a    *)
(* token when there is one and nobody queues, a place in the queue.        *)
OpAcquire(o) ==
    /\ opPc[o] = "get" /\ ~Locked(opRef[o])
    /\ LET p == opRef[o] IN
         \/ /\ pool[p].closed \/ "Get" \in Timeouts
            /\ OpEnd(o) /\ UNCHANGED sema
         \/ /\ ~pool[p].closed
            /\ IF sema[p].cur < MaxSessions - 1 /\ Queued(p) = {}
                 THEN /\ OpGoto(o, "opening")
                      /\ sema' = [sema EXCEPT ![p].cur = @ + 1]
                 ELSE OpGoto(o, "queued") /\ UNCHANGED sema
    /\ UNCHANGED <<modRefs, wrapper, poolVars, pc, ref, dropErr, tokenVars>>

(* Its context ends in the queue, which it leaves.  Nobody has to be       *)
(* notified: while somebody queues no token is free.                       *)
OpCancel(o) ==
    /\ "Get" \in Timeouts
    /\ opPc[o] = "queued" /\ ~Locked(opRef[o])
    /\ OpEnd(o)
    /\ UNCHANGED <<modRefs, wrapper, poolVars, sema, pc, ref, dropErr, tokenVars>>

(* The error of Close, received from the channel: returned, unless the     *)
(* context has ended too.  Then line 120 releases a token that this        *)
(* operation was never given, which panics when none is out.               *)
OpTold(o) ==
    /\ opPc[o] = "told"
    /\ LET p == opRef[o] IN
         \/ OpEnd(o) /\ UNCHANGED sema
         \/ /\ "Get" \in Timeouts /\ ~Locked(p) /\ sema[p].cur > 0
            /\ OpEnd(o)
            /\ sema' = [sema EXCEPT ![p] = [Released(@) EXCEPT !.surplus = TRUE]]
         \/ /\ "Get" \in Timeouts /\ ~Locked(p) /\ sema[p].cur = 0
            /\ OpGoto(o, "panicked") /\ UNCHANGED sema
    /\ UNCHANGED <<modRefs, wrapper, poolVars, pc, ref, dropErr, tokenVars>>

OpOpenSession(o) ==
    /\ opPc[o] = "opening"
    /\ \E ok \in Outcomes("OpenSession") :
         /\ opPc' = [opPc EXCEPT ![o] = IF ok THEN "using" ELSE "putting"]
         /\ sessions' = IF ok THEN sessions \cup {<<opRef[o], o>>} ELSE sessions
    /\ UNCHANGED <<modRefs, wrapper, poolVars, sema, pc, ref, dropErr, opRef,
                   opFor, loggedIn, unclean>>

(* put: CloseSession, failing on a session that is gone already, ...       *)
OpCloseSession(o) ==
    /\ opPc[o] = "using"
    /\ CloseSession(pool[opRef[o]].slot, <<opRef[o], o>>)
    /\ opPc' = [opPc EXCEPT ![o] = "putting"]
    /\ UNCHANGED <<modRefs, wrapper, poolVars, sema, pc, ref, dropErr, opRef,
                   opFor, loggedIn>>

(* ... and the deferred sema.Release, whatever happened before.  The token *)
(* passes to a queued operation, which gives it back in turn when its      *)
(* context has ended.                                                      *)
OpHandOver(o, q) ==
    /\ \E l \in IF "Get" \in Timeouts THEN {"opening", "putting"} ELSE {"opening"} :
          opPc' = [opPc EXCEPT ![o] = "idle", ![q] = l]
    /\ opRef' = [opRef EXCEPT ![o] = None]
    /\ opFor' = [opFor EXCEPT ![o] = None]
    /\ UNCHANGED sema

OpRelease(o) ==
    /\ opPc[o] = "putting" /\ ~Locked(opRef[o])
    /\ LET p == opRef[o] IN
         \/ sema[p].cur = 0 /\ OpGoto(o, "panicked") /\ UNCHANGED sema
         \/ sema[p].cur > 0 /\ \E q \in Queued(p) : OpHandOver(o, q)
         \/ /\ sema[p].cur > 0 /\ Queued(p) = {}
            /\ OpEnd(o)
            /\ sema' = [sema EXCEPT ![p] = Released(@)]
    /\ UNCHANGED <<modRefs, wrapper, poolVars, pc, ref, dropErr, tokenVars>>

-----------------------------------------------------------------------------
(***************************************************************************)
(* Drop                                                                    *)
(***************************************************************************)

(* Where Drop leaves its caller: pkcs11KMS.Close gives the module back     *)
(* unless Drop failed, the wrapper's with only logs the failure.           *)
MutantDropErrorIgnored(c, failed) == IF c \in Calls THEN "new" ELSE "dropMod"

DropReturns(c, failed) == IF c \in Calls THEN "new"
                          ELSE IF failed THEN "leaked" ELSE "dropMod"

(* pkcs11KMS.Close, or the deferred Drop of with once its callback is      *)
(* over: decRefs, and nothing else while other references remain.          *)
DropDecRefs(c) ==
    /\ pc[c] = "open"
    /\ c \in Calls => \A o \in Ops : opFor[o] # c
    /\ pool' = [pool EXCEPT ![ref[c]].refs = @ - 1]
    /\ IF pool[ref[c]].refs = 1
         THEN Goto(c, "close") /\ UNCHANGED ref
         ELSE /\ Goto(c, DropReturns(c, FALSE))
              /\ ref' = [ref EXCEPT ![c] = None]
    /\ UNCHANGED <<modRefs, wrapper, cache, dropErr, opVars, tokenVars>>

(* sema.Close: nobody gets a session any more, those who queue are told    *)
(* so, and Close takes the last token or queues for it.  The send at line  *)
(* 65 never ends for an operation that has seen its context end and waits  *)
(* for s.mu: hung is what is left in the queue then.                       *)
Told(p, hung) ==
    opPc' = [o \in Ops |-> IF o \in Queued(p) \ hung THEN "told" ELSE opPc[o]]

Closed(s) == IF s.cur = 0 THEN [s EXCEPT !.cur = 1] ELSE [s EXCEPT !.waiting = TRUE]

MutantCloseUncachesFirst(c) ==
    /\ pc[c] = "close"
    /\ Told(ref[c], {})
    /\ pool' = [pool EXCEPT ![ref[c]].closed = TRUE, ![ref[c]].dead = TRUE]
    /\ sema' = [sema EXCEPT ![ref[c]] = Closed(@)]
    /\ cache' = [cache EXCEPT ![SlotOf[c]] = None]
    /\ Goto(c, "drain")
    /\ UNCHANGED <<modRefs, wrapper, ref, dropErr, opRef, opFor, tokenVars>>

DropClose(c) ==
    /\ pc[c] = "close"
    /\ \/ /\ Told(ref[c], {})
          /\ pool' = [pool EXCEPT ![ref[c]].closed = TRUE]
          /\ sema' = [sema EXCEPT ![ref[c]] = Closed(@)]
          /\ Goto(c, "drain")
       \/ /\ "Get" \in Timeouts
          /\ \E hung \in SUBSET Queued(ref[c]) : hung # {} /\ Told(ref[c], hung)
          /\ Goto(c, "stuck")
          /\ UNCHANGED <<pool, sema>>
    /\ UNCHANGED <<modRefs, wrapper, cache, ref, dropErr, opRef, opFor, tokenVars>>

(* ... then wait for the sessions in use, ...                              *)
MutantDrainNoWait(c) ==
    /\ pc[c] = "drain"
    /\ Goto(c, "logout")
    /\ UNCHANGED <<modRefs, wrapper, poolVars, ref, dropErr, opVars, tokenVars>>

DropDrain(c) ==
    /\ pc[c] = "drain" /\ ~sema[ref[c]].waiting
    /\ Goto(c, "logout")
    /\ UNCHANGED <<modRefs, wrapper, poolVars, ref, dropErr, opVars, tokenVars>>

(* ... or for the context.  A token granted just then is given back; if    *)
(* surplus releases took it already, line 105 wraps cur around, to more    *)
(* than all releases to come, and line 120 panics.                         *)
Wrapped == MaxSessions + Cardinality(Ops)

GaveUp(s, c) ==
    [s EXCEPT !.waiting = FALSE,
              !.gaveUp = IF c \in Calls THEN "call" ELSE "kms",
              !.cur = IF s.waiting THEN @ ELSE IF @ = 0 THEN Wrapped ELSE @ - 1]

DropTimeout(c) ==
    /\ "Drop" \in Timeouts
    /\ pc[c] = "drain"
    /\ \/ /\ Goto(c, "logout")
          /\ dropErr' = [dropErr EXCEPT ![c] = TRUE]
          /\ sema' = [sema EXCEPT ![ref[c]] = GaveUp(@, c)]
       \/ /\ ~sema[ref[c]].waiting /\ sema[ref[c]].cur = 0
          /\ Goto(c, "panicked")
          /\ UNCHANGED <<sema, dropErr>>
    /\ UNCHANGED <<modRefs, wrapper, poolVars, ref, opPc, opRef, opFor, tokenVars>>

(* Lines 249-255: log out and close all sessions of the slot, regardless   *)
(* of what failed before.                                                  *)
DropLogout(c) ==
    /\ pc[c] = "logout"
    /\ \E ok \in Outcomes("Logout") :
         /\ loggedIn' = IF ok THEN loggedIn \ {SlotOf[c]} ELSE loggedIn
         /\ dropErr' = [dropErr EXCEPT ![c] = @ \/ ~ok]
    /\ Goto(c, "closeAll")
    /\ UNCHANGED <<modRefs, wrapper, poolVars, ref, opVars, sessions, unclean>>

(* A token without sessions is logged out.                                 *)
DropCloseAllSessions(c) ==
    /\ pc[c] = "closeAll"
    /\ \E ok \in Outcomes("CloseAllSessions") :
         /\ sessions' = IF ok THEN {s \in sessions : pool[s[1]].slot # SlotOf[c]}
                              ELSE sessions
         /\ loggedIn' = IF ok THEN loggedIn \ {SlotOf[c]} ELSE loggedIn
         /\ unclean' = IF ok THEN unclean \ {SlotOf[c]} ELSE unclean \cup {SlotOf[c]}
         /\ dropErr' = [dropErr EXCEPT ![c] = @ \/ ~ok]
    /\ Goto(c, "uncache")
    /\ UNCHANGED <<modRefs, wrapper, poolVars, ref, opVars>>

(* Lines 234-242, deferred: leave the cache, then announce the death.      *)
DropUncache(c) ==
    /\ pc[c] = "uncache"
    /\ cache' = [cache EXCEPT ![SlotOf[c]] = None]
    /\ Goto(c, "announce")
    /\ UNCHANGED <<modRefs, wrapper, pool, ref, dropErr, opVars, tokenVars>>

DropAnnounce(c) ==
    /\ pc[c] = "announce"
    /\ pool' = [pool EXCEPT ![ref[c]].dead = TRUE]
    /\ ref' = [ref EXCEPT ![c] = None]
    /\ Goto(c, DropReturns(c, dropErr[c]))
    /\ dropErr' = [dropErr EXCEPT ![c] = FALSE]
    /\ UNCHANGED <<modRefs, wrapper, cache, opVars, tokenVars>>

(* pkcs11KMS.Close, after a Drop that succeeded.                           *)
KmsDropModule(c) ==
    /\ pc[c] = "dropMod"
    /\ ModuleDrop
    /\ Goto(c, "done")
    /\ UNCHANGED <<wrapper, poolVars, ref, dropErr, opVars, tokenVars>>

-----------------------------------------------------------------------------
LoginStep(c) == \/ LoginLookup(c) \/ LoginAwait(c) \/ LoginJoin(c)
                \/ LoginAwaitDead(c) \/ LoginOpenSession(c)
                \/ LoginAuthenticate(c) \/ LoginRollback(c)
                \/ LoginAnnounceFailure(c) \/ OpenFailed(c)

DropStep(c) == \/ DropClose(c) \/ DropDrain(c) \/ DropLogout(c)
               \/ DropCloseAllSessions(c) \/ DropUncache(c) \/ DropAnnounce(c)
               \/ KmsDropModule(c)

OpStep(o) == \/ OpAcquire(o) \/ OpTold(o) \/ OpOpenSession(o)
             \/ OpCloseSession(o) \/ OpRelease(o)

(* A panic ends the process.                                               *)
Panicked == \/ \E c \in Clients : pc[c] = "panicked"
            \/ \E o \in Ops : opPc[o] = "panicked"

Step == \/ \E k \in Kmss : KmsOpen(k) \/ GetToken(k)
        \/ \E c \in Calls : WrapperWith(c)
        \/ WrapperSetConfig \/ WrapperGetToken \/ WrapperFinalize
        \/ \E c \in Clients : \/ LoginStep(c) \/ LoginTimeout(c)
                               \/ DropDecRefs(c) \/ DropStep(c) \/ DropTimeout(c)
        \/ \E o \in Ops : OpStart(o) \/ OpStep(o) \/ OpCancel(o)

Next == ~Panicked /\ Step

(***************************************************************************)
(* Calls that began run to their end, operations included.  Nobody is      *)
(* obliged to open or close anything.                                      *)
(***************************************************************************)
Fairness == /\ \A k \in Kmss : WF_vars(GetToken(k))
            /\ \A c \in Clients : WF_vars(LoginStep(c)) /\ WF_vars(DropStep(c))
            /\ \A o \in Ops : WF_vars(OpStep(o))

Spec == Init /\ [][Next]_vars

FairSpec == Spec /\ Fairness

-----------------------------------------------------------------------------
(***************************************************************************)
(* Properties                                                              *)
(***************************************************************************)

(* A PoolRef is "a shared reference to a live session pool": whoever holds *)
(* one finds its pool cached, logged in and accepting requests, whatever   *)
(* the other users of the slot do.                                         *)
HoldersShareLivePool ==
    \A c \in Clients : pc[c] = "open" =>
        /\ cache[SlotOf[c]] = ref[c]
        /\ pool[ref[c]].live /\ ~pool[ref[c]].dead /\ ~pool[ref[c]].closed
        /\ SlotOf[c] \in loggedIn

(* The reference count of a live pool is the number of its holders, so     *)
(* exactly the last of them closes it.                                     *)
RefsExact ==
    \A s \in Slots : cache[s] # None /\ pool[cache[s]].live =>
        pool[cache[s]].refs =
          Cardinality({c \in Clients : pc[c] = "open" /\ ref[c] = cache[s]})

(* "The caller must handle not dropping the PKCS#11 module before ceasing  *)
(* usage of any remaining sessions" (pool.go, lines 245-247): the library  *)
(* is never finalized under an operation that calls into it.               *)
ModuleOutlivesUse ==
    \A o \in Ops : opPc[o] \in {"opening", "using"} => modRefs > 0

(* The same, with the two causes that break it named: a token released by  *)
(* an operation that never had one, and a Drop that timed out in a call of *)
(* the wrapper.  Without either on its pool, an operation has the library  *)
(* to the end, also if its own KMS was closed long ago and the pool lived  *)
(* on with another one, or if the Drop of a KMS timed out.                 *)
DrainKeepsModule ==
    \A o \in Ops :
        /\ opPc[o] \in {"opening", "using"}
        /\ ~sema[opRef[o]].surplus /\ sema[opRef[o]].gaveUp # "call"
        => modRefs > 0

(* A new pool meets nothing of an old one: the token is logged out when    *)
(* Login authenticates, and holds no other session of the slot than those  *)
(* of operations that their pool did not wait for, unless closing the old  *)
(* ones failed at the token.                                               *)
LoginFindsCleanToken ==
    \A c \in Clients : pc[c] = "authenticate" /\ SlotOf[c] \notin unclean =>
        /\ SlotOf[c] \notin loggedIn
        /\ \A s \in sessions : pool[s[1]].slot = SlotOf[c] =>
              \/ s = <<ref[c], c>>
              \/ /\ \E o \in Ops : s = <<opRef[o], o>> /\ opPc[o] = "using"
                 /\ sema[s[1]].surplus \/ sema[s[1]].gaveUp # "nobody"

(* CloseAllSessions takes nobody's session away: an operation has its      *)
(* session until it closes it, on a token logged in, unless a Drop timed   *)
(* out or a token was released that nobody had.                            *)
UsersKeepSession ==
    \A o \in Ops :
        /\ opPc[o] = "using"
        /\ ~sema[opRef[o]].surplus /\ sema[opRef[o]].gaveUp = "nobody"
        => /\ <<opRef[o], o>> \in sessions
           /\ pool[opRef[o]].slot \in loggedIn

(* Every wait ends: for somebody else's login, failed login or shutdown,   *)
(* however many pools come and go in the meantime, and for the operations  *)
(* in progress.  The one exception is the Close that blocks for ever.      *)
WaitsEnd ==
    \A c \in Clients :
        /\ pc[c] = "await" ~> pc[c] # "await" \/ Panicked
        /\ pc[c] = "awaitDead" ~>
              \/ pc[c] # "awaitDead"
              \/ Panicked \/ \E d \in Clients : pc[d] = "stuck"
        /\ pc[c] = "close" ~>
              \/ pc[c] \in {"dropMod", "leaked", "done", "new", "stuck"}
              \/ Panicked
=============================================================================
