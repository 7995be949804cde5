----------------------------- MODULE PoolProofs ------------------------------
(***************************************************************************)
(* Theorems about SessionPool, for any number of KMSs, wrapper calls,      *)
(* operations and slots.                                                   *)
(***************************************************************************)
EXTENDS SessionPool, FiniteSetTheorems, TLAPS

(***************************************************************************)
(* Where a client may be, by what it may do to its slot.  Who makes or     *)
(* ends a pool owns the slot; who is "open" shares it; who waits, or has   *)
(* yet to announce a death, only refers to a pool.                         *)
(***************************************************************************)
Making == {"create", "authenticate", "rollback"}
Ending == {"close", "stuck", "drain", "panicked", "logout", "closeAll", "uncache"}
Owning == Making \cup Ending
Announcing == {"announceFailure", "announce"}
Referring == Owning \cup Announcing \cup {"open", "await", "join", "awaitDead"}

Holders(p) == {c \in Clients : pc[c] = "open" /\ ref[c] = p}
ModHolders == {k \in Kmss : pc[k] \notin {"new", "done"}}
WrapperRefs == IF wrapper \in {"token", "configured"} THEN 1 ELSE 0

(* A client refers to a pool of its slot while it has to do with one.      *)
RefsOK ==
    \A c \in Clients :
        /\ pc[c] \in Referring => ref[c] \in Pools /\ pool[ref[c]].slot = SlotOf[c]
        /\ pc[c] \notin Referring => ref[c] = None

(* The cache has no dead pools, and none of another slot.                  *)
CacheOK ==
    \A s \in Slots : cache[s] # None =>
        pool[cache[s]].slot = s /\ ~pool[cache[s]].dead

(* The pool of an owner or holder is the cached one, one that is announced *)
(* dead is not, and an owner shares its slot with nobody.                  *)
OwnerOK ==
    /\ \A c \in Clients : pc[c] \in Owning \cup {"open"} => cache[SlotOf[c]] = ref[c]
    /\ \A c \in Clients : pc[c] \in Announcing => cache[SlotOf[c]] # ref[c]
    /\ \A c, d \in Clients :
         /\ pc[c] \in Owning /\ pc[d] \in Owning \cup {"open"}
         /\ SlotOf[c] = SlotOf[d]
         => c = d

(* What a client at its place knows of its pool and of the token.          *)
StateOK ==
    \A c \in Clients :
        /\ pc[c] \in Making => /\ ~pool[ref[c]].live /\ ~pool[ref[c]].closed
                               /\ pool[ref[c]].refs = 1
        /\ pc[c] \in Ending \cup {"open", "join"} => pool[ref[c]].live
        /\ pc[c] \in {"open", "close", "stuck"} => ~pool[ref[c]].closed
        /\ pc[c] = "drain" => pool[ref[c]].closed
        /\ pc[c] \in {"open", "close", "stuck", "drain", "logout"} => SlotOf[c] \in loggedIn

(* RefsExact for every pool, cached or not: so nobody joins a pool that    *)
(* left the cache.                                                         *)
CountOK ==
    \A p \in Pools : pool[p].live => pool[p].refs = Cardinality(Holders(p))

(* A pool that hands out sessions has a client that will close it.         *)
LiveOK ==
    \A p \in Pools : pool[p].live /\ ~pool[p].closed =>
        \E c \in Clients : ref[c] = p /\ pc[c] \in {"open", "close", "stuck"}

(* An operation's pool was live when the operation began, and stays what   *)
(* it was.                                                                 *)
OpsOK ==
    \A o \in Ops : opPc[o] # "idle" =>
        opRef[o] \in Pools /\ pool[opRef[o]].live

(* The module is referenced once by every KMS that opened it, and once by  *)
(* the wrapper, whose calls only run in between.                           *)
ModOK ==
    /\ modRefs = Cardinality(ModHolders) + WrapperRefs
    /\ \A c \in Calls : /\ pc[c] \notin {"token", "dropMod", "leaked", "done"}
                        /\ pc[c] # "new" => wrapper = "configured"

IInv == /\ TypeOK
        /\ RefsOK /\ CacheOK /\ OwnerOK /\ StateOK
        /\ CountOK /\ LiveOK /\ OpsOK /\ ModOK

-----------------------------------------------------------------------------
(***************************************************************************)
(* Sets of clients                                                         *)
(***************************************************************************)

LEMMA NoneNotPool == None \notin Pools
BY ClientsAssumption DEF Pools

LEMMA KmssFinite == IsFiniteSet(Kmss) /\ Cardinality(Kmss) \in Nat
<1>1. Kmss \subseteq Clients
    BY DEF Clients
<1> QED
    BY <1>1, ClientsAssumption, FS_Subset, FS_CardinalityType

LEMMA HoldersFinite ==
    ASSUME NEW p
    PROVE  /\ IsFiniteSet(Holders(p)) /\ Cardinality(Holders(p)) \in Nat
           /\ Cardinality(Holders(p)) <= Cardinality(Clients)
           /\ IsFiniteSet(Holders(p))' /\ Cardinality(Holders(p))' \in Nat
           /\ Cardinality(Holders(p))' <= Cardinality(Clients)
<1>1. Holders(p) \subseteq Clients /\ Holders(p)' \subseteq Clients
    BY DEF Holders
<1> QED
    BY <1>1, ClientsAssumption, FS_Subset, FS_CardinalityType

LEMMA ModHoldersFinite ==
    /\ IsFiniteSet(ModHolders) /\ Cardinality(ModHolders) \in Nat
    /\ Cardinality(ModHolders) <= Cardinality(Kmss)
    /\ Cardinality(ModHolders)' \in Nat
    /\ Cardinality(ModHolders)' <= Cardinality(Kmss)
<1>1. ModHolders \subseteq Kmss /\ ModHolders' \subseteq Kmss
    BY DEF ModHolders
<1> QED
    BY <1>1, KmssFinite, FS_Subset, FS_CardinalityType

-----------------------------------------------------------------------------
(***************************************************************************)
(* What the updates of a step do, one entry at a time                      *)
(***************************************************************************)
Moves(c, l) ==
    /\ pc' \in [Clients -> ClientPCs]
    /\ pc'[c] = l
    /\ \A d \in Clients : d # c => pc'[d] = pc[d]

Points(c, p) ==
    /\ ref' \in [Clients -> Pools \cup {None}]
    /\ ref'[c] = p
    /\ \A d \in Clients : d # c => ref'[d] = ref[d]

Caches(s, p) ==
    /\ cache' \in [Slots -> Pools \cup {None}]
    /\ cache'[s] = p
    /\ \A t \in Slots : t # s => cache'[t] = cache[t]

(* The fields of every pool but one are what they were.                    *)
SameBut(p, f) ==
    /\ \A q \in Pools : q # p => pool'[q] = pool[q]
    /\ f # "slot" => pool'[p].slot = pool[p].slot
    /\ f # "pin" => pool'[p].pin = pool[p].pin
    /\ f # "refs" => pool'[p].refs = pool[p].refs
    /\ f # "live" => pool'[p].live = pool[p].live
    /\ f # "dead" => pool'[p].dead = pool[p].dead
    /\ f # "closed" => pool'[p].closed = pool[p].closed

LEMMA GotoMoves ==
    ASSUME TypeOK, NEW c \in Clients, NEW l \in ClientPCs, Goto(c, l)
    PROVE  Moves(c, l)
BY DEF TypeOK, Goto, Moves

LEMMA RefPoints ==
    ASSUME TypeOK, NEW c \in Clients, NEW p \in Pools \cup {None},
           ref' = [ref EXCEPT ![c] = p]
    PROVE  Points(c, p)
BY DEF TypeOK, Points

LEMMA CacheHas ==
    ASSUME TypeOK, NEW s \in Slots, NEW p \in Pools \cup {None},
           cache' = [cache EXCEPT ![s] = p]
    PROVE  Caches(s, p)
BY DEF TypeOK, Caches

LEMMA SetRefs ==
    ASSUME TypeOK, NEW p \in Pools, NEW n \in 0..Cardinality(Clients),
           pool' = [pool EXCEPT ![p].refs = n]
    PROVE  /\ pool' \in [Pools -> PoolRec]
           /\ pool'[p].refs = n /\ SameBut(p, "refs")
BY DEF TypeOK, PoolRec, SameBut

LEMMA SetLive ==
    ASSUME TypeOK, NEW p \in Pools, pool' = [pool EXCEPT ![p].live = TRUE]
    PROVE  /\ pool' \in [Pools -> PoolRec]
           /\ pool'[p].live /\ SameBut(p, "live")
BY DEF TypeOK, PoolRec, SameBut

LEMMA SetDead ==
    ASSUME TypeOK, NEW p \in Pools, pool' = [pool EXCEPT ![p].dead = TRUE]
    PROVE  /\ pool' \in [Pools -> PoolRec]
           /\ pool'[p].dead /\ SameBut(p, "dead")
BY DEF TypeOK, PoolRec, SameBut

LEMMA SetClosed ==
    ASSUME TypeOK, NEW p \in Pools, pool' = [pool EXCEPT ![p].closed = TRUE]
    PROVE  /\ pool' \in [Pools -> PoolRec]
           /\ pool'[p].closed /\ SameBut(p, "closed")
BY DEF TypeOK, PoolRec, SameBut

LEMMA Insert ==
    ASSUME TypeOK, NEW p \in Pools, NEW c \in Clients,
           pool' = [pool EXCEPT ![p] = NewPool(c)]
    PROVE  /\ pool' \in [Pools -> PoolRec]
           /\ pool'[p] = NewPool(c)
           /\ \A q \in Pools : q # p => pool'[q] = pool[q]
<1>1. Cardinality(Clients) \in Nat /\ Cardinality(Clients) # 0
    BY ClientsAssumption, FS_CardinalityType, FS_EmptySet
<1>2. NewPool(c) \in PoolRec
    BY <1>1, TokensAssumption DEF NewPool, PoolRec
<1> QED
    BY <1>2 DEF TypeOK

-----------------------------------------------------------------------------
(***************************************************************************)
(* Every step preserves the invariant                                      *)
(***************************************************************************)

LEMMA ModRange ==
    /\ ModOK => modRefs \in 0..(Cardinality(Kmss) + 1)
    /\ ModOK' => modRefs' \in 0..(Cardinality(Kmss) + 1)
BY ModHoldersFinite, KmssFinite DEF ModOK, WrapperRefs

(* A client that neither was nor becomes a holder changes no count.        *)
LEMMA HoldersSame ==
    ASSUME NEW c \in Clients, NEW l, Moves(c, l), pc[c] # "open", l # "open",
           \A d \in Clients : d # c => ref'[d] = ref[d]
    PROVE  \A q : Holders(q)' = Holders(q)
BY DEF Holders, Moves

LEMMA ModHoldersSame ==
    ASSUME NEW c \in Clients, NEW l, Moves(c, l),
           c \in Kmss => (pc[c] \in {"new", "done"} <=> l \in {"new", "done"})
    PROVE  ModHolders' = ModHolders
BY DEF ModHolders, Moves, Clients

(* A call of the wrapper is where only the wrapper's calls go.             *)
LEMMA ModUntouched ==
    ASSUME ModOK, NEW c \in Clients, NEW l, Moves(c, l), UNCHANGED <<modRefs, wrapper>>,
           c \in Kmss => (pc[c] \in {"new", "done"} <=> l \in {"new", "done"}),
           c \in Calls => /\ l \notin {"token", "dropMod", "leaked", "done"}
                          /\ l # "new" => wrapper = "configured"
    PROVE  ModOK'
<1>1. ModHolders' = ModHolders
    BY ModHoldersSame
<1>2. WrapperRefs' = WrapperRefs
    BY DEF WrapperRefs
<1> QED
    BY <1>1, <1>2 DEF ModOK, Moves, Clients

(* A client that has nothing to do with a pool, before and after.          *)
LEMMA Aside ==
    ASSUME IInv, NEW c \in Clients, NEW l, Moves(c, l),
           pc[c] \notin Referring, l \notin Referring,
           UNCHANGED <<poolVars, ref, opVars, loggedIn>>
    PROVE  /\ RefsOK' /\ CacheOK' /\ OwnerOK' /\ StateOK'
           /\ CountOK' /\ LiveOK' /\ OpsOK'
<1> USE DEF IInv, poolVars, opVars
<1> USE DEF Moves
<1>1. RefsOK' /\ CacheOK'
    BY DEF RefsOK, CacheOK
<1>2. OwnerOK'
    BY DEF OwnerOK, Referring, Owning, Making, Ending, Announcing
<1>3. StateOK'
    BY DEF StateOK, Referring, Owning, Making, Ending
<1>4. CountOK'
  <2>1. pc[c] # "open" /\ l # "open"
    BY DEF Referring
  <2>2. \A q : Holders(q)' = Holders(q)
    BY <2>1, HoldersSame
  <2> QED
    BY <2>2 DEF CountOK
<1>5. LiveOK' /\ OpsOK'
    BY DEF LiveOK, OpsOK, Referring, Owning, Ending
<1> QED
    BY <1>1, <1>2, <1>3, <1>4, <1>5

(* KMSs that come and go count in modRefs and nowhere else.                *)
LEMMA KmsOpenStep ==
    ASSUME IInv, NEW k \in Kmss, KmsOpen(k)
    PROVE  IInv'
<1> USE DEF IInv
<1>k. k \in Clients /\ pc[k] = "new" /\ k \notin Calls
    BY ClientsAssumption DEF KmsOpen, Clients
<1>1. CASE ModuleOpen /\ Goto(k, "token")
  <2>f. Moves(k, "token") /\ UNCHANGED <<wrapper, poolVars, ref, dropErr, opVars, tokenVars, loggedIn>>
    BY <1>1, <1>k, GotoMoves DEF KmsOpen, ClientPCs, tokenVars
  <2>m. ModOK'
    <3>1. ModHolders' = ModHolders \cup {k} /\ k \notin ModHolders
      BY <1>k, <2>f DEF ModHolders, Moves, Clients
    <3>2. Cardinality(ModHolders') = Cardinality(ModHolders) + 1
      BY <3>1, ModHoldersFinite, FS_AddElement
    <3>3. modRefs' = Cardinality(ModHolders)' + WrapperRefs'
      BY <1>1, <2>f, <3>2, ModHoldersFinite DEF ModOK, WrapperRefs, ModuleOpen
    <3> QED
      BY <1>k, <2>f, <3>3 DEF ModOK, Moves, Clients
  <2>a. RefsOK' /\ CacheOK' /\ OwnerOK' /\ StateOK' /\ CountOK' /\ LiveOK' /\ OpsOK'
      BY <1>k, <2>f, Aside DEF Referring, Owning, Making, Ending, Announcing
  <2>t. TypeOK'
      BY <1>k, <2>f, <2>m, ModRange DEF TypeOK, Moves, poolVars, opVars, tokenVars
  <2> QED
      BY <2>a, <2>m, <2>t
<1>2. CASE Goto(k, "done") /\ UNCHANGED modRefs
  <2>f. Moves(k, "done") /\ UNCHANGED <<modRefs, wrapper, poolVars, ref, dropErr, opVars, tokenVars, loggedIn>>
    BY <1>2, <1>k, GotoMoves DEF KmsOpen, ClientPCs, tokenVars
  <2>m. ModOK'
    BY <1>k, <2>f, ModUntouched
  <2>a. RefsOK' /\ CacheOK' /\ OwnerOK' /\ StateOK' /\ CountOK' /\ LiveOK' /\ OpsOK'
      BY <1>k, <2>f, Aside DEF Referring, Owning, Making, Ending, Announcing
  <2>t. TypeOK'
      BY <1>k, <2>f, <2>m, ModRange DEF TypeOK, Moves, poolVars, opVars, tokenVars
  <2> QED
      BY <2>a, <2>m, <2>t
<1> QED
    BY <1>1, <1>2 DEF KmsOpen

(* A token that is not found leaves the module to be given back.           *)
LEMMA GetTokenStep ==
    ASSUME IInv, NEW k \in Kmss, GetToken(k)
    PROVE  IInv'
<1> USE DEF IInv
<1>k. k \in Clients /\ pc[k] = "token" /\ k \notin Calls
    BY ClientsAssumption DEF GetToken, Clients
<1>1. PICK l \in {"lookup", "failed"} : Goto(k, l)
    BY DEF GetToken
<1>f. Moves(k, l) /\ UNCHANGED <<modRefs, wrapper, poolVars, ref, dropErr, opVars, tokenVars, loggedIn>>
    BY <1>1, <1>k, GotoMoves DEF GetToken, ClientPCs, tokenVars
<1>m. ModOK'
    BY <1>k, <1>f, ModUntouched
<1>a. RefsOK' /\ CacheOK' /\ OwnerOK' /\ StateOK' /\ CountOK' /\ LiveOK' /\ OpsOK'
    BY <1>k, <1>f, Aside DEF Referring, Owning, Making, Ending, Announcing
<1>t. TypeOK'
    BY <1>k, <1>f, <1>m, ModRange DEF TypeOK, Moves, poolVars, opVars, tokenVars
<1> QED
    BY <1>a, <1>m, <1>t

(* A call of a configured wrapper begins.                                  *)
LEMMA WithStep ==
    ASSUME IInv, NEW c \in Calls, WrapperWith(c)
    PROVE  IInv'
<1> USE DEF IInv
<1>k. c \in Clients /\ pc[c] = "new" /\ c \notin Kmss /\ wrapper = "configured"
    BY ClientsAssumption DEF WrapperWith, Clients
<1>f. Moves(c, "lookup") /\ UNCHANGED <<modRefs, wrapper, poolVars, ref, dropErr, opVars, tokenVars, loggedIn>>
    BY <1>k, GotoMoves DEF WrapperWith, ClientPCs, tokenVars
<1>m. ModOK'
    BY <1>k, <1>f, ModUntouched
<1>a. RefsOK' /\ CacheOK' /\ OwnerOK' /\ StateOK' /\ CountOK' /\ LiveOK' /\ OpsOK'
    BY <1>k, <1>f, Aside DEF Referring, Owning, Making, Ending, Announcing
<1>t. TypeOK'
    BY <1>k, <1>f, <1>m, ModRange DEF TypeOK, Moves, poolVars, opVars, tokenVars
<1> QED
    BY <1>a, <1>m, <1>t

(* A KMS whose Open failed gives its module back, a call does not.         *)
LEMMA OpenFailedStep ==
    ASSUME IInv, NEW c \in Clients, OpenFailed(c)
    PROVE  IInv'
<1> USE DEF IInv
<1>k. pc[c] = "failed" /\ UNCHANGED <<wrapper, poolVars, ref, dropErr, opVars, tokenVars, loggedIn>>
    BY DEF OpenFailed, tokenVars
<1>1. CASE c \in Kmss
  <2>f. Moves(c, "done") /\ ModuleDrop /\ c \notin Calls
    BY <1>1, GotoMoves, ClientsAssumption DEF OpenFailed, ClientPCs
  <2>m. ModOK'
    <3>1. ModHolders' = ModHolders \ {c} /\ c \in ModHolders
      BY <1>k, <1>1, <2>f DEF ModHolders, Moves, Clients
    <3>2. Cardinality(ModHolders') = Cardinality(ModHolders) - 1
      BY <3>1, ModHoldersFinite, FS_RemoveElement
    <3>3. modRefs' = Cardinality(ModHolders)' + WrapperRefs'
      BY <1>k, <2>f, <3>2, ModHoldersFinite DEF ModOK, WrapperRefs, ModuleDrop
    <3> QED
      BY <1>1, <1>k, <2>f, <3>3 DEF ModOK, Moves, Clients
  <2>a. RefsOK' /\ CacheOK' /\ OwnerOK' /\ StateOK' /\ CountOK' /\ LiveOK' /\ OpsOK'
      BY <1>k, <2>f, Aside DEF Referring, Owning, Making, Ending, Announcing
  <2>t. TypeOK'
      BY <1>k, <2>f, <2>m, ModRange DEF TypeOK, Moves, poolVars, opVars, tokenVars
  <2> QED
      BY <2>a, <2>m, <2>t
<1>2. CASE c \notin Kmss
  <2>f. Moves(c, "new") /\ UNCHANGED modRefs
    BY <1>2, GotoMoves DEF OpenFailed, ClientPCs
  <2>m. ModOK'
    BY <1>2, <1>k, <2>f, ModUntouched DEF Clients
  <2>a. RefsOK' /\ CacheOK' /\ OwnerOK' /\ StateOK' /\ CountOK' /\ LiveOK' /\ OpsOK'
      BY <1>k, <2>f, Aside DEF Referring, Owning, Making, Ending, Announcing
  <2>t. TypeOK'
      BY <1>k, <2>f, <2>m, ModRange DEF TypeOK, Moves, poolVars, opVars, tokenVars
  <2> QED
      BY <2>a, <2>m, <2>t
<1> QED
    BY <1>1, <1>2

(* So does one that was closed.                                            *)
LEMMA DropModuleStep ==
    ASSUME IInv, NEW c \in Clients, KmsDropModule(c)
    PROVE  IInv'
<1> USE DEF IInv
<1>k. pc[c] = "dropMod" /\ UNCHANGED <<wrapper, poolVars, ref, dropErr, opVars, tokenVars, loggedIn>>
    BY DEF KmsDropModule, tokenVars
<1>1. c \in Kmss /\ c \notin Calls
    BY <1>k, ClientsAssumption DEF ModOK, Clients
<1>f. Moves(c, "done") /\ ModuleDrop
    BY GotoMoves DEF KmsDropModule, ClientPCs
<1>m. ModOK'
  <2>1. ModHolders' = ModHolders \ {c} /\ c \in ModHolders
    BY <1>k, <1>1, <1>f DEF ModHolders, Moves, Clients
  <2>2. Cardinality(ModHolders') = Cardinality(ModHolders) - 1
    BY <2>1, ModHoldersFinite, FS_RemoveElement
  <2>3. modRefs' = Cardinality(ModHolders)' + WrapperRefs'
    BY <1>k, <1>f, <2>2, ModHoldersFinite DEF ModOK, WrapperRefs, ModuleDrop
  <2> QED
    BY <1>1, <1>k, <1>f, <2>3 DEF ModOK, Moves, Clients
<1>a. RefsOK' /\ CacheOK' /\ OwnerOK' /\ StateOK' /\ CountOK' /\ LiveOK' /\ OpsOK'
    BY <1>k, <1>f, Aside DEF Referring, Owning, Making, Ending, Announcing
<1>t. TypeOK'
    BY <1>k, <1>f, <1>m, ModRange DEF TypeOK, Moves, poolVars, opVars, tokenVars
<1> QED
    BY <1>a, <1>m, <1>t

(* The wrapper holds its module from SetConfig to Finalize.                *)
LEMMA SetConfigStep ==
    ASSUME IInv, WrapperSetConfig
    PROVE  IInv'
<1> USE DEF IInv
<1>f. UNCHANGED <<pc, ref, cache, pool, dropErr, opPc, opRef, opFor, sema, sessions, loggedIn, unclean>>
    BY DEF WrapperSetConfig, poolVars, opVars, tokenVars
<1>1. \A q : Holders(q)' = Holders(q)
    BY <1>f DEF Holders
<1>2. ModHolders' = ModHolders
    BY <1>f DEF ModHolders
<1>3. RefsOK' /\ CacheOK' /\ OwnerOK' /\ StateOK' /\ CountOK' /\ LiveOK' /\ OpsOK'
    BY <1>1, <1>f DEF RefsOK, CacheOK, OwnerOK, StateOK, CountOK, LiveOK, OpsOK
<1>4. wrapper' \in {"new", "token", "configured", "finalized"}
    BY DEF WrapperSetConfig, TypeOK
<1>5. modRefs' = Cardinality(ModHolders)' + WrapperRefs'
    BY <1>2, ModHoldersFinite DEF WrapperSetConfig, ModOK, WrapperRefs, ModuleOpen, ModuleDrop
<1>6. ModOK'
    BY <1>f, <1>5 DEF WrapperSetConfig, ModOK
<1>7. TypeOK'
    BY <1>f, <1>4, <1>6, ModRange DEF TypeOK
<1> QED
    BY <1>3, <1>6, <1>7

(* A token that is not found undoes SetConfig.                             *)
LEMMA WrapperTokenStep ==
    ASSUME IInv, WrapperGetToken
    PROVE  IInv'
<1> USE DEF IInv
<1>f. UNCHANGED <<pc, ref, cache, pool, dropErr, opPc, opRef, opFor, sema, sessions, loggedIn, unclean>>
    BY DEF WrapperGetToken, poolVars, opVars, tokenVars
<1>1. \A q : Holders(q)' = Holders(q)
    BY <1>f DEF Holders
<1>2. ModHolders' = ModHolders
    BY <1>f DEF ModHolders
<1>3. RefsOK' /\ CacheOK' /\ OwnerOK' /\ StateOK' /\ CountOK' /\ LiveOK' /\ OpsOK'
    BY <1>1, <1>f DEF RefsOK, CacheOK, OwnerOK, StateOK, CountOK, LiveOK, OpsOK
<1>4. wrapper' \in {"new", "token", "configured", "finalized"}
    BY DEF WrapperGetToken, TypeOK
<1>5. modRefs' = Cardinality(ModHolders)' + WrapperRefs'
    BY <1>2, ModHoldersFinite DEF WrapperGetToken, ModOK, WrapperRefs, ModuleOpen, ModuleDrop
<1>6. ModOK'
    BY <1>f, <1>5 DEF WrapperGetToken, ModOK
<1>7. TypeOK'
    BY <1>f, <1>4, <1>6, ModRange DEF TypeOK
<1> QED
    BY <1>3, <1>6, <1>7

(* Finalize gives the module back.                                         *)
LEMMA FinalizeStep ==
    ASSUME IInv, WrapperFinalize
    PROVE  IInv'
<1> USE DEF IInv
<1>f. UNCHANGED <<pc, ref, cache, pool, dropErr, opPc, opRef, opFor, sema, sessions, loggedIn, unclean>>
    BY DEF WrapperFinalize, poolVars, opVars, tokenVars
<1>1. \A q : Holders(q)' = Holders(q)
    BY <1>f DEF Holders
<1>2. ModHolders' = ModHolders
    BY <1>f DEF ModHolders
<1>3. RefsOK' /\ CacheOK' /\ OwnerOK' /\ StateOK' /\ CountOK' /\ LiveOK' /\ OpsOK'
    BY <1>1, <1>f DEF RefsOK, CacheOK, OwnerOK, StateOK, CountOK, LiveOK, OpsOK
<1>4. wrapper' \in {"new", "token", "configured", "finalized"}
    BY DEF WrapperFinalize, TypeOK
<1>5. modRefs' = Cardinality(ModHolders)' + WrapperRefs'
    BY <1>2, ModHoldersFinite DEF WrapperFinalize, ModOK, WrapperRefs, ModuleOpen, ModuleDrop
<1>6. ModOK'
    BY <1>f, <1>5 DEF WrapperFinalize, ModOK
<1>7. TypeOK'
    BY <1>f, <1>4, <1>6, ModRange DEF TypeOK
<1> QED
    BY <1>3, <1>6, <1>7

(* A client that waits for somebody else's pool disturbs nobody.           *)
LEMMA Waits ==
    ASSUME IInv, NEW c \in Clients, pc[c] \in {"lookup", "await", "join"},
           NEW l \in {"await", "join", "awaitDead"}, Moves(c, l),
           NEW p \in Pools, Points(c, p), pool[p].slot = SlotOf[c],
           l = "join" => pool[p].live,
           UNCHANGED <<modRefs, wrapper, poolVars, dropErr, opVars, tokenVars>>
    PROVE  IInv'
<1> USE DEF IInv
<1>f. /\ Moves(c, l) /\ Points(c, p)
      /\ UNCHANGED <<modRefs, wrapper, cache, pool, dropErr, opPc, opRef, opFor, sema, sessions, loggedIn, unclean>>
    BY DEF poolVars, opVars, tokenVars
<1>a. RefsOK'
    BY <1>f DEF RefsOK, Moves, Points, Caches, SameBut, Referring, Owning, Making, Ending, Announcing
<1>b. CacheOK'
    BY <1>f DEF CacheOK, Moves, Points, Caches, SameBut, TypeOK
<1>c. OwnerOK'
    BY <1>f DEF OwnerOK, Moves, Points, Caches, SameBut, Referring, Owning, Making, Ending, Announcing
<1>d. StateOK'
    BY <1>f DEF StateOK, Moves, Points, Caches, SameBut, Referring, Owning, Making, Ending, Announcing
<1>e. CountOK'
  <2>1. \A q : Holders(q)' = Holders(q)
      BY <1>f, HoldersSame DEF Points
  <2> QED
      BY <1>f, <2>1 DEF CountOK, SameBut
<1>g. LiveOK'
    BY <1>f DEF LiveOK, Moves, Points, Caches, SameBut, Referring, Owning, Making, Ending, Announcing
<1>h. OpsOK'
    BY <1>f DEF OpsOK, SameBut
<1>m. ModOK'
    BY <1>f, ModUntouched DEF ModOK
<1>t. TypeOK'
    BY <1>f DEF TypeOK, Moves, Points, Caches, SameBut
<1> QED
    BY <1>a, <1>b, <1>c, <1>d, <1>e, <1>g, <1>h, <1>m, <1>t

(* Nor does one that stops waiting.                                        *)
LEMMA GivesUp ==
    ASSUME IInv, NEW c \in Clients, pc[c] \in {"await", "awaitDead"},
           NEW l \in {"lookup", "failed"}, Moves(c, l), Points(c, None),
           UNCHANGED <<modRefs, wrapper, poolVars, dropErr, opVars, tokenVars>>
    PROVE  IInv'
<1> USE DEF IInv
<1>f. /\ Moves(c, l) /\ Points(c, None)
      /\ UNCHANGED <<modRefs, wrapper, cache, pool, dropErr, opPc, opRef, opFor, sema, sessions, loggedIn, unclean>>
    BY DEF poolVars, opVars, tokenVars
<1>a. RefsOK'
    BY <1>f DEF RefsOK, Moves, Points, Caches, SameBut, Referring, Owning, Making, Ending, Announcing
<1>b. CacheOK'
    BY <1>f DEF CacheOK, Moves, Points, Caches, SameBut, TypeOK
<1>c. OwnerOK'
    BY <1>f DEF OwnerOK, Moves, Points, Caches, SameBut, Referring, Owning, Making, Ending, Announcing
<1>d. StateOK'
    BY <1>f DEF StateOK, Moves, Points, Caches, SameBut, Referring, Owning, Making, Ending, Announcing
<1>e. CountOK'
  <2>1. \A q : Holders(q)' = Holders(q)
      BY <1>f, HoldersSame DEF Points
  <2> QED
      BY <1>f, <2>1 DEF CountOK, SameBut
<1>g. LiveOK'
    BY <1>f DEF LiveOK, Moves, Points, Caches, SameBut, Referring, Owning, Making, Ending, Announcing
<1>h. OpsOK'
    BY <1>f DEF OpsOK, SameBut
<1>m. ModOK'
    BY <1>f, ModUntouched DEF ModOK
<1>t. TypeOK'
    BY <1>f DEF TypeOK, Moves, Points, Caches, SameBut
<1> QED
    BY <1>a, <1>b, <1>c, <1>d, <1>e, <1>g, <1>h, <1>m, <1>t

(* The steps of a Login that has inserted a pool, up to its success.       *)
LEMMA Makes ==
    ASSUME IInv, NEW c \in Clients, pc[c] \in Making, NEW l \in Making, Moves(c, l),
           sessions' \subseteq sessions \cup {<<ref[c], c>>}, unclean' \subseteq Slots,
           UNCHANGED <<modRefs, wrapper, poolVars, ref, dropErr, opVars, loggedIn>>
    PROVE  IInv'
<1> USE DEF IInv
<1>f. /\ Moves(c, l)
      /\ UNCHANGED <<modRefs, wrapper, cache, pool, ref, dropErr, opPc, opRef, opFor, sema, loggedIn>>
    BY DEF poolVars, opVars
<1>r. ref[c] \in Pools /\ pc[c] # "open" /\ l # "open"
    BY DEF RefsOK, Referring, Owning, Making
<1>a. RefsOK'
    BY <1>f, <1>r DEF RefsOK, Moves, Points, Caches, SameBut, Referring, Owning, Making, Ending, Announcing
<1>b. CacheOK'
    BY <1>f, <1>r DEF CacheOK, Moves, Points, Caches, SameBut, TypeOK
<1>c. OwnerOK'
    BY <1>f, <1>r DEF OwnerOK, Moves, Points, Caches, SameBut, Referring, Owning, Making, Ending, Announcing
<1>d. StateOK'
    BY <1>f, <1>r DEF StateOK, Moves, Points, Caches, SameBut, Referring, Owning, Making, Ending, Announcing
<1>e. CountOK'
  <2>1. \A q : Holders(q)' = Holders(q)
      BY <1>f, <1>r, HoldersSame DEF Points
  <2> QED
      BY <1>f, <1>r, <2>1 DEF CountOK, SameBut
<1>g. LiveOK'
    BY <1>f, <1>r DEF LiveOK, Moves, Points, Caches, SameBut, Referring, Owning, Making, Ending, Announcing
<1>h. OpsOK'
    BY <1>f, <1>r DEF OpsOK, SameBut
<1>m. ModOK'
    BY <1>f, ModUntouched DEF ModOK, Making
<1>t. TypeOK'
    BY <1>f, <1>r DEF TypeOK, Moves
<1> QED
    BY <1>a, <1>b, <1>c, <1>d, <1>e, <1>g, <1>h, <1>m, <1>t

(* The steps of a Drop that has closed the pool, or blocks before that.    *)
LEMMA Ends ==
    ASSUME IInv, NEW c \in Clients, pc[c] \in {"close", "drain", "logout", "closeAll"},
           NEW l \in {"stuck", "panicked", "logout", "closeAll", "uncache"}, Moves(c, l),
           pc[c] = "close" => l = "stuck",
           l \in {"stuck", "logout"} => UNCHANGED loggedIn,
           l = "stuck" => pc[c] = "close",
           sessions' \subseteq sessions, loggedIn' \subseteq loggedIn, unclean' \subseteq Slots,
           \A s \in Slots : s # SlotOf[c] => (s \in loggedIn' <=> s \in loggedIn),
           pc[c] = "drain" \/ l # "logout",
           dropErr' \in [Clients -> BOOLEAN],
           OpsOK', opPc' \in [Ops -> OpPCs], sema' \in [Pools -> SemaRec],
           UNCHANGED <<modRefs, wrapper, poolVars, ref, opRef, opFor>>
    PROVE  IInv'
<1> USE DEF IInv
<1>f. /\ Moves(c, l)
      /\ UNCHANGED <<modRefs, wrapper, cache, pool, ref, opRef, opFor>>
    BY DEF poolVars
<1>a. RefsOK'
    BY <1>f DEF RefsOK, Moves, Points, Caches, SameBut, Referring, Owning, Making, Ending, Announcing
<1>b. CacheOK'
    BY <1>f DEF CacheOK, Moves, Points, Caches, SameBut, TypeOK
<1>c. OwnerOK'
    BY <1>f DEF OwnerOK, Moves, Points, Caches, SameBut, Referring, Owning, Making, Ending, Announcing
<1>d. StateOK'
  <2>1. \A d \in Clients : d # c /\ pc[d] \in {"open", "close", "stuck", "drain", "logout"}
                         => SlotOf[d] # SlotOf[c]
    BY DEF OwnerOK, Owning, Ending
  <2> QED
    BY <1>f, <2>1, TokensAssumption DEF StateOK, Moves, Making, Ending
<1>e. CountOK'
  <2>1. \A q : Holders(q)' = Holders(q)
      BY <1>f, HoldersSame DEF Points
  <2> QED
      BY <1>f, <2>1 DEF CountOK, SameBut
<1>g. LiveOK'
    BY <1>f DEF LiveOK, Moves, Points, Caches, SameBut, Referring, Owning, Making, Ending, Announcing
<1>h. OpsOK'
    OBVIOUS
<1>m. ModOK'
    BY <1>f, ModUntouched DEF ModOK
<1>t. TypeOK'
    BY <1>f DEF TypeOK, Moves, Points, Caches, SameBut
<1> QED
    BY <1>a, <1>b, <1>c, <1>d, <1>e, <1>g, <1>h, <1>m, <1>t

(* Operations only look at pools.                                          *)
LEMMA OpsOnly ==
    ASSUME IInv, OpsOK', UNCHANGED <<modRefs, wrapper, poolVars, pc, ref, dropErr, loggedIn>>,
           opPc' \in [Ops -> OpPCs], opRef' \in [Ops -> Pools \cup {None}],
           opFor' \in [Ops -> Clients \cup {None}], sema' \in [Pools -> SemaRec],
           sessions' \subseteq (Pools \X (Clients \cup Ops)), unclean' \subseteq Slots
    PROVE  IInv'
<1> USE DEF IInv
<1>f. UNCHANGED <<modRefs, wrapper, cache, pool, pc, ref, dropErr, loggedIn>>
    BY DEF poolVars
<1>a. RefsOK'
    BY <1>f DEF RefsOK, Moves, Points, Caches, SameBut, Referring, Owning, Making, Ending, Announcing
<1>b. CacheOK'
    BY <1>f DEF CacheOK, Moves, Points, Caches, SameBut, TypeOK
<1>c. OwnerOK'
    BY <1>f DEF OwnerOK, Moves, Points, Caches, SameBut, Referring, Owning, Making, Ending, Announcing
<1>d. StateOK'
    BY <1>f DEF StateOK, Moves, Points, Caches, SameBut, Referring, Owning, Making, Ending, Announcing
<1>e. CountOK'
    BY <1>f DEF CountOK, Holders
<1>g. LiveOK'
    BY <1>f DEF LiveOK, Moves, Points, Caches, SameBut, Referring, Owning, Making, Ending, Announcing
<1>h. OpsOK'
    OBVIOUS
<1>m. ModOK'
    BY <1>f DEF ModOK, ModHolders, WrapperRefs
<1>t. TypeOK'
    BY <1>f DEF TypeOK, Moves, Points, Caches, SameBut
<1> QED
    BY <1>a, <1>b, <1>c, <1>d, <1>e, <1>g, <1>h, <1>m, <1>t

-----------------------------------------------------------------------------
(***************************************************************************)
(* Login                                                                   *)
(***************************************************************************)

(* Login finds a pool, fails, or inserts one: then the slot had no pool,   *)
(* so nobody owns or holds one of the slot.                                *)
LEMMA LookupStep ==
    ASSUME IInv, NEW c \in Clients, LoginLookup(c)
    PROVE  IInv'
<1> USE DEF IInv
<1>u. pc[c] = "lookup" /\ SlotOf[c] \in Slots
      /\ UNCHANGED <<modRefs, wrapper, dropErr, opPc, opRef, opFor, sessions, loggedIn, unclean>>
    BY TokensAssumption DEF LoginLookup, tokenVars
<1>1. CASE cache[SlotOf[c]] # None
  <2>1. cache[SlotOf[c]] \in Pools /\ pool[cache[SlotOf[c]]].slot = SlotOf[c]
    BY <1>u, <1>1 DEF TypeOK, CacheOK
  <2>2. Moves(c, "await") /\ Points(c, cache[SlotOf[c]]) /\ UNCHANGED <<poolVars, sema>>
    BY <1>1, <2>1, GotoMoves, RefPoints DEF LoginLookup, ClientPCs
  <2> QED
    BY <1>u, <2>1, <2>2, Waits DEF opVars, tokenVars
<1>2. CASE cache[SlotOf[c]] = None /\ MaxSessions < 2
  <2>f. Moves(c, "failed") /\ UNCHANGED <<modRefs, wrapper, poolVars, ref, dropErr, opVars, tokenVars, loggedIn>>
    BY <1>u, <1>2, GotoMoves DEF LoginLookup, ClientPCs, opVars, tokenVars
  <2>m. ModOK'
    BY <1>u, <2>f, ModUntouched DEF ModOK
  <2>a. RefsOK' /\ CacheOK' /\ OwnerOK' /\ StateOK' /\ CountOK' /\ LiveOK' /\ OpsOK'
      BY <1>u, <2>f, Aside DEF Referring, Owning, Making, Ending, Announcing
  <2>t. TypeOK'
      BY <1>u, <2>f, <2>m, ModRange DEF TypeOK, Moves, poolVars, opVars, tokenVars
  <2> QED
      BY <2>a, <2>m, <2>t
<1>3. CASE cache[SlotOf[c]] = None /\ ~(MaxSessions < 2)
  <2> DEFINE p == CHOOSE q \in Pools : Unreferenced(q)
  <2>1. p \in Pools /\ Unreferenced(p)
    BY <1>3 DEF LoginLookup
  <2>2. /\ Moves(c, "create") /\ Points(c, p) /\ Caches(SlotOf[c], p)
        /\ pool' = [pool EXCEPT ![p] = NewPool(c)]
        /\ sema' = [sema EXCEPT ![p] = NewSema]
    BY <1>3, <1>u, <2>1, GotoMoves, RefPoints, CacheHas DEF LoginLookup, ClientPCs
  <2>3. /\ pool' \in [Pools -> PoolRec] /\ pool'[p] = NewPool(c)
        /\ \A q \in Pools : q # p => pool'[q] = pool[q]
    BY <2>1, <2>2, Insert
  <2>s. sema' \in [Pools -> SemaRec]
    BY <2>1, <2>2 DEF TypeOK, NewSema, SemaRec
  <2>4. /\ pool'[p].slot = SlotOf[c] /\ pool'[p].refs = 1
        /\ ~pool'[p].live /\ ~pool'[p].dead /\ ~pool'[p].closed
    BY <2>3 DEF NewPool
  <2>5. /\ \A s \in Slots : cache[s] # p
        /\ \A d \in Clients : ref[d] # p
        /\ \A o \in Ops : opRef[o] # p
    BY <2>1 DEF Unreferenced
  <2>6. \A d \in Clients : SlotOf[d] = SlotOf[c] => pc[d] \notin Owning \cup {"open"}
    BY <1>3, NoneNotPool DEF OwnerOK, RefsOK, Referring, Owning
  <2> HIDE DEF p
  <2>f. /\ Moves(c, "create") /\ Points(c, p) /\ Caches(SlotOf[c], p)
        /\ \A q \in Pools : q # p => pool'[q] = pool[q]
    BY <2>2, <2>3
  <2>a. RefsOK'
      BY <1>u, <2>1, <2>f, <2>4, <2>5 DEF RefsOK, Moves, Points, Caches, SameBut, Referring, Owning, Making, Ending, Announcing
  <2>b. CacheOK'
      BY <1>u, <2>1, <2>f, <2>4, <2>5 DEF CacheOK, Caches, TypeOK
  <2>c. OwnerOK'
    <3>1. \A d \in Clients : pc'[d] \in Owning \cup {"open"} => cache'[SlotOf[d]] = ref'[d]
      BY <1>u, <2>1, <2>f, <2>4, <2>5, <2>6, TokensAssumption DEF OwnerOK, Moves, Points, Caches
    <3>2. \A d \in Clients : pc'[d] \in Announcing => cache'[SlotOf[d]] # ref'[d]
      BY <1>u, <2>1, <2>f, <2>4, <2>5, TokensAssumption DEF OwnerOK, Moves, Points, Caches, Announcing
    <3>3. \A d, e \in Clients :
            pc'[d] \in Owning /\ pc'[e] \in Owning \cup {"open"} /\ SlotOf[d] = SlotOf[e] => d = e
      BY <1>u, <2>1, <2>f, <2>4, <2>5, <2>6 DEF OwnerOK, Moves
    <3> QED
      BY <3>1, <3>2, <3>3 DEF OwnerOK
  <2>d. StateOK'
      BY <1>u, <2>1, <2>f, <2>4, <2>5 DEF StateOK, RefsOK, Moves, Points, Referring, Owning, Making, Ending, Announcing
  <2>e. CountOK'
    <3>1. \A q : Holders(q)' = Holders(q)
      BY <1>u, <2>f, HoldersSame DEF Points
    <3> QED
      BY <2>1, <2>f, <2>4, <3>1 DEF CountOK
  <2>g. LiveOK'
    <3>1. SUFFICES ASSUME NEW q \in Pools, pool'[q].live /\ ~pool'[q].closed
                PROVE  \E d \in Clients : ref'[d] = q /\ pc'[d] \in {"open", "close", "stuck"}
      BY DEF LiveOK
    <3>2. q # p /\ pool'[q] = pool[q]
      BY <2>f, <2>4, <3>1
    <3>3. PICK d \in Clients : ref[d] = q /\ pc[d] \in {"open", "close", "stuck"}
      BY <3>1, <3>2 DEF LiveOK
    <3> QED
      BY <1>u, <2>f, <3>3 DEF Moves, Points
  <2>h. OpsOK'
      BY <1>u, <2>1, <2>f, <2>4, <2>5 DEF OpsOK
  <2>m. ModOK'
      BY <1>u, <2>f, ModUntouched DEF ModOK
  <2>t. TypeOK'
      BY <1>u, <2>f, <2>3, <2>s DEF TypeOK, Moves, Points, Caches
  <2> QED
      BY <2>a, <2>b, <2>c, <2>d, <2>e, <2>g, <2>h, <2>m, <2>t
<1> QED
    BY <1>1, <1>2, <1>3

(* Waiting ends with a pool to join, a PIN that does not fit, or another   *)
(* attempt.                                                                *)
LEMMA AwaitStep ==
    ASSUME IInv, NEW c \in Clients, LoginAwait(c)
    PROVE  IInv'
<1> USE DEF IInv
<1>u. pc[c] = "await" /\ UNCHANGED <<modRefs, wrapper, poolVars, dropErr, opVars, tokenVars>>
    BY DEF LoginAwait
<1>r. ref[c] \in Pools /\ pool[ref[c]].slot = SlotOf[c]
    BY <1>u DEF RefsOK, Referring
<1>1. CASE pool[ref[c]].live /\ Goto(c, "join") /\ UNCHANGED ref
  <2>1. Moves(c, "join") /\ Points(c, ref[c])
    BY <1>1, GotoMoves DEF ClientPCs, Points, TypeOK
  <2> QED
    BY <1>u, <1>r, <1>1, <2>1, Waits
<1>2. CASE \E l \in {"lookup", "failed"} : Goto(c, l) /\ ref' = [ref EXCEPT ![c] = None]
  <2>1. PICK l \in {"lookup", "failed"} : Goto(c, l) /\ ref' = [ref EXCEPT ![c] = None]
    BY <1>2
  <2>2. Moves(c, l) /\ Points(c, None)
    BY <2>1, GotoMoves, RefPoints DEF ClientPCs
  <2> QED
    BY <1>u, <2>2, GivesUp
<1> QED
    BY <1>1, <1>2 DEF LoginAwait

(* The other wait, for the end of a pool.                                  *)
LEMMA AwaitDeadStep ==
    ASSUME IInv, NEW c \in Clients, LoginAwaitDead(c)
    PROVE  IInv'
<1> USE DEF IInv
<1>u. pc[c] \in {"await", "awaitDead"} /\ UNCHANGED <<modRefs, wrapper, poolVars, dropErr, opVars, tokenVars>>
    BY DEF LoginAwaitDead
<1>1. PICK l \in {"lookup", "failed"} : Goto(c, l) /\ ref' = [ref EXCEPT ![c] = None]
    BY DEF LoginAwaitDead
<1>2. Moves(c, l) /\ Points(c, None)
    BY <1>1, GotoMoves, RefPoints DEF ClientPCs
<1> QED
    BY <1>u, <1>2, GivesUp

(* Either wait, when the context ends.                                     *)
LEMMA TimeoutStep ==
    ASSUME IInv, NEW c \in Clients, LoginTimeout(c)
    PROVE  IInv'
<1> USE DEF IInv
<1>u. pc[c] \in {"await", "awaitDead"} /\ UNCHANGED <<modRefs, wrapper, poolVars, dropErr, opVars, tokenVars>>
    BY DEF LoginTimeout
<1>1. PICK l \in {"lookup", "failed"} : Goto(c, l) /\ ref' = [ref EXCEPT ![c] = None]
    BY DEF LoginTimeout
<1>2. Moves(c, l) /\ Points(c, None)
    BY <1>1, GotoMoves, RefPoints DEF ClientPCs
<1> QED
    BY <1>u, <1>2, GivesUp

(* The maker of a pool opens its session and logs in.                      *)
LEMMA OpenSessionStep ==
    ASSUME IInv, NEW c \in Clients, LoginOpenSession(c)
    PROVE  IInv'
<1> USE DEF IInv
<1>1. PICK l \in {"authenticate", "rollback"} :
        Goto(c, l) /\ sessions' \subseteq sessions \cup {<<ref[c], c>>}
    BY DEF LoginOpenSession
<1>2. Moves(c, l)
    BY <1>1, GotoMoves DEF ClientPCs
<1> QED
    BY <1>1, <1>2, Makes DEF LoginOpenSession, Making, TypeOK

(* Who joins a live pool that is referenced finds a holder there, which    *)
(* keeps the pool cached, open and logged in.                              *)
LEMMA JoinStep ==
    ASSUME IInv, NEW c \in Clients, LoginJoin(c)
    PROVE  IInv'
<1> USE DEF IInv
<1>u. pc[c] = "join" /\ UNCHANGED <<modRefs, wrapper, cache, ref, dropErr, opPc, opRef, opFor, sema, sessions, loggedIn, unclean>>
    BY DEF LoginJoin, opVars, tokenVars
<1>r. ref[c] \in Pools /\ pool[ref[c]].slot = SlotOf[c] /\ pool[ref[c]].live
    BY <1>u DEF RefsOK, StateOK, Referring
<1>1. CASE pool[ref[c]].refs = 0
  <2>1. Moves(c, "awaitDead") /\ Points(c, ref[c]) /\ UNCHANGED pool
    BY <1>1, <1>u, GotoMoves DEF LoginJoin, ClientPCs, Points, TypeOK
  <2> QED
    BY <1>u, <1>r, <2>1, Waits DEF poolVars, opVars, tokenVars
<1>2. CASE pool[ref[c]].refs # 0
  <2>0. PICK p \in Pools : p = ref[c]
    BY <1>r
  <2>1. pool[p].refs = Cardinality(Holders(p))
    BY <1>r, <2>0 DEF CountOK
  <2>2. PICK d \in Clients : pc[d] = "open" /\ ref[d] = p
    <3>1. Holders(p) # {}
      BY <1>2, <2>0, <2>1, FS_EmptySet
    <3> QED
      BY <3>1 DEF Holders
  <2>3. /\ SlotOf[d] = SlotOf[c] /\ cache[SlotOf[c]] = p
        /\ ~pool[p].closed /\ SlotOf[c] \in loggedIn
    BY <1>r, <2>0, <2>2 DEF RefsOK, OwnerOK, StateOK, Referring
  <2>j. Moves(c, "open") /\ pool' = [pool EXCEPT ![p].refs = @ + 1]
    BY <1>2, <2>0, GotoMoves DEF LoginJoin, ClientPCs
  <2>4. Holders(p)' = Holders(p) \cup {c} /\ c \notin Holders(p)
    BY <1>u, <2>0, <2>j DEF Holders, Moves
  <2>5. Cardinality(Holders(p)') = Cardinality(Holders(p)) + 1
    BY <2>4, HoldersFinite, FS_AddElement
  <2>6. \A q : q # p => Holders(q)' = Holders(q)
    BY <1>u, <2>0, <2>j DEF Holders, Moves
  <2>7. pool[p].refs + 1 \in 0..Cardinality(Clients)
    <3>1. Cardinality(Clients) \in Nat /\ Cardinality(Holders(p))' \in Nat /\ Cardinality(Holders(p)) \in Nat
      BY ClientsAssumption, FS_CardinalityType, HoldersFinite
    <3>2. Cardinality(Holders(p))' <= Cardinality(Clients)
      BY HoldersFinite
    <3> QED
      BY <2>1, <2>5, <3>1, <3>2
  <2>f. /\ pool' \in [Pools -> PoolRec] /\ Moves(c, "open")
        /\ pool'[p].refs = pool[p].refs + 1 /\ SameBut(p, "refs")
    BY <1>r, <2>0, <2>j, <2>7, SetRefs
  <2>p. p = ref[c] /\ pool[p].slot = SlotOf[c] /\ pool[p].live
    BY <1>r, <2>0
  <2>a. RefsOK'
      BY <1>u, <2>p, <2>3, <2>f DEF RefsOK, Moves, Points, Caches, SameBut, Referring, Owning, Making, Ending, Announcing
  <2>b. CacheOK'
      BY <1>u, <2>p, <2>3, <2>f DEF CacheOK, Moves, Points, Caches, SameBut, TypeOK
  <2>c. OwnerOK'
    <3>1. \A e \in Clients : pc[e] \in Owning => SlotOf[e] # SlotOf[c]
      BY <2>2, <2>3 DEF OwnerOK, Owning, Making, Ending
    <3> QED
      BY <1>u, <2>p, <2>3, <2>f, <3>1 DEF OwnerOK, Moves, Referring, Owning, Making, Ending, Announcing
  <2>d. StateOK'
    <3>1. \A e \in Clients : pc[e] \in Making => ref[e] # p
      BY <2>p DEF StateOK
    <3>2. \A e \in Clients : pc[e] \in Referring =>
            /\ pool'[ref[e]].live = pool[ref[e]].live
            /\ pool'[ref[e]].closed = pool[ref[e]].closed
      BY <1>u, <2>p, <2>3, <2>f DEF RefsOK, SameBut
    <3>3. \A e \in Clients : pc[e] \in Making => pool'[ref[e]].refs = pool[ref[e]].refs
      BY <1>u, <2>p, <2>3, <2>f, <3>1 DEF RefsOK, SameBut, Referring, Owning
    <3> QED
      BY <1>u, <2>p, <2>3, <2>f, <3>2, <3>3 DEF StateOK, Moves, Referring, Owning, Making, Ending, Announcing
  <2>e. CountOK'
      BY <1>u, <2>p, <2>3, <2>f, <2>1, <2>5, <2>6 DEF CountOK, SameBut
  <2>g. LiveOK'
      BY <1>u, <2>p, <2>3, <2>f DEF LiveOK, Moves, SameBut
  <2>h. OpsOK'
      BY <1>u, <2>p, <2>3, <2>f DEF OpsOK, SameBut
  <2>m. ModOK'
      BY <1>u, <2>f, ModUntouched DEF ModOK
  <2>t. TypeOK'
      BY <1>u, <2>p, <2>3, <2>f DEF TypeOK, Moves, Points, Caches, SameBut
  <2> QED
      BY <2>a, <2>b, <2>c, <2>d, <2>e, <2>g, <2>h, <2>m, <2>t
<1> QED
    BY <1>1, <1>2

(* CloseSession removes one session at most.                               *)
LEMMA SessionGone ==
    ASSUME TypeOK, NEW t \in Slots, NEW x, CloseSession(t, x)
    PROVE  /\ sessions' \subseteq sessions /\ unclean' \subseteq Slots
           /\ unclean \subseteq unclean'
           /\ \A y \in sessions : y # x => y \in sessions'
           /\ x \notin sessions' \/ t \in unclean'
BY DEF CloseSession, TypeOK

(* A login that succeeds makes its caller the one holder of a live pool.   *)
LEMMA AuthenticateStep ==
    ASSUME IInv, NEW c \in Clients, LoginAuthenticate(c)
    PROVE  IInv'
<1> USE DEF IInv
<1>u. pc[c] = "authenticate" /\ UNCHANGED <<modRefs, wrapper, cache, ref, dropErr, opPc, opRef, opFor, sema>>
    BY DEF LoginAuthenticate, opVars
<1>0. PICK p \in Pools : p = ref[c]
    BY <1>u DEF RefsOK, Referring, Owning, Making
<1>r. /\ p = ref[c] /\ pool[p].slot = SlotOf[c] /\ cache[SlotOf[c]] = p
      /\ ~pool[p].closed /\ pool[p].refs = 1 /\ SlotOf[c] \in Slots
    BY <1>0, <1>u, TokensAssumption DEF RefsOK, OwnerOK, StateOK, Referring, Owning, Making
<1>1. CASE /\ Goto(c, "rollback") /\ CloseSession(SlotOf[c], <<ref[c], c>>)
           /\ UNCHANGED <<pool, loggedIn>>
  <2>1. Moves(c, "rollback")
    BY <1>1, GotoMoves DEF ClientPCs
  <2>2. sessions' \subseteq sessions /\ unclean' \subseteq Slots
    BY <1>1, <1>r, SessionGone
  <2> QED
    BY <1>u, <1>1, <2>1, <2>2, Makes DEF Making, poolVars, opVars
<1>2. CASE /\ Goto(c, "open") /\ UNCHANGED <<sessions, unclean>>
           /\ loggedIn' = loggedIn \cup {SlotOf[c]}
           /\ pool' = [pool EXCEPT ![ref[c]].live = TRUE]
  <2>f. /\ Moves(c, "open") /\ UNCHANGED <<sessions, unclean>>
        /\ pool' \in [Pools -> PoolRec] /\ pool'[p].live /\ SameBut(p, "live")
        /\ loggedIn' = loggedIn \cup {SlotOf[c]}
    BY <1>2, <1>0, GotoMoves, SetLive DEF ClientPCs
  <2>1. \A d \in Clients : SlotOf[d] = SlotOf[c] /\ d # c => pc[d] \notin Owning \cup {"open"}
    BY <1>u DEF OwnerOK, Owning, Making
  <2>2. \A d \in Clients : pc[d] \in Owning \cup {"open"} /\ ref[d] = p => d = c
    BY <1>r, <2>1 DEF RefsOK, Referring
  <2>a. RefsOK'
      BY <1>u, <1>r, <2>f DEF RefsOK, Moves, Points, Caches, SameBut, Referring, Owning, Making, Ending, Announcing
  <2>b. CacheOK'
      BY <1>u, <1>r, <2>f DEF CacheOK, Moves, Points, Caches, SameBut, TypeOK
  <2>c. OwnerOK'
      BY <1>u, <1>r, <2>f, <2>1 DEF OwnerOK, Moves, Referring, Owning, Making, Ending, Announcing
  <2>d. StateOK'
    <3>1. \A d \in Clients : pc[d] \in Making /\ d # c => ref[d] # p
      BY <2>2 DEF Owning
    <3>2. \A d \in Clients : pc[d] \in Referring /\ ref[d] # p => pool'[ref[d]] = pool[ref[d]]
      BY <2>f DEF RefsOK, SameBut
    <3> QED
      BY <1>u, <1>r, <2>f, <3>1, <3>2 DEF StateOK, Moves, SameBut, Referring, Owning, Making, Ending, Announcing
  <2>e. CountOK'
    <3>1. Holders(p)' = {c}
      BY <1>u, <1>r, <2>f, <2>2 DEF Holders, Moves
    <3>2. Cardinality(Holders(p))' = 1
      BY <3>1, FS_Singleton
    <3>3. \A q : q # p => Holders(q)' = Holders(q)
      BY <1>u, <1>r, <2>f DEF Holders, Moves
    <3> QED
      BY <1>u, <1>r, <2>f, <3>2, <3>3 DEF CountOK, SameBut
  <2>g. LiveOK'
      BY <1>u, <1>r, <2>f DEF LiveOK, Moves, SameBut
  <2>h. OpsOK'
      BY <1>u, <1>r, <2>f DEF OpsOK, SameBut
  <2>m. ModOK'
      BY <1>u, <2>f, ModUntouched DEF ModOK
  <2>t. TypeOK'
      BY <1>u, <1>r, <2>f DEF TypeOK, Moves, Points, Caches, SameBut
  <2> QED
      BY <2>a, <2>b, <2>c, <2>d, <2>e, <2>g, <2>h, <2>m, <2>t
<1> QED
    BY <1>1, <1>2 DEF LoginAuthenticate

(* The owner of a slot takes its pool out of the cache.                    *)
LEMMA Uncaches ==
    ASSUME IInv, NEW c \in Clients, NEW l \in Announcing, Moves(c, l),
           pc[c] = "rollback" \/ pc[c] = "uncache",
           cache' = [cache EXCEPT ![SlotOf[c]] = None],
           UNCHANGED <<modRefs, wrapper, pool, ref, dropErr, opVars, tokenVars>>
    PROVE  IInv'
<1> USE DEF IInv
<1>f. /\ Moves(c, l) /\ Caches(SlotOf[c], None) /\ SlotOf[c] \in Slots
      /\ UNCHANGED <<modRefs, wrapper, pool, ref, dropErr, opPc, opRef, opFor, sema, sessions, loggedIn, unclean>>
    BY CacheHas, TokensAssumption DEF opVars, tokenVars
<1>1. \A d \in Clients : SlotOf[d] = SlotOf[c] /\ d # c => pc[d] \notin Owning \cup {"open"}
    BY DEF OwnerOK, Owning, Making, Ending
<1>2. pc[c] \in Owning /\ l \notin Owning /\ l # "open" /\ pc[c] # "open"
    BY DEF Owning, Making, Ending, Announcing
<1>a. RefsOK'
    BY <1>f, <1>2 DEF RefsOK, Moves, Points, Caches, SameBut, Referring, Owning, Making, Ending, Announcing
<1>b. CacheOK'
    BY <1>f, <1>2 DEF CacheOK, Moves, Points, Caches, SameBut, TypeOK
<1>c. OwnerOK'
  <2>1. \A d \in Clients : pc'[d] \in Owning \cup {"open"} => cache'[SlotOf[d]] = ref'[d]
    BY <1>f, <1>1, <1>2, TokensAssumption DEF OwnerOK, Moves, Caches
  <2>2. \A d \in Clients : pc'[d] \in Announcing => ref[d] \in Pools
    BY <1>f, <1>2 DEF RefsOK, Moves, Referring
  <2>3. \A d \in Clients : pc'[d] \in Announcing => cache'[SlotOf[d]] # ref'[d]
    BY <1>f, <2>2, NoneNotPool, TokensAssumption DEF OwnerOK, Moves, Caches
  <2>4. \A d, e \in Clients :
          pc'[d] \in Owning /\ pc'[e] \in Owning \cup {"open"} /\ SlotOf[d] = SlotOf[e] => d = e
    BY <1>f, <1>2 DEF OwnerOK, Moves
  <2> QED
    BY <2>1, <2>3, <2>4 DEF OwnerOK
<1>d. StateOK'
    BY <1>f, <1>2 DEF StateOK, Moves, Points, Caches, SameBut, Referring, Owning, Making, Ending, Announcing
<1>e. CountOK'
  <2>1. \A q : Holders(q)' = Holders(q)
      BY <1>f, <1>2, HoldersSame DEF Points
  <2> QED
      BY <1>f, <1>2, <2>1 DEF CountOK, SameBut
<1>g. LiveOK'
    BY <1>f, <1>2 DEF LiveOK, Moves, Points, Caches, SameBut, Referring, Owning, Making, Ending, Announcing
<1>h. OpsOK'
    BY <1>f, <1>2 DEF OpsOK, SameBut
<1>m. ModOK'
    BY <1>f, ModUntouched DEF ModOK, Announcing
<1>t. TypeOK'
    BY <1>f, <1>2 DEF TypeOK, Moves, Points, Caches, SameBut
<1> QED
    BY <1>a, <1>b, <1>c, <1>d, <1>e, <1>g, <1>h, <1>m, <1>t

(* The last that is heard of a pool, whose references are gone.            *)
LEMMA Announces ==
    ASSUME IInv, NEW c \in Clients, pc[c] \in Announcing,
           NEW l \in {"failed", "new", "dropMod", "leaked"}, Moves(c, l), Points(c, None),
           c \in Calls => l \in {"failed", "new"}, c \in Kmss => l # "new",
           pool' = [pool EXCEPT ![ref[c]].dead = TRUE], dropErr' \in [Clients -> BOOLEAN],
           UNCHANGED <<modRefs, wrapper, cache, opVars, tokenVars>>
    PROVE  IInv'
<1> USE DEF IInv
<1>0. PICK p \in Pools : p = ref[c] /\ pool[p].slot = SlotOf[c] /\ cache[SlotOf[c]] # p
    BY DEF RefsOK, OwnerOK, Referring
<1>f. /\ Moves(c, l) /\ Points(c, None) /\ pool' \in [Pools -> PoolRec] /\ SameBut(p, "dead")
      /\ UNCHANGED <<modRefs, wrapper, cache, opPc, opRef, opFor, sema, sessions, loggedIn, unclean>>
    BY <1>0, SetDead DEF opVars, tokenVars
<1>1. \A s \in Slots : cache[s] # p
    BY <1>0, NoneNotPool DEF CacheOK
<1>2. pc[c] \notin Owning \cup {"open"} /\ l \notin Referring
    BY DEF Referring, Owning, Making, Ending, Announcing
<1>a. RefsOK'
    BY <1>f, <1>2 DEF RefsOK, Moves, Points, SameBut
<1>b. CacheOK'
  <2>1. \A s \in Slots : cache[s] # None => pool'[cache[s]] = pool[cache[s]]
    BY <1>f, <1>1 DEF SameBut, TypeOK
  <2> QED
    BY <1>f, <2>1 DEF CacheOK
<1>c. OwnerOK'
    BY <1>f, <1>2 DEF OwnerOK, Moves, Points, Referring
<1>d. StateOK'
  <2>1. \A d \in Clients : pc[d] \in Referring =>
          /\ pool'[ref[d]].live = pool[ref[d]].live /\ pool'[ref[d]].refs = pool[ref[d]].refs
          /\ pool'[ref[d]].closed = pool[ref[d]].closed
    BY <1>f DEF RefsOK, SameBut
  <2> QED
    BY <1>f, <1>2, <2>1 DEF StateOK, Moves, Points, Referring, Owning, Making, Ending
<1>e. CountOK'
  <2>1. \A q : Holders(q)' = Holders(q)
      BY <1>f, <1>2, HoldersSame DEF Points
  <2> QED
      BY <1>f, <1>2, <2>1 DEF CountOK, SameBut
<1>g. LiveOK'
    BY <1>f, <1>2 DEF LiveOK, Moves, Points, SameBut, Owning, Ending
<1>h. OpsOK'
    BY <1>f, <1>2 DEF OpsOK, SameBut
<1>m. ModOK'
    BY <1>f, ModUntouched DEF ModOK, Announcing
<1>t. TypeOK'
    BY <1>f, <1>2 DEF TypeOK, Moves, Points, Caches, SameBut
<1> QED
    BY <1>a, <1>b, <1>c, <1>d, <1>e, <1>g, <1>h, <1>m, <1>t

(* A login that failed.                                                    *)
LEMMA RollbackStep ==
    ASSUME IInv, NEW c \in Clients, LoginRollback(c)
    PROVE  IInv'
<1> USE DEF IInv
<1>1. Moves(c, "announceFailure")
    BY GotoMoves DEF LoginRollback, ClientPCs
<1> QED
    BY <1>1, Uncaches DEF LoginRollback, Announcing

(* Its end.                                                                *)
LEMMA AnnounceFailureStep ==
    ASSUME IInv, NEW c \in Clients, LoginAnnounceFailure(c)
    PROVE  IInv'
<1> USE DEF IInv
<1>1. Moves(c, "failed") /\ Points(c, None)
    BY GotoMoves, RefPoints DEF LoginAnnounceFailure, ClientPCs
<1> QED
    BY <1>1, Announces DEF LoginAnnounceFailure, Announcing, TypeOK

-----------------------------------------------------------------------------
(***************************************************************************)
(* Operations                                                              *)
(***************************************************************************)

(* An operation begins at the pool of a holder, which is live.             *)
LEMMA OpStartStep ==
    ASSUME IInv, NEW o \in Ops, OpStart(o)
    PROVE  IInv'
<1> USE DEF IInv
<1>1. PICK c \in Clients : /\ pc[c] = "open"
                          /\ opFor' = [opFor EXCEPT ![o] = c]
                          /\ opRef' = [opRef EXCEPT ![o] = ref[c]]
    BY DEF OpStart
<1>2. ref[c] \in Pools /\ pool[ref[c]].live
    BY <1>1 DEF RefsOK, StateOK, Referring
<1>3. /\ opPc' = [opPc EXCEPT ![o] = "get"]
      /\ UNCHANGED <<modRefs, wrapper, poolVars, sema, pc, ref, dropErr, sessions, loggedIn, unclean>>
    BY DEF OpStart, tokenVars
<1>4. /\ opPc' \in [Ops -> OpPCs] /\ opRef' \in [Ops -> Pools \cup {None}]
      /\ opFor' \in [Ops -> Clients \cup {None}]
    BY <1>1, <1>2, <1>3 DEF TypeOK, OpPCs
<1>5. OpsOK'
    BY <1>1, <1>2, <1>3 DEF OpsOK, TypeOK, poolVars
<1> QED
    BY <1>3, <1>4, <1>5, OpsOnly DEF TypeOK

(* The steps of an operation that began, and its end.                      *)
LEMMA OpEnds ==
    ASSUME IInv, NEW o \in Ops, OpEnd(o), sema' \in [Pools -> SemaRec],
           UNCHANGED <<modRefs, wrapper, poolVars, pc, ref, dropErr, tokenVars>>
    PROVE  IInv'
<1> USE DEF IInv
<1>1. /\ opPc' \in [Ops -> OpPCs] /\ opRef' \in [Ops -> Pools \cup {None}]
      /\ opFor' \in [Ops -> Clients \cup {None}]
    BY DEF OpEnd, TypeOK, OpPCs
<1>2. OpsOK'
    BY DEF OpEnd, OpsOK, TypeOK, poolVars
<1> QED
    BY <1>1, <1>2, OpsOnly DEF TypeOK, tokenVars

LEMMA OpGoes ==
    ASSUME IInv, NEW o \in Ops, opPc[o] # "idle", NEW l \in OpPCs,
           opPc' = [opPc EXCEPT ![o] = l], sema' \in [Pools -> SemaRec],
           sessions' \subseteq sessions \cup {<<opRef[o], o>>}, unclean' \subseteq Slots,
           UNCHANGED <<modRefs, wrapper, poolVars, pc, ref, dropErr, opRef, opFor, loggedIn>>
    PROVE  IInv'
<1> USE DEF IInv
<1>1. opPc' \in [Ops -> OpPCs]
    BY DEF TypeOK
<1>2. OpsOK'
    BY DEF OpsOK, TypeOK, poolVars
<1>3. opRef[o] \in Pools
    BY DEF OpsOK
<1>4. sessions' \subseteq (Pools \X (Clients \cup Ops))
    BY <1>3 DEF TypeOK
<1> QED
    BY <1>1, <1>2, <1>4, OpsOnly DEF TypeOK

(* What the operations do to a semaphore.                                  *)
LEMMA ReleasedType ==
    ASSUME NEW s \in SemaRec, s.cur > 0
    PROVE  /\ Released(s) \in SemaRec
           /\ [Released(s) EXCEPT !.surplus = TRUE] \in SemaRec
<1>1. Released(s) \in SemaRec
  <2>1. CASE s.waiting /\ s.cur = 1
    <3>1. [s EXCEPT !.waiting = FALSE] \in SemaRec
      BY DEF SemaRec
    <3> QED
      BY <2>1, <3>1 DEF Released
  <2>2. CASE ~(s.waiting /\ s.cur = 1)
    <3>1. s.cur \in Nat /\ s.cur - 1 \in Nat
      BY DEF SemaRec
    <3>2. [s EXCEPT !.cur = s.cur - 1] \in SemaRec
      BY <3>1 DEF SemaRec
    <3> QED
      BY <2>2, <3>2 DEF Released
  <2> QED
    BY <2>1, <2>2
<1>2. PICK r \in SemaRec : r = Released(s)
    BY <1>1
<1>3. [r EXCEPT !.surplus = TRUE] \in SemaRec
    BY DEF SemaRec
<1> QED
    BY <1>1, <1>2, <1>3

LEMMA OpAcquireStep ==
    ASSUME IInv, NEW o \in Ops, OpAcquire(o)
    PROVE  IInv'
<1> USE DEF IInv
<1>u. /\ opPc[o] = "get" /\ opRef[o] \in Pools
      /\ UNCHANGED <<modRefs, wrapper, poolVars, pc, ref, dropErr, tokenVars>>
    BY DEF OpAcquire, OpsOK
<1>t. sema \in [Pools -> SemaRec] /\ sema[opRef[o]].cur \in Nat
    BY <1>u DEF TypeOK, SemaRec
<1>1. CASE OpEnd(o) /\ UNCHANGED sema
    BY <1>u, <1>t, <1>1, OpEnds
<1>2. CASE OpGoto(o, "opening") /\ sema' = [sema EXCEPT ![opRef[o]].cur = @ + 1]
  <2>1. sema' \in [Pools -> SemaRec]
    BY <1>u, <1>t, <1>2 DEF SemaRec
  <2> QED
    BY <1>u, <1>2, <2>1, OpGoes DEF OpGoto, OpPCs, tokenVars, TypeOK
<1>3. CASE OpGoto(o, "queued") /\ UNCHANGED sema
    BY <1>u, <1>t, <1>3, OpGoes DEF OpGoto, OpPCs, tokenVars, TypeOK
<1> QED
    BY <1>1, <1>2, <1>3 DEF OpAcquire

LEMMA OpCancelStep ==
    ASSUME IInv, NEW o \in Ops, OpCancel(o)
    PROVE  IInv'
BY OpEnds DEF OpCancel, IInv, TypeOK

LEMMA OpToldStep ==
    ASSUME IInv, NEW o \in Ops, OpTold(o)
    PROVE  IInv'
<1> USE DEF IInv
<1>u. /\ opPc[o] = "told" /\ opRef[o] \in Pools
      /\ UNCHANGED <<modRefs, wrapper, poolVars, pc, ref, dropErr, tokenVars>>
    BY DEF OpTold, OpsOK
<1>t. sema \in [Pools -> SemaRec] /\ sema[opRef[o]] \in SemaRec
    BY <1>u DEF TypeOK
<1>1. CASE OpEnd(o) /\ UNCHANGED sema
    BY <1>u, <1>t, <1>1, OpEnds
<1>2. CASE /\ OpEnd(o) /\ sema[opRef[o]].cur > 0
           /\ sema' = [sema EXCEPT ![opRef[o]] = [Released(@) EXCEPT !.surplus = TRUE]]
  <2>1. sema' \in [Pools -> SemaRec]
    BY <1>u, <1>t, <1>2, ReleasedType
  <2> QED
    BY <1>u, <1>2, <2>1, OpEnds
<1>3. CASE OpGoto(o, "panicked") /\ UNCHANGED sema
    BY <1>u, <1>t, <1>3, OpGoes DEF OpGoto, OpPCs, tokenVars, TypeOK
<1> QED
    BY <1>1, <1>2, <1>3 DEF OpTold

LEMMA OpReleaseStep ==
    ASSUME IInv, NEW o \in Ops, OpRelease(o)
    PROVE  IInv'
<1> USE DEF IInv
<1>u. /\ opPc[o] = "putting" /\ opRef[o] \in Pools
      /\ UNCHANGED <<modRefs, wrapper, poolVars, pc, ref, dropErr, tokenVars>>
    BY DEF OpRelease, OpsOK
<1>t. sema \in [Pools -> SemaRec] /\ sema[opRef[o]] \in SemaRec
    BY <1>u DEF TypeOK
<1>1. CASE OpGoto(o, "panicked") /\ UNCHANGED sema
    BY <1>u, <1>t, <1>1, OpGoes DEF OpGoto, OpPCs, tokenVars, TypeOK
<1>2. ASSUME NEW q \in Queued(opRef[o]), OpHandOver(o, q) PROVE IInv'
  <2>1. q \in Ops /\ opPc[q] = "queued" /\ q # o
    BY <1>u, <1>2 DEF Queued
  <2>2. PICK l \in {"opening", "putting"} : opPc' = [opPc EXCEPT ![o] = "idle", ![q] = l]
    BY <1>2 DEF OpHandOver
  <2>3. /\ opPc' \in [Ops -> OpPCs] /\ opRef' \in [Ops -> Pools \cup {None}]
        /\ opFor' \in [Ops -> Clients \cup {None}]
    BY <1>2, <2>1, <2>2 DEF OpHandOver, TypeOK, OpPCs
  <2>4. OpsOK'
    BY <1>u, <1>2, <2>1, <2>2 DEF OpHandOver, OpsOK, TypeOK, poolVars
  <2> QED
    BY <1>u, <1>t, <1>2, <2>3, <2>4, OpsOnly DEF OpHandOver, TypeOK, tokenVars
<1>3. CASE /\ OpEnd(o) /\ sema[opRef[o]].cur > 0
           /\ sema' = [sema EXCEPT ![opRef[o]] = Released(@)]
  <2>1. sema' \in [Pools -> SemaRec]
    BY <1>u, <1>t, <1>3, ReleasedType
  <2> QED
    BY <1>u, <1>3, <2>1, OpEnds
<1> QED
    BY <1>1, <1>2, <1>3 DEF OpRelease

LEMMA OpStepStep ==
    ASSUME IInv, NEW o \in Ops, OpStep(o)
    PROVE  IInv'
<1>1. CASE OpOpenSession(o)
  <2>1. PICK l \in {"using", "putting"} :
          opPc' = [opPc EXCEPT ![o] = l] /\ sessions' \subseteq sessions \cup {<<opRef[o], o>>}
    BY <1>1 DEF OpOpenSession
  <2> QED
    BY <1>1, <2>1, OpGoes DEF OpOpenSession, OpPCs, IInv, TypeOK
<1>2. CASE OpCloseSession(o)
  <2>1. opRef[o] \in Pools /\ pool[opRef[o]].slot \in Slots
    BY <1>2 DEF OpCloseSession, IInv, OpsOK, TypeOK, PoolRec
  <2>2. sessions' \subseteq sessions /\ unclean' \subseteq Slots
    BY <1>2, <2>1, SessionGone DEF OpCloseSession, IInv
  <2> QED
    BY <1>2, <2>2, OpGoes DEF OpCloseSession, OpPCs, IInv, TypeOK
<1> QED
    BY <1>1, <1>2, OpAcquireStep, OpToldStep, OpReleaseStep DEF OpStep

-----------------------------------------------------------------------------
(***************************************************************************)
(* Drop                                                                    *)
(***************************************************************************)

(* The last holder owns the slot, as there is no other; any other leaves a *)
(* holder behind.                                                          *)
LEMMA DecRefsStep ==
    ASSUME IInv, NEW c \in Clients, DropDecRefs(c)
    PROVE  IInv'
<1> USE DEF IInv
<1>u. pc[c] = "open" /\ UNCHANGED <<modRefs, wrapper, cache, dropErr, opPc, opRef, opFor, sema, sessions, loggedIn, unclean>>
    BY DEF DropDecRefs, opVars, tokenVars
<1>0. PICK p \in Pools : p = ref[c]
    BY <1>u DEF RefsOK, Referring
<1>r. /\ p = ref[c] /\ pool[p].slot = SlotOf[c] /\ cache[SlotOf[c]] = p
      /\ pool[p].live /\ ~pool[p].closed /\ SlotOf[c] \in loggedIn
    BY <1>0, <1>u DEF RefsOK, OwnerOK, StateOK, Referring
<1>h. c \in Holders(p) /\ pool[p].refs = Cardinality(Holders(p))
    BY <1>u, <1>r DEF Holders, CountOK
<1>1. Cardinality(Holders(p) \ {c}) = pool[p].refs - 1
    BY <1>h, HoldersFinite, FS_RemoveElement
<1>2. IsFiniteSet(Holders(p) \ {c})
    BY <1>h, HoldersFinite, FS_RemoveElement
<1>3. pool[p].refs \in 1..Cardinality(Clients)
  <2>1. Holders(p) # {}
    BY <1>h
  <2>2. Cardinality(Holders(p)) # 0
    BY <2>1, HoldersFinite, FS_EmptySet
  <2>3. Cardinality(Clients) \in Nat
    BY ClientsAssumption, FS_CardinalityType
  <2>4. Cardinality(Holders(p)) \in Nat /\ Cardinality(Holders(p)) <= Cardinality(Clients)
    BY HoldersFinite
  <2> QED
    BY <1>h, <2>2, <2>3, <2>4
<1>p. /\ pool' \in [Pools -> PoolRec]
      /\ pool'[p].refs = pool[p].refs - 1 /\ SameBut(p, "refs")
  <2>1. pool' = [pool EXCEPT ![p].refs = pool[p].refs - 1]
    BY <1>0 DEF DropDecRefs
  <2>2. pool[p].refs - 1 \in 0..Cardinality(Clients)
    <3>1. Cardinality(Clients) \in Nat
      BY ClientsAssumption, FS_CardinalityType
    <3> QED
      BY <1>3, <3>1
  <2> QED
    BY <2>1, <2>2, SetRefs
<1>s. \A d \in Clients : pc[d] \in Referring =>
        /\ pool'[ref[d]].live = pool[ref[d]].live
        /\ pool'[ref[d]].closed = pool[ref[d]].closed
        /\ pc[d] \in Making => pool'[ref[d]].refs = pool[ref[d]].refs
    BY <1>p, <1>r DEF RefsOK, StateOK, SameBut, Referring
<1>o. \A d \in Clients : SlotOf[d] = SlotOf[c] => pc[d] \notin Owning
    BY <1>u DEF OwnerOK, Owning, Making, Ending
<1>4. CASE pool[p].refs = 1
  <2>f. Moves(c, "close") /\ UNCHANGED ref
    BY <1>4, <1>0, GotoMoves DEF DropDecRefs, ClientPCs
  <2>1. Holders(p)' = Holders(p) \ {c}
    BY <1>u, <1>r, <2>f DEF Holders, Moves
  <2>2. \A q : q # p => Holders(q)' = Holders(q)
    BY <1>u, <1>r, <2>f DEF Holders, Moves
  <2>3. Holders(p) \ {c} = {}
    BY <1>1, <1>2, <1>4, FS_EmptySet
  <2>4. \A d \in Clients : SlotOf[d] = SlotOf[c] /\ pc[d] = "open" => d = c
    BY <1>r, <2>3 DEF OwnerOK, Holders
  <2>a. RefsOK'
      BY <1>u, <1>r, <1>p, <2>f DEF RefsOK, Moves, Points, Caches, SameBut, Referring, Owning, Making, Ending, Announcing
  <2>b. CacheOK'
      BY <1>u, <1>r, <1>p, <2>f DEF CacheOK, Moves, Points, Caches, SameBut, TypeOK
  <2>c. OwnerOK'
      BY <1>u, <1>r, <1>p, <2>f, <1>o, <2>4 DEF OwnerOK, Moves, Referring, Owning, Making, Ending, Announcing
  <2>d. StateOK'
      BY <1>u, <1>r, <1>p, <2>f, <1>s DEF StateOK, Moves, Referring, Owning, Making, Ending, Announcing
  <2>e. CountOK'
      BY <1>u, <1>r, <1>p, <2>f, <1>1, <2>1, <2>2 DEF CountOK, SameBut
  <2>g. LiveOK'
      BY <1>u, <1>r, <1>p, <2>f DEF LiveOK, Moves, Points, Caches, SameBut, Referring, Owning, Making, Ending, Announcing
  <2>h. OpsOK'
      BY <1>u, <1>r, <1>p, <2>f DEF OpsOK, SameBut
  <2>m. ModOK'
      BY <1>u, <2>f, ModUntouched DEF ModOK
  <2>t. TypeOK'
      BY <1>u, <1>r, <1>p, <2>f DEF TypeOK, Moves, Points, Caches, SameBut
  <2> QED
      BY <2>a, <2>b, <2>c, <2>d, <2>e, <2>g, <2>h, <2>m, <2>t
<1>5. CASE pool[p].refs # 1
  <2>0. PICK l \in {"new", "dropMod"} : /\ Goto(c, l) /\ (l = "new" <=> c \in Calls)
                                      /\ ref' = [ref EXCEPT ![c] = None]
    BY <1>5, <1>0 DEF DropDecRefs, DropReturns
  <2>f. Moves(c, l) /\ Points(c, None)
    BY <2>0, GotoMoves, RefPoints DEF ClientPCs
  <2>1. Holders(p)' = Holders(p) \ {c}
    BY <1>u, <1>r, <2>f DEF Holders, Moves, Points
  <2>2. \A q : q # p => Holders(q)' = Holders(q)
    BY <1>u, <1>r, <2>f DEF Holders, Moves, Points
  <2>3. Holders(p) \ {c} # {}
    BY <1>1, <1>3, <1>5, FS_EmptySet
  <2>4. PICK e \in Clients : e # c /\ pc[e] = "open" /\ ref[e] = p
    BY <2>3 DEF Holders
  <2>a. RefsOK'
      BY <1>u, <1>r, <1>p, <2>f DEF RefsOK, Moves, Points, Caches, SameBut, Referring, Owning, Making, Ending, Announcing
  <2>b. CacheOK'
      BY <1>u, <1>r, <1>p, <2>f DEF CacheOK, Moves, Points, Caches, SameBut, TypeOK
  <2>c. OwnerOK'
      BY <1>u, <1>r, <1>p, <2>f DEF OwnerOK, Moves, Points, Referring, Owning, Making, Ending, Announcing
  <2>d. StateOK'
      BY <1>u, <1>r, <1>p, <2>f, <1>s DEF StateOK, Moves, Points, Referring, Owning, Making, Ending, Announcing
  <2>e. CountOK'
      BY <1>u, <1>r, <1>p, <2>f, <1>1, <2>1, <2>2 DEF CountOK, SameBut
  <2>g. LiveOK'
      BY <1>u, <1>r, <1>p, <2>f, <2>4 DEF LiveOK, Moves, Points, SameBut
  <2>h. OpsOK'
      BY <1>u, <1>r, <1>p, <2>f DEF OpsOK, SameBut
  <2>m. ModOK'
      BY <1>u, <2>0, <2>f, ModUntouched, ClientsAssumption DEF ModOK
  <2>t. TypeOK'
      BY <1>u, <1>r, <1>p, <2>f DEF TypeOK, Moves, Points, Caches, SameBut
  <2> QED
      BY <2>a, <2>b, <2>c, <2>d, <2>e, <2>g, <2>h, <2>m, <2>t
<1> QED
    BY <1>4, <1>5

(* The pool of an owner that closes it has no holders.                     *)
LEMMA Closes ==
    ASSUME IInv, NEW c \in Clients, NEW p \in Pools, p = ref[c], pc[c] = "close",
           pool[p].slot = SlotOf[c], pool[p].live, Moves(c, "drain"),
           pool' \in [Pools -> PoolRec], pool'[p].closed, SameBut(p, "closed"),
           opPc' \in [Ops -> OpPCs], \A o \in Ops : opPc'[o] = "idle" <=> opPc[o] = "idle",
           sema' \in [Pools -> SemaRec],
           UNCHANGED <<modRefs, wrapper, cache, ref, dropErr, opRef, opFor, sessions, loggedIn, unclean>>
    PROVE  IInv'
<1> USE DEF IInv
<1>u. pc[c] = "close" /\ UNCHANGED <<modRefs, wrapper, cache, ref, dropErr, opRef, opFor, sessions, loggedIn, unclean>>
    OBVIOUS
<1>r. p = ref[c] /\ pool[p].slot = SlotOf[c] /\ pool[p].live
    OBVIOUS
<1>f. Moves(c, "drain") /\ pool'[p].closed /\ SameBut(p, "closed")
    OBVIOUS
<1>1. \A d \in Clients : pc[d] \in Owning \cup {"open"} /\ ref[d] = p => d = c
    BY <1>u, <1>r DEF RefsOK, OwnerOK, Referring, Owning, Making, Ending
<1>2. \A d \in Clients : pc[d] \in Referring =>
        /\ pool'[ref[d]].live = pool[ref[d]].live /\ pool'[ref[d]].refs = pool[ref[d]].refs
        /\ ref[d] # p => pool'[ref[d]].closed = pool[ref[d]].closed
    BY <1>f DEF RefsOK, SameBut
<1>a. RefsOK'
    BY <1>u, <1>f DEF RefsOK, Moves, Points, Caches, SameBut, Referring, Owning, Making, Ending, Announcing
<1>b. CacheOK'
    BY <1>u, <1>f DEF CacheOK, Moves, Points, Caches, SameBut, TypeOK
<1>c. OwnerOK'
    BY <1>u, <1>f DEF OwnerOK, Moves, Points, Caches, SameBut, Referring, Owning, Making, Ending, Announcing
<1>d. StateOK'
    BY <1>u, <1>f, <1>1, <1>2 DEF StateOK, Moves, Referring, Owning, Making, Ending, Announcing
<1>e. CountOK'
  <2>1. \A q : Holders(q)' = Holders(q)
      BY <1>u, <1>f, HoldersSame DEF Points
  <2> QED
      BY <1>u, <1>f, <2>1 DEF CountOK, SameBut
<1>g. LiveOK'
  <2>1. SUFFICES ASSUME NEW q \in Pools, pool'[q].live /\ ~pool'[q].closed
              PROVE  \E d \in Clients : ref'[d] = q /\ pc'[d] \in {"open", "close", "stuck"}
    BY DEF LiveOK
  <2>2. q # p /\ pool'[q] = pool[q]
    BY <1>f, <2>1 DEF SameBut
  <2>3. PICK d \in Clients : ref[d] = q /\ pc[d] \in {"open", "close", "stuck"}
    BY <2>1, <2>2 DEF LiveOK
  <2> QED
    BY <1>u, <1>r, <1>f, <2>2, <2>3 DEF Moves
<1>h. OpsOK'
    BY <1>u, <1>f DEF OpsOK, SameBut
<1>m. ModOK'
    BY <1>u, <1>f, ModUntouched DEF ModOK
<1>t. TypeOK'
    BY <1>u, <1>f DEF TypeOK, Moves, Points, Caches, SameBut
<1> QED
    BY <1>a, <1>b, <1>c, <1>d, <1>e, <1>g, <1>h, <1>m, <1>t

(* Closing a pool, and blocking while doing so.                            *)
LEMMA CloseStep ==
    ASSUME IInv, NEW c \in Clients, DropClose(c)
    PROVE  IInv'
<1> USE DEF IInv
<1>u. pc[c] = "close" /\ UNCHANGED <<modRefs, wrapper, cache, ref, dropErr, opRef, opFor, sessions, loggedIn, unclean>>
    BY DEF DropClose, tokenVars
<1>0. PICK p \in Pools : p = ref[c]
    BY <1>u DEF RefsOK, Referring, Owning, Ending
<1>r. /\ p = ref[c] /\ pool[p].slot = SlotOf[c] /\ pool[p].live
    BY <1>0, <1>u DEF RefsOK, StateOK, Referring, Owning, Ending
<1>o. PICK hung : Told(p, hung)
    BY <1>0 DEF DropClose
<1>p. /\ opPc' \in [Ops -> OpPCs]
      /\ \A o \in Ops : opPc'[o] = "idle" <=> opPc[o] = "idle"
    BY <1>o DEF Told, Queued, TypeOK, OpPCs
<1>s. CASE Goto(c, "stuck") /\ UNCHANGED <<pool, sema>>
  <2>1. Moves(c, "stuck")
    BY <1>s, GotoMoves DEF ClientPCs
  <2>2. OpsOK'
    BY <1>u, <1>p, <1>s DEF OpsOK
  <2> QED
    BY <1>u, <1>p, <1>s, <2>1, <2>2, Ends DEF poolVars, TypeOK
<1>n. CASE /\ pool' = [pool EXCEPT ![ref[c]].closed = TRUE]
           /\ sema' = [sema EXCEPT ![ref[c]] = Closed(@)]
           /\ Goto(c, "drain")
  <2>1. /\ Moves(c, "drain") /\ pool' \in [Pools -> PoolRec] /\ pool'[p].closed
        /\ SameBut(p, "closed")
    BY <1>0, <1>n, GotoMoves, SetClosed DEF ClientPCs
  <2>2. sema' \in [Pools -> SemaRec]
    BY <1>0, <1>n DEF TypeOK, Closed, SemaRec
  <2> QED
    BY <1>u, <1>0, <1>r, <1>p, <2>1, <2>2, Closes
<1> QED
    BY <1>s, <1>n DEF DropClose
(* The rest of the shutdown.                                               *)
LEMMA DropStepStep ==
    ASSUME IInv, NEW c \in Clients, DropStep(c)
    PROVE  IInv'
<1> USE DEF IInv
<1>1. CASE DropDrain(c)
  <2>1. Moves(c, "logout")
    BY <1>1, GotoMoves DEF DropDrain, ClientPCs
  <2>2. UNCHANGED <<opPc, sema>> /\ OpsOK'
    BY <1>1 DEF DropDrain, opVars, poolVars, OpsOK
  <2> QED
    BY <1>1, <2>1, <2>2, Ends DEF DropDrain, opVars, tokenVars, TypeOK
<1>2. CASE DropLogout(c)
  <2>1. Moves(c, "closeAll")
    BY <1>2, GotoMoves DEF DropLogout, ClientPCs
  <2>2. dropErr' \in [Clients -> BOOLEAN]
    BY <1>2 DEF DropLogout, TypeOK
  <2>3. /\ loggedIn' \subseteq loggedIn
        /\ \A s \in Slots : s # SlotOf[c] => (s \in loggedIn' <=> s \in loggedIn)
    BY <1>2 DEF DropLogout
  <2>4. OpsOK' /\ unclean' \subseteq Slots
    BY <1>2, TokensAssumption DEF DropLogout, opVars, poolVars, OpsOK, TypeOK
  <2> QED
    BY <1>2, <2>1, <2>2, <2>3, <2>4, Ends DEF DropLogout, opVars, TypeOK
<1>3. CASE DropCloseAllSessions(c)
  <2>1. Moves(c, "uncache")
    BY <1>3, GotoMoves DEF DropCloseAllSessions, ClientPCs
  <2>2. dropErr' \in [Clients -> BOOLEAN]
    BY <1>3 DEF DropCloseAllSessions, TypeOK
  <2>3. /\ loggedIn' \subseteq loggedIn /\ sessions' \subseteq sessions
        /\ \A s \in Slots : s # SlotOf[c] => (s \in loggedIn' <=> s \in loggedIn)
    BY <1>3 DEF DropCloseAllSessions
  <2>4. OpsOK' /\ unclean' \subseteq Slots
    BY <1>3, TokensAssumption DEF DropCloseAllSessions, opVars, poolVars, OpsOK, TypeOK
  <2> QED
    BY <1>3, <2>1, <2>2, <2>3, <2>4, Ends DEF DropCloseAllSessions, opVars, TypeOK
<1>4. CASE DropUncache(c)
  <2>1. Moves(c, "announce")
    BY <1>4, GotoMoves DEF DropUncache, ClientPCs
  <2> QED
    BY <1>4, <2>1, Uncaches DEF DropUncache, Announcing
<1>5. CASE DropAnnounce(c)
  <2>1. PICK l \in {"new", "dropMod", "leaked"} : Goto(c, l) /\ (l = "new" <=> c \in Calls)
    BY <1>5 DEF DropAnnounce, DropReturns
  <2>2. Moves(c, l) /\ Points(c, None)
    BY <1>5, <2>1, GotoMoves, RefPoints DEF DropAnnounce, ClientPCs
  <2>3. dropErr' \in [Clients -> BOOLEAN]
    BY <1>5 DEF DropAnnounce, TypeOK
  <2>4. c \in Kmss => c \notin Calls
    BY ClientsAssumption
  <2> QED
    BY <1>5, <2>1, <2>2, <2>3, <2>4, Announces DEF DropAnnounce, Announcing
<1> QED
    BY <1>1, <1>2, <1>3, <1>4, <1>5, CloseStep, DropModuleStep DEF DropStep

(* Giving up the drain.                                                    *)
LEMMA GaveUpFields ==
    ASSUME NEW s \in SemaRec, NEW c \in Clients
    PROVE  /\ GaveUp(s, c) \in SemaRec
           /\ ~GaveUp(s, c).waiting /\ GaveUp(s, c).surplus = s.surplus
           /\ GaveUp(s, c).gaveUp = IF c \in Calls THEN "call" ELSE "kms"
           /\ s.waiting => GaveUp(s, c).cur = s.cur
           /\ ~s.waiting /\ s.cur # 0 => GaveUp(s, c).cur = s.cur - 1
<1>1. Wrapped \in Nat
    BY ClientsAssumption, TokensAssumption, FS_CardinalityType DEF Wrapped
<1>2. PICK n \in Nat : n = IF s.waiting THEN s.cur ELSE IF s.cur = 0 THEN Wrapped ELSE s.cur - 1
    BY <1>1 DEF SemaRec
<1>3. PICK by \in {"call", "kms"} : by = IF c \in Calls THEN "call" ELSE "kms"
    OBVIOUS
<1>4. GaveUp(s, c) = [s EXCEPT !.waiting = FALSE, !.gaveUp = by, !.cur = n]
    BY <1>2, <1>3 DEF GaveUp
<1>5. PICK r : r = [s EXCEPT !.waiting = FALSE, !.gaveUp = by, !.cur = n]
    OBVIOUS
<1>6. r \in SemaRec /\ ~r.waiting /\ r.surplus = s.surplus /\ r.gaveUp = by /\ r.cur = n
    BY <1>5 DEF SemaRec
<1> QED
    BY <1>2, <1>3, <1>4, <1>5, <1>6

LEMMA DropTimeoutStep ==
    ASSUME IInv, NEW c \in Clients, DropTimeout(c)
    PROVE  IInv'
<1> USE DEF IInv
<1>1. /\ pc[c] = "drain" /\ ref[c] \in Pools
      /\ UNCHANGED <<modRefs, wrapper, cache, pool, ref, opPc, opRef, opFor, sessions, loggedIn, unclean>>
    BY DEF DropTimeout, RefsOK, Referring, Owning, Ending, poolVars, tokenVars
<1>2. PICK l \in {"logout", "panicked"} : Goto(c, l)
    BY DEF DropTimeout
<1>3. Moves(c, l)
    BY <1>2, GotoMoves DEF ClientPCs
<1>4. dropErr' \in [Clients -> BOOLEAN] /\ OpsOK'
    BY <1>1 DEF DropTimeout, TypeOK, OpsOK
<1>5. sema' \in [Pools -> SemaRec]
  <2>2. CASE UNCHANGED sema
    BY <2>2 DEF TypeOK
  <2>3. CASE sema' = [sema EXCEPT ![ref[c]] = GaveUp(@, c)]
    <3>1. sema[ref[c]] \in SemaRec
      BY <1>1 DEF TypeOK
    <3> QED
      BY <2>3, <3>1, GaveUpFields DEF TypeOK
  <2> QED
    BY <2>2, <2>3 DEF DropTimeout
<1> QED
    BY <1>1, <1>3, <1>4, <1>5, Ends DEF poolVars, TypeOK

-----------------------------------------------------------------------------
(***************************************************************************)
(* The invariant                                                           *)
(***************************************************************************)

LEMMA InitIInv == Init => IInv
<1> SUFFICES ASSUME Init PROVE IInv
    OBVIOUS
<1>1. pool \in [Pools -> PoolRec]
  <2>1. SUFFICES ASSUME NEW p \in Pools PROVE NewPool(p) \in PoolRec
    BY DEF Init
  <2>2. Cardinality(Clients) \in Nat /\ Cardinality(Clients) # 0
    BY ClientsAssumption, FS_CardinalityType, FS_EmptySet DEF Pools
  <2> QED
    BY <2>2, TokensAssumption DEF NewPool, PoolRec, Pools
<1>2. TypeOK
    BY <1>1, KmssFinite DEF Init, TypeOK, ClientPCs, OpPCs, NewSema, SemaRec
<1>3. RefsOK /\ CacheOK /\ OwnerOK /\ StateOK /\ OpsOK
    BY DEF Init, RefsOK, CacheOK, OwnerOK, StateOK, OpsOK, Referring, Owning, Making,
           Ending, Announcing
<1>4. CountOK /\ LiveOK
    BY DEF Init, CountOK, LiveOK, NewPool
<1>5. ModHolders = {}
    BY DEF Init, ModHolders, Clients
<1>6. ModOK
    BY <1>5, FS_EmptySet DEF Init, ModOK, WrapperRefs, Clients
<1> QED
    BY <1>2, <1>3, <1>4, <1>6 DEF IInv

LEMMA StutterIInv ==
    ASSUME IInv, UNCHANGED vars
    PROVE  IInv'
<1>1. \A q : Holders(q)' = Holders(q)
    BY DEF vars, Holders
<1>2. ModHolders' = ModHolders /\ WrapperRefs' = WrapperRefs
    BY DEF vars, ModHolders, WrapperRefs
<1>3. CountOK' /\ ModOK'
    BY <1>1, <1>2 DEF IInv, vars, CountOK, ModOK
<1>4. TypeOK' /\ RefsOK' /\ CacheOK' /\ OwnerOK' /\ StateOK' /\ LiveOK' /\ OpsOK'
    BY DEF IInv, vars, TypeOK, RefsOK, CacheOK, OwnerOK, StateOK, LiveOK, OpsOK
<1> QED
    BY <1>3, <1>4 DEF IInv

LEMMA StepIInv == IInv /\ [Next]_vars => IInv'
<1> SUFFICES ASSUME IInv, [Next]_vars PROVE IInv'
    OBVIOUS
<1>1. ASSUME NEW k \in Kmss, KmsOpen(k) \/ GetToken(k) PROVE IInv'
    BY <1>1, KmsOpenStep, GetTokenStep
<1>2. ASSUME NEW c \in Calls, WrapperWith(c) PROVE IInv'
    BY <1>2, WithStep
<1>3. CASE WrapperSetConfig \/ WrapperGetToken \/ WrapperFinalize
    BY <1>3, SetConfigStep, WrapperTokenStep, FinalizeStep
<1>4. ASSUME NEW c \in Clients, LoginStep(c) PROVE IInv'
    BY <1>4, LookupStep, AwaitStep, JoinStep, AwaitDeadStep, OpenSessionStep,
       AuthenticateStep, RollbackStep, AnnounceFailureStep, OpenFailedStep DEF LoginStep
<1>5. ASSUME NEW c \in Clients,
             LoginTimeout(c) \/ DropDecRefs(c) \/ DropStep(c) \/ DropTimeout(c)
      PROVE  IInv'
    BY <1>5, TimeoutStep, DecRefsStep, DropStepStep, DropTimeoutStep
<1>6. ASSUME NEW o \in Ops, OpStart(o) \/ OpStep(o) \/ OpCancel(o) PROVE IInv'
    BY <1>6, OpStartStep, OpStepStep, OpCancelStep
<1>7. CASE UNCHANGED vars
    BY <1>7, StutterIInv
<1> QED
    BY <1>1, <1>2, <1>3, <1>4, <1>5, <1>6, <1>7 DEF Next, Step

LEMMA AlwaysIInv == Spec => []IInv
BY InitIInv, StepIInv, PTL DEF Spec

(* Type correctness: modRefs in particular never exceeds the number of     *)
(* users of the library, and no reference count leaves its range.          *)
THEOREM TypeCorrect == Spec => []TypeOK
<1>1. IInv => TypeOK
    BY DEF IInv
<1> QED
    BY <1>1, AlwaysIInv, PTL

(* incRefs and decRefs of pool.go count exactly the holders of a live      *)
(* pool, however logins, timeouts and drops interleave.                    *)
THEOREM RefsExactHolds == Spec => []RefsExact
<1>1. IInv => RefsExact
    BY DEF IInv, TypeOK, CountOK, RefsExact, Holders
<1> QED
    BY <1>1, AlwaysIInv, PTL

(* Whoever Login gave a PoolRef has the cached, live, open pool of its     *)
(* slot, on a token that is logged in, until it drops the reference.       *)
THEOREM HoldersShareLivePoolHolds == Spec => []HoldersShareLivePool
<1>1. IInv => HoldersShareLivePool
  <2> SUFFICES ASSUME IInv, NEW c \in Clients, pc[c] = "open"
               PROVE  /\ cache[SlotOf[c]] = ref[c]
                      /\ pool[ref[c]].live /\ ~pool[ref[c]].dead /\ ~pool[ref[c]].closed
                      /\ SlotOf[c] \in loggedIn
    BY DEF HoldersShareLivePool
  <2>1. cache[SlotOf[c]] = ref[c] /\ ref[c] # None
    BY NoneNotPool DEF IInv, OwnerOK, RefsOK, Referring
  <2> QED
    BY <2>1, TokensAssumption DEF IInv, CacheOK, StateOK
<1> QED
    BY <1>1, AlwaysIInv, PTL

-----------------------------------------------------------------------------
(***************************************************************************)
(* What a drain protects.  As long as nobody released a token it never     *)
(* had, cur counts the sessions in use, and Close of the semaphore gets    *)
(* its token when there is none.  So an operation that has a session is    *)
(* guarded by a client that has not got past the drain, or the drain was   *)
(* given up: by a KMS, which keeps its module then, or by a call of the    *)
(* wrapper.                                                                *)
(***************************************************************************)
Active == {"opening", "using", "putting"}
Draining == {"open", "close", "stuck", "drain"}
Loose(p) == sema[p].surplus \/ sema[p].gaveUp # "nobody"

Counted(p) ==
    /\ sema[p].waiting => sema[p].cur > 0
    /\ IF pool[p].closed /\ sema[p].gaveUp = "nobody" /\ ~sema[p].waiting
         THEN sema[p].cur = 1 /\ InUse(p) = {}
         ELSE sema[p].cur = Cardinality(InUse(p))

SemOK(p) ==
    /\ sema[p].gaveUp # "nobody" => pool[p].closed
    /\ sema[p].waiting => pool[p].closed /\ sema[p].gaveUp = "nobody"
    /\ ~sema[p].surplus => Counted(p)

SemInv ==
    /\ \A p \in Pools : SemOK(p)
    /\ \A c \in Clients : pc[c] = "drain" => sema[ref[c]].gaveUp = "nobody"

FailedDrop(k) ==
    \/ pc[k] = "leaked"
    \/ dropErr[k] /\ pc[k] \in {"logout", "closeAll", "uncache", "announce"}

Guarded(p) ==
    \/ \E c \in Clients : ref[c] = p /\ pc[c] \in Draining
    \/ sema[p].gaveUp = "kms" /\ \E k \in Kmss : FailedDrop(k)
    \/ sema[p].gaveUp = "call"

UInv == \A p \in Pools : InUse(p) # {} /\ ~sema[p].surplus => Guarded(p)

(* A session in use stays open, as only its user or the end of its pool    *)
(* closes it.                                                              *)
KInv == \A o \in Ops :
            opPc[o] = "using" /\ ~Loose(opRef[o]) => <<opRef[o], o>> \in sessions

(* Where closing sessions did not fail, whatever is left at the token      *)
(* belongs to a client that is about to remove it, or to an operation that *)
(* its pool did not wait for.                                              *)
AtToken == Draining \cup {"panicked", "logout", "closeAll"}

Remains(c, p, t) ==
    /\ ref[c] = p
    /\ \/ pc[c] = "authenticate" /\ t = c
       \/ pc[c] \in AtToken

LeftBehind(p, t) == t \in Ops /\ opPc[t] = "using" /\ opRef[t] = p /\ Loose(p)

LoginsOwned ==
    \A s \in loggedIn \ unclean :
        \E c \in Clients : SlotOf[c] = s /\ pc[c] \in AtToken

SessionsOwned ==
    \A p \in Pools, t \in Clients \cup Ops :
        <<p, t>> \in sessions /\ pool[p].slot \notin unclean =>
            (\E c \in Clients : Remains(c, p, t)) \/ LeftBehind(p, t)

TInv == IInv /\ SemInv /\ UInv /\ KInv /\ LoginsOwned /\ SessionsOwned

(* The steps of one client; the others stay where they are.                *)
ClientStep(c) ==
    \/ c \in Kmss /\ (KmsOpen(c) \/ GetToken(c))
    \/ c \in Calls /\ WrapperWith(c)
    \/ LoginStep(c) \/ LoginTimeout(c) \/ DropDecRefs(c) \/ DropStep(c) \/ DropTimeout(c)

OpAction(o) == OpStart(o) \/ OpStep(o) \/ OpCancel(o)

OthersStay(c) ==
    \A d \in Clients : d # c =>
        pc'[d] = pc[d] /\ ref'[d] = ref[d] /\ dropErr'[d] = dropErr[d]

(* A step of a client at most tells the operations in a queue.             *)
OpsStay ==
    /\ UNCHANGED <<opRef, opFor>>
    /\ \A o \in Ops : opPc'[o] = opPc[o] \/ (opPc[o] = "queued" /\ opPc'[o] = "told")

LEMMA OthersStaySteps ==
    ASSUME TypeOK, NEW c \in Clients, ClientStep(c)
    PROVE  OthersStay(c) /\ OpsStay
<1>1. OthersStay(c)
  <2>1. \A d \in Clients : d # c => pc'[d] = pc[d]
    BY DEF ClientStep, LoginStep, DropStep, TypeOK, Goto, KmsOpen, GetToken, WrapperWith,
           LoginLookup, LoginAwait, LoginJoin, LoginAwaitDead, LoginOpenSession,
           LoginAuthenticate, LoginRollback, LoginAnnounceFailure, OpenFailed, LoginTimeout,
           DropDecRefs, DropClose, DropDrain, DropTimeout, DropLogout, DropCloseAllSessions,
           DropUncache, DropAnnounce, KmsDropModule
  <2>2. \A d \in Clients : d # c => ref'[d] = ref[d]
    BY DEF ClientStep, LoginStep, DropStep, TypeOK, KmsOpen, GetToken, WrapperWith,
           LoginLookup, LoginAwait, LoginJoin, LoginAwaitDead, LoginOpenSession,
           LoginAuthenticate, LoginRollback, LoginAnnounceFailure, OpenFailed, LoginTimeout,
           DropDecRefs, DropClose, DropDrain, DropTimeout, DropLogout, DropCloseAllSessions,
           DropUncache, DropAnnounce, KmsDropModule
  <2>3. \A d \in Clients : d # c => dropErr'[d] = dropErr[d]
    BY DEF ClientStep, LoginStep, DropStep, TypeOK, KmsOpen, GetToken, WrapperWith,
           LoginLookup, LoginAwait, LoginJoin, LoginAwaitDead, LoginOpenSession,
           LoginAuthenticate, LoginRollback, LoginAnnounceFailure, OpenFailed, LoginTimeout,
           DropDecRefs, DropClose, DropDrain, DropTimeout, DropLogout, DropCloseAllSessions,
           DropUncache, DropAnnounce, KmsDropModule
  <2> QED
    BY <2>1, <2>2, <2>3 DEF OthersStay
<1>2. OpsStay
  <2>1. CASE DropClose(c)
    <3>1. PICK hung : Told(ref[c], hung)
      BY <2>1 DEF DropClose
    <3> QED
      BY <2>1, <3>1 DEF DropClose, Told, Queued, OpsStay
  <2>2. CASE ~DropClose(c)
    <3>1. UNCHANGED <<opPc, opRef, opFor>>
      BY <2>2 DEF ClientStep, LoginStep, DropStep, opVars, KmsOpen, GetToken, WrapperWith,
           LoginLookup, LoginAwait, LoginJoin, LoginAwaitDead, LoginOpenSession,
           LoginAuthenticate, LoginRollback, LoginAnnounceFailure, OpenFailed, LoginTimeout,
           DropDecRefs, DropDrain, DropTimeout, DropLogout, DropCloseAllSessions,
           DropUncache, DropAnnounce, KmsDropModule
    <3> QED
      BY <3>1 DEF OpsStay
  <2> QED
    BY <2>1, <2>2
<1> QED
    BY <1>1, <1>2

LEMMA UseStays ==
    ASSUME OpsStay
    PROVE  \A q : InUse(q)' = InUse(q)
BY DEF OpsStay, InUse

(* What a step of a client does to a pool that exists.                     *)
Kept(p) == /\ sema'[p] = sema[p]
           /\ pool'[p].closed = pool[p].closed /\ pool'[p].slot = pool[p].slot

Renewed(p) == Unreferenced(p) /\ sema'[p] = NewSema /\ ~pool'[p].closed

ClosedBy(c, p) ==
    /\ pc[c] = "close" /\ pc'[c] = "drain" /\ ref[c] = p /\ ref' = ref
    /\ sema'[p] = Closed(sema[p]) /\ pool'[p].closed /\ pool'[p].slot = pool[p].slot

GivenUpBy(c, p) ==
    /\ pc[c] = "drain" /\ pc'[c] = "logout" /\ ref[c] = p /\ dropErr'[c]
    /\ sema'[p] = GaveUp(sema[p], c)
    /\ pool'[p].closed = pool[p].closed /\ pool'[p].slot = pool[p].slot

LEMMA PoolFrame ==
    ASSUME IInv, NEW c \in Clients, ClientStep(c), NEW p \in Pools
    PROVE  Kept(p) \/ Renewed(p) \/ ClosedBy(c, p) \/ GivenUpBy(c, p)
<1> USE DEF IInv
<1>1. CASE LoginLookup(c)
  <2>1. CASE UNCHANGED <<poolVars, sema>>
    BY <2>1 DEF Kept, poolVars
  <2>2. CASE ~UNCHANGED <<poolVars, sema>>
    <3> DEFINE q == CHOOSE x \in Pools : Unreferenced(x)
    <3>1. /\ q \in Pools /\ Unreferenced(q)
          /\ pool' = [pool EXCEPT ![q] = NewPool(c)] /\ sema' = [sema EXCEPT ![q] = NewSema]
      BY <1>1, <2>2 DEF LoginLookup
    <3> HIDE DEF q
    <3>2. CASE p = q
      BY <3>1, <3>2 DEF TypeOK, NewPool, Renewed
    <3>3. CASE p # q
      BY <3>1, <3>3 DEF TypeOK, Kept
    <3> QED
      BY <3>2, <3>3
  <2> QED
    BY <2>1, <2>2
<1>2. CASE DropClose(c)
  <2>1. pc[c] = "close" /\ ref[c] \in Pools /\ ref' = ref
    BY <1>2 DEF DropClose, RefsOK, Referring, Owning, Ending
  <2>2. CASE UNCHANGED <<pool, sema>>
    BY <2>2 DEF Kept
  <2>3. CASE /\ pool' = [pool EXCEPT ![ref[c]].closed = TRUE]
             /\ sema' = [sema EXCEPT ![ref[c]] = Closed(@)]
             /\ Goto(c, "drain")
    <3>1. pool'[ref[c]].closed /\ SameBut(ref[c], "closed")
      BY <2>1, <2>3, SetClosed
    <3>2. CASE p = ref[c]
      BY <2>1, <2>3, <3>1, <3>2 DEF TypeOK, Goto, SameBut, ClosedBy
    <3>3. CASE p # ref[c]
      BY <2>1, <2>3, <3>1, <3>3 DEF TypeOK, SameBut, Kept
    <3> QED
      BY <3>2, <3>3
  <2> QED
    BY <1>2, <2>2, <2>3 DEF DropClose
<1>3. CASE DropTimeout(c)
  <2>1. pc[c] = "drain" /\ ref[c] \in Pools /\ UNCHANGED pool
    BY <1>3 DEF DropTimeout, RefsOK, Referring, Owning, Ending, poolVars
  <2>2. CASE UNCHANGED sema
    BY <2>1, <2>2 DEF Kept
  <2>3. CASE /\ Goto(c, "logout") /\ dropErr' = [dropErr EXCEPT ![c] = TRUE]
             /\ sema' = [sema EXCEPT ![ref[c]] = GaveUp(@, c)]
    BY <2>1, <2>3 DEF TypeOK, Goto, GivenUpBy, Kept
  <2> QED
    BY <1>3, <2>2, <2>3 DEF DropTimeout
<1>4. CASE ~LoginLookup(c) /\ ~DropClose(c) /\ ~DropTimeout(c)
  <2>1. UNCHANGED sema
    BY <1>4 DEF ClientStep, LoginStep, DropStep, opVars, KmsOpen, GetToken, WrapperWith,
           LoginAwait, LoginJoin, LoginAwaitDead, LoginOpenSession,
           LoginAuthenticate, LoginRollback, LoginAnnounceFailure, OpenFailed, LoginTimeout,
           DropDecRefs, DropDrain, DropLogout, DropCloseAllSessions,
           DropUncache, DropAnnounce, KmsDropModule
  <2>2. CASE /\ ~LoginAuthenticate(c) /\ ~LoginJoin(c) /\ ~LoginAnnounceFailure(c)
             /\ ~DropDecRefs(c) /\ ~DropAnnounce(c)
    <3>1. UNCHANGED pool
      BY <1>4, <2>2 DEF ClientStep, LoginStep, DropStep, poolVars, KmsOpen, GetToken,
           WrapperWith, LoginAwait, LoginAwaitDead, LoginOpenSession, LoginRollback,
           OpenFailed, LoginTimeout, DropDrain, DropLogout, DropCloseAllSessions,
           DropUncache, KmsDropModule
    <3> QED
      BY <2>1, <3>1 DEF Kept
  <2>3. CASE LoginAuthenticate(c) \/ LoginAnnounceFailure(c) \/ DropAnnounce(c)
    <3>1. ref[c] \in Pools
      BY <2>3 DEF LoginAuthenticate, LoginAnnounceFailure, DropAnnounce, RefsOK, Referring,
                  Owning, Making, Announcing
    <3>2. CASE UNCHANGED pool
      BY <2>1, <3>2 DEF Kept
    <3>3. CASE \/ pool' = [pool EXCEPT ![ref[c]].live = TRUE]
               \/ pool' = [pool EXCEPT ![ref[c]].dead = TRUE]
      BY <2>1, <3>1, <3>3, SetLive, SetDead DEF SameBut, Kept
    <3> QED
      BY <2>3, <3>2, <3>3 DEF LoginAuthenticate, LoginAnnounceFailure, DropAnnounce
  <2>4. CASE LoginJoin(c) \/ DropDecRefs(c)
    <3>1. ref[c] \in Pools
      BY <2>4 DEF LoginJoin, DropDecRefs, RefsOK, Referring
    <3>2. CASE UNCHANGED pool
      BY <2>1, <3>2 DEF Kept
    <3>3. CASE \E n : pool' = [pool EXCEPT ![ref[c]].refs = n]
      <4>1. PICK n : pool' = [pool EXCEPT ![ref[c]].refs = n]
        BY <3>3
      <4> QED
        BY <2>1, <3>1, <4>1 DEF TypeOK, PoolRec, Kept
    <3> QED
      BY <2>4, <3>2, <3>3 DEF LoginJoin, DropDecRefs
  <2> QED
    BY <2>2, <2>3, <2>4
<1> QED
    BY <1>1, <1>2, <1>3, <1>4

-----------------------------------------------------------------------------
(***************************************************************************)
(* The count of the semaphore                                              *)
(***************************************************************************)

LEMMA UseFinite ==
    ASSUME NEW p
    PROVE  /\ IsFiniteSet(InUse(p)) /\ Cardinality(InUse(p)) \in Nat
           /\ InUse(p) # {} <=> Cardinality(InUse(p)) > 0
<1>1. InUse(p) \subseteq Ops
    BY DEF InUse
<1>2. IsFiniteSet(InUse(p)) /\ Cardinality(InUse(p)) \in Nat
    BY <1>1, ClientsAssumption, FS_Subset, FS_CardinalityType
<1> QED
    BY <1>2, FS_EmptySet

LEMMA SemTyped ==
    ASSUME TypeOK, NEW p \in Pools
    PROVE  /\ sema[p] \in SemaRec /\ sema[p].cur \in Nat
           /\ sema[p].waiting \in BOOLEAN /\ sema[p].surplus \in BOOLEAN
           /\ sema[p].gaveUp \in {"nobody", "kms", "call"} /\ pool[p].closed \in BOOLEAN
BY DEF TypeOK, SemaRec, PoolRec

LEMMA ReleasedFields ==
    ASSUME NEW s \in SemaRec, s.cur > 0
    PROVE  /\ Released(s).surplus = s.surplus /\ Released(s).gaveUp = s.gaveUp
           /\ s.waiting /\ s.cur = 1 => ~Released(s).waiting /\ Released(s).cur = 1
           /\ ~(s.waiting /\ s.cur = 1) => /\ Released(s).waiting = s.waiting
                                          /\ Released(s).cur = s.cur - 1
<1>1. CASE s.waiting /\ s.cur = 1
  <2>1. PICK r : r = [s EXCEPT !.waiting = FALSE]
    OBVIOUS
  <2>2. r.surplus = s.surplus /\ r.gaveUp = s.gaveUp /\ r.cur = s.cur /\ ~r.waiting
    BY <2>1 DEF SemaRec
  <2> QED
    BY <1>1, <2>1, <2>2 DEF Released
<1>2. CASE ~(s.waiting /\ s.cur = 1)
  <2>1. PICK r : r = [s EXCEPT !.cur = s.cur - 1]
    OBVIOUS
  <2>2. /\ r.surplus = s.surplus /\ r.gaveUp = s.gaveUp /\ r.waiting = s.waiting
        /\ r.cur = s.cur - 1
    BY <2>1 DEF SemaRec
  <2> QED
    BY <1>2, <2>1, <2>2 DEF Released
<1> QED
    BY <1>1, <1>2

LEMMA ClosedFields ==
    ASSUME NEW s \in SemaRec, ~s.waiting
    PROVE  /\ Closed(s).surplus = s.surplus /\ Closed(s).gaveUp = s.gaveUp
           /\ s.cur = 0 => ~Closed(s).waiting /\ Closed(s).cur = 1
           /\ s.cur # 0 => Closed(s).waiting /\ Closed(s).cur = s.cur
BY DEF Closed, SemaRec

LEMMA NewSemaFields ==
    /\ NewSema.cur = 0 /\ ~NewSema.waiting /\ ~NewSema.surplus
    /\ NewSema.gaveUp = "nobody"
BY DEF NewSema

LEMMA SemInvClient ==
    ASSUME IInv, SemInv, NEW c \in Clients, ClientStep(c)
    PROVE  SemInv'
<1>f. OthersStay(c) /\ \A q : InUse(q)' = InUse(q)
    BY OthersStaySteps, UseStays DEF IInv
<1>1. ASSUME NEW p \in Pools PROVE SemOK(p)'
  <2>t. /\ sema[p] \in SemaRec /\ sema[p].cur \in Nat
        /\ SemOK(p) /\ Cardinality(InUse(p)) \in Nat /\ IsFiniteSet(InUse(p))
        /\ InUse(p) # {} <=> Cardinality(InUse(p)) > 0
    BY SemTyped, UseFinite DEF IInv, SemInv
  <2>1. CASE Kept(p)
    BY <1>f, <2>1, <2>t DEF Kept, SemOK, Counted
  <2>2. CASE Renewed(p)
    <3>1. InUse(p) = {}
      BY <2>2 DEF Renewed, Unreferenced, InUse
    <3> QED
      BY <1>f, <2>2, <2>t, <3>1, NewSemaFields DEF Renewed, SemOK, Counted
  <2>3. CASE ClosedBy(c, p)
    <3>1. ~pool[p].closed
      BY <2>3 DEF ClosedBy, IInv, StateOK
    <3>2. ~sema[p].waiting /\ sema[p].gaveUp = "nobody"
      BY <2>t, <3>1 DEF SemOK
    <3>3. ~sema[p].surplus => sema[p].cur = Cardinality(InUse(p))
      BY <2>t, <3>1 DEF SemOK, Counted
    <3> QED
      BY <1>f, <2>3, <2>t, <3>2, <3>3, ClosedFields DEF ClosedBy, SemOK, Counted
  <2>4. CASE GivenUpBy(c, p)
    <3>1. pool[p].closed /\ sema[p].gaveUp = "nobody"
      BY <2>4 DEF GivenUpBy, IInv, StateOK, SemInv
    <3>2. /\ ~sema'[p].waiting /\ sema'[p].surplus = sema[p].surplus /\ sema'[p].gaveUp # "nobody"
          /\ sema[p].waiting => sema'[p].cur = sema[p].cur
          /\ ~sema[p].waiting /\ sema[p].cur # 0 => sema'[p].cur = sema[p].cur - 1
      BY <2>4, <2>t, GaveUpFields DEF GivenUpBy
    <3> QED
      BY <1>f, <2>4, <2>t, <3>1, <3>2 DEF GivenUpBy, SemOK, Counted
  <2> QED
    BY <2>1, <2>2, <2>3, <2>4, PoolFrame
<1>2. ASSUME NEW d \in Clients, pc'[d] = "drain" PROVE sema'[ref'[d]].gaveUp = "nobody"
  <2>1. CASE d = c
    <3>1. DropClose(c)
      BY <1>2, <2>1 DEF ClientStep, LoginStep, DropStep, IInv, TypeOK, Goto, KmsOpen, GetToken,
           WrapperWith, LoginLookup, LoginAwait, LoginJoin, LoginAwaitDead, LoginOpenSession,
           LoginAuthenticate, LoginRollback, LoginAnnounceFailure, OpenFailed, LoginTimeout,
           DropDecRefs, DropReturns, DropDrain, DropTimeout, DropLogout, DropCloseAllSessions,
           DropUncache, DropAnnounce, KmsDropModule
    <3>2. pc[c] = "close" /\ ref[c] \in Pools /\ ref' = ref /\ ~pool[ref[c]].closed
      BY <3>1 DEF DropClose, IInv, RefsOK, StateOK, Referring, Owning, Ending
    <3>3. sema[ref[c]].gaveUp = "nobody" /\ ~sema[ref[c]].waiting /\ sema[ref[c]] \in SemaRec
      BY <3>2, SemTyped DEF SemInv, SemOK, IInv
    <3>4. sema' = [sema EXCEPT ![ref[c]] = Closed(@)] \/ UNCHANGED sema
      BY <3>1 DEF DropClose
    <3> QED
      BY <2>1, <3>2, <3>3, <3>4, ClosedFields DEF IInv, TypeOK
  <2>2. CASE d # c
    <3>1. /\ pc[d] = "drain" /\ ref'[d] = ref[d] /\ ref[d] \in Pools
          /\ sema[ref[d]].gaveUp = "nobody" /\ sema[ref[d]] \in SemaRec
      BY <1>2, <1>f, <2>2, SemTyped DEF OthersStay, SemInv, IInv, RefsOK, Referring, Owning, Ending
    <3>2. ~(ref[c] = ref[d] /\ pc[c] \in {"close", "drain"})
      BY <2>2, <3>1 DEF IInv, OwnerOK, RefsOK, Referring, Owning, Ending
    <3>3. ~Unreferenced(ref[d])
      BY DEF Unreferenced
    <3> QED
      BY <3>1, <3>2, <3>3, PoolFrame DEF Kept, Renewed, ClosedBy, GivenUpBy
  <2> QED
    BY <2>1, <2>2
<1> QED
    BY <1>1, <1>2 DEF SemInv

(* What a step of an operation leaves alone: clients, pools and logins,    *)
(* other operations unless it hands its token to one, other semaphores.    *)
OpFrame(o) ==
    /\ UNCHANGED <<pc, ref, dropErr, cache, pool, loggedIn>>
    /\ \A u \in Ops : u # o =>
         /\ opRef'[u] = opRef[u]
         /\ \/ opPc'[u] = opPc[u]
            \/ /\ OpRelease(o) /\ opPc[u] = "queued" /\ opRef[u] = opRef[o]
               /\ opPc'[u] \in {"opening", "putting"}
    /\ \A q \in Pools : q # opRef[o] => sema'[q] = sema[q]

LEMMA OpFrames ==
    ASSUME TypeOK, NEW o \in Ops, OpAction(o)
    PROVE  OpFrame(o)
<1>1. UNCHANGED <<pc, ref, dropErr, cache, pool, loggedIn>>
    BY DEF OpAction, OpStart, OpStep, OpCancel, OpAcquire, OpTold, OpOpenSession,
           OpCloseSession, OpRelease, poolVars, tokenVars
<1>2. \A q \in Pools : q # opRef[o] => sema'[q] = sema[q]
    BY DEF OpAction, OpStart, OpStep, OpCancel, OpAcquire, OpTold, OpOpenSession,
           OpCloseSession, OpRelease, OpHandOver, TypeOK
<1>3. CASE ~OpRelease(o)
  <2>1. \A u \in Ops : u # o => opRef'[u] = opRef[u] /\ opPc'[u] = opPc[u]
    BY <1>3 DEF OpAction, OpStart, OpStep, OpCancel, OpAcquire, OpTold, OpOpenSession,
           OpCloseSession, OpEnd, OpGoto, TypeOK
  <2> QED
    BY <1>1, <1>2, <2>1 DEF OpFrame
<1>4. CASE OpRelease(o)
  <2>1. CASE OpGoto(o, "panicked") \/ OpEnd(o)
    <3>1. \A u \in Ops : u # o => opRef'[u] = opRef[u] /\ opPc'[u] = opPc[u]
      BY <2>1 DEF OpEnd, OpGoto, TypeOK
    <3> QED
      BY <1>1, <1>2, <3>1 DEF OpFrame
  <2>2. ASSUME NEW q \in Queued(opRef[o]), OpHandOver(o, q) PROVE OpFrame(o)
    <3>1. q \in Ops /\ opPc[q] = "queued" /\ opRef[q] = opRef[o]
      BY <2>2 DEF Queued
    <3>2. PICK l \in {"opening", "putting"} : opPc' = [opPc EXCEPT ![o] = "idle", ![q] = l]
      BY <2>2 DEF OpHandOver
    <3>3. \A u \in Ops : u # o => /\ opRef'[u] = opRef[u]
                                  /\ opPc'[u] = opPc[u] \/ (u = q /\ opPc'[u] = l)
      BY <2>2, <3>1, <3>2 DEF OpHandOver, TypeOK
    <3> QED
      BY <1>1, <1>2, <1>4, <3>1, <3>3 DEF OpFrame
  <2> QED
    BY <1>4, <2>1, <2>2 DEF OpRelease
<1> QED
    BY <1>3, <1>4

(* The uses of the pools an operation has nothing to do with.              *)
LEMMA OtherUses ==
    ASSUME IInv, NEW o \in Ops, OpAction(o), NEW q \in Pools, q # opRef[o]
    PROVE  InUse(q)' = InUse(q)
<1>1. OpFrame(o)
    BY OpFrames DEF IInv
<1>2. ~(opRef[o]' = q /\ opPc'[o] \in Active)
    BY DEF OpAction, OpStart, OpStep, OpCancel, OpAcquire, OpTold, OpOpenSession,
           OpCloseSession, OpRelease, OpHandOver, Queued, OpEnd, OpGoto, IInv, TypeOK, Active
<1>3. \A u \in Ops : u \in InUse(q)' <=> u \in InUse(q)
    BY <1>1, <1>2 DEF OpFrame, InUse, Active
<1> QED
    BY <1>3 DEF InUse

(* The steps that neither take a token nor give one back.                  *)
LEMMA SameUses ==
    ASSUME IInv, NEW o \in Ops, OpAction(o), ~OpRelease(o),
           ~(OpAcquire(o) /\ opPc'[o] = "opening"), NEW p
    PROVE  InUse(p)' = InUse(p)
<1>1. OpFrame(o)
    BY OpFrames DEF IInv
<1>2. opPc[o] \in Active <=> opPc'[o] \in Active
    BY DEF OpAction, OpStart, OpStep, OpCancel, OpAcquire, OpTold, OpOpenSession,
           OpCloseSession, OpEnd, OpGoto, IInv, TypeOK, Active
<1>3. opPc[o] \in Active => opRef'[o] = opRef[o]
    BY DEF OpAction, OpStart, OpStep, OpCancel, OpAcquire, OpTold, OpOpenSession,
           OpCloseSession, Active
<1>4. \A u \in Ops : u \in InUse(p)' <=> u \in InUse(p)
    BY <1>1, <1>2, <1>3 DEF OpFrame, InUse, Active
<1> QED
    BY <1>4 DEF InUse

(* Operations do not time out for others, and a surplus stays.             *)
LEMMA GaveUpSame ==
    ASSUME IInv, NEW o \in Ops, OpAction(o), NEW p \in Pools
    PROVE  /\ sema'[p].gaveUp = sema[p].gaveUp
           /\ sema[p].surplus => sema'[p].surplus
<1>1. CASE UNCHANGED sema
    BY <1>1
<1>2. CASE opRef[o] \in Pools /\ sema' = [sema EXCEPT ![opRef[o]].cur = @ + 1]
    BY <1>2 DEF IInv, TypeOK, SemaRec
<1>3. CASE /\ opRef[o] \in Pools /\ sema[opRef[o]].cur > 0
           /\ \/ sema' = [sema EXCEPT ![opRef[o]] = Released(@)]
              \/ sema' = [sema EXCEPT ![opRef[o]] = [Released(@) EXCEPT !.surplus = TRUE]]
  <2>1. PICK s \in SemaRec : s = sema[opRef[o]]
    BY <1>3, SemTyped DEF IInv
  <2>2. PICK r \in SemaRec : r = Released(s)
    BY <1>3, <2>1, ReleasedType
  <2>3. r.gaveUp = s.gaveUp /\ r.surplus = s.surplus
    BY <1>3, <2>1, <2>2, ReleasedFields
  <2>4. /\ [r EXCEPT !.surplus = TRUE].gaveUp = r.gaveUp
        /\ [r EXCEPT !.surplus = TRUE].surplus
    BY DEF SemaRec
  <2>5. \/ sema' = [sema EXCEPT ![opRef[o]] = r]
        \/ sema' = [sema EXCEPT ![opRef[o]] = [r EXCEPT !.surplus = TRUE]]
    BY <1>3, <2>1, <2>2
  <2> QED
    BY <1>3, <2>1, <2>3, <2>4, <2>5 DEF IInv, TypeOK
<1>4. opPc[o] # "idle" => opRef[o] \in Pools
    BY DEF IInv, OpsOK
<1> QED
    BY <1>1, <1>2, <1>3, <1>4 DEF OpAction, OpStart, OpStep, OpCancel, OpAcquire, OpTold,
           OpOpenSession, OpCloseSession, OpRelease, OpHandOver, IInv, TypeOK

(* A token taken before the close, and one that comes back.                *)
LEMMA AcquireCounts ==
    ASSUME IInv, NEW p \in Pools, SemOK(p), NEW o \in Ops, p = opRef[o],
           OpAcquire(o), opPc'[o] = "opening"
    PROVE  SemOK(p)'
<1>1. /\ opPc[o] = "get" /\ ~pool[p].closed /\ OpGoto(o, "opening")
      /\ sema' = [sema EXCEPT ![p].cur = @ + 1] /\ UNCHANGED pool
    BY DEF OpAcquire, OpEnd, OpGoto, IInv, TypeOK, poolVars
<1>t. /\ sema[p] \in SemaRec /\ sema[p].cur \in Nat /\ ~sema[p].waiting
      /\ sema[p].gaveUp = "nobody"
    BY <1>1, SemTyped DEF IInv, SemOK
<1>2. InUse(p)' = InUse(p) \cup {o} /\ o \notin InUse(p)
    BY <1>1 DEF OpGoto, InUse, IInv, TypeOK
<1>3. Cardinality(InUse(p))' = Cardinality(InUse(p)) + 1 /\ Cardinality(InUse(p)) \in Nat
    BY <1>2, UseFinite, FS_AddElement
<1>4. /\ sema'[p].cur = sema[p].cur + 1 /\ sema'[p].waiting = sema[p].waiting
      /\ sema'[p].surplus = sema[p].surplus /\ sema'[p].gaveUp = sema[p].gaveUp
    BY <1>1, <1>t DEF IInv, TypeOK, SemaRec
<1> QED
    BY <1>1, <1>t, <1>3, <1>4 DEF SemOK, Counted

LEMMA ReleaseCounts ==
    ASSUME IInv, NEW p \in Pools, SemOK(p), NEW o \in Ops, p = opRef[o], OpRelease(o)
    PROVE  SemOK(p)'
<1>u. opPc[o] = "putting" /\ o \in InUse(p) /\ UNCHANGED pool
    BY DEF OpRelease, InUse, poolVars
<1>t. /\ sema[p] \in SemaRec /\ sema[p].cur \in Nat /\ IsFiniteSet(InUse(p))
      /\ Cardinality(InUse(p)) \in Nat /\ Cardinality(InUse(p)) > 0
    BY <1>u, SemTyped, UseFinite DEF IInv
<1>c. /\ ~sema[p].surplus => sema[p].cur = Cardinality(InUse(p))
      /\ ~(pool[p].closed /\ sema[p].gaveUp = "nobody" /\ ~sema[p].waiting) \/ sema[p].surplus
    BY <1>u, <1>t DEF SemOK, Counted
<1>1. CASE sema[p].cur = 0 /\ UNCHANGED sema
    BY <1>u, <1>t, <1>c, <1>1 DEF SemOK, Counted
<1>2. ASSUME NEW q \in Queued(p), OpHandOver(o, q) PROVE SemOK(p)'
  <2>1. q \in Ops /\ q # o /\ opPc[q] = "queued" /\ opRef[q] = p /\ q \notin InUse(p)
    BY <1>u, <1>2 DEF Queued, InUse
  <2>2. PICK l \in {"opening", "putting"} : opPc' = [opPc EXCEPT ![o] = "idle", ![q] = l]
    BY <1>2 DEF OpHandOver
  <2>3. InUse(p)' = (InUse(p) \ {o}) \cup {q}
    BY <1>2, <2>1, <2>2 DEF OpHandOver, InUse, IInv, TypeOK
  <2>4. /\ IsFiniteSet(InUse(p) \ {o})
        /\ Cardinality(InUse(p) \ {o}) = Cardinality(InUse(p)) - 1
    BY <1>u, <1>t, FS_RemoveElement
  <2>5. Cardinality((InUse(p) \ {o}) \cup {q}) = Cardinality(InUse(p) \ {o}) + 1
    BY <2>1, <2>4, FS_AddElement
  <2>6. Cardinality(InUse(p))' = Cardinality(InUse(p))
    BY <1>t, <2>3, <2>4, <2>5
  <2>7. UNCHANGED sema
    BY <1>2 DEF OpHandOver
  <2> QED
    BY <1>u, <1>t, <1>c, <2>6, <2>7 DEF SemOK, Counted
<1>3. CASE sema[p].cur > 0 /\ OpEnd(o) /\ sema' = [sema EXCEPT ![p] = Released(@)]
  <2>1. InUse(p)' = InUse(p) \ {o}
    BY <1>u, <1>3 DEF OpEnd, InUse, IInv, TypeOK
  <2>2. /\ IsFiniteSet(InUse(p) \ {o})
        /\ Cardinality(InUse(p) \ {o}) = Cardinality(InUse(p)) - 1
    BY <1>u, <1>t, FS_RemoveElement
  <2>3. sema'[p] = Released(sema[p])
    BY <1>3 DEF IInv, TypeOK
  <2>4. Cardinality(InUse(p)) = 1 => InUse(p)' = {}
    BY <1>t, <2>1, <2>2, FS_EmptySet
  <2>5. Cardinality(InUse(p))' = Cardinality(InUse(p)) - 1
    BY <2>1, <2>2
  <2> QED
    BY <1>u, <1>t, <1>c, <1>3, <2>3, <2>4, <2>5, ReleasedFields DEF SemOK, Counted
<1> QED
    BY <1>1, <1>2, <1>3 DEF OpRelease

(* The other steps only add a surplus release.                             *)
LEMMA SameCounts ==
    ASSUME IInv, NEW p \in Pools, SemOK(p), NEW o \in Ops, p = opRef[o], OpAction(o),
           ~OpRelease(o), ~(OpAcquire(o) /\ opPc'[o] = "opening")
    PROVE  SemOK(p)'
<1>1. InUse(p)' = InUse(p) /\ UNCHANGED pool
    BY SameUses, OpFrames DEF IInv, OpFrame
<1>2. CASE UNCHANGED sema
    BY <1>1, <1>2 DEF SemOK, Counted
<1>3. CASE /\ sema[p].cur > 0
           /\ sema' = [sema EXCEPT ![p] = [Released(@) EXCEPT !.surplus = TRUE]]
  <2>1. sema[p] \in SemaRec /\ Released(sema[p]) \in SemaRec
    BY <1>3, SemTyped, ReleasedType DEF IInv
  <2>2. PICK r \in SemaRec : r = Released(sema[p])
    BY <2>1
  <2>3. sema'[p] = [r EXCEPT !.surplus = TRUE]
    BY <1>3, <2>2 DEF IInv, TypeOK
  <2>4. sema'[p].surplus /\ sema'[p].waiting = r.waiting /\ sema'[p].gaveUp = r.gaveUp
    BY <2>3 DEF SemaRec
  <2>5. (r.waiting => sema[p].waiting) /\ r.gaveUp = sema[p].gaveUp
    BY <1>3, <2>1, <2>2, ReleasedFields
  <2> QED
    BY <1>1, <2>4, <2>5 DEF SemOK
<1> QED
    BY <1>2, <1>3 DEF OpAction, OpStart, OpStep, OpCancel, OpAcquire, OpTold, OpOpenSession,
                      OpCloseSession, OpGoto, OpEnd, IInv, TypeOK

LEMMA SemInvOp ==
    ASSUME IInv, SemInv, NEW o \in Ops, OpAction(o)
    PROVE  SemInv'
<1>f. OpFrame(o)
    BY OpFrames DEF IInv
<1>1. ASSUME NEW p \in Pools PROVE SemOK(p)'
  <2>1. CASE p # opRef[o]
    BY <1>f, <2>1, OtherUses DEF OpFrame, SemInv, SemOK, Counted
  <2>2. CASE p = opRef[o] /\ OpRelease(o)
    BY <2>2, ReleaseCounts DEF SemInv
  <2>3. CASE p = opRef[o] /\ OpAcquire(o) /\ opPc'[o] = "opening"
    BY <2>3, AcquireCounts DEF SemInv
  <2>4. CASE p = opRef[o] /\ ~OpRelease(o) /\ ~(OpAcquire(o) /\ opPc'[o] = "opening")
    BY <2>4, SameCounts DEF SemInv
  <2> QED
    BY <2>1, <2>2, <2>3, <2>4
<1>2. \A p \in Pools : sema'[p].gaveUp = sema[p].gaveUp
    BY GaveUpSame
<1>3. \A d \in Clients : pc[d] = "drain" => ref[d] \in Pools
    BY DEF IInv, RefsOK, Referring, Owning, Ending
<1> QED
    BY <1>f, <1>1, <1>2, <1>3 DEF SemInv, OpFrame

-----------------------------------------------------------------------------
(***************************************************************************)
(* Guards of operations                                                    *)
(***************************************************************************)

(* A holder that is not the last leaves another one behind.                *)
LEMMA AnotherHolder ==
    ASSUME IInv, NEW c \in Clients, pc[c] = "open", pool[ref[c]].refs # 1
    PROVE  \E e \in Clients : e # c /\ pc[e] = "open" /\ ref[e] = ref[c]
<1>1. c \in Holders(ref[c]) /\ pool[ref[c]].refs = Cardinality(Holders(ref[c]))
    BY DEF IInv, RefsOK, StateOK, CountOK, Holders, Referring
<1>2. Cardinality(Holders(ref[c])) # 1
    BY <1>1
<1>3. Holders(ref[c]) # {c}
    BY <1>2, FS_Singleton
<1> QED
    BY <1>1, <1>3 DEF Holders

(* A KMS whose Drop failed stays one.                                      *)
LEMMA FailedStays ==
    ASSUME IInv, NEW c \in Clients, ClientStep(c), NEW k \in Kmss, FailedDrop(k)
    PROVE  FailedDrop(k)'
<1>f. OthersStay(c) /\ k \in Clients /\ k \notin Calls
    BY OthersStaySteps, ClientsAssumption DEF IInv, Clients
<1>1. CASE k # c
    BY <1>f, <1>1 DEF OthersStay, FailedDrop
<1>2. CASE k = c
  <2>1. CASE DropLogout(c) \/ DropCloseAllSessions(c) \/ DropUncache(c)
    <3>1. /\ dropErr[c] => dropErr'[c]
          /\ pc[c] # "leaked" /\ pc'[c] \in {"closeAll", "uncache", "announce"}
      BY <2>1 DEF DropLogout, DropCloseAllSessions, DropUncache, Goto, IInv, TypeOK
    <3> QED
      BY <1>2, <3>1 DEF FailedDrop
  <2>2. CASE DropAnnounce(c)
    <3>1. pc[c] = "announce" /\ dropErr[c]
      BY <1>2, <2>2 DEF DropAnnounce, FailedDrop
    <3>2. pc'[c] = "leaked"
      BY <1>2, <1>f, <2>2, <3>1 DEF DropAnnounce, DropReturns, Goto, IInv, TypeOK
    <3> QED
      BY <1>2, <3>2 DEF FailedDrop
  <2>3. CASE ~(DropLogout(c) \/ DropCloseAllSessions(c) \/ DropUncache(c) \/ DropAnnounce(c))
    BY <1>2, <2>3 DEF FailedDrop, ClientStep, LoginStep, DropStep, KmsOpen, GetToken,
           WrapperWith, LoginLookup, LoginAwait, LoginJoin, LoginAwaitDead, LoginOpenSession,
           LoginAuthenticate, LoginRollback, LoginAnnounceFailure, OpenFailed, LoginTimeout,
           DropDecRefs, DropClose, DropDrain, DropTimeout, KmsDropModule
  <2> QED
    BY <2>1, <2>2, <2>3
<1> QED
    BY <1>1, <1>2

(* Until the drain the pool of an operation has a client that has yet to   *)
(* drain it.  The drain ends when no operation is left, or is given up.    *)
LEMMA DrainerStays ==
    ASSUME IInv, SemInv, NEW c \in Clients, ClientStep(c), NEW p \in Pools,
           ref[c] = p, pc[c] \in Draining, InUse(p) # {}, ~sema[p].surplus,
           ~(DropTimeout(c) /\ GivenUpBy(c, p))
    PROVE  \E e \in Clients : ref'[e] = p /\ pc'[e] \in Draining
<1>f. OthersStay(c)
    BY OthersStaySteps DEF IInv
<1>1. CASE DropDecRefs(c)
  <2>1. CASE pool[ref[c]].refs = 1
    <3>1. pc'[c] = "close" /\ ref' = ref
      BY <1>1, <2>1 DEF DropDecRefs, Goto, IInv, TypeOK
    <3> QED
      BY <3>1 DEF Draining
  <2>2. CASE pool[ref[c]].refs # 1
    <3>1. PICK e \in Clients : e # c /\ pc[e] = "open" /\ ref[e] = ref[c]
      BY <1>1, <2>2, AnotherHolder DEF DropDecRefs
    <3> QED
      BY <1>f, <3>1 DEF OthersStay, Draining
  <2> QED
    BY <2>1, <2>2
<1>2. CASE DropClose(c)
  <2>1. pc'[c] \in {"drain", "stuck"} /\ ref' = ref
    BY <1>2 DEF DropClose, Goto, IInv, TypeOK
  <2> QED
    BY <2>1 DEF Draining
<1>3. CASE pc[c] = "drain"
  <2>1. sema[p].gaveUp = "nobody" /\ pool[p].closed /\ SemOK(p)
    BY <1>3 DEF SemInv, IInv, StateOK
  <2>2. sema[p].waiting
    BY <2>1 DEF SemOK, Counted
  <2>3. ~DropDrain(c)
    BY <2>2 DEF DropDrain
  <2>4. CASE DropTimeout(c)
    <3>1. Goto(c, "logout") /\ dropErr' = [dropErr EXCEPT ![c] = TRUE] /\ UNCHANGED pool
          /\ sema' = [sema EXCEPT ![p] = GaveUp(@, c)]
      BY <2>2, <2>4 DEF DropTimeout, poolVars
    <3>2. GivenUpBy(c, p)
      BY <1>3, <3>1 DEF GivenUpBy, Goto, IInv, TypeOK
    <3> QED
      BY <2>4, <3>2
  <2> QED
    BY <1>3, <2>3, <2>4 DEF ClientStep, LoginStep, DropStep, KmsOpen, GetToken,
           WrapperWith, LoginLookup, LoginAwait, LoginJoin, LoginAwaitDead, LoginOpenSession,
           LoginAuthenticate, LoginRollback, LoginAnnounceFailure, OpenFailed, LoginTimeout,
           DropDecRefs, DropClose, DropLogout, DropCloseAllSessions, DropUncache,
           DropAnnounce, KmsDropModule
<1>4. CASE ~DropDecRefs(c) /\ ~DropClose(c) /\ pc[c] # "drain"
    BY <1>4 DEF Draining, ClientStep, LoginStep, DropStep, KmsOpen, GetToken,
           WrapperWith, LoginLookup, LoginAwait, LoginJoin, LoginAwaitDead, LoginOpenSession,
           LoginAuthenticate, LoginRollback, LoginAnnounceFailure, OpenFailed, LoginTimeout,
           DropDrain, DropTimeout, DropLogout, DropCloseAllSessions, DropUncache,
           DropAnnounce, KmsDropModule
<1> QED
    BY <1>1, <1>2, <1>3, <1>4

(* What becomes of the faults of a pool that operations use.               *)
LEMMA FaultsStay ==
    ASSUME IInv, SemInv, NEW c \in Clients, ClientStep(c), NEW p \in Pools, ~Unreferenced(p)
    PROVE  /\ sema'[p].surplus = sema[p].surplus /\ pool'[p].slot = pool[p].slot
           /\ \/ sema'[p].gaveUp = sema[p].gaveUp
              \/ /\ GivenUpBy(c, p)
                 /\ sema'[p].gaveUp = IF c \in Calls THEN "call" ELSE "kms"
<1>1. sema[p] \in SemaRec
    BY SemTyped DEF IInv
<1>2. CASE Kept(p)
    BY <1>2 DEF Kept
<1>3. CASE ClosedBy(c, p)
  <2>1. ~sema[p].waiting
    BY <1>3 DEF ClosedBy, IInv, StateOK, SemInv, SemOK
  <2> QED
    BY <1>1, <1>3, <2>1, ClosedFields DEF ClosedBy
<1>4. CASE GivenUpBy(c, p)
    BY <1>1, <1>4, GaveUpFields DEF GivenUpBy
<1> QED
    BY <1>2, <1>3, <1>4, PoolFrame DEF Renewed

LEMMA UInvClient ==
    ASSUME IInv, SemInv, UInv, NEW c \in Clients, ClientStep(c)
    PROVE  UInv'
<1>1. SUFFICES ASSUME NEW p \in Pools, InUse(p)' # {}, ~sema'[p].surplus
               PROVE  Guarded(p)'
    BY DEF UInv
<1>f. OthersStay(c) /\ InUse(p)' = InUse(p)
    BY OthersStaySteps, UseStays DEF IInv
<1>2. InUse(p) # {} /\ ~Unreferenced(p)
    BY <1>1, <1>f DEF InUse, Unreferenced
<1>3. ~sema[p].surplus /\ Guarded(p)
    BY <1>1, <1>2, FaultsStay DEF UInv
<1>4. CASE GivenUpBy(c, p) /\ sema'[p].gaveUp = IF c \in Calls THEN "call" ELSE "kms"
  <2>1. c \in Kmss => FailedDrop(c)'
    BY <1>4 DEF GivenUpBy, FailedDrop
  <2> QED
    BY <1>4, <2>1 DEF Guarded, Clients
<1>5. CASE sema'[p].gaveUp = sema[p].gaveUp
  <2>1. CASE \E d \in Clients : ref[d] = p /\ pc[d] \in Draining
    <3>1. PICK d \in Clients : ref[d] = p /\ pc[d] \in Draining
      BY <2>1
    <3>2. CASE d # c
      BY <1>f, <3>1, <3>2 DEF OthersStay, Guarded
    <3>3. CASE d = c
      <4>1. ~GivenUpBy(c, p)
        BY <1>5, <3>1, <3>3, SemTyped, GaveUpFields DEF GivenUpBy, IInv, SemInv
      <4> QED
        BY <1>2, <1>3, <3>1, <3>3, <4>1, DrainerStays DEF Guarded
    <3> QED
      BY <3>2, <3>3
  <2>2. CASE sema[p].gaveUp = "kms" /\ \E k \in Kmss : FailedDrop(k)
    BY <1>5, <2>2, FailedStays DEF Guarded
  <2>3. CASE sema[p].gaveUp = "call"
    BY <1>5, <2>3 DEF Guarded
  <2> QED
    BY <1>3, <2>1, <2>2, <2>3 DEF Guarded
<1> QED
    BY <1>2, <1>4, <1>5, FaultsStay

(* The semaphore hands out a token only before it is closed, when somebody *)
(* has yet to drain it, and passes one on within its pool.                 *)
LEMMA UInvOp ==
    ASSUME IInv, UInv, NEW o \in Ops, OpAction(o)
    PROVE  UInv'
<1>1. SUFFICES ASSUME NEW p \in Pools, InUse(p)' # {}, ~sema'[p].surplus
               PROVE  Guarded(p)'
    BY DEF UInv
<1>f. OpFrame(o)
    BY OpFrames DEF IInv
<1>2. ~sema[p].surplus /\ sema'[p].gaveUp = sema[p].gaveUp
    BY <1>1, GaveUpSame
<1>3. Guarded(p) => Guarded(p)'
    BY <1>f, <1>2 DEF OpFrame, Guarded, FailedDrop
<1>4. CASE InUse(p) # {}
    BY <1>2, <1>3, <1>4 DEF UInv
<1>5. CASE InUse(p) = {}
  <2>1. p = opRef[o]
    BY <1>1, <1>5, OtherUses
  <2>2. ~OpRelease(o)
    BY <1>5, <2>1 DEF OpRelease, InUse
  <2>3. OpAcquire(o) /\ opPc'[o] = "opening"
    BY <1>1, <1>5, <2>2, SameUses
  <2>4. opPc[o] = "get" /\ ~pool[p].closed /\ pool[p].live
    BY <2>1, <2>3 DEF OpAcquire, OpEnd, IInv, TypeOK, OpsOK
  <2>5. PICK d \in Clients : ref[d] = p /\ pc[d] \in {"open", "close", "stuck"}
    BY <2>4 DEF IInv, LiveOK
  <2> QED
    BY <1>3, <2>5 DEF Guarded, Draining
<1> QED
    BY <1>4, <1>5

-----------------------------------------------------------------------------
(***************************************************************************)
(* Sessions and logins at the token                                        *)
(***************************************************************************)

(* Only a failed login and the end of a pool close other sessions than an  *)
(* operation's own: the pool of a login is not live, and the one of a slot *)
(* that is being closed has no operation left.                             *)
LEMMA KInvClient ==
    ASSUME IInv, SemInv, UInv, KInv, NEW c \in Clients, ClientStep(c)
    PROVE  KInv'
<1>1. SUFFICES ASSUME NEW o \in Ops, opPc'[o] = "using", ~Loose(opRef[o])'
               PROVE  <<opRef[o], o>>' \in sessions'
    BY DEF KInv
<1>2. opPc[o] = "using" /\ opRef'[o] = opRef[o] /\ opRef' = opRef
    BY <1>1, OthersStaySteps DEF IInv, OpsStay
<1>3. PICK p \in Pools : p = opRef[o] /\ pool[p].live
    BY <1>2 DEF IInv, OpsOK
<1>4. ~Unreferenced(p) /\ o \in InUse(p)
    BY <1>2, <1>3 DEF Unreferenced, InUse
<1>5. ~Loose(p)
  <2>1. ~sema'[p].surplus /\ sema'[p].gaveUp = "nobody"
    BY <1>1, <1>2, <1>3 DEF Loose
  <2> QED
    BY <1>4, <2>1, FaultsStay DEF Loose
<1>6. <<p, o>> \in sessions
    BY <1>2, <1>3, <1>5 DEF KInv
<1>7. CASE LoginAuthenticate(c)
  <2>1. pc[c] = "authenticate" /\ ref[c] \in Pools /\ pool[ref[c]].slot \in Slots
        /\ SlotOf[c] \in Slots /\ ~pool[ref[c]].live
    BY <1>7, TokensAssumption DEF LoginAuthenticate, IInv, StateOK, RefsOK, TypeOK, PoolRec,
           Referring, Owning, Making
  <2>2. <<ref[c], c>> # <<p, o>>
    BY <1>3, <2>1
  <2>3. CASE CloseSession(SlotOf[c], <<ref[c], c>>)
    BY <1>2, <1>3, <1>6, <2>1, <2>2, <2>3, SessionGone DEF IInv
  <2> QED
    BY <1>2, <1>3, <1>6, <1>7, <2>3 DEF LoginAuthenticate
<1>8. CASE DropCloseAllSessions(c)
  <2>1. PICK d \in Clients : ref[d] = p /\ pc[d] \in Draining
    BY <1>4, <1>5 DEF UInv, Guarded, Loose
  <2>2. pool[p].slot = SlotOf[d]
    BY <2>1 DEF IInv, RefsOK, Referring, Owning, Ending, Draining
  <2>3. SlotOf[d] # SlotOf[c]
    BY <1>8, <2>1 DEF DropCloseAllSessions, IInv, OwnerOK, Owning, Ending, Draining
  <2> QED
    BY <1>2, <1>3, <1>6, <1>8, <2>2, <2>3 DEF DropCloseAllSessions
<1>9. CASE ~LoginAuthenticate(c) /\ ~DropCloseAllSessions(c)
  <2>1. sessions \subseteq sessions'
    BY <1>9 DEF ClientStep, LoginStep, DropStep, tokenVars, KmsOpen, GetToken, WrapperWith,
           LoginLookup, LoginAwait, LoginJoin, LoginAwaitDead, LoginOpenSession,
           LoginRollback, LoginAnnounceFailure, OpenFailed, LoginTimeout,
           DropDecRefs, DropClose, DropDrain, DropTimeout, DropLogout, DropUncache,
           DropAnnounce, KmsDropModule
  <2> QED
    BY <1>2, <1>3, <1>6, <2>1
<1> QED
    BY <1>7, <1>8, <1>9

(* Sessions come and go one at a time with the steps of operations.        *)
LEMMA OpSessions ==
    ASSUME IInv, NEW o \in Ops, OpAction(o)
    PROVE  /\ unclean \subseteq unclean'
           /\ \A x \in sessions : x # <<opRef[o], o>> => x \in sessions'
           /\ \A x \in sessions' : x \notin sessions =>
                 OpOpenSession(o) /\ x = <<opRef[o], o>> /\ opPc'[o] = "using"
           /\ OpCloseSession(o) \/ sessions \subseteq sessions'
           /\ OpCloseSession(o) => \/ <<opRef[o], o>> \notin sessions'
                                   \/ pool[opRef[o]].slot \in unclean'
<1>1. CASE OpCloseSession(o)
  <2>1. opRef[o] \in Pools /\ pool[opRef[o]].slot \in Slots
    BY <1>1 DEF OpCloseSession, IInv, OpsOK, TypeOK, PoolRec
  <2> QED
    BY <1>1, <2>1, SessionGone DEF OpCloseSession, IInv
<1>2. CASE OpOpenSession(o)
    BY <1>2 DEF OpOpenSession, OpCloseSession, IInv, TypeOK
<1>3. CASE ~OpCloseSession(o) /\ ~OpOpenSession(o)
  <2>1. UNCHANGED <<sessions, unclean>>
    BY <1>3 DEF OpAction, OpStart, OpStep, OpCancel, OpAcquire, OpTold, OpRelease, tokenVars
  <2> QED
    BY <1>3, <2>1
<1> QED
    BY <1>1, <1>2, <1>3

LEMMA KInvOp ==
    ASSUME IInv, KInv, NEW o \in Ops, OpAction(o)
    PROVE  KInv'
<1>1. SUFFICES ASSUME NEW u \in Ops, opPc'[u] = "using", ~Loose(opRef[u])'
               PROVE  <<opRef[u], u>>' \in sessions'
    BY DEF KInv
<1>f. OpFrame(o)
    BY OpFrames DEF IInv
<1>2. CASE u = o
  <2>1. OpOpenSession(o)
    BY <1>1, <1>2 DEF OpAction, OpStart, OpStep, OpCancel, OpAcquire, OpTold, OpCloseSession,
           OpRelease, OpHandOver, Queued, OpEnd, OpGoto, IInv, TypeOK
  <2> QED
    BY <1>1, <1>2, <2>1 DEF OpOpenSession, IInv, TypeOK
<1>3. CASE u # o
  <2>1. opRef'[u] = opRef[u] /\ opPc[u] = "using"
    BY <1>1, <1>3, <1>f DEF OpFrame
  <2>2. PICK p \in Pools : p = opRef[u]
    BY <2>1 DEF IInv, OpsOK
  <2>3. ~Loose(p)
    BY <1>1, <2>1, <2>2, GaveUpSame DEF Loose
  <2>4. <<opRef[u], u>> \in sessions
    BY <2>1, <2>2, <2>3 DEF KInv
  <2>5. <<opRef[u], u>> # <<opRef[o], o>>
    BY <1>3
  <2> QED
    BY <2>1, <2>4, <2>5, OpSessions
<1> QED
    BY <1>2, <1>3

(* A client on its way to cleaning up the token stays there until it has,  *)
(* or leaves that to another holder of its pool.                           *)
LEMMA TokenKept ==
    ASSUME IInv, NEW c \in Clients, ClientStep(c), pc[c] \in AtToken, ~DropCloseAllSessions(c)
    PROVE  \E e \in Clients : /\ SlotOf[e] = SlotOf[c] /\ pc'[e] \in AtToken
                              /\ ref'[e] = ref[c]
<1>f. OthersStay(c)
    BY OthersStaySteps DEF IInv
<1>1. CASE DropDecRefs(c)
  <2>1. CASE pool[ref[c]].refs = 1
    <3>1. pc'[c] = "close" /\ ref' = ref
      BY <1>1, <2>1 DEF DropDecRefs, Goto, IInv, TypeOK
    <3> QED
      BY <3>1 DEF AtToken, Draining
  <2>2. CASE pool[ref[c]].refs # 1
    <3>1. PICK e \in Clients : e # c /\ pc[e] = "open" /\ ref[e] = ref[c]
      BY <1>1, <2>2, AnotherHolder DEF DropDecRefs
    <3>2. SlotOf[e] = SlotOf[c]
      BY <1>1, <3>1 DEF DropDecRefs, IInv, RefsOK, Referring
    <3> QED
      BY <1>f, <3>1, <3>2 DEF OthersStay, AtToken, Draining
  <2> QED
    BY <2>1, <2>2
<1>2. CASE DropClose(c) \/ DropDrain(c) \/ DropTimeout(c) \/ DropLogout(c)
  <2>1. pc'[c] \in {"drain", "stuck", "logout", "panicked", "closeAll"} /\ ref' = ref
    BY <1>2 DEF DropClose, DropDrain, DropTimeout, DropLogout, Goto, IInv, TypeOK
  <2> QED
    BY <2>1 DEF AtToken, Draining
<1>3. CASE ~(DropDecRefs(c) \/ DropClose(c) \/ DropDrain(c) \/ DropTimeout(c) \/ DropLogout(c))
    BY <1>3 DEF AtToken, Draining, ClientStep, LoginStep, DropStep, KmsOpen, GetToken,
           WrapperWith, LoginLookup, LoginAwait, LoginJoin, LoginAwaitDead, LoginOpenSession,
           LoginAuthenticate, LoginRollback, LoginAnnounceFailure, OpenFailed, LoginTimeout,
           DropUncache, DropAnnounce, KmsDropModule
<1> QED
    BY <1>1, <1>2, <1>3

(* What a client has at the token is its own to remove, or is left to      *)
(* another holder of the pool.                                             *)
LEMMA LoginsClient ==
    ASSUME IInv, LoginsOwned, NEW c \in Clients, ClientStep(c)
    PROVE  LoginsOwned'
<1>1. SUFFICES ASSUME NEW s \in loggedIn', s \notin unclean'
               PROVE  \E e \in Clients : SlotOf[e] = s /\ pc'[e] \in AtToken
    BY DEF LoginsOwned
<1>f. OthersStay(c)
    BY OthersStaySteps DEF IInv
<1>2. CASE DropCloseAllSessions(c)
  <2>1. s # SlotOf[c] /\ s \in loggedIn /\ s \notin unclean
    BY <1>1, <1>2 DEF DropCloseAllSessions
  <2>2. PICK d \in Clients : SlotOf[d] = s /\ pc[d] \in AtToken
    BY <2>1 DEF LoginsOwned
  <2> QED
    BY <1>f, <2>1, <2>2 DEF OthersStay
<1>3. CASE ~DropCloseAllSessions(c)
  <2>1. s \notin unclean
    BY <1>1, <1>3 DEF ClientStep, LoginStep, DropStep, tokenVars, KmsOpen, GetToken, WrapperWith,
           LoginLookup, LoginAwait, LoginJoin, LoginAwaitDead, LoginOpenSession, CloseSession,
           LoginAuthenticate, LoginRollback, LoginAnnounceFailure, OpenFailed, LoginTimeout,
           DropDecRefs, DropClose, DropDrain, DropTimeout, DropLogout,
           DropUncache, DropAnnounce, KmsDropModule
  <2>2. CASE s \notin loggedIn
    <3>1. LoginAuthenticate(c) /\ s = SlotOf[c]
      BY <1>1, <1>3, <2>2 DEF ClientStep, LoginStep, DropStep, tokenVars, KmsOpen, GetToken,
           WrapperWith, LoginLookup, LoginAwait, LoginJoin, LoginAwaitDead, LoginOpenSession,
           LoginAuthenticate, LoginRollback, LoginAnnounceFailure, OpenFailed, LoginTimeout,
           DropDecRefs, DropClose, DropDrain, DropTimeout, DropLogout,
           DropUncache, DropAnnounce, KmsDropModule
    <3>2. pc'[c] = "open"
      BY <1>1, <2>2, <3>1 DEF LoginAuthenticate, Goto, IInv, TypeOK
    <3> QED
      BY <3>1, <3>2 DEF AtToken, Draining
  <2>3. CASE s \in loggedIn
    <3>1. PICK d \in Clients : SlotOf[d] = s /\ pc[d] \in AtToken
      BY <2>1, <2>3 DEF LoginsOwned
    <3>2. CASE d # c
      BY <1>f, <3>1, <3>2 DEF OthersStay
    <3>3. CASE d = c
      <4>1. \E e \in Clients : SlotOf[e] = SlotOf[c] /\ pc'[e] \in AtToken
        BY <1>3, <3>1, <3>3, TokenKept
      <4> QED
        BY <3>1, <3>3, <4>1
    <3> QED
      BY <3>2, <3>3
  <2> QED
    BY <2>2, <2>3
<1> QED
    BY <1>2, <1>3

LEMMA SessionsClient ==
    ASSUME IInv, SemInv, SessionsOwned, NEW c \in Clients, ClientStep(c)
    PROVE  SessionsOwned'
<1>1. SUFFICES ASSUME NEW p \in Pools, NEW t \in Clients \cup Ops,
                      <<p, t>> \in sessions', pool'[p].slot \notin unclean'
               PROVE  (\E e \in Clients : Remains(e, p, t)') \/ LeftBehind(p, t)'
    BY DEF SessionsOwned
<1>f. OthersStay(c) /\ OpsStay
    BY OthersStaySteps DEF IInv
<1>2. CASE <<p, t>> \notin sessions
  <2>1. LoginOpenSession(c) /\ <<p, t>> = <<ref[c], c>>
    BY <1>1, <1>2 DEF ClientStep, LoginStep, DropStep, tokenVars, KmsOpen, GetToken, WrapperWith,
           LoginLookup, LoginAwait, LoginJoin, LoginAwaitDead, LoginOpenSession, CloseSession,
           LoginAuthenticate, LoginRollback, LoginAnnounceFailure, OpenFailed, LoginTimeout,
           DropDecRefs, DropClose, DropDrain, DropTimeout, DropLogout, DropCloseAllSessions,
           DropUncache, DropAnnounce, KmsDropModule
  <2>2. pc'[c] = "authenticate" /\ ref' = ref
    BY <1>1, <1>2, <2>1 DEF LoginOpenSession, Goto, IInv, TypeOK
  <2>3. p = ref[c] /\ t = c
    BY <2>1
  <2> QED
    BY <2>2, <2>3 DEF Remains
<1>3. CASE <<p, t>> \in sessions
  <2>1. ~Unreferenced(p)
    BY <1>3 DEF Unreferenced
  <2>2. /\ pool'[p].slot = pool[p].slot /\ sema'[p].surplus = sema[p].surplus
        /\ sema'[p].gaveUp = sema[p].gaveUp \/ sema'[p].gaveUp # "nobody"
    BY <2>1, FaultsStay
  <2>3. CASE DropCloseAllSessions(c)
    <3>1. pool[p].slot # SlotOf[c] /\ pool[p].slot \notin unclean /\ UNCHANGED ref
      BY <1>1, <1>3, <2>2, <2>3 DEF DropCloseAllSessions
    <3>2. CASE LeftBehind(p, t)
      BY <1>f, <2>2, <3>2 DEF LeftBehind, Loose, OpsStay
    <3>3. ASSUME NEW d \in Clients, Remains(d, p, t) PROVE Remains(d, p, t)'
      <4>1. d # c
        BY <2>3, <3>1, <3>3 DEF Remains, DropCloseAllSessions, IInv, RefsOK, Referring, Owning,
               Ending
      <4> QED
        BY <1>f, <3>3, <4>1 DEF Remains, OthersStay
    <3> QED
      BY <1>3, <3>1, <3>2, <3>3 DEF SessionsOwned
  <2>4. CASE ~DropCloseAllSessions(c)
    <3>0. unclean \subseteq unclean'
      BY <2>4 DEF ClientStep, LoginStep, DropStep, tokenVars, KmsOpen, GetToken,
           WrapperWith, LoginLookup, LoginAwait, LoginJoin, LoginAwaitDead, LoginOpenSession,
           CloseSession, LoginAuthenticate, LoginRollback, LoginAnnounceFailure, OpenFailed,
           LoginTimeout, DropDecRefs, DropClose, DropDrain, DropTimeout, DropLogout,
           DropUncache, DropAnnounce, KmsDropModule
    <3>1. pool[p].slot \notin unclean
      BY <1>1, <2>2, <3>0
    <3>2. CASE LeftBehind(p, t)
      BY <1>f, <2>2, <3>2 DEF LeftBehind, Loose, OpsStay
    <3>3. ASSUME NEW d \in Clients, Remains(d, p, t) PROVE \E e \in Clients : Remains(e, p, t)'
      <4>1. CASE d # c
        BY <1>f, <3>3, <4>1 DEF Remains, OthersStay
      <4>2. CASE d = c /\ pc[c] \in AtToken
        <5>1. PICK e \in Clients : ref'[e] = ref[c] /\ pc'[e] \in AtToken
          BY <2>4, <4>2, TokenKept
        <5> QED
          BY <3>3, <4>2, <5>1 DEF Remains
      <4>3. CASE d = c /\ pc[c] = "authenticate"
        <5>1. t = c /\ ref[c] = p /\ pool[p].slot = SlotOf[c] /\ SlotOf[c] \in Slots
          BY <3>3, <4>3, TokensAssumption DEF Remains, AtToken, Draining, IInv, RefsOK, Referring,
                 Owning, Making
        <5>2. LoginAuthenticate(c)
          BY <4>3 DEF ClientStep, LoginStep, DropStep, KmsOpen, GetToken,
           WrapperWith, LoginLookup, LoginAwait, LoginJoin, LoginAwaitDead, LoginOpenSession,
           LoginRollback, LoginAnnounceFailure, OpenFailed,
           LoginTimeout, DropDecRefs, DropClose, DropDrain, DropTimeout, DropLogout,
           DropCloseAllSessions, DropUncache, DropAnnounce, KmsDropModule
        <5>3. ~CloseSession(SlotOf[c], <<ref[c], c>>)
          BY <1>1, <2>2, <5>1, SessionGone DEF IInv
        <5>4. pc'[c] = "open" /\ ref' = ref
          BY <5>2, <5>3 DEF LoginAuthenticate, Goto, IInv, TypeOK
        <5> QED
          BY <5>1, <5>4 DEF Remains, AtToken, Draining
      <4> QED
        BY <3>3, <4>1, <4>2, <4>3 DEF Remains
    <3> QED
      BY <1>3, <3>1, <3>2, <3>3 DEF SessionsOwned
  <2> QED
    BY <2>3, <2>4
<1> QED
    BY <1>2, <1>3

LEMMA OwnedOp ==
    ASSUME IInv, UInv, LoginsOwned, SessionsOwned, NEW o \in Ops, OpAction(o)
    PROVE  LoginsOwned' /\ SessionsOwned'
<1>f. OpFrame(o) /\ unclean \subseteq unclean'
    BY OpFrames, OpSessions DEF IInv
<1>1. LoginsOwned'
    BY <1>f DEF OpFrame, LoginsOwned
<1>2. ASSUME NEW p \in Pools, NEW t \in Clients \cup Ops,
             <<p, t>> \in sessions', pool'[p].slot \notin unclean'
      PROVE  (\E e \in Clients : Remains(e, p, t)') \/ LeftBehind(p, t)'
  <2>0. pool[p].slot \notin unclean /\ UNCHANGED <<pc, ref, pool>>
    BY <1>2, <1>f DEF OpFrame
  <2>k. Loose(p) => Loose(p)'
    BY GaveUpSame DEF Loose
  <2>1. CASE <<p, t>> \in sessions
    <3>1. CASE \E e \in Clients : Remains(e, p, t)
      BY <2>0, <3>1 DEF Remains
    <3>2. CASE LeftBehind(p, t)
      <4>1. CASE t # o
        BY <1>f, <2>k, <3>2, <4>1 DEF OpFrame, LeftBehind
      <4>2. CASE t = o
        <5>1. OpCloseSession(o)
          BY <3>2, <4>2 DEF LeftBehind, OpAction, OpStart, OpStep, OpCancel, OpAcquire, OpTold,
                 OpOpenSession, OpRelease
        <5> QED
          BY <1>2, <2>0, <3>2, <4>2, <5>1, OpSessions DEF LeftBehind
      <4> QED
        BY <4>1, <4>2
    <3> QED
      BY <2>0, <2>1, <3>1, <3>2 DEF SessionsOwned
  <2>2. CASE <<p, t>> \notin sessions
    <3>1. OpOpenSession(o) /\ <<p, t>> = <<opRef[o], o>> /\ opPc'[o] = "using"
      BY <1>2, <2>2, OpSessions
    <3>2. p = opRef[o] /\ t = o /\ opRef'[o] = p
      BY <3>1 DEF OpOpenSession
    <3>3. InUse(p) # {}
      BY <3>1, <3>2 DEF OpOpenSession, InUse
    <3>4. CASE Loose(p)
      BY <2>k, <3>1, <3>2, <3>4 DEF LeftBehind
    <3>5. CASE ~Loose(p)
      <4>1. PICK d \in Clients : ref[d] = p /\ pc[d] \in Draining
        BY <3>3, <3>5 DEF UInv, Guarded, Loose
      <4> QED
        BY <2>0, <4>1 DEF Remains, AtToken
    <3> QED
      BY <3>4, <3>5
  <2> QED
    BY <2>1, <2>2
<1> QED
    BY <1>1, <1>2 DEF SessionsOwned

-----------------------------------------------------------------------------
LEMMA InitTInv == Init => TInv
<1> SUFFICES ASSUME Init PROVE TInv
    OBVIOUS
<1>1. \A p \in Pools : InUse(p) = {}
    BY DEF Init, InUse
<1>2. \A p \in Pools : sema[p] = NewSema /\ ~pool[p].closed
    BY DEF Init, NewPool
<1>3. SemInv
    BY <1>1, <1>2, NewSemaFields, FS_EmptySet DEF Init, SemInv, SemOK, Counted
<1>4. UInv /\ KInv /\ LoginsOwned /\ SessionsOwned
    BY <1>1 DEF Init, UInv, KInv, LoginsOwned, SessionsOwned
<1> QED
    BY <1>3, <1>4, InitIInv DEF TInv

LEMMA StepTInv == TInv /\ [Next]_vars => TInv'
<1> SUFFICES ASSUME TInv, [Next]_vars PROVE TInv'
    OBVIOUS
<1>1. IInv /\ SemInv /\ UInv /\ KInv /\ LoginsOwned /\ SessionsOwned /\ IInv'
    BY StepIInv DEF TInv
<1>2. ASSUME NEW c \in Clients, ClientStep(c) PROVE TInv'
    BY <1>1, <1>2, SemInvClient, UInvClient, KInvClient, LoginsClient, SessionsClient DEF TInv
<1>3. ASSUME NEW o \in Ops, OpAction(o) PROVE TInv'
    BY <1>1, <1>3, SemInvOp, UInvOp, KInvOp, OwnedOp DEF TInv
<1>4. CASE WrapperSetConfig \/ WrapperGetToken \/ WrapperFinalize \/ UNCHANGED vars
  <2>1. UNCHANGED <<pool, sema, pc, ref, dropErr, opPc, opRef, sessions, loggedIn, unclean>>
    BY <1>4 DEF WrapperSetConfig, WrapperGetToken, WrapperFinalize, vars, poolVars, opVars,
           tokenVars
  <2>2. \A p : InUse(p)' = InUse(p)
    BY <2>1 DEF InUse
  <2>3. SemInv' /\ UInv'
    BY <1>1, <2>1, <2>2 DEF SemInv, SemOK, Counted, UInv, Guarded, FailedDrop
  <2>4. KInv' /\ LoginsOwned' /\ SessionsOwned'
    BY <1>1, <2>1 DEF KInv, LoginsOwned, SessionsOwned, Remains, LeftBehind, Loose
  <2> QED
    BY <1>1, <2>3, <2>4 DEF TInv
<1> QED
    BY <1>2, <1>3, <1>4 DEF Next, Step, ClientStep, OpAction, Clients

LEMMA AlwaysTInv == Spec => []TInv
BY InitTInv, StepTInv, PTL DEF Spec

(* The library is not finalized under a running operation, whoever closed  *)
(* what in the meantime and whatever fails or times out at the token: Drop *)
(* waits for the operations before the module is given back, and           *)
(* pkcs11KMS.Close keeps the module when its Drop timed out.  There are    *)
(* two exceptions, both named by the property: a surplus Release of an     *)
(* operation cancelled at the close, and a Drop that timed out in the      *)
(* wrapper's with.                                                         *)
THEOREM DrainKeepsModuleHolds == Spec => []DrainKeepsModule
<1>1. TInv => DrainKeepsModule
  <2> SUFFICES ASSUME TInv, NEW o \in Ops, opPc[o] \in {"opening", "using"},
                      ~sema[opRef[o]].surplus, sema[opRef[o]].gaveUp # "call"
               PROVE  modRefs > 0
    BY DEF DrainKeepsModule
  <2> USE DEF TInv, IInv
  <2>1. opRef[o] \in Pools /\ InUse(opRef[o]) # {}
    BY DEF OpsOK, InUse
  <2>2. PICK c \in Clients : pc[c] \in Draining \/ (c \in Kmss /\ FailedDrop(c))
    BY <2>1 DEF UInv, Guarded, Clients
  <2>3. pc[c] \notin {"new", "done"}
    BY <2>2 DEF Draining, FailedDrop
  <2>4. CASE c \in Kmss
    <3>1. ModHolders # {}
      BY <2>3, <2>4 DEF ModHolders
    <3>2. Cardinality(ModHolders) \in Nat /\ Cardinality(ModHolders) # 0
      BY <3>1, ModHoldersFinite, FS_EmptySet
    <3> QED
      BY <3>2 DEF ModOK, WrapperRefs
  <2>5. CASE c \in Calls
    BY <2>3, <2>5, ModHoldersFinite DEF ModOK, WrapperRefs
  <2> QED
    BY <2>4, <2>5 DEF Clients
<1> QED
    BY <1>1, AlwaysTInv, PTL

(* CloseAllSessions closes no session that an operation is using, and the  *)
(* token is logged in for as long as one is used, unless a Drop gave up    *)
(* waiting for it or a surplus Release made Close return early.            *)
THEOREM UsersKeepSessionHolds == Spec => []UsersKeepSession
<1>1. TInv => UsersKeepSession
  <2> SUFFICES ASSUME TInv, NEW o \in Ops, opPc[o] = "using",
                      ~sema[opRef[o]].surplus, sema[opRef[o]].gaveUp = "nobody"
               PROVE  <<opRef[o], o>> \in sessions /\ pool[opRef[o]].slot \in loggedIn
    BY DEF UsersKeepSession
  <2>1. opRef[o] \in Pools /\ InUse(opRef[o]) # {}
    BY DEF TInv, IInv, OpsOK, InUse
  <2>2. PICK c \in Clients : ref[c] = opRef[o] /\ pc[c] \in Draining
    BY <2>1 DEF TInv, UInv, Guarded
  <2>3. pool[opRef[o]].slot \in loggedIn
    BY <2>2 DEF TInv, IInv, RefsOK, StateOK, Referring, Owning, Ending, Draining
  <2> QED
    BY <2>3 DEF TInv, KInv, Loose
<1> QED
    BY <1>1, AlwaysTInv, PTL

(* Login authenticates at a token that holds nothing of an earlier pool,   *)
(* because Drop leaves the cache after it cleaned up, also if Logout fails *)
(* or a Drop timed out: only closing sessions must not have failed, and    *)
(* operations that nobody waited for may be left.                          *)
THEOREM LoginFindsCleanTokenHolds == Spec => []LoginFindsCleanToken
<1>1. TInv => LoginFindsCleanToken
  <2> SUFFICES ASSUME TInv, NEW c \in Clients, pc[c] = "authenticate", SlotOf[c] \notin unclean
               PROVE  /\ SlotOf[c] \notin loggedIn
                      /\ \A s \in sessions : pool[s[1]].slot = SlotOf[c] =>
                           \/ s = <<ref[c], c>>
                           \/ /\ \E o \in Ops : s = <<opRef[o], o>> /\ opPc[o] = "using"
                              /\ sema[s[1]].surplus \/ sema[s[1]].gaveUp # "nobody"
    BY DEF LoginFindsCleanToken
  <2> USE DEF TInv, IInv
  <2>1. \A d \in Clients : pc[d] \in Owning \cup {"open"} /\ SlotOf[d] = SlotOf[c] => d = c
    BY DEF OwnerOK, Owning, Making
  <2>2. SlotOf[c] \notin loggedIn
    BY <2>1 DEF LoginsOwned, AtToken, Draining, Owning, Ending
  <2>3. ASSUME NEW s \in sessions, pool[s[1]].slot = SlotOf[c]
        PROVE  \/ s = <<ref[c], c>>
               \/ /\ \E o \in Ops : s = <<opRef[o], o>> /\ opPc[o] = "using"
                  /\ sema[s[1]].surplus \/ sema[s[1]].gaveUp # "nobody"
    <3>1. PICK p \in Pools, t \in Clients \cup Ops : s = <<p, t>>
      BY <2>3 DEF TypeOK
    <3>2. CASE LeftBehind(p, t)
      BY <3>1, <3>2 DEF LeftBehind, Loose
    <3>3. ASSUME NEW d \in Clients, Remains(d, p, t) PROVE s = <<ref[c], c>>
      <4>1. SlotOf[d] = SlotOf[c]
        BY <2>3, <3>1, <3>3 DEF Remains, AtToken, Draining, RefsOK, Referring, Owning, Making,
               Ending
      <4>2. d = c
        BY <2>1, <3>3, <4>1 DEF Remains, AtToken, Draining, Owning, Making, Ending
      <4> QED
        BY <3>1, <3>3, <4>2 DEF Remains, AtToken, Draining
    <3> QED
      BY <2>3, <3>1, <3>2, <3>3 DEF SessionsOwned
  <2> QED
    BY <2>2, <2>3
<1> QED
    BY <1>1, AlwaysTInv, PTL
=============================================================================
