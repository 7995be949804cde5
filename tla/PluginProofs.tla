---------------------------- MODULE PluginProofs -----------------------------
(***************************************************************************)
(* Theorems about PluginService, for any number of clients, RPCs in        *)
(* progress, instances and keys.                                           *)
(***************************************************************************)
EXTENDS PluginService, TLAPS

(* A client's identifier is an instance it opened, the table holds         *)
(* services that nobody closed, and a key's service is known.              *)
IdsOK ==
    /\ \A c \in Clients : id[c] # None =>
          openedBy[id[c]] = c /\ service[id[c]] # "none"
    /\ \A i \in instances : service[i] = "open"
    /\ \A k \in KeyIds : keys[k] # None => service[keys[k]] # "none"

(* What an RPC carries, by its operation and stage.                        *)
RpcOK ==
    \A r \in Rpcs :
        /\ rpc[r].stage = "free" =>
              rpc[r].op = "Use" /\ rpc[r].id = None /\ rpc[r].key = None
        /\ rpc[r].id # None =>
              openedBy[rpc[r].id] = rpc[r].client /\ service[rpc[r].id] # "none"
        /\ rpc[r].op \in {"Use", "GetKey", "Close"} /\ rpc[r].stage \in {"sent", "running"}
              => rpc[r].id # None
        /\ rpc[r].op = "KeyOp" /\ rpc[r].stage \in {"sent", "running"} => rpc[r].key # None
        /\ rpc[r].op = "Open" => /\ rpc[r].stage # "running"
                                 /\ rpc[r].stage = "sent" => rpc[r].id = None
                                 /\ rpc[r].stage = "replied" => (rpc[r].ok <=> rpc[r].id # None)
        /\ rpc[r].op = "GetKey" /\ rpc[r].stage = "replied" /\ rpc[r].ok => rpc[r].key # None
        /\ rpc[r].stage = "opened" => rpc[r].op = "Open" /\ rpc[r].id # None
        /\ rpc[r].op = "Close" => rpc[r].client \in closed
        /\ rpc[r].client \notin Impatient /\ rpc[r].stage # "free" => rpc[r].waiting

(* A service that is not stored yet is known to the handler that opened it *)
(* and to nobody else.                                                     *)
OpenedOK ==
    \A r \in Rpcs : rpc[r].stage = "opened" =>
        /\ service[rpc[r].id] = "open" /\ rpc[r].id \notin instances
        /\ \A s \in Rpcs : s # r => rpc[s].id # rpc[r].id
        /\ \A c \in Clients : id[c] # rpc[r].id

(* One that is being closed is out of the table, and one handler has it.   *)
ClosingOK ==
    \A r \in Rpcs : rpc[r].stage = "running" /\ rpc[r].op = "Close" =>
        /\ rpc[r].id \notin instances /\ service[rpc[r].id] = "open"
        /\ \A s \in Rpcs : Running(s, "Close", rpc[r].id) => s = r

(* Keys belong to the client whose instance they came from: in a handle,   *)
(* in an answer to GetKey, or in a cleanup, and only in one of these.      *)
KeysOK ==
    /\ \A c \in Clients : \A k \in held[c] :
          keys[k] # None /\ openedBy[keys[k]] = c
    /\ \A r \in Rpcs : rpc[r].key # None =>
          /\ keys[rpc[r].key] # None => openedBy[keys[rpc[r].key]] = rpc[r].client
          /\ rpc[r].op \in {"GetKey", "KeyOp", "CloseKey"}
          /\ rpc[r].op = "GetKey" =>
                /\ rpc[r].stage = "replied" /\ rpc[r].ok
                /\ keys[rpc[r].key] # None
                /\ \A s \in Rpcs : s # r => rpc[s].key # rpc[r].key
          /\ rpc[r].op = "CloseKey" => rpc[r].stage = "sent"
          /\ rpc[r].op \in {"GetKey", "CloseKey"} => \A c \in Clients : rpc[r].key \notin held[c]

(* A client that waits opens one instance at a time, keeps its identifier, *)
(* and closes when nothing else is in progress.                            *)
PatientOK ==
    \A c \in Clients \ Impatient :
        /\ c \in closed => id[c] # None
        /\ \A r \in Rpcs : rpc[r].client = c /\ rpc[r].stage # "free" =>
              /\ c \in closed => rpc[r].op \in {"Close", "CloseKey"}
              /\ rpc[r].op = "Open" =>
                    /\ id[c] = None
                    /\ \A s \in Rpcs : rpc[s].client = c /\ rpc[s].op = "Open" => s = r

IInv == /\ TypeOK /\ IdsOK /\ RpcOK /\ OpenedOK /\ ClosingOK /\ KeysOK /\ PatientOK
        /\ NothingLeftBehind

-----------------------------------------------------------------------------
(***************************************************************************)
(* What a step does to the RPC it is about                                *)
(***************************************************************************)
Becomes(r, op, c, i, k, stage, waiting, ok) ==
    /\ rpc' \in [Rpcs -> RpcRec]
    /\ rpc'[r].op = op /\ rpc'[r].client = c /\ rpc'[r].id = i /\ rpc'[r].key = k
    /\ rpc'[r].stage = stage /\ rpc'[r].waiting = waiting /\ rpc'[r].ok = ok
    /\ \A s \in Rpcs : s # r => rpc'[s] = rpc[s]

(* The same RPC at another stage, with an answer.                          *)
Goes(r, i, k, stage, ok) ==
    Becomes(r, rpc[r].op, rpc[r].client, i, k, stage, rpc[r].waiting, ok)

Frees(r) ==
    \E c \in Clients : Becomes(r, "Use", c, None, None, "free", FALSE, FALSE)

LEMMA SendBecomes ==
    ASSUME TypeOK, NEW r \in Rpcs, NEW op \in OpNames, NEW c \in Clients,
           NEW k \in KeyIds \cup {None}, Send(r, op, c, k)
    PROVE  /\ Becomes(r, op, c, id[c], k, "sent", TRUE, FALSE)
           /\ rpc[r].stage = "free"
BY DEF TypeOK, Send, Becomes, RpcRec, Stages

LEMMA FreeBecomes ==
    ASSUME TypeOK, NEW r \in Rpcs, rpc' = [rpc EXCEPT ![r] = FreeRpc]
    PROVE  Frees(r)
<1> DEFINE c == CHOOSE x \in Clients : TRUE
<1>1. c \in Clients
    BY NamesAssumption
<1>2. FreeRpc = [op |-> "Use", client |-> c, id |-> None, key |-> None,
                 stage |-> "free", waiting |-> FALSE, ok |-> FALSE]
    BY DEF FreeRpc
<1> HIDE DEF c
<1>3. Becomes(r, "Use", c, None, None, "free", FALSE, FALSE)
    BY <1>1, <1>2 DEF TypeOK, Becomes, RpcRec, Stages, OpNames
<1> QED
    BY <1>1, <1>3 DEF Frees

LEMMA ReplyBecomes ==
    ASSUME TypeOK, NEW r \in Rpcs, NEW ok \in BOOLEAN, NEW i \in Ids \cup {None},
           NEW k \in KeyIds \cup {None}, Reply(r, ok, i, k)
    PROVE  Goes(r, i, k, "replied", ok)
<1> DEFINE f1 == [rpc EXCEPT ![r].stage = "replied"]
           f2 == [f1 EXCEPT ![r].ok = ok]
           f3 == [f2 EXCEPT ![r].id = i]
           f4 == [f3 EXCEPT ![r].key = k]
<1>0. rpc' = f4
    BY DEF Reply
<1>1. /\ f1 \in [Rpcs -> RpcRec] /\ f1[r].op = rpc[r].op /\ f1[r].client = rpc[r].client
      /\ f1[r].waiting = rpc[r].waiting /\ f1[r].stage = "replied"
      /\ \A s \in Rpcs : s # r => f1[s] = rpc[s]
    BY DEF TypeOK, RpcRec, Stages
<1> HIDE DEF f1
<1>2. /\ f2 \in [Rpcs -> RpcRec] /\ f2[r].op = f1[r].op /\ f2[r].client = f1[r].client
      /\ f2[r].waiting = f1[r].waiting /\ f2[r].stage = f1[r].stage /\ f2[r].ok = ok
      /\ \A s \in Rpcs : s # r => f2[s] = f1[s]
    BY <1>1 DEF RpcRec, Stages
<1> HIDE DEF f2
<1>3. /\ f3 \in [Rpcs -> RpcRec] /\ f3[r].op = f2[r].op /\ f3[r].client = f2[r].client
      /\ f3[r].waiting = f2[r].waiting /\ f3[r].stage = f2[r].stage /\ f3[r].ok = f2[r].ok
      /\ f3[r].id = i /\ \A s \in Rpcs : s # r => f3[s] = f2[s]
    BY <1>2 DEF RpcRec, Stages
<1> HIDE DEF f3
<1>4. /\ f4 \in [Rpcs -> RpcRec] /\ f4[r].op = f3[r].op /\ f4[r].client = f3[r].client
      /\ f4[r].waiting = f3[r].waiting /\ f4[r].stage = f3[r].stage /\ f4[r].ok = f3[r].ok
      /\ f4[r].id = f3[r].id /\ f4[r].key = k /\ \A s \in Rpcs : s # r => f4[s] = f3[s]
    BY <1>3 DEF RpcRec, Stages
<1> HIDE DEF f4
<1> QED
    BY <1>0, <1>1, <1>2, <1>3, <1>4 DEF Goes, Becomes

LEMMA RunBecomes ==
    ASSUME TypeOK, NEW r \in Rpcs, rpc' = [rpc EXCEPT ![r].stage = "running"]
    PROVE  Goes(r, rpc[r].id, rpc[r].key, "running", rpc[r].ok)
BY DEF TypeOK, Goes, Becomes, RpcRec, Stages

LEMMA OpenedBecomes ==
    ASSUME TypeOK, NEW r \in Rpcs, NEW i \in Ids,
           rpc' = [rpc EXCEPT ![r].stage = "opened", ![r].id = i]
    PROVE  Goes(r, i, rpc[r].key, "opened", rpc[r].ok)
BY DEF TypeOK, Goes, Becomes, RpcRec, Stages

LEMMA LateBecomes ==
    ASSUME TypeOK, NEW r \in Rpcs, rpc' = [rpc EXCEPT ![r].waiting = FALSE]
    PROVE  Becomes(r, rpc[r].op, rpc[r].client, rpc[r].id, rpc[r].key, rpc[r].stage,
                   FALSE, rpc[r].ok)
BY DEF TypeOK, Becomes, RpcRec

-----------------------------------------------------------------------------
(***************************************************************************)
(* Every step preserves the invariant                                      *)
(***************************************************************************)

(* What a client that waits has in progress when it waits for nothing.      *)
LEMMA NothingAwaited ==
    ASSUME IInv, NEW c \in Clients \ Impatient, Awaited(c) = {}, NEW s \in Rpcs,
           rpc[s].client = c, rpc[s].stage # "free"
    PROVE  rpc[s].op = "CloseKey"
BY DEF IInv, RpcOK, Awaited

(* A step that leaves the answers to Open and GetKey and the cleanups      *)
(* alone leaves nothing behind.                                            *)
LEMMA LeftSame ==
    ASSUME IInv, UNCHANGED <<id, held, instances, keys, openedBy>>,
           \A s \in Rpcs : rpc[s].op = "Open" /\ rpc[s].id # None =>
               rpc'[s].op = "Open" /\ rpc'[s].id = rpc[s].id,
           \A s \in Rpcs : rpc[s].op \in {"GetKey", "CloseKey"} /\ rpc[s].key # None =>
               rpc'[s].op = rpc[s].op /\ rpc'[s].key = rpc[s].key
    PROVE  NothingLeftBehind'
<1>1. \A i \in instances : i # None
    BY NamesAssumption DEF IInv, TypeOK
<1>2. \A k \in KeyIds : k # None
    BY NamesAssumption
<1> QED
    BY <1>1, <1>2 DEF IInv, NothingLeftBehind, Patient

(* A client without an identifier sends an Open, one at a time.            *)
LEMMA CallOpenStep ==
    ASSUME IInv, NEW r \in Rpcs, NEW c \in Clients, CallOpen(r, c)
    PROVE  IInv'
<1> USE DEF IInv
<1>f. /\ Becomes(r, "Open", c, None, None, "sent", TRUE, FALSE) /\ rpc[r].stage = "free"
      /\ id[c] = None /\ Awaited(c) = {} /\ UNCHANGED <<id, closed, held, instances, service, keys, openedBy>>
    BY SendBecomes DEF CallOpen, OpNames, clientVars, serverVars
<1>a. TypeOK'
    BY <1>f DEF TypeOK, Goes, Becomes
<1>b. IdsOK'
    BY <1>f DEF IdsOK, TypeOK, Goes, Becomes
<1>c. RpcOK'
    BY <1>f DEF RpcOK, IdsOK, TypeOK, RpcRec, Goes, Becomes
<1>d. OpenedOK'
    BY <1>f DEF OpenedOK, RpcOK, Goes, Becomes
<1>e. ClosingOK'
    BY <1>f DEF ClosingOK, Running, TypeOK, Goes, Becomes
<1>g. KeysOK'
    BY <1>f DEF KeysOK, TypeOK, Goes, Becomes
<1>h. PatientOK'
    BY <1>f, NothingAwaited DEF PatientOK, RpcOK, Becomes
<1>i. NothingLeftBehind'
    BY <1>f, LeftSame DEF RpcOK, Becomes
<1> QED
    BY <1>a, <1>b, <1>c, <1>d, <1>e, <1>g, <1>h, <1>i

(* Use and GetKey name an instance of the caller's own.                    *)
LEMMA CallUseStep ==
    ASSUME IInv, NEW r \in Rpcs, NEW c \in Clients, CallUse(r, c)
    PROVE  IInv'
<1> USE DEF IInv
<1>1. PICK op \in {"Use", "GetKey"} : Send(r, op, c, None)
    BY DEF CallUse
<1>f. /\ Becomes(r, op, c, id[c], None, "sent", TRUE, FALSE) /\ rpc[r].stage = "free"
      /\ id[c] # None /\ c \notin closed /\ UNCHANGED <<id, closed, held, instances, service, keys, openedBy>>
    BY <1>1, SendBecomes DEF CallUse, OpNames, clientVars, serverVars
<1>a. TypeOK'
    BY <1>f DEF TypeOK, Goes, Becomes
<1>b. IdsOK'
    BY <1>f DEF IdsOK, TypeOK, Goes, Becomes
<1>c. RpcOK'
    BY <1>f DEF RpcOK, IdsOK, TypeOK, RpcRec, Goes, Becomes
<1>d. OpenedOK'
    BY <1>f DEF OpenedOK, RpcOK, Goes, Becomes
<1>e. ClosingOK'
    BY <1>f DEF ClosingOK, Running, TypeOK, Goes, Becomes
<1>g. KeysOK'
    BY <1>f DEF KeysOK, TypeOK, Goes, Becomes
<1>h. PatientOK'
    BY <1>f DEF PatientOK, TypeOK, Goes, Becomes
<1>i. NothingLeftBehind'
    BY <1>f, LeftSame DEF RpcOK, Becomes
<1> QED
    BY <1>a, <1>b, <1>c, <1>d, <1>e, <1>g, <1>h, <1>i

(* So do the operations of a key.                                          *)
LEMMA CallKeyOpStep ==
    ASSUME IInv, NEW r \in Rpcs, NEW c \in Clients, CallKeyOp(r, c)
    PROVE  IInv'
<1> USE DEF IInv
<1>1. PICK k \in held[c] : Send(r, "KeyOp", c, k)
    BY DEF CallKeyOp
<1>2. k \in KeyIds
    BY <1>1 DEF TypeOK
<1>f. /\ Becomes(r, "KeyOp", c, id[c], k, "sent", TRUE, FALSE) /\ rpc[r].stage = "free"
      /\ k \in held[c] /\ c \notin closed /\ UNCHANGED <<id, closed, held, instances, service, keys, openedBy>>
    BY <1>1, <1>2, SendBecomes DEF CallKeyOp, OpNames, clientVars, serverVars
<1>a. TypeOK'
    BY <1>f DEF TypeOK, Goes, Becomes
<1>b. IdsOK'
    BY <1>f DEF IdsOK, TypeOK, Goes, Becomes
<1>c. RpcOK'
    BY <1>f, <1>2, NamesAssumption DEF RpcOK, IdsOK, TypeOK, RpcRec, Becomes
<1>d. OpenedOK'
    BY <1>f DEF OpenedOK, RpcOK, Goes, Becomes
<1>e. ClosingOK'
    BY <1>f DEF ClosingOK, Running, TypeOK, Goes, Becomes
<1>g. KeysOK'
    BY <1>f DEF KeysOK, TypeOK, Goes, Becomes
<1>h. PatientOK'
    BY <1>f DEF PatientOK, TypeOK, Goes, Becomes
<1>i. NothingLeftBehind'
    BY <1>f, LeftSame DEF RpcOK, Becomes
<1> QED
    BY <1>a, <1>b, <1>c, <1>d, <1>e, <1>g, <1>h, <1>i

(* Close is sent when nothing else is awaited.                             *)
LEMMA CallCloseStep ==
    ASSUME IInv, NEW r \in Rpcs, NEW c \in Clients, CallClose(r, c)
    PROVE  IInv'
<1> USE DEF IInv
<1>f. /\ Becomes(r, "Close", c, id[c], None, "sent", TRUE, FALSE) /\ rpc[r].stage = "free"
      /\ id[c] # None /\ Awaited(c) = {} /\ closed' = closed \cup {c}
      /\ UNCHANGED <<id, held, instances, service, keys, openedBy>>
    BY SendBecomes DEF CallClose, OpNames, serverVars
<1>a. TypeOK'
    BY <1>f DEF TypeOK, Goes, Becomes
<1>b. IdsOK'
    BY <1>f DEF IdsOK, TypeOK, Goes, Becomes
<1>c. RpcOK'
    BY <1>f DEF RpcOK, IdsOK, TypeOK, RpcRec, Goes, Becomes
<1>d. OpenedOK'
    BY <1>f DEF OpenedOK, RpcOK, Goes, Becomes
<1>e. ClosingOK'
    BY <1>f DEF ClosingOK, Running, TypeOK, Goes, Becomes
<1>g. KeysOK'
    BY <1>f DEF KeysOK, TypeOK, Goes, Becomes
<1>h. PatientOK'
    BY <1>f, NothingAwaited DEF PatientOK, RpcOK, Becomes
<1>i. NothingLeftBehind'
    BY <1>f, LeftSame DEF RpcOK, Becomes
<1> QED
    BY <1>a, <1>b, <1>c, <1>d, <1>e, <1>g, <1>h, <1>i

(* A key that is collected goes from its holder to the cleanup.            *)
LEMMA CollectStep ==
    ASSUME IInv, NEW r \in Rpcs, NEW c \in Clients, CollectKey(r, c)
    PROVE  IInv'
<1> USE DEF IInv
<1>1. PICK k \in held[c] : /\ Send(r, "CloseKey", c, k)
                          /\ held' = [held EXCEPT ![c] = @ \ {k}]
    BY DEF CollectKey
<1>2. k \in KeyIds
    BY <1>1 DEF TypeOK
<1>3. /\ held' \in [Clients -> SUBSET KeyIds] /\ held'[c] = held[c] \ {k}
      /\ \A d \in Clients : d # c => held'[d] = held[d]
    BY <1>1 DEF TypeOK
<1>f. /\ Becomes(r, "CloseKey", c, id[c], k, "sent", TRUE, FALSE) /\ rpc[r].stage = "free"
      /\ UNCHANGED <<id, closed, instances, service, keys, openedBy>>
    BY <1>1, <1>2, SendBecomes DEF CollectKey, OpNames, serverVars
<1>a. TypeOK'
    BY <1>1, <1>2, <1>3, <1>f DEF TypeOK, Goes, Becomes
<1>b. IdsOK'
    BY <1>1, <1>2, <1>3, <1>f DEF IdsOK, TypeOK, Goes, Becomes
<1>c. RpcOK'
    BY <1>1, <1>2, <1>3, <1>f DEF RpcOK, IdsOK, TypeOK, RpcRec, Goes, Becomes
<1>d. OpenedOK'
    BY <1>1, <1>2, <1>3, <1>f DEF OpenedOK, RpcOK, Goes, Becomes
<1>e. ClosingOK'
    BY <1>1, <1>2, <1>3, <1>f DEF ClosingOK, Running, TypeOK, Goes, Becomes
<1>g. KeysOK'
    BY <1>1, <1>2, <1>3, <1>f DEF KeysOK, TypeOK, Goes, Becomes
<1>h. PatientOK'
    BY <1>1, <1>2, <1>3, <1>f DEF PatientOK, TypeOK, Goes, Becomes
<1>i. NothingLeftBehind'
  <2>0. rpc[r].op = "Use" /\ rpc[r].id = None
    BY <1>f DEF RpcOK
  <2>1. ASSUME NEW i \in instances, Patient(i)
        PROVE  id[openedBy[i]] = i \/ \E s \in Rpcs : rpc'[s].id = i /\ rpc'[s].op = "Open"
    BY <1>f, <2>0, <2>1 DEF NothingLeftBehind, Becomes
  <2>2. ASSUME NEW j \in KeyIds, keys[j] # None, Patient(keys[j])
        PROVE  \/ j \in held'[openedBy[keys[j]]]
               \/ \E s \in Rpcs : rpc'[s].key = j /\ rpc'[s].op \in {"GetKey", "CloseKey"}
    <3>1. CASE j = k
      BY <1>f, <3>1 DEF Becomes
    <3>2. CASE j # k /\ j \in held[openedBy[keys[j]]]
      BY <1>3, <2>2, <3>2 DEF Patient
    <3>3. CASE \E s \in Rpcs : rpc[s].key = j /\ rpc[s].op \in {"GetKey", "CloseKey"}
      BY <1>f, <2>0, <3>3 DEF Becomes
    <3> QED
      BY <2>2, <3>1, <3>2, <3>3 DEF NothingLeftBehind
  <2> QED
    BY <1>f, <2>1, <2>2 DEF NothingLeftBehind, Patient
<1> QED
    BY <1>a, <1>b, <1>c, <1>d, <1>e, <1>g, <1>h, <1>i

-----------------------------------------------------------------------------
(***************************************************************************)
(* Answers                                                                 *)
(***************************************************************************)

(* An RPC is over that brings nothing, or nothing that anybody waits for.  *)
LEMMA Vanishes ==
    ASSUME IInv, NEW r \in Rpcs, Frees(r), UNCHANGED <<id, closed, held, instances, service, keys, openedBy>>,
           rpc[r].op = "Open" => rpc[r].id = None \/ rpc[r].client \in Impatient,
           rpc[r].op = "GetKey" => rpc[r].key = None \/ rpc[r].client \in Impatient,
           rpc[r].op = "CloseKey" => rpc[r].key = None
    PROVE  IInv'
<1> USE DEF IInv
<1>f. PICK c \in Clients : Becomes(r, "Use", c, None, None, "free", FALSE, FALSE)
    BY DEF Frees
<1>a. TypeOK'
    BY <1>f DEF TypeOK, Goes, Becomes
<1>b. IdsOK'
    BY <1>f DEF IdsOK, TypeOK, Goes, Becomes
<1>c. RpcOK'
    BY <1>f DEF RpcOK, IdsOK, TypeOK, RpcRec, Goes, Becomes
<1>d. OpenedOK'
    BY <1>f DEF OpenedOK, RpcOK, Goes, Becomes
<1>e. ClosingOK'
    BY <1>f DEF ClosingOK, Running, TypeOK, Goes, Becomes
<1>g. KeysOK'
    BY <1>f DEF KeysOK, TypeOK, Goes, Becomes
<1>h. PatientOK'
    BY <1>f DEF PatientOK, TypeOK, Goes, Becomes
<1>i. NothingLeftBehind'
  <2>1. ASSUME NEW i \in instances, Patient(i)
        PROVE  id[openedBy[i]] = i \/ \E s \in Rpcs : rpc'[s].id = i /\ rpc'[s].op = "Open"
    <3>1. i # None
      BY NamesAssumption DEF TypeOK
    <3>2. ~(rpc[r].id = i /\ rpc[r].op = "Open")
      BY <2>1, <3>1 DEF RpcOK, Patient
    <3> QED
      BY <1>f, <2>1, <3>2 DEF NothingLeftBehind, Becomes
  <2>2. ASSUME NEW j \in KeyIds, keys[j] # None, Patient(keys[j])
        PROVE  \/ j \in held[openedBy[keys[j]]]
               \/ \E s \in Rpcs : rpc'[s].key = j /\ rpc'[s].op \in {"GetKey", "CloseKey"}
    <3>1. j # None
      BY NamesAssumption
    <3>2. ~(rpc[r].key = j /\ rpc[r].op \in {"GetKey", "CloseKey"})
      BY <2>2, <3>1 DEF KeysOK, Patient
    <3> QED
      BY <1>f, <2>2, <3>2 DEF NothingLeftBehind, Becomes
  <2> QED
    BY <2>1, <2>2 DEF NothingLeftBehind, Patient
<1> QED
    BY <1>a, <1>b, <1>c, <1>d, <1>e, <1>g, <1>h, <1>i

(* The host learns an identifier or gets a handle, from a call it awaits.  *)
LEMMA ReturnStep ==
    ASSUME IInv, NEW r \in Rpcs, Return(r)
    PROVE  IInv'
<1> USE DEF IInv
<1>f. Frees(r) /\ rpc[r].stage = "replied" /\ UNCHANGED <<closed, instances, service, keys, openedBy>>
    BY FreeBecomes DEF Return, serverVars
<1>g. PICK c0 \in Clients : Becomes(r, "Use", c0, None, None, "free", FALSE, FALSE)
    BY <1>f DEF Frees
<1> DEFINE c == rpc[r].client
<1>c. c \in Clients
    BY DEF TypeOK, RpcRec
<1>1. CASE rpc[r].waiting /\ rpc[r].ok /\ rpc[r].op = "Open" /\ rpc[r].id # None
  <2>1. id' = [id EXCEPT ![c] = rpc[r].id] /\ held' = held
    BY <1>1 DEF Return
  <2>2. rpc[r].id \in Ids
    BY <1>1 DEF TypeOK, RpcRec
  <2>3. PICK i \in Ids : i = rpc[r].id
    BY <2>2
  <2>4. /\ id' \in [Clients -> Ids \cup {None}] /\ id'[c] = i
        /\ \A d \in Clients : d # c => id'[d] = id[d]
    BY <1>c, <2>1, <2>3 DEF TypeOK
  <2>a. TypeOK'
      BY <1>f, <1>g, <1>c, <1>1, <2>1, <2>3, <2>4 DEF TypeOK, Goes, Becomes
  <2>b. IdsOK'
      BY <1>f, <1>1, <2>3, <2>4 DEF IdsOK, RpcOK
  <2>c. RpcOK'
      BY <1>f, <1>g DEF RpcOK, Becomes
  <2>d. OpenedOK'
      BY <1>f, <1>g, <1>1, <2>3, <2>4 DEF OpenedOK, RpcOK, Becomes
  <2>e. ClosingOK'
      BY <1>f, <1>g, <1>c, <1>1, <2>1, <2>3, <2>4 DEF ClosingOK, Running, TypeOK, Goes, Becomes
  <2>g. KeysOK'
      BY <1>f, <1>g, <2>1 DEF KeysOK, Becomes
  <2>h. PatientOK'
      BY <1>f, <1>g, <1>c, <1>1, <2>3, <2>4 DEF PatientOK, RpcOK, Becomes
  <2>i. NothingLeftBehind'
    <3>1. ASSUME NEW j \in instances, Patient(j)
          PROVE  id'[openedBy[j]] = j \/ \E s \in Rpcs : rpc'[s].id = j /\ rpc'[s].op = "Open"
      <4>1. CASE j = i
        BY <1>1, <2>3, <2>4, <4>1 DEF RpcOK
      <4>2. CASE j # i /\ openedBy[j] = c
        <5>1. c \in Clients \ Impatient /\ id[c] = None
          BY <1>f, <1>1, <3>1, <4>2 DEF Patient, PatientOK
        <5>2. j # None
          BY NamesAssumption DEF TypeOK
        <5>3. PICK s \in Rpcs : rpc[s].id = j /\ rpc[s].op = "Open"
          BY <3>1, <4>2, <5>1, <5>2 DEF NothingLeftBehind
        <5>4. s # r
          BY <2>3, <4>2, <5>3
        <5> QED
          BY <1>g, <5>3, <5>4 DEF Becomes
      <4>3. CASE j # i /\ openedBy[j] # c
        BY <1>g, <2>3, <2>4, <3>1, <4>3 DEF NothingLeftBehind, Becomes, Patient
      <4> QED
        BY <4>1, <4>2, <4>3
    <3>2. \A k \in KeyIds : keys[k] # None /\ Patient(keys[k]) =>
            \/ k \in held[openedBy[keys[k]]]
            \/ \E s \in Rpcs : rpc'[s].key = k /\ rpc'[s].op \in {"GetKey", "CloseKey"}
      BY <1>g, <1>1 DEF NothingLeftBehind, Becomes
    <3> QED
      BY <1>f, <2>1, <3>1, <3>2 DEF NothingLeftBehind, Patient
  <2> QED
      BY <2>a, <2>b, <2>c, <2>d, <2>e, <2>g, <2>h, <2>i
<1>2. CASE rpc[r].waiting /\ rpc[r].ok /\ rpc[r].op = "GetKey" /\ rpc[r].key # None
  <2>1. held' = [held EXCEPT ![c] = @ \cup {rpc[r].key}] /\ id' = id
    BY <1>2 DEF Return
  <2>2. PICK k \in KeyIds : k = rpc[r].key
    BY <1>2 DEF TypeOK, RpcRec
  <2>4. /\ held' \in [Clients -> SUBSET KeyIds] /\ held'[c] = held[c] \cup {k}
        /\ \A d \in Clients : d # c => held'[d] = held[d]
    BY <1>c, <2>1, <2>2 DEF TypeOK
  <2>5. /\ keys[k] # None /\ openedBy[keys[k]] = c
        /\ \A s \in Rpcs : s # r => rpc[s].key # k
    BY <1>2, <2>2 DEF KeysOK
  <2>a. TypeOK'
      BY <1>f, <1>g, <1>c, <1>2, <2>1, <2>2, <2>4, <2>5 DEF TypeOK, Goes, Becomes
  <2>b. IdsOK'
      BY <1>f, <1>g, <1>c, <1>2, <2>1, <2>2, <2>4, <2>5 DEF IdsOK, TypeOK, Goes, Becomes
  <2>c. RpcOK'
      BY <1>f, <1>g DEF RpcOK, Becomes
  <2>d. OpenedOK'
      BY <1>f, <1>g, <1>c, <1>2, <2>1, <2>2, <2>4, <2>5 DEF OpenedOK, RpcOK, Goes, Becomes
  <2>e. ClosingOK'
      BY <1>f, <1>g, <1>c, <1>2, <2>1, <2>2, <2>4, <2>5 DEF ClosingOK, Running, TypeOK, Goes, Becomes
  <2>g. KeysOK'
      BY <1>f, <1>g, <2>4, <2>5 DEF KeysOK, Becomes
  <2>h. PatientOK'
      BY <1>f, <1>g, <1>c, <1>2, <2>1, <2>2, <2>4, <2>5 DEF PatientOK, TypeOK, Goes, Becomes
  <2>i. NothingLeftBehind'
    <3>1. \A j \in instances : Patient(j) =>
            id[openedBy[j]] = j \/ \E s \in Rpcs : rpc'[s].id = j /\ rpc'[s].op = "Open"
      BY <1>g, <1>2 DEF NothingLeftBehind, Becomes
    <3>2. ASSUME NEW j \in KeyIds, keys[j] # None, Patient(keys[j])
          PROVE  \/ j \in held'[openedBy[keys[j]]]
                 \/ \E s \in Rpcs : rpc'[s].key = j /\ rpc'[s].op \in {"GetKey", "CloseKey"}
      <4>1. CASE j = k
        BY <2>4, <2>5, <4>1
      <4>2. CASE j # k /\ j \in held[openedBy[keys[j]]]
        BY <2>4, <3>2, <4>2 DEF Patient
      <4>3. CASE j # k /\ \E s \in Rpcs : rpc[s].key = j /\ rpc[s].op \in {"GetKey", "CloseKey"}
        BY <1>g, <2>2, <4>3 DEF Becomes
      <4> QED
        BY <3>2, <4>1, <4>2, <4>3 DEF NothingLeftBehind
    <3> QED
      BY <1>f, <2>1, <3>1, <3>2 DEF NothingLeftBehind, Patient
  <2> QED
      BY <2>a, <2>b, <2>c, <2>d, <2>e, <2>g, <2>h, <2>i
<1>3. CASE /\ ~(rpc[r].waiting /\ rpc[r].ok /\ rpc[r].op = "Open" /\ rpc[r].id # None)
           /\ ~(rpc[r].waiting /\ rpc[r].ok /\ rpc[r].op = "GetKey" /\ rpc[r].key # None)
  <2>1. UNCHANGED <<id, held>>
    BY <1>f, <1>3 DEF Return, RpcOK
  <2>2. /\ rpc[r].op = "Open" => rpc[r].id = None \/ c \in Impatient
        /\ rpc[r].op = "GetKey" => rpc[r].key = None \/ c \in Impatient
        /\ rpc[r].op = "CloseKey" => rpc[r].key = None
    BY <1>f, <1>3 DEF RpcOK, KeysOK
  <2> QED
    BY <1>f, <2>1, <2>2, Vanishes
<1> QED
    BY <1>1, <1>2, <1>3

(* A call that times out is one that nobody waits for any more.            *)
LEMMA TimeoutStep ==
    ASSUME IInv, NEW r \in Rpcs, Timeout(r)
    PROVE  IInv'
<1> USE DEF IInv
<1>u. /\ rpc[r].client \in Impatient /\ rpc[r].stage # "free" /\ rpc[r].op # "CloseKey"
      /\ UNCHANGED <<id, closed, held, instances, service, keys, openedBy>>
    BY DEF Timeout, clientVars, serverVars
<1>1. CASE rpc[r].stage = "sent" /\ rpc' = [rpc EXCEPT ![r] = FreeRpc]
    BY <1>u, <1>1, FreeBecomes, Vanishes
<1>2. CASE rpc' = [rpc EXCEPT ![r].waiting = FALSE]
  <2>f. Becomes(r, rpc[r].op, rpc[r].client, rpc[r].id, rpc[r].key, rpc[r].stage, FALSE, rpc[r].ok)
    BY <1>2, LateBecomes
  <2>a. TypeOK'
      BY <1>u, <2>f DEF TypeOK, Goes, Becomes
  <2>b. IdsOK'
      BY <1>u, <2>f DEF IdsOK, TypeOK, Goes, Becomes
  <2>c. RpcOK'
      BY <1>u, <2>f DEF RpcOK, IdsOK, TypeOK, RpcRec, Goes, Becomes
  <2>d. OpenedOK'
      BY <1>u, <2>f DEF OpenedOK, RpcOK, Goes, Becomes
  <2>e. ClosingOK'
      BY <1>u, <2>f DEF ClosingOK, Running, TypeOK, Goes, Becomes
  <2>g. KeysOK'
      BY <1>u, <2>f DEF KeysOK, TypeOK, Goes, Becomes
  <2>h. PatientOK'
      BY <1>u, <2>f DEF PatientOK, TypeOK, Goes, Becomes
  <2>i. NothingLeftBehind'
      BY <1>u, <2>f, LeftSame DEF Becomes
  <2> QED
      BY <2>a, <2>b, <2>c, <2>d, <2>e, <2>g, <2>h, <2>i
<1> QED
    BY <1>1, <1>2 DEF Timeout

-----------------------------------------------------------------------------
(***************************************************************************)
(* Handlers                                                                *)
(***************************************************************************)

(* An answer without an identifier or a key.                               *)
LEMMA Answers ==
    ASSUME IInv, NEW r \in Rpcs, NEW ok \in BOOLEAN, Goes(r, None, None, "replied", ok),
           rpc[r].stage \in {"sent", "running"}, rpc[r].op # "CloseKey",
           ok => rpc[r].op \notin {"Open", "GetKey"},
           UNCHANGED <<id, closed, held, instances, service, keys, openedBy>>
    PROVE  IInv'
<1> USE DEF IInv
<1>f. /\ Goes(r, None, None, "replied", ok) /\ rpc[r].stage \in {"sent", "running"}
      /\ rpc[r].op = "Open" => rpc[r].id = None
      /\ rpc[r].op = "GetKey" => rpc[r].key = None
    BY DEF RpcOK, KeysOK
<1>a. TypeOK'
    BY <1>f DEF TypeOK, Goes, Becomes
<1>b. IdsOK'
    BY <1>f DEF IdsOK, TypeOK, Goes, Becomes
<1>c. RpcOK'
    BY <1>f DEF RpcOK, IdsOK, TypeOK, RpcRec, Goes, Becomes
<1>d. OpenedOK'
    BY <1>f DEF OpenedOK, RpcOK, Goes, Becomes
<1>e. ClosingOK'
    BY <1>f DEF ClosingOK, Running, TypeOK, Goes, Becomes
<1>g. KeysOK'
    BY <1>f DEF KeysOK, TypeOK, Goes, Becomes
<1>h. PatientOK'
    BY <1>f DEF PatientOK, TypeOK, Goes, Becomes
<1>i. NothingLeftBehind'
    BY <1>f, LeftSame DEF Goes, Becomes
<1> QED
    BY <1>a, <1>b, <1>c, <1>d, <1>e, <1>g, <1>h, <1>i

(* A handler that found what it looked up.                                 *)
LEMMA RunsStep ==
    ASSUME IInv, NEW r \in Rpcs, rpc[r].op \in {"Use", "GetKey", "KeyOp"}, rpc[r].stage = "sent",
           Goes(r, rpc[r].id, rpc[r].key, "running", rpc[r].ok), UNCHANGED <<id, closed, held, instances, service, keys, openedBy>>
    PROVE  IInv'
<1> USE DEF IInv
<1>f. Goes(r, rpc[r].id, rpc[r].key, "running", rpc[r].ok)
    OBVIOUS
<1>a. TypeOK'
    BY <1>f DEF TypeOK, Goes, Becomes
<1>b. IdsOK'
    BY <1>f DEF IdsOK, TypeOK, Goes, Becomes
<1>c. RpcOK'
    BY <1>f DEF RpcOK, IdsOK, TypeOK, RpcRec, Goes, Becomes
<1>d. OpenedOK'
    BY <1>f DEF OpenedOK, RpcOK, Goes, Becomes
<1>e. ClosingOK'
    BY <1>f DEF ClosingOK, Running, TypeOK, Goes, Becomes
<1>g. KeysOK'
    BY <1>f DEF KeysOK, TypeOK, Goes, Becomes
<1>h. PatientOK'
    BY <1>f DEF PatientOK, TypeOK, Goes, Becomes
<1>i. NothingLeftBehind'
    BY <1>f, LeftSame DEF Goes, Becomes
<1> QED
    BY <1>a, <1>b, <1>c, <1>d, <1>e, <1>g, <1>h, <1>i

(* The handlers that look up an instance or a key.                         *)
LEMMA LookupStep ==
    ASSUME IInv, NEW r \in Rpcs, ServeLookup(r)
    PROVE  IInv'
<1> USE DEF IInv
<1>u. /\ rpc[r].stage = "sent" /\ rpc[r].op \in {"Use", "GetKey", "KeyOp"}
      /\ UNCHANGED <<id, closed, held, instances, service, keys, openedBy>>
    BY DEF ServeLookup, clientVars, serverVars
<1>1. CASE rpc' = [rpc EXCEPT ![r].stage = "running"]
    BY <1>u, <1>1, RunBecomes, RunsStep
<1>2. CASE Reply(r, FALSE, None, None)
    BY <1>u, <1>2, ReplyBecomes, Answers
<1> QED
    BY <1>1, <1>2 DEF ServeLookup

(* A new service has an identifier that nobody knows.                      *)
LEMMA ServeOpenStep ==
    ASSUME IInv, NEW r \in Rpcs, ServeOpen(r)
    PROVE  IInv'
<1> USE DEF IInv
<1>u. /\ rpc[r].stage = "sent" /\ rpc[r].op = "Open" /\ rpc[r].id = None
      /\ UNCHANGED <<id, closed, held, instances, keys>>
    BY DEF ServeOpen, clientVars, RpcOK
<1>1. CASE Reply(r, FALSE, None, None) /\ UNCHANGED <<service, openedBy>>
    BY <1>u, <1>1, ReplyBecomes, Answers
<1>2. CASE \E i \in Ids : /\ service[i] = "none"
                         /\ service' = [service EXCEPT ![i] = "open"]
                         /\ openedBy' = [openedBy EXCEPT ![i] = rpc[r].client]
                         /\ rpc' = [rpc EXCEPT ![r].stage = "opened", ![r].id = i]
  <2>1. PICK i \in Ids : /\ service[i] = "none"
                         /\ service' = [service EXCEPT ![i] = "open"]
                         /\ openedBy' = [openedBy EXCEPT ![i] = rpc[r].client]
                         /\ rpc' = [rpc EXCEPT ![r].stage = "opened", ![r].id = i]
    BY <1>2
  <2>2. rpc[r].client \in Clients /\ i # None
    BY NamesAssumption DEF TypeOK, RpcRec
  <2>3. /\ service' \in [Ids -> ServiceStates] /\ service'[i] = "open"
        /\ \A j \in Ids : j # i => service'[j] = service[j]
    BY <2>1 DEF TypeOK, ServiceStates
  <2>4. /\ openedBy' \in [Ids -> Clients \cup {None}] /\ openedBy'[i] = rpc[r].client
        /\ \A j \in Ids : j # i => openedBy'[j] = openedBy[j]
    BY <2>1, <2>2 DEF TypeOK
  <2>f. Goes(r, i, rpc[r].key, "opened", rpc[r].ok)
    BY <2>1, OpenedBecomes
  <2>5. /\ i \notin instances /\ \A c \in Clients : id[c] # i
        /\ \A s \in Rpcs : rpc[s].id # i
    BY <2>1, <2>2 DEF IdsOK, RpcOK
  <2>6. \A k \in KeyIds : keys[k] # i
    BY <2>1, <2>2 DEF IdsOK
  <2>7. /\ \A k \in KeyIds : keys[k] # None => openedBy'[keys[k]] = openedBy[keys[k]]
        /\ \A j \in instances : openedBy'[j] = openedBy[j]
    BY <2>4, <2>5, <2>6 DEF TypeOK
  <2>8. rpc[r].key = None
    BY <1>u DEF KeysOK
  <2>a. TypeOK'
      BY <1>u, <2>3, <2>4, <2>f DEF TypeOK, Goes, Becomes
  <2>b. IdsOK'
      BY <1>u, <2>1, <2>2, <2>3, <2>4, <2>f, <2>5, <2>6 DEF IdsOK, TypeOK, Goes, Becomes
  <2>c. RpcOK'
      BY <1>u, <2>1, <2>2, <2>3, <2>4, <2>f, <2>5, <2>6 DEF RpcOK, IdsOK, TypeOK, RpcRec, Goes, Becomes
  <2>d. OpenedOK'
      BY <1>u, <2>1, <2>2, <2>3, <2>4, <2>f, <2>5, <2>6 DEF OpenedOK, RpcOK, Goes, Becomes
  <2>e. ClosingOK'
      BY <1>u, <2>1, <2>2, <2>3, <2>4, <2>f, <2>5, <2>6 DEF ClosingOK, Running, TypeOK, Goes, Becomes
  <2>g. KeysOK'
    <3>1. \A c \in Clients : \A k \in held'[c] : keys'[k] # None /\ openedBy'[keys'[k]] = c
      BY <1>u, <2>7 DEF KeysOK, TypeOK
    <3>2. \A s \in Rpcs : rpc'[s].key = rpc[s].key /\ rpc'[s].op = rpc[s].op /\ rpc'[s].client = rpc[s].client
      BY <2>f DEF Goes, Becomes
    <3>3. \A s \in Rpcs : rpc[s].key # None => rpc[s].key \in KeyIds /\ rpc'[s] = rpc[s]
      BY <2>f, <2>8 DEF Goes, Becomes, TypeOK, RpcRec
    <3> QED
      BY <1>u, <2>7, <3>1, <3>2, <3>3 DEF KeysOK
  <2>h. PatientOK'
      BY <1>u, <2>1, <2>2, <2>3, <2>4, <2>f, <2>5, <2>6 DEF PatientOK, TypeOK, Goes, Becomes
  <2>i. NothingLeftBehind'
    <3>1. ASSUME NEW j \in instances, Patient(j)
          PROVE  id[openedBy[j]] = j \/ \E s \in Rpcs : rpc'[s].id = j /\ rpc'[s].op = "Open"
      <4>1. j # None
        BY NamesAssumption DEF TypeOK
      <4> QED
        BY <1>u, <2>f, <3>1, <4>1 DEF NothingLeftBehind, Goes, Becomes
    <3>2. ASSUME NEW k \in KeyIds, keys[k] # None, Patient(keys[k])
          PROVE  \/ k \in held[openedBy[keys[k]]]
                 \/ \E s \in Rpcs : rpc'[s].key = k /\ rpc'[s].op \in {"GetKey", "CloseKey"}
      BY <1>u, <2>f, <3>2 DEF NothingLeftBehind, Goes, Becomes
    <3> QED
      BY <1>u, <2>7, <3>1, <3>2 DEF NothingLeftBehind, Patient
  <2> QED
      BY <2>a, <2>b, <2>c, <2>d, <2>e, <2>g, <2>h, <2>i
<1> QED
    BY <1>1, <1>2 DEF ServeOpen

(* The service is stored, and its identifier on the way to the host.       *)
LEMMA StoreStep ==
    ASSUME IInv, NEW r \in Rpcs, StoreInstance(r)
    PROVE  IInv'
<1> USE DEF IInv
<1>u. /\ rpc[r].stage = "opened" /\ rpc[r].op = "Open"
      /\ UNCHANGED <<id, closed, held, service, keys, openedBy>>
    BY DEF StoreInstance, RpcOK, clientVars
<1>0. PICK i \in Ids : i = rpc[r].id
    BY <1>u DEF RpcOK, TypeOK, RpcRec
<1>1. /\ service[i] = "open" /\ \A s \in Rpcs : s # r => rpc[s].id # i
      /\ i # None /\ i \notin instances
    BY <1>u, <1>0, NamesAssumption DEF OpenedOK
<1>2. CASE Reply(r, TRUE, i, None) /\ instances' = instances \cup {i}
  <2>f. Goes(r, i, None, "replied", TRUE)
    BY <1>0, <1>2, ReplyBecomes
  <2>a. TypeOK'
      BY <1>u, <1>0, <1>1, <1>2, <2>f DEF TypeOK, Goes, Becomes
  <2>b. IdsOK'
      BY <1>u, <1>0, <1>1, <1>2, <2>f DEF IdsOK, TypeOK, Goes, Becomes
  <2>c. RpcOK'
      BY <1>u, <1>0, <1>1, <1>2, <2>f DEF RpcOK, IdsOK, TypeOK, RpcRec, Goes, Becomes
  <2>d. OpenedOK'
      BY <1>u, <1>0, <1>1, <1>2, <2>f DEF OpenedOK, RpcOK, Goes, Becomes
  <2>e. ClosingOK'
      BY <1>u, <1>0, <1>1, <1>2, <2>f DEF ClosingOK, Running, TypeOK, Goes, Becomes
  <2>g. KeysOK'
      BY <1>u, <1>0, <1>1, <1>2, <2>f DEF KeysOK, TypeOK, Goes, Becomes
  <2>h. PatientOK'
      BY <1>u, <1>0, <1>1, <1>2, <2>f DEF PatientOK, TypeOK, Goes, Becomes
  <2>i. NothingLeftBehind'
      BY <1>u, <1>0, <1>1, <1>2, <2>f DEF NothingLeftBehind, Patient, TypeOK, Goes, Becomes
  <2> QED
      BY <2>a, <2>b, <2>c, <2>d, <2>e, <2>g, <2>h, <2>i
<1>3. CASE Reply(r, FALSE, None, None) /\ UNCHANGED instances
  <2>f. Goes(r, None, None, "replied", FALSE)
    BY <1>0, <1>3, ReplyBecomes
  <2>a. TypeOK'
      BY <1>u, <1>0, <1>1, <1>3, <2>f DEF TypeOK, Goes, Becomes
  <2>b. IdsOK'
      BY <1>u, <1>0, <1>1, <1>3, <2>f DEF IdsOK, TypeOK, Goes, Becomes
  <2>c. RpcOK'
      BY <1>u, <1>0, <1>1, <1>3, <2>f DEF RpcOK, IdsOK, TypeOK, RpcRec, Goes, Becomes
  <2>d. OpenedOK'
      BY <1>u, <1>0, <1>1, <1>3, <2>f DEF OpenedOK, RpcOK, Goes, Becomes
  <2>e. ClosingOK'
      BY <1>u, <1>0, <1>1, <1>3, <2>f DEF ClosingOK, Running, TypeOK, Goes, Becomes
  <2>g. KeysOK'
      BY <1>u, <1>0, <1>1, <1>3, <2>f DEF KeysOK, TypeOK, Goes, Becomes
  <2>h. PatientOK'
      BY <1>u, <1>0, <1>1, <1>3, <2>f DEF PatientOK, TypeOK, Goes, Becomes
  <2>i. NothingLeftBehind'
      BY <1>u, <1>0, <1>1, <1>3, <2>f DEF NothingLeftBehind, Patient, TypeOK, Goes, Becomes
  <2> QED
      BY <2>a, <2>b, <2>c, <2>d, <2>e, <2>g, <2>h, <2>i
<1> QED
    BY <1>0, <1>2, <1>3 DEF StoreInstance

(* Whoever takes an instance out of the table is the only one to close it. *)
LEMMA ServeCloseStep ==
    ASSUME IInv, NEW r \in Rpcs, ServeClose(r)
    PROVE  IInv'
<1> USE DEF IInv
<1>u. rpc[r].stage = "sent" /\ rpc[r].op = "Close" /\ UNCHANGED <<id, closed, held, service, keys, openedBy>>
    BY DEF ServeClose, clientVars
<1>1. CASE /\ rpc[r].id \in instances /\ instances' = instances \ {rpc[r].id}
           /\ rpc' = [rpc EXCEPT ![r].stage = "running"]
  <2>0. PICK i \in instances : i = rpc[r].id
    BY <1>1
  <2>f. /\ Goes(r, i, rpc[r].key, "running", rpc[r].ok) /\ instances' = instances \ {i}
        /\ service[i] = "open"
    BY <1>1, <2>0, RunBecomes DEF IdsOK
  <2>a. TypeOK'
      BY <1>u, <2>0, <2>f DEF TypeOK, Goes, Becomes
  <2>b. IdsOK'
      BY <1>u, <2>0, <2>f DEF IdsOK, TypeOK, Goes, Becomes
  <2>c. RpcOK'
      BY <1>u, <2>0, <2>f DEF RpcOK, IdsOK, TypeOK, RpcRec, Goes, Becomes
  <2>d. OpenedOK'
      BY <1>u, <2>0, <2>f DEF OpenedOK, RpcOK, Goes, Becomes
  <2>e. ClosingOK'
      BY <1>u, <2>0, <2>f DEF ClosingOK, Running, TypeOK, Goes, Becomes
  <2>g. KeysOK'
      BY <1>u, <2>0, <2>f DEF KeysOK, TypeOK, Goes, Becomes
  <2>h. PatientOK'
      BY <1>u, <2>0, <2>f DEF PatientOK, TypeOK, Goes, Becomes
  <2>i. NothingLeftBehind'
      BY <1>u, <2>0, <2>f DEF NothingLeftBehind, Patient, TypeOK, Goes, Becomes
  <2> QED
      BY <2>a, <2>b, <2>c, <2>d, <2>e, <2>g, <2>h, <2>i
<1>2. CASE Reply(r, FALSE, None, None) /\ UNCHANGED instances
    BY <1>u, <1>2, ReplyBecomes, Answers
<1> QED
    BY <1>1, <1>2 DEF ServeClose

(* A cleanup removes a key that nobody holds.                              *)
LEMMA CloseKeyStep ==
    ASSUME IInv, NEW r \in Rpcs, ServeCloseKey(r)
    PROVE  IInv'
<1> USE DEF IInv
<1>1. /\ rpc[r].stage = "sent" /\ rpc[r].op = "CloseKey" /\ UNCHANGED <<id, closed, held, instances, service, openedBy>>
      /\ keys' = [keys EXCEPT ![rpc[r].key] = None]
    BY DEF ServeCloseKey, clientVars
<1>2. /\ keys' \in [KeyIds -> Ids \cup {None}]
      /\ \A k \in KeyIds : keys'[k] = IF k = rpc[r].key THEN None ELSE keys[k]
    BY <1>1 DEF TypeOK
<1>3. Goes(r, None, None, "replied", TRUE)
    BY ReplyBecomes DEF ServeCloseKey
<1>a. TypeOK'
    BY <1>1, <1>2, <1>3 DEF TypeOK, Goes, Becomes
<1>b. IdsOK'
    BY <1>1, <1>2, <1>3 DEF IdsOK, TypeOK, Goes, Becomes
<1>c. RpcOK'
    BY <1>1, <1>2, <1>3 DEF RpcOK, IdsOK, TypeOK, RpcRec, Goes, Becomes
<1>d. OpenedOK'
    BY <1>1, <1>2, <1>3 DEF OpenedOK, RpcOK, Goes, Becomes
<1>e. ClosingOK'
    BY <1>1, <1>2, <1>3 DEF ClosingOK, Running, TypeOK, Goes, Becomes
<1>g. KeysOK'
  <2>1. \A c \in Clients : \A k \in held[c] : k \in KeyIds /\ k # rpc[r].key
    BY <1>1, NamesAssumption DEF KeysOK, TypeOK
  <2>2. \A c \in Clients : \A k \in held'[c] : keys'[k] # None /\ openedBy'[keys'[k]] = c
    BY <1>1, <1>2, <2>1 DEF KeysOK
  <2>3. \A s \in Rpcs : rpc'[s].key # None =>
          s # r /\ rpc'[s] = rpc[s] /\ rpc[s].key \in KeyIds
    BY <1>3 DEF Goes, Becomes, TypeOK, RpcRec
  <2>4. \A s \in Rpcs : s # r /\ rpc[s].key # None /\ rpc[s].op = "GetKey" => rpc[s].key # rpc[r].key
    BY DEF KeysOK
  <2>5. \A s \in Rpcs : rpc'[s].key # None =>
          \/ keys'[rpc[s].key] = None /\ rpc[s].op # "GetKey"
          \/ keys'[rpc[s].key] = keys[rpc[s].key]
    BY <1>2, <2>3, <2>4
  <2>6. \A s \in Rpcs : rpc'[s].key # None => rpc[s].key # None
    BY <2>3
  <2>7. \A q, s \in Rpcs : rpc'[q].key # None /\ rpc[q].key # rpc[s].key => rpc'[s].key # rpc'[q].key
    BY <1>3, <2>3 DEF Goes, Becomes
  <2> QED
    BY <1>1, <2>2, <2>3, <2>5, <2>6, <2>7 DEF KeysOK
<1>h. PatientOK'
    BY <1>1, <1>2, <1>3 DEF PatientOK, TypeOK, Goes, Becomes
<1>i. NothingLeftBehind'
    BY <1>1, <1>2, <1>3 DEF NothingLeftBehind, Patient, TypeOK, Goes, Becomes
<1> QED
    BY <1>a, <1>b, <1>c, <1>d, <1>e, <1>g, <1>h, <1>i

(* A handler comes back from the object it called into.                    *)
LEMMA FinishStep ==
    ASSUME IInv, NEW r \in Rpcs, Finish(r)
    PROVE  IInv'
<1> USE DEF IInv
<1>u. rpc[r].stage = "running" /\ UNCHANGED <<id, closed, held, instances, openedBy>>
    BY DEF Finish, clientVars
<1>1. CASE rpc[r].op \in {"Use", "KeyOp"} /\ Reply(r, TRUE, None, None) /\ UNCHANGED <<service, keys>>
    BY <1>u, <1>1, ReplyBecomes, Answers
<1>2. CASE rpc[r].op = "GetKey" /\ Reply(r, FALSE, None, None) /\ UNCHANGED <<service, keys>>
    BY <1>u, <1>2, ReplyBecomes, Answers
<1>3. CASE /\ rpc[r].op = "GetKey" /\ UNCHANGED service
           /\ \E k \in KeyIds :
                /\ keys[k] = None
                /\ \A c \in Clients : k \notin held[c]
                /\ \A s \in Rpcs : rpc[s].key # k
                /\ keys' = [keys EXCEPT ![k] = rpc[r].id]
                /\ Reply(r, TRUE, None, k)
  <2>1. PICK k \in KeyIds : /\ keys[k] = None
                            /\ \A c \in Clients : k \notin held[c]
                            /\ \A s \in Rpcs : rpc[s].key # k
                            /\ keys' = [keys EXCEPT ![k] = rpc[r].id]
                            /\ Reply(r, TRUE, None, k)
    BY <1>3
  <2>2. /\ rpc[r].id \in Ids /\ rpc[r].id # None /\ openedBy[rpc[r].id] = rpc[r].client
        /\ service[rpc[r].id] # "none" /\ k # None
    BY <1>u, <1>3, NamesAssumption DEF RpcOK, TypeOK, RpcRec
  <2>3. /\ keys' \in [KeyIds -> Ids \cup {None}] /\ keys'[k] = rpc[r].id
        /\ \A j \in KeyIds : j # k => keys'[j] = keys[j]
    BY <2>1, <2>2 DEF TypeOK
  <2>f. /\ Goes(r, None, k, "replied", TRUE) /\ rpc[r].op = "GetKey" /\ rpc[r].stage = "running"
        /\ UNCHANGED <<id, closed, held, instances, service, openedBy>>
    BY <1>u, <1>3, <2>1, ReplyBecomes
  <2>4. (\A c \in Clients : k \notin held[c]) /\ \A s \in Rpcs : rpc[s].key # k
    BY <2>1
  <2>a. TypeOK'
      BY <2>3, <2>f DEF TypeOK, Goes, Becomes
  <2>b. IdsOK'
      BY <2>2, <2>3, <2>f, <2>4 DEF IdsOK, TypeOK, Goes, Becomes
  <2>c. RpcOK'
      BY <2>2, <2>3, <2>f, <2>4 DEF RpcOK, IdsOK, TypeOK, RpcRec, Goes, Becomes
  <2>d. OpenedOK'
      BY <2>2, <2>3, <2>f, <2>4 DEF OpenedOK, RpcOK, Goes, Becomes
  <2>e. ClosingOK'
      BY <2>2, <2>3, <2>f, <2>4 DEF ClosingOK, Running, TypeOK, Goes, Becomes
  <2>g. KeysOK'
    <3>1. \A c \in Clients : \A j \in held'[c] : keys'[j] # None /\ openedBy'[keys'[j]] = c
      BY <2>3, <2>f, <2>4 DEF KeysOK, TypeOK
    <3>2. \A s \in Rpcs : s # r => rpc'[s] = rpc[s] /\ rpc[s].key # k
      BY <2>f, <2>4 DEF Goes, Becomes
    <3>3. \A s \in Rpcs : s # r /\ rpc[s].key # None => keys'[rpc[s].key] = keys[rpc[s].key]
      BY <2>3, <2>4 DEF TypeOK, RpcRec
    <3>4. /\ rpc'[r].key = k /\ rpc'[r].op = "GetKey" /\ rpc'[r].stage = "replied"
          /\ rpc'[r].ok /\ rpc'[r].client = rpc[r].client
      BY <2>f DEF Goes, Becomes
    <3>5. \A s \in Rpcs : rpc'[s].key # None =>
            /\ keys'[rpc'[s].key] # None => openedBy'[keys'[rpc'[s].key]] = rpc'[s].client
            /\ rpc'[s].op \in {"GetKey", "KeyOp", "CloseKey"}
            /\ rpc'[s].op = "CloseKey" => rpc'[s].stage = "sent"
            /\ rpc'[s].op \in {"GetKey", "CloseKey"} => \A c \in Clients : rpc'[s].key \notin held'[c]
      BY <2>2, <2>3, <2>f, <2>4, <3>2, <3>3, <3>4 DEF KeysOK
    <3>6. \A s \in Rpcs : rpc'[s].key # None /\ rpc'[s].op = "GetKey" =>
            /\ rpc'[s].stage = "replied" /\ rpc'[s].ok
            /\ keys'[rpc'[s].key] # None
      BY <2>2, <2>3, <2>f, <3>2, <3>3, <3>4 DEF KeysOK
    <3>7. \A q, s \in Rpcs : rpc'[q].key # None /\ rpc'[q].op = "GetKey" /\ s # q => rpc'[s].key # rpc'[q].key
      BY <3>2, <3>4 DEF KeysOK
    <3> QED
      BY <3>1, <3>5, <3>6, <3>7 DEF KeysOK
  <2>h. PatientOK'
      BY <2>2, <2>3, <2>f, <2>4 DEF PatientOK, TypeOK, Goes, Becomes
  <2>i. NothingLeftBehind'
    <3>1. \A j \in instances : Patient(j) =>
            id[openedBy[j]] = j \/ \E s \in Rpcs : rpc'[s].id = j /\ rpc'[s].op = "Open"
      BY <2>f DEF NothingLeftBehind, Goes, Becomes
    <3>2. ASSUME NEW j \in KeyIds, keys'[j] # None, Patient(keys'[j])
          PROVE  \/ j \in held[openedBy[keys'[j]]]
                 \/ \E s \in Rpcs : rpc'[s].key = j /\ rpc'[s].op \in {"GetKey", "CloseKey"}
      <4>1. CASE j = k
        BY <2>f, <4>1 DEF Goes, Becomes
      <4>2. CASE j # k
        <5>1. keys'[j] = keys[j]
          BY <2>3, <4>2
        <5>2. rpc[r].key # j
          BY <1>u, <1>3, NamesAssumption DEF KeysOK
        <5> QED
          BY <2>f, <3>2, <5>1, <5>2 DEF NothingLeftBehind, Goes, Becomes
      <4> QED
        BY <4>1, <4>2
    <3> QED
      BY <2>f, <3>1, <3>2 DEF NothingLeftBehind, Patient
  <2> QED
      BY <2>a, <2>b, <2>c, <2>d, <2>e, <2>g, <2>h, <2>i
<1>4. ASSUME NEW ok \in BOOLEAN, NEW after \in {"closed", "failed"}, rpc[r].op = "Close",
             service' = [service EXCEPT ![rpc[r].id] = after],
             Reply(r, ok, None, None), UNCHANGED keys
      PROVE  IInv'
  <2>0. PICK i \in Ids : i = rpc[r].id
    BY <1>u, <1>4 DEF RpcOK, TypeOK, RpcRec
  <2>1. /\ service' \in [Ids -> ServiceStates] /\ service'[i] = after
        /\ \A j \in Ids : j # i => service'[j] = service[j]
    BY <1>4, <2>0 DEF TypeOK, ServiceStates
  <2>2. i \notin instances /\ \A s \in Rpcs : Running(s, "Close", i) => s = r
    BY <1>u, <1>4, <2>0 DEF ClosingOK
  <2>f. /\ Goes(r, None, None, "replied", ok) /\ rpc[r].op = "Close"
        /\ UNCHANGED <<id, closed, held, instances, keys, openedBy>>
    BY <1>u, <1>4, ReplyBecomes
  <2>3. \A s \in Rpcs : rpc[s].stage = "opened" => rpc[s].id # i
    BY <1>u, <2>0 DEF OpenedOK
  <2>4. \A s \in Rpcs : rpc[s].id # None /\ rpc[s].id # i => service'[rpc[s].id] = service[rpc[s].id]
    BY <2>1 DEF TypeOK, RpcRec
  <2>5. /\ rpc'[r].stage = "replied" /\ rpc'[r].id = None
        /\ \A s \in Rpcs : s # r => rpc'[s] = rpc[s]
    BY <2>f DEF Goes, Becomes
  <2>a. TypeOK'
      BY <2>1, <2>f DEF TypeOK, Goes, Becomes
  <2>b. IdsOK'
      BY <1>u, <2>0, <2>1, <2>2, <2>f, <2>3 DEF IdsOK, TypeOK, Goes, Becomes
  <2>c. RpcOK'
      BY <1>u, <2>0, <2>1, <2>2, <2>f, <2>3 DEF RpcOK, IdsOK, TypeOK, RpcRec, Goes, Becomes
  <2>d. OpenedOK'
      BY <2>f, <2>3, <2>4, <2>5 DEF OpenedOK, RpcOK
  <2>e. ClosingOK'
    <3>1. \A s \in Rpcs : s # r /\ rpc[s].stage = "running" /\ rpc[s].op = "Close" =>
            rpc[s].id # i /\ rpc[s].id # None
      BY <2>2 DEF RpcOK, Running
    <3> QED
      BY <2>f, <2>4, <2>5, <3>1 DEF ClosingOK, Running
  <2>g. KeysOK'
      BY <1>u, <2>0, <2>1, <2>2, <2>f, <2>3 DEF KeysOK, TypeOK, Goes, Becomes
  <2>h. PatientOK'
      BY <1>u, <2>0, <2>1, <2>2, <2>f, <2>3 DEF PatientOK, TypeOK, Goes, Becomes
  <2>i. NothingLeftBehind'
      BY <2>f, LeftSame DEF Goes, Becomes
  <2> QED
      BY <2>a, <2>b, <2>c, <2>d, <2>e, <2>g, <2>h, <2>i
<1> QED
    BY <1>1, <1>2, <1>3, <1>4 DEF Finish

-----------------------------------------------------------------------------
(***************************************************************************)
(* The theorems                                                            *)
(***************************************************************************)

LEMMA InitIInv == Init => IInv
<1> SUFFICES ASSUME Init PROVE IInv
    OBVIOUS
<1> DEFINE c == CHOOSE x \in Clients : TRUE
<1>1. c \in Clients
    BY NamesAssumption
<1>2. FreeRpc = [op |-> "Use", client |-> c, id |-> None, key |-> None,
                 stage |-> "free", waiting |-> FALSE, ok |-> FALSE]
    BY DEF FreeRpc
<1> HIDE DEF c
<1>3. \A r \in Rpcs : /\ rpc[r] \in RpcRec /\ rpc[r].op = "Use" /\ rpc[r].id = None
                       /\ rpc[r].key = None /\ rpc[r].stage = "free"
    BY <1>1, <1>2 DEF Init, RpcRec, Stages, OpNames
<1>4. TypeOK
    BY <1>3 DEF Init, TypeOK, ServiceStates
<1>5. IdsOK /\ RpcOK /\ OpenedOK /\ ClosingOK
    BY <1>3 DEF Init, IdsOK, RpcOK, OpenedOK, ClosingOK
<1>6. KeysOK /\ PatientOK /\ NothingLeftBehind
    BY <1>3 DEF Init, KeysOK, PatientOK, NothingLeftBehind
<1> QED
    BY <1>4, <1>5, <1>6 DEF IInv

LEMMA StepIInv == IInv /\ [Next]_vars => IInv'
<1> SUFFICES ASSUME IInv, [Next]_vars PROVE IInv'
    OBVIOUS
<1>1. ASSUME NEW r \in Rpcs, NEW c \in Clients,
             CallOpen(r, c) \/ CallUse(r, c) \/ CallKeyOp(r, c) \/ CallClose(r, c) \/ CollectKey(r, c)
      PROVE  IInv'
    BY <1>1, CallOpenStep, CallUseStep, CallKeyOpStep, CallCloseStep, CollectStep
<1>2. ASSUME NEW r \in Rpcs, Return(r) \/ Timeout(r) PROVE IInv'
    BY <1>2, ReturnStep, TimeoutStep
<1>3. ASSUME NEW r \in Rpcs, Serve(r) PROVE IInv'
    BY <1>3, ServeOpenStep, StoreStep, LookupStep, ServeCloseStep, CloseKeyStep, FinishStep DEF Serve
<1>4. CASE UNCHANGED vars
    BY <1>4 DEF vars, IInv, TypeOK, IdsOK, RpcOK, OpenedOK, ClosingOK, KeysOK, PatientOK,
                NothingLeftBehind, Running, Patient
<1> QED
    BY <1>1, <1>2, <1>3, <1>4 DEF Next

LEMMA AlwaysIInv == Spec => []IInv
BY InitIInv, StepIInv, PTL DEF Spec

(* Type correctness of host and plugin.                                    *)
THEOREM TypeCorrect == Spec => []TypeOK
<1>1. IInv => TypeOK
    BY DEF IInv
<1> QED
    BY <1>1, AlwaysIInv, PTL

(* An object in the plugin is closed once, by one handler, and when its    *)
(* client waits for its calls nothing else runs in it then, however the    *)
(* requests of all clients interleave and whatever others time out on.     *)
THEOREM CloseIsAloneHolds == Spec => []CloseIsAlone
<1>1. IInv => CloseIsAlone
  <2> SUFFICES ASSUME IInv, NEW r \in Rpcs, NEW s \in Rpcs, NEW i \in Ids, Running(r, "Close", i)
               PROVE  /\ service[i] = "open"
                      /\ Running(s, "Close", i) => s = r
                      /\ Patient(i) =>
                            /\ ~Running(s, "Use", i) /\ ~Running(s, "GetKey", i)
                            /\ ~(rpc[s].stage = "running" /\ rpc[s].op = "KeyOp"
                                 /\ keys[rpc[s].key] = i)
    BY DEF CloseIsAlone
  <2> USE DEF IInv
  <2>1. service[i] = "open" /\ (Running(s, "Close", i) => s = r)
    BY DEF ClosingOK, Running
  <2>2. i # None
    BY NamesAssumption
  <2>3. rpc[r].client = openedBy[i] /\ openedBy[i] \in closed
    BY <2>2 DEF RpcOK, Running
  <2>4. ASSUME Patient(i), rpc[s].client = openedBy[i], rpc[s].stage = "running"
        PROVE  rpc[s].op \in {"Close", "CloseKey"}
    BY <2>3, <2>4 DEF PatientOK, Patient
  <2>5. rpc[s].id = i => rpc[s].client = openedBy[i]
    BY <2>2 DEF RpcOK
  <2>6. rpc[s].op = "KeyOp" /\ rpc[s].stage = "running" /\ keys[rpc[s].key] = i
        => rpc[s].client = openedBy[i]
    BY <2>2 DEF RpcOK, KeysOK
  <2> QED
    BY <2>1, <2>4, <2>5, <2>6 DEF Running
<1> QED
    BY <1>1, AlwaysIInv, PTL

(* The server's tables keep no instance and no key of a client that waits  *)
(* without that client being able to have it removed.                      *)
THEOREM NothingLeftBehindHolds == Spec => []NothingLeftBehind
<1>1. IInv => NothingLeftBehind
    BY DEF IInv
<1> QED
    BY <1>1, AlwaysIInv, PTL
=============================================================================
