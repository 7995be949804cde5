---------------------------- MODULE PluginService ----------------------------
(***************************************************************************)
(* A KMS or a wrapper consumed over the plugin mechanism (plugin/): the    *)
(* client objects of the host, the RPCs between host and plugin process,   *)
(* and the tables of instances and keys of the server.                     *)
(*                                                                         *)
(* gRPCKMSServer and gRPCWrapperServer keep instances the same way: Open   *)
(* stands for KMS.Open and Wrapper.SetConfig, Close for KMS.Close and      *)
(* Wrapper.Finalize, Use for a wrapper's Type, KeyId, Init, Encrypt and    *)
(* Decrypt.  GetKey, KeyOp and CloseKey are the KMS's.                     *)
(*                                                                         *)
(* gRPC handles every request in a thread of its own.  A call whose        *)
(* context ends returns an error to the host at once, while its handler    *)
(* in the plugin runs on.                                                  *)
(***************************************************************************)
EXTENDS Naturals, FiniteSets

CONSTANTS
    Clients,   \* gRPCKMSClient or gRPCWrapperClient objects of the host
    Rpcs,      \* bound: how many RPCs are in progress at a time
    Ids,       \* bound: the instance identifiers (UUIDs) ever generated
    KeyIds,    \* bound: the key identifiers ever generated
    Impatient  \* the clients whose calls may time out

None == "none"

ASSUME ImpatientAssumption == Impatient \subseteq Clients
ASSUME NamesAssumption == /\ Clients # {}
                          /\ None \notin Clients \cup Ids \cup KeyIds

VARIABLES
    id,         \* per client, c.id
    closed,     \* the clients whose user called Close
    held,       \* per client, the keys the host has a handle to
    rpc,        \* per RPC: op, client, id, key, stage, waiting, ok
    instances,  \* server: the keys of the map services / instances
    service,    \* per identifier, the state of the object behind it
    keys,       \* server: the map keys, from key to instance, or None
    openedBy    \* per identifier, the client whose request created it (no
                \* code reads it; it tells whose instance an orphan is)

vars == <<id, closed, held, rpc, instances, service, keys, openedBy>>
clientVars == <<id, closed, held>>
serverVars == <<instances, service, keys, openedBy>>

OpNames == {"Open", "Use", "GetKey", "KeyOp", "Close", "CloseKey"}

(* "sent": not handled yet.  "opened": Open has a service, but did not     *)
(* store it yet.  "running": the handler looked up the instance or key,    *)
(* let go of the lock and calls into it.  "replied": the answer is on its  *)
(* way to the host.                                                        *)
Stages == {"free", "sent", "opened", "running", "replied"}

(* "failed": the object's Close or Finalize returned an error.              *)
ServiceStates == {"none", "open", "closed", "failed"}

RpcRec == [op : OpNames, client : Clients, id : Ids \cup {None},
           key : KeyIds \cup {None}, stage : Stages,
           waiting : BOOLEAN, ok : BOOLEAN]

TypeOK ==
    /\ id \in [Clients -> Ids \cup {None}]
    /\ closed \subseteq Clients
    /\ held \in [Clients -> SUBSET KeyIds]
    /\ rpc \in [Rpcs -> RpcRec]
    /\ instances \subseteq Ids
    /\ service \in [Ids -> ServiceStates]
    /\ keys \in [KeyIds -> Ids \cup {None}]
    /\ openedBy \in [Ids -> Clients \cup {None}]

FreeRpc == [op |-> "Use", client |-> CHOOSE c \in Clients : TRUE, id |-> None,
            key |-> None, stage |-> "free", waiting |-> FALSE, ok |-> FALSE]

Init ==
    /\ id = [c \in Clients |-> None]
    /\ closed = {}
    /\ held = [c \in Clients |-> {}]
    /\ rpc = [r \in Rpcs |-> FreeRpc]
    /\ instances = {}
    /\ service = [i \in Ids |-> "none"]
    /\ keys = [k \in KeyIds |-> None]
    /\ openedBy = [i \in Ids |-> None]

-----------------------------------------------------------------------------
(***************************************************************************)
(* The host.  It respects the interfaces: one Open at a time, no use       *)
(* before it succeeded or after Close, and Close once the calls it made    *)
(* have returned.                                                          *)
(***************************************************************************)
Awaited(c) == {r \in Rpcs : rpc[r].stage # "free" /\ rpc[r].waiting
                            /\ rpc[r].client = c /\ rpc[r].op # "CloseKey"}

Send(r, op, c, k) ==
    /\ rpc[r].stage = "free"
    /\ rpc' = [rpc EXCEPT ![r] =
                 [op |-> op, client |-> c, id |-> id[c], key |-> k,
                  stage |-> "sent", waiting |-> TRUE, ok |-> FALSE]]

(* Open and SetConfig refuse a client that has an identifier already.      *)
CallOpen(r, c) ==
    /\ id[c] = None /\ Awaited(c) = {}
    /\ Send(r, "Open", c, None)
    /\ UNCHANGED <<clientVars, serverVars>>

CallUse(r, c) ==
    /\ id[c] # None /\ c \notin closed
    /\ \E op \in {"Use", "GetKey"} : Send(r, op, c, None)
    /\ UNCHANGED <<clientVars, serverVars>>

CallKeyOp(r, c) ==
    /\ c \notin closed
    /\ \E k \in held[c] : Send(r, "KeyOp", c, k)
    /\ UNCHANGED <<clientVars, serverVars>>

(* Close leaves c.id alone: a Close that timed out may be tried again.     *)
CallClose(r, c) ==
    /\ id[c] # None /\ Awaited(c) = {}
    /\ Send(r, "Close", c, None)
    /\ closed' = closed \cup {c}
    /\ UNCHANGED <<id, held, serverVars>>

(* The cleanup that GetKey registers: the garbage collector found a key    *)
(* nobody uses any more.                                                   *)
CollectKey(r, c) ==
    /\ \E k \in held[c] :
         /\ \A s \in Awaited(c) : rpc[s].key # k
         /\ Send(r, "CloseKey", c, k)
         /\ held' = [held EXCEPT ![c] = @ \ {k}]
    /\ UNCHANGED <<id, closed, serverVars>>

(* The answer arrives; nobody looks at one that comes too late.            *)
MutantReturnLateKey(r) ==
    /\ rpc[r].stage = "replied"
    /\ id' = [id EXCEPT ![rpc[r].client] = rpc[r].id]
    /\ held' = [held EXCEPT ![rpc[r].client] = @ \cup {rpc[r].key}]
    /\ rpc' = [rpc EXCEPT ![r] = FreeRpc]
    /\ UNCHANGED <<closed, serverVars>>

Return(r) ==
    /\ rpc[r].stage = "replied"
    /\ LET m == rpc[r]
           news == m.waiting /\ m.ok IN
         /\ id' = IF news /\ m.op = "Open"
                    THEN [id EXCEPT ![m.client] = m.id] ELSE id
         /\ held' = IF news /\ m.op = "GetKey"
                      THEN [held EXCEPT ![m.client] = @ \cup {m.key}] ELSE held
    /\ rpc' = [rpc EXCEPT ![r] = FreeRpc]
    /\ UNCHANGED <<closed, serverVars>>

(* The context of a call ends: a request that is not on its way yet never  *)
(* arrives, a handler that began runs on.  The cleanup's context is the    *)
(* plugin's own.                                                           *)
Timeout(r) ==
    /\ rpc[r].client \in Impatient
    /\ rpc[r].stage # "free" /\ rpc[r].waiting /\ rpc[r].op # "CloseKey"
    /\ \/ rpc' = [rpc EXCEPT ![r].waiting = FALSE]
       \/ rpc[r].stage = "sent" /\ rpc' = [rpc EXCEPT ![r] = FreeRpc]
    /\ UNCHANGED <<clientVars, serverVars>>

-----------------------------------------------------------------------------
(***************************************************************************)
(* The plugin                                                              *)
(***************************************************************************)
Reply(r, ok, i, k) ==
    rpc' = [rpc EXCEPT ![r].stage = "replied", ![r].ok = ok,
                       ![r].id = i, ![r].key = k]

(* Open: the factory's new object is opened, which may fail, ...           *)
ServeOpen(r) ==
    /\ rpc[r].stage = "sent" /\ rpc[r].op = "Open"
    /\ \/ /\ Reply(r, FALSE, None, None)
          /\ UNCHANGED <<service, openedBy>>
       \/ \E i \in Ids : /\ service[i] = "none"
                         /\ service' = [service EXCEPT ![i] = "open"]
                         /\ openedBy' = [openedBy EXCEPT ![i] = rpc[r].client]
                         /\ rpc' = [rpc EXCEPT ![r].stage = "opened",
                                               ![r].id = i]
    /\ UNCHANGED <<clientVars, instances, keys>>

(* ... and stored under a new identifier, unless none can be generated:    *)
(* then the object stays open and nobody can reach it.                     *)
StoreInstance(r) ==
    /\ rpc[r].stage = "opened"
    /\ \/ /\ instances' = instances \cup {rpc[r].id}
          /\ Reply(r, TRUE, rpc[r].id, None)
       \/ /\ Reply(r, FALSE, None, None)
          /\ UNCHANGED instances
    /\ UNCHANGED <<clientVars, service, keys, openedBy>>

(* The handlers that only look up an instance or a key.                    *)
ServeLookup(r) ==
    /\ rpc[r].stage = "sent" /\ rpc[r].op \in {"Use", "GetKey", "KeyOp"}
    /\ LET found == IF rpc[r].op = "KeyOp" THEN keys[rpc[r].key] # None
                                           ELSE rpc[r].id \in instances
       IN  IF found THEN rpc' = [rpc EXCEPT ![r].stage = "running"]
                    ELSE Reply(r, FALSE, None, None)
    /\ UNCHANGED <<clientVars, serverVars>>

(* Close takes the instance out of the table under the lock, so that only  *)
(* one handler gets hold of it.                                            *)
MutantCloseForgets(r) ==
    /\ rpc[r].stage = "sent" /\ rpc[r].op = "Close"
    /\ instances' = instances \ {rpc[r].id}
    /\ Reply(r, TRUE, None, None)
    /\ UNCHANGED <<clientVars, service, keys, openedBy>>

MutantCloseLooksUp(r) ==
    /\ rpc[r].stage = "sent" /\ rpc[r].op = "Close"
    /\ IF rpc[r].id \in instances
         THEN rpc' = [rpc EXCEPT ![r].stage = "running"]
         ELSE Reply(r, FALSE, None, None)
    /\ UNCHANGED <<clientVars, serverVars>>

ServeClose(r) ==
    /\ rpc[r].stage = "sent" /\ rpc[r].op = "Close"
    /\ IF rpc[r].id \in instances
         THEN /\ instances' = instances \ {rpc[r].id}
              /\ rpc' = [rpc EXCEPT ![r].stage = "running"]
         ELSE /\ Reply(r, FALSE, None, None)
              /\ UNCHANGED instances
    /\ UNCHANGED <<clientVars, service, keys, openedBy>>

MutantCloseKeyIgnored(r) ==
    /\ rpc[r].stage = "sent" /\ rpc[r].op = "CloseKey"
    /\ Reply(r, TRUE, None, None)
    /\ UNCHANGED <<clientVars, serverVars>>

ServeCloseKey(r) ==
    /\ rpc[r].stage = "sent" /\ rpc[r].op = "CloseKey"
    /\ keys' = [keys EXCEPT ![rpc[r].key] = None]
    /\ Reply(r, TRUE, None, None)
    /\ UNCHANGED <<clientVars, instances, service, openedBy>>

(* The call into the object returns, with an error (ok = FALSE) or not.    *)
(* An object whose Close fails is out of the table all the same: nobody    *)
(* can try again.  How a Use or a KeyOp ends changes nothing in the plugin *)
(* or the client, so that one answer stands for both.                      *)
Finish(r) ==
    /\ rpc[r].stage = "running"
    /\ \/ /\ rpc[r].op \in {"Use", "KeyOp"}
          /\ Reply(r, TRUE, None, None)
          /\ UNCHANGED <<service, keys>>
       \/ /\ rpc[r].op = "GetKey"
          /\ \/ /\ Reply(r, FALSE, None, None)
                /\ UNCHANGED keys
             \/ \E k \in KeyIds :
                  /\ keys[k] = None
                  /\ \A c \in Clients : k \notin held[c]
                  /\ \A s \in Rpcs : rpc[s].key # k
                  /\ keys' = [keys EXCEPT ![k] = rpc[r].id]
                  /\ Reply(r, TRUE, None, k)
          /\ UNCHANGED service
       \/ /\ rpc[r].op = "Close"
          /\ \/ /\ service' = [service EXCEPT ![rpc[r].id] = "closed"]
                /\ Reply(r, TRUE, None, None)
             \/ /\ service' = [service EXCEPT ![rpc[r].id] = "failed"]
                /\ Reply(r, FALSE, None, None)
          /\ UNCHANGED keys
    /\ UNCHANGED <<clientVars, instances, openedBy>>

Serve(r) == \/ ServeOpen(r) \/ StoreInstance(r) \/ ServeLookup(r)
            \/ ServeClose(r) \/ ServeCloseKey(r) \/ Finish(r)

Next == \E r \in Rpcs :
          \/ \E c \in Clients : \/ CallOpen(r, c) \/ CallUse(r, c)
                                \/ CallKeyOp(r, c) \/ CallClose(r, c)
                                \/ CollectKey(r, c)
          \/ Return(r) \/ Timeout(r)
          \/ Serve(r)

(* The plugin handles every request and gRPC delivers the answer; what the *)
(* object behind the handler does comes to an end.  The garbage collector  *)
(* runs a key's cleanup eventually only if the key is unreachable, which   *)
(* nothing forces.                                                         *)
Fairness == \A r \in Rpcs : WF_vars(Return(r)) /\ WF_vars(Serve(r))

Spec == Init /\ [][Next]_vars

FairSpec == Spec /\ Fairness

-----------------------------------------------------------------------------
(***************************************************************************)
(* Properties                                                              *)
(***************************************************************************)
Running(r, op, i) == rpc[r].stage = "running" /\ rpc[r].op = op
                     /\ rpc[r].id = i

(* The objects of a client that waits for its calls, whatever the others   *)
(* that share the plugin do.                                               *)
Patient(i) == openedBy[i] \in Clients \ Impatient

(* Finalize and Close are called "after a Wrapper is no longer in use":    *)
(* whoever asks for it and however often, a handler closes an object once  *)
(* and alone, and when its client waits for its calls no other handler is  *)
(* inside the object meanwhile.                                            *)
CloseIsAlone ==
    \A r, s \in Rpcs, i \in Ids : Running(r, "Close", i) =>
        /\ service[i] = "open"
        /\ Running(s, "Close", i) => s = r
        /\ Patient(i) =>
              /\ ~Running(s, "Use", i) /\ ~Running(s, "GetKey", i)
              /\ ~(rpc[s].stage = "running" /\ rpc[s].op = "KeyOp"
                   /\ keys[rpc[s].key] = i)

(* The tables of the plugin keep nothing of a client that waits: it can    *)
(* close every instance it opened, and every key has a holder, or is about *)
(* to get or to lose it.                                                   *)
NothingLeftBehind ==
    /\ \A i \in instances : Patient(i) =>
          \/ id[openedBy[i]] = i
          \/ \E r \in Rpcs : rpc[r].id = i /\ rpc[r].op = "Open"
    /\ \A k \in KeyIds : keys[k] # None /\ Patient(keys[k]) =>
          \/ k \in held[openedBy[keys[k]]]
          \/ \E r \in Rpcs : rpc[r].key = k /\ rpc[r].op \in {"GetKey", "CloseKey"}

(* The object behind a client's identifier, which once set stays.          *)
ServiceOf(c) == IF id[c] = None THEN "none" ELSE service[id[c]]

(* A Close that its caller waits for reaches the object, which is then     *)
(* closed or has failed to; and whoever calls it, Close reports success    *)
(* only for an object that is closed, also when it is repeated or races    *)
(* with another.                                                           *)
CloseTakesEffect ==
    /\ \A c \in Clients \ Impatient :
          c \in closed ~> ServiceOf(c) \in {"closed", "failed"}
    /\ \A c \in Clients :
          (\E r \in Rpcs : /\ rpc[r].op = "Close" /\ rpc[r].client = c
                           /\ rpc[r].stage = "replied" /\ rpc[r].ok)
             ~> ServiceOf(c) = "closed"
=============================================================================
