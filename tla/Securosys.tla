------------------------------ MODULE Securosys ------------------------------
(***************************************************************************)
(* The Securosys HSM: kms/securosyshsm (keystore, cipher, signer and       *)
(* verifier over a REST client) and wrappers/securosyshsm, whose Decrypt   *)
(* waits until the approvers of the key have decided.                      *)
(*                                                                         *)
(* An operation is a sequence of requests.  A request asks the client for  *)
(* an API key, is sent, is rejected and repeated with the next key, and is *)
(* answered; goroutines share the client, and its key index, without a     *)
(* lock.  Decrypt and Sign post a request that approvers decide on, and    *)
(* poll it.  A panic and os.Exit end the process and every call in it.     *)
(***************************************************************************)
EXTENDS Naturals, Sequences, FiniteSets

CONSTANTS
    Callers,          \* goroutines
    Labels,           \* key labels
    Data,             \* pieces of input
    Policies,         \* kinds of approvers a new key may have
    ApiKeys,          \* number of API keys configured in each group
    ApprovalTimeout,  \* approval_timeout
    CheckEvery,       \* check_every
    MaxChunks,        \* bound: pieces in a buffer
    MaxRequests,      \* bound: asynchronous requests ever posted
    MaxKeys           \* bound: keys ever created under a label

None == "none"
Groups == {"KeyManagementToken", "KeyOperationToken", "ServiceToken"}
ApproverKinds == {None, "public_key", "certificate",
                  "onboarded_approver_certificate"}

(* checkConfigFile exits unless both are positive and the timeout is the   *)
(* larger.                                                                 *)
ASSUME TimesAssumption ==
    /\ ApprovalTimeout \in Nat
    /\ CheckEvery \in Nat \ {0}
    /\ ApprovalTimeout > CheckEvery
ASSUME SizesAssumption ==
    /\ ApiKeys \in [Groups -> Nat]
    /\ Policies \subseteq ApproverKinds
    /\ {MaxChunks, MaxRequests, MaxKeys} \subseteq Nat

(* A piece of input is not the head of a ciphertext.                       *)
ASSUME DataAssumption == "sealed" \notin Data

VARIABLES
    valid,     \* service: the API keys it accepts
    keys,      \* service: the key under each label
    requests,  \* service: the asynchronous requests
    index,     \* client: CurrentApiKeyTypeIndex of each group
    store,     \* whether the keystore is open
    handles,   \* the type of each key as a key object of the process has it
    seal,      \* the wrapper's key label, type and approvers
    obj,       \* per goroutine: its cipher, signer or verifier
    call,      \* per goroutine: the call in progress and its locals
    blobs,     \* what the wrapper's Encrypt returned
    process,   \* "up" or "down"
    role       \* per goroutine: whether it uses the keystore or the wrapper

service == <<valid, keys, requests>>
client == <<index, store, handles, seal>>
vars == <<service, client, obj, call, blobs, process, role>>

-----------------------------------------------------------------------------
(***************************************************************************)
(* Data                                                                    *)
(***************************************************************************)

NoKey == [type |-> None, gen |-> 0, policy |-> None]

(* An object of a goroutine, with two histories: fed, what it was given    *)
(* since its last Close, and kept, what earlier Closes left in its buffer. *)
NoObj == [kind |-> None, label |-> None, buffer |-> <<>>, fed |-> <<>>,
          kept |-> <<>>]


NoBlob == [label |-> None, text |-> <<>>, plain |-> <<>>]
NoSeal == [label |-> None, type |-> None, policy |-> None]

(* The locals of a call: the requests it has yet to make, where it is in   *)
(* the current one, the API key that carries and the index it read; the    *)
(* answer; the id of its asynchronous request and how long it has waited.  *)
NoCall == [op |-> None, todo |-> <<>>, at |-> "idle", label |-> None,
           policy |-> None, blob |-> NoBlob, left |-> {}, key |-> {},
           loaded |-> 0, answer |-> None, id |-> 0, waited |-> 0,
           canceled |-> FALSE, payload |-> <<>>, output |-> <<>>,
           done |-> None]

(* Bytes are sequences.  base64: decoding what is not base64 gives         *)
(* nothing, and the code ignores that error.                               *)
B64(x) == <<"b64", x>>
UnB64(x) == IF Len(x) = 2 /\ x[1] = "b64" THEN x[2] ELSE <<>>

(* What the service makes of bytes with generation g of the key of a label *)
(* when it encrypts, and when it decrypts or signs other bytes.            *)
Sealed(l, g, x) == <<"sealed", l, g, x>>
Computed(l, g, x) == <<"computed", l, g, x>>
IsSealed(x) == Len(x) = 4 /\ x[1] = "sealed"

(* PreparePolicyTokens: an empty policy gives a token without groups, so   *)
(* nobody is asked; an approver is a certificate, without a name, a public *)
(* key with name and value, or else an onboarded approver, without value.  *)
PreparePolicyTokens(kind) ==
    [name |-> kind \in {"public_key", "onboarded_approver_certificate"},
     value |-> kind \in {"public_key", "certificate"}]

(* getApproverName follows both pointers of an approval that it compares   *)
(* with an approver that has not decided.                                  *)
getApproverName(kind) == kind = None \/ (PreparePolicyTokens(kind).name
                                         /\ PreparePolicyTokens(kind).value)

ObjKinds == {"encrypt", "decrypt", "gcmDecrypt", "sign", "verify"}
StoreOps == {"ListKeys", "GetKey", "GenerateSecretKey", "GenerateKeyPair",
             "RemoveKey", "GenerateRandom"}
WrapperOps == {"SetConfig", "Encrypt", "Decrypt"}

(* The requests of each operation, in order.                               *)
RequestsOf(op) ==
    CASE op \in {"decrypt", "Decrypt"} -> <<"asyncDecrypt", "poll">>
      [] op = "sign" -> <<"asyncSign", "poll">>
      [] op \in {"encrypt", "Encrypt"} -> <<"encrypt">>
      [] op = "gcmDecrypt" -> <<"decrypt">>
      [] op = "verify" -> <<"verify">>
      [] op = "ListKeys" -> <<"getKeys">>
      [] op = "GetKey" -> <<"getKey">>
      [] op \in {"GenerateSecretKey", "GenerateKeyPair"} ->
            <<"createKey", "getKey">>
      [] op = "RemoveKey" -> <<"removeKey">>
      [] op = "GenerateRandom" -> <<"random">>
      [] op = "NewKeyStore" -> <<"health">>
      [] op = "SetConfig" -> <<"health", "lookup">>

(* The group each request names in its call of doRequest.                  *)
GroupOf(r) ==
    CASE r \in {"health", "random"} -> "ServiceToken"
      [] r \in {"getKeys", "getKey", "lookup", "createKey", "removeKey"} ->
            "KeyManagementToken"
      [] OTHER -> "KeyOperationToken"

Request(c) == Head(call[c].todo)
Group(c) == GroupOf(Request(c))

(* The positions of the API keys of a group.                               *)
Numbers(g) == IF ApiKeys[g] = 0 THEN {} ELSE 0..(ApiKeys[g] - 1)

(* The wrapper hands its API keys to NewKeyStore as a structure where      *)
(* SecurosysConfig has a string: its client has none.                      *)
Configured(c) == IF call[c].op \in WrapperOps THEN 0 ELSE ApiKeys[Group(c)]

-----------------------------------------------------------------------------
(***************************************************************************)
(* Calls                                                                   *)
(***************************************************************************)

MutantEmptied(c) ==
    IF obj[c].kind \in {"gcmDecrypt", "sign"} THEN obj[c].buffer ELSE <<>>

(* How the buffer of an object is left: reset to nil on every way out of   *)
(* an operation but AES GCM decryption.                                    *)
Emptied(c) == IF obj[c].kind = "gcmDecrypt" THEN obj[c].buffer ELSE <<>>

(* What the object has been given so far and not been relieved of.         *)
Input(c) == obj[c].kept \o obj[c].fed

Up(c, r) == process = "up" /\ role[c] = r /\ call[c].at = "idle"

Start(c, op, with) ==
    call' = [call EXCEPT ![c] =
        [x \in DOMAIN NoCall |->
            CASE x \in DOMAIN with -> with[x]
              [] x = "op" -> op
              [] x = "todo" -> RequestsOf(op)
              [] x = "at" -> "check"
              [] OTHER -> NoCall[x]]]

(* The call returns; what it was about is kept until the caller has it.    *)
Return(c, out, how) ==
    /\ call' = [call EXCEPT ![c] =
           [NoCall EXCEPT !.at = "returned", !.op = call[c].op,
                          !.label = call[c].label, !.blob = call[c].blob,
                          !.id = call[c].id,
                          !.payload = IF obj[c].kind = call[c].op
                                      THEN Input(c) ELSE <<>>,
                          !.output = out, !.done = how]]
    /\ obj' = IF obj[c].kind # call[c].op THEN obj
              ELSE [obj EXCEPT ![c] = [@ EXCEPT
                      !.buffer = Emptied(c), !.fed = <<>>,
                      !.kept = IF obj[c].kind = "gcmDecrypt" THEN Input(c)
                               ELSE <<>>]]

Taken(c) ==
    /\ call[c].at = "returned"
    /\ call' = [call EXCEPT ![c] = NoCall]
    /\ UNCHANGED <<service, client, obj, blobs, process, role>>

(* A panic or os.Exit: every goroutine of the process ends.                *)
Down ==
    /\ process' = "down"
    /\ call' = [c \in Callers |-> NoCall]
    /\ obj' = [c \in Callers |-> NoObj]
    /\ UNCHANGED role

(* The program is started again and nothing of its state survives.         *)
Restart ==
    /\ process = "down"
    /\ process' = "up"
    /\ index' = [g \in Groups |-> 0]
    /\ store' = "none"
    /\ handles' = [l \in Labels |-> None]
    /\ seal' = NoSeal
    /\ UNCHANGED <<service, obj, call, blobs, role>>

-----------------------------------------------------------------------------
(***************************************************************************)
(* Starting an operation                                                   *)
(***************************************************************************)

NewKeyStore(c) ==
    /\ Up(c, "keystore") /\ store = "none"
    /\ \A d \in Callers : call[d].op = "NewKeyStore" => call[d].at = "idle"
    /\ Start(c, "NewKeyStore", <<>>)
    /\ UNCHANGED <<service, client, obj, blobs, process, role>>

(* Close and Login only set a flag, which only ListKeys looks at.          *)
CloseLogin(c) ==
    /\ Up(c, "keystore") /\ store # "none"
    /\ store' = IF store = "open" THEN "closed" ELSE "open"
    /\ UNCHANGED <<service, index, handles, seal, obj, call, blobs, process,
                   role>>

KeyStoreCall(c) ==
    /\ Up(c, "keystore") /\ store # "none"
    /\ \E op \in StoreOps, l \in Labels, p \in Policies :
          /\ op = "ListKeys" => store = "open"
          /\ op = "RemoveKey" => handles[l] # None
          /\ op # "GenerateKeyPair" => p = None
          /\ Start(c, op, [label |-> l, policy |-> p])
    /\ UNCHANGED <<service, client, obj, blobs, process, role>>

(* NewCipher takes any key; a signer or verifier needs a key pair.         *)
NewObject(c, k) ==
    /\ Up(c, "keystore")
    /\ \E l \in Labels :
          /\ handles[l] # None
          /\ k \in {"sign", "verify"} => handles[l] = "rsa"
          /\ obj' = [obj EXCEPT ![c] = [NoObj EXCEPT !.kind = k, !.label = l]]
    /\ UNCHANGED <<service, client, call, blobs, process, role>>

NewCipher(c) == \E k \in {"encrypt", "decrypt", "gcmDecrypt"} : NewObject(c, k)
NewRemoteDigestSigner(c) == NewObject(c, "sign")
NewRemoteDigestVerifier(c) == NewObject(c, "verify")

Feed(c, d) ==
    /\ Up(c, "keystore") /\ obj[c].kind # None
    /\ Len(obj[c].buffer) < MaxChunks
    /\ obj' = [obj EXCEPT ![c] = [@ EXCEPT
                  !.buffer = Append(obj[c].buffer, d),
                  !.fed = Append(obj[c].fed, d)]]

Update(c) ==
    /\ \E d \in Data : Feed(c, d)
    /\ UNCHANGED <<service, client, call, blobs, process, role>>

(* A Close that returns early with its input appended: for an algorithm it *)
(* does not know, parameters that are not those of AES GCM, or because the *)
(* context of a signer ends between its two looks at it.                   *)
CloseEarly(c) ==
    /\ Up(c, "keystore") /\ obj[c].kind \in ObjKinds \ {"verify"}
    /\ Len(obj[c].buffer) < MaxChunks
    /\ \E d \in Data :
          obj' = [obj EXCEPT ![c] = [@ EXCEPT
                    !.buffer = Append(obj[c].buffer, d), !.fed = <<>>,
                    !.kept = obj[c].kept \o Append(obj[c].fed, d)]]
    /\ UNCHANGED <<service, client, call, blobs, process, role>>

(* Close appends the last piece and operates on the whole buffer.          *)
Close(c) ==
    /\ \E d \in Data :
          /\ Feed(c, d)
          /\ Start(c, obj[c].kind, [label |-> obj[c].label,
                                    payload |-> obj'[c].buffer])
    /\ UNCHANGED <<service, client, blobs, process, role>>

(* The wrapper.  SetConfig, which callers use once, exits when a setting   *)
(* is missing or wrong or the service cannot be reached; a policy given    *)
(* rule by rule is parsed from a string that nothing was assigned to,      *)
(* which is an error every time.                                           *)
SetConfig(c) ==
    /\ Up(c, "wrapper") /\ seal = NoSeal
    /\ \A d \in Callers : call[d].op = "SetConfig" => call[d].at = "idle"
    /\ \E l \in Labels, p \in Policies \cup {"rules"} :
          \/ Down
          \/ /\ p # "rules"
             /\ Start(c, "SetConfig", [label |-> l, policy |-> p])
             /\ UNCHANGED <<obj, process, role>>
    /\ UNCHANGED <<service, client, blobs>>

(* Both assert that the key is a key pair.                                 *)
SealEncrypt(c) ==
    /\ Up(c, "wrapper") /\ seal # NoSeal
    /\ \/ seal.type # "rsa" /\ Down
       \/ /\ seal.type = "rsa"
          /\ \E d \in Data :
                Start(c, "Encrypt", [label |-> seal.label,
                                     payload |-> B64(<<d>>)])
          /\ UNCHANGED <<obj, process, role>>
    /\ UNCHANGED <<service, client, blobs>>

SealDecrypt(c) ==
    /\ Up(c, "wrapper") /\ seal # NoSeal
    /\ \E b \in blobs :
          \/ seal.type # "rsa" /\ Down
          \/ /\ seal.type = "rsa"
             /\ Start(c, "Decrypt", [label |-> seal.label, blob |-> b,
                                     payload |-> UnB64(b.text)])
             /\ UNCHANGED <<obj, process, role>>
    /\ UNCHANGED <<service, client, blobs>>

(* Finalize closes a client that nothing ever assigned.                    *)
Finalize(c) ==
    /\ Up(c, "wrapper") /\ seal # NoSeal
    /\ Down
    /\ UNCHANGED <<service, client, blobs>>

-----------------------------------------------------------------------------
(***************************************************************************)
(* One request: doRequest                                                  *)
(***************************************************************************)

Go(c, at) == call' = [call EXCEPT ![c].at = at]

(* CanGetNewApiKeyByName: no keys, so none is needed; a key is left; or    *)
(* "All apikeys in group %s are invalid".                                  *)
CanGetNewApiKeyByName(c) ==
    /\ call[c].at = "check"
    /\ CASE Configured(c) = 0 -> call' = [call EXCEPT ![c].at = "sent",
                                                      ![c].key = {}]
         [] index[Group(c)] < Configured(c) -> Go(c, "use")
         [] OTHER -> call' = [call EXCEPT ![c].at = "answered",
                                          ![c].answer = "error"]
    /\ UNCHANGED <<service, client, obj, blobs, process, role>>

(* GetApiKeyByName reads the index again; past the end it panics.          *)
GetApiKeyByName(c) ==
    /\ call[c].at = "use"
    /\ IF index[Group(c)] < Configured(c)
       THEN /\ call' = [call EXCEPT ![c].at = "sent",
                                    ![c].key = {index[Group(c)]}]
            /\ UNCHANGED <<obj, process, role>>
       ELSE Down
    /\ UNCHANGED <<service, client, blobs>>

(* The service has no answer for the request: doRequest reads the status   *)
(* of a response it does not have.                                         *)
TransportError(c) ==
    /\ call[c].at = "sent"
    /\ Down
    /\ UNCHANGED <<service, client, blobs>>

Accepted(c) == call[c].at = "sent" /\ call[c].key \subseteq valid[Group(c)]

(* Status 401 with error code 631.                                         *)
Reject(c) ==
    /\ call[c].at = "sent" /\ ~Accepted(c)
    /\ Go(c, "rejected")
    /\ UNCHANGED <<service, client, obj, blobs, process, role>>

(* RollOverApiKey adds one to the shared index, a load and a store, and    *)
(* doRequest starts over.                                                  *)
RollOverApiKey(c) ==
    \/ /\ call[c].at = "rejected"
       /\ call' = [call EXCEPT ![c].at = "loaded",
                               ![c].loaded = index[Group(c)]]
       /\ UNCHANGED <<service, client, obj, blobs, process, role>>
    \/ /\ call[c].at = "loaded"
       /\ index' = [index EXCEPT ![Group(c)] = call[c].loaded + 1]
       /\ call' = [call EXCEPT ![c].at = "check", ![c].loaded = 0]
       /\ UNCHANGED <<service, store, handles, seal, obj, blobs, process,
                      role>>

(* The service answers.  Any request may be refused with another status.   *)
Answer(c, a) == call' = [call EXCEPT ![c].at = "answered", ![c].answer = a]

Refuse(c) ==
    /\ Accepted(c)
    /\ Answer(c, "error")
    /\ UNCHANGED <<service, client, obj, blobs, process, role>>

(* The service carries out request r for the caller, with result out.      *)
Serves(c, r) == Accepted(c) /\ Request(c) = r
TypeOf(c) == keys[call[c].label].type
GenOf(c) == keys[call[c].label].gen

Reply(c, out) ==
    /\ call' = [call EXCEPT ![c].at = "answered", ![c].answer = "ok",
                            ![c].output = out]
    /\ UNCHANGED <<service, client, obj, blobs, process, role>>

CheckConnection(c) == Serves(c, "health") /\ Reply(c, <<>>)

GenerateRandom(c) == Serves(c, "random") /\ Reply(c, <<>>)

GetKeys(c) ==
    /\ Serves(c, "getKeys")
    /\ call' = [call EXCEPT ![c].at = "answered", ![c].answer = "ok",
                            ![c].left = {l \in Labels : keys[l].type # None}]
    /\ UNCHANGED <<service, client, obj, blobs, process, role>>

(* The attributes of a key: its type and who approves its use.             *)
GetKey(c) ==
    /\ Serves(c, "getKey") \/ Serves(c, "lookup")
    /\ TypeOf(c) # None
    /\ Reply(c, <<TypeOf(c), keys[call[c].label].policy>>)

Encrypt(c) ==
    /\ Serves(c, "encrypt") /\ TypeOf(c) # None
    /\ Reply(c, Sealed(call[c].label, GenOf(c), call[c].payload))

(* The synchronous decryption, for secret keys.                            *)
Decrypt(c) ==
    /\ Serves(c, "decrypt") /\ TypeOf(c) = "aes"
    /\ Reply(c, Computed(call[c].label, GenOf(c), call[c].payload))

Verify(c) ==
    /\ Serves(c, "verify") /\ TypeOf(c) = "rsa"
    /\ Reply(c, Computed(call[c].label, GenOf(c), call[c].payload))

(* A label that is taken is refused.  GenerateSecretKey passes no policy.  *)
CreateOrUpdateKey(c) ==
    /\ Serves(c, "createKey")
    /\ TypeOf(c) = None /\ GenOf(c) < MaxKeys
    /\ keys' = [keys EXCEPT ![call[c].label] =
          [type |-> IF call[c].op = "GenerateSecretKey" THEN "aes" ELSE "rsa",
           gen |-> @.gen + 1,
           policy |-> call[c].policy]]
    /\ Answer(c, "ok")
    /\ UNCHANGED <<valid, requests, client, obj, blobs, process, role>>

RemoveKey(c) ==
    /\ Serves(c, "removeKey") /\ TypeOf(c) # None
    /\ keys' = [keys EXCEPT ![call[c].label].type = None,
                            ![call[c].label].policy = None]
    /\ Answer(c, "ok")
    /\ UNCHANGED <<valid, requests, client, obj, blobs, process, role>>

(* An asynchronous request is carried out at once, or fails, unless the    *)
(* key has approvers; only the key it was made for can carry it out.       *)
Executable(q) ==
    /\ keys[q.label].type = "rsa" /\ keys[q.label].gen = q.gen
    /\ IsSealed(q.payload) => q.payload[2] = q.label /\ q.payload[3] = q.gen

Record(c) ==
    /\ TypeOf(c) = "rsa" /\ Len(requests) < MaxRequests
    /\ \E s \in {"PENDING", "EXECUTED", "FAILED"} :
          LET q == [label |-> call[c].label, gen |-> GenOf(c),
                    payload |-> call[c].payload, status |-> s]
          IN /\ s = "PENDING" <=> keys[call[c].label].policy # None
             /\ s = "EXECUTED" => Executable(q)
             /\ requests' = Append(requests, q)
    /\ call' = [call EXCEPT ![c].at = "answered", ![c].answer = "ok",
                            ![c].id = Len(requests) + 1]
    /\ UNCHANGED <<valid, keys, client, obj, blobs, process, role>>

AsyncDecrypt(c) == Serves(c, "asyncDecrypt") /\ Record(c)

AsyncSign(c) == Serves(c, "asyncSign") /\ Record(c)

(* Approvers decide, or the request ends another way.                      *)
Decide(i) ==
    /\ requests[i].status = "PENDING"
    /\ \E s \in {"EXECUTED", "REJECTED", "FAILED"} :
          /\ s = "EXECUTED" => Executable(requests[i])
          /\ requests' = [requests EXCEPT ![i].status = s]
    /\ UNCHANGED <<valid, keys, client, obj, call, blobs, process, role>>

ResultOf(q) ==
    IF q.status # "EXECUTED" THEN <<>>
    ELSE B64(IF IsSealed(q.payload) THEN q.payload[4]
             ELSE Computed(q.label, q.gen, q.payload))

(* AsyncDecrypt's error was ignored: there is no request 0.                *)
GetRequest(c) ==
    /\ Serves(c, "poll") /\ call[c].id # 0
    /\ call' = [call EXCEPT ![c].at = "answered",
                            ![c].answer = requests[call[c].id].status,
                            ![c].output = ResultOf(requests[call[c].id])]
    /\ UNCHANGED <<service, client, obj, blobs, process, role>>

(* An API key stops being valid.                                           *)
Revoke(g, k) ==
    /\ k \in valid[g]
    /\ valid' = [valid EXCEPT ![g] = @ \ {k}]
    /\ UNCHANGED <<keys, requests, client, obj, call, blobs, process, role>>

-----------------------------------------------------------------------------
(***************************************************************************)
(* What an operation does with the answer                                  *)
(***************************************************************************)

Answered(c, r) == call[c].at = "answered" /\ Request(c) = r
Failed(c) == call[c].answer = "error"

Ask(c, todo) ==
    /\ call' = [call EXCEPT ![c].todo = todo, ![c].at = "check",
                            ![c].answer = None, ![c].output = <<>>]
    /\ UNCHANGED <<service, client, obj, blobs, process, role>>

Ends(c, out, how) ==
    /\ Return(c, out, how)
    /\ UNCHANGED <<service, index, blobs, process, role>>

(* Cipher.Decrypt goes on to poll whatever AsyncDecrypt returned.          *)
IgnoresError(c) == call[c].op = "decrypt" /\ Request(c) = "asyncDecrypt"

MutantProceed(c) ==
    /\ call[c].at = "answered"
    /\ ~Failed(c) \/ IgnoresError(c)
    /\ Ask(c, Tail(call[c].todo))

Proceed(c) ==
    /\ call[c].at = "answered" /\ Len(call[c].todo) > 1
    /\ ~Failed(c) \/ IgnoresError(c)
    /\ Ask(c, Tail(call[c].todo))

(* newSecurosysHSMClient takes any error of the lookup for a missing key.  *)
CreateMissing(c) ==
    /\ Answered(c, "lookup") /\ Failed(c)
    /\ Ask(c, <<"createKey", "getKey">>)

(* ListKeys fetches the listed keys one by one and skips those that fail.  *)
NextListed(c) ==
    /\ call[c].op = "ListKeys" /\ call[c].at = "answered"
    /\ Request(c) = "getKeys" => ~Failed(c)
    /\ handles' = IF Request(c) = "getKey" /\ ~Failed(c)
                  THEN [handles EXCEPT ![call[c].label] = call[c].output[1]]
                  ELSE handles
    /\ \/ /\ call[c].left = {}
          /\ Return(c, <<>>, "ok")
       \/ /\ \E l \in call[c].left :
                call' = [call EXCEPT ![c].left = @ \ {l}, ![c].label = l,
                           ![c].todo = <<"getKey">>, ![c].at = "check",
                           ![c].answer = None, ![c].output = <<>>]
          /\ UNCHANGED obj
    /\ UNCHANGED <<service, index, store, seal, blobs, process, role>>

(* The other operations return the error.                                  *)
ReturnError(c) ==
    /\ call[c].at = "answered" /\ Failed(c)
    /\ ~IgnoresError(c)
    /\ Request(c) \notin {"poll", "lookup"}
    /\ call[c].op = "ListKeys" => Request(c) = "getKeys"
    /\ Ends(c, <<>>, "error")
    /\ UNCHANGED <<store, handles, seal>>

Opened(c) ==
    /\ Answered(c, "health") /\ ~Failed(c) /\ call[c].op = "NewKeyStore"
    /\ store' = "open"
    /\ Ends(c, <<>>, "ok")
    /\ UNCHANGED <<handles, seal>>

(* GetKeyById, GetKeyByName and the generators return a key object; the    *)
(* generators make one of the kind they asked for.                         *)
GotKey(c) ==
    /\ Answered(c, "getKey") \/ Answered(c, "lookup")
    /\ ~Failed(c) /\ call[c].op # "ListKeys"
    /\ IF call[c].op = "SetConfig"
       THEN /\ seal' = [label |-> call[c].label, policy |-> call[c].output[2],
                        type |-> IF Request(c) = "lookup"
                                 THEN call[c].output[1] ELSE "rsa"]
            /\ UNCHANGED handles
       ELSE /\ handles' = [handles EXCEPT ![call[c].label] =
                              IF call[c].op = "GenerateSecretKey" THEN "aes"
                              ELSE call[c].output[1]]
            /\ UNCHANGED seal
    /\ Ends(c, <<>>, "ok")
    /\ UNCHANGED store

(* Operations of one request; a signature may turn out to be invalid.      *)
Finish(c) ==
    /\ call[c].at = "answered" /\ ~Failed(c)
    /\ Request(c) \in {"encrypt", "decrypt", "verify", "random", "removeKey"}
    /\ \E how \in {"ok", "error"} :
          /\ how = "error" => Request(c) = "verify"
          /\ Return(c, IF how = "ok" THEN call[c].output ELSE <<>>, how)
    /\ blobs' = IF call[c].op # "Encrypt" THEN blobs
                ELSE blobs \cup {[label |-> call[c].label,
                                  text |-> B64(call[c].output),
                                  plain |-> UnB64(call[c].payload)]}
    /\ UNCHANGED <<service, client, process, role>>

-----------------------------------------------------------------------------
(***************************************************************************)
(* Waiting for approval                                                    *)
(***************************************************************************)

MutantPending(c) ==
    /\ Answered(c, "poll") /\ call[c].answer \in {"PENDING", "REJECTED"}
    /\ Go(c, "waiting")
    /\ UNCHANGED <<service, client, obj, blobs, process, role>>

Pending(c) ==
    /\ Answered(c, "poll") /\ call[c].answer = "PENDING"
    /\ Go(c, "waiting")
    /\ UNCHANGED <<service, client, obj, blobs, process, role>>

MutantDecided(c) ==
    /\ Answered(c, "poll") /\ call[c].op \in ObjKinds
    /\ call[c].answer # "PENDING"
    /\ IF Failed(c) THEN Down /\ UNCHANGED <<service, index, blobs>>
       ELSE Ends(c, UnB64(call[c].output), "ok")
    /\ UNCHANGED <<store, handles, seal>>

(* Cipher.Decrypt and signer.Sign: a poll that fails returns no response,  *)
(* whose status they read; any end but EXECUTED is an error.               *)
Decided(c) ==
    /\ Answered(c, "poll") /\ call[c].op \in ObjKinds
    /\ call[c].answer # "PENDING"
    /\ IF Failed(c) THEN Down /\ UNCHANGED <<service, index, blobs>>
       ELSE IF call[c].answer = "EXECUTED"
         THEN Ends(c, UnB64(call[c].output), "ok")
       ELSE Ends(c, <<>>, "error")
    /\ UNCHANGED <<store, handles, seal>>

(* They sleep and poll again, for as long as it takes.                     *)
PollAgain(c) ==
    /\ call[c].at = "waiting" /\ call[c].op \in ObjKinds
    /\ Ask(c, <<"poll">>)

(* The wrapper: only the first poll may fail without a panic; a rejection  *)
(* ends the process; every other status returns the result there is, after *)
(* naming the approvers that the answer lists as missing, if it does.      *)
SealDecided(c) ==
    /\ Answered(c, "poll") /\ call[c].op = "Decrypt"
    /\ call[c].answer # "PENDING"
    /\ \/ /\ \/ Failed(c) /\ call[c].waited > 0
             \/ call[c].answer = "REJECTED"
             \/ ~Failed(c) /\ ~getApproverName(seal.policy)
          /\ Down
          /\ UNCHANGED <<service, index, blobs>>
       \/ /\ Failed(c) /\ call[c].waited = 0
          /\ Ends(c, <<>>, "error")
       \/ /\ ~Failed(c) /\ call[c].answer # "REJECTED"
          /\ Ends(c, UnB64(UnB64(call[c].output)), "ok")
    /\ UNCHANGED <<store, handles, seal>>

MutantSealWait(c) ==
    /\ call[c].at = "waiting" /\ call[c].op = "Decrypt"
    /\ \/ /\ call[c].canceled
          /\ Ends(c, <<>>, "error")
       \/ /\ ~call[c].canceled /\ ~getApproverName(seal.policy)
          /\ Down
          /\ UNCHANGED <<service, index, blobs>>
       \/ /\ ~call[c].canceled
          /\ call' = [call EXCEPT ![c].waited = CheckEvery, ![c].at = "check",
                                  ![c].answer = None, ![c].output = <<>>]
          /\ UNCHANGED <<service, index, obj, blobs, process, role>>
    /\ UNCHANGED <<store, handles, seal>>

(* Once around its loop: interrupted, out of time, or asleep, after which  *)
(* it names the approvers that are missing, if there are any, and polls.   *)
SealWait(c) ==
    /\ call[c].at = "waiting" /\ call[c].op = "Decrypt"
    /\ \/ /\ call[c].canceled
          /\ Ends(c, <<>>, "error")
       \/ /\ ~call[c].canceled /\ call[c].waited >= ApprovalTimeout
          /\ Down
          /\ UNCHANGED <<service, index, blobs>>
       \/ /\ ~call[c].canceled /\ call[c].waited < ApprovalTimeout
          /\ ~getApproverName(seal.policy)
          /\ Down
          /\ UNCHANGED <<service, index, blobs>>
       \/ /\ ~call[c].canceled /\ call[c].waited < ApprovalTimeout
          /\ call' = [call EXCEPT ![c].waited = @ + CheckEvery,
                                  ![c].at = "check",
                                  ![c].answer = None, ![c].output = <<>>]
          /\ UNCHANGED <<service, index, obj, blobs, process, role>>
    /\ UNCHANGED <<store, handles, seal>>

(* SIGINT or SIGTERM reaches every loop that listens.                      *)
Interrupt ==
    LET listening == {c \in Callers : call[c].op = "Decrypt"
                        /\ (call[c].at = "waiting" \/ call[c].waited > 0)}
    IN /\ \E c \in listening : ~call[c].canceled
       /\ call' = [c \in Callers |-> IF c \in listening
                       THEN [call[c] EXCEPT !.canceled = TRUE] ELSE call[c]]
       /\ UNCHANGED <<service, client, obj, blobs, process, role>>

-----------------------------------------------------------------------------
Init ==
    /\ valid \in [Groups -> UNION {SUBSET Numbers(g) : g \in Groups}]
    /\ \A g \in Groups : valid[g] \subseteq Numbers(g)
    /\ keys = [l \in Labels |-> NoKey]
    /\ requests = <<>>
    /\ index = [g \in Groups |-> 0]
    /\ store = "none"
    /\ handles = [l \in Labels |-> None]
    /\ seal = NoSeal
    /\ obj = [c \in Callers |-> NoObj]
    /\ call = [c \in Callers |-> NoCall]
    /\ blobs = {}
    /\ process = "up"
    /\ role \in [Callers -> {"keystore", "wrapper"}]

Begin(c) ==
    \/ NewKeyStore(c) \/ CloseLogin(c) \/ KeyStoreCall(c)
    \/ NewCipher(c) \/ NewRemoteDigestSigner(c) \/ NewRemoteDigestVerifier(c)
    \/ Update(c) \/ Close(c) \/ CloseEarly(c)
    \/ SetConfig(c) \/ SealEncrypt(c) \/ SealDecrypt(c) \/ Finalize(c)

Step(c) ==
    \/ CanGetNewApiKeyByName(c) \/ GetApiKeyByName(c) \/ RollOverApiKey(c)
    \/ TransportError(c) \/ Reject(c) \/ Refuse(c)
    \/ CheckConnection(c) \/ GenerateRandom(c) \/ GetKeys(c) \/ GetKey(c)
    \/ Encrypt(c) \/ Decrypt(c) \/ Verify(c) \/ CreateOrUpdateKey(c)
    \/ RemoveKey(c) \/ AsyncDecrypt(c) \/ AsyncSign(c) \/ GetRequest(c)
    \/ Proceed(c) \/ CreateMissing(c) \/ NextListed(c) \/ ReturnError(c)
    \/ Opened(c) \/ GotKey(c) \/ Finish(c) \/ Taken(c)
    \/ Pending(c) \/ Decided(c) \/ PollAgain(c) \/ SealDecided(c)
    \/ SealWait(c)

Next ==
    \/ \E c \in Callers : Begin(c) \/ Step(c)
    \/ \E i \in 1..Len(requests) : Decide(i)
    \/ \E g \in Groups : \E k \in valid[g] : Revoke(g, k)
    \/ Interrupt
    \/ Restart

Spec == Init /\ [][Next]_vars

(* A goroutine that can run runs, and a request is answered or fails.      *)
(* Nothing is assumed of the approvers.                                    *)
FairSpec == Spec /\ \A c \in Callers : WF_vars(Step(c))

-----------------------------------------------------------------------------
(***************************************************************************)
(* Properties                                                              *)
(***************************************************************************)

CallOK(r) ==
    /\ r.op \in ObjKinds \cup StoreOps \cup WrapperOps
                 \cup {"NewKeyStore", None}
    /\ r.at \in {"idle", "check", "use", "sent", "rejected", "loaded",
                 "answered", "waiting", "returned"}
    /\ r.at \notin {"idle", "returned"} <=> r.todo # <<>>
    /\ r.at = "returned" <=> r.done # None
    /\ r.label \in Labels \cup {None} /\ r.left \subseteq Labels
    /\ r.policy \in Policies \cup {None}
    /\ r.key \subseteq Nat /\ Cardinality(r.key) <= 1 /\ r.loaded \in Nat
    /\ r.id \in 0..Len(requests) /\ r.waited \in Nat
    /\ r.canceled \in BOOLEAN /\ r.done \in {"ok", "error", None}

(* Every field has a value of its kind; a call under way has a request to  *)
(* make, and whoever polls polls a request the service knows, or none.     *)
TypeOK ==
    /\ \A g \in Groups : valid[g] \subseteq Numbers(g) /\ index[g] \in Nat
    /\ keys \in [Labels -> [type : {None, "aes", "rsa"}, gen : 0..MaxKeys,
                            policy : Policies \cup {None}]]
    /\ Len(requests) <= MaxRequests
    /\ store \in {"none", "open", "closed"}
    /\ handles \in [Labels -> {None, "aes", "rsa"}]
    /\ seal.label \in Labels \cup {None}
    /\ \A c \in Callers : CallOK(call[c])
    /\ process \in {"up", "down"}
    /\ role \in [Callers -> {"keystore", "wrapper"}]

(* Decrypt and Sign of the keystore return something only when their own   *)
(* request was carried out, and then its result, with the key it was made  *)
(* for; the wrapper's Decrypt returns the plaintext that was encrypted, or *)
(* nothing at all when the request came to another end.                    *)
ResultApproved ==
    \A c \in Callers : LET r == call[c] IN r.done = "ok" =>
        /\ r.op \in {"decrypt", "sign"} =>
              /\ r.id # 0 /\ requests[r.id].status = "EXECUTED"
              /\ r.output = Computed(r.label, requests[r.id].gen,
                                     requests[r.id].payload)
        /\ r.op = "Decrypt" =>
              r.output = IF requests[r.id].status = "EXECUTED"
                         THEN r.blob.plain ELSE <<>>

(* A cipher, signer or verifier that is used again works on what it was    *)
(* given since its last Close, and on nothing before that but what earlier *)
(* Closes left in its buffer: the input of one that returned before it     *)
(* made a request, and, decrypting with AES GCM, the input of all of them. *)
(* An operation that was refused, rejected or failed leaves nothing.       *)
InputExact ==
    \A c \in Callers :
        call[c].done = "ok" /\ call[c].op \in ObjKinds =>
            call[c].output[4] = call[c].payload

(* doRequest passes over an API key only after the service rejected it, so *)
(* a key that works is never left behind.                                  *)
WorkingKeyUsed == \A g \in Groups : \A k \in valid[g] : index[g] <= k

Busy(c, ops) == call[c].op \in ops /\ call[c].at # "idle"

(* The wrapper's Decrypt ends whatever the approvers do, if only by ending *)
(* the process.                                                            *)
SealDecryptEnds ==
    \A c \in Callers : Busy(c, {"Decrypt"}) ~> ~Busy(c, {"Decrypt"})

(* Decrypt and Sign of the keystore, which have no timeout, end when every *)
(* request is decided upon in the end.                                     *)
AsyncEnds ==
    []<>(\A i \in 1..Len(requests) : requests[i].status # "PENDING") =>
        \A c \in Callers :
            Busy(c, {"decrypt", "sign"}) ~> ~Busy(c, {"decrypt", "sign"})

=============================================================================
