--------------------------- MODULE SecurosysProofs ---------------------------
(***************************************************************************)
(* Theorems about Securosys, for any number of goroutines, labels, pieces  *)
(* of input, API keys and approval requests.                               *)
(***************************************************************************)
EXTENDS Securosys, SequenceTheorems, FiniteSetTheorems, TLAPS

AllOps == ObjKinds \cup StoreOps \cup WrapperOps \cup {"NewKeyStore"}

Places == {"idle", "check", "use", "sent", "rejected", "loaded",
           "answered", "waiting", "returned"}

Statuses == {"PENDING", "EXECUTED", "REJECTED", "FAILED"}

(* The requests that an operation may have yet to make.                    *)
TodosOf(op) ==
    CASE op \in {"decrypt", "Decrypt"} -> {<<"asyncDecrypt", "poll">>, <<"poll">>}
      [] op = "sign" -> {<<"asyncSign", "poll">>, <<"poll">>}
      [] op \in {"encrypt", "Encrypt"} -> {<<"encrypt">>}
      [] op = "gcmDecrypt" -> {<<"decrypt">>}
      [] op = "verify" -> {<<"verify">>}
      [] op = "ListKeys" -> {<<"getKeys">>, <<"getKey">>}
      [] op = "GetKey" -> {<<"getKey">>}
      [] op \in {"GenerateSecretKey", "GenerateKeyPair"} ->
            {<<"createKey", "getKey">>, <<"getKey">>}
      [] op = "RemoveKey" -> {<<"removeKey">>}
      [] op = "GenerateRandom" -> {<<"random">>}
      [] op = "NewKeyStore" -> {<<"health">>}
      [] op = "SetConfig" -> {<<"health", "lookup">>, <<"lookup">>,
                              <<"createKey", "getKey">>, <<"getKey">>}

-----------------------------------------------------------------------------
(***************************************************************************)
(* The shapes of the data.  A payload or an output is bytes of any origin, *)
(* so a call is described as the record of its fields.                     *)
(***************************************************************************)
Fields == {"op", "todo", "at", "label", "policy", "blob", "left", "key",
           "loaded", "answer", "id", "waited", "canceled", "payload",
           "output", "done"}

CallShape(r) == r = [x \in Fields |-> r[x]]

ObjRec == [kind : ObjKinds \cup {None}, label : Labels \cup {None},
           buffer : Seq(Data), fed : Seq(Data), kept : Seq(Data)]

(* What becomes of the one piece of input that the wrapper encrypts.       *)
Ciphertexts ==
    {Sealed(l, g, B64(<<d>>)) : l \in Labels, g \in Nat, d \in Data}

RequestRec == [label : Labels, gen : Nat,
               payload : Seq(Data) \cup Ciphertexts, status : Statuses]

ServiceOK ==
    /\ valid \in [Groups -> SUBSET Nat]
    /\ \A g \in Groups : valid[g] \subseteq Numbers(g)
    /\ keys \in [Labels -> [type : {None, "aes", "rsa"}, gen : 0..MaxKeys,
                            policy : Policies \cup {None}]]
    /\ requests \in Seq(RequestRec) /\ Len(requests) <= MaxRequests

ClientOK ==
    /\ index \in [Groups -> Nat]
    /\ store \in {"none", "open", "closed"}
    /\ handles \in [Labels -> {None, "aes", "rsa"}]
    /\ seal # NoSeal => seal.label \in Labels
    /\ process \in {"up", "down"}
    /\ role \in [Callers -> {"keystore", "wrapper"}]

(* A cipher, signer or verifier has a key, and buffers what it was fed     *)
(* since its last Close, behind what earlier Closes left.                  *)
ObjOK(o) ==
    /\ o.kind # None => o.label \in Labels
    /\ o.buffer = o.kept \o o.fed

ObjsOK == obj \in [Callers -> ObjRec] /\ \A c \in Callers : ObjOK(obj[c])

(* A blob holds one piece of input.                                        *)
BlobOK(b) ==
    \E l \in Labels, g \in Nat, d \in Data :
        b = [label |-> l, text |-> B64(Sealed(l, g, B64(<<d>>))), plain |-> <<d>>]

BlobsOK == \A b \in blobs : BlobOK(b)

-----------------------------------------------------------------------------
(***************************************************************************)
(* The calls: r is the record of a call, o the object of its goroutine, q  *)
(* the requests that the service knows.                                    *)
(***************************************************************************)
Active(r) == r.at \notin {"idle", "returned"}

LocalsOK(r, q) ==
    /\ CallShape(r)
    /\ r.op \in AllOps \cup {None} /\ r.at \in Places
    /\ ~Active(r) => r.todo = <<>>
    /\ r.at = "returned" <=> r.done # None
    /\ r.label \in Labels \cup {None} /\ r.left \subseteq Labels
    /\ r.policy \in Policies \cup {None}
    /\ r.key = {} \/ \E k \in Nat : r.key = {k}
    /\ r.loaded \in Nat /\ r.waited \in Nat
    /\ r.id \in 0..Len(q)
    /\ r.canceled \in BOOLEAN /\ r.done \in {"ok", "error", None}

(* A call in progress makes requests of its operation; only who polls      *)
(* waits.                                                                  *)
PlaceOK(r) ==
    Active(r) =>
        /\ r.op \in AllOps /\ r.todo \in TodosOf(r.op)
        /\ r.at = "waiting" => r.todo = <<"poll">>
        /\ r.op # "NewKeyStore" => r.label \in Labels
        /\ r.id # 0 => r.op \in {"decrypt", "sign", "Decrypt"}

(* A call works on the whole buffer of its object, or on what the wrapper  *)
(* was given.                                                              *)
InputOK(r, o) ==
    Active(r) =>
        /\ r.op \in ObjKinds => o.kind = r.op /\ o.buffer = r.payload
        /\ r.op = "Encrypt" => \E d \in Data : r.payload = B64(<<d>>)
        /\ r.op = "Decrypt" =>
              \E l \in Labels, g \in Nat, d \in Data :
                  r.payload = Sealed(l, g, B64(<<d>>)) /\ r.blob.plain = <<d>>

(* The asynchronous request of a call is about its input.                  *)
PostedOK(r, q) ==
    Active(r) /\ r.id # 0 => q[r.id].label = r.label /\ q[r.id].payload = r.payload

(* An answer that is not an error is one to the request.                   *)
AnswerOK(r, q) ==
    r.at = "answered" /\ r.answer # "error" =>
        /\ Head(r.todo) \in {"getKey", "lookup"} => r.output[1] \in {"aes", "rsa"}
        /\ Head(r.todo) = "encrypt" =>
              \E g \in Nat : r.output = Sealed(r.label, g, r.payload)
        /\ Head(r.todo) \in {"decrypt", "verify"} =>
              \E g \in Nat : r.output = Computed(r.label, g, r.payload)
        /\ Head(r.todo) = "poll" =>
              /\ r.id # 0
              /\ r.answer # "PENDING" =>
                    r.answer = q[r.id].status /\ r.output = ResultOf(q[r.id])

(* What a caller is given: ResultApproved and InputExact of one call.    *)
Approved(r, q) ==
    r.done = "ok" =>
        /\ r.op \in {"decrypt", "sign"} =>
              /\ r.id # 0 /\ q[r.id].status = "EXECUTED"
              /\ r.output = Computed(r.label, q[r.id].gen, q[r.id].payload)
        /\ r.op = "Decrypt" =>
              /\ r.id # 0 /\ q[r.id].status # "PENDING"
              /\ r.output = IF q[r.id].status = "EXECUTED" THEN r.blob.plain ELSE <<>>

NewInput(r) ==
    r.done = "ok" /\ r.op \in ObjKinds => r.output[4] = r.payload

CallInv(r, o, q) ==
    /\ LocalsOK(r, q) /\ PlaceOK(r) /\ InputOK(r, o) /\ PostedOK(r, q)
    /\ AnswerOK(r, q) /\ Approved(r, q) /\ NewInput(r)

CallsOK == /\ call = [c \in Callers |-> call[c]]
           /\ \A c \in Callers : CallInv(call[c], obj[c], requests)

IInv == ServiceOK /\ ClientOK /\ ObjsOK /\ BlobsOK /\ CallsOK

-----------------------------------------------------------------------------
(***************************************************************************)
(* The requests of an operation                                            *)
(***************************************************************************)
LEMMA Started == \A op \in AllOps : RequestsOf(op) \in TodosOf(op)
BY DEF AllOps, ObjKinds, StoreOps, WrapperOps, RequestsOf, TodosOf

LEMMA Tuples ==
    /\ \A a : Len(<<a>>) = 1 /\ Head(<<a>>) = a /\ <<a>> # <<>>
    /\ \A a, b : /\ Len(<<a, b>>) = 2 /\ Head(<<a, b>>) = a /\ <<a, b>> # <<>>
                 /\ Tail(<<a, b>>) = <<b>>
    /\ \A a, b, x : <<a, b>> # <<x>>
    /\ \A a, b : <<a>> = <<b>> <=> a = b
<1>1. \A a, b : Tail(<<a, b>>) = <<b>>
  <2> TAKE a, b
  <2>1. <<a, b>> \in Seq({a, b}) /\ <<a, b>> # <<>> /\ <<b>> \in Seq({b}) /\ Len(<<b>>) = 1
    OBVIOUS
  <2>2. Tail(<<a, b>>) \in Seq({a, b}) /\ Len(Tail(<<a, b>>)) = 1 /\ Tail(<<a, b>>)[1] = b
    BY <2>1
  <2> QED
    BY <2>1, <2>2, SeqEqual
<1> QED
  BY <1>1

LEMMA Todos ==
    ASSUME NEW op \in AllOps, NEW t \in TodosOf(op)
    PROVE  /\ t # <<>>
           /\ Len(t) > 1 => Tail(t) \in TodosOf(op)
           /\ Head(t) = "poll" <=> t = <<"poll">>
           /\ Head(t) = "poll" => op \in {"decrypt", "Decrypt", "sign"}
           /\ Head(t) \in {"asyncDecrypt", "asyncSign"} =>
                 op \in {"decrypt", "Decrypt", "sign"} /\ Tail(t) = <<"poll">>
           /\ Head(t) = "lookup" => op = "SetConfig"
           /\ Head(t) = "encrypt" => op \in {"encrypt", "Encrypt"}
           /\ Head(t) = "verify" => op = "verify"
           /\ Head(t) = "decrypt" => op = "gcmDecrypt"
           /\ Head(t) \in {"getKey", "lookup", "createKey"} => op \notin ObjKinds
           /\ op = "NewKeyStore" => Head(t) = "health"
<1> USE DEF TodosOf, ObjKinds
<1>1. CASE op \in {"decrypt", "Decrypt", "sign"}
  <2>1. CASE t = <<"poll">>
    <3>1. Head(t) = "poll" /\ Len(t) = 1 /\ t # <<>> /\ (t = <<"poll">> <=> "poll" = "poll")
      BY <2>1, Tuples
    <3> QED
      BY <1>1, <3>1
  <2>2. CASE t = <<"asyncDecrypt", "poll">>
    <3>1. Head(t) = "asyncDecrypt" /\ Tail(t) = <<"poll">> /\ t # <<>> /\ t # <<"poll">>
      BY <2>2, Tuples
    <3> QED
      BY <1>1, <3>1
  <2>3. CASE t = <<"asyncSign", "poll">>
    <3>1. Head(t) = "asyncSign" /\ Tail(t) = <<"poll">> /\ t # <<>> /\ t # <<"poll">>
      BY <2>3, Tuples
    <3> QED
      BY <1>1, <3>1
  <2> QED
    BY <1>1, <2>1, <2>2, <2>3
<1>2. CASE op \in {"encrypt", "Encrypt"}
  <2>1. CASE t = <<"encrypt">>
    <3>1. Head(t) = "encrypt" /\ Len(t) = 1 /\ t # <<>> /\ (t = <<"poll">> <=> "encrypt" = "poll")
      BY <2>1, Tuples
    <3> QED
      BY <1>2, <3>1
  <2> QED
    BY <1>2, <2>1
<1>3. CASE op \in {"gcmDecrypt", "verify"}
  <2>1. CASE t = <<"decrypt">>
    <3>1. Head(t) = "decrypt" /\ Len(t) = 1 /\ t # <<>> /\ (t = <<"poll">> <=> "decrypt" = "poll")
      BY <2>1, Tuples
    <3> QED
      BY <1>3, <3>1
  <2>2. CASE t = <<"verify">>
    <3>1. Head(t) = "verify" /\ Len(t) = 1 /\ t # <<>> /\ (t = <<"poll">> <=> "verify" = "poll")
      BY <2>2, Tuples
    <3> QED
      BY <1>3, <3>1
  <2> QED
    BY <1>3, <2>1, <2>2
<1>4. CASE op \in {"ListKeys", "GetKey", "RemoveKey"}
  <2>1. CASE t = <<"getKeys">>
    <3>1. Head(t) = "getKeys" /\ Len(t) = 1 /\ t # <<>> /\ (t = <<"poll">> <=> "getKeys" = "poll")
      BY <2>1, Tuples
    <3> QED
      BY <1>4, <3>1
  <2>2. CASE t = <<"getKey">>
    <3>1. Head(t) = "getKey" /\ Len(t) = 1 /\ t # <<>> /\ (t = <<"poll">> <=> "getKey" = "poll")
      BY <2>2, Tuples
    <3> QED
      BY <1>4, <3>1
  <2>3. CASE t = <<"removeKey">>
    <3>1. Head(t) = "removeKey" /\ Len(t) = 1 /\ t # <<>> /\ (t = <<"poll">> <=> "removeKey" = "poll")
      BY <2>3, Tuples
    <3> QED
      BY <1>4, <3>1
  <2> QED
    BY <1>4, <2>1, <2>2, <2>3
<1>5. CASE op \in {"GenerateRandom", "NewKeyStore"}
  <2>1. CASE t = <<"random">>
    <3>1. Head(t) = "random" /\ Len(t) = 1 /\ t # <<>> /\ (t = <<"poll">> <=> "random" = "poll")
      BY <2>1, Tuples
    <3> QED
      BY <1>5, <3>1
  <2>2. CASE t = <<"health">>
    <3>1. Head(t) = "health" /\ Len(t) = 1 /\ t # <<>> /\ (t = <<"poll">> <=> "health" = "poll")
      BY <2>2, Tuples
    <3> QED
      BY <1>5, <3>1
  <2> QED
    BY <1>5, <2>1, <2>2
<1>6. CASE op \in {"GenerateSecretKey", "GenerateKeyPair"}
  <2>1. CASE t = <<"createKey", "getKey">>
    <3>1. Head(t) = "createKey" /\ Tail(t) = <<"getKey">> /\ t # <<>> /\ t # <<"poll">>
      BY <2>1, Tuples
    <3> QED
      BY <1>6, <3>1
  <2>2. CASE t = <<"getKey">>
    <3>1. Head(t) = "getKey" /\ Len(t) = 1 /\ t # <<>> /\ (t = <<"poll">> <=> "getKey" = "poll")
      BY <2>2, Tuples
    <3> QED
      BY <1>6, <3>1
  <2> QED
    BY <1>6, <2>1, <2>2
<1>7. CASE op \in {"SetConfig"}
  <2>1. CASE t = <<"health", "lookup">>
    <3>1. Head(t) = "health" /\ Tail(t) = <<"lookup">> /\ t # <<>> /\ t # <<"poll">>
      BY <2>1, Tuples
    <3> QED
      BY <1>7, <3>1
  <2>2. CASE t = <<"lookup">>
    <3>1. Head(t) = "lookup" /\ Len(t) = 1 /\ t # <<>> /\ (t = <<"poll">> <=> "lookup" = "poll")
      BY <2>2, Tuples
    <3> QED
      BY <1>7, <3>1
  <2>3. CASE t = <<"createKey", "getKey">>
    <3>1. Head(t) = "createKey" /\ Tail(t) = <<"getKey">> /\ t # <<>> /\ t # <<"poll">>
      BY <2>3, Tuples
    <3> QED
      BY <1>7, <3>1
  <2>4. CASE t = <<"getKey">>
    <3>1. Head(t) = "getKey" /\ Len(t) = 1 /\ t # <<>> /\ (t = <<"poll">> <=> "getKey" = "poll")
      BY <2>4, Tuples
    <3> QED
      BY <1>7, <3>1
  <2> QED
    BY <1>7, <2>1, <2>2, <2>3, <2>4
<1> QED
  BY <1>1, <1>2, <1>3, <1>4, <1>5, <1>6, <1>7 DEF AllOps, StoreOps, WrapperOps

-----------------------------------------------------------------------------
(***************************************************************************)
(* Bytes                                                                   *)
(***************************************************************************)
LEMMA Decodes == \A x : UnB64(B64(x)) = x
BY DEF UnB64, B64

LEMMA DecodesNothing == UnB64(<<>>) = <<>>
BY DEF UnB64

LEMMA InputNotSealed == \A x \in Seq(Data) : ~IsSealed(x)
BY DataAssumption DEF IsSealed

LEMMA SealedFields ==
    \A l, g, x : IsSealed(Sealed(l, g, x)) /\ Sealed(l, g, x)[4] = x
BY DEF IsSealed, Sealed

LEMMA ComputedFields == \A l, g, x : Computed(l, g, x)[4] = x
BY DEF Computed

-----------------------------------------------------------------------------
(***************************************************************************)
(* What a step does to the calls                                           *)
(***************************************************************************)

(* The service learns of requests and decides them once.                   *)
Grows(q, q2) ==
    /\ Len(q) \in Nat /\ Len(q2) \in Nat /\ Len(q) <= Len(q2)
    /\ \A i \in 1..Len(q) :
         /\ q2[i].label = q[i].label /\ q2[i].gen = q[i].gen
         /\ q2[i].payload = q[i].payload
         /\ q[i].status # "PENDING" => q2[i].status = q[i].status

LEMMA Kept ==
    ASSUME NEW r, NEW o, NEW q, NEW q2, CallInv(r, o, q), Grows(q, q2),
           PlaceOK(r)
    PROVE  CallInv(r, o, q2)
<1> USE DEF CallInv
<1>1. r.id \in 0..Len(q) /\ r.id \in 0..Len(q2)
  BY DEF LocalsOK, Grows
<1>2. LocalsOK(r, q2)
  BY <1>1 DEF LocalsOK
<1>3. PostedOK(r, q2)
  BY <1>1 DEF PostedOK, Grows
<1>4. r.at = "answered" /\ r.answer \notin {"error", "PENDING"} /\ Head(r.todo) = "poll"
        => q[r.id].status # "PENDING" /\ r.id \in 1..Len(q)
  BY <1>1 DEF AnswerOK, Grows
<1>5. AnswerOK(r, q2)
  BY <1>1, <1>4 DEF AnswerOK, Grows, ResultOf
<1>6. Approved(r, q2)
  BY <1>1 DEF Approved, Grows
<1> QED
  BY <1>2, <1>3, <1>5, <1>6

(* A call in progress goes on with its input.                              *)
Continues(r, r2) ==
    /\ CallShape(r2) /\ Active(r2) /\ r2.at \in Places
    /\ r2.op = r.op /\ r2.policy = r.policy /\ r2.blob = r.blob /\ r2.id = r.id
    /\ r2.payload = r.payload /\ r2.done = r.done
    /\ r2.label = r.label \/ (r.op = "ListKeys" /\ r2.label \in Labels)
    /\ r2.left \subseteq Labels /\ r2.todo \in TodosOf(r.op)
    /\ r2.at = "waiting" => r2.todo = <<"poll">>
    /\ r2.key = {} \/ \E k \in Nat : r2.key = {k}
    /\ r2.loaded \in Nat /\ r2.waited \in Nat /\ r2.canceled \in BOOLEAN

LEMMA GoesOn ==
    ASSUME NEW r, NEW r2, NEW o, NEW q, CallInv(r, o, q), Active(r),
           Continues(r, r2), AnswerOK(r2, q)
    PROVE  CallInv(r2, o, q)
<1> USE DEF CallInv, Continues
<1>1. LocalsOK(r2, q)
  BY DEF LocalsOK, Active, PlaceOK
<1>2. PlaceOK(r2)
  BY DEF PlaceOK
<1>3. InputOK(r2, o)
  BY DEF InputOK
<1>4. PostedOK(r2, q)
  BY DEF PostedOK, PlaceOK
<1>5. Approved(r2, q) /\ NewInput(r2)
  BY DEF Approved, NewInput, LocalsOK, Active, None
<1> QED
  BY <1>1, <1>2, <1>3, <1>4, <1>5

LEMMA OneCall ==
    ASSUME IInv, NEW c \in Callers, NEW r2, call' = [call EXCEPT ![c] = r2],
           \A d \in Callers : d # c => obj'[d] = obj[d],
           Grows(requests, requests'), CallInv(r2, obj'[c], requests')
    PROVE  CallsOK'
<1>1. call' = [d \in Callers |-> call'[d]] /\ call'[c] = r2
      /\ \A d \in Callers : d # c => call'[d] = call[d]
  BY DEF IInv, CallsOK
<1>2. ASSUME NEW d \in Callers
      PROVE  CallInv(call'[d], obj'[d], requests')
  <2>1. CASE d = c
    BY <1>1, <2>1
  <2>2. CASE d # c
    <3>1. CallInv(call[d], obj[d], requests) /\ PlaceOK(call[d])
      BY DEF IInv, CallsOK, CallInv
    <3>2. CallInv(call[d], obj[d], requests')
      BY <3>1, Kept
    <3> QED
      BY <1>1, <2>2, <3>2
  <2> QED
    BY <2>1, <2>2
<1> QED
  BY <1>1, <1>2 DEF CallsOK

LEMMA SameRequests ==
    ASSUME IInv, requests' = requests
    PROVE  Grows(requests, requests')
BY DEF IInv, ServiceOK, Grows

(* Steps that change nothing but a call.                                   *)
LEMMA Framed ==
    ASSUME IInv, CallsOK', UNCHANGED <<service, client, obj, blobs, process, role>>
    PROVE  IInv'
BY DEF IInv, ServiceOK, ClientOK, ObjsOK, BlobsOK, service, client

(* What is known of a call in progress.                                    *)
LEMMA InProgress ==
    ASSUME IInv, NEW c \in Callers, Active(call[c])
    PROVE  /\ CallShape(call[c]) /\ call[c].op \in AllOps
           /\ call[c].todo \in TodosOf(call[c].op) /\ call[c].todo # <<>>
           /\ call[c].at = "waiting" => call[c].todo = <<"poll">>
           /\ call[c].at \in Places
           /\ call[c].left \subseteq Labels
           /\ call[c].key = {} \/ \E k \in Nat : call[c].key = {k}
           /\ call[c].loaded \in Nat /\ call[c].waited \in Nat
           /\ call[c].canceled \in BOOLEAN
           /\ call[c].op # "NewKeyStore" => call[c].label \in Labels
<1>1. CallInv(call[c], obj[c], requests)
  BY DEF IInv, CallsOK
<1>2. call[c].op \in AllOps /\ call[c].todo \in TodosOf(call[c].op)
  BY <1>1 DEF CallInv, PlaceOK
<1>3. call[c].todo # <<>>
  BY <1>2, Todos
<1> QED
  BY <1>1, <1>2, <1>3 DEF CallInv, PlaceOK, LocalsOK

LEMMA GroupKnown == \A r : GroupOf(r) \in Groups
BY DEF GroupOf, Groups

(* The fields of a call that doRequest and the loops around it change.     *)
Variant(r, r2, t, a, k, n, w, x, v) ==
    /\ CallShape(r2)
    /\ r2.todo = t /\ r2.at = a /\ r2.key = k /\ r2.loaded = n /\ r2.answer = w
    /\ r2.output = x /\ r2.waited = v
    /\ r2.op = r.op /\ r2.label = r.label /\ r2.policy = r.policy
    /\ r2.blob = r.blob /\ r2.left = r.left /\ r2.id = r.id
    /\ r2.canceled = r.canceled /\ r2.payload = r.payload /\ r2.done = r.done

LEMMA Proceeds ==
    ASSUME IInv, NEW c \in Callers, Active(call[c]),
           NEW t \in TodosOf(call[c].op), NEW a \in Places \ {"idle", "returned"},
           a = "waiting" => t = <<"poll">>,
           NEW k, k = {} \/ \E i \in Nat : k = {i}, NEW n \in Nat, NEW w, NEW x,
           NEW v \in Nat, NEW r2, Variant(call[c], r2, t, a, k, n, w, x, v),
           AnswerOK(r2, requests), call' = [call EXCEPT ![c] = r2],
           UNCHANGED <<obj, requests>>
    PROVE  CallsOK'
<1>1. Continues(call[c], r2)
  BY InProgress DEF Variant, Continues, Active
<1>2. CallInv(call[c], obj[c], requests)
  BY DEF IInv, CallsOK
<1>3. CallInv(r2, obj[c], requests)
  BY <1>1, <1>2, GoesOn
<1> QED
  BY <1>3, OneCall, SameRequests

(* An answer that is none, or an error, promises nothing.                  *)
LEMMA NoAnswer ==
    ASSUME NEW r, NEW q, r.at # "answered" \/ r.answer = "error"
    PROVE  AnswerOK(r, q)
BY DEF AnswerOK

-----------------------------------------------------------------------------
(***************************************************************************)
(* doRequest                                                               *)
(***************************************************************************)
LEMMA CanGetStep ==
    ASSUME IInv, NEW c \in Callers, CanGetNewApiKeyByName(c)
    PROVE  IInv'
<1>1. Active(call[c]) /\ call = [d \in Callers |-> call[d]]
  BY DEF CanGetNewApiKeyByName, Active, IInv, CallsOK
<1>2. UNCHANGED <<service, client, obj, blobs, process, role>> /\ requests' = requests
  BY DEF CanGetNewApiKeyByName, service
<1> DEFINE r == call[c]
<1>3. ASSUME call' = [call EXCEPT ![c].at = "sent", ![c].key = {}]
      PROVE  IInv'
  <2>0. PICK r2 : r2 = [r EXCEPT !.at = "sent", !.key = {}]
    OBVIOUS
  <2>1. call' = [call EXCEPT ![c] = r2]
    BY <2>0, <1>1, <1>3
  <2>2. Variant(r, r2, r.todo, "sent", {}, r.loaded, r.answer, r.output, r.waited)
    BY <1>1, <2>0, InProgress DEF Variant, CallShape, Fields
  <2>3. AnswerOK(r2, requests)
    BY <2>2, NoAnswer DEF Variant
  <2>4. CallsOK'
    BY <1>1, <1>2, <2>1, <2>2, <2>3, Proceeds, InProgress DEF Places
  <2> QED
    BY <1>2, <2>4, Framed
<1>4. ASSUME Go(c, "use")
      PROVE  IInv'
  <2>0. PICK r2 : r2 = [r EXCEPT !.at = "use"]
    OBVIOUS
  <2>1. call' = [call EXCEPT ![c] = r2]
    BY <2>0, <1>1, <1>4 DEF Go
  <2>2. Variant(r, r2, r.todo, "use", r.key, r.loaded, r.answer, r.output, r.waited)
    BY <1>1, <2>0, InProgress DEF Variant, CallShape, Fields
  <2>3. AnswerOK(r2, requests)
    BY <2>2, NoAnswer DEF Variant
  <2>4. CallsOK'
    BY <1>1, <1>2, <2>1, <2>2, <2>3, Proceeds, InProgress DEF Places
  <2> QED
    BY <1>2, <2>4, Framed
<1>5. ASSUME call' = [call EXCEPT ![c].at = "answered", ![c].answer = "error"]
      PROVE  IInv'
  <2>0. PICK r2 : r2 = [r EXCEPT !.at = "answered", !.answer = "error"]
    OBVIOUS
  <2>1. call' = [call EXCEPT ![c] = r2]
    BY <2>0, <1>1, <1>5
  <2>2. Variant(r, r2, r.todo, "answered", r.key, r.loaded, "error", r.output, r.waited)
    BY <1>1, <2>0, InProgress DEF Variant, CallShape, Fields
  <2>3. AnswerOK(r2, requests)
    BY <2>2, NoAnswer DEF Variant
  <2>4. CallsOK'
    BY <1>1, <1>2, <2>1, <2>2, <2>3, Proceeds, InProgress DEF Places
  <2> QED
    BY <1>2, <2>4, Framed
<1> QED
  BY <1>3, <1>4, <1>5 DEF CanGetNewApiKeyByName

(* A panic or an exit leaves no calls and no objects.                      *)
LEMMA NothingRuns == \A o, q : Len(q) \in Nat => CallInv(NoCall, o, q)
<1> USE DEF NoCall, None
<1> SUFFICES ASSUME NEW o, NEW q, Len(q) \in Nat
             PROVE  CallInv(NoCall, o, q)
  OBVIOUS
<1>0. CallShape(NoCall)
  BY DEF CallShape, Fields
<1>1. LocalsOK(NoCall, q)
  BY <1>0 DEF LocalsOK, Active, Places
<1>2. ~Active(NoCall) /\ NoCall.at = "idle" /\ NoCall.done = "none"
  BY DEF Active
<1> QED
  BY <1>1, <1>2 DEF CallInv, PlaceOK, InputOK, PostedOK, AnswerOK, Approved, NewInput

LEMMA NothingGiven == <<>> \in Seq(Data) /\ <<>> \o <<>> = <<>>
BY ConcatEmptySeq

LEMMA DownStep ==
    ASSUME IInv, Down, UNCHANGED <<service, client, blobs>>
    PROVE  IInv'
<1>1. NoObj \in ObjRec /\ ObjOK(NoObj)
  BY NothingGiven DEF NoObj, ObjRec, ObjOK, ObjKinds, None
<1>2. ObjsOK'
  BY <1>1 DEF Down, ObjsOK
<1>3. Len(requests') \in Nat
  BY DEF IInv, ServiceOK, service
<1>4. CallsOK'
  BY <1>3, NothingRuns DEF CallsOK, Down
<1> QED
  BY <1>2, <1>4 DEF Down, IInv, ServiceOK, ClientOK, BlobsOK, service, client

LEMMA GetApiKeyStep ==
    ASSUME IInv, NEW c \in Callers, GetApiKeyByName(c)
    PROVE  IInv'
<1>1. Active(call[c]) /\ call = [d \in Callers |-> call[d]]
  BY DEF GetApiKeyByName, Active, IInv, CallsOK
<1> DEFINE r == call[c]
<1>2. CASE index[Group(c)] < Configured(c)
  <2>0. PICK r2 : r2 = [r EXCEPT !.at = "sent", !.key = {index[Group(c)]}]
    OBVIOUS
  <2>1. call' = [call EXCEPT ![c] = r2]
    BY <2>0, <1>1, <1>2 DEF GetApiKeyByName
  <2>2. Variant(r, r2, r.todo, "sent", {index[Group(c)]}, r.loaded, r.answer, r.output, r.waited)
    BY <1>1, <2>0, InProgress DEF Variant, CallShape, Fields
  <2>3. AnswerOK(r2, requests)
    BY <2>2, NoAnswer DEF Variant
  <2>4. index[Group(c)] \in Nat
    BY GroupKnown DEF IInv, ClientOK, Group
  <2>5. UNCHANGED <<service, client, obj, blobs, process, role>> /\ requests' = requests
    BY <1>2 DEF GetApiKeyByName, service
  <2>6. CallsOK'
    BY <1>1, <2>1, <2>2, <2>3, <2>4, <2>5, Proceeds, InProgress DEF Places
  <2> QED
    BY <2>5, <2>6, Framed
<1>3. CASE ~(index[Group(c)] < Configured(c))
  BY <1>3, DownStep DEF GetApiKeyByName
<1> QED
  BY <1>2, <1>3

LEMMA RejectStep ==
    ASSUME IInv, NEW c \in Callers, Reject(c)
    PROVE  IInv'
<1>1. Active(call[c]) /\ call = [d \in Callers |-> call[d]]
  BY DEF Reject, Active, IInv, CallsOK
<1>2. UNCHANGED <<service, client, obj, blobs, process, role>> /\ requests' = requests
  BY DEF Reject, service
<1> DEFINE r == call[c]
<1>3. PICK r2 : r2 = [r EXCEPT !.at = "rejected"]
  OBVIOUS
<1>4. call' = [call EXCEPT ![c] = r2]
  BY <1>3, <1>1 DEF Reject, Go
<1>5. Variant(r, r2, r.todo, "rejected", r.key, r.loaded, r.answer, r.output, r.waited)
  BY <1>1, <1>3, InProgress DEF Variant, CallShape, Fields
<1>6. AnswerOK(r2, requests)
  BY <1>5, NoAnswer DEF Variant
<1>7. CallsOK'
  BY <1>1, <1>2, <1>4, <1>5, <1>6, Proceeds, InProgress DEF Places
<1> QED
  BY <1>2, <1>7, Framed

LEMMA RefuseStep ==
    ASSUME IInv, NEW c \in Callers, Refuse(c)
    PROVE  IInv'
<1>1. Active(call[c]) /\ call = [d \in Callers |-> call[d]]
  BY DEF Refuse, Accepted, Active, IInv, CallsOK
<1>2. UNCHANGED <<service, client, obj, blobs, process, role>> /\ requests' = requests
  BY DEF Refuse, Accepted, service
<1> DEFINE r == call[c]
<1>3. PICK r2 : r2 = [r EXCEPT !.at = "answered", !.answer = "error"]
  OBVIOUS
<1>4. call' = [call EXCEPT ![c] = r2]
  BY <1>3, <1>1 DEF Refuse, Answer
<1>5. Variant(r, r2, r.todo, "answered", r.key, r.loaded, "error", r.output, r.waited)
  BY <1>1, <1>3, InProgress DEF Variant, CallShape, Fields
<1>6. AnswerOK(r2, requests)
  BY <1>5, NoAnswer DEF Variant
<1>7. CallsOK'
  BY <1>1, <1>2, <1>4, <1>5, <1>6, Proceeds, InProgress DEF Places
<1> QED
  BY <1>2, <1>7, Framed

(* The load and the store of RollOverApiKey.                               *)
LEMMA RollOverStep ==
    ASSUME IInv, NEW c \in Callers, RollOverApiKey(c)
    PROVE  IInv'
<1>1. Active(call[c]) /\ call = [d \in Callers |-> call[d]]
  BY DEF RollOverApiKey, Active, IInv, CallsOK
<1>2. index[Group(c)] \in Nat /\ call[c].loaded + 1 \in Nat
  BY <1>1, GroupKnown, InProgress DEF IInv, ClientOK, Group
<1> DEFINE r == call[c]
<1>3. CASE call[c].at = "rejected"
  <2>0. PICK r2 : r2 = [r EXCEPT !.at = "loaded", !.loaded = index[Group(c)]]
    OBVIOUS
  <2>1. call' = [call EXCEPT ![c] = r2]
    BY <2>0, <1>1, <1>3 DEF RollOverApiKey
  <2>2. Variant(r, r2, r.todo, "loaded", r.key, index[Group(c)], r.answer, r.output, r.waited)
    BY <1>1, <2>0, InProgress DEF Variant, CallShape, Fields
  <2>3. AnswerOK(r2, requests)
    BY <2>2, NoAnswer DEF Variant
  <2>4. UNCHANGED <<service, client, obj, blobs, process, role>> /\ requests' = requests
    BY <1>3 DEF RollOverApiKey, service
  <2>5. CallsOK'
    BY <1>1, <1>2, <2>1, <2>2, <2>3, <2>4, Proceeds, InProgress DEF Places
  <2> QED
    BY <2>4, <2>5, Framed
<1>4. CASE call[c].at = "loaded"
  <2>0. PICK r2 : r2 = [r EXCEPT !.at = "check", !.loaded = 0]
    OBVIOUS
  <2>1. call' = [call EXCEPT ![c] = r2]
    BY <2>0, <1>1, <1>4 DEF RollOverApiKey
  <2>2. Variant(r, r2, r.todo, "check", r.key, 0, r.answer, r.output, r.waited)
    BY <1>1, <2>0, InProgress DEF Variant, CallShape, Fields
  <2>3. AnswerOK(r2, requests)
    BY <2>2, NoAnswer DEF Variant
  <2>4. /\ index' = [index EXCEPT ![Group(c)] = call[c].loaded + 1]
        /\ UNCHANGED <<service, store, handles, seal, obj, blobs, process, role>>
        /\ requests' = requests
    BY <1>4 DEF RollOverApiKey, service
  <2>5. CallsOK'
    BY <1>1, <2>1, <2>2, <2>3, <2>4, Proceeds, InProgress DEF Places
  <2>6. index' \in [Groups -> Nat]
    BY <1>2, <2>4 DEF IInv, ClientOK
  <2> QED
    BY <2>4, <2>5, <2>6 DEF IInv, ServiceOK, ClientOK, ObjsOK, BlobsOK, service
<1> QED
  BY <1>3, <1>4 DEF RollOverApiKey

-----------------------------------------------------------------------------
(***************************************************************************)
(* The answers of the service                                              *)
(***************************************************************************)
LEMMA Replied ==
    ASSUME NEW r, CallShape(r), NEW w, NEW x, NEW r2,
           r2 = [r EXCEPT !.at = "answered", !.answer = w, !.output = x]
    PROVE  Variant(r, r2, r.todo, "answered", r.key, r.loaded, w, x, r.waited)
BY DEF Variant, CallShape, Fields

Listing(r, r2, L) ==
    /\ CallShape(r2) /\ r2.at = "answered" /\ r2.left = L /\ r2.todo = r.todo
    /\ r2.op = r.op /\ r2.policy = r.policy /\ r2.blob = r.blob /\ r2.id = r.id
    /\ r2.payload = r.payload /\ r2.done = r.done /\ r2.label = r.label
    /\ r2.key = r.key /\ r2.loaded = r.loaded /\ r2.waited = r.waited
    /\ r2.canceled = r.canceled

LEMMA Listed ==
    ASSUME NEW r, CallShape(r), NEW L, NEW r2,
           r2 = [r EXCEPT !.at = "answered", !.answer = "ok", !.left = L]
    PROVE  Listing(r, r2, L)
BY DEF Listing, CallShape, Fields

LEMMA ReplyStep ==
    ASSUME IInv, NEW c \in Callers, call[c].at = "sent", NEW out, Reply(c, out),
           Request(c) # "poll",
           Request(c) \in {"getKey", "lookup"} => out[1] \in {"aes", "rsa"},
           Request(c) = "encrypt" =>
              \E g \in Nat : out = Sealed(call[c].label, g, call[c].payload),
           Request(c) \in {"decrypt", "verify"} =>
              \E g \in Nat : out = Computed(call[c].label, g, call[c].payload)
    PROVE  IInv'
<1>1. Active(call[c]) /\ call = [d \in Callers |-> call[d]]
  BY DEF Active, IInv, CallsOK
<1>2. UNCHANGED <<service, client, obj, blobs, process, role>> /\ requests' = requests
  BY DEF Reply, service
<1> DEFINE r == call[c]
<1>3. PICK r2 : r2 = [r EXCEPT !.at = "answered", !.answer = "ok", !.output = out]
  OBVIOUS
<1>4. call' = [call EXCEPT ![c] = r2]
  BY <1>3, <1>1 DEF Reply
<1>5. Variant(r, r2, r.todo, "answered", r.key, r.loaded, "ok", out, r.waited)
  BY <1>1, <1>3, InProgress, Replied
<1>6. AnswerOK(r2, requests)
  BY <1>5 DEF Variant, AnswerOK, Request
<1>7. CallsOK'
  BY <1>1, <1>2, <1>4, <1>5, <1>6, Proceeds, InProgress DEF Places
<1> QED
  BY <1>2, <1>7, Framed

(* The type and generation of the key that a request is about.             *)
LEMMA KeyOf ==
    ASSUME IInv, NEW c \in Callers, call[c].at = "sent", Request(c) # "health"
    PROVE  /\ call[c].label \in Labels
           /\ TypeOf(c) \in {None, "aes", "rsa"} /\ GenOf(c) \in 0..MaxKeys
           /\ GenOf(c) \in Nat
<1>1. Active(call[c])
  BY DEF Active
<1>2. call[c].op # "NewKeyStore"
  BY <1>1, InProgress, Todos DEF Request
<1>3. call[c].label \in Labels
  BY <1>1, <1>2, InProgress
<1>4. keys[call[c].label] \in [type : {None, "aes", "rsa"}, gen : 0..MaxKeys,
                                policy : Policies \cup {None}]
  BY <1>3 DEF IInv, ServiceOK
<1>5. MaxKeys \in Nat
  BY SizesAssumption
<1> QED
  BY <1>3, <1>4, <1>5 DEF TypeOf, GenOf

LEMMA RepliesStep ==
    ASSUME IInv, NEW c \in Callers,
           \/ CheckConnection(c) \/ GenerateRandom(c) \/ GetKey(c) \/ Encrypt(c)
           \/ Decrypt(c) \/ Verify(c)
    PROVE  IInv'
<1> USE DEF Serves, Accepted
<1>1. CASE CheckConnection(c)
  BY <1>1, ReplyStep DEF CheckConnection
<1>2. CASE GenerateRandom(c)
  BY <1>2, ReplyStep DEF GenerateRandom
<1>3. CASE GetKey(c)
  <2>1. /\ call[c].at = "sent" /\ Request(c) \in {"getKey", "lookup"}
        /\ TypeOf(c) # None /\ Reply(c, <<TypeOf(c), keys[call[c].label].policy>>)
    BY <1>3 DEF GetKey
  <2>2. TypeOf(c) \in {"aes", "rsa"}
    BY <2>1, KeyOf
  <2>3. <<TypeOf(c), keys[call[c].label].policy>>[1] \in {"aes", "rsa"}
    BY <2>2
  <2> QED
    BY <2>1, <2>3, ReplyStep
<1>4. CASE Encrypt(c)
  <2>1. /\ call[c].at = "sent" /\ Request(c) = "encrypt"
        /\ Reply(c, Sealed(call[c].label, GenOf(c), call[c].payload))
    BY <1>4 DEF Encrypt
  <2> QED
    BY <2>1, KeyOf, ReplyStep
<1>5. CASE Decrypt(c) \/ Verify(c)
  <2>1. /\ call[c].at = "sent" /\ Request(c) \in {"decrypt", "verify"}
        /\ Reply(c, Computed(call[c].label, GenOf(c), call[c].payload))
    BY <1>5 DEF Decrypt, Verify
  <2> QED
    BY <2>1, KeyOf, ReplyStep
<1> QED
  BY <1>1, <1>2, <1>3, <1>4, <1>5

LEMMA GetKeysStep ==
    ASSUME IInv, NEW c \in Callers, GetKeys(c)
    PROVE  IInv'
<1>1. /\ Active(call[c]) /\ call = [d \in Callers |-> call[d]]
      /\ call[c].at = "sent" /\ Head(call[c].todo) = "getKeys"
  BY DEF GetKeys, Serves, Accepted, Request, Active, IInv, CallsOK
<1>2. UNCHANGED <<service, client, obj, blobs, process, role>> /\ requests' = requests
  BY DEF GetKeys, service
<1> DEFINE r == call[c]
<1>11. PICK L : L = {l \in Labels : keys[l].type # None} /\ L \subseteq Labels
  OBVIOUS
<1>3. PICK r2 : r2 = [r EXCEPT !.at = "answered", !.answer = "ok", !.left = L]
  OBVIOUS
<1>4. call' = [call EXCEPT ![c] = r2]
  BY <1>1, <1>3, <1>11 DEF GetKeys
<1>12. CallShape(r)
  BY <1>1, InProgress
<1>5. Listing(r, r2, L)
  BY <1>3, <1>12, Listed
<1>6. Continues(r, r2)
  BY <1>1, <1>5, <1>11, InProgress DEF Listing, Continues, Active, Places
<1>7. AnswerOK(r2, requests)
  BY <1>1, <1>5 DEF Listing, AnswerOK
<1>8. CallInv(r, obj[c], requests)
  BY DEF IInv, CallsOK
<1>9. CallInv(r2, obj[c], requests)
  BY <1>1, <1>6, <1>7, <1>8, GoesOn
<1>10. CallsOK'
  BY <1>2, <1>4, <1>9, OneCall, SameRequests
<1> QED
  BY <1>2, <1>10, Framed

LEMMA GetRequestStep ==
    ASSUME IInv, NEW c \in Callers, GetRequest(c)
    PROVE  IInv'
<1>1. Active(call[c]) /\ call = [d \in Callers |-> call[d]]
  BY DEF GetRequest, Serves, Accepted, Active, IInv, CallsOK
<1>2. UNCHANGED <<service, client, obj, blobs, process, role>> /\ requests' = requests
  BY DEF GetRequest, service
<1> DEFINE r == call[c]
           q == requests[call[c].id]
<1>3. PICK r2 : r2 = [r EXCEPT !.at = "answered", !.answer = q.status, !.output = ResultOf(q)]
  OBVIOUS
<1>4. call' = [call EXCEPT ![c] = r2]
  BY <1>3, <1>1 DEF GetRequest
<1>5. Variant(r, r2, r.todo, "answered", r.key, r.loaded, q.status, ResultOf(q), r.waited)
  BY <1>1, <1>3, InProgress, Replied
<1>6. r.id # 0 /\ Head(r.todo) = "poll"
  BY DEF GetRequest, Serves, Request
<1>7. AnswerOK(r2, requests)
  BY <1>5, <1>6 DEF Variant, AnswerOK
<1>8. CallsOK'
  BY <1>1, <1>2, <1>4, <1>5, <1>7, Proceeds, InProgress DEF Places
<1> QED
  BY <1>2, <1>8, Framed

(* A key is created or removed.                                            *)
LEMMA KeyChangeStep ==
    ASSUME IInv, NEW c \in Callers, CreateOrUpdateKey(c) \/ RemoveKey(c)
    PROVE  IInv'
<1>1. /\ Active(call[c]) /\ call = [d \in Callers |-> call[d]]
      /\ call[c].at = "sent" /\ Head(call[c].todo) \in {"createKey", "removeKey"}
      /\ Answer(c, "ok")
  BY DEF CreateOrUpdateKey, RemoveKey, Serves, Accepted, Request, Active, IInv, CallsOK
<1>2. UNCHANGED <<valid, requests, client, obj, blobs, process, role>>
  BY DEF CreateOrUpdateKey, RemoveKey
<1> DEFINE r == call[c]
<1>3. PICK r2 : r2 = [r EXCEPT !.at = "answered", !.answer = "ok"]
  OBVIOUS
<1>4. call' = [call EXCEPT ![c] = r2]
  BY <1>3, <1>1 DEF Answer
<1>5. Variant(r, r2, r.todo, "answered", r.key, r.loaded, "ok", r.output, r.waited)
  BY <1>1, <1>3, InProgress DEF Variant, CallShape, Fields
<1>6. AnswerOK(r2, requests)
  BY <1>1, <1>5 DEF Variant, AnswerOK
<1>7. CallsOK'
  BY <1>1, <1>2, <1>4, <1>5, <1>6, Proceeds, InProgress DEF Places
<1>8. r.label \in Labels /\ r.policy \in Policies \cup {None} /\ MaxKeys \in Nat
  BY <1>1, KeyOf, SizesAssumption DEF Request, IInv, CallsOK, CallInv, LocalsOK
<1>9. keys' \in [Labels -> [type : {None, "aes", "rsa"}, gen : 0..MaxKeys,
                            policy : Policies \cup {None}]]
  <2> USE DEF IInv, ServiceOK
  <2>1. CASE CreateOrUpdateKey(c)
    <3>1. keys[r.label].gen \in 0..MaxKeys /\ keys[r.label].gen < MaxKeys
      BY <1>8, <2>1 DEF CreateOrUpdateKey, GenOf
    <3>2. keys[r.label].gen + 1 \in 0..MaxKeys
      BY <1>8, <3>1
    <3> QED
      BY <1>8, <2>1, <3>2 DEF CreateOrUpdateKey
  <2>2. CASE RemoveKey(c)
    BY <1>8, <2>2 DEF RemoveKey
  <2> QED
    BY <2>1, <2>2
<1> QED
  BY <1>2, <1>7, <1>9 DEF IInv, ServiceOK, ClientOK, ObjsOK, BlobsOK, client

(* A request for approval is posted.                                       *)
Posting(r, r2, i) ==
    /\ CallShape(r2) /\ r2.at = "answered" /\ r2.id = i
    /\ r2.op = r.op /\ r2.todo = r.todo /\ r2.label = r.label
    /\ r2.policy = r.policy /\ r2.blob = r.blob /\ r2.left = r.left
    /\ r2.key = r.key /\ r2.loaded = r.loaded /\ r2.waited = r.waited
    /\ r2.canceled = r.canceled /\ r2.payload = r.payload /\ r2.done = r.done

LEMMA Posted ==
    ASSUME NEW r, CallShape(r), NEW i, NEW r2,
           r2 = [r EXCEPT !.at = "answered", !.answer = "ok", !.id = i]
    PROVE  Posting(r, r2, i)
BY DEF Posting, CallShape, Fields

LEMMA RecordStep ==
    ASSUME IInv, NEW c \in Callers, AsyncDecrypt(c) \/ AsyncSign(c)
    PROVE  IInv'
<1>1. /\ Active(call[c]) /\ call = [d \in Callers |-> call[d]]
      /\ call[c].at = "sent" /\ Head(call[c].todo) \in {"asyncDecrypt", "asyncSign"}
      /\ Record(c)
  BY DEF AsyncDecrypt, AsyncSign, Serves, Accepted, Request, Active, IInv, CallsOK
<1> DEFINE r == call[c]
           n == Len(requests)
<1>2. PICK s \in {"PENDING", "EXECUTED", "FAILED"} :
        requests' = Append(requests, [label |-> r.label, gen |-> GenOf(c),
                                      payload |-> r.payload, status |-> s])
  BY <1>1 DEF Record
<1>3. /\ r.label \in Labels /\ GenOf(c) \in Nat /\ r.op \in {"decrypt", "sign", "Decrypt"}
      /\ CallShape(r) /\ CallInv(r, obj[c], requests)
  BY <1>1, KeyOf, InProgress, Todos DEF Request, IInv, CallsOK
<1>4. r.payload \in Seq(Data) \cup Ciphertexts
  <2>1. CASE r.op \in {"decrypt", "sign"}
    BY <1>1, <1>3, <2>1 DEF CallInv, InputOK, ObjKinds, IInv, ObjsOK, ObjRec
  <2>2. CASE r.op = "Decrypt"
    <3>1. PICK l \in Labels, g \in Nat, d \in Data : r.payload = Sealed(l, g, B64(<<d>>))
      BY <1>1, <1>3, <2>2 DEF CallInv, InputOK
    <3> QED
      BY <3>1 DEF Ciphertexts
  <2> QED
    BY <1>3, <2>1, <2>2
<1>5. PICK q : q = [label |-> r.label, gen |-> GenOf(c), payload |-> r.payload,
                    status |-> s]
  OBVIOUS
<1>6. /\ q \in RequestRec /\ q.label = r.label /\ q.payload = r.payload
      /\ requests' = Append(requests, q)
  BY <1>2, <1>3, <1>4, <1>5 DEF RequestRec, Statuses
<1>7. requests \in Seq(RequestRec) /\ n \in Nat /\ n < MaxRequests /\ MaxRequests \in Nat
  BY <1>1, SizesAssumption DEF IInv, ServiceOK, Record
<1>8. /\ requests' \in Seq(RequestRec) /\ Len(requests') = n + 1
      /\ requests'[n + 1] = q /\ \A i \in 1..n : requests'[i] = requests[i]
  BY <1>6, <1>7, AppendProperties
<1>9. Grows(requests, requests')
  BY <1>7, <1>8 DEF Grows
<1>10. PICK r2 : r2 = [r EXCEPT !.at = "answered", !.answer = "ok", !.id = n + 1]
  OBVIOUS
<1>11. call' = [call EXCEPT ![c] = r2]
  BY <1>1, <1>10 DEF Record
<1>12. Posting(r, r2, n + 1)
  BY <1>3, <1>10, Posted
<1>13. CallInv(r2, obj[c], requests')
  <2> USE <1>12 DEF Posting, CallInv
  <2>1. LocalsOK(r2, requests')
    BY <1>1, <1>3, <1>7, <1>8 DEF LocalsOK, Active, Places
  <2>2. PlaceOK(r2)
    BY <1>1, <1>3 DEF PlaceOK, Active
  <2>3. InputOK(r2, obj[c])
    BY <1>1, <1>3 DEF InputOK
  <2>4. PostedOK(r2, requests')
    BY <1>6, <1>8 DEF PostedOK
  <2>5. AnswerOK(r2, requests')
    BY <1>1 DEF AnswerOK
  <2>6. Approved(r2, requests') /\ NewInput(r2)
    BY <1>1, <1>3 DEF Approved, NewInput, LocalsOK, None
  <2> QED
    BY <2>1, <2>2, <2>3, <2>4, <2>5, <2>6
<1>14. UNCHANGED <<valid, keys, client, obj, blobs, process, role>>
  BY <1>1 DEF Record
<1>15. CallsOK'
  BY <1>9, <1>11, <1>13, <1>14, OneCall
<1> QED
  BY <1>7, <1>8, <1>14, <1>15 DEF IInv, ServiceOK, ClientOK, ObjsOK, BlobsOK, client

(* Approvers decide, or the service revokes an API key.                    *)
LEMMA DecideStep ==
    ASSUME IInv, NEW i \in 1..Len(requests), Decide(i)
    PROVE  IInv'
<1>1. PICK s \in Statuses : requests' = [requests EXCEPT ![i].status = s]
  BY DEF Decide, Statuses
<1>2. requests \in Seq(RequestRec) /\ requests[i] \in RequestRec
  BY DEF IInv, ServiceOK
<1>3. PICK q : q = [requests[i] EXCEPT !.status = s]
  OBVIOUS
<1>4. /\ q \in RequestRec /\ q.label = requests[i].label /\ q.gen = requests[i].gen
      /\ q.payload = requests[i].payload
      /\ requests' = [requests EXCEPT ![i] = q]
  BY <1>1, <1>2, <1>3 DEF RequestRec
<1>5. /\ requests' \in Seq(RequestRec) /\ Len(requests') = Len(requests)
      /\ \A j \in 1..Len(requests) : requests'[j] = IF j = i THEN q ELSE requests[j]
  BY <1>2, <1>4, ExceptSeq
<1>6. Grows(requests, requests')
  BY <1>2, <1>4, <1>5 DEF Grows, Decide
<1>7. UNCHANGED <<valid, keys, client, obj, call, blobs, process, role>>
  BY DEF Decide
<1>8. CallsOK'
  <2>1. ASSUME NEW c \in Callers
        PROVE  CallInv(call[c], obj[c], requests')
    <3>1. CallInv(call[c], obj[c], requests) /\ PlaceOK(call[c])
      BY DEF IInv, CallsOK, CallInv
    <3> QED
      BY <1>6, <3>1, Kept
  <2> QED
    BY <1>7, <2>1 DEF IInv, CallsOK
<1> QED
  BY <1>5, <1>7, <1>8 DEF IInv, ServiceOK, ClientOK, ObjsOK, BlobsOK, client

LEMMA RevokeStep ==
    ASSUME IInv, NEW g \in Groups, NEW k \in valid[g], Revoke(g, k)
    PROVE  IInv'
<1>1. CallsOK'
  BY DEF Revoke, IInv, CallsOK
<1> QED
  BY <1>1 DEF Revoke, IInv, ServiceOK, ClientOK, ObjsOK, BlobsOK, client

LEMMA RestartStep ==
    ASSUME IInv, Restart
    PROVE  IInv'
<1>1. CallsOK'
  BY DEF Restart, IInv, CallsOK, service
<1>2. ClientOK'
  BY DEF Restart, IInv, ClientOK
<1> QED
  BY <1>1, <1>2 DEF Restart, IInv, ServiceOK, ObjsOK, BlobsOK, service

-----------------------------------------------------------------------------
(***************************************************************************)
(* What an operation does with the answer                                  *)
(***************************************************************************)
Asking(r, r2, t) ==
    Variant(r, r2, t, "check", r.key, r.loaded, None, <<>>, r.waited)

LEMMA Asks ==
    ASSUME NEW r, CallShape(r), NEW t, NEW r2,
           r2 = [r EXCEPT !.todo = t, !.at = "check", !.answer = None, !.output = <<>>]
    PROVE  Asking(r, r2, t)
BY DEF Asking, Variant, CallShape, Fields

LEMMA AskStep ==
    ASSUME IInv, NEW c \in Callers, Active(call[c]), NEW t \in TodosOf(call[c].op),
           Ask(c, t)
    PROVE  IInv'
<1> DEFINE r == call[c]
<1>1. call = [d \in Callers |-> call[d]] /\ CallShape(r)
  BY InProgress DEF IInv, CallsOK
<1>2. UNCHANGED <<service, client, obj, blobs, process, role>> /\ requests' = requests
  BY DEF Ask, service
<1>3. PICK r2 : r2 = [r EXCEPT !.todo = t, !.at = "check", !.answer = None, !.output = <<>>]
  OBVIOUS
<1>4. call' = [call EXCEPT ![c] = r2]
  BY <1>1, <1>3 DEF Ask
<1>5. Asking(r, r2, t)
  BY <1>1, <1>3, Asks
<1>6. AnswerOK(r2, requests)
  BY <1>5, NoAnswer DEF Asking, Variant
<1>7. CallsOK'
  BY <1>2, <1>4, <1>5, <1>6, Proceeds, InProgress DEF Places, Asking
<1> QED
  BY <1>2, <1>7, Framed

LEMMA AsksStep ==
    ASSUME IInv, NEW c \in Callers, Proceed(c) \/ CreateMissing(c) \/ PollAgain(c)
    PROVE  IInv'
<1>1. Active(call[c])
  BY DEF Proceed, CreateMissing, PollAgain, Answered, Active
<1>2. call[c].op \in AllOps /\ call[c].todo \in TodosOf(call[c].op)
  BY <1>1, InProgress
<1>3. CASE Proceed(c)
  BY <1>1, <1>2, <1>3, AskStep, Todos DEF Proceed
<1>4. CASE CreateMissing(c)
  <2>1. call[c].op = "SetConfig"
    BY <1>2, <1>4, Todos DEF CreateMissing, Answered, Request
  <2>2. <<"createKey", "getKey">> \in TodosOf("SetConfig")
    BY DEF TodosOf
  <2> QED
    BY <1>1, <1>4, <2>1, <2>2, AskStep DEF CreateMissing
<1>5. CASE PollAgain(c)
  <2>1. call[c].todo = <<"poll">>
    BY <1>1, <1>5, InProgress DEF PollAgain
  <2> QED
    BY <1>1, <1>2, <1>5, <2>1, AskStep DEF PollAgain
<1> QED
  BY <1>3, <1>4, <1>5

LEMMA PendingStep ==
    ASSUME IInv, NEW c \in Callers, Pending(c)
    PROVE  IInv'
<1>1. Active(call[c]) /\ call = [d \in Callers |-> call[d]]
  BY DEF Pending, Answered, Active, IInv, CallsOK
<1>2. UNCHANGED <<service, client, obj, blobs, process, role>> /\ requests' = requests
  BY DEF Pending, service
<1> DEFINE r == call[c]
<1>3. PICK r2 : r2 = [r EXCEPT !.at = "waiting"]
  OBVIOUS
<1>4. call' = [call EXCEPT ![c] = r2]
  BY <1>3, <1>1 DEF Pending, Go
<1>5. Variant(r, r2, r.todo, "waiting", r.key, r.loaded, r.answer, r.output, r.waited)
  BY <1>1, <1>3, InProgress DEF Variant, CallShape, Fields
<1>6. AnswerOK(r2, requests)
  BY <1>5, NoAnswer DEF Variant
<1>7. r.todo = <<"poll">>
  BY <1>1, InProgress, Todos DEF Pending, Answered, Request
<1>8. CallsOK'
  BY <1>1, <1>2, <1>4, <1>5, <1>6, <1>7, Proceeds, InProgress DEF Places
<1> QED
  BY <1>2, <1>8, Framed

LEMMA TakenStep ==
    ASSUME IInv, NEW c \in Callers, Taken(c)
    PROVE  IInv'
<1>1. /\ call' = [call EXCEPT ![c] = NoCall]
      /\ UNCHANGED <<service, client, obj, blobs, process, role>>
      /\ requests' = requests
  BY DEF Taken, service
<1>2. CallInv(NoCall, obj[c], requests)
  BY NothingRuns DEF IInv, ServiceOK
<1>3. CallsOK'
  BY <1>1, <1>2, OneCall, SameRequests
<1> QED
  BY <1>1, <1>3, Framed

(* A signal changes nothing of a call but that it was cancelled.           *)
Canceled(r, r2) ==
    /\ CallShape(r2) /\ r2.canceled = TRUE
    /\ \A x \in Fields \ {"canceled"} : r2[x] = r[x]

LEMMA Cancels ==
    ASSUME NEW r, CallShape(r), NEW r2, r2 = [r EXCEPT !.canceled = TRUE]
    PROVE  Canceled(r, r2)
BY DEF Canceled, CallShape, Fields

LEMMA CanceledInv ==
    ASSUME NEW r, NEW r2, NEW o, NEW q, CallInv(r, o, q), Canceled(r, r2)
    PROVE  CallInv(r2, o, q)
<1>1. /\ r2.op = r.op /\ r2.todo = r.todo /\ r2.at = r.at /\ r2.label = r.label
      /\ r2.policy = r.policy /\ r2.blob = r.blob /\ r2.left = r.left
      /\ r2.key = r.key /\ r2.loaded = r.loaded /\ r2.answer = r.answer
      /\ r2.id = r.id /\ r2.waited = r.waited /\ r2.payload = r.payload
      /\ r2.output = r.output /\ r2.done = r.done
  BY DEF Canceled, Fields
<1>2. CallShape(r2) /\ r2.canceled = TRUE
  BY DEF Canceled
<1> USE DEF CallInv, Active
<1>3. LocalsOK(r2, q)
  BY <1>1, <1>2 DEF LocalsOK
<1>4. PlaceOK(r2) /\ InputOK(r2, o) /\ PostedOK(r2, q)
  BY <1>1 DEF PlaceOK, InputOK, PostedOK
<1>5. AnswerOK(r2, q) /\ Approved(r2, q) /\ NewInput(r2)
  BY <1>1 DEF AnswerOK, Approved, NewInput
<1> QED
  BY <1>3, <1>4, <1>5

LEMMA InterruptStep ==
    ASSUME IInv, Interrupt
    PROVE  IInv'
<1>1. /\ UNCHANGED <<service, client, obj, blobs, process, role>>
      /\ requests' = requests /\ call' = [c \in Callers |-> call'[c]]
      /\ \A c \in Callers : call'[c] \in {call[c], [call[c] EXCEPT !.canceled = TRUE]}
  BY DEF Interrupt, service
<1>2. ASSUME NEW c \in Callers
      PROVE  CallInv(call'[c], obj'[c], requests')
  <2>1. CallInv(call[c], obj[c], requests) /\ CallShape(call[c])
    BY DEF IInv, CallsOK, CallInv, LocalsOK
  <2>2. CASE call'[c] = call[c]
    BY <1>1, <2>1, <2>2
  <2>3. CASE call'[c] = [call[c] EXCEPT !.canceled = TRUE]
    <3>1. PICK r2 : r2 = call'[c]
      OBVIOUS
    <3>2. Canceled(call[c], r2)
      BY <2>1, <2>3, <3>1, Cancels
    <3> QED
      BY <1>1, <2>1, <3>1, <3>2, CanceledInv
  <2> QED
    BY <1>1, <2>2, <2>3
<1>3. CallsOK'
  BY <1>1, <1>2 DEF CallsOK
<1> QED
  BY <1>1, <1>3, Framed

-----------------------------------------------------------------------------
(***************************************************************************)
(* Returning                                                               *)
(***************************************************************************)
Returning(r, r2, x, out, how) ==
    /\ CallShape(r2) /\ r2.at = "returned" /\ r2.op = r.op /\ r2.label = r.label
    /\ r2.blob = r.blob /\ r2.id = r.id /\ r2.payload = x /\ r2.output = out
    /\ r2.done = how /\ r2.todo = <<>> /\ r2.policy = None /\ r2.left = {}
    /\ r2.key = {} /\ r2.loaded = 0 /\ r2.waited = 0 /\ r2.canceled = FALSE

LEMMA Returned ==
    ASSUME NEW r, NEW x, NEW out, NEW how, NEW r2,
           r2 = [NoCall EXCEPT !.at = "returned", !.op = r.op, !.label = r.label,
                               !.blob = r.blob, !.id = r.id, !.payload = x,
                               !.output = out, !.done = how]
    PROVE  Returning(r, r2, x, out, how)
BY DEF Returning, CallShape, Fields, NoCall

LEMMA ReturnStep ==
    ASSUME IInv, NEW c \in Callers, Active(call[c]), NEW out,
           NEW how \in {"ok", "error"}, Return(c, out, how), requests' = requests,
           how = "ok" /\ call[c].op \in {"decrypt", "sign"} =>
              /\ call[c].id # 0 /\ requests[call[c].id].status = "EXECUTED"
              /\ out = Computed(call[c].label, requests[call[c].id].gen,
                                requests[call[c].id].payload),
           how = "ok" /\ call[c].op = "Decrypt" =>
              /\ call[c].id # 0 /\ requests[call[c].id].status # "PENDING"
              /\ out = IF requests[call[c].id].status = "EXECUTED"
                       THEN call[c].blob.plain ELSE <<>>,
           how = "ok" /\ call[c].op \in ObjKinds =>
              out[4] = call[c].payload
    PROVE  CallsOK' /\ ObjsOK'
<1> DEFINE r == call[c]
<1>1. CallInv(r, obj[c], requests) /\ call = [d \in Callers |-> call[d]]
  BY DEF IInv, CallsOK
<1>2. obj[c] \in ObjRec /\ ObjOK(obj[c]) /\ obj \in [Callers -> ObjRec]
  BY DEF IInv, ObjsOK
<1>3. PICK x : x = IF obj[c].kind = r.op THEN Input(c) ELSE <<>>
  OBVIOUS
<1>4. r.op \in ObjKinds => x = r.payload
  BY <1>1, <1>2, <1>3 DEF CallInv, InputOK, ObjOK, Input
<1>5. PICK r2 : r2 = [NoCall EXCEPT !.at = "returned", !.op = r.op, !.label = r.label,
                               !.blob = r.blob, !.id = r.id, !.payload = x,
                               !.output = out, !.done = how]
  OBVIOUS
<1>6. Returning(r, r2, x, out, how)
  BY <1>5, Returned
<1>7. call' = [call EXCEPT ![c] = r2]
  BY <1>3, <1>5 DEF Return
<1>8. ASSUME NEW o
      PROVE  CallInv(r2, o, requests)
  <2> USE <1>6 DEF Returning, CallInv
  <2>1. LocalsOK(r2, requests)
    <3>1. /\ r.op \in AllOps \cup {None} /\ r.label \in Labels \cup {None}
          /\ r.id \in 0..Len(requests)
      BY <1>1 DEF LocalsOK
    <3>2. ~Active(r2) /\ how \in {"ok", "error", None} /\ how # None
      BY DEF Active, None
    <3> QED
      <4>1. /\ r2.left \subseteq Labels /\ r2.policy \in Policies \cup {None}
            /\ r2.key = {} /\ r2.loaded \in Nat /\ r2.waited \in Nat
            /\ r2.at \in Places
        BY DEF Places
      <4>2. r2.canceled \in BOOLEAN
        OBVIOUS
      <4> QED
        BY <3>1, <3>2, <4>1, <4>2 DEF LocalsOK
  <2>2. PlaceOK(r2) /\ InputOK(r2, o) /\ PostedOK(r2, requests) /\ AnswerOK(r2, requests)
    BY DEF PlaceOK, InputOK, PostedOK, AnswerOK, Active
  <2>3. Approved(r2, requests)
    BY DEF Approved
  <2>4. NewInput(r2)
    BY <1>4 DEF NewInput
  <2> QED
    BY <2>1, <2>2, <2>3, <2>4
<1>9. /\ obj' \in [Callers -> ObjRec] /\ ObjOK(obj'[c])
      /\ \A d \in Callers : d # c => obj'[d] = obj[d]
  <2>1. CASE obj[c].kind # r.op
    BY <1>2, <2>1 DEF Return
  <2>2. CASE obj[c].kind = r.op
    <3>0. PICK e, k : /\ e = Emptied(c)
                      /\ k = IF obj[c].kind = "gcmDecrypt" THEN Input(c) ELSE <<>>
      OBVIOUS
    <3>1. PICK o : o = [obj[c] EXCEPT !.buffer = e, !.fed = <<>>, !.kept = k]
      OBVIOUS
    <3>2. obj' = [obj EXCEPT ![c] = o]
      BY <1>2, <2>2, <3>0, <3>1 DEF Return
    <3>3. o \in ObjRec /\ ObjOK(o)
      <4>1. e \in Seq(Data) /\ <<>> \in Seq(Data) /\ e = k
        BY <1>2, <3>0 DEF ObjRec, ObjOK, Emptied, Input
      <4>2. /\ o \in ObjRec /\ o.kind = obj[c].kind /\ o.label = obj[c].label
            /\ o.fed = <<>> /\ o.buffer = e /\ o.kept = e
        BY <1>2, <3>1, <4>1 DEF ObjRec
      <4>3. e \o <<>> = e
        BY <4>1, ConcatEmptySeq
      <4> QED
        BY <1>2, <4>2, <4>3 DEF ObjOK
    <3> QED
      BY <1>2, <3>2, <3>3
  <2> QED
    BY <2>1, <2>2
<1>10. ObjsOK'
  BY <1>9 DEF IInv, ObjsOK
<1>11. CallsOK'
  BY <1>7, <1>8, <1>9, OneCall, SameRequests
<1> QED
  BY <1>10, <1>11

LEMMA EndsStep ==
    ASSUME IInv, CallsOK', ObjsOK', ClientOK', BlobsOK', UNCHANGED service
    PROVE  IInv'
BY DEF IInv, ServiceOK, service

LEMMA ErrorEnds ==
    ASSUME IInv, NEW c \in Callers, Active(call[c]), NEW out, Ends(c, out, "error"),
           UNCHANGED <<store, handles, seal>>
    PROVE  IInv'
<1>1. /\ UNCHANGED <<service, index, store, handles, seal, blobs, process, role>>
      /\ Return(c, out, "error") /\ requests' = requests
  BY DEF Ends, service
<1>2. CallsOK' /\ ObjsOK'
  BY <1>1, ReturnStep
<1> QED
  BY <1>1, <1>2, EndsStep DEF IInv, ClientOK, BlobsOK

(* Operations whose result nothing is claimed of.                          *)
LEMMA PlainEnds ==
    ASSUME IInv, NEW c \in Callers, Active(call[c]), NEW out, NEW how \in {"ok", "error"},
           Return(c, out, how), UNCHANGED <<service, blobs>>, ClientOK',
           call[c].op \notin {"decrypt", "sign", "Decrypt", "encrypt", "verify", "gcmDecrypt"}
    PROVE  IInv'
<1>1. requests' = requests
  BY DEF service
<1>2. CallsOK' /\ ObjsOK'
  BY <1>1, ReturnStep DEF ObjKinds
<1> QED
  BY <1>2, EndsStep DEF IInv, BlobsOK

LEMMA ReturnErrorStep ==
    ASSUME IInv, NEW c \in Callers, ReturnError(c)
    PROVE  IInv'
<1>1. Active(call[c])
  BY DEF ReturnError, Active
<1> QED
  BY <1>1, ErrorEnds DEF ReturnError

LEMMA OpenedStep ==
    ASSUME IInv, NEW c \in Callers, Opened(c)
    PROVE  IInv'
<1>1. Active(call[c]) /\ call[c].op = "NewKeyStore"
  BY DEF Opened, Answered, Active
<1>2. ClientOK'
  BY DEF Opened, Ends, IInv, ClientOK
<1> QED
  BY <1>1, <1>2, PlainEnds DEF Opened, Ends

(* What the answer to a lookup of a key tells.                             *)
LEMMA KeyAnswer ==
    ASSUME IInv, NEW c \in Callers, call[c].at = "answered", ~Failed(c),
           Request(c) \in {"getKey", "lookup"}
    PROVE  call[c].output[1] \in {"aes", "rsa"} /\ call[c].label \in Labels
           /\ call[c].op \notin ObjKinds
<1>1. Active(call[c])
  BY DEF Active
<1>2. call[c].op # "NewKeyStore" /\ call[c].op \notin ObjKinds
  BY <1>1, InProgress, Todos DEF Request
<1>3. CallInv(call[c], obj[c], requests)
  BY DEF IInv, CallsOK
<1> QED
  BY <1>1, <1>2, <1>3, InProgress DEF CallInv, AnswerOK, Failed, Request

LEMMA GotKeyStep ==
    ASSUME IInv, NEW c \in Callers, GotKey(c)
    PROVE  IInv'
<1>1. /\ call[c].at = "answered" /\ ~Failed(c) /\ Active(call[c])
      /\ Request(c) \in {"getKey", "lookup"}
  BY DEF GotKey, Answered, Active
<1>2. /\ call[c].output[1] \in {"aes", "rsa"} /\ call[c].label \in Labels
      /\ call[c].op \notin ObjKinds
  BY <1>1, KeyAnswer
<1>3. ClientOK'
  <2>1. UNCHANGED <<index, store, process, role>>
    BY DEF GotKey, Ends
  <2>2. handles' \in [Labels -> {None, "aes", "rsa"}]
    BY <1>2 DEF GotKey, IInv, ClientOK
  <2>3. seal' # NoSeal => seal'.label \in Labels
    BY <1>2 DEF GotKey, IInv, ClientOK
  <2> QED
    BY <2>1, <2>2, <2>3 DEF IInv, ClientOK
<1>4. call[c].op # "Decrypt"
  <2>1. Head(call[c].todo) \in {"getKey", "lookup"} /\ call[c].todo \in TodosOf(call[c].op)
    BY <1>1, InProgress DEF Request
  <2> QED
    BY <2>1, Tuples DEF TodosOf
<1> QED
  BY <1>1, <1>2, <1>3, <1>4, PlainEnds DEF GotKey, Ends, ObjKinds

(* ListKeys goes on with the next key, or returns.                         *)
NextOne(r, r2, l) ==
    /\ CallShape(r2) /\ r2.left = r.left \ {l} /\ r2.label = l
    /\ r2.todo = <<"getKey">> /\ r2.at = "check"
    /\ r2.op = r.op /\ r2.policy = r.policy /\ r2.blob = r.blob /\ r2.id = r.id
    /\ r2.payload = r.payload /\ r2.done = r.done /\ r2.key = r.key
    /\ r2.loaded = r.loaded /\ r2.waited = r.waited /\ r2.canceled = r.canceled

LEMMA TakesNext ==
    ASSUME NEW r, CallShape(r), NEW l, NEW r2,
           r2 = [r EXCEPT !.left = @ \ {l}, !.label = l, !.todo = <<"getKey">>,
                          !.at = "check", !.answer = None, !.output = <<>>]
    PROVE  NextOne(r, r2, l)
BY DEF NextOne, CallShape, Fields

LEMMA NextListedStep ==
    ASSUME IInv, NEW c \in Callers, NextListed(c)
    PROVE  IInv'
<1> DEFINE r == call[c]
<1>1. /\ Active(r) /\ r.op = "ListKeys" /\ r.at = "answered"
      /\ call = [d \in Callers |-> call[d]] /\ CallInv(r, obj[c], requests)
  BY DEF NextListed, Active, IInv, CallsOK
<1>2. UNCHANGED <<service, index, store, seal, blobs, process, role>> /\ requests' = requests
  BY DEF NextListed, service
<1>3. handles' \in [Labels -> {None, "aes", "rsa"}]
  <2>1. CASE Request(c) = "getKey" /\ ~Failed(c)
    <3>1. r.output[1] \in {"aes", "rsa"} /\ r.label \in Labels
      BY <1>1, <2>1, KeyAnswer
    <3> QED
      BY <2>1, <3>1 DEF NextListed, IInv, ClientOK
  <2>2. CASE ~(Request(c) = "getKey" /\ ~Failed(c))
    BY <2>2 DEF NextListed, IInv, ClientOK
  <2> QED
    BY <2>1, <2>2
<1>4. ClientOK'
  BY <1>2, <1>3 DEF IInv, ClientOK
<1>5. CASE Return(c, <<>>, "ok")
  BY <1>1, <1>2, <1>4, <1>5, PlainEnds
<1>6. ASSUME NEW l \in r.left, UNCHANGED obj,
             call' = [call EXCEPT ![c].left = @ \ {l}, ![c].label = l,
                        ![c].todo = <<"getKey">>, ![c].at = "check",
                        ![c].answer = None, ![c].output = <<>>]
      PROVE  IInv'
  <2>1. PICK r2 : r2 = [r EXCEPT !.left = @ \ {l}, !.label = l, !.todo = <<"getKey">>,
                                 !.at = "check", !.answer = None, !.output = <<>>]
    OBVIOUS
  <2>2. call' = [call EXCEPT ![c] = r2]
    BY <1>1, <1>6, <2>1
  <2>3. NextOne(r, r2, l)
    BY <1>1, <2>1, TakesNext DEF CallInv, LocalsOK
  <2>4. l \in Labels /\ r.left \ {l} \subseteq Labels
    BY <1>1, <1>6 DEF CallInv, LocalsOK
  <2>5. <<"getKey">> \in TodosOf("ListKeys")
    BY DEF TodosOf
  <2>6. Continues(r, r2)
    BY <1>1, <2>3, <2>4, <2>5, InProgress DEF NextOne, Continues, Active, Places
  <2>7. CallInv(r2, obj[c], requests)
    BY <1>1, <2>3, <2>6, GoesOn, NoAnswer DEF NextOne
  <2>8. CallsOK'
    BY <1>2, <1>6, <2>2, <2>7, OneCall, SameRequests
  <2> QED
    BY <1>2, <1>4, <1>6, <2>8, EndsStep DEF IInv, ObjsOK, BlobsOK
<1> QED
  BY <1>5, <1>6 DEF NextListed

LEMMA FinishStep ==
    ASSUME IInv, NEW c \in Callers, Finish(c)
    PROVE  IInv'
<1> DEFINE r == call[c]
<1>1. /\ r.at = "answered" /\ Active(r) /\ r.answer # "error"
      /\ Head(r.todo) \in {"encrypt", "decrypt", "verify", "random", "removeKey"}
      /\ CallInv(r, obj[c], requests)
  BY DEF Finish, Failed, Request, Active, IInv, CallsOK
<1>2. /\ UNCHANGED <<service, client, process, role>> /\ requests' = requests
      /\ UNCHANGED <<index, store, handles, seal>>
  BY DEF Finish, service, client
<1>3. PICK how \in {"ok", "error"} : Return(c, IF how = "ok" THEN r.output ELSE <<>>, how)
  BY DEF Finish
<1>4. /\ r.op \in AllOps /\ r.todo \in TodosOf(r.op) /\ r.op # "NewKeyStore"
      /\ r.label \in Labels
  BY <1>1, InProgress, Todos
<1>5. /\ r.op \notin {"decrypt", "sign", "Decrypt"}
      /\ r.op \in {"encrypt", "Encrypt"} => Head(r.todo) = "encrypt"
      /\ r.op \in {"gcmDecrypt", "verify"} => Head(r.todo) \in {"decrypt", "verify"}
  BY <1>1, <1>4, Tuples DEF TodosOf
<1>6. Head(r.todo) = "encrypt" =>
        \E g \in Nat : r.output = Sealed(r.label, g, r.payload) /\ r.output[4] = r.payload
  BY <1>1, SealedFields DEF CallInv, AnswerOK
<1>7. Head(r.todo) \in {"decrypt", "verify"} => r.output[4] = r.payload
  BY <1>1, ComputedFields DEF CallInv, AnswerOK
<1>8. how = "ok" /\ r.op \in ObjKinds => r.output[4] = r.payload
  BY <1>5, <1>6, <1>7 DEF ObjKinds
<1>9. CallsOK' /\ ObjsOK'
  BY <1>1, <1>2, <1>3, <1>5, <1>8, ReturnStep
<1>10. BlobsOK'
  <2>1. CASE r.op # "Encrypt"
    BY <2>1 DEF Finish, IInv, BlobsOK
  <2>2. CASE r.op = "Encrypt"
    <3>1. PICK g \in Nat : r.output = Sealed(r.label, g, r.payload)
      BY <1>5, <1>6, <2>2
    <3>2. PICK d \in Data : r.payload = B64(<<d>>)
      BY <1>1, <2>2 DEF CallInv, InputOK
    <3>3. UnB64(r.payload) = <<d>>
      BY <3>2, Decodes
    <3>4. PICK b : b = [label |-> r.label, text |-> B64(r.output), plain |-> UnB64(r.payload)]
      OBVIOUS
    <3>5. BlobOK(b)
      BY <1>4, <3>1, <3>2, <3>3, <3>4 DEF BlobOK
    <3>6. blobs' = blobs \cup {b}
      BY <2>2, <3>4 DEF Finish
    <3> QED
      BY <3>5, <3>6 DEF IInv, BlobsOK
  <2> QED
    BY <2>1, <2>2
<1>11. ClientOK'
  BY <1>2 DEF IInv, ClientOK
<1> QED
  BY <1>2, <1>9, <1>10, <1>11, EndsStep

-----------------------------------------------------------------------------
(***************************************************************************)
(* Waiting for approval                                                    *)
(***************************************************************************)

(* What is known of a request that was decided on.                         *)
LEMMA PollAnswer ==
    ASSUME IInv, NEW c \in Callers, Answered(c, "poll"), ~Failed(c),
           call[c].answer # "PENDING"
    PROVE  LET r == call[c]
               q == requests[call[c].id]
           IN  /\ r.id # 0 /\ q.status = r.answer /\ r.output = ResultOf(q)
               /\ q.label = r.label /\ q.payload = r.payload
               /\ CallInv(r, obj[c], requests) /\ Active(r)
<1> DEFINE r == call[c]
<1>1. CallInv(r, obj[c], requests) /\ Active(r) /\ r.at = "answered" /\ r.answer # "error"
      /\ Head(r.todo) = "poll"
  BY DEF Answered, Active, Failed, Request, IInv, CallsOK
<1>2. r.id # 0 /\ requests[r.id].status = r.answer /\ r.output = ResultOf(requests[r.id])
  BY <1>1 DEF CallInv, AnswerOK
<1>3. requests[r.id].label = r.label /\ requests[r.id].payload = r.payload
  BY <1>1, <1>2 DEF CallInv, PostedOK
<1> QED
  BY <1>1, <1>2, <1>3

LEMMA DecidedStep ==
    ASSUME IInv, NEW c \in Callers, Decided(c)
    PROVE  IInv'
<1> DEFINE r == call[c]
           q == requests[call[c].id]
<1>1. Answered(c, "poll") /\ Active(r) /\ r.op \in ObjKinds /\ r.answer # "PENDING"
  BY DEF Decided, Answered, Active
<1>2. CASE Failed(c)
  BY <1>2, DownStep DEF Decided, client
<1>3. CASE ~Failed(c) /\ r.answer # "EXECUTED"
  BY <1>1, <1>3, ErrorEnds DEF Decided
<1>4. CASE ~Failed(c) /\ r.answer = "EXECUTED"
  <2>1. /\ r.id # 0 /\ q.status = "EXECUTED" /\ r.output = ResultOf(q)
        /\ q.label = r.label /\ q.payload = r.payload
        /\ CallInv(r, obj[c], requests)
    BY <1>1, <1>4, PollAnswer
  <2>2. r.op \in {"decrypt", "sign"}
    BY <1>1, InProgress, Todos DEF Answered, Request, ObjKinds
  <2>3. r.payload \in Seq(Data)
    BY <1>1, <2>1 DEF CallInv, InputOK, IInv, ObjsOK, ObjRec
  <2>4. r.output = B64(Computed(r.label, q.gen, q.payload))
    BY <2>1, <2>3, InputNotSealed DEF ResultOf
  <2>5. UnB64(r.output) = Computed(r.label, q.gen, q.payload)
    BY <2>4, Decodes
  <2>6. UnB64(r.output)[4] = r.payload
    BY <2>1, <2>5, ComputedFields
  <2>7. /\ Return(c, UnB64(r.output), "ok") /\ requests' = requests
        /\ UNCHANGED <<service, index, store, handles, seal, blobs, process, role>>
    BY <1>4 DEF Decided, Ends, service
  <2>8. CallsOK' /\ ObjsOK'
    BY <1>1, <2>1, <2>2, <2>5, <2>6, <2>7, ReturnStep
  <2> QED
    BY <2>7, <2>8, EndsStep DEF IInv, ClientOK, BlobsOK
<1> QED
  BY <1>2, <1>3, <1>4

LEMMA SealDecidedStep ==
    ASSUME IInv, NEW c \in Callers, SealDecided(c)
    PROVE  IInv'
<1> DEFINE r == call[c]
           q == requests[call[c].id]
<1>1. Answered(c, "poll") /\ Active(r) /\ r.op = "Decrypt" /\ r.answer # "PENDING"
  BY DEF SealDecided, Answered, Active
<1>2. CASE Down /\ UNCHANGED <<service, index, blobs>>
  BY <1>2, DownStep DEF SealDecided, client
<1>3. CASE Ends(c, <<>>, "error")
  BY <1>1, <1>3, ErrorEnds DEF SealDecided
<1>4. CASE ~Failed(c) /\ Ends(c, UnB64(UnB64(r.output)), "ok")
  <2>1. /\ r.id # 0 /\ q.status = r.answer /\ r.output = ResultOf(q)
        /\ q.payload = r.payload /\ CallInv(r, obj[c], requests)
    BY <1>1, <1>4, PollAnswer
  <2>2. PICK l \in Labels, g \in Nat, d \in Data :
          r.payload = Sealed(l, g, B64(<<d>>)) /\ r.blob.plain = <<d>>
    BY <1>1, <2>1 DEF CallInv, InputOK
  <2>3. UnB64(UnB64(r.output)) = IF q.status = "EXECUTED" THEN r.blob.plain ELSE <<>>
    <3>1. CASE q.status = "EXECUTED"
      <4>1. r.output = B64(B64(<<d>>))
        BY <2>1, <2>2, <3>1, SealedFields DEF ResultOf
      <4> QED
        BY <2>2, <3>1, <4>1, Decodes
    <3>2. CASE q.status # "EXECUTED"
      <4>1. r.output = <<>>
        BY <2>1, <3>2 DEF ResultOf
      <4> QED
        BY <3>2, <4>1, DecodesNothing
    <3> QED
      BY <3>1, <3>2
  <2>4. /\ Return(c, UnB64(UnB64(r.output)), "ok") /\ requests' = requests
        /\ UNCHANGED <<service, index, store, handles, seal, blobs, process, role>>
    BY <1>4 DEF SealDecided, Ends, service
  <2>5. CallsOK' /\ ObjsOK'
    BY <1>1, <2>1, <2>3, <2>4, ReturnStep DEF ObjKinds
  <2> QED
    BY <2>4, <2>5, EndsStep DEF IInv, ClientOK, BlobsOK
<1> QED
  BY <1>2, <1>3, <1>4 DEF SealDecided

Waiting(r, r2) ==
    Variant(r, r2, r.todo, "check", r.key, r.loaded, None, <<>>, r.waited + CheckEvery)

LEMMA Waits ==
    ASSUME NEW r, CallShape(r), NEW r2,
           r2 = [r EXCEPT !.waited = @ + CheckEvery, !.at = "check", !.answer = None,
                          !.output = <<>>]
    PROVE  Waiting(r, r2)
BY DEF Waiting, Variant, CallShape, Fields

LEMMA SealWaitStep ==
    ASSUME IInv, NEW c \in Callers, SealWait(c)
    PROVE  IInv'
<1> DEFINE r == call[c]
<1>1. Active(r) /\ call = [d \in Callers |-> call[d]]
  BY DEF SealWait, Active, IInv, CallsOK
<1>2. CASE Ends(c, <<>>, "error")
  BY <1>1, <1>2, ErrorEnds DEF SealWait
<1>3. CASE Down /\ UNCHANGED <<service, index, blobs>>
  BY <1>3, DownStep DEF SealWait, client
<1>4. ASSUME call' = [call EXCEPT ![c].waited = @ + CheckEvery, ![c].at = "check",
                                  ![c].answer = None, ![c].output = <<>>],
             UNCHANGED <<service, index, obj, blobs, process, role>>
      PROVE  IInv'
  <2>1. PICK r2 : r2 = [r EXCEPT !.waited = @ + CheckEvery, !.at = "check",
                                 !.answer = None, !.output = <<>>]
    OBVIOUS
  <2>2. call' = [call EXCEPT ![c] = r2]
    BY <1>1, <1>4, <2>1
  <2>3. Waiting(r, r2)
    BY <1>1, <2>1, InProgress, Waits
  <2>4. AnswerOK(r2, requests)
    BY <2>3, NoAnswer DEF Waiting, Variant
  <2>5. r.waited + CheckEvery \in Nat
    BY <1>1, InProgress, TimesAssumption
  <2>6. UNCHANGED <<service, client, obj, blobs, process, role>> /\ requests' = requests
    BY <1>4 DEF SealWait, client, service
  <2>7. CallsOK'
    BY <1>1, <2>2, <2>3, <2>4, <2>5, <2>6, Proceeds, InProgress DEF Places, Waiting
  <2> QED
    BY <2>6, <2>7, Framed
<1> QED
  BY <1>2, <1>3, <1>4 DEF SealWait

-----------------------------------------------------------------------------
(***************************************************************************)
(* Starting an operation                                                   *)
(***************************************************************************)
Starting(r, op, l, p, b, y) ==
    /\ CallShape(r) /\ r.op = op /\ r.todo = RequestsOf(op) /\ r.at = "check"
    /\ r.label = l /\ r.policy = p /\ r.blob = b /\ r.payload = y
    /\ r.left = {} /\ r.key = {} /\ r.loaded = 0 /\ r.id = 0 /\ r.waited = 0
    /\ r.canceled = FALSE /\ r.done = None

Given(with, x) == IF x \in DOMAIN with THEN with[x] ELSE NoCall[x]

LEMMA Starts ==
    ASSUME NEW c \in Callers, NEW op, NEW with, IInv, Start(c, op, with),
           DOMAIN with \subseteq {"label", "policy", "blob", "payload"}
    PROVE  \E r : /\ call' = [call EXCEPT ![c] = r]
                  /\ Starting(r, op, Given(with, "label"), Given(with, "policy"),
                              Given(with, "blob"), Given(with, "payload"))
<1>1. PICK r : r = [x \in DOMAIN NoCall |->
                      CASE x \in DOMAIN with -> with[x]
                        [] x = "op" -> op
                        [] x = "todo" -> RequestsOf(op)
                        [] x = "at" -> "check"
                        [] OTHER -> NoCall[x]]
  OBVIOUS
<1>2. call' = [call EXCEPT ![c] = r]
  BY <1>1 DEF Start
<1>3. DOMAIN NoCall = Fields
  BY DEF NoCall, Fields
<1>4. /\ CallShape(r)
      /\ \A x \in Fields : r[x] = CASE x \in DOMAIN with -> with[x]
                                    [] x = "op" -> op
                                    [] x = "todo" -> RequestsOf(op)
                                    [] x = "at" -> "check"
                                    [] OTHER -> NoCall[x]
  BY <1>1, <1>3 DEF CallShape
<1>5. r.op = op /\ r.todo = RequestsOf(op) /\ r.at = "check"
  BY <1>4 DEF Fields
<1>6. \A x \in {"label", "policy", "blob", "payload"} : r[x] = Given(with, x)
  BY <1>4 DEF Fields, Given
<1>7. \A x \in {"left", "key", "loaded", "id", "waited", "canceled", "done"} : r[x] = NoCall[x]
  BY <1>4 DEF Fields
<1>8. /\ r.left = {} /\ r.key = {} /\ r.loaded = 0 /\ r.id = 0 /\ r.waited = 0
      /\ r.canceled = FALSE /\ r.done = None
  BY <1>7 DEF NoCall
<1>9. Starting(r, op, Given(with, "label"), Given(with, "policy"),
               Given(with, "blob"), Given(with, "payload"))
  BY <1>4, <1>5, <1>6, <1>8 DEF Starting
<1> QED
  BY <1>2, <1>9

LEMMA StartInv ==
    ASSUME NEW r, NEW op \in AllOps, NEW l, NEW p \in Policies \cup {None}, NEW b, NEW y,
           NEW o, NEW q, Len(q) \in Nat, Starting(r, op, l, p, b, y),
           l \in Labels \/ (op = "NewKeyStore" /\ l = None),
           op \in ObjKinds => o.kind = op /\ o.buffer = y,
           op = "Encrypt" => \E d \in Data : y = B64(<<d>>),
           op = "Decrypt" =>
              \E m \in Labels, g \in Nat, d \in Data :
                  y = Sealed(m, g, B64(<<d>>)) /\ b.plain = <<d>>
    PROVE  CallInv(r, o, q)
<1> USE DEF Starting, CallInv
<1>1. Active(r) /\ r.at \in Places
  BY DEF Active, Places
<1>2. LocalsOK(r, q)
  <2>1. /\ l \in Labels \cup {None} /\ r.left \subseteq Labels
        /\ r.loaded \in Nat /\ r.waited \in Nat /\ r.id \in 0..Len(q)
    OBVIOUS
  <2>2. r.canceled \in BOOLEAN /\ r.done \in {"ok", "error", None} /\ r.done = None
    OBVIOUS
  <2> QED
    BY <1>1, <2>1, <2>2 DEF LocalsOK
<1>3. PlaceOK(r)
  BY Started DEF PlaceOK
<1>4. InputOK(r, o)
  BY DEF InputOK
<1>5. PostedOK(r, q) /\ AnswerOK(r, q) /\ Approved(r, q) /\ NewInput(r)
  BY DEF PostedOK, AnswerOK, Approved, NewInput, None
<1> QED
  BY <1>2, <1>3, <1>4, <1>5

LEMMA NewKeyStoreStep ==
    ASSUME IInv, NEW c \in Callers, NewKeyStore(c)
    PROVE  IInv'
<1>1. PICK r : /\ call' = [call EXCEPT ![c] = r]
               /\ Starting(r, "NewKeyStore", None, None, NoBlob, <<>>)
  BY Starts DEF NewKeyStore, Given, NoCall
<1>2. UNCHANGED <<service, client, obj, blobs, process, role>> /\ requests' = requests
  BY DEF NewKeyStore, service
<1>5. "NewKeyStore" \in AllOps /\ "NewKeyStore" \notin ObjKinds /\ Len(requests) \in Nat
  BY DEF AllOps, ObjKinds, IInv, ServiceOK
<1>3. CallInv(r, obj[c], requests)
  BY <1>1, <1>5, StartInv
<1>4. CallsOK'
  BY <1>1, <1>2, <1>3, OneCall, SameRequests
<1> QED
  BY <1>2, <1>4, Framed

LEMMA KeyStoreCallStep ==
    ASSUME IInv, NEW c \in Callers, KeyStoreCall(c)
    PROVE  IInv'
<1>1. PICK op \in StoreOps, l \in Labels, p \in Policies :
        Start(c, op, [label |-> l, policy |-> p])
  BY DEF KeyStoreCall
<1>2. PICK r : call' = [call EXCEPT ![c] = r] /\ Starting(r, op, l, p, NoBlob, <<>>)
  BY <1>1, Starts DEF Given, NoCall
<1>3. UNCHANGED <<service, client, obj, blobs, process, role>> /\ requests' = requests
  BY DEF KeyStoreCall, service
<1>4. op \in AllOps /\ op \notin ObjKinds \cup {"NewKeyStore", "Encrypt", "Decrypt"}
  BY DEF AllOps, StoreOps, ObjKinds
<1>7. Len(requests) \in Nat
  BY DEF IInv, ServiceOK
<1>5. CallInv(r, obj[c], requests)
  BY <1>2, <1>4, <1>7, StartInv
<1>6. CallsOK'
  BY <1>2, <1>3, <1>5, OneCall, SameRequests
<1> QED
  BY <1>3, <1>6, Framed

LEMMA CloseLoginStep ==
    ASSUME IInv, NEW c \in Callers, CloseLogin(c)
    PROVE  IInv'
BY DEF CloseLogin, IInv, ServiceOK, ClientOK, ObjsOK, BlobsOK, CallsOK, service

(* A goroutine without a call may change its object.                       *)
LEMMA ObjStep ==
    ASSUME IInv, NEW c \in Callers, call[c].at = "idle", NEW o \in ObjRec, ObjOK(o),
           obj' = [obj EXCEPT ![c] = o],
           UNCHANGED <<service, client, call, blobs, process, role>>
    PROVE  IInv'
<1>1. ObjsOK'
  BY DEF IInv, ObjsOK
<1>2. CallInv(call[c], obj[c], requests) /\ \A d \in Callers : d # c => obj'[d] = obj[d]
  BY DEF IInv, CallsOK, ObjsOK
<1>3. CallInv(call[c], obj'[c], requests)
  BY <1>2 DEF CallInv, InputOK, Active
<1>4. CallsOK'
  BY <1>2, <1>3 DEF IInv, CallsOK, service
<1> QED
  BY <1>1, <1>4 DEF IInv, ServiceOK, ClientOK, BlobsOK, service, client

LEMMA NewObjectStep ==
    ASSUME IInv, NEW c \in Callers, NEW k \in ObjKinds, NewObject(c, k)
    PROVE  IInv'
<1>1. PICK l \in Labels : obj' = [obj EXCEPT ![c] = [NoObj EXCEPT !.kind = k, !.label = l]]
  BY DEF NewObject
<1>2. PICK o : o = [NoObj EXCEPT !.kind = k, !.label = l]
  OBVIOUS
<1>3. o = [kind |-> k, label |-> l, buffer |-> <<>>, fed |-> <<>>, kept |-> <<>>]
  BY <1>2 DEF NoObj
<1>4. o \in ObjRec /\ ObjOK(o)
  BY <1>3, NothingGiven DEF ObjRec, ObjOK
<1> QED
  BY <1>1, <1>2, <1>4, ObjStep DEF NewObject, Up

(* A piece more at the end.                                                *)
LEMMA OneMore ==
    ASSUME NEW s \in Seq(Data), NEW t \in Seq(Data), NEW d \in Data
    PROVE  /\ Append(s, d) \in Seq(Data) /\ s \o t \in Seq(Data)
           /\ Append(s \o t, d) = s \o Append(t, d)
<1>1. Append(t, d) = t \o <<d>> /\ Append(s \o t, d) = (s \o t) \o <<d>>
  OBVIOUS
<1>2. (s \o t) \o <<d>> = s \o (t \o <<d>>)
  BY ConcatAssociative
<1> QED
  BY <1>1, <1>2

LEMMA Feeds ==
    ASSUME IInv, NEW c \in Callers, NEW d \in Data, Feed(c, d)
    PROVE  \E o \in ObjRec : /\ obj' = [obj EXCEPT ![c] = o] /\ ObjOK(o)
                             /\ o.kind = obj[c].kind /\ o.label = obj[c].label
<1>1. obj[c] \in ObjRec /\ ObjOK(obj[c]) /\ obj \in [Callers -> ObjRec]
  BY DEF IInv, ObjsOK
<1>2. PICK o : o = [obj[c] EXCEPT !.buffer = Append(obj[c].buffer, d),
                                  !.fed = Append(obj[c].fed, d)]
  OBVIOUS
<1>3. obj' = [obj EXCEPT ![c] = o]
  BY <1>1, <1>2 DEF Feed
<1>4. Append(obj[c].buffer, d) \in Seq(Data) /\ Append(obj[c].fed, d) \in Seq(Data)
  BY <1>1 DEF ObjRec
<1>5. /\ o \in ObjRec /\ o.kind = obj[c].kind /\ o.label = obj[c].label
      /\ o.buffer = Append(obj[c].buffer, d) /\ o.fed = Append(obj[c].fed, d)
      /\ o.kept = obj[c].kept
  BY <1>1, <1>2, <1>4 DEF ObjRec
<1>6. ObjOK(o)
  <2>1. /\ obj[c].kept \in Seq(Data) /\ obj[c].fed \in Seq(Data)
        /\ obj[c].buffer = obj[c].kept \o obj[c].fed
    BY <1>1 DEF ObjOK, ObjRec
  <2>2. o.buffer = o.kept \o o.fed
    BY <1>5, <2>1, OneMore
  <2> QED
    BY <1>1, <1>5, <2>2 DEF ObjOK
<1> QED
  BY <1>3, <1>5, <1>6

LEMMA UpdateStep ==
    ASSUME IInv, NEW c \in Callers, Update(c)
    PROVE  IInv'
<1>1. PICK d \in Data : Feed(c, d)
  BY DEF Update
<1>2. PICK o \in ObjRec : obj' = [obj EXCEPT ![c] = o] /\ ObjOK(o)
  BY <1>1, Feeds
<1> QED
  BY <1>1, <1>2, ObjStep DEF Update, Feed, Up

LEMMA CloseEarlyStep ==
    ASSUME IInv, NEW c \in Callers, CloseEarly(c)
    PROVE  IInv'
<1>1. obj[c] \in ObjRec /\ ObjOK(obj[c]) /\ obj \in [Callers -> ObjRec]
  BY DEF IInv, ObjsOK
<1>2. PICK d \in Data :
        obj' = [obj EXCEPT ![c] = [@ EXCEPT !.buffer = Append(obj[c].buffer, d),
                             !.fed = <<>>,
                             !.kept = obj[c].kept \o Append(obj[c].fed, d)]]
  BY DEF CloseEarly
<1>3. PICK b, k : /\ b = Append(obj[c].buffer, d)
                  /\ k = obj[c].kept \o Append(obj[c].fed, d)
  OBVIOUS
<1>4. PICK o : o = [obj[c] EXCEPT !.buffer = b, !.fed = <<>>, !.kept = k]
  OBVIOUS
<1>5. obj' = [obj EXCEPT ![c] = o]
  BY <1>1, <1>2, <1>3, <1>4
<1>6. b = k /\ b \in Seq(Data) /\ <<>> \in Seq(Data)
  <2>1. /\ obj[c].kept \in Seq(Data) /\ obj[c].fed \in Seq(Data)
        /\ obj[c].buffer \in Seq(Data) /\ obj[c].buffer = obj[c].kept \o obj[c].fed
    BY <1>1 DEF ObjOK, ObjRec
  <2>2. /\ Append(obj[c].buffer, d) \in Seq(Data)
        /\ Append(obj[c].kept \o obj[c].fed, d) = obj[c].kept \o Append(obj[c].fed, d)
    BY <2>1, OneMore
  <2>3. b = k
    BY <1>3, <2>1, <2>2
  <2> QED
    BY <1>3, <2>2, <2>3, NothingGiven
<1>7. /\ o \in ObjRec /\ o.kind = obj[c].kind /\ o.label = obj[c].label
      /\ o.buffer = b /\ o.fed = <<>> /\ o.kept = b
  BY <1>1, <1>4, <1>6 DEF ObjRec
<1>8. b \o <<>> = b
  BY <1>6, ConcatEmptySeq
<1>9. ObjOK(o)
  BY <1>1, <1>7, <1>8 DEF ObjOK
<1> QED
  BY <1>5, <1>7, <1>9, ObjStep DEF CloseEarly, Up

LEMMA CloseStep ==
    ASSUME IInv, NEW c \in Callers, Close(c)
    PROVE  IInv'
<1>1. PICK d \in Data :
        /\ Feed(c, d)
        /\ Start(c, obj[c].kind, [label |-> obj[c].label, payload |-> obj'[c].buffer])
  BY DEF Close
<1>2. PICK o \in ObjRec : /\ obj' = [obj EXCEPT ![c] = o] /\ ObjOK(o)
                          /\ o.kind = obj[c].kind /\ o.label = obj[c].label
  BY <1>1, Feeds
<1>3. /\ obj \in [Callers -> ObjRec] /\ obj'[c] = o /\ obj[c].kind # None
      /\ \A e \in Callers : e # c => obj'[e] = obj[e]
  BY <1>1, <1>2 DEF IInv, ObjsOK, Feed
<1>4. obj[c].kind \in ObjKinds /\ obj[c].label \in Labels
  BY <1>2, <1>3 DEF ObjRec, ObjOK
<1>5. PICK r : /\ call' = [call EXCEPT ![c] = r]
               /\ Starting(r, o.kind, o.label, None, NoBlob, o.buffer)
  BY <1>1, <1>2, <1>3, Starts DEF Given, NoCall
<1>6. UNCHANGED <<service, client, blobs, process, role>> /\ requests' = requests
  BY DEF Close, service
<1>7. o.kind \in AllOps /\ o.kind \notin {"NewKeyStore", "Encrypt", "Decrypt"}
  BY <1>2, <1>4 DEF AllOps, ObjKinds
<1>8. CallInv(r, o, requests)
  BY <1>2, <1>4, <1>5, <1>7, StartInv DEF IInv, ServiceOK
<1>9. CallsOK'
  BY <1>3, <1>5, <1>6, <1>8, OneCall, SameRequests
<1>10. ObjsOK'
  BY <1>2, <1>3 DEF IInv, ObjsOK
<1> QED
  BY <1>6, <1>9, <1>10, EndsStep DEF IInv, ClientOK, BlobsOK, client

LEMMA SetConfigStep ==
    ASSUME IInv, NEW c \in Callers, SetConfig(c)
    PROVE  IInv'
<1>1. UNCHANGED <<service, client, blobs>> /\ requests' = requests
  BY DEF SetConfig, service
<1>2. CASE Down
  BY <1>1, <1>2, DownStep
<1>3. ASSUME NEW l \in Labels, NEW p \in Policies,
             Start(c, "SetConfig", [label |-> l, policy |-> p]),
             UNCHANGED <<obj, process, role>>
      PROVE  IInv'
  <2>1. PICK r : call' = [call EXCEPT ![c] = r] /\ Starting(r, "SetConfig", l, p, NoBlob, <<>>)
    BY <1>3, Starts DEF Given, NoCall
  <2>0. "SetConfig" \in AllOps /\ "SetConfig" \notin ObjKinds /\ Len(requests) \in Nat
    BY DEF AllOps, WrapperOps, ObjKinds, IInv, ServiceOK
  <2>2. CallInv(r, obj[c], requests)
    BY <2>1, <2>0, StartInv
  <2>3. CallsOK'
    BY <1>1, <1>3, <2>1, <2>2, OneCall, SameRequests
  <2> QED
    BY <1>1, <1>3, <2>3, Framed
<1> QED
  BY <1>2, <1>3 DEF SetConfig

LEMMA SealEncryptStep ==
    ASSUME IInv, NEW c \in Callers, SealEncrypt(c)
    PROVE  IInv'
<1>1. UNCHANGED <<service, client, blobs>> /\ requests' = requests /\ seal.label \in Labels
  BY DEF SealEncrypt, service, IInv, ClientOK
<1>2. CASE Down
  BY <1>1, <1>2, DownStep
<1>3. ASSUME NEW d \in Data,
             Start(c, "Encrypt", [label |-> seal.label, payload |-> B64(<<d>>)]),
             UNCHANGED <<obj, process, role>>
      PROVE  IInv'
  <2>1. PICK r : /\ call' = [call EXCEPT ![c] = r]
                 /\ Starting(r, "Encrypt", seal.label, None, NoBlob, B64(<<d>>))
    BY <1>3, Starts DEF Given, NoCall
  <2>0. "Encrypt" \in AllOps /\ "Encrypt" \notin ObjKinds /\ Len(requests) \in Nat
    BY DEF AllOps, WrapperOps, ObjKinds, IInv, ServiceOK
  <2>2. CallInv(r, obj[c], requests)
    BY <1>1, <2>1, <2>0, StartInv
  <2>3. CallsOK'
    BY <1>1, <1>3, <2>1, <2>2, OneCall, SameRequests
  <2> QED
    BY <1>1, <1>3, <2>3, Framed
<1> QED
  BY <1>2, <1>3 DEF SealEncrypt

LEMMA SealDecryptStep ==
    ASSUME IInv, NEW c \in Callers, SealDecrypt(c)
    PROVE  IInv'
<1>1. UNCHANGED <<service, client, blobs>> /\ requests' = requests /\ seal.label \in Labels
  BY DEF SealDecrypt, service, IInv, ClientOK
<1>2. CASE Down
  BY <1>1, <1>2, DownStep
<1>3. ASSUME NEW b \in blobs,
             Start(c, "Decrypt", [label |-> seal.label, blob |-> b,
                                  payload |-> UnB64(b.text)]),
             UNCHANGED <<obj, process, role>>
      PROVE  IInv'
  <2>1. PICK r : /\ call' = [call EXCEPT ![c] = r]
                 /\ Starting(r, "Decrypt", seal.label, None, b, UnB64(b.text))
    BY <1>3, Starts DEF Given, NoCall
  <2>2. PICK l \in Labels, g \in Nat, d \in Data :
          b = [label |-> l, text |-> B64(Sealed(l, g, B64(<<d>>))), plain |-> <<d>>]
    BY DEF IInv, BlobsOK, BlobOK
  <2>3. UnB64(b.text) = Sealed(l, g, B64(<<d>>)) /\ b.plain = <<d>>
    BY <2>2, Decodes
  <2>0. "Decrypt" \in AllOps /\ "Decrypt" \notin ObjKinds /\ Len(requests) \in Nat
    BY DEF AllOps, WrapperOps, ObjKinds, IInv, ServiceOK
  <2>4. CallInv(r, obj[c], requests)
    BY <1>1, <2>1, <2>3, <2>0, StartInv
  <2>5. CallsOK'
    BY <1>1, <1>3, <2>1, <2>4, OneCall, SameRequests
  <2> QED
    BY <1>1, <1>3, <2>5, Framed
<1> QED
  BY <1>2, <1>3 DEF SealDecrypt

-----------------------------------------------------------------------------
(***************************************************************************)
(* The invariant, and what follows from it                                 *)
(***************************************************************************)
LEMMA InitIInv == Init => IInv
<1> SUFFICES ASSUME Init PROVE IInv
  OBVIOUS
<1>1. ServiceOK
  <2>1. valid \in [Groups -> SUBSET Nat]
    BY SizesAssumption DEF Init, Numbers
  <2>2. \A l \in Labels : keys[l] \in [type : {None, "aes", "rsa"}, gen : 0..MaxKeys,
                                        policy : Policies \cup {None}]
    BY SizesAssumption DEF Init, NoKey
  <2>3. requests \in Seq(RequestRec) /\ Len(requests) <= MaxRequests
    BY SizesAssumption DEF Init
  <2> QED
    BY <2>1, <2>2, <2>3 DEF Init, ServiceOK
<1>2. ClientOK
  BY DEF Init, ClientOK
<1>3. NoObj \in ObjRec /\ ObjOK(NoObj)
  BY NothingGiven DEF NoObj, ObjRec, ObjOK, ObjKinds, None
<1>4. ObjsOK /\ BlobsOK
  BY <1>3 DEF Init, ObjsOK, BlobsOK
<1>5. CallsOK
  BY NothingRuns DEF Init, CallsOK
<1> QED
  BY <1>1, <1>2, <1>4, <1>5 DEF IInv

LEMMA BeginIInv ==
    ASSUME IInv, NEW c \in Callers, Begin(c)
    PROVE  IInv'
<1>1. CASE NewCipher(c) \/ NewRemoteDigestSigner(c) \/ NewRemoteDigestVerifier(c)
  BY <1>1, NewObjectStep DEF NewCipher, NewRemoteDigestSigner, NewRemoteDigestVerifier,
                             ObjKinds
<1>2. CASE Finalize(c)
  BY <1>2, DownStep DEF Finalize
<1> QED
  BY <1>1, <1>2, NewKeyStoreStep, CloseLoginStep, KeyStoreCallStep, UpdateStep, CloseStep,
     CloseEarlyStep,
     SetConfigStep, SealEncryptStep, SealDecryptStep
     DEF Begin

LEMMA StepIInv ==
    ASSUME IInv, NEW c \in Callers, Step(c)
    PROVE  IInv'
<1>1. CASE TransportError(c)
  BY <1>1, DownStep DEF TransportError
<1> QED
  BY <1>1, CanGetStep, GetApiKeyStep, RollOverStep, RejectStep, RefuseStep, RepliesStep,
     GetKeysStep, KeyChangeStep, RecordStep, GetRequestStep, AsksStep, NextListedStep,
     ReturnErrorStep, OpenedStep, GotKeyStep, FinishStep, TakenStep, PendingStep,
     DecidedStep, SealDecidedStep, SealWaitStep
     DEF Step

LEMMA NextIInv == IInv /\ [Next]_vars => IInv'
<1> SUFFICES ASSUME IInv, [Next]_vars PROVE IInv'
  OBVIOUS
<1>1. CASE UNCHANGED vars
  BY <1>1 DEF vars, service, client, IInv, ServiceOK, ClientOK, ObjsOK, BlobsOK, CallsOK
<1> QED
  BY <1>1, BeginIInv, StepIInv, DecideStep, RevokeStep, InterruptStep, RestartStep
     DEF Next

LEMMA AlwaysIInv == Spec => []IInv
BY InitIInv, NextIInv, PTL DEF Spec

(* Every field of the client, the service and the calls has a value of its *)
(* kind, a call has a request to make exactly while it is in progress, and *)
(* polls a request the service knows, or none: for any number of           *)
(* goroutines, API keys and requests.                                      *)
THEOREM TypeCorrect == Spec => []TypeOK
<1>1. IInv => TypeOK
  <2> SUFFICES ASSUME IInv PROVE TypeOK
    OBVIOUS
  <2>1. ASSUME NEW c \in Callers PROVE CallOK(call[c])
    <3> DEFINE r == call[c]
    <3>1. LocalsOK(r, requests)
      BY DEF IInv, CallsOK, CallInv
    <3>2. Active(r) => r.todo # <<>>
      BY InProgress
    <3>3. r.key \subseteq Nat /\ Cardinality(r.key) <= 1
      <4>1. CASE r.key = {}
        BY <4>1, FS_EmptySet
      <4>2. ASSUME NEW k \in Nat, r.key = {k}
            PROVE  r.key \subseteq Nat /\ Cardinality(r.key) <= 1
        <5>1. Cardinality({k}) = 1
          BY FS_Singleton
        <5> QED
          BY <4>2, <5>1
      <4> QED
        BY <3>1, <4>1, <4>2 DEF LocalsOK
    <3>4. r.at \notin {"idle", "returned"} <=> r.todo # <<>>
      BY <3>1, <3>2 DEF LocalsOK, Active
    <3> QED
      BY <3>1, <3>3, <3>4 DEF CallOK, LocalsOK, AllOps, Places
  <2>2. seal.label \in Labels \cup {None}
    BY DEF IInv, ClientOK, NoSeal
  <2> QED
    BY <2>1, <2>2 DEF IInv, ServiceOK, ClientOK, TypeOK
<1> QED
  BY <1>1, AlwaysIInv, PTL

(* Decrypt and Sign of the keystore return a result only of their own      *)
(* request, once it was carried out, and the wrapper's Decrypt returns the *)
(* plaintext of its blob or nothing: whatever other goroutines, approvers  *)
(* and ignored errors do, and although keys are removed and made anew.     *)
THEOREM ResultApprovedHolds == Spec => []ResultApproved
<1>1. IInv => ResultApproved
  <2> SUFFICES ASSUME IInv, NEW c \in Callers, call[c].done = "ok"
               PROVE  LET r == call[c] IN
                        /\ r.op \in {"decrypt", "sign"} =>
                              /\ r.id # 0 /\ requests[r.id].status = "EXECUTED"
                              /\ r.output = Computed(r.label, requests[r.id].gen,
                                                     requests[r.id].payload)
                        /\ r.op = "Decrypt" =>
                              r.output = IF requests[r.id].status = "EXECUTED"
                                         THEN r.blob.plain ELSE <<>>
    BY DEF ResultApproved
  <2>1. Approved(call[c], requests)
    BY DEF IInv, CallsOK, CallInv
  <2> QED
    BY <2>1 DEF Approved
<1> QED
  BY <1>1, AlwaysIInv, PTL

(* A cipher, signer or verifier works on what it was given since its last  *)
(* Close, behind what earlier Closes left: those that returned before they *)
(* made a request, and all of them when it decrypts with AES GCM.          *)
THEOREM InputExactHolds == Spec => []InputExact
<1>1. IInv => InputExact
  <2> SUFFICES ASSUME IInv, NEW c \in Callers, call[c].done = "ok",
                      call[c].op \in ObjKinds
               PROVE  call[c].output[4] = call[c].payload
    BY DEF InputExact
  <2>1. NewInput(call[c])
    BY DEF IInv, CallsOK, CallInv
  <2> QED
    BY <2>1 DEF NewInput
<1> QED
  BY <1>1, AlwaysIInv, PTL
=============================================================================
