---------------------------- MODULE LegacyPkcs11 -----------------------------
(***************************************************************************)
(* wrappers/pkcs11: the wrapper that opens a session and logs in for every *)
(* operation (Pkcs11Client in pkcs11_client.go, Wrapper in pkcs11.go).     *)
(*                                                                         *)
(* Every call of the Cryptoki library is a step; the steps of other        *)
(* goroutines and Finalize come between any two.  The login belongs to the *)
(* token, not to the session: C_Login fails while another session of the   *)
(* process is logged in, and C_Logout logs every session out.              *)
(***************************************************************************)
EXTENDS Naturals, Sequences, FiniteSets

CONSTANTS
    Callers,      \* goroutines
    Stores,       \* the sets of objects that a token may hold
    Parts,        \* what a label or an id has before, between and after colons
    Labels,       \* the labels in the configuration
    KeyIds,       \* the ids in it that are hexadecimal: CKA_IDs
    OtherIds,     \* the ids in it that are not
    RsaOaepHashes,  \* the names of hashes in the configuration
    Configured(_),  \* which settings SetConfig may be given
    MaxSessions,  \* sessions that the token grants
    MaxBlobs,     \* bound: how many blobs are kept
    OwnNonce      \* whether the token ignores the nonce it is given

None == "none"

ASSUME LimitsAssumption == MaxSessions \in Nat \ {0} /\ MaxBlobs \in Nat

(* A token holds finitely many objects, only secret keys are AES keys, and *)
(* the copies and halves of a key are of its type.                         *)
ASSUME TokensAssumption ==
    \A objs \in Stores :
        /\ IsFiniteSet(objs)
        /\ \A o, p \in objs :
              /\ o.keytype = "AES" => o.class = "secret"
              /\ o.material = p.material => o.keytype = p.keytype

(* A text is the sequence of its parts, of which there is one more than    *)
(* colons.  The empty text has one, which is empty.                        *)
NoText == <<"">>

(* A hexadecimal number has no colon.                                      *)
ASSUME TextsAssumption ==
    /\ NoText \in Seq(Parts) /\ NoText \notin Labels \cup KeyIds \cup OtherIds
    /\ Labels \cup KeyIds \cup OtherIds \subseteq Seq(Parts) \ {<<>>}
    /\ \A i \in KeyIds : Len(i) = 1

VARIABLES
    store,         \* token: its objects
    initialized,   \* library: C_Initialize succeeded and C_Finalize did not run
    loggedIn,      \* token: the user is logged in
    sessions,      \* token: the open sessions
    client,        \* wrapper: the settings of its Pkcs11Client, or NoClient
    currentKeyId,  \* wrapper: as KeyId returns it
    call,          \* per goroutine: the call in progress
    blobs,         \* what Encrypt returned
    lost           \* sessions that GetSession opened and nobody will close

vars == <<store, initialized, loggedIn, sessions, client, currentKeyId,
          call, blobs, lost>>

token == <<store, initialized, loggedIn, sessions, lost>>

-----------------------------------------------------------------------------
(***************************************************************************)
(* Settings and keys                                                       *)
(***************************************************************************)
Mechanisms == {"CKM_AES_GCM", "CKM_RSA_PKCS_OAEP"}

(* A label, an id or both name the key; an id that is not hexadecimal is   *)
(* kept in the settings.  None as mechanism lets the key's type decide,    *)
(* and as hash means sha256.                                               *)
Settings == [keyLabel : Labels \cup {NoText},
             keyId : KeyIds \cup OtherIds \cup {NoText},
             mechanism : Mechanisms \cup {None},
             rsaOaepHash : RsaOaepHashes \cup {None},
             disableSoftwareEncryption : BOOLEAN]

(* The checks of newPkcs11Client that do not need the library; those of    *)
(* lib, slot, token label and pin look the same and differ in nothing that *)
(* follows.                                                                *)
ValidSettings == {s \in Settings : s.keyLabel # NoText \/ s.keyId # NoText}

NoClient == [keyLabel |-> NoText, keyId |-> NoText, mechanism |-> None,
             rsaOaepHash |-> None, disableSoftwareEncryption |-> FALSE]

DefaultMechanism(keytype) ==
    CASE keytype = "RSA" -> "CKM_RSA_PKCS_OAEP"
      [] keytype = "AES" -> "CKM_AES_GCM"
      [] OTHER -> None

MechanismFor(s, key) ==
    IF s.mechanism # None THEN s.mechanism ELSE DefaultMechanism(key.keytype)

RsaOaepHash(s) == IF s.rsaOaepHash = None THEN "sha256" ELSE s.rsaOaepHash

(* Pkcs11Key.String: "label:id", which has the parts of both.              *)
KeyString(s) == s.keyLabel \o s.keyId

(* newPkcs11Key: what is before and after the last colon.  An id with a    *)
(* colon does not come back; a label with one does.                        *)
NewPkcs11Key(v) == [label |-> SubSeq(v, 1, Len(v) - 1), id |-> <<v[Len(v)]>>]

-----------------------------------------------------------------------------
(***************************************************************************)
(* FindKey                                                                 *)
(***************************************************************************)
Matching(objs, keyLabel, keyId) ==
    {o \in objs : /\ keyId \in KeyIds => o.id = keyId
                  /\ keyLabel # NoText => o.label = keyLabel}

(* FindObjects(session, 2): any two if there are more (the library         *)
(* chooses).                                                               *)
FindObjects(objs, max) ==
    {S \in SUBSET objs : Cardinality(S) = IF Cardinality(objs) < max
                                          THEN Cardinality(objs) ELSE max}

FindMatchingPublicKey(objs, priv) ==
    {o \in objs : priv.id # NoText /\ o.class = "public" /\ o.id = priv.id}

(* The keys that FindKey may return: a private key comes with its public   *)
(* key.  {} stands for an error.                                           *)
KeyInfos(objs, S) ==
    IF \E o \in S : o.class \notin {"secret", "private", "public"} THEN {}
    ELSE IF Cardinality(S) = 1
      THEN LET k == CHOOSE o \in S : TRUE IN
           CASE k.class = "secret" -> {[key |-> k, public |-> k]}
             [] k.class = "private" -> {[key |-> k, public |-> p] :
                                           p \in FindMatchingPublicKey(objs, k)}
             [] OTHER -> {}
      ELSE {[key |-> pair[1], public |-> pair[2]] :
              pair \in {q \in S \X S : /\ q[1].class = "private"
                                       /\ q[2].class = "public"
                                       /\ q[1].keytype = q[2].keytype}}

FindKey(objs, keyLabel, keyId) ==
    UNION {KeyInfos(objs, S) :
             S \in FindObjects(Matching(objs, keyLabel, keyId), 2)}

(* What the message of FindKey says of a key it returns: the label and id  *)
(* belong to one secret key, or to one pair.                               *)
UniqueKey(objs, keyLabel, keyId) ==
    LET M == Matching(objs, keyLabel, keyId) IN
    \/ Cardinality(M) = 1
    \/ /\ Cardinality(M) = 2
       /\ \E o, p \in M : /\ o.class = "private" /\ p.class = "public"
                          /\ o.material = p.material

-----------------------------------------------------------------------------
(***************************************************************************)
(* Encryption and decryption on the token.  `material' tells key pairs and *)
(* secret keys apart: what was encrypted with one is only decrypted by it. *)
(***************************************************************************)
Error == "error"

MutantEncryptAesGcm(key, c) ==
    [iv |-> "nonce", text |-> IF OwnNonce
       THEN <<[by |-> key.material, mech |-> "CKM_AES_GCM", with |-> "own", of |-> c],
              "own">>
       ELSE <<[by |-> key.material, mech |-> "CKM_AES_GCM", with |-> "nonce", of |-> c]>>]

(* Some tokens use a nonce of their own and append it: the longer result   *)
(* is cut and that nonce is the one that is kept.                          *)
EncryptAesGcm(key, c) ==
    LET n == IF OwnNonce THEN "own" ELSE "nonce" IN
    [iv |-> n,
     text |-> <<[by |-> key.material, mech |-> "CKM_AES_GCM", with |-> n, of |-> c]>>]

EncryptRsaOaep(s, public, c) ==
    [iv |-> None,
     text |-> <<[by |-> public.material, mech |-> "CKM_RSA_PKCS_OAEP",
                 with |-> RsaOaepHash(s), of |-> c]>>]

(* Client.Encrypt after FindKey: the attribute checks, the mechanism, and  *)
(* what the token refuses.  The result is the set of the one ciphertext,   *)
(* or {} for an error; also for a panic (Restart), which is what the       *)
(* missing public key of a secret key leads to when the mechanism is OAEP. *)
EncryptWith(s, k, c) ==
    LET mech == MechanismFor(s, k.key) IN
    IF \/ k.key.class = "secret" /\ ~k.key.encrypt
       \/ k.key.class = "private" /\ s.disableSoftwareEncryption /\ ~k.public.encrypt
      THEN {}
    ELSE CASE mech = "CKM_AES_GCM" /\ k.key.keytype = "AES" -> {EncryptAesGcm(k.key, c)}
           [] mech = "CKM_RSA_PKCS_OAEP" /\ k.key.keytype = "RSA" ->
                {EncryptRsaOaep(s, k.public, c)}
           [] OTHER -> {}

(* Client.Decrypt after FindKey.                                           *)
DecryptWith(s, k, b) ==
    LET mech == MechanismFor(s, k.key)
        with == IF mech = "CKM_AES_GCM" THEN b.iv ELSE RsaOaepHash(s)
        ct   == b.text[1]
    IN  IF /\ k.key.decrypt
           /\ ct.by = k.key.material /\ ct.mech = mech /\ ct.with = with
           /\ Len(b.text) = 1
          THEN ct.of ELSE Error

(* A blob is its KeyInfo, iv and ciphertext.  No code reads the rest: the  *)
(* name configured when the KeyInfo was written, whether the blob is from  *)
(* before KeyInfo was recorded, and the plaintext.                         *)
Name(s) == [label |-> s.keyLabel, id |-> s.keyId]

(* Wrapper.Decrypt: the key is the one the blob names; the configured key  *)
(* is written into a blob that names none.                                 *)
Named(s, b) ==
    IF b.info THEN b
    ELSE [b EXCEPT !.info = TRUE, !.keyId = KeyString(s), !.name = Name(s)]

Decryptions(objs, s, b) ==
    LET key == NewPkcs11Key(Named(s, b).keyId)
        ks  == FindKey(objs, key.label, key.id)
    IN  IF ks = {} THEN {Error} ELSE {DecryptWith(s, k, b) : k \in ks}

-----------------------------------------------------------------------------
(***************************************************************************)
(* State                                                                   *)
(***************************************************************************)
Idle == [op |-> None, pc |-> None, session |-> 0, cfg |-> NoClient, out |-> {}]

Ops == {"SetConfig", "Encrypt", "Decrypt", "GenerateRandom"}
PCs == {"initialize", "open", "login", "use", "logout", "close", "configure"}

(* Blobs from before KeyInfo was recorded.                                 *)
OldBlobs(objs) ==
    {[info |-> FALSE, keyId |-> NoText, iv |-> EncryptAesGcm(o, c).iv,
      text |-> EncryptAesGcm(o, c).text, name |-> Name(NoClient), old |-> TRUE, of |-> c] :
        o \in {o \in objs : o.class = "secret" /\ o.keytype = "AES"}, c \in Callers}

(* What KeyId may return: nothing before the first Encrypt.                *)
KeyStrings == {NoText} \cup {KeyString(s) : s \in Settings}

(* Where a call is in its sequence of library calls, and its session.      *)
CallOK(r) ==
    /\ r.op \in Ops \cup {None} /\ r.pc \in PCs \cup {None}
    /\ r.op = None <=> r.pc = None
    /\ r.session \in 0..MaxSessions
    /\ r.session # 0 <=> r.pc \in {"login", "use", "logout", "close", "configure"}

(* The fields have values of their kinds, the token grants no more         *)
(* sessions than it has, and a call has a session exactly from OpenSession *)
(* to its return.                                                          *)
TypeOK ==
    /\ store \in Stores
    /\ initialized \in BOOLEAN /\ loggedIn \in BOOLEAN
    /\ sessions \subseteq 1..MaxSessions /\ lost \subseteq sessions
    /\ client \in Settings
    /\ currentKeyId \in KeyStrings
    /\ \A c \in Callers : CallOK(call[c])
    /\ \A b \in blobs : b.of \in Callers

Init ==
    /\ store \in Stores
    /\ initialized = FALSE /\ loggedIn = FALSE /\ sessions = {}
    /\ client = NoClient /\ currentKeyId = NoText
    /\ call = [c \in Callers |-> Idle]
    /\ blobs \in {{}} \cup {{b} : b \in OldBlobs(store)} /\ lost = {}

InProgress == {c \in Callers : call[c].op # None}

Goto(c, pc) == call' = [call EXCEPT ![c].pc = pc]
Return(c) == call' = [call EXCEPT ![c] = Idle]

-----------------------------------------------------------------------------
(***************************************************************************)
(* Calls                                                                   *)
(***************************************************************************)

(* newPkcs11Client is called with settings that passed its checks.         *)
SetConfig(c) ==
    /\ client = NoClient /\ InProgress = {}
    /\ \E s \in {s \in ValidSettings : Configured(s)} :
         call' = [call EXCEPT ![c] =
                    [Idle EXCEPT !.op = "SetConfig", !.pc = "initialize", !.cfg = s]]
    /\ UNCHANGED <<token, client, currentKeyId, blobs>>

Begin(c, op) ==
    /\ call[c].op = None /\ client # NoClient
    /\ call' = [call EXCEPT ![c] = [Idle EXCEPT !.op = op, !.pc = "open",
                                               !.cfg = client]]
    /\ UNCHANGED <<token, client, currentKeyId>>

Encrypt(c) ==
    /\ Begin(c, "Encrypt")
    /\ Cardinality(blobs) + Cardinality(InProgress) < MaxBlobs
    /\ UNCHANGED blobs

GenerateRandom(c) == Begin(c, "GenerateRandom") /\ UNCHANGED blobs

Decrypt(c) ==
    /\ Begin(c, "Decrypt")
    /\ \E b \in blobs : blobs' = (blobs \ {b}) \cup {Named(client, b)}

(* InitializeClient: fails if the library is initialized in this process.  *)
Initialize(c) ==
    /\ call[c].pc = "initialize"
    /\ \/ ~initialized /\ initialized' = TRUE /\ Goto(c, "open")
       \/ UNCHANGED initialized /\ Return(c)
    /\ UNCHANGED <<store, loggedIn, sessions, lost, client, currentKeyId, blobs>>

(* Close may set c.client to nil during a call.  GetSession and            *)
(* CloseSession look at it; every other use of it panics, and the process  *)
(* ends (Restart).  Between C_Finalize and that, every call of the library *)
(* is refused, or ends the process too.                                    *)
Usable(c) == call[c].op = "SetConfig" \/ client # NoClient
Alive(c) == initialized /\ Usable(c)

(* The handle of a new session: the lowest one that is free.               *)
Free == {h \in 1..MaxSessions \ sessions : \A g \in 1..(h - 1) : g \in sessions}

MutantOpenSession(c) ==
    /\ call[c].pc = "open" /\ Alive(c)
    /\ \E h \in Free : sessions' = sessions \cup {h} /\ Goto(c, "login")
    /\ UNCHANGED <<store, initialized, loggedIn, lost, client, currentKeyId, blobs>>

OpenSession(c) ==
    /\ call[c].pc = "open"
    /\ \/ Alive(c) /\ \E h \in Free :
            /\ sessions' = sessions \cup {h}
            /\ call' = [call EXCEPT ![c].pc = "login", ![c].session = h]
       \/ UNCHANGED sessions /\ Return(c)
    /\ UNCHANGED <<store, initialized, loggedIn, lost, client, currentKeyId, blobs>>

MutantLogin(c) ==
    /\ call[c].pc = "login" /\ Alive(c)
    /\ \/ /\ loggedIn' = TRUE
          /\ Goto(c, IF call[c].op = "SetConfig" THEN "logout" ELSE "use")
          /\ UNCHANGED lost
       \/ /\ Return(c)
          /\ lost' = lost \cup {call[c].session}
          /\ UNCHANGED loggedIn
    /\ UNCHANGED <<store, initialized, sessions, client, currentKeyId, blobs>>

(* CKR_USER_ALREADY_LOGGED_IN, a wrong pin or a token error: GetSession    *)
(* returns no session and leaves the one it opened.                        *)
Login(c) ==
    /\ call[c].pc = "login" /\ Usable(c)
    /\ \/ /\ Alive(c) /\ ~loggedIn /\ loggedIn' = TRUE
          /\ Goto(c, IF call[c].op = "SetConfig" THEN "logout" ELSE "use")
          /\ UNCHANGED lost
       \/ /\ Return(c)
          /\ lost' = IF Alive(c) THEN lost \cup {call[c].session} ELSE lost
          /\ UNCHANGED loggedIn
    /\ UNCHANGED <<store, initialized, sessions, client, currentKeyId, blobs>>

(* Find the key and encrypt.                                               *)
UseEncrypt(c) ==
    LET s == call[c].cfg IN
    /\ call[c].pc = "use" /\ call[c].op = "Encrypt" /\ Alive(c)
    /\ \E k \in FindKey(store, s.keyLabel, s.keyId) : \E ct \in EncryptWith(s, k, c) :
         call' = [call EXCEPT ![c].pc = "logout",
                ![c].out = {[info |-> TRUE, keyId |-> KeyString(s), iv |-> ct.iv,
                             text |-> ct.text, name |-> Name(s), old |-> FALSE,
                             of |-> c]}]
    /\ UNCHANGED <<token, client, currentKeyId, blobs>>

(* Decrypt and GenerateRandom change nothing; any of the three may fail.   *)
UseOther(c) ==
    /\ call[c].pc = "use" /\ Usable(c)
    /\ Goto(c, "logout")
    /\ UNCHANGED <<token, client, currentKeyId, blobs>>

(* CloseSession, also after an error; it does nothing once the client was  *)
(* closed.                                                                 *)
Logout(c) ==
    /\ call[c].pc = "logout"
    /\ loggedIn' = (loggedIn /\ ~Alive(c))
    /\ Goto(c, "close")
    /\ UNCHANGED <<store, initialized, sessions, lost, client, currentKeyId, blobs>>

(* Encrypt of the wrapper stores the name of the key and returns.          *)
Finish(c) ==
    /\ IF call[c].op = "SetConfig" THEN Goto(c, "configure") ELSE Return(c)
    /\ blobs' = blobs \cup call[c].out
    /\ currentKeyId' = IF call[c].out = {} THEN currentKeyId
                       ELSE KeyString(call[c].cfg)
    /\ UNCHANGED <<store, initialized, loggedIn, lost, client>>

MutantCloseSession(c) ==
    /\ call[c].pc = "close"
    /\ sessions' = IF Alive(c) /\ (call[c].op = "Encrypt" => call[c].out # {})
                     THEN sessions \ {call[c].session} ELSE sessions
    /\ Finish(c)

CloseSession(c) ==
    /\ call[c].pc = "close"
    /\ sessions' = IF Alive(c) THEN sessions \ {call[c].session} ELSE sessions
    /\ Finish(c)

(* SetConfig keeps the new client.                                         *)
Configure(c) ==
    /\ call[c].pc = "configure"
    /\ client' = call[c].cfg
    /\ Return(c)
    /\ UNCHANGED <<token, currentKeyId, blobs>>

(* Close, without a lock: C_Finalize closes the sessions and logs out, ... *)
Finalize ==
    /\ client # NoClient /\ initialized
    /\ initialized' = FALSE
    /\ loggedIn' = FALSE /\ sessions' = {} /\ lost' = {}
    /\ UNCHANGED <<store, client, currentKeyId, call, blobs>>

(* ... and the client is given up.                                         *)
Destroy ==
    /\ client # NoClient /\ ~initialized
    /\ client' = NoClient
    /\ UNCHANGED <<token, currentKeyId, call, blobs>>

(* The process ends, by itself or because of a nil client or public key,   *)
(* and another one starts; the blobs are kept.                             *)
Restart ==
    /\ client # NoClient \/ initialized \/ InProgress # {}
    /\ client' = NoClient /\ initialized' = FALSE
    /\ loggedIn' = FALSE /\ sessions' = {} /\ lost' = {}
    /\ currentKeyId' = NoText
    /\ call' = [c \in Callers |-> Idle]
    /\ UNCHANGED <<store, blobs>>

Step(c) ==
    \/ Initialize(c) \/ OpenSession(c) \/ Login(c) \/ UseEncrypt(c) \/ UseOther(c)
    \/ Logout(c) \/ CloseSession(c) \/ Configure(c)

Next ==
    \/ \E c \in Callers : \/ SetConfig(c) \/ Encrypt(c) \/ Decrypt(c)
                           \/ GenerateRandom(c) \/ Step(c)
    \/ Finalize \/ Destroy \/ Restart

Spec == Init /\ [][Next]_vars

-----------------------------------------------------------------------------
(***************************************************************************)
(* Properties                                                              *)
(***************************************************************************)

(* The login is what keeps overlapping calls apart: the calls that use the *)
(* library between Login and Logout are logged in, and there is one at a   *)
(* time, so that nobody's Logout takes the login from another.             *)
LoginExclusive ==
    LET users == {c \in Callers : call[c].pc \in {"use", "logout"} /\ Alive(c)} IN
    /\ Cardinality(users) <= 1
    /\ users # {} <=> loggedIn

(* No session is shared by two calls, and the only sessions that are open  *)
(* without a call are the ones that a failed Login left behind: an error   *)
(* after the login, or a Finalize in the middle of a call, leaves none.    *)
SessionsAccounted ==
    LET holders == {c \in Callers : /\ call[c].pc \in {"login", "use", "logout", "close"}
                                    /\ Alive(c)}
    IN  /\ sessions = lost \cup {call[c].session : c \in holders}
        /\ \A c \in holders : call[c].session \notin lost
        /\ \A c, d \in holders : c # d => call[c].session # call[d].session

(* The halves with one CKA_ID are of one pair.                             *)
Paired(objs) ==
    \A o, p \in objs : o.class = "private" /\ p.class = "public" /\ o.id = p.id
                       => o.material = p.material

(* Decrypt returns the plaintext of a blob after the wrapper was restarted *)
(* and configured for another key: the name in the blob comes back from    *)
(* its text, the key found by it is the one that encrypted, or the private *)
(* half of it, and the nonce in the blob is the one the token used.        *)
(* What it takes: the configured id has no colon, the name is unique on    *)
(* the token, whose halves of one CKA_ID belong together, the key may      *)
(* decrypt, and the mechanism and the hash, which are not in the blob, are *)
(* the same.  A blob of an older release gets the name that is configured  *)
(* when it is first decrypted, which has to be that of its key.            *)
BlobsReadable ==
    \A b \in blobs :
        LET M  == Matching(store, b.name.label, b.name.id)
            ct == b.text[1] IN
        (/\ client # NoClient /\ b.info
         /\ Len(b.name.id) = 1
         /\ UniqueKey(store, b.name.label, b.name.id)
         /\ \A o \in M : o.class # "public" => o.decrypt
         /\ IF b.old THEN \E o \in M : o.class # "public" /\ o.material = ct.by
                     ELSE Paired(store)
         /\ client.mechanism \in {None, ct.mech}
         /\ ct.mech = "CKM_RSA_PKCS_OAEP" => RsaOaepHash(client) = ct.with)
        => Decryptions(store, client, b) = {b.of}

(* FindKey says "could not find unique secret key or key pair" when the    *)
(* name belongs to more than that, and returns no key.                     *)
AmbiguousKeyRefused ==
    \A b \in blobs : b.info => UniqueKey(store, b.name.label, b.name.id)
=============================================================================
