---------------------------- MODULE RemoteWrapper ----------------------------
(***************************************************************************)
(* The wrappers whose key stays with a remote service: wrappers/awskms,    *)
(* azurekeyvault, gcpckms, alicloudkms, huaweicloudkms, ocikms,            *)
(* ovhcloudkms, tencentcloudkms, tcloudpublickms, kmip and transit.        *)
(*                                                                         *)
(* They share a scheme and differ in the order of its steps.  SetConfig    *)
(* and Encrypt of a provider are the sequence of its steps; a goroutine    *)
(* performs one step at a time, and other goroutines, key rotations at the *)
(* service and a restart of the process come between any two.  Every step  *)
(* that asks for something may fail, which ends the call and leaves what   *)
(* was assigned before it.  Decrypt is one request and a function of the   *)
(* wrapper and the blob.                                                   *)
(***************************************************************************)
EXTENDS Naturals, Sequences, FiniteSets

CONSTANTS
    Providers,   \* the providers looked at
    Callers,     \* goroutines that use the wrapper
    KeyNames,    \* keys or aliases of the service
    RsaKeys,     \* those of them that are RSA key pairs (KMIP)
    MaxVersion,  \* bound: how often a key is rotated
    MaxBlobs     \* bound: how many blobs are kept

None == "none"

ASSUME BoundsAssumption == MaxVersion \in Nat \ {0} /\ MaxBlobs \in Nat
ASSUME RsaAssumption == RsaKeys \subseteq KeyNames
ASSUME NamesAssumption == None \notin KeyNames /\ "error" \notin Callers

VARIABLES
    provider,  \* which wrapper this is
    latest,    \* service: the version of each key that encrypts
    wrapper,   \* the fields of the Wrapper object
    call,      \* per goroutine: the call in progress and its locals
    blobs,     \* the blobs that Encrypt returned, and older ones
    watchers   \* transit: the token renewals running in the background

vars == <<provider, latest, wrapper, call, blobs, watchers>>

(* A key id names a key and a version; version 0 is the name alone, and    *)
(* NoId the empty string.                                                  *)
NoId == <<None, 0>>
Ids == (KeyNames \cup {None}) \X (0..MaxVersion)

Algs == {"AES_GCM", "RSA_OAEP"}
AlgOf(k) == IF k \in RsaKeys THEN "RSA_OAEP" ELSE "AES_GCM"

-----------------------------------------------------------------------------
(***************************************************************************)
(* Configuration: what SetConfig is given and which of it it uses          *)
(***************************************************************************)

(* getOpts and the environment: a key from the wrapper's own environment   *)
(* variable, the legacy one, or the options; the other settings that are   *)
(* present; Azure's auth_method; KMIP's algorithm.                         *)
Inputs(uses) ==
    [env : KeyNames \cup {None}, legacyEnv : KeyNames \cup {None},
     opt : KeyNames \cup {None}, disallowEnv : BOOLEAN,
     keyNotRequired : BOOLEAN, given : SUBSET uses,
     authMethod : IF "tenantId" \in uses
                    THEN {None, "certificate", "client_secret",
                          "managed_identity", "workload_identity",
                          "environment", "default"}
                    ELSE {None},
     alg : Algs]

(* legacyEnv: there is a second environment variable.  heeds: the wrapper  *)
(* looks at WithDisallowEnvVars.  optional: it knows key_not_required.     *)
Config(legacyEnv, heeds, optional, uses, steps) ==
    [legacyEnv |-> legacyEnv, heeds |-> heeds, optional |-> optional,
     uses |-> uses, steps |-> steps]

AwsSetConfig == Config(TRUE, TRUE, TRUE, {"accessKey", "secretKey"},
    <<"key", "storeName", "settings", "unlessClient", "newClient",
      "describe", "keep", "return">>)

AzureSetConfig == Config(TRUE, TRUE, TRUE,
    {"tenantId", "clientId", "clientSecret", "cert", "vaultName"},
    <<"settings", "key", "unlessClient", "newClient", "describe", "keep",
      "return">>)

(* The client is kept before the key was looked up and the permissions     *)
(* were tested.                                                            *)
GcpSetConfig == Config(TRUE, TRUE, TRUE, {"project", "region", "keyRing"},
    <<"settings", "key", "unlessClient", "newClient", "keep",
      "describe", "verify", "return">>)

AliSetConfig == Config(TRUE, TRUE, FALSE, {},
    <<"key", "build", "describe", "return">>)

HuaweiSetConfig == Config(FALSE, FALSE, FALSE,
    {"region", "project", "accessKey", "secretKey"},
    <<"key", "build", "describe", "return">>)

(* Two clients, and an Encrypt of the empty string to validate the key.    *)
OciSetConfig == Config(TRUE, TRUE, FALSE,
    {"cryptoEndpoint", "managementEndpoint"},
    <<"key", "settings", "build", "request", "version", "store", "return">>)

OvhSetConfig == Config(FALSE, TRUE, FALSE, {"clientCert", "clientKey", "token"},
    <<"parseKey", "storeName", "settings", "rebuild", "verify", "return">>)

MutantTencentSetConfig == Config(FALSE, FALSE, FALSE, {"accessKey", "secretKey"},
    <<"key", "settings", "unlessClient", "newClient", "keep", "describe",
      "return">>)

TencentSetConfig == Config(FALSE, FALSE, FALSE, {"accessKey", "secretKey"},
    <<"key", "settings", "unlessClient", "newClient", "describe", "keep",
      "return">>)

(* No request is made before the first Encrypt.                            *)
TCloudSetConfig == Config(FALSE, TRUE, FALSE, {"region", "accessKey", "secretKey"},
    <<"key", "settings", "newClient", "keep", "return">>)

KmipSetConfig == Config(TRUE, TRUE, FALSE, {"encryptAlg"},
    <<"key", "settings", "algorithm", "newClient", "verifyKey", "keep",
      "return">>)

(* The key's name is a field of the new client, not of the wrapper.        *)
TransitSetConfig == Config(TRUE, TRUE, FALSE, {"mountPath"},
    <<"settings", "newClient", "watch", "key", "keep", "request", "store",
      "return">>)

ConfigOf == [aws |-> AwsSetConfig, azure |-> AzureSetConfig, gcp |-> GcpSetConfig,
             ali |-> AliSetConfig, huawei |-> HuaweiSetConfig, oci |-> OciSetConfig,
             ovh |-> OvhSetConfig, tencent |-> TencentSetConfig,
             tcloud |-> TCloudSetConfig, kmip |-> KmipSetConfig,
             transit |-> TransitSetConfig]

ASSUME ProvidersAssumption == Providers \subseteq DOMAIN ConfigOf

(* The precedence of every SetConfig.                                      *)
ChosenKey(cf, in) ==
    LET env == ~cf.heeds \/ ~in.disallowEnv IN
    IF env /\ in.env # None THEN in.env
    ELSE IF env /\ cf.legacyEnv /\ in.legacyEnv # None THEN in.legacyEnv
    ELSE in.opt

(* GetAwsKmsClient without an environment: have one or the other but not   *)
(* both and not neither.                                                   *)
AwsClientPossible(in) ==
    in.disallowEnv => ("accessKey" \in in.given <=> "secretKey" \in in.given)

configureAuthMethod(in) ==
    IF in.authMethod # None THEN in.authMethod
    ELSE IF {"tenantId", "clientId", "clientSecret"} \subseteq in.given
           THEN "client_secret"
    ELSE IF "cert" \in in.given THEN "certificate"
    ELSE IF "clientId" \in in.given THEN "managed_identity"
    ELSE "default"

AzureSettings(in) ==
    /\ in.disallowEnv => configureAuthMethod(in) \in {"certificate", "client_secret"}
    /\ "vaultName" \in in.given

(* getCredential: what each method needs.                                  *)
getCredential(in) ==
    LET needs == [certificate |-> {"tenantId", "clientId", "cert"},
                  client_secret |-> {"tenantId", "clientId"},
                  managed_identity |-> {"clientId"},
                  workload_identity |-> {"tenantId"},
                  environment |-> {}, default |-> {"tenantId"}]
    IN  needs[configureAuthMethod(in)] \subseteq in.given

OvhAuthenticated(in) ==
    LET hasMTLS == in.given \cap {"clientCert", "clientKey"} # {} IN
    IF "token" \in in.given THEN ~hasMTLS
                            ELSE {"clientCert", "clientKey"} \subseteq in.given

(* The settings that are required as such: project, region, endpoint, ...  *)
RequiredSettings(p, in) ==
    CASE p \in {"aws", "ali", "huawei", "kmip"} -> TRUE
      [] p = "azure" -> AzureSettings(in)
      [] p = "ovh" -> OvhAuthenticated(in)
      [] p = "transit" -> "mountPath" \in in.given /\ ChosenKey(ConfigOf[p], in) # None
      [] OTHER -> ConfigOf[p].uses \subseteq in.given

ClientPossible(p, in) ==
    CASE p = "aws" -> AwsClientPossible(in)
      [] p = "azure" -> getCredential(in)
      [] p = "huawei" -> ConfigOf[p].uses \subseteq in.given
      [] OTHER -> TRUE

-----------------------------------------------------------------------------
(***************************************************************************)
(* Encryption                                                              *)
(***************************************************************************)

(* GCM with a random nonce in front; Open undoes Seal for the same key and *)
(* additional data, and nothing else.                                      *)
Error == "error"
Seal(key, plaintext, aad) ==
    <<"nonce", [key |-> key, plaintext |-> plaintext, aad |-> aad]>>
Open(key, s, aad) ==
    IF Len(s) = 2 /\ s[1] = "nonce" /\ s[2].key = key /\ s[2].aad = aad
      THEN s[2].plaintext ELSE Error

(* A fresh data key, and the nonce split from the ciphertext.              *)
EnvelopeEncrypt(dek, plaintext, aad) ==
    LET s == Seal(dek, plaintext, aad)
    IN  [key |-> dek, iv |-> SubSeq(s, 1, 1), ciphertext |-> SubSeq(s, 2, Len(s))]

(* Split and combined pairs of nonce and ciphertext both occur.            *)
EnvelopeDecrypt(dek, iv, ciphertext, aad) == Open(dek, iv \o ciphertext, aad)

(* The remote service (external).  A ciphertext knows its key and version; *)
(* KMIP servers from 1.4 on keep the tag of AES-GCM apart from the data.   *)
(* base64: these are the characters that stand for its bytes; the service  *)
(* cannot unwrap them.                                                     *)
Wrapped(k, v, text, alg) ==
    [key |-> k, version |-> v, text |-> text, alg |-> alg, base64 |-> FALSE]
NoCipher == Wrapped(None, 0, None, None)
Unwrap(ct) == ct.text
UnwrapUnder(k, ct) == IF ct.key = k THEN ct.text ELSE Error
UnwrapVersion(k, v, ct) ==
    IF ct.key = k /\ ct.version = v /\ ~ct.base64 THEN ct.text ELSE Error

AwsEncrypt == <<"client", "request", "storeIfNamed", "return">>
AzureEncrypt == <<"request", "store", "return">>
GcpEncrypt == <<"request", "store", "return">>
AliEncrypt == <<"request", "store", "return">>
HuaweiEncrypt == <<"request", "store", "return">>
TencentEncrypt == <<"request", "store", "return">>
TCloudEncrypt == <<"request", "store", "return">>
TransitEncrypt == <<"request", "store", "return">>
OvhEncrypt == <<"request", "storeName", "return">>
KmipEncrypt == <<"request", "return">>

(* The version is asked for after the encryption.                          *)
OciEncrypt == <<"client", "request", "version", "store", "return">>

EncryptOf == [aws |-> AwsEncrypt, azure |-> AzureEncrypt, gcp |-> GcpEncrypt,
              ali |-> AliEncrypt, huawei |-> HuaweiEncrypt, oci |-> OciEncrypt,
              ovh |-> OvhEncrypt, tencent |-> TencentEncrypt,
              tcloud |-> TCloudEncrypt, kmip |-> KmipEncrypt,
              transit |-> TransitEncrypt]

(* Transit's "v2" (the prefix is empty by default) does not tell the key;  *)
(* OVH and KMIP know no versions.                                          *)
IdOf(p, k, v) == CASE p = "transit" -> <<None, v>>
                   [] p \in {"ovh", "kmip"} -> <<k, 0>>
                   [] OTHER -> <<k, v>>

-----------------------------------------------------------------------------
(***************************************************************************)
(* Decryption, as a function of the wrapper w and the blob b               *)
(***************************************************************************)

(* The envelope around a data key; an error of the service is passed on.   *)
OpenEnvelope(dek, b, aad) ==
    IF dek = Error THEN Error ELSE EnvelopeDecrypt(dek, b.iv, b.text, aad)

(* A blob without KeyInfo is from before envelopes.                        *)
AwsDecrypt(w, b, aad) ==
    IF ~b.info \/ b.mech = "direct" THEN Unwrap(b.text[1])
    ELSE OpenEnvelope(Unwrap(b.wrapped), b, aad)

GcpDecrypt(w, b, aad) ==
    IF ~b.info \/ b.mech = "direct" THEN UnwrapUnder(w.keyId, b.text[1])
    ELSE OpenEnvelope(UnwrapUnder(w.keyId, b.wrapped), b, aad)

(* The wrapped key used to be stored base64 encoded; the bytes of a        *)
(* ciphertext do not decode and are used as they are.                      *)
WrappedBytes(ct) == IF ct.base64 THEN [ct EXCEPT !.base64 = FALSE] ELSE ct

MutantAzureDecrypt(w, b, aad) ==
    OpenEnvelope(UnwrapVersion(w.keyId, w.currentKeyId[2], WrappedBytes(b.wrapped)),
                 b, aad)

(* Key Vault is told the version that the blob names.                      *)
AzureDecrypt(w, b, aad) ==
    IF ~b.info THEN Error
    ELSE OpenEnvelope(UnwrapVersion(w.keyId, b.keyId[2], WrappedBytes(b.wrapped)),
                      b, aad)

AliDecrypt(w, b, aad) == OpenEnvelope(Unwrap(b.wrapped), b, aad)
HuaweiDecrypt(w, b, aad) == OpenEnvelope(Unwrap(b.wrapped), b, aad)
TencentDecrypt(w, b, aad) == OpenEnvelope(Unwrap(b.wrapped), b, aad)
TCloudDecrypt(w, b, aad) == OpenEnvelope(Unwrap(b.wrapped), b, aad)
OciDecrypt(w, b, aad) == OpenEnvelope(UnwrapUnder(w.keyId, b.wrapped), b, aad)
OvhDecrypt(w, b, aad) == OpenEnvelope(UnwrapUnder(w.keyId, b.wrapped), b, aad)
TransitDecrypt(w, b, aad) == UnwrapUnder(w.keyId, b.text[1])

(* The key and the algorithm are the blob's, the length of the tag is the  *)
(* one of the wrapper's own algorithm.                                     *)
KmipDecrypt(w, b, aad) ==
    LET tagGiven == w.alg = "AES_GCM" /\ w.kmip14
        tagWanted == b.mech = "AES_GCM" /\ w.kmip14
        ct == b.text[1]
    IN  IF tagGiven = tagWanted /\ ct.alg = b.mech
          THEN UnwrapUnder(b.keyId[1], ct) ELSE Error

Decrypt(p, w, b, aad) ==
    CASE p = "aws" -> AwsDecrypt(w, b, aad)
      [] p = "azure" -> AzureDecrypt(w, b, aad)
      [] p = "gcp" -> GcpDecrypt(w, b, aad)
      [] p = "ali" -> AliDecrypt(w, b, aad)
      [] p = "huawei" -> HuaweiDecrypt(w, b, aad)
      [] p = "oci" -> OciDecrypt(w, b, aad)
      [] p = "ovh" -> OvhDecrypt(w, b, aad)
      [] p = "tencent" -> TencentDecrypt(w, b, aad)
      [] p = "tcloud" -> TCloudDecrypt(w, b, aad)
      [] p = "kmip" -> KmipDecrypt(w, b, aad)
      [] p = "transit" -> TransitDecrypt(w, b, aad)

-----------------------------------------------------------------------------
(***************************************************************************)
(* State                                                                   *)
(***************************************************************************)
Aad == "aad"

(* What Encrypt builds from the data key, or with KMIP and transit from    *)
(* the plaintext itself, that the service encrypted under key k, version v.*)
Blob(p, c, k, v, id, alg) ==
    IF p \in {"kmip", "transit"}
      THEN [info |-> TRUE, keyId |-> id, mech |-> alg, wrapped |-> NoCipher,
            iv |-> <<>>, text |-> <<Wrapped(k, v, c, alg)>>, of |-> c]
      ELSE LET env == EnvelopeEncrypt(c, c, Aad) IN
           [info |-> TRUE, keyId |-> id, mech |-> "envelope",
            wrapped |-> Wrapped(k, v, env.key, alg), iv |-> env.iv,
            text |-> env.ciphertext, of |-> c]

(* Blobs of earlier releases: encrypted without an envelope, with the      *)
(* nonce left in the ciphertext, and, with Azure, with an encoded key.     *)
OldDirect(k, c) ==
    [info |-> FALSE, keyId |-> NoId, mech |-> None, wrapped |-> NoCipher,
     iv |-> <<>>, text |-> <<Wrapped(k, 1, c, "AES_GCM")>>, of |-> c]

Unsplit(b, c) == [b EXCEPT !.iv = <<>>, !.text = Seal(c, c, Aad)]

OldUnsplit(p, k, c) == Unsplit(Blob(p, c, k, 1, IdOf(p, k, 1), "AES_GCM"), c)

Encoded(b) == [b EXCEPT !.wrapped = [b.wrapped EXCEPT !.base64 = TRUE]]

OldEncoded(p, k, c) == Encoded(Blob(p, c, k, 1, IdOf(p, k, 1), "AES_GCM"))

OldBlobs(p) ==
    {OldDirect(k, c) : k \in IF p \in {"aws", "gcp"} THEN KeyNames ELSE {}, c \in Callers}
    \cup
    {OldUnsplit(p, k, c) :
        k \in IF p \in {"kmip", "transit"} THEN {} ELSE KeyNames, c \in Callers}
    \cup
    {OldEncoded(p, k, c) : k \in IF p = "azure" THEN KeyNames ELSE {}, c \in Callers}

CipherOf(b) == IF b.wrapped = NoCipher THEN b.text[1] ELSE b.wrapped

Steps == {"key", "parseKey", "storeName", "settings", "unlessClient",
          "newClient", "describe", "keep", "verify", "build", "rebuild",
          "algorithm", "verifyKey", "watch", "client", "request", "version",
          "store", "storeIfNamed", "return"}

NoConfig == [key |-> None, keyNotRequired |-> FALSE, settings |-> FALSE,
             client |-> FALSE, alg |-> None]

Idle == [op |-> "none", todo |-> <<>>, cfg |-> NoConfig, used |-> NoId,
         id |-> NoId]

NewWrapper == [state |-> "new", keyId |-> None, client |-> FALSE,
               currentKeyId |-> NoId, keyNotRequired |-> FALSE,
               alg |-> None, kmip14 |-> FALSE]

TypeOK ==
    /\ provider \in Providers
    /\ latest \in [KeyNames -> 1..MaxVersion]
    /\ wrapper \in [state : {"new", "failed", "ok", "finalized"},
                    keyId : KeyNames \cup {None}, client : BOOLEAN,
                    currentKeyId : Ids, keyNotRequired : BOOLEAN,
                    alg : Algs \cup {None}, kmip14 : BOOLEAN]
    /\ \A c \in Callers :
         /\ call[c].op \in {"none", "SetConfig", "Encrypt"}
         /\ \A i \in DOMAIN call[c].todo : call[c].todo[i] \in Steps
         /\ call[c].used \in Ids /\ call[c].id \in Ids
         /\ call[c].op = "none" <=> call[c].todo = <<>>
    /\ \A b \in blobs : b.keyId \in Ids /\ b.of \in Callers
    /\ watchers \in 0..1

Init ==
    /\ provider \in Providers
    /\ latest = [k \in KeyNames |-> 1]
    /\ wrapper = NewWrapper
    /\ call = [c \in Callers |-> Idle]
    /\ blobs \in {{}} \cup {{b} : b \in OldBlobs(provider)}
    /\ watchers = 0

-----------------------------------------------------------------------------
(***************************************************************************)
(* Calls                                                                   *)
(***************************************************************************)
InProgress == {c \in Callers : call[c].op # "none"}

(* What SetConfig makes of its options and of the environment.             *)
Configs ==
    [p \in Providers |->
       LET cf == ConfigOf[p] IN
       {[key |-> ChosenKey(cf, in),
         keyNotRequired |-> cf.optional /\ in.keyNotRequired,
         settings |-> RequiredSettings(p, in), client |-> ClientPossible(p, in),
         alg |-> IF "encryptAlg" \in in.given THEN in.alg ELSE None] :
            in \in Inputs(cf.uses)}]

(* SetConfig is called before anything else, and again if it failed.       *)
SetConfig(c) ==
    /\ wrapper.state \in {"new", "failed"} /\ InProgress = {}
    /\ \E cfg \in Configs[provider] :
         /\ call' = [call EXCEPT ![c] =
              [Idle EXCEPT !.op = "SetConfig", !.cfg = cfg,
                           !.todo = ConfigOf[provider].steps]]
         /\ wrapper' = [wrapper EXCEPT !.keyNotRequired = cfg.keyNotRequired]
    /\ UNCHANGED <<provider, latest, blobs, watchers>>

(* Two Encrypts of one wrapper may overlap.                                *)
Encrypt(c) ==
    /\ wrapper.state = "ok" /\ call[c].op = "none"
    /\ Cardinality(blobs) + Cardinality(InProgress) < MaxBlobs
    /\ call' = [call EXCEPT ![c] =
         [Idle EXCEPT !.op = "Encrypt", !.todo = EncryptOf[provider]]]
    /\ UNCHANGED <<provider, latest, wrapper, blobs, watchers>>

(* A Decrypt of AWS or GCP fills in the KeyInfo of its argument.           *)
DecryptOld(b) ==
    /\ wrapper.state = "ok" /\ provider \in {"aws", "gcp"} /\ ~b.info
    /\ blobs' = (blobs \ {b}) \cup {[b EXCEPT !.info = TRUE, !.mech = "direct"]}
    /\ UNCHANGED <<provider, latest, wrapper, call, watchers>>

-----------------------------------------------------------------------------
(***************************************************************************)
(* The steps of SetConfig and Encrypt                                      *)
(***************************************************************************)
At(c, step) == call[c].todo # <<>> /\ Head(call[c].todo) = step

Done(c) == [call EXCEPT ![c].todo = Tail(@)]

Ended(w, c) ==
    IF call[c].op = "SetConfig" THEN [w EXCEPT !.state = "failed"] ELSE w

MutantFail(c, w) ==
    /\ call' = [call EXCEPT ![c] = Idle]
    /\ wrapper' = Ended(w, c)
    /\ UNCHANGED <<provider, latest, blobs, watchers>>

(* An error is returned and w is what the call leaves.  SetConfig of       *)
(* transit closes its client when the test encryption fails.               *)
Fail(c, w) ==
    /\ call' = [call EXCEPT ![c] = Idle]
    /\ wrapper' = Ended(w, c)
    /\ watchers' = IF call[c].op = "SetConfig" /\ At(c, "request") THEN 0
                   ELSE watchers
    /\ UNCHANGED <<provider, latest, blobs>>

(* The step takes the wrapper to w, and nobody waits for anything.         *)
Proceed(c, w) ==
    /\ call' = Done(c)
    /\ wrapper' = w
    /\ UNCHANGED <<provider, latest, blobs, watchers>>

Key(c) ==
    LET cfg == call[c].cfg IN
    /\ At(c, "key")
    /\ \/ cfg.key # None /\ Proceed(c, [wrapper EXCEPT !.keyId = cfg.key])
       \/ cfg.key = None /\ cfg.keyNotRequired /\ Proceed(c, wrapper)
       \/ cfg.key = None /\ ~cfg.keyNotRequired /\ Fail(c, wrapper)

(* The result of uuid.Parse is assigned before its error is looked at.     *)
ParseKey(c) ==
    LET cfg == call[c].cfg IN
    /\ At(c, "parseKey")
    /\ \/ cfg.key # None /\ Proceed(c, [wrapper EXCEPT !.keyId = cfg.key])
       \/ cfg.key # None /\ Fail(c, [wrapper EXCEPT !.keyId = None])
       \/ cfg.key = None /\ Fail(c, wrapper)

StoreName(c) ==
    LET id == <<wrapper.keyId, 0>> IN
    /\ At(c, "storeName")
    /\ call' = [Done(c) EXCEPT ![c].id = id]
    /\ wrapper' = [wrapper EXCEPT !.currentKeyId = id]
    /\ UNCHANGED <<provider, latest, blobs, watchers>>

(* A setting is missing, or one of the optional ones cannot be parsed.     *)
Settings(c) ==
    /\ At(c, "settings")
    /\ \/ call[c].cfg.settings /\ Proceed(c, wrapper)
       \/ Fail(c, wrapper)

UnlessClient(c) ==
    /\ At(c, "unlessClient")
    /\ call' = IF wrapper.client THEN [call EXCEPT ![c].todo = <<"return">>]
                                 ELSE Done(c)
    /\ UNCHANGED <<provider, latest, wrapper, blobs, watchers>>

(* KMIP agrees on a protocol version with the server.                      *)
NewClient(c) ==
    /\ At(c, "newClient")
    /\ \/ call[c].cfg.client /\ \E v \in IF provider = "kmip" THEN BOOLEAN ELSE {FALSE} :
            Proceed(c, [wrapper EXCEPT !.kmip14 = v])
       \/ Fail(c, wrapper)

Build(c) ==
    /\ At(c, "build")
    /\ \/ wrapper.client /\ Proceed(c, wrapper)
       \/ /\ ~wrapper.client /\ call[c].cfg.client
          /\ Proceed(c, [wrapper EXCEPT !.client = TRUE])
       \/ ~wrapper.client /\ Fail(c, wrapper)

(* OVH assigns the client together with the error.                         *)
Rebuild(c) ==
    /\ At(c, "rebuild")
    /\ \/ Proceed(c, [wrapper EXCEPT !.client = TRUE])
       \/ Fail(c, wrapper)
       \/ Fail(c, [wrapper EXCEPT !.client = FALSE])

(* Asks the service for the key: it says what the name stands for now.     *)
Describe(c) ==
    LET w == wrapper IN
    /\ At(c, "describe")
    /\ \/ w.keyNotRequired /\ Proceed(c, w)
       \/ /\ ~w.keyNotRequired
          /\ Proceed(c, [w EXCEPT !.currentKeyId = <<w.keyId, latest[w.keyId]>>])
       \/ ~w.keyNotRequired /\ Fail(c, w)

Verify(c) ==
    /\ At(c, "verify")
    /\ \/ Proceed(c, wrapper)
       \/ ~wrapper.keyNotRequired /\ Fail(c, wrapper)

Keep(c) == At(c, "keep") /\ Proceed(c, [wrapper EXCEPT !.client = TRUE])

(* An unknown name yields the zero value and an error.                     *)
Algorithm(c) ==
    LET w == [wrapper EXCEPT !.alg = call[c].cfg.alg] IN
    /\ At(c, "algorithm")
    /\ IF w.alg # None THEN Proceed(c, w) ELSE Fail(c, w)

VerifyKey(c) ==
    /\ At(c, "verifyKey")
    /\ \/ wrapper.alg = AlgOf(wrapper.keyId) /\ Proceed(c, wrapper)
       \/ Fail(c, wrapper)

(* The token is renewed in the background if it can be.                    *)
Watch(c) ==
    /\ At(c, "watch")
    /\ \/ Fail(c, wrapper)
       \/ /\ call' = Done(c)
          /\ watchers' \in {watchers, watchers + 1}
          /\ UNCHANGED <<provider, latest, wrapper, blobs>>

Client(c) ==
    /\ At(c, "client")
    /\ IF wrapper.client THEN Proceed(c, wrapper) ELSE Fail(c, wrapper)

(* The service encrypts with the newest version of the key and says which  *)
(* it was; only of AWS's answer it is not certain that it does.            *)
Request(c) ==
    LET k == wrapper.keyId IN
    /\ At(c, "request")
    /\ \/ Fail(c, wrapper)
       \/ /\ k # None
          /\ \E id \in {IdOf(provider, k, latest[k])}
                       \cup (IF provider = "aws" THEN {NoId} ELSE {}) :
               call' = [Done(c) EXCEPT ![c].used = <<k, latest[k]>>, ![c].id = id]
          /\ UNCHANGED <<provider, latest, wrapper, blobs, watchers>>

(* getCurrentKeyVersion of OCI                                             *)
Version(c) ==
    LET k == wrapper.keyId IN
    /\ At(c, "version")
    /\ \/ Fail(c, wrapper)
       \/ /\ call' = [Done(c) EXCEPT ![c].id = <<k, latest[k]>>]
          /\ UNCHANGED <<provider, latest, wrapper, blobs, watchers>>

Store(c) ==
    /\ At(c, "store")
    /\ Proceed(c, [wrapper EXCEPT !.currentKeyId = call[c].id])

StoreIfNamed(c) ==
    /\ At(c, "storeIfNamed")
    /\ Proceed(c, IF call[c].id = NoId THEN wrapper
                  ELSE [wrapper EXCEPT !.currentKeyId = call[c].id])

ReturnConfig(c) ==
    /\ At(c, "return") /\ call[c].op = "SetConfig"
    /\ call' = [call EXCEPT ![c] = Idle]
    /\ wrapper' = [wrapper EXCEPT !.state = "ok"]
    /\ UNCHANGED <<provider, latest, blobs, watchers>>

MutantReturnBlob(c) ==
    /\ At(c, "return") /\ call[c].op = "Encrypt"
    /\ call' = [call EXCEPT ![c] = Idle]
    /\ blobs' = blobs \cup {Blob(provider, c, call[c].used[1], call[c].used[2],
                                 wrapper.currentKeyId, wrapper.alg)}
    /\ UNCHANGED <<provider, latest, wrapper, watchers>>

ReturnBlob(c) ==
    /\ At(c, "return") /\ call[c].op = "Encrypt"
    /\ call' = [call EXCEPT ![c] = Idle]
    /\ blobs' = blobs \cup {Blob(provider, c, call[c].used[1], call[c].used[2],
                                 call[c].id, wrapper.alg)}
    /\ UNCHANGED <<provider, latest, wrapper, watchers>>

-----------------------------------------------------------------------------
(***************************************************************************)
(* The service, the process and the owner of the blobs                     *)
(***************************************************************************)

(* The key gets a new version, or the alias another key (external).        *)
Rotate(k) ==
    /\ latest[k] < MaxVersion
    /\ latest' = [latest EXCEPT ![k] = @ + 1]
    /\ UNCHANGED <<provider, wrapper, call, blobs, watchers>>

(* Another process: the blobs were saved, the wrapper is a new one.        *)
Restart ==
    /\ wrapper # NewWrapper
    /\ wrapper' = NewWrapper
    /\ call' = [c \in Callers |-> Idle]
    /\ watchers' = 0
    /\ UNCHANGED <<provider, latest, blobs>>

(* Only transit has something to give back.                                *)
Finalize ==
    /\ provider = "transit" /\ wrapper.state = "ok" /\ InProgress = {}
    /\ wrapper' = [wrapper EXCEPT !.state = "finalized"]
    /\ watchers' = 0
    /\ UNCHANGED <<provider, latest, call, blobs>>

(* The token cannot be renewed any more.                                   *)
WatcherEnds ==
    /\ watchers > 0
    /\ watchers' = watchers - 1
    /\ UNCHANGED <<provider, latest, wrapper, call, blobs>>

Step(c) ==
    \/ Key(c) \/ ParseKey(c) \/ StoreName(c) \/ Settings(c) \/ UnlessClient(c)
    \/ NewClient(c) \/ Build(c) \/ Rebuild(c) \/ Describe(c) \/ Verify(c)
    \/ Keep(c) \/ Algorithm(c) \/ VerifyKey(c) \/ Watch(c) \/ Client(c)
    \/ Request(c) \/ Version(c) \/ Store(c) \/ StoreIfNamed(c)
    \/ ReturnConfig(c) \/ ReturnBlob(c)

Next ==
    \/ \E c \in Callers : SetConfig(c) \/ Encrypt(c) \/ Step(c)
    \/ \E b \in blobs : DecryptOld(b)
    \/ \E k \in KeyNames : Rotate(k)
    \/ Restart \/ Finalize \/ WatcherEnds

Spec == Init /\ [][Next]_vars

-----------------------------------------------------------------------------
(***************************************************************************)
(* Properties                                                              *)
(***************************************************************************)
KeyId == IF provider = "kmip" THEN <<wrapper.keyId, 0>> ELSE wrapper.currentKeyId

(* Decrypt returns the plaintext of every blob that Encrypt made under the *)
(* key of the configured wrapper, whatever happened since: rotations of    *)
(* the key, a restart, an overlapping Encrypt, a re-configuration after a  *)
(* failure, and blobs in the formats of earlier releases.                  *)
BlobsReadable ==
    \A b \in blobs :
        (/\ wrapper.state = "ok"
         /\ CipherOf(b).key = wrapper.keyId
         /\ provider = "kmip" => b.mech = wrapper.alg)
        => Decrypt(provider, wrapper, b, Aad) = b.of

(* The comment of the KMIP Wrapper promises more: the algorithm may be     *)
(* changed "while keeping the capability to decrypt previously encrypted   *)
(* values".                                                                *)
OldAlgorithmReadable ==
    \A b \in blobs : (provider = "kmip" /\ wrapper.state = "ok")
                     => Decrypt(provider, wrapper, b, Aad) = b.of

(* The id recorded in a blob is the one of the key version that encrypted  *)
(* it, so that re-wrapping "older entries" finds them: two overlapping     *)
(* Encrypts with a rotation between them do not exchange their ids.  OCI   *)
(* asks for the version afterwards and may name a newer one; AWS may name  *)
(* none.                                                                   *)
BlobNamesItsKey ==
    \A b \in blobs :
        LET ct == CipherOf(b)
            id == IdOf(provider, ct.key, ct.version) IN
        \/ b.keyId = id
        \/ provider = "oci" /\ b.keyId[1] = ct.key /\ b.keyId[2] > ct.version
        \/ provider = "aws" /\ b.keyId = NoId
        \/ ~b.info \/ b.mech = "direct"

(* After a SetConfig that returned no error, however many failed before    *)
(* it, KeyId names the configured key.  (GCP keeps its client before the   *)
(* key is known, and T Cloud makes no request.)                            *)
ConfiguredKeyKnown ==
    (/\ wrapper.state = "ok" /\ ~wrapper.keyNotRequired
     /\ provider \notin {"gcp", "tcloud"})
    => IF provider = "transit" THEN KeyId[2] > 0 ELSE KeyId[1] = wrapper.keyId

(* The renewal of transit's token does not outlive the wrapper: none runs  *)
(* after a failed SetConfig or after Finalize, and a second attempt does   *)
(* not add a second one.                                                   *)
NoWatcherLeft ==
    (wrapper.state # "ok" /\ InProgress = {}) => watchers = 0
=============================================================================
