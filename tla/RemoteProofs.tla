---------------------------- MODULE RemoteProofs -----------------------------
(***************************************************************************)
(* Theorems about RemoteWrapper, for any providers of the eleven, any      *)
(* number of goroutines, keys, rotations and blobs.                        *)
(***************************************************************************)
EXTENDS RemoteWrapper, SequenceTheorems, TLAPS

WrapperRec == [state : {"new", "failed", "ok", "finalized"},
               keyId : KeyNames \cup {None}, client : BOOLEAN,
               currentKeyId : Ids, keyNotRequired : BOOLEAN,
               alg : Algs \cup {None}, kmip14 : BOOLEAN]

ConfigRec == [key : KeyNames \cup {None}, keyNotRequired : BOOLEAN,
              settings : BOOLEAN, client : BOOLEAN, alg : Algs \cup {None}]

CallRec == [op : {"none", "SetConfig", "Encrypt"}, todo : Seq(Steps),
            cfg : ConfigRec, used : Ids, id : Ids]

BaseOK == /\ provider \in Providers
          /\ latest \in [KeyNames -> 1..MaxVersion]
          /\ wrapper \in WrapperRec
          /\ watchers \in 0..1
          /\ call \in [Callers -> CallRec]

(* The steps a call is made of, and those it has yet to do: an end of the  *)
(* steps of its provider.                                                  *)
Plan(c) == IF call[c].op = "SetConfig" THEN ConfigOf[provider].steps
           ELSE EncryptOf[provider]

Ahead(c) == {call[c].todo[i] : i \in DOMAIN call[c].todo}

PlanOK ==
    \A c \in Callers :
        IF call[c].op = "none" THEN call[c].todo = <<>>
        ELSE \E i \in 1..Len(Plan(c)) :
               call[c].todo = SubSeq(Plan(c), i, Len(Plan(c)))

(* SetConfig is alone, and Encrypt finds a configured wrapper.             *)
Alone ==
    \A c \in Callers :
        /\ call[c].op = "SetConfig" =>
              /\ wrapper.state \in {"new", "failed"}
              /\ \A d \in Callers : d # c => call[d].op = "none"
        /\ call[c].op = "Encrypt" => wrapper.state = "ok"

(* SetConfig has a configuration, and transit's is complete once its       *)
(* settings were looked at.                                                *)
ConfigOK ==
    \A c \in Callers : call[c].op = "SetConfig" =>
        /\ call[c].cfg \in Configs[provider]
        /\ call[c].cfg.keyNotRequired = wrapper.keyNotRequired
        /\ provider = "transit" /\ "settings" \notin Ahead(c) => call[c].cfg.settings

(* Once SetConfig has been told the key there is one, if one is needed.    *)
HasKey == wrapper.keyId # None \/ wrapper.keyNotRequired

KeyOK ==
    /\ wrapper.state = "ok" => HasKey
    /\ \A c \in Callers :
         /\ call[c].op = "SetConfig" /\ "key" \notin Ahead(c) /\ "parseKey" \notin Ahead(c)
         => HasKey

(* What a blob may say of the key version that encrypted it.               *)
Names(id, k, v) ==
    \/ id = IdOf(provider, k, v)
    \/ provider = "oci" /\ id[1] = k /\ id[2] > v
    \/ provider = "aws" /\ id = NoId

(* After its request a call knows the version that was used: a version of  *)
(* the wrapper's key, which nobody changes meanwhile.                      *)
Requests(c) == call[c].op = "Encrypt"
               \/ (call[c].op = "SetConfig" /\ provider \in {"oci", "transit"})

IdOK ==
    \A c \in Callers : Requests(c) /\ "request" \notin Ahead(c) =>
        /\ wrapper.keyId \in KeyNames
        /\ call[c].used[1] = wrapper.keyId
        /\ call[c].used[2] \in 1..latest[wrapper.keyId]
        /\ Names(call[c].id, call[c].used[1], call[c].used[2])

(* The formats of blobs: without an envelope, before and after a Decrypt   *)
(* filled in the KeyInfo, as Encrypt makes them, with the nonce left in    *)
(* the ciphertext, and with an encoded key.                                *)
Converted(b) == [b EXCEPT !.info = TRUE, !.mech = "direct"]

DirectOf(b, k, c) == b = OldDirect(k, c) \/ b = Converted(OldDirect(k, c))

MadeOf(b, c, k, v, id, alg) ==
    \/ b = Blob(provider, c, k, v, id, alg)
    \/ /\ provider \notin {"kmip", "transit"}
       /\ b = Unsplit(Blob(provider, c, k, v, id, alg), c)
    \/ provider = "azure" /\ b = Encoded(Blob(provider, c, k, v, id, alg))

BlobOK(b) ==
    \/ /\ provider \in {"aws", "gcp"}
       /\ \E k \in KeyNames, c \in Callers : DirectOf(b, k, c)
    \/ \E c \in Callers, k \in KeyNames, v \in 1..MaxVersion, id \in Ids,
          alg \in Algs \cup {None} :
         Names(id, k, v) /\ MadeOf(b, c, k, v, id, alg)

BlobsOK == \A b \in blobs : BlobOK(b)

(* ConfiguredKeyKnown, from the moment SetConfig is done with the key.     *)
Known == IF provider = "transit" THEN wrapper.currentKeyId[2] > 0
         ELSE wrapper.currentKeyId[1] = wrapper.keyId

Finding == {"key", "parseKey", "describe", "store", "storeName"}

KnownOK ==
    ~wrapper.keyNotRequired /\ provider \notin {"gcp", "tcloud", "kmip"} =>
        /\ wrapper.state = "ok" => Known
        /\ \A c \in Callers :
             call[c].op = "SetConfig" /\ Ahead(c) \cap Finding = {} => Known

(* Where the client is kept last, one that is there means success, so that *)
(* a second SetConfig never skips its look at the key.                     *)
ClientOK ==
    provider \in {"aws", "azure", "tencent"} /\ wrapper.client /\ wrapper.state # "ok" =>
        \E c \in Callers : call[c].op = "SetConfig" /\ Ahead(c) = {"return"}

(* A renewal runs for a configured wrapper, or for the SetConfig that      *)
(* started it.                                                             *)
WatchOK ==
    watchers # 0 =>
        /\ provider = "transit"
        /\ \/ wrapper.state = "ok"
           \/ \E c \in Callers : call[c].op = "SetConfig" /\ "watch" \notin Ahead(c)

IInv == /\ BaseOK /\ PlanOK /\ Alone /\ ConfigOK /\ KeyOK
        /\ IdOK /\ BlobsOK /\ KnownOK /\ ClientOK /\ WatchOK

-----------------------------------------------------------------------------
(***************************************************************************)
(* The plans of the providers                                              *)
(***************************************************************************)
AllProviders == {"aws", "azure", "gcp", "ali", "huawei", "oci", "ovh", "tencent",
                 "tcloud", "kmip", "transit"}

LEMMA KnownProviders == Providers \subseteq AllProviders
BY ProvidersAssumption DEF ConfigOf, AllProviders

ProperPlan(S) ==
    /\ S \in Seq(Steps) /\ Len(S) \in Nat \ {0} /\ S[Len(S)] = "return"
    /\ \A i, j \in 1..Len(S) : S[i] = S[j] => i = j

Before(S, a, b) == \A i, j \in 1..Len(S) : S[i] = a /\ S[j] = b => i < j

Has(S, a) == \E i \in 1..Len(S) : S[i] = a

(* What the proof uses of the order in which SetConfig does things.        *)
ConfigPlan(p, S) ==
    /\ ProperPlan(S)
    /\ Has(S, "key") \/ Has(S, "parseKey")
    /\ \A s \in {"unlessClient", "describe", "request"} :
          Before(S, "key", s) /\ Before(S, "parseKey", s)
    /\ Before(S, "request", "version") /\ Before(S, "request", "store")
    /\ Has(S, "version") => p = "oci"
    /\ Has(S, "store") => p \in {"oci", "transit"}
    /\ Has(S, "storeName") => p \in {"aws", "ovh"}
    /\ Has(S, "watch") => p = "transit"
    /\ p \in {"oci", "transit"} => Has(S, "request")
    /\ ~Has(S, "client") /\ ~Has(S, "storeIfNamed")
    /\ Has(S, "unlessClient") => p \in {"aws", "azure", "gcp", "tencent"}
    /\ p \notin {"gcp", "tcloud", "kmip"} =>
          \E f \in {"describe", "store", "storeName"} :
             Has(S, f) /\ Before(S, "key", f) /\ Before(S, "parseKey", f)
    /\ p \in {"aws", "azure", "tencent"} =>
          /\ \A i \in 1..Len(S) : S[i] = "keep" => i = Len(S) - 1
          /\ ~Has(S, "build") /\ ~Has(S, "rebuild")

(* ... in particular that of transit.                                      *)
TransitPlan(S) ==
    /\ Has(S, "settings") /\ Has(S, "watch")
    /\ Before(S, "settings", "key")
    /\ Before(S, "settings", "watch") /\ Before(S, "newClient", "watch")
    /\ \A i \in 1..Len(S) :
          S[i] \in {"settings", "newClient", "watch", "key", "keep", "request", "store", "return"}

EncryptPlan(p, S) ==
    /\ ProperPlan(S) /\ Has(S, "request")
    /\ \A i \in 1..Len(S) :
          S[i] \in {"client", "request", "version", "store", "storeName", "storeIfNamed", "return"}
    /\ \A s \in {"version", "store", "storeIfNamed"} : Before(S, "request", s)
    /\ Has(S, "version") => p = "oci"
    /\ Has(S, "store") => p \notin {"aws", "kmip", "ovh"}
    /\ Has(S, "storeName") => p = "ovh"
    /\ Has(S, "storeIfNamed") => p = "aws"

LEMMA ConfigPlans ==
    ASSUME NEW p \in Providers
    PROVE  ConfigPlan(p, ConfigOf[p].steps)
<1>1. CASE p = "aws"
  <2>1. ConfigOf[p] = AwsSetConfig
    BY <1>1 DEF ConfigOf
  <2> QED
    BY <1>1, <2>1 DEF AwsSetConfig, Config, ConfigPlan, ProperPlan, Before, Has, Steps
<1>2. CASE p = "azure"
  <2>1. ConfigOf[p] = AzureSetConfig
    BY <1>2 DEF ConfigOf
  <2> QED
    BY <1>2, <2>1 DEF AzureSetConfig, Config, ConfigPlan, ProperPlan, Before, Has, Steps
<1>3. CASE p = "gcp"
  <2>1. ConfigOf[p] = GcpSetConfig
    BY <1>3 DEF ConfigOf
  <2> QED
    BY <1>3, <2>1 DEF GcpSetConfig, Config, ConfigPlan, ProperPlan, Before, Has, Steps
<1>4. CASE p = "ali"
  <2>1. ConfigOf[p] = AliSetConfig
    BY <1>4 DEF ConfigOf
  <2> QED
    BY <1>4, <2>1 DEF AliSetConfig, Config, ConfigPlan, ProperPlan, Before, Has, Steps
<1>5. CASE p = "huawei"
  <2>1. ConfigOf[p] = HuaweiSetConfig
    BY <1>5 DEF ConfigOf
  <2> QED
    BY <1>5, <2>1 DEF HuaweiSetConfig, Config, ConfigPlan, ProperPlan, Before, Has, Steps
<1>6. CASE p = "oci"
  <2>1. ConfigOf[p] = OciSetConfig
    BY <1>6 DEF ConfigOf
  <2> QED
    BY <1>6, <2>1 DEF OciSetConfig, Config, ConfigPlan, ProperPlan, Before, Has, Steps
<1>7. CASE p = "ovh"
  <2>1. ConfigOf[p] = OvhSetConfig
    BY <1>7 DEF ConfigOf
  <2> QED
    BY <1>7, <2>1 DEF OvhSetConfig, Config, ConfigPlan, ProperPlan, Before, Has, Steps
<1>8. CASE p = "tencent"
  <2>1. ConfigOf[p] = TencentSetConfig
    BY <1>8 DEF ConfigOf
  <2> QED
    BY <1>8, <2>1 DEF TencentSetConfig, Config, ConfigPlan, ProperPlan, Before, Has, Steps
<1>9. CASE p = "tcloud"
  <2>1. ConfigOf[p] = TCloudSetConfig
    BY <1>9 DEF ConfigOf
  <2> QED
    BY <1>9, <2>1 DEF TCloudSetConfig, Config, ConfigPlan, ProperPlan, Before, Has, Steps
<1>10. CASE p = "kmip"
  <2>1. ConfigOf[p] = KmipSetConfig
    BY <1>10 DEF ConfigOf
  <2> QED
    BY <1>10, <2>1 DEF KmipSetConfig, Config, ConfigPlan, ProperPlan, Before, Has, Steps
<1>11. CASE p = "transit"
  <2>1. ConfigOf[p] = TransitSetConfig
    BY <1>11 DEF ConfigOf
  <2> QED
    BY <1>11, <2>1 DEF TransitSetConfig, Config, ConfigPlan, ProperPlan, Before, Has, Steps
<1> QED
  BY <1>1, <1>2, <1>3, <1>4, <1>5, <1>6, <1>7, <1>8, <1>9, <1>10, <1>11, KnownProviders
     DEF AllProviders

LEMMA TransitPlans == TransitPlan(ConfigOf["transit"].steps)
<1>1. ConfigOf["transit"] = TransitSetConfig
  BY DEF ConfigOf
<1> QED
  BY <1>1 DEF TransitSetConfig, Config, TransitPlan, Before, Has

LEMMA EncryptPlans ==
    ASSUME NEW p \in Providers
    PROVE  EncryptPlan(p, EncryptOf[p])
<1> USE DEF EncryptPlan, ProperPlan, Before, Has, Steps
<1>1. CASE p = "aws"
  BY <1>1 DEF EncryptOf, AwsEncrypt
<1>2. CASE p = "azure"
  BY <1>2 DEF EncryptOf, AzureEncrypt
<1>3. CASE p = "gcp"
  BY <1>3 DEF EncryptOf, GcpEncrypt
<1>4. CASE p = "ali"
  BY <1>4 DEF EncryptOf, AliEncrypt
<1>5. CASE p = "huawei"
  BY <1>5 DEF EncryptOf, HuaweiEncrypt
<1>6. CASE p = "oci"
  BY <1>6 DEF EncryptOf, OciEncrypt
<1>7. CASE p = "ovh"
  BY <1>7 DEF EncryptOf, OvhEncrypt
<1>8. CASE p = "tencent"
  BY <1>8 DEF EncryptOf, TencentEncrypt
<1>9. CASE p = "tcloud"
  BY <1>9 DEF EncryptOf, TCloudEncrypt
<1>10. CASE p = "kmip"
  BY <1>10 DEF EncryptOf, KmipEncrypt
<1>11. CASE p = "transit"
  BY <1>11 DEF EncryptOf, TransitEncrypt
<1> QED
  BY <1>1, <1>2, <1>3, <1>4, <1>5, <1>6, <1>7, <1>8, <1>9, <1>10, <1>11, KnownProviders
     DEF AllProviders

(* key_not_required is an option of three providers.                       *)
LEMMA OptionalKeys ==
    ASSUME NEW p \in Providers
    PROVE  /\ ConfigOf[p].optional \in BOOLEAN
           /\ p \notin {"aws", "azure", "gcp"} => ~ConfigOf[p].optional
<1>1. CASE p = "aws"
  BY <1>1 DEF ConfigOf, AwsSetConfig, Config
<1>2. CASE p = "azure"
  BY <1>2 DEF ConfigOf, AzureSetConfig, Config
<1>3. CASE p = "gcp"
  BY <1>3 DEF ConfigOf, GcpSetConfig, Config
<1>4. CASE p = "ali"
  BY <1>4 DEF ConfigOf, AliSetConfig, Config
<1>5. CASE p = "huawei"
  BY <1>5 DEF ConfigOf, HuaweiSetConfig, Config
<1>6. CASE p = "oci"
  BY <1>6 DEF ConfigOf, OciSetConfig, Config
<1>7. CASE p = "ovh"
  BY <1>7 DEF ConfigOf, OvhSetConfig, Config
<1>8. CASE p = "tencent"
  BY <1>8 DEF ConfigOf, TencentSetConfig, Config
<1>9. CASE p = "tcloud"
  BY <1>9 DEF ConfigOf, TCloudSetConfig, Config
<1>10. CASE p = "kmip"
  BY <1>10 DEF ConfigOf, KmipSetConfig, Config
<1>11. CASE p = "transit"
  BY <1>11 DEF ConfigOf, TransitSetConfig, Config
<1> QED
  BY <1>1, <1>2, <1>3, <1>4, <1>5, <1>6, <1>7, <1>8, <1>9, <1>10, <1>11, KnownProviders
     DEF AllProviders

(* What SetConfig makes of its options.                                    *)
LEMMA ConfigsOK ==
    ASSUME NEW p \in Providers, NEW cfg \in Configs[p]
    PROVE  /\ cfg \in ConfigRec
           /\ p = "transit" /\ cfg.settings => cfg.key # None
           /\ p \notin {"aws", "azure", "gcp"} => ~cfg.keyNotRequired
<1> DEFINE cf == ConfigOf[p]
<1>1. PICK in \in Inputs(cf.uses) :
        cfg = [key |-> ChosenKey(cf, in),
               keyNotRequired |-> cf.optional /\ in.keyNotRequired,
               settings |-> RequiredSettings(p, in), client |-> ClientPossible(p, in),
               alg |-> IF "encryptAlg" \in in.given THEN in.alg ELSE None]
  BY DEF Configs
<1>2. /\ in.env \in KeyNames \cup {None} /\ in.legacyEnv \in KeyNames \cup {None}
      /\ in.opt \in KeyNames \cup {None} /\ in.alg \in Algs /\ in.keyNotRequired \in BOOLEAN
  BY DEF Inputs
<1>3. ChosenKey(cf, in) \in KeyNames \cup {None}
  BY <1>2 DEF ChosenKey
<1>4. RequiredSettings(p, in) \in BOOLEAN
  BY KnownProviders DEF RequiredSettings, AllProviders, AzureSettings, OvhAuthenticated
<1>5. ClientPossible(p, in) \in BOOLEAN
  BY KnownProviders DEF ClientPossible, AllProviders, AwsClientPossible, getCredential
<1>6. p = "transit" /\ RequiredSettings(p, in) => ChosenKey(cf, in) # None
  BY DEF RequiredSettings
<1>7. cf.optional \in BOOLEAN /\ (p \notin {"aws", "azure", "gcp"} => ~cf.optional)
  BY OptionalKeys
<1> HIDE DEF cf
<1>8. cfg \in ConfigRec
  BY <1>1, <1>2, <1>3, <1>4, <1>5, <1>7 DEF ConfigRec
<1> QED
  BY <1>1, <1>6, <1>7, <1>8

-----------------------------------------------------------------------------
(***************************************************************************)
(* A call on its way through its plan                                      *)
(***************************************************************************)

LEMMA Nonempty ==
    ASSUME NEW T, NEW r \in Seq(T), Len(r) > 0
    PROVE  r # <<>>
OBVIOUS

LEMMA Suffix ==
    ASSUME NEW S \in Seq(Steps), NEW i \in 1..Len(S)
    PROVE  LET q == SubSeq(S, i, Len(S))
           IN  /\ q \in Seq(Steps) /\ q # <<>> /\ Len(q) = Len(S) - i + 1
               /\ \A j \in 1..Len(q) : q[j] = S[i + j - 1]
               /\ Head(q) = S[i] /\ Tail(q) = SubSeq(S, i + 1, Len(S))
<1> DEFINE q == SubSeq(S, i, Len(S))
<1>1. Len(S) \in Nat /\ \A j \in 1..Len(S) : S[j] \in Steps
  BY LenProperties, ElementOfSeq
<1>2. i \in Int /\ Len(S) \in Int /\ \A j \in i..Len(S) : S[j] \in Steps
  BY <1>1
<1>3. /\ q \in Seq(Steps) /\ Len(q) = Len(S) - i + 1
      /\ \A j \in 1..Len(q) : q[j] = S[i + j - 1]
  BY <1>1, <1>2, SubSeqProperties
<1>4. Len(S) \in i..Len(S)
  BY <1>1
<1>5. Head(q) = S[i] /\ Tail(q) = SubSeq(S, i + 1, Len(S))
  BY <1>4, HeadTailOfSubSeq
<1> HIDE DEF q
<1>6. Len(q) > 0
  BY <1>1, <1>3
<1>7. q # <<>>
  BY <1>3, <1>6, Nonempty
<1>8. /\ q \in Seq(Steps) /\ q # <<>> /\ Len(q) = Len(S) - i + 1
      /\ \A j \in 1..Len(q) : q[j] = S[i + j - 1]
      /\ Head(q) = S[i] /\ Tail(q) = SubSeq(S, i + 1, Len(S))
  BY <1>3, <1>5, <1>7
<1> QED
  BY <1>8 DEF q

LEMMA PlanProper ==
    ASSUME BaseOK, NEW c \in Callers
    PROVE  ProperPlan(Plan(c))
BY ConfigPlans, EncryptPlans DEF BaseOK, Plan, ConfigPlan, EncryptPlan

(* Where a call is, as a position in its plan.                             *)
Position(c, i) ==
    /\ i \in 1..Len(Plan(c))
    /\ call[c].todo = SubSeq(Plan(c), i, Len(Plan(c)))
    /\ call[c].todo # <<>> /\ Head(call[c].todo) = Plan(c)[i]
    /\ Ahead(c) = {Plan(c)[j] : j \in i..Len(Plan(c))}

LEMMA Positions ==
    ASSUME BaseOK, PlanOK, NEW c \in Callers, call[c].op # "none"
    PROVE  \E i \in 1..Len(Plan(c)) : Position(c, i)
<1> DEFINE S == Plan(c)
           q == call[c].todo
<1>1. PICK i \in 1..Len(S) : q = SubSeq(S, i, Len(S))
  BY DEF PlanOK
<1>2. S \in Seq(Steps) /\ Len(S) \in Nat
  BY PlanProper DEF ProperPlan
<1>3. /\ q \in Seq(Steps) /\ q # <<>> /\ Len(q) = Len(S) - i + 1
      /\ \A j \in 1..Len(q) : q[j] = S[i + j - 1]
      /\ Head(q) = S[i]
  <2>1. i \in 1..Len(S) /\ q = SubSeq(S, i, Len(S))
    BY <1>1
  <2> HIDE DEF S, q
  <2> QED
    BY <1>2, <2>1, Suffix
<1>4. DOMAIN q = 1..Len(q)
  BY <1>3, LenProperties
<1>5. Ahead(c) = {q[j] : j \in 1..Len(q)}
  BY <1>4 DEF Ahead
<1> HIDE DEF S, q
<1>6. {q[j] : j \in 1..Len(q)} = {S[j] : j \in i..Len(S)}
  <2>1. \A j \in 1..Len(q) : i + j - 1 \in i..Len(S) /\ q[j] = S[i + j - 1]
    BY <1>2, <1>3
  <2>2. \A j \in i..Len(S) : j - i + 1 \in 1..Len(q) /\ q[j - i + 1] = S[j]
    <3> SUFFICES ASSUME NEW j \in i..Len(S)
                 PROVE  j - i + 1 \in 1..Len(q) /\ q[j - i + 1] = S[j]
      OBVIOUS
    <3>1. j - i + 1 \in 1..Len(q) /\ i + (j - i + 1) - 1 = j
      BY <1>2, <1>3
    <3> QED
      BY <1>3, <3>1
  <2>3. {q[j] : j \in 1..Len(q)} \subseteq {S[j] : j \in i..Len(S)}
    BY <2>1
  <2>4. {S[j] : j \in i..Len(S)} \subseteq {q[j] : j \in 1..Len(q)}
    BY <2>2
  <2> QED
    BY <2>3, <2>4
<1> QED
  BY <1>1, <1>3, <1>5, <1>6 DEF Position, S, q

(* What comes before a step in the plan is behind a call at that step, ... *)
LEMMA Passed ==
    ASSUME BaseOK, PlanOK, NEW c \in Callers, call[c].op # "none", NEW a, NEW b,
           At(c, b), Before(Plan(c), a, b)
    PROVE  a \notin Ahead(c)
<1>1. PICK i \in 1..Len(Plan(c)) : Position(c, i)
  BY Positions
<1>2. Len(Plan(c)) \in Nat
  BY PlanProper DEF ProperPlan
<1> QED
  BY <1>1, <1>2 DEF Position, At, Before

(* ... and what comes after it is ahead.                                   *)
LEMMA Coming ==
    ASSUME BaseOK, PlanOK, NEW c \in Callers, call[c].op # "none", NEW a, NEW b,
           At(c, a), Before(Plan(c), a, b), Has(Plan(c), b)
    PROVE  b \in Ahead(c)
<1>1. PICK i \in 1..Len(Plan(c)) : Position(c, i)
  BY Positions
<1>2. Len(Plan(c)) \in Nat
  BY PlanProper DEF ProperPlan
<1>3. PICK j \in 1..Len(Plan(c)) : Plan(c)[j] = b
  BY DEF Has
<1>4. i < j
  BY <1>1, <1>3 DEF Position, At, Before
<1>5. j \in i..Len(Plan(c))
  BY <1>2, <1>4
<1> QED
  BY <1>1, <1>3, <1>5 DEF Position

(* A call is at a step of its plan, and "return" is the last.              *)
LEMMA AtStep ==
    ASSUME BaseOK, PlanOK, NEW c \in Callers, NEW s, At(c, s)
    PROVE  /\ call[c].op # "none" /\ s \in Ahead(c) /\ Has(Plan(c), s) /\ s \in Steps
           /\ s = "return" => Ahead(c) = {"return"}
           /\ \A a \in Ahead(c) : Has(Plan(c), a)
<1>1. call[c].op # "none"
  BY DEF PlanOK, At
<1>2. PICK i \in 1..Len(Plan(c)) : Position(c, i)
  BY <1>1, Positions
<1>3. ProperPlan(Plan(c)) /\ Len(Plan(c)) \in Nat
  BY PlanProper DEF ProperPlan
<1>4. Plan(c)[i] = s
  BY <1>2 DEF Position, At
<1>5. s \in Ahead(c) /\ Has(Plan(c), s)
  BY <1>2, <1>3, <1>4 DEF Position, Has
<1>6. s \in Steps
  BY <1>3, <1>4, ElementOfSeq DEF ProperPlan
<1>7. s = "return" => Ahead(c) = {"return"}
  <2>1. SUFFICES ASSUME s = "return" PROVE Ahead(c) = {"return"}
    OBVIOUS
  <2>2. i = Len(Plan(c))
    BY <1>3, <1>4, <2>1 DEF ProperPlan
  <2>3. i..Len(Plan(c)) = {i}
    BY <1>3, <2>2
  <2> QED
    BY <1>2, <1>4, <2>1, <2>3 DEF Position
<1>8. \A a \in Ahead(c) : Has(Plan(c), a)
  BY <1>2, <1>3 DEF Position, Has
<1> QED
  BY <1>1, <1>5, <1>6, <1>7, <1>8

-----------------------------------------------------------------------------
(***************************************************************************)
(* One step forward                                                        *)
(***************************************************************************)

(* The step keeps the operation and the configuration of every call and    *)
(* takes the first step off the list of c.                                 *)
Moved(c) ==
    /\ provider' = provider
    /\ call' \in [Callers -> CallRec]
    /\ \A d \in Callers : /\ call'[d].op = call[d].op /\ call'[d].cfg = call[d].cfg
                          /\ d # c => call'[d] = call[d]
    /\ call'[c].todo = Tail(call[c].todo)

LEMMA Moves ==
    ASSUME BaseOK, NEW c \in Callers, call[c].todo # <<>>, provider' = provider,
           NEW used \in Ids, NEW id \in Ids,
           call' = [call EXCEPT ![c] = [call[c] EXCEPT !.todo = Tail(@), !.used = used, !.id = id]]
    PROVE  Moved(c) /\ call'[c].used = used /\ call'[c].id = id
<1>1. call \in [Callers -> CallRec] /\ call[c] \in CallRec
  BY DEF BaseOK
<1>2. Tail(call[c].todo) \in Seq(Steps)
  BY <1>1, HeadTailProperties DEF CallRec
<1> QED
  BY <1>1, <1>2 DEF Moved, CallRec

LEMMA Advance ==
    ASSUME BaseOK, PlanOK, NEW c \in Callers, NEW s, At(c, s), s # "return", Moved(c)
    PROVE  /\ PlanOK'
           /\ Ahead(c)' = Ahead(c) \ {s}
           /\ \A d \in Callers : d # c => Ahead(d)' = Ahead(d)
<1> DEFINE S == Plan(c)
<1>1. call[c].op # "none"
  BY AtStep
<1>2. PICK i \in 1..Len(S) : Position(c, i)
  BY <1>1, Positions
<1>3. /\ S \in Seq(Steps) /\ Len(S) \in Nat /\ S[Len(S)] = "return"
      /\ \A j, k \in 1..Len(S) : S[j] = S[k] => j = k
  BY PlanProper DEF ProperPlan
<1>4. S[i] = s /\ call[c].todo = SubSeq(S, i, Len(S)) /\ Ahead(c) = {S[j] : j \in i..Len(S)}
  BY <1>2 DEF Position, At
<1>5. S' = S /\ \A d \in Callers : Plan(d)' = Plan(d)
  BY DEF Plan, Moved
<1> HIDE DEF S
<1>6. i + 1 \in 1..Len(S)
  BY <1>3, <1>4
<1>7. call'[c].todo = SubSeq(S, i + 1, Len(S))
  BY <1>3, <1>4, Suffix DEF Moved
<1>8. PlanOK'
  <2> SUFFICES ASSUME NEW d \in Callers
               PROVE  IF call'[d].op = "none" THEN call'[d].todo = <<>>
                      ELSE \E j \in 1..Len(Plan(d)) :
                             call'[d].todo = SubSeq(Plan(d), j, Len(Plan(d)))
    BY <1>5 DEF PlanOK
  <2>1. CASE d = c
    BY <1>1, <1>6, <1>7, <2>1 DEF Moved, S
  <2>2. CASE d # c
    BY <2>2 DEF Moved, PlanOK
  <2> QED
    BY <2>1, <2>2
<1>9. Ahead(c)' = Ahead(c) \ {s}
  <2> DEFINE q == SubSeq(S, i + 1, Len(S))
  <2>1. /\ q \in Seq(Steps) /\ Len(q) = Len(S) - (i + 1) + 1
        /\ \A j \in 1..Len(q) : q[j] = S[i + 1 + j - 1]
    BY <1>3, <1>6, Suffix
  <2>2. DOMAIN q = 1..Len(q)
    BY <2>1, LenProperties
  <2>3. Ahead(c)' = {q[j] : j \in 1..Len(q)}
    BY <1>7, <2>2 DEF Ahead
  <2> HIDE DEF q
  <2>4. \A j \in 1..Len(q) : i + j \in i..Len(S) /\ i + j # i /\ q[j] = S[i + j]
    BY <1>3, <2>1
  <2>5. \A j \in i..Len(S) : j # i => j - i \in 1..Len(q) /\ q[j - i] = S[j]
    <3> SUFFICES ASSUME NEW j \in i..Len(S), j # i
                 PROVE  j - i \in 1..Len(q) /\ q[j - i] = S[j]
      OBVIOUS
    <3>1. j - i \in 1..Len(q) /\ i + 1 + (j - i) - 1 = j
      BY <1>3, <2>1
    <3> QED
      BY <2>1, <3>1
  <2>6. \A j \in i..Len(S) : S[j] = s <=> j = i
    BY <1>3, <1>4
  <2>7. Ahead(c)' \subseteq Ahead(c) \ {s}
    BY <1>4, <2>3, <2>4, <2>6
  <2>8. Ahead(c) \ {s} \subseteq Ahead(c)'
    BY <1>4, <2>3, <2>5, <2>6
  <2> QED
    BY <2>7, <2>8
<1>10. \A d \in Callers : d # c => Ahead(d)' = Ahead(d)
  BY DEF Ahead, Moved
<1> QED
  BY <1>8, <1>9, <1>10

(* What is known of the plan of a call.                                    *)
LEMMA Plans ==
    ASSUME BaseOK, NEW c \in Callers, call[c].op # "none"
    PROVE  /\ call[c].op \in {"SetConfig", "Encrypt"}
           /\ call[c].op = "SetConfig" =>
                /\ ConfigPlan(provider, Plan(c))
                /\ provider = "transit" => TransitPlan(Plan(c))
           /\ call[c].op = "Encrypt" => EncryptPlan(provider, Plan(c))
<1>1. call[c] \in CallRec /\ provider \in Providers
  BY DEF BaseOK
<1>2. call[c].op \in {"SetConfig", "Encrypt"}
  BY <1>1 DEF CallRec
<1> QED
  BY <1>1, <1>2, ConfigPlans, TransitPlans, EncryptPlans DEF Plan

(* Encrypt only does some of the steps.                                    *)
EncryptSteps == {"client", "request", "version", "store", "storeName", "storeIfNamed", "return"}

LEMMA AtConfig ==
    ASSUME IInv, NEW c \in Callers, NEW s, At(c, s), s \notin EncryptSteps
    PROVE  /\ call[c].op = "SetConfig" /\ wrapper.state \in {"new", "failed"}
           /\ \A d \in Callers : d # c => call[d].op = "none"
           /\ call[c].cfg.keyNotRequired = wrapper.keyNotRequired
<1>1. BaseOK /\ PlanOK /\ Alone /\ ConfigOK
  BY DEF IInv
<1>2. call[c].op # "none" /\ Has(Plan(c), s)
  BY <1>1, AtStep
<1>3. call[c].op # "Encrypt"
  BY <1>1, <1>2, Plans DEF EncryptPlan, EncryptSteps, Has
<1>4. call[c].op = "SetConfig"
  BY <1>1, <1>2, <1>3, Plans
<1> QED
  BY <1>1, <1>4 DEF Alone, ConfigOK

(* A call that is not about to return never finds a client that SetConfig  *)
(* kept last, unless the wrapper is configured.                            *)
LEMMA NoClientYet ==
    ASSUME IInv, NEW c \in Callers, NEW s, At(c, s), s # "return",
           provider \in {"aws", "azure", "tencent"}, wrapper.state # "ok"
    PROVE  ~wrapper.client
<1>1. BaseOK /\ PlanOK /\ Alone /\ ClientOK
  BY DEF IInv
<1> SUFFICES ASSUME wrapper.client PROVE FALSE
  OBVIOUS
<1>2. PICK d \in Callers : call[d].op = "SetConfig" /\ Ahead(d) = {"return"}
  BY <1>1 DEF ClientOK
<1>3. call[c].op # "none" /\ s \in Ahead(c)
  BY <1>1, AtStep
<1>4. d = c
  BY <1>1, <1>2, <1>3 DEF Alone
<1> QED
  BY <1>2, <1>3, <1>4

LEMMA BlobsKept ==
    ASSUME provider' = provider
    PROVE  /\ \A b : BlobOK(b) => BlobOK(b)'
           /\ BlobsOK /\ blobs' = blobs => BlobsOK'
<1>1. ASSUME NEW id, NEW k, NEW v PROVE Names(id, k, v)' <=> Names(id, k, v)
  BY DEF Names
<1>2. ASSUME NEW b, NEW c, NEW k, NEW v, NEW id, NEW alg
      PROVE  MadeOf(b, c, k, v, id, alg)' <=> MadeOf(b, c, k, v, id, alg)
  BY DEF MadeOf
<1>3. ASSUME NEW b, BlobOK(b) PROVE BlobOK(b)'
  BY <1>1, <1>2, <1>3 DEF BlobOK
<1> QED
  BY <1>3 DEF BlobsOK

(* A step forward keeps the invariant, given what it must make true of the *)
(* key, of the version that was used and of the known key.                 *)
LEMMA Progress ==
    ASSUME IInv, NEW c \in Callers, NEW s, At(c, s), s # "return", Moved(c),
           wrapper' \in WrapperRec, watchers' \in 0..1,
           latest' = latest, blobs' = blobs, wrapper'.state = wrapper.state,
           wrapper'.keyNotRequired = wrapper.keyNotRequired,
           s = "settings" => call[c].cfg.settings,
           HasKey \/ s \in {"key", "parseKey"} => HasKey',
           IdOK', KnownOK',
           wrapper'.client => wrapper.client \/ s \in {"keep", "build", "rebuild"},
           watchers' # watchers => s = "watch"
    PROVE  IInv'
<1>1. BaseOK /\ PlanOK /\ Alone /\ ConfigOK /\ KeyOK /\ BlobsOK /\ ClientOK /\ WatchOK
  BY DEF IInv
<1>2. /\ PlanOK'
      /\ Ahead(c)' = Ahead(c) \ {s}
      /\ \A d \in Callers : d # c => Ahead(d)' = Ahead(d)
  BY <1>1, Advance
<1>3. /\ provider' = provider /\ call' \in [Callers -> CallRec]
      /\ \A d \in Callers : call'[d].op = call[d].op /\ call'[d].cfg = call[d].cfg
  BY DEF Moved
<1>4. BaseOK'
  BY <1>1, <1>3 DEF BaseOK
<1>5. Alone'
  BY <1>1, <1>3 DEF Alone
<1>6. ConfigOK'
  <2> SUFFICES ASSUME NEW d \in Callers, call[d].op = "SetConfig"
               PROVE  /\ call[d].cfg \in Configs[provider]
                      /\ call[d].cfg.keyNotRequired = wrapper.keyNotRequired
                      /\ provider = "transit" /\ "settings" \notin Ahead(d)' => call[d].cfg.settings
    BY <1>3 DEF ConfigOK, Configs
  <2>1. CASE d = c
    BY <1>1, <1>2, <2>1 DEF ConfigOK
  <2>2. CASE d # c
    BY <1>1, <1>2, <2>2 DEF ConfigOK
  <2> QED
    BY <2>1, <2>2
<1>7. KeyOK'
  <2>1. wrapper'.state = "ok" => HasKey'
    BY <1>1 DEF KeyOK
  <2>2. ASSUME NEW d \in Callers, call[d].op = "SetConfig",
               "key" \notin Ahead(d)', "parseKey" \notin Ahead(d)'
        PROVE  HasKey'
    <3>1. CASE d = c
      BY <1>1, <1>2, <2>2, <3>1 DEF KeyOK
    <3>2. CASE d # c
      BY <1>1, <1>2, <2>2, <3>2 DEF KeyOK
    <3> QED
      BY <3>1, <3>2
  <2> QED
    BY <1>3, <2>1, <2>2 DEF KeyOK
<1>8. BlobsOK'
  BY <1>1, <1>3, BlobsKept
<1>9. ClientOK'
  <2> SUFFICES ASSUME provider \in {"aws", "azure", "tencent"}, wrapper'.client,
                      wrapper.state # "ok"
               PROVE  call[c].op = "SetConfig" /\ Ahead(c)' = {"return"}
    BY <1>3 DEF ClientOK
  <2>1. s \in {"keep", "build", "rebuild"}
    BY NoClientYet
  <2>2. call[c].op = "SetConfig" /\ Has(Plan(c), s) /\ call[c].op # "none"
    BY <1>1, <2>1, AtConfig, AtStep DEF EncryptSteps
  <2>3. ConfigPlan(provider, Plan(c)) /\ s = "keep"
    BY <1>1, <2>1, <2>2, Plans DEF ConfigPlan
  <2>4. PICK i \in 1..Len(Plan(c)) : Position(c, i)
    BY <1>1, <2>2, Positions
  <2>5. /\ Plan(c)[i] = s /\ Ahead(c) = {Plan(c)[j] : j \in i..Len(Plan(c))}
        /\ Len(Plan(c)) \in Nat /\ Plan(c)[Len(Plan(c))] = "return"
        /\ i = Len(Plan(c)) - 1
    BY <2>3, <2>4 DEF Position, At, ConfigPlan, ProperPlan
  <2>6. i..Len(Plan(c)) = {i, Len(Plan(c))}
    BY <2>5
  <2>7. Ahead(c) = {s, "return"}
    BY <2>5, <2>6
  <2> QED
    BY <1>2, <2>2, <2>7
<1>10. WatchOK'
  <2> SUFFICES ASSUME watchers' # 0
               PROVE  /\ provider = "transit"
                      /\ \/ wrapper.state = "ok"
                         \/ \E d \in Callers : call[d].op = "SetConfig" /\ "watch" \notin Ahead(d)'
    BY <1>3 DEF WatchOK
  <2>1. CASE watchers' = watchers
    <3>1. \A d \in Callers : Ahead(d)' \subseteq Ahead(d)
      BY <1>2
    <3> QED
      BY <1>1, <2>1, <3>1 DEF WatchOK
  <2>2. CASE s = "watch"
    <3>1. call[c].op = "SetConfig" /\ Has(Plan(c), s) /\ call[c].op # "none"
      BY <1>1, <2>2, AtConfig, AtStep DEF EncryptSteps
    <3>2. provider = "transit"
      BY <1>1, <2>2, <3>1, Plans DEF ConfigPlan
    <3> QED
      BY <1>2, <2>2, <3>1, <3>2
  <2> QED
    BY <2>1, <2>2
<1> QED
  BY <1>2, <1>4, <1>5, <1>6, <1>7, <1>8, <1>9, <1>10 DEF IInv

(* Steps that neither the key nor a version depends on.                    *)
LEMMA Unrelated ==
    ASSUME IInv, NEW c \in Callers, NEW s, At(c, s), s # "return", Moved(c),
           latest' = latest,
           wrapper'.state = wrapper.state, wrapper'.keyId = wrapper.keyId,
           wrapper'.keyNotRequired = wrapper.keyNotRequired
    PROVE  /\ s # "request" /\ call'[c].used = call[c].used /\ call'[c].id = call[c].id => IdOK'
           /\ /\ wrapper'.currentKeyId = wrapper.currentKeyId
              /\ s \notin Finding \/ wrapper.keyNotRequired
              => KnownOK'
           /\ HasKey => HasKey'
<1>1. BaseOK /\ PlanOK /\ IdOK /\ KnownOK
  BY DEF IInv
<1>2. /\ Ahead(c)' = Ahead(c) \ {s}
      /\ \A d \in Callers : d # c => Ahead(d)' = Ahead(d)
  BY <1>1, Advance
<1>3. /\ provider' = provider
      /\ \A d \in Callers : /\ call'[d].op = call[d].op
                            /\ d # c => call'[d] = call[d]
  BY DEF Moved
<1>4. ASSUME s # "request", call'[c].used = call[c].used, call'[c].id = call[c].id
      PROVE  IdOK'
  <2> SUFFICES ASSUME NEW d \in Callers, Requests(d), "request" \notin Ahead(d)'
               PROVE  /\ wrapper.keyId \in KeyNames
                      /\ call[d].used[1] = wrapper.keyId
                      /\ call[d].used[2] \in 1..latest[wrapper.keyId]
                      /\ Names(call[d].id, call[d].used[1], call[d].used[2])
    BY <1>3, <1>4 DEF IdOK, Requests, Names
  <2>1. "request" \notin Ahead(d)
    BY <1>2, <1>4
  <2> QED
    BY <1>1, <2>1 DEF IdOK
<1>5. ASSUME wrapper'.currentKeyId = wrapper.currentKeyId,
             s \notin Finding \/ wrapper.keyNotRequired
      PROVE  KnownOK'
  <2>1. Known' = Known
    BY <1>3, <1>5 DEF Known
  <2>2. CASE wrapper.keyNotRequired
    BY <2>2 DEF KnownOK
  <2>3. CASE ~wrapper.keyNotRequired
    <3>1. \A d \in Callers : Ahead(d)' \cap Finding = Ahead(d) \cap Finding
      BY <1>2, <1>5, <2>3
    <3> QED
      BY <1>1, <1>3, <2>1, <3>1 DEF KnownOK
  <2> QED
    BY <2>2, <2>3
<1> QED
  BY <1>4, <1>5 DEF HasKey

LEMMA Proceeds ==
    ASSUME BaseOK, NEW c \in Callers, NEW s, At(c, s), provider' = provider, call' = Done(c)
    PROVE  Moved(c) /\ call'[c].used = call[c].used /\ call'[c].id = call[c].id
<1>1. call \in [Callers -> CallRec] /\ call[c] \in CallRec /\ call[c].todo # <<>>
  BY DEF BaseOK, At
<1>2. Tail(call[c].todo) \in Seq(Steps)
  BY <1>1, HeadTailProperties DEF CallRec
<1> QED
  BY <1>1, <1>2 DEF Moved, CallRec, Done

(* A step that has to do with neither the key nor the client.              *)
LEMMA Quiet ==
    ASSUME IInv, NEW c \in Callers, NEW s, At(c, s), NEW w \in WrapperRec, Proceed(c, w),
           w.state = wrapper.state, w.keyId = wrapper.keyId,
           w.keyNotRequired = wrapper.keyNotRequired, w.currentKeyId = wrapper.currentKeyId,
           w.client => wrapper.client \/ s \in {"keep", "build", "rebuild"},
           s \notin {"return", "request", "key", "parseKey"},
           s \notin Finding \/ wrapper.keyNotRequired,
           s = "settings" => call[c].cfg.settings
    PROVE  IInv'
<1>1. BaseOK
  BY DEF IInv
<1>2. /\ call' = Done(c) /\ wrapper' = w
      /\ provider' = provider /\ latest' = latest /\ blobs' = blobs /\ watchers' = watchers
  BY DEF Proceed
<1>3. Moved(c) /\ call'[c].used = call[c].used /\ call'[c].id = call[c].id
  BY <1>1, <1>2, Proceeds
<1>4. IdOK' /\ KnownOK' /\ (HasKey => HasKey')
  BY <1>2, <1>3, Unrelated
<1>5. watchers' \in 0..1
  BY <1>1, <1>2 DEF BaseOK
<1> QED
  BY <1>2, <1>3, <1>4, <1>5, Progress

LEMMA IdleOK == /\ Idle \in CallRec /\ Idle.op = "none" /\ Idle.todo = <<>>
                /\ Idle.cfg = NoConfig /\ NoConfig \in ConfigRec
BY BoundsAssumption, EmptySeq DEF Idle, CallRec, NoConfig, ConfigRec, NoId, Ids

(* A call that ends, ...                                                   *)
LEMMA Ends ==
    ASSUME BaseOK, PlanOK, NEW c \in Callers, provider' = provider,
           call' = [call EXCEPT ![c] = Idle]
    PROVE  /\ call' \in [Callers -> CallRec] /\ call'[c].op = "none"
           /\ \A d \in Callers : d # c => call'[d] = call[d] /\ Ahead(d)' = Ahead(d)
           /\ PlanOK'
<1>1. Idle \in CallRec
  BY IdleOK
<1>2. /\ call' \in [Callers -> CallRec] /\ call'[c] = Idle
      /\ \A d \in Callers : d # c => call'[d] = call[d]
  BY <1>1 DEF BaseOK
<1>3. Idle.op = "none" /\ Idle.todo = <<>>
  BY IdleOK
<1>4. \A d \in Callers : d # c => Ahead(d)' = Ahead(d) /\ Plan(d)' = Plan(d)
  BY <1>2 DEF Ahead, Plan
<1>5. PlanOK'
  <2> SUFFICES ASSUME NEW d \in Callers
               PROVE  (IF call[d].op = "none" THEN call[d].todo = <<>>
                       ELSE \E i \in 1..Len(Plan(d)) :
                             call[d].todo = SubSeq(Plan(d), i, Len(Plan(d))))'
    BY DEF PlanOK
  <2>1. CASE d = c
    BY <1>2, <1>3, <2>1
  <2>2. CASE d # c
    BY <1>2, <1>4, <2>2 DEF PlanOK
  <2> QED
    BY <2>1, <2>2
<1> QED
  BY <1>2, <1>3, <1>4, <1>5

(* ... in particular an Encrypt.                                           *)
LEMMA EncryptEnds ==
    ASSUME IInv, NEW c \in Callers, call[c].op = "Encrypt", call' = [call EXCEPT ![c] = Idle],
           provider' = provider, latest' = latest, wrapper' = wrapper, watchers' = watchers
    PROVE  /\ BaseOK' /\ PlanOK' /\ Alone' /\ ConfigOK' /\ KeyOK'
           /\ IdOK' /\ KnownOK' /\ ClientOK' /\ WatchOK'
<1>1. /\ BaseOK /\ PlanOK /\ Alone /\ ConfigOK /\ KeyOK
      /\ IdOK /\ KnownOK /\ ClientOK /\ WatchOK
  BY DEF IInv
<1>2. /\ call' \in [Callers -> CallRec] /\ call'[c].op = "none"
      /\ \A d \in Callers : d # c => call'[d] = call[d] /\ Ahead(d)' = Ahead(d)
      /\ PlanOK'
  BY <1>1, Ends
<1>3. BaseOK'
  BY <1>1, <1>2 DEF BaseOK
<1>4. wrapper.state = "ok" /\ \A d \in Callers : call[d].op # "SetConfig" /\ call'[d].op # "SetConfig"
  BY <1>1, <1>2 DEF Alone
<1>5. Alone' /\ ConfigOK' /\ KeyOK' /\ ClientOK' /\ WatchOK'
  BY <1>1, <1>4 DEF Alone, ConfigOK, KeyOK, HasKey, ClientOK, WatchOK
<1>6. KnownOK'
  BY <1>1, <1>4 DEF KnownOK, Known
<1>7. IdOK'
  <2> SUFFICES ASSUME NEW d \in Callers, Requests(d)', "request" \notin Ahead(d)'
               PROVE  (/\ wrapper.keyId \in KeyNames
                       /\ call[d].used[1] = wrapper.keyId
                       /\ call[d].used[2] \in 1..latest[wrapper.keyId]
                       /\ Names(call[d].id, call[d].used[1], call[d].used[2]))'
    BY DEF IdOK
  <2>1. d # c
    BY <1>2 DEF Requests
  <2>2. Requests(d) /\ "request" \notin Ahead(d)
    BY <1>2, <2>1 DEF Requests
  <2> QED
    BY <1>1, <1>2, <2>1, <2>2 DEF IdOK, Names
<1> QED
  BY <1>2, <1>3, <1>5, <1>6, <1>7

(* An error ends the call.  The renewal that transit's SetConfig started   *)
(* can then only be left behind by a step that comes after it, and of      *)
(* those only the test encryption fails, which stops it.                   *)
LEMMA Failed ==
    ASSUME IInv, NEW c \in Callers, NEW s, At(c, s), s # "return",
           NEW w \in WrapperRec, Fail(c, w),
           w.state = wrapper.state, w.client => wrapper.client,
           s \in EncryptSteps => w = wrapper,
           provider = "transit" => s \notin {"keep", "store", "key"}
    PROVE  IInv'
<1>1. /\ BaseOK /\ PlanOK /\ Alone /\ BlobsOK /\ ClientOK /\ WatchOK
  BY DEF IInv
<1>2. /\ call' = [call EXCEPT ![c] = Idle] /\ wrapper' = Ended(w, c)
      /\ watchers' = IF call[c].op = "SetConfig" /\ At(c, "request") THEN 0 ELSE watchers
      /\ provider' = provider /\ latest' = latest /\ blobs' = blobs
  BY DEF Fail
<1>3. call[c].op # "none" /\ s \in Ahead(c) /\ Has(Plan(c), s)
  BY <1>1, AtStep
<1>4. call[c].op \in {"SetConfig", "Encrypt"}
  BY <1>1, <1>3, Plans
<1>5. BlobsOK'
  BY <1>1, <1>2, BlobsKept
<1>6. CASE call[c].op = "SetConfig"
  <2>1. /\ call' \in [Callers -> CallRec] /\ call'[c].op = "none"
        /\ \A d \in Callers : d # c => call'[d] = call[d]
        /\ PlanOK'
    BY <1>1, <1>2, Ends
  <2>2. wrapper' \in WrapperRec /\ watchers' \in 0..1
    BY <1>1, <1>2 DEF Ended, WrapperRec, BaseOK
  <2>3. BaseOK'
    BY <1>1, <1>2, <2>1, <2>2 DEF BaseOK
  <2>4. /\ wrapper.state # "ok" /\ wrapper'.state = "failed" /\ wrapper'.client = w.client
        /\ \A d \in Callers : call'[d].op = "none"
    BY <1>1, <1>2, <1>6, <2>1 DEF Alone, Ended, WrapperRec
  <2>5. Alone' /\ ConfigOK' /\ KeyOK' /\ IdOK' /\ KnownOK'
    BY <2>4 DEF Alone, ConfigOK, KeyOK, IdOK, KnownOK, Requests
  <2>6. ClientOK'
    BY <1>2, <2>4, NoClientYet DEF ClientOK
  <2>7. watchers' = 0
    <3>1. SUFFICES ASSUME watchers # 0, s # "request" PROVE FALSE
      BY <1>2, <1>6 DEF At
    <3>2. /\ provider = "transit"
          /\ \E d \in Callers : call[d].op = "SetConfig" /\ "watch" \notin Ahead(d)
      BY <1>1, <2>4, <3>1 DEF WatchOK
    <3>3. "watch" \notin Ahead(c)
      BY <1>1, <1>6, <3>2 DEF Alone
    <3>4. TransitPlan(Plan(c))
      BY <1>1, <1>3, <1>6, <3>2, Plans
    <3>5. s \in {"settings", "newClient", "watch"}
      BY <1>3, <3>1, <3>2, <3>4 DEF TransitPlan, Has
    <3>6. s # "watch"
      BY <1>3, <3>3
    <3>7. Before(Plan(c), s, "watch") /\ Has(Plan(c), "watch")
      BY <3>4, <3>5, <3>6 DEF TransitPlan
    <3> QED
      BY <1>1, <1>3, <3>3, <3>7, Coming
  <2>8. WatchOK'
    BY <2>7 DEF WatchOK
  <2> QED
    BY <1>5, <2>1, <2>3, <2>5, <2>6, <2>8 DEF IInv
<1>7. CASE call[c].op = "Encrypt"
  <2>1. s \in EncryptSteps
    BY <1>7, AtConfig
  <2>2. wrapper' = wrapper /\ watchers' = watchers
    BY <1>2, <1>7, <2>1 DEF Ended
  <2> QED
    BY <1>2, <1>5, <1>7, <2>2, EncryptEnds DEF IInv
<1> QED
  BY <1>4, <1>6, <1>7

-----------------------------------------------------------------------------
(***************************************************************************)
(* The steps of the calls                                                  *)
(***************************************************************************)

(* SetConfig is told the key before it asks for anything.                  *)
LEMMA KeyFound ==
    ASSUME IInv, NEW c \in Callers, NEW s \in {"key", "parseKey"}, At(c, s),
           NEW w \in WrapperRec, Proceed(c, w), w.state = wrapper.state,
           w.keyNotRequired = wrapper.keyNotRequired, w.client = wrapper.client,
           w.keyId # None \/ wrapper.keyNotRequired
    PROVE  IInv'
<1>1. BaseOK /\ PlanOK
  BY DEF IInv
<1>2. /\ call' = Done(c) /\ wrapper' = w
      /\ provider' = provider /\ latest' = latest /\ blobs' = blobs /\ watchers' = watchers
  BY DEF Proceed
<1>3. Moved(c)
  BY <1>1, <1>2, Proceeds
<1>4. /\ call[c].op = "SetConfig" /\ call[c].op # "none" /\ wrapper.state \in {"new", "failed"}
      /\ \A d \in Callers : d # c => call[d].op = "none"
  BY AtConfig DEF EncryptSteps
<1>5. ConfigPlan(provider, Plan(c))
  BY <1>1, <1>4, Plans
<1>6. /\ Ahead(c)' = Ahead(c) \ {s}
      /\ \A d \in Callers : d # c => Ahead(d)' = Ahead(d)
  BY <1>1, <1>3, Advance
<1>7. \A d \in Callers : call'[d].op = call[d].op
  BY <1>3 DEF Moved
<1>8. IdOK'
  <2> SUFFICES ASSUME NEW d \in Callers, Requests(d)', "request" \notin Ahead(d)'
               PROVE  FALSE
    BY DEF IdOK
  <2>1. d = c /\ provider \in {"oci", "transit"}
    BY <1>2, <1>4, <1>7 DEF Requests
  <2>2. Has(Plan(c), "request") /\ Before(Plan(c), s, "request")
    BY <1>5, <2>1 DEF ConfigPlan
  <2>3. "request" \in Ahead(c)
    BY <1>1, <1>4, <2>2, Coming
  <2> QED
    BY <1>6, <2>1, <2>3
<1>9. KnownOK'
  <2> SUFFICES ASSUME provider \notin {"gcp", "tcloud", "kmip"}, NEW d \in Callers,
                      call'[d].op = "SetConfig", Ahead(d)' \cap Finding = {}
               PROVE  FALSE
    BY <1>2, <1>4 DEF KnownOK
  <2>1. d = c
    BY <1>4, <1>7
  <2>2. PICK f \in {"describe", "store", "storeName"} :
          Has(Plan(c), f) /\ Before(Plan(c), "key", f) /\ Before(Plan(c), "parseKey", f)
    BY <1>5 DEF ConfigPlan
  <2>3. f \in Ahead(c)
    BY <1>1, <1>4, <2>2, Coming
  <2> QED
    BY <1>6, <2>1, <2>2, <2>3 DEF Finding
<1>10. HasKey'
  BY <1>2 DEF HasKey
<1>11. watchers' \in 0..1
  BY <1>1, <1>2 DEF BaseOK
<1> QED
  BY <1>2, <1>3, <1>8, <1>9, <1>10, <1>11, Progress

(* The configuration of a call, and transit's key.                         *)
LEMMA AtKey ==
    ASSUME IInv, NEW c \in Callers
    PROVE  /\ call[c].cfg.key \in KeyNames \cup {None} /\ call[c].cfg.alg \in Algs \cup {None}
           /\ wrapper \in WrapperRec
           /\ At(c, "key") /\ provider = "transit" => call[c].cfg.key # None
<1>1. BaseOK /\ PlanOK /\ ConfigOK
  BY DEF IInv
<1>2. call[c] \in CallRec /\ wrapper \in WrapperRec /\ provider \in Providers
  BY <1>1 DEF BaseOK
<1>3. call[c].cfg.key \in KeyNames \cup {None} /\ call[c].cfg.alg \in Algs \cup {None}
  BY <1>2 DEF CallRec, ConfigRec
<1>4. ASSUME At(c, "key"), provider = "transit" PROVE call[c].cfg.key # None
  <2>1. call[c].op = "SetConfig" /\ call[c].op # "none"
    BY <1>4, AtConfig DEF EncryptSteps
  <2>2. TransitPlan(Plan(c))
    BY <1>1, <1>4, <2>1, Plans
  <2>3. "settings" \notin Ahead(c)
    BY <1>1, <1>4, <2>1, <2>2, Passed DEF TransitPlan
  <2>4. call[c].cfg.settings /\ call[c].cfg \in Configs[provider]
    BY <1>1, <1>4, <2>1, <2>3 DEF ConfigOK
  <2> QED
    BY <1>2, <1>4, <2>4, ConfigsOK
<1> QED
  BY <1>2, <1>3, <1>4

LEMMA KeySteps ==
    ASSUME IInv, NEW c \in Callers, Key(c) \/ ParseKey(c)
    PROVE  IInv'
<1> DEFINE cfg == call[c].cfg
           keyed == [wrapper EXCEPT !.keyId = cfg.key]
           unkeyed == [wrapper EXCEPT !.keyId = None]
<1>1. wrapper \in WrapperRec /\ cfg.key \in KeyNames \cup {None}
  BY AtKey
<1>2. cfg.key # None => keyed \in WrapperRec /\ keyed.state = wrapper.state /\ keyed.client = wrapper.client
                        /\ keyed.keyNotRequired = wrapper.keyNotRequired /\ keyed.keyId # None
  BY <1>1 DEF WrapperRec
<1>3. unkeyed \in WrapperRec /\ unkeyed.state = wrapper.state /\ unkeyed.client = wrapper.client
  BY <1>1 DEF WrapperRec
<1> HIDE DEF cfg, keyed, unkeyed
<1>4. CASE Key(c)
  <2>1. At(c, "key")
    BY <1>4 DEF Key
  <2>2. cfg.keyNotRequired = wrapper.keyNotRequired
    BY <2>1, AtConfig DEF EncryptSteps, cfg
  <2>3. CASE cfg.key # None /\ Proceed(c, keyed)
    BY <1>2, <2>1, <2>3, KeyFound
  <2>4. CASE cfg.key = None /\ cfg.keyNotRequired /\ Proceed(c, wrapper)
    BY <1>1, <2>1, <2>2, <2>4, KeyFound
  <2>5. CASE cfg.key = None /\ ~cfg.keyNotRequired /\ Fail(c, wrapper)
    <3>1. provider # "transit"
      BY <2>1, <2>5, AtKey DEF cfg
    <3> QED
      BY <1>1, <2>1, <2>5, <3>1, Failed
  <2> QED
    BY <1>4, <2>3, <2>4, <2>5 DEF Key, cfg, keyed
<1>5. CASE ParseKey(c)
  <2>1. At(c, "parseKey")
    BY <1>5 DEF ParseKey
  <2>2. CASE cfg.key # None /\ Proceed(c, keyed)
    BY <1>2, <2>1, <2>2, KeyFound
  <2>3. CASE Fail(c, unkeyed)
    BY <1>3, <2>1, <2>3, Failed DEF EncryptSteps
  <2>4. CASE Fail(c, wrapper)
    BY <1>1, <2>1, <2>4, Failed
  <2> QED
    BY <1>5, <2>2, <2>3, <2>4 DEF ParseKey, cfg, keyed, unkeyed
<1> QED
  BY <1>4, <1>5

(* The steps that only look at the configuration or make the client.       *)
LEMMA QuietSteps ==
    ASSUME IInv, NEW c \in Callers,
           \/ Settings(c) \/ NewClient(c) \/ Build(c) \/ Rebuild(c) \/ Verify(c)
           \/ Keep(c) \/ Algorithm(c) \/ VerifyKey(c) \/ Client(c)
    PROVE  IInv'
<1> DEFINE kept == [wrapper EXCEPT !.client = TRUE]
           lost == [wrapper EXCEPT !.client = FALSE]
           alg == [wrapper EXCEPT !.alg = call[c].cfg.alg]
           agreed(v) == [wrapper EXCEPT !.kmip14 = v]
           Same(w) == /\ w \in WrapperRec /\ w.state = wrapper.state /\ w.keyId = wrapper.keyId
                      /\ w.keyNotRequired = wrapper.keyNotRequired
                      /\ w.currentKeyId = wrapper.currentKeyId
<1>1. wrapper \in WrapperRec /\ call[c].cfg.alg \in Algs \cup {None}
  BY AtKey
<1>2. Same(wrapper) /\ Same(kept) /\ Same(lost) /\ Same(alg) /\ lost.client = FALSE
      /\ alg.client = wrapper.client
  BY <1>1 DEF WrapperRec
<1>3. ASSUME NEW v \in BOOLEAN PROVE Same(agreed(v)) /\ agreed(v).client = wrapper.client
  BY <1>1, <1>3 DEF WrapperRec
<1> HIDE DEF kept, lost, alg, agreed
<1>4. CASE Settings(c)
  BY <1>2, <1>4, Quiet, Failed DEF Settings, EncryptSteps, Finding
<1>5. CASE NewClient(c)
  <2>1. At(c, "newClient")
    BY <1>5 DEF NewClient
  <2>2. CASE Fail(c, wrapper)
    BY <1>2, <2>1, <2>2, Failed
  <2>3. ASSUME NEW v \in BOOLEAN, Proceed(c, agreed(v)) PROVE IInv'
    BY <1>3, <2>1, <2>3, Quiet DEF Finding
  <2> QED
    BY <1>5, <2>2, <2>3 DEF NewClient, agreed
<1>6. CASE Build(c)
  <2>1. At(c, "build")
    BY <1>6 DEF Build
  <2>2. CASE Proceed(c, wrapper)
    BY <1>2, <2>1, <2>2, Quiet DEF Finding
  <2>3. CASE Proceed(c, kept)
    BY <1>2, <2>1, <2>3, Quiet DEF Finding
  <2>4. CASE Fail(c, wrapper)
    BY <1>2, <2>1, <2>4, Failed
  <2> QED
    BY <1>6, <2>2, <2>3, <2>4 DEF Build, kept
<1>7. CASE Rebuild(c)
  <2>1. At(c, "rebuild")
    BY <1>7 DEF Rebuild
  <2>2. CASE Proceed(c, kept)
    BY <1>2, <2>1, <2>2, Quiet DEF Finding
  <2>3. CASE Fail(c, wrapper)
    BY <1>2, <2>1, <2>3, Failed
  <2>4. CASE Fail(c, lost)
    BY <1>2, <2>1, <2>4, Failed DEF EncryptSteps
  <2> QED
    BY <1>7, <2>2, <2>3, <2>4 DEF Rebuild, kept, lost
<1>8. CASE Verify(c)
  BY <1>2, <1>8, Quiet, Failed DEF Verify, EncryptSteps, Finding
<1>9. CASE Keep(c)
  <2>1. At(c, "keep") /\ Proceed(c, kept)
    BY <1>9 DEF Keep, kept
  <2> QED
    BY <1>2, <2>1, Quiet DEF Finding
<1>10. CASE Algorithm(c)
  <2>1. At(c, "algorithm")
    BY <1>10 DEF Algorithm
  <2>2. CASE Proceed(c, alg)
    BY <1>2, <2>1, <2>2, Quiet DEF Finding
  <2>3. CASE Fail(c, alg)
    BY <1>2, <2>1, <2>3, Failed DEF EncryptSteps
  <2> QED
    BY <1>10, <2>2, <2>3 DEF Algorithm, alg
<1>11. CASE VerifyKey(c)
  BY <1>2, <1>11, Quiet, Failed DEF VerifyKey, EncryptSteps, Finding
<1>12. CASE Client(c)
  BY <1>2, <1>12, Quiet, Failed DEF Client, Finding
<1> QED
  BY <1>4, <1>5, <1>6, <1>7, <1>8, <1>9, <1>10, <1>11, <1>12

(* A client that was kept makes GCP skip the rest; for the others there is *)
(* none before SetConfig succeeds.                                         *)
LEMMA UnlessClientStep ==
    ASSUME IInv, NEW c \in Callers, UnlessClient(c)
    PROVE  IInv'
<1>1. /\ BaseOK /\ PlanOK /\ Alone /\ ConfigOK /\ KeyOK
      /\ IdOK /\ BlobsOK /\ KnownOK /\ ClientOK /\ WatchOK
  BY DEF IInv
<1>2. /\ At(c, "unlessClient")
      /\ provider' = provider /\ latest' = latest /\ wrapper' = wrapper /\ blobs' = blobs
      /\ watchers' = watchers
      /\ call' = IF wrapper.client THEN [call EXCEPT ![c].todo = <<"return">>] ELSE Done(c)
  BY DEF UnlessClient
<1>3. wrapper \in WrapperRec
  BY <1>1 DEF BaseOK
<1>4. CASE ~wrapper.client
  <2>1. Proceed(c, wrapper)
    BY <1>2, <1>4 DEF Proceed
  <2> QED
    BY <1>2, <1>3, <2>1, Quiet DEF Finding
<1>5. CASE wrapper.client
  <2>1. /\ call[c].op = "SetConfig" /\ call[c].op # "none" /\ wrapper.state \in {"new", "failed"}
        /\ \A d \in Callers : d # c => call[d].op = "none"
    BY <1>2, AtConfig DEF EncryptSteps
  <2>2. ConfigPlan(provider, Plan(c)) /\ Has(Plan(c), "unlessClient")
    BY <1>1, <1>2, <2>1, Plans, AtStep
  <2>3. provider = "gcp"
    BY <1>2, <1>5, <2>1, <2>2, NoClientYet DEF ConfigPlan
  <2>4. call[c] \in CallRec /\ call \in [Callers -> CallRec] /\ <<"return">> \in Seq(Steps)
    BY <1>1 DEF BaseOK, Steps
  <2>5. /\ call' \in [Callers -> CallRec] /\ call'[c].todo = <<"return">>
        /\ call'[c].op = "SetConfig" /\ call'[c].cfg = call[c].cfg
        /\ \A d \in Callers : d # c => call'[d] = call[d]
    BY <1>2, <1>5, <2>1, <2>4 DEF CallRec
  <2>6. BaseOK'
    BY <1>1, <1>2, <2>5 DEF BaseOK
  <2>7. PlanOK'
    <3> DEFINE S == Plan(c)
    <3>1. S \in Seq(Steps) /\ Len(S) \in Nat \ {0} /\ S[Len(S)] = "return"
      BY <2>2 DEF ConfigPlan, ProperPlan
    <3>2. S' = S /\ \A d \in Callers : d # c => Plan(d)' = Plan(d)
      BY <1>2, <2>1, <2>5 DEF Plan
    <3> HIDE DEF S
    <3>3. SubSeq(S, Len(S), Len(S)) = <<"return">>
      <4> DEFINE q == SubSeq(S, Len(S), Len(S))
      <4>1. Len(S) \in 1..Len(S) /\ Len(S) - Len(S) + 1 = 1
        BY <3>1
      <4>2. q \in Seq(Steps) /\ Len(q) = 1 /\ Head(q) = "return"
        BY <3>1, <4>1, Suffix
      <4> HIDE DEF q
      <4>3. q = <<"return">>
        BY <4>2
      <4> QED
        BY <4>3 DEF q
    <3>4. Len(S) \in 1..Len(S)
      BY <3>1
    <3> SUFFICES ASSUME NEW d \in Callers
                 PROVE  (IF call[d].op = "none" THEN call[d].todo = <<>>
                         ELSE \E i \in 1..Len(Plan(d)) :
                               call[d].todo = SubSeq(Plan(d), i, Len(Plan(d))))'
      BY DEF PlanOK
    <3>5. CASE d = c
      BY <2>5, <3>2, <3>3, <3>4, <3>5 DEF S
    <3>6. CASE d # c
      BY <1>1, <2>1, <2>5, <3>6 DEF PlanOK
    <3> QED
      BY <3>5, <3>6
  <2>8. Alone' /\ ConfigOK'
    <3>1. \A d \in Callers : call'[d].op = call[d].op /\ call'[d].cfg = call[d].cfg
      BY <2>1, <2>5
    <3>2. Alone'
      BY <1>1, <1>2, <3>1 DEF Alone
    <3>3. ConfigOK'
      BY <1>1, <1>2, <2>3, <3>1 DEF ConfigOK
    <3> QED
      BY <3>2, <3>3
  <2>9. HasKey
    <3>1. "key" \notin Ahead(c) /\ "parseKey" \notin Ahead(c)
      BY <1>1, <1>2, <2>1, <2>2, Passed DEF ConfigPlan
    <3> QED
      BY <1>1, <2>1, <3>1 DEF KeyOK
  <2>10. KeyOK'
    BY <1>2, <2>9 DEF KeyOK, HasKey
  <2>11. BlobsOK'
    BY <1>1, <1>2, BlobsKept
  <2>12. IdOK' /\ KnownOK' /\ ClientOK'
    BY <1>2, <2>1, <2>3, <2>5 DEF IdOK, Requests, KnownOK, ClientOK
  <2>13. WatchOK'
    BY <1>1, <1>2, <2>3 DEF WatchOK
  <2> QED
    BY <2>6, <2>7, <2>8, <2>10, <2>11, <2>12, <2>13 DEF IInv
<1> QED
  BY <1>4, <1>5

(* The steps that tell the wrapper what its key is called.                 *)
LEMMA StoreNameStep ==
    ASSUME IInv, NEW c \in Callers, StoreName(c)
    PROVE  IInv'
<1> DEFINE id == <<wrapper.keyId, 0>>
<1>1. BaseOK /\ PlanOK /\ IdOK
  BY DEF IInv
<1>2. /\ At(c, "storeName") /\ call' = [Done(c) EXCEPT ![c].id = id]
      /\ wrapper' = [wrapper EXCEPT !.currentKeyId = id]
      /\ provider' = provider /\ latest' = latest /\ blobs' = blobs /\ watchers' = watchers
  BY DEF StoreName
<1>3. call[c] \in CallRec /\ call \in [Callers -> CallRec] /\ wrapper \in WrapperRec
  BY <1>1 DEF BaseOK
<1>4. id \in Ids
  BY <1>3, BoundsAssumption DEF WrapperRec, Ids
<1>5. call[c].todo # <<>> /\ call[c].used \in Ids
  BY <1>2, <1>3 DEF At, CallRec
<1>6. /\ id[1] = wrapper.keyId /\ id[2] = 0
  OBVIOUS
<1>7. call' = [call EXCEPT ![c] = [call[c] EXCEPT !.todo = Tail(@), !.used = call[c].used, !.id = id]]
  BY <1>2, <1>3 DEF Done, CallRec
<1> HIDE DEF id
<1>8. Moved(c) /\ call'[c].used = call[c].used /\ call'[c].id = id
  BY <1>1, <1>2, <1>4, <1>5, <1>7, Moves
<1>9. /\ wrapper' \in WrapperRec /\ wrapper'.state = wrapper.state /\ wrapper'.keyId = wrapper.keyId
      /\ wrapper'.keyNotRequired = wrapper.keyNotRequired /\ wrapper'.client = wrapper.client
      /\ wrapper'.currentKeyId = id
  BY <1>2, <1>3, <1>4 DEF WrapperRec
<1>10. call[c].op # "none" /\ Has(Plan(c), "storeName")
  BY <1>1, <1>2, AtStep
<1>11. provider \in {"aws", "ovh"} /\ (provider = "aws" => call[c].op = "SetConfig")
  BY <1>1, <1>10, Plans DEF ConfigPlan, EncryptPlan
<1>12. KnownOK'
  BY <1>2, <1>6, <1>9, <1>11 DEF KnownOK, Known
<1>13. IdOK'
  <2> SUFFICES ASSUME NEW d \in Callers, Requests(d)', "request" \notin Ahead(d)'
               PROVE  (/\ wrapper.keyId \in KeyNames
                       /\ call[d].used[1] = wrapper.keyId
                       /\ call[d].used[2] \in 1..latest[wrapper.keyId]
                       /\ Names(call[d].id, call[d].used[1], call[d].used[2]))'
    BY DEF IdOK
  <2>1. /\ Ahead(c)' = Ahead(c) \ {"storeName"}
        /\ \A e \in Callers : e # c => Ahead(e)' = Ahead(e)
    BY <1>1, <1>2, <1>8, Advance
  <2>2. Requests(d) /\ "request" \notin Ahead(d)
    BY <1>2, <1>8, <2>1 DEF Moved, Requests
  <2>3. /\ wrapper.keyId \in KeyNames /\ call[d].used[1] = wrapper.keyId
        /\ call[d].used[2] \in 1..latest[wrapper.keyId]
        /\ Names(call[d].id, call[d].used[1], call[d].used[2])
    BY <1>1, <2>2 DEF IdOK
  <2>4. CASE d # c
    BY <1>2, <1>8, <1>9, <2>3, <2>4 DEF Moved, Names
  <2>5. CASE d = c
    <3>1. provider = "ovh"
      BY <1>11, <2>2, <2>5 DEF Requests
    <3>2. id = IdOf(provider, wrapper.keyId, call[c].used[2])
      BY <3>1 DEF IdOf, id
    <3> QED
      BY <1>2, <1>8, <1>9, <2>3, <2>5, <3>2 DEF Names
  <2> QED
    BY <2>4, <2>5
<1>14. watchers' \in 0..1 /\ (HasKey => HasKey')
  BY <1>1, <1>2, <1>9 DEF BaseOK, HasKey
<1> QED
  BY <1>2, <1>8, <1>9, <1>12, <1>13, <1>14, Progress

LEMMA DescribeStep ==
    ASSUME IInv, NEW c \in Callers, Describe(c)
    PROVE  IInv'
<1> DEFINE w == [wrapper EXCEPT !.currentKeyId = <<wrapper.keyId, latest[wrapper.keyId]>>]
<1>1. BaseOK /\ PlanOK /\ KeyOK
  BY DEF IInv
<1>2. At(c, "describe") /\ wrapper \in WrapperRec
  BY <1>1 DEF Describe, BaseOK
<1>3. CASE wrapper.keyNotRequired /\ Proceed(c, wrapper)
  <2>1. wrapper.keyNotRequired = TRUE /\ Proceed(c, wrapper)
    BY <1>2, <1>3 DEF WrapperRec
  <2> QED
    BY <1>2, <2>1, Quiet
<1>4. CASE ~wrapper.keyNotRequired /\ Fail(c, wrapper)
  BY <1>2, <1>4, Failed
<1>5. CASE ~wrapper.keyNotRequired /\ Proceed(c, w)
  <2>1. call[c].op = "SetConfig" /\ call[c].op # "none"
    BY <1>2, AtConfig DEF EncryptSteps
  <2>2. ConfigPlan(provider, Plan(c)) /\ (provider = "transit" => TransitPlan(Plan(c)))
        /\ Has(Plan(c), "describe")
    BY <1>1, <1>2, <2>1, Plans, AtStep
  <2>3. "key" \notin Ahead(c) /\ "parseKey" \notin Ahead(c)
    BY <1>1, <1>2, <2>1, <2>2, Passed DEF ConfigPlan
  <2>4. HasKey
    BY <1>1, <2>1, <2>3 DEF KeyOK
  <2>5. wrapper.keyId \in KeyNames
    BY <1>2, <1>5, <2>4 DEF HasKey, WrapperRec
  <2>6. latest[wrapper.keyId] \in 0..MaxVersion
    BY <1>1, <2>5, BoundsAssumption DEF BaseOK
  <2>7. <<wrapper.keyId, latest[wrapper.keyId]>> \in Ids
    BY <2>5, <2>6 DEF Ids
  <2>8. /\ w \in WrapperRec /\ w.state = wrapper.state /\ w.keyId = wrapper.keyId
        /\ w.keyNotRequired = wrapper.keyNotRequired /\ w.client = wrapper.client
        /\ w.currentKeyId[1] = wrapper.keyId
    BY <1>2, <2>7 DEF WrapperRec
  <2> HIDE DEF w
  <2>9. /\ call' = Done(c) /\ wrapper' = w
        /\ provider' = provider /\ latest' = latest /\ blobs' = blobs /\ watchers' = watchers
    BY <1>5 DEF Proceed
  <2>10. Moved(c) /\ call'[c].used = call[c].used /\ call'[c].id = call[c].id
    BY <1>1, <1>2, <2>9, Proceeds
  <2>11. IdOK' /\ (HasKey => HasKey')
    BY <1>2, <2>8, <2>9, <2>10, Unrelated
  <2>12. provider # "transit"
    BY <2>2 DEF TransitPlan, Has
  <2>13. KnownOK'
    BY <2>8, <2>9, <2>12 DEF KnownOK, Known
  <2>14. watchers' \in 0..1
    BY <1>1, <2>9 DEF BaseOK
  <2> QED
    BY <1>2, <2>8, <2>9, <2>10, <2>11, <2>13, <2>14, Progress
<1> QED
  BY <1>3, <1>4, <1>5 DEF Describe

LEMMA StoreSteps ==
    ASSUME IInv, NEW c \in Callers, Store(c) \/ StoreIfNamed(c)
    PROVE  IInv'
<1> DEFINE w == [wrapper EXCEPT !.currentKeyId = call[c].id]
<1>1. BaseOK /\ PlanOK /\ Alone /\ IdOK
  BY DEF IInv
<1>2. wrapper \in WrapperRec /\ call[c] \in CallRec
  BY <1>1 DEF BaseOK
<1>3. PICK s \in {"store", "storeIfNamed"} :
        At(c, s) /\ (Proceed(c, w) \/ (call[c].id = NoId /\ s = "storeIfNamed" /\ Proceed(c, wrapper)))
                 /\ (s = "storeIfNamed" => Proceed(c, wrapper) \/ call[c].id # NoId)
  BY DEF Store, StoreIfNamed
<1>4. CASE s = "storeIfNamed" /\ Proceed(c, wrapper)
  BY <1>2, <1>3, <1>4, Quiet DEF Finding
<1>5. CASE Proceed(c, w) /\ (s = "storeIfNamed" => call[c].id # NoId)
  <2>1. call[c].op # "none" /\ Has(Plan(c), s)
    BY <1>1, <1>3, AtStep
  <2>2. /\ call[c].op = "SetConfig" => provider \in {"oci", "transit"} /\ s = "store"
        /\ provider \notin {"kmip", "ovh"}
        /\ provider = "aws" => s = "storeIfNamed"
        /\ Before(Plan(c), "request", s)
    BY <1>1, <2>1, Plans DEF ConfigPlan, EncryptPlan
  <2>3. Requests(c) /\ "request" \notin Ahead(c)
    BY <1>1, <1>3, <2>1, <2>2, Plans, Passed DEF Requests
  <2>4. /\ wrapper.keyId \in KeyNames /\ call[c].used[1] = wrapper.keyId
        /\ call[c].used[2] \in 1..latest[wrapper.keyId]
        /\ Names(call[c].id, call[c].used[1], call[c].used[2])
    BY <1>1, <2>3 DEF IdOK
  <2>5. latest[wrapper.keyId] \in Nat
    BY <1>1, <2>4, BoundsAssumption DEF BaseOK
  <2>6. IF provider = "transit" THEN call[c].id[2] > 0 ELSE call[c].id[1] = wrapper.keyId
    BY <1>5, <2>2, <2>4, <2>5 DEF Names, IdOf
  <2>7. /\ w \in WrapperRec /\ w.state = wrapper.state /\ w.keyId = wrapper.keyId
        /\ w.keyNotRequired = wrapper.keyNotRequired /\ w.client = wrapper.client
        /\ w.currentKeyId = call[c].id
    BY <1>2 DEF WrapperRec, CallRec
  <2> HIDE DEF w
  <2>8. /\ call' = Done(c) /\ wrapper' = w
        /\ provider' = provider /\ latest' = latest /\ blobs' = blobs /\ watchers' = watchers
    BY <1>5 DEF Proceed
  <2>9. Moved(c) /\ call'[c].used = call[c].used /\ call'[c].id = call[c].id
    BY <1>1, <1>3, <2>8, Proceeds
  <2>10. IdOK' /\ (HasKey => HasKey')
    BY <1>3, <2>7, <2>8, <2>9, Unrelated
  <2>11. KnownOK'
    BY <2>6, <2>7, <2>8 DEF KnownOK, Known
  <2>12. watchers' \in 0..1
    BY <1>1, <2>8 DEF BaseOK
  <2> QED
    BY <1>3, <2>7, <2>8, <2>9, <2>10, <2>11, <2>12, Progress
<1> QED
  BY <1>3, <1>4, <1>5

LEMMA WatchStep ==
    ASSUME IInv, NEW c \in Callers, Watch(c)
    PROVE  IInv'
<1>1. BaseOK /\ PlanOK /\ WatchOK
  BY DEF IInv
<1>2. At(c, "watch") /\ wrapper \in WrapperRec
  BY <1>1 DEF Watch, BaseOK
<1>3. CASE Fail(c, wrapper)
  BY <1>2, <1>3, Failed
<1>4. CASE /\ call' = Done(c) /\ watchers' \in {watchers, watchers + 1}
           /\ provider' = provider /\ latest' = latest /\ wrapper' = wrapper /\ blobs' = blobs
  <2>1. Moved(c) /\ call'[c].used = call[c].used /\ call'[c].id = call[c].id
    BY <1>1, <1>2, <1>4, Proceeds
  <2>2. IdOK' /\ KnownOK' /\ (HasKey => HasKey')
    BY <1>2, <1>4, <2>1, Unrelated DEF Finding
  <2>3. watchers = 0
    <3>1. /\ wrapper.state # "ok" /\ "watch" \in Ahead(c)
          /\ \A d \in Callers : d # c => call[d].op # "SetConfig"
      BY <1>1, <1>2, AtConfig, AtStep DEF EncryptSteps
    <3> QED
      BY <1>1, <3>1 DEF WatchOK
  <2>4. watchers' \in 0..1
    BY <1>4, <2>3
  <2> QED
    BY <1>2, <1>4, <2>1, <2>2, <2>4, Progress
<1> QED
  BY <1>3, <1>4 DEF Watch

(* A call that has learnt the version that was used.                       *)
LEMMA Learns ==
    ASSUME IInv, NEW c \in Callers, NEW s \in {"request", "version"}, At(c, s),
           NEW used \in Ids, NEW id \in Ids,
           call' = [call EXCEPT ![c] = [call[c] EXCEPT !.todo = Tail(@), !.used = used, !.id = id]],
           provider' = provider, latest' = latest, wrapper' = wrapper, blobs' = blobs,
           watchers' = watchers,
           Requests(c) /\ "request" \notin Ahead(c) \ {s} =>
             /\ wrapper.keyId \in KeyNames /\ used[1] = wrapper.keyId
             /\ used[2] \in 1..latest[wrapper.keyId] /\ Names(id, used[1], used[2])
    PROVE  IInv'
<1>1. BaseOK /\ PlanOK /\ IdOK /\ wrapper \in WrapperRec
  BY DEF IInv, BaseOK
<1>2. Moved(c) /\ call'[c].used = used /\ call'[c].id = id
  BY <1>1, Moves DEF At
<1>3. KnownOK' /\ (HasKey => HasKey')
  BY <1>2, Unrelated DEF Finding
<1>4. IdOK'
  <2> SUFFICES ASSUME NEW d \in Callers, Requests(d)', "request" \notin Ahead(d)'
               PROVE  (/\ wrapper.keyId \in KeyNames
                       /\ call[d].used[1] = wrapper.keyId
                       /\ call[d].used[2] \in 1..latest[wrapper.keyId]
                       /\ Names(call[d].id, call[d].used[1], call[d].used[2]))'
    BY DEF IdOK
  <2>1. /\ Ahead(c)' = Ahead(c) \ {s}
        /\ \A e \in Callers : e # c => Ahead(e)' = Ahead(e)
    BY <1>1, <1>2, Advance
  <2>2. Requests(d)
    BY <1>2 DEF Moved, Requests
  <2>3. CASE d # c
    BY <1>1, <1>2, <2>1, <2>2, <2>3 DEF Moved, Names, IdOK
  <2>4. CASE d = c
    BY <1>2, <2>1, <2>2, <2>4 DEF Names
  <2> QED
    BY <2>3, <2>4
<1>5. watchers' \in 0..1
  BY <1>1 DEF BaseOK
<1> QED
  BY <1>1, <1>2, <1>3, <1>4, <1>5, Progress

LEMMA RequestStep ==
    ASSUME IInv, NEW c \in Callers, Request(c)
    PROVE  IInv'
<1> DEFINE k == wrapper.keyId
           used == <<k, latest[k]>>
<1>1. BaseOK /\ PlanOK
  BY DEF IInv
<1>2. At(c, "request") /\ wrapper \in WrapperRec /\ call \in [Callers -> CallRec] /\ call[c] \in CallRec
  BY <1>1 DEF Request, BaseOK
<1>3. CASE Fail(c, wrapper)
  BY <1>2, <1>3, Failed
<1>4. ASSUME k # None,
             NEW id \in {IdOf(provider, k, latest[k])} \cup (IF provider = "aws" THEN {NoId} ELSE {}),
             call' = [Done(c) EXCEPT ![c].used = used, ![c].id = id],
             provider' = provider, latest' = latest, wrapper' = wrapper, blobs' = blobs,
             watchers' = watchers
      PROVE  IInv'
  <2>1. k \in KeyNames /\ latest[k] \in 1..MaxVersion /\ latest[k] \in Nat
    BY <1>1, <1>2, <1>4, BoundsAssumption DEF BaseOK, WrapperRec
  <2>2. used \in Ids /\ used[1] = k /\ used[2] = latest[k]
    BY <2>1, BoundsAssumption DEF Ids
  <2>3. id \in Ids /\ Names(id, k, latest[k])
    BY <1>4, <2>1, BoundsAssumption DEF Ids, NoId, IdOf, Names
  <2> HIDE DEF used
  <2>4. call' = [call EXCEPT ![c] = [call[c] EXCEPT !.todo = Tail(@), !.used = used, !.id = id]]
    BY <1>2, <1>4 DEF Done, CallRec
  <2>5. latest[k] \in 1..latest[k]
    BY <2>1
  <2>6. /\ wrapper.keyId \in KeyNames /\ used[1] = wrapper.keyId
        /\ used[2] \in 1..latest[wrapper.keyId] /\ Names(id, used[1], used[2])
    BY <2>1, <2>2, <2>3, <2>5
  <2>7. /\ provider' = provider /\ latest' = latest /\ wrapper' = wrapper /\ blobs' = blobs
        /\ watchers' = watchers /\ At(c, "request") /\ used \in Ids /\ id \in Ids
    BY <1>2, <1>4, <2>2, <2>3
  <2> QED
    BY ONLY IInv, c \in Callers, <2>4, <2>6, <2>7, Learns
<1> QED
  BY <1>3, <1>4 DEF Request

LEMMA VersionStep ==
    ASSUME IInv, NEW c \in Callers, Version(c)
    PROVE  IInv'
<1> DEFINE k == wrapper.keyId
           id == <<k, latest[k]>>
<1>1. BaseOK /\ PlanOK /\ IdOK
  BY DEF IInv
<1>2. At(c, "version") /\ wrapper \in WrapperRec /\ call \in [Callers -> CallRec] /\ call[c] \in CallRec
  BY <1>1 DEF Version, BaseOK
<1>3. CASE Fail(c, wrapper)
  BY <1>2, <1>3, Failed
<1>4. CASE /\ call' = [Done(c) EXCEPT ![c].id = id]
           /\ provider' = provider /\ latest' = latest /\ wrapper' = wrapper /\ blobs' = blobs
           /\ watchers' = watchers
  <2>1. call[c].op # "none" /\ Has(Plan(c), "version")
    BY <1>1, <1>2, AtStep
  <2>2. provider = "oci" /\ Before(Plan(c), "request", "version") /\ Requests(c)
    BY <1>1, <2>1, Plans DEF ConfigPlan, EncryptPlan, Requests
  <2>3. "request" \notin Ahead(c)
    BY <1>1, <1>2, <2>1, <2>2, Passed
  <2>4. /\ k \in KeyNames /\ call[c].used[1] = k /\ call[c].used[2] \in 1..latest[k]
        /\ call[c].used \in Ids
    BY <1>1, <1>2, <2>2, <2>3 DEF IdOK, CallRec
  <2>5. latest[k] \in 1..MaxVersion /\ latest[k] \in Nat
    BY <1>1, <2>4, BoundsAssumption DEF BaseOK
  <2>6. id \in Ids /\ Names(id, k, call[c].used[2])
    BY <2>2, <2>4, <2>5, BoundsAssumption DEF Ids, IdOf, Names
  <2> HIDE DEF id
  <2>7. call' = [call EXCEPT ![c] = [call[c] EXCEPT !.todo = Tail(@), !.used = call[c].used, !.id = id]]
    BY <1>2, <1>4 DEF Done, CallRec
  <2>8. /\ wrapper.keyId \in KeyNames /\ call[c].used[1] = wrapper.keyId
        /\ call[c].used[2] \in 1..latest[wrapper.keyId]
        /\ Names(id, call[c].used[1], call[c].used[2])
    BY <2>4, <2>6
  <2>9. /\ provider' = provider /\ latest' = latest /\ wrapper' = wrapper /\ blobs' = blobs
        /\ watchers' = watchers /\ At(c, "version") /\ call[c].used \in Ids /\ id \in Ids
    BY <1>2, <1>4, <2>4, <2>6
  <2> QED
    BY ONLY IInv, c \in Callers, <2>7, <2>8, <2>9, Learns
<1> QED
  BY <1>3, <1>4 DEF Version

(* SetConfig succeeds, ...                                                 *)
LEMMA ReturnConfigStep ==
    ASSUME IInv, NEW c \in Callers, ReturnConfig(c)
    PROVE  IInv'
<1>1. /\ BaseOK /\ PlanOK /\ Alone /\ ConfigOK /\ KeyOK
      /\ IdOK /\ BlobsOK /\ KnownOK /\ ClientOK /\ WatchOK
  BY DEF IInv
<1>2. /\ At(c, "return") /\ call[c].op = "SetConfig"
      /\ call' = [call EXCEPT ![c] = Idle] /\ wrapper' = [wrapper EXCEPT !.state = "ok"]
      /\ provider' = provider /\ latest' = latest /\ blobs' = blobs /\ watchers' = watchers
  BY DEF ReturnConfig
<1>3. Ahead(c) = {"return"}
  BY <1>1, <1>2, AtStep
<1>4. /\ call' \in [Callers -> CallRec] /\ call'[c].op = "none"
      /\ \A d \in Callers : d # c => call'[d] = call[d]
      /\ PlanOK'
  BY <1>1, <1>2, Ends
<1>5. wrapper \in WrapperRec
  BY <1>1 DEF BaseOK
<1>6. /\ wrapper' \in WrapperRec /\ wrapper'.state = "ok" /\ wrapper'.keyId = wrapper.keyId
      /\ wrapper'.keyNotRequired = wrapper.keyNotRequired
      /\ wrapper'.currentKeyId = wrapper.currentKeyId
  BY <1>2, <1>5 DEF WrapperRec
<1>7. BaseOK'
  BY <1>1, <1>2, <1>4, <1>6 DEF BaseOK
<1>8. \A d \in Callers : call'[d].op = "none"
  BY <1>1, <1>2, <1>4 DEF Alone
<1>9. Alone' /\ ConfigOK' /\ IdOK' /\ ClientOK'
  BY <1>6, <1>8 DEF Alone, ConfigOK, IdOK, Requests, ClientOK
<1>10. HasKey /\ HasKey'
  BY <1>1, <1>2, <1>3, <1>6 DEF KeyOK, HasKey
<1>11. KeyOK'
  BY <1>10 DEF KeyOK
<1>12. KnownOK'
  <2>1. Ahead(c) \cap Finding = {}
    BY <1>3 DEF Finding
  <2>2. Known' = Known
    BY <1>2, <1>6 DEF Known
  <2> QED
    BY <1>1, <1>2, <1>6, <1>8, <2>1, <2>2 DEF KnownOK
<1>13. BlobsOK'
  BY <1>1, <1>2, BlobsKept
<1>14. WatchOK'
  BY <1>1, <1>2, <1>6 DEF WatchOK
<1> QED
  BY <1>4, <1>7, <1>9, <1>11, <1>12, <1>13, <1>14 DEF IInv

(* ... and Encrypt.                                                        *)
LEMMA ReturnBlobStep ==
    ASSUME IInv, NEW c \in Callers, ReturnBlob(c)
    PROVE  IInv'
<1> DEFINE b == Blob(provider, c, call[c].used[1], call[c].used[2], call[c].id, wrapper.alg)
<1>1. BaseOK /\ PlanOK /\ IdOK /\ BlobsOK
  BY DEF IInv
<1>2. /\ At(c, "return") /\ call[c].op = "Encrypt"
      /\ call' = [call EXCEPT ![c] = Idle] /\ blobs' = blobs \cup {b}
      /\ provider' = provider /\ latest' = latest /\ wrapper' = wrapper /\ watchers' = watchers
  BY DEF ReturnBlob
<1>3. "request" \notin Ahead(c) /\ Requests(c)
  BY <1>1, <1>2, AtStep DEF Requests
<1>4. /\ wrapper.keyId \in KeyNames /\ call[c].used[1] = wrapper.keyId
      /\ call[c].used[2] \in 1..latest[wrapper.keyId]
      /\ Names(call[c].id, call[c].used[1], call[c].used[2])
  BY <1>1, <1>3 DEF IdOK
<1>5. call[c].used[2] \in 1..MaxVersion
  BY <1>1, <1>4, BoundsAssumption DEF BaseOK
<1>6. call[c].id \in Ids /\ wrapper.alg \in Algs \cup {None}
  BY <1>1 DEF BaseOK, CallRec, WrapperRec
<1>7. BlobOK(b)
  BY <1>4, <1>5, <1>6 DEF BlobOK, MadeOf
<1> HIDE DEF b
<1>8. \A a \in blobs' : BlobOK(a)
  BY <1>1, <1>2, <1>7 DEF BlobsOK
<1>9. BlobsOK'
  BY <1>2, <1>8, BlobsKept DEF BlobsOK
<1> QED
  BY <1>2, <1>9, EncryptEnds DEF IInv

LEMMA Stepped ==
    ASSUME IInv, NEW c \in Callers, Step(c)
    PROVE  IInv'
BY KeySteps, QuietSteps, UnlessClientStep, StoreNameStep, DescribeStep, StoreSteps, WatchStep,
   RequestStep, VersionStep, ReturnConfigStep, ReturnBlobStep DEF Step

-----------------------------------------------------------------------------
(***************************************************************************)
(* The other actions                                                       *)
(***************************************************************************)

LEMMA BlobFormats ==
    ASSUME NEW k \in KeyNames, NEW c \in Callers, provider \in {"aws", "gcp"}
    PROVE  BlobOK(OldDirect(k, c)) /\ BlobOK(Converted(OldDirect(k, c)))
BY DEF BlobOK, DirectOf

(* The blobs of earlier releases are of the formats.                       *)
LEMMA OldBlobsOK ==
    ASSUME provider \in Providers, NEW b \in OldBlobs(provider)
    PROVE  BlobOK(b)
<1> DEFINE K == IF provider \in {"aws", "gcp"} THEN KeyNames ELSE {}
           L == IF provider \in {"kmip", "transit"} THEN {} ELSE KeyNames
           E == IF provider = "azure" THEN KeyNames ELSE {}
<1>1. OldBlobs(provider) = {OldDirect(k, c) : k \in K, c \in Callers}
                           \cup {OldUnsplit(provider, k, c) : k \in L, c \in Callers}
                           \cup {OldEncoded(provider, k, c) : k \in E, c \in Callers}
  BY DEF OldBlobs
<1> HIDE DEF K, L, E
<1>2. \/ \E k \in K, c \in Callers : b = OldDirect(k, c)
      \/ \E k \in L, c \in Callers : b = OldUnsplit(provider, k, c)
      \/ \E k \in E, c \in Callers : b = OldEncoded(provider, k, c)
  BY <1>1
<1>3. CASE \E k \in K, c \in Callers : b = OldDirect(k, c)
  BY <1>3, BlobFormats DEF K
<1>4. CASE \E k \in L, c \in Callers : b = OldUnsplit(provider, k, c)
  <2>1. PICK k \in L, c \in Callers : b = OldUnsplit(provider, k, c)
    BY <1>4
  <2>2. provider \notin {"kmip", "transit"} /\ k \in KeyNames
    BY <2>1 DEF L
  <2> DEFINE id == IdOf(provider, k, 1)
  <2>3. 1 \in 1..MaxVersion /\ id \in Ids /\ Names(id, k, 1) /\ "AES_GCM" \in Algs \cup {None}
    BY <2>2, BoundsAssumption DEF IdOf, Ids, Names, Algs
  <2>4. b = Unsplit(Blob(provider, c, k, 1, id, "AES_GCM"), c)
    BY <2>1 DEF OldUnsplit
  <2> HIDE DEF id
  <2> QED
    BY <2>2, <2>3, <2>4 DEF BlobOK, MadeOf
<1>5. CASE \E k \in E, c \in Callers : b = OldEncoded(provider, k, c)
  <2>1. PICK k \in E, c \in Callers : b = OldEncoded(provider, k, c)
    BY <1>5
  <2>2. provider = "azure" /\ k \in KeyNames
    BY <2>1 DEF E
  <2> DEFINE id == IdOf(provider, k, 1)
  <2>3. 1 \in 1..MaxVersion /\ id \in Ids /\ Names(id, k, 1) /\ "AES_GCM" \in Algs \cup {None}
    BY <2>2, BoundsAssumption DEF IdOf, Ids, Names, Algs
  <2>4. b = Encoded(Blob(provider, c, k, 1, id, "AES_GCM"))
    BY <2>1 DEF OldEncoded
  <2> HIDE DEF id
  <2> QED
    BY <2>2, <2>3, <2>4 DEF BlobOK, MadeOf
<1> QED
  BY <1>2, <1>3, <1>4, <1>5

LEMMA Initially == Init => IInv
<1> SUFFICES ASSUME Init PROVE IInv
  OBVIOUS
<1>1. /\ provider \in Providers /\ latest = [k \in KeyNames |-> 1] /\ wrapper = NewWrapper
      /\ call = [c \in Callers |-> Idle] /\ watchers = 0
      /\ \A b \in blobs : b \in OldBlobs(provider)
  BY DEF Init
<1>2. Idle \in CallRec /\ Idle.op = "none" /\ Idle.todo = <<>>
  BY IdleOK
<1>3. /\ NewWrapper \in WrapperRec /\ NewWrapper.state = "new" /\ ~NewWrapper.client
  BY BoundsAssumption DEF NewWrapper, WrapperRec, NoId, Ids
<1>4. BaseOK
  BY <1>1, <1>2, <1>3, BoundsAssumption DEF BaseOK
<1>5. \A c \in Callers : call[c].op = "none" /\ call[c].todo = <<>>
  BY <1>1, <1>2
<1>6. PlanOK /\ Alone /\ ConfigOK /\ KeyOK /\ IdOK /\ KnownOK /\ ClientOK /\ WatchOK
  BY <1>1, <1>3, <1>5
     DEF PlanOK, Alone, ConfigOK, KeyOK, IdOK, Requests, KnownOK, ClientOK, WatchOK
<1>7. BlobsOK
  BY <1>1, OldBlobsOK DEF BlobsOK
<1> QED
  BY <1>4, <1>6, <1>7 DEF IInv

(* A call begins: with its plan before it.                                 *)
LEMMA Begins ==
    ASSUME BaseOK, PlanOK, NEW c \in Callers, NEW op \in {"SetConfig", "Encrypt"},
           NEW cfg \in ConfigRec, NEW S, ProperPlan(S),
           S = IF op = "SetConfig" THEN ConfigOf[provider].steps ELSE EncryptOf[provider],
           call' = [call EXCEPT ![c] = [Idle EXCEPT !.op = op, !.cfg = cfg, !.todo = S]],
           provider' = provider
    PROVE  /\ call' \in [Callers -> CallRec] /\ call'[c].op = op /\ call'[c].cfg = cfg
           /\ \A d \in Callers : d # c => call'[d] = call[d] /\ Ahead(d)' = Ahead(d)
           /\ \A a : Has(S, a) => a \in Ahead(c)'
           /\ PlanOK'
<1> DEFINE r == [Idle EXCEPT !.op = op, !.cfg = cfg, !.todo = S]
<1>1. S \in Seq(Steps) /\ Len(S) \in Nat \ {0}
  BY DEF ProperPlan
<1>2. r \in CallRec /\ r.op = op /\ r.cfg = cfg /\ r.todo = S
  BY <1>1, IdleOK DEF CallRec
<1> HIDE DEF r
<1>3. /\ call' \in [Callers -> CallRec] /\ call'[c] = r
      /\ \A d \in Callers : d # c => call'[d] = call[d]
  BY <1>2 DEF BaseOK, r
<1>4. \A d \in Callers : d # c => Ahead(d)' = Ahead(d) /\ Plan(d)' = Plan(d)
  BY <1>3 DEF Ahead, Plan
<1>5. DOMAIN S = 1..Len(S)
  BY <1>1, LenProperties
<1>6. \A a : Has(S, a) => a \in Ahead(c)'
  BY <1>2, <1>3, <1>5 DEF Ahead, Has
<1>7. Plan(c)' = S
  BY <1>2, <1>3 DEF Plan
<1>8. S = SubSeq(S, 1, Len(S)) /\ 1 \in 1..Len(S)
  <2> DEFINE q == SubSeq(S, 1, Len(S))
  <2>1. 1 \in 1..Len(S)
    BY <1>1
  <2>2. /\ q \in Seq(Steps) /\ Len(q) = Len(S) - 1 + 1
        /\ \A j \in 1..Len(q) : q[j] = S[1 + j - 1]
    BY <1>1, <2>1, Suffix
  <2> HIDE DEF q
  <2>3. Len(q) = Len(S) /\ \A j \in 1..Len(q) : q[j] = S[j]
    BY <1>1, <2>2
  <2>4. q = S
    BY <1>1, <2>2, <2>3, SeqEqual
  <2> QED
    BY <2>1, <2>4 DEF q
<1>9. PlanOK'
  <2> SUFFICES ASSUME NEW d \in Callers
               PROVE  (IF call[d].op = "none" THEN call[d].todo = <<>>
                       ELSE \E i \in 1..Len(Plan(d)) :
                             call[d].todo = SubSeq(Plan(d), i, Len(Plan(d))))'
    BY DEF PlanOK
  <2>1. CASE d = c
    BY <1>2, <1>3, <1>7, <1>8, <2>1
  <2>2. CASE d # c
    BY <1>3, <1>4, <2>2 DEF PlanOK
  <2> QED
    BY <2>1, <2>2
<1> QED
  BY <1>2, <1>3, <1>4, <1>6, <1>9

LEMMA SetConfigStep ==
    ASSUME IInv, NEW c \in Callers, SetConfig(c)
    PROVE  IInv'
<1> DEFINE S == ConfigOf[provider].steps
<1>1. BaseOK /\ PlanOK /\ Alone /\ BlobsOK /\ KeyOK /\ ClientOK /\ WatchOK
  BY DEF IInv
<1>2. PICK cfg \in Configs[provider] :
        /\ call' = [call EXCEPT ![c] = [Idle EXCEPT !.op = "SetConfig", !.cfg = cfg, !.todo = S]]
        /\ wrapper' = [wrapper EXCEPT !.keyNotRequired = cfg.keyNotRequired]
  BY DEF SetConfig
<1>3. /\ wrapper.state \in {"new", "failed"} /\ InProgress = {}
      /\ provider' = provider /\ latest' = latest /\ blobs' = blobs /\ watchers' = watchers
  BY DEF SetConfig
<1>4. provider \in Providers /\ wrapper \in WrapperRec
  BY <1>1 DEF BaseOK
<1>5. cfg \in ConfigRec
  BY <1>4, ConfigsOK
<1>6. ConfigPlan(provider, S) /\ ProperPlan(S) /\ (provider = "transit" => TransitPlan(S))
  BY <1>4, ConfigPlans, TransitPlans DEF ConfigPlan
<1> HIDE DEF S
<1>7. /\ call' \in [Callers -> CallRec] /\ call'[c].op = "SetConfig" /\ call'[c].cfg = cfg
      /\ \A d \in Callers : d # c => call'[d] = call[d] /\ Ahead(d)' = Ahead(d)
      /\ \A a : Has(S, a) => a \in Ahead(c)'
      /\ PlanOK'
  <2>1. S = IF "SetConfig" = "SetConfig" THEN ConfigOf[provider].steps ELSE EncryptOf[provider]
    BY DEF S
  <2> QED
    BY <1>1, <1>2, <1>3, <1>5, <1>6, <2>1, Begins
<1>8. /\ wrapper' \in WrapperRec /\ wrapper'.state = wrapper.state /\ wrapper'.client = wrapper.client
      /\ wrapper'.keyNotRequired = cfg.keyNotRequired
  BY <1>2, <1>4, <1>5 DEF WrapperRec, ConfigRec
<1>9. BaseOK'
  BY <1>1, <1>3, <1>7, <1>8 DEF BaseOK
<1>10. \A d \in Callers : call[d].op = "none" /\ (d # c => call'[d].op = "none")
  BY <1>3, <1>7 DEF InProgress
<1>11. Alone'
  BY <1>3, <1>7, <1>8, <1>10 DEF Alone
<1>12. ConfigOK'
  <2>1. provider = "transit" => "settings" \in Ahead(c)'
    BY <1>6, <1>7 DEF TransitPlan
  <2> QED
    BY <1>3, <1>7, <1>8, <1>10, <2>1 DEF ConfigOK
<1>13. KeyOK'
  <2>1. "key" \in Ahead(c)' \/ "parseKey" \in Ahead(c)'
    BY <1>6, <1>7 DEF ConfigPlan
  <2> QED
    BY <1>3, <1>8, <1>10, <2>1 DEF KeyOK
<1>14. IdOK'
  <2>1. provider \in {"oci", "transit"} => "request" \in Ahead(c)'
    BY <1>6, <1>7 DEF ConfigPlan
  <2> QED
    BY <1>3, <1>7, <1>10, <2>1 DEF IdOK, Requests
<1>15. KnownOK'
  <2>1. Ahead(c)' \cap Finding # {}
    BY <1>6, <1>7 DEF ConfigPlan, Finding
  <2> QED
    BY <1>3, <1>8, <1>10, <2>1 DEF KnownOK
<1>16. BlobsOK'
  BY <1>1, <1>3, BlobsKept
<1>17. ClientOK'
  BY <1>1, <1>3, <1>8, <1>10 DEF ClientOK
<1>18. WatchOK'
  BY <1>1, <1>3, <1>10 DEF WatchOK
<1> QED
  BY <1>7, <1>9, <1>11, <1>12, <1>13, <1>14, <1>15, <1>16, <1>17, <1>18 DEF IInv

LEMMA EncryptStep ==
    ASSUME IInv, NEW c \in Callers, Encrypt(c)
    PROVE  IInv'
<1> DEFINE S == EncryptOf[provider]
<1>1. /\ BaseOK /\ PlanOK /\ Alone /\ ConfigOK /\ KeyOK
      /\ IdOK /\ BlobsOK /\ KnownOK /\ ClientOK /\ WatchOK
  BY DEF IInv
<1>2. /\ wrapper.state = "ok" /\ call[c].op = "none"
      /\ call' = [call EXCEPT ![c] = [Idle EXCEPT !.op = "Encrypt", !.todo = S]]
      /\ provider' = provider /\ latest' = latest /\ wrapper' = wrapper /\ blobs' = blobs
      /\ watchers' = watchers
  BY DEF Encrypt
<1>3. provider \in Providers
  BY <1>1 DEF BaseOK
<1>4. ProperPlan(S) /\ Has(S, "request")
  BY <1>3, EncryptPlans DEF EncryptPlan
<1> HIDE DEF S
<1>5. /\ [Idle EXCEPT !.op = "Encrypt", !.todo = S]
           = [Idle EXCEPT !.op = "Encrypt", !.cfg = NoConfig, !.todo = S]
      /\ NoConfig \in ConfigRec
  BY IdleOK DEF CallRec
<1>6. /\ call' \in [Callers -> CallRec] /\ call'[c].op = "Encrypt"
      /\ \A d \in Callers : d # c => call'[d] = call[d] /\ Ahead(d)' = Ahead(d)
      /\ "request" \in Ahead(c)'
      /\ PlanOK'
  <2>1. S = IF "Encrypt" = "SetConfig" THEN ConfigOf[provider].steps ELSE EncryptOf[provider]
    BY DEF S
  <2>2. call' = [call EXCEPT ![c] = [Idle EXCEPT !.op = "Encrypt", !.cfg = NoConfig, !.todo = S]]
    BY <1>2, <1>5
  <2>3. provider' = provider
    BY <1>2
  <2> QED
    BY <1>1, <1>4, <1>5, <2>1, <2>2, <2>3, Begins
<1>7. BaseOK'
  BY <1>1, <1>2, <1>6 DEF BaseOK
<1>8. \A d \in Callers : call[d].op # "SetConfig" /\ call'[d].op # "SetConfig"
  BY <1>1, <1>2, <1>6 DEF Alone
<1>9. Alone' /\ ConfigOK' /\ KeyOK' /\ ClientOK' /\ WatchOK'
  BY <1>1, <1>2, <1>8 DEF Alone, ConfigOK, KeyOK, HasKey, ClientOK, WatchOK
<1>10. KnownOK'
  BY <1>1, <1>2, <1>8 DEF KnownOK, Known
<1>11. IdOK'
  <2> SUFFICES ASSUME NEW d \in Callers, Requests(d)', "request" \notin Ahead(d)'
               PROVE  (/\ wrapper.keyId \in KeyNames
                       /\ call[d].used[1] = wrapper.keyId
                       /\ call[d].used[2] \in 1..latest[wrapper.keyId]
                       /\ Names(call[d].id, call[d].used[1], call[d].used[2]))'
    BY DEF IdOK
  <2>1. d # c
    BY <1>6
  <2>2. Requests(d) /\ "request" \notin Ahead(d)
    BY <1>2, <1>6, <2>1 DEF Requests
  <2> QED
    BY <1>1, <1>2, <1>6, <2>1, <2>2 DEF IdOK, Names
<1>12. BlobsOK'
  BY <1>1, <1>2, BlobsKept
<1> QED
  BY <1>6, <1>7, <1>9, <1>10, <1>11, <1>12 DEF IInv

(* The service, the process and the owner of the blobs.                    *)
LEMMA OtherSteps ==
    ASSUME IInv,
           \/ \E b \in blobs : DecryptOld(b)
           \/ \E k \in KeyNames : Rotate(k)
           \/ Restart \/ Finalize \/ WatcherEnds \/ UNCHANGED vars
    PROVE  IInv'
<1>1. /\ BaseOK /\ PlanOK /\ Alone /\ ConfigOK /\ KeyOK
      /\ IdOK /\ BlobsOK /\ KnownOK /\ ClientOK /\ WatchOK
  BY DEF IInv
<1>2. ASSUME provider' = provider, wrapper' = wrapper, call' = call, latest' = latest
      PROVE  /\ PlanOK' /\ Alone' /\ ConfigOK' /\ KeyOK'
             /\ IdOK' /\ KnownOK' /\ ClientOK'
             /\ watchers' = watchers => WatchOK'
  <2>1. \A c \in Callers : Ahead(c)' = Ahead(c) /\ Plan(c)' = Plan(c)
    BY <1>2 DEF Ahead, Plan
  <2>2. PlanOK' /\ Alone'
    BY <1>1, <1>2, <2>1 DEF PlanOK, Alone
  <2>3. ConfigOK' /\ KeyOK'
    BY <1>1, <1>2, <2>1 DEF ConfigOK, KeyOK, HasKey
  <2>4. IdOK'
    BY <1>1, <1>2, <2>1 DEF IdOK, Requests, Names
  <2>5. KnownOK'
    BY <1>1, <1>2, <2>1 DEF KnownOK, Known
  <2>6. ClientOK' /\ (watchers' = watchers => WatchOK')
    BY <1>1, <1>2, <2>1 DEF ClientOK, WatchOK
  <2> QED
    BY <2>2, <2>3, <2>4, <2>5, <2>6
<1>3. ASSUME NEW b \in blobs, DecryptOld(b) PROVE IInv'
  <2>1. /\ provider \in {"aws", "gcp"} /\ ~b.info
        /\ blobs' = (blobs \ {b}) \cup {Converted(b)}
        /\ provider' = provider /\ latest' = latest /\ wrapper' = wrapper /\ call' = call
        /\ watchers' = watchers
    BY <1>3 DEF DecryptOld, Converted
  <2>2. \E k \in KeyNames, c \in Callers : b = OldDirect(k, c)
    <3>1. BlobOK(b)
      BY <1>1 DEF BlobsOK
    <3>2. \A k, c : Converted(OldDirect(k, c)).info
      BY DEF Converted, OldDirect
    <3>3. \A c, k, v, id, alg : Blob(provider, c, k, v, id, alg).info
      BY DEF Blob
    <3>4. \A c, k, v, id, alg : Unsplit(Blob(provider, c, k, v, id, alg), c).info
      BY DEF Blob, Unsplit
    <3>5. \A c, k, v, id, alg : Encoded(Blob(provider, c, k, v, id, alg)).info
      BY DEF Blob, Encoded
    <3> QED
      BY <2>1, <3>1, <3>2, <3>3, <3>4, <3>5 DEF BlobOK, DirectOf, MadeOf
  <2>3. BlobOK(Converted(b))
    BY <2>1, <2>2, BlobFormats
  <2>4. BlobsOK'
    BY <1>1, <2>1, <2>3, BlobsKept DEF BlobsOK
  <2>5. BaseOK'
    BY <1>1, <2>1 DEF BaseOK
  <2> QED
    BY <1>2, <2>1, <2>4, <2>5 DEF IInv
<1>4. ASSUME NEW k \in KeyNames, Rotate(k) PROVE IInv'
  <2>1. /\ latest[k] < MaxVersion /\ latest' = [latest EXCEPT ![k] = @ + 1]
        /\ provider' = provider /\ wrapper' = wrapper /\ call' = call
        /\ blobs' = blobs /\ watchers' = watchers
    BY <1>4 DEF Rotate
  <2>2. latest' \in [KeyNames -> 1..MaxVersion] /\ \A l \in KeyNames : latest'[l] >= latest[l]
    BY <1>1, <2>1, BoundsAssumption DEF BaseOK
  <2>3. BaseOK'
    BY <1>1, <2>1, <2>2 DEF BaseOK
  <2>4. \A c \in Callers : Ahead(c)' = Ahead(c) /\ Plan(c)' = Plan(c)
    BY <2>1 DEF Ahead, Plan
  <2>5. PlanOK' /\ Alone'
    BY <1>1, <2>1, <2>4 DEF PlanOK, Alone
  <2>6. ConfigOK' /\ KeyOK'
    BY <1>1, <2>1, <2>4 DEF ConfigOK, KeyOK, HasKey
  <2>7. KnownOK'
    BY <1>1, <2>1, <2>4 DEF KnownOK, Known
  <2>8. ClientOK' /\ WatchOK'
    BY <1>1, <2>1, <2>4 DEF ClientOK, WatchOK
  <2>9. IdOK'
    <3> SUFFICES ASSUME NEW c \in Callers, Requests(c), "request" \notin Ahead(c)
                 PROVE  /\ wrapper.keyId \in KeyNames
                        /\ call[c].used[1] = wrapper.keyId
                        /\ call[c].used[2] \in 1..latest'[wrapper.keyId]
                        /\ Names(call[c].id, call[c].used[1], call[c].used[2])
      BY <2>1, <2>4 DEF IdOK, Requests, Names
    <3>1. /\ wrapper.keyId \in KeyNames
          /\ call[c].used[1] = wrapper.keyId
          /\ call[c].used[2] \in 1..latest[wrapper.keyId]
          /\ Names(call[c].id, call[c].used[1], call[c].used[2])
      BY <1>1 DEF IdOK
    <3>2. /\ latest[wrapper.keyId] \in Nat /\ latest'[wrapper.keyId] \in Nat
          /\ latest'[wrapper.keyId] >= latest[wrapper.keyId]
      BY <1>1, <2>2, <3>1, BoundsAssumption DEF BaseOK
    <3> QED
      BY <3>1, <3>2
  <2>10. BlobsOK'
    BY <1>1, <2>1, BlobsKept
  <2> QED
    BY <2>3, <2>5, <2>6, <2>7, <2>8, <2>9, <2>10 DEF IInv
<1>5. CASE Restart
  <2>1. /\ wrapper' = NewWrapper /\ call' = [c \in Callers |-> Idle] /\ watchers' = 0
        /\ provider' = provider /\ latest' = latest /\ blobs' = blobs
    BY <1>5 DEF Restart
  <2>2. /\ NewWrapper \in WrapperRec /\ NewWrapper.state = "new" /\ ~NewWrapper.client
    BY BoundsAssumption DEF NewWrapper, WrapperRec, NoId, Ids
  <2>3. BaseOK'
    BY <1>1, <2>1, <2>2, IdleOK DEF BaseOK
  <2>4. \A c \in Callers : call'[c].op = "none" /\ call'[c].todo = <<>>
    BY <2>1, IdleOK
  <2>5. PlanOK' /\ Alone' /\ ConfigOK' /\ KeyOK' /\ IdOK' /\ KnownOK' /\ ClientOK' /\ WatchOK'
    BY <2>1, <2>2, <2>4
       DEF PlanOK, Alone, ConfigOK, KeyOK, IdOK, Requests, KnownOK, ClientOK, WatchOK
  <2>6. BlobsOK'
    BY <1>1, <2>1, BlobsKept
  <2> QED
    BY <2>3, <2>5, <2>6 DEF IInv
<1>6. CASE Finalize
  <2>1. /\ provider = "transit" /\ wrapper.state = "ok" /\ InProgress = {}
        /\ wrapper' = [wrapper EXCEPT !.state = "finalized"] /\ watchers' = 0
        /\ provider' = provider /\ latest' = latest /\ call' = call /\ blobs' = blobs
    BY <1>6 DEF Finalize
  <2>2. wrapper' \in WrapperRec /\ wrapper'.state = "finalized"
    BY <1>1, <2>1 DEF BaseOK, WrapperRec
  <2>3. BaseOK'
    BY <1>1, <2>1, <2>2 DEF BaseOK
  <2>4. \A c \in Callers : call'[c].op = "none" /\ call'[c].todo = <<>>
    BY <1>1, <2>1 DEF InProgress, PlanOK
  <2>5. PlanOK' /\ Alone' /\ ConfigOK' /\ KeyOK' /\ IdOK' /\ KnownOK' /\ ClientOK' /\ WatchOK'
    BY <2>1, <2>2, <2>4
       DEF PlanOK, Alone, ConfigOK, KeyOK, IdOK, Requests, KnownOK, ClientOK, WatchOK
  <2>6. BlobsOK'
    BY <1>1, <2>1, BlobsKept
  <2> QED
    BY <2>3, <2>5, <2>6 DEF IInv
<1>7. CASE WatcherEnds
  <2>1. /\ watchers > 0 /\ watchers' = watchers - 1
        /\ provider' = provider /\ latest' = latest /\ wrapper' = wrapper /\ call' = call
        /\ blobs' = blobs
    BY <1>7 DEF WatcherEnds
  <2>2. BaseOK' /\ watchers' = 0
    BY <1>1, <2>1 DEF BaseOK
  <2>3. WatchOK' /\ BlobsOK'
    BY <1>1, <2>1, <2>2, BlobsKept DEF WatchOK
  <2> QED
    BY <1>2, <2>1, <2>2, <2>3 DEF IInv
<1>8. CASE UNCHANGED vars
  <2>1. /\ provider' = provider /\ latest' = latest /\ wrapper' = wrapper /\ call' = call
        /\ blobs' = blobs /\ watchers' = watchers
    BY <1>8 DEF vars
  <2>2. BaseOK' /\ BlobsOK'
    BY <1>1, <2>1, BlobsKept DEF BaseOK
  <2> QED
    BY <1>2, <2>1, <2>2 DEF IInv
<1> QED
  BY <1>3, <1>4, <1>5, <1>6, <1>7, <1>8

(* The inductive invariant.                                                *)
LEMMA Inductive == Spec => []IInv
<1>1. IInv /\ [Next]_vars => IInv'
  BY SetConfigStep, EncryptStep, Stepped, OtherSteps DEF Next
<1> QED
  BY <1>1, Initially, PTL DEF Spec

-----------------------------------------------------------------------------
(***************************************************************************)
(* Theorems                                                                *)
(***************************************************************************)

(* The fields of a blob of each format.                                    *)
LEMMA DirectFields ==
    ASSUME NEW k, NEW c, NEW b, DirectOf(b, k, c)
    PROVE  /\ b.keyId = NoId /\ b.of = c /\ b.wrapped = NoCipher
           /\ b.text = <<Wrapped(k, 1, c, "AES_GCM")>>
           /\ ~b.info \/ b.mech = "direct"
<1>1. CASE b = OldDirect(k, c)
  BY <1>1 DEF OldDirect
<1>2. CASE b = Converted(OldDirect(k, c))
  BY <1>2 DEF OldDirect, Converted
<1> QED
  BY <1>1, <1>2 DEF DirectOf

LEMMA WholeFields ==
    ASSUME provider \in {"kmip", "transit"}, NEW c, NEW k, NEW v, NEW id, NEW alg,
           NEW b, MadeOf(b, c, k, v, id, alg)
    PROVE  /\ b.keyId = id /\ b.of = c /\ b.wrapped = NoCipher /\ b.mech = alg
           /\ b.text = <<Wrapped(k, v, c, alg)>>
BY DEF Blob, MadeOf

SealedIn(b, c) == b.iv \o b.text = Seal(c, c, Aad)

(* The wrapped key of an envelope, which with Azure may be encoded.        *)
WrappedIn(b, k, v, c, alg) ==
    \/ b.wrapped = Wrapped(k, v, c, alg)
    \/ provider = "azure" /\ b.wrapped = [Wrapped(k, v, c, alg) EXCEPT !.base64 = TRUE]

LEMMA EnvelopeFields ==
    ASSUME NEW c, NEW k, NEW v, NEW id, NEW alg, NEW b, MadeOf(b, c, k, v, id, alg),
           provider \notin {"kmip", "transit"}
    PROVE  /\ b.keyId = id /\ b.of = c /\ b.info /\ b.mech = "envelope"
           /\ WrappedIn(b, k, v, c, alg)
           /\ SealedIn(b, c)
<1> DEFINE rec == [key |-> c, plaintext |-> c, aad |-> Aad]
           env == EnvelopeEncrypt(c, c, Aad)
           e == [info |-> TRUE, keyId |-> id, mech |-> "envelope",
                 wrapped |-> Wrapped(k, v, env.key, alg), iv |-> env.iv,
                 text |-> env.ciphertext, of |-> c]
<1>1. Seal(c, c, Aad) = <<"nonce", rec>>
  BY DEF Seal
<1>2. Blob(provider, c, k, v, id, alg) = e
  BY DEF Blob
<1>3. env.key = c /\ env.iv \o env.ciphertext = Seal(c, c, Aad)
  <2> DEFINE s == Seal(c, c, Aad)
  <2>1. env = [key |-> c, iv |-> SubSeq(s, 1, 1), ciphertext |-> SubSeq(s, 2, Len(s))]
    BY DEF EnvelopeEncrypt
  <2>2. s \in Seq({"nonce", rec}) /\ Len(s) = 2
    BY <1>1
  <2> HIDE DEF s, rec
  <2>3. SubSeq(s, 1, 1) \o SubSeq(s, 2, Len(s)) = s
    BY <2>2, SubSeqFull, ConcatAdjacentSubSeq
  <2> QED
    BY <2>1, <2>3 DEF s
<1>4. Seal(c, c, Aad) \in Seq({"nonce", rec})
  BY <1>1
<1> HIDE DEF env, rec
<1>5. /\ e.keyId = id /\ e.of = c /\ e.info = TRUE /\ e.mech = "envelope"
      /\ e.wrapped = Wrapped(k, v, env.key, alg) /\ e.iv = env.iv /\ e.text = env.ciphertext
  OBVIOUS
<1>6. /\ Unsplit(e, c).keyId = e.keyId /\ Unsplit(e, c).of = e.of /\ Unsplit(e, c).info = e.info
      /\ Unsplit(e, c).mech = e.mech /\ Unsplit(e, c).wrapped = e.wrapped
      /\ Unsplit(e, c).iv = <<>> /\ Unsplit(e, c).text = Seal(c, c, Aad)
  BY DEF Unsplit
<1>9. /\ Encoded(e).keyId = e.keyId /\ Encoded(e).of = e.of /\ Encoded(e).info = e.info
      /\ Encoded(e).mech = e.mech /\ Encoded(e).iv = e.iv /\ Encoded(e).text = e.text
      /\ Encoded(e).wrapped = [e.wrapped EXCEPT !.base64 = TRUE]
  BY DEF Encoded
<1> HIDE DEF e
<1>7. CASE b = e
  BY <1>3, <1>5, <1>7 DEF SealedIn, WrappedIn
<1>8. CASE b = Unsplit(e, c)
  <2>1. <<>> \o Seal(c, c, Aad) = Seal(c, c, Aad)
    BY <1>4, ConcatEmptySeq
  <2> QED
    BY <1>3, <1>5, <1>6, <1>8, <2>1 DEF SealedIn, WrappedIn
<1>10. CASE provider = "azure" /\ b = Encoded(e)
  BY <1>3, <1>5, <1>9, <1>10 DEF SealedIn, WrappedIn
<1> QED
  BY <1>2, <1>7, <1>8, <1>10 DEF MadeOf

LEMMA BlobType ==
    ASSUME NEW b, BlobOK(b)
    PROVE  b.keyId \in Ids /\ b.of \in Callers
<1>1. ASSUME NEW k \in KeyNames, NEW c \in Callers,
             DirectOf(b, k, c)
      PROVE  b.keyId \in Ids /\ b.of \in Callers
  <2>1. NoId \in Ids
    BY BoundsAssumption DEF NoId, Ids
  <2> QED
    BY <1>1, <2>1, DirectFields
<1>2. ASSUME NEW c \in Callers, NEW k, NEW v, NEW id \in Ids, NEW alg,
             MadeOf(b, c, k, v, id, alg)
      PROVE  b.keyId \in Ids /\ b.of \in Callers
  BY <1>2, WholeFields, EnvelopeFields
<1> QED
  BY <1>1, <1>2 DEF BlobOK

(* The state of a wrapper, of its calls and of the blobs has the type that *)
(* the code gives it, and a call is in progress exactly while it has steps *)
(* to do.                                                                  *)
THEOREM TypeCorrect == Spec => []TypeOK
<1>1. IInv => TypeOK
  <2> SUFFICES ASSUME IInv PROVE TypeOK
    OBVIOUS
  <2>1. BaseOK /\ PlanOK /\ BlobsOK
    BY DEF IInv
  <2>2. /\ provider \in Providers /\ latest \in [KeyNames -> 1..MaxVersion]
        /\ wrapper \in WrapperRec /\ watchers \in 0..1
    BY <2>1 DEF BaseOK
  <2>3. \A b \in blobs : b.keyId \in Ids /\ b.of \in Callers
    BY <2>1, BlobType DEF BlobsOK
  <2>4. ASSUME NEW c \in Callers
        PROVE  /\ call[c].op \in {"none", "SetConfig", "Encrypt"}
               /\ \A i \in DOMAIN call[c].todo : call[c].todo[i] \in Steps
               /\ call[c].used \in Ids /\ call[c].id \in Ids
               /\ call[c].op = "none" <=> call[c].todo = <<>>
    <3>1. call[c] \in CallRec
      BY <2>1 DEF BaseOK
    <3>2. /\ call[c].op \in {"none", "SetConfig", "Encrypt"} /\ call[c].todo \in Seq(Steps)
          /\ call[c].used \in Ids /\ call[c].id \in Ids
      BY <3>1 DEF CallRec
    <3>3. \A i \in DOMAIN call[c].todo : call[c].todo[i] \in Steps
      BY <3>2, LenProperties, ElementOfSeq
    <3>4. call[c].op # "none" => call[c].todo # <<>>
      BY <2>1, Positions DEF Position
    <3>5. call[c].op = "none" => call[c].todo = <<>>
      BY <2>1 DEF PlanOK
    <3> QED
      BY <3>2, <3>3, <3>4, <3>5
  <2> QED
    BY <2>2, <2>3, <2>4 DEF TypeOK, WrapperRec
<1> QED
  BY <1>1, Inductive, PTL

(* However many SetConfigs failed before the one that succeeded, and       *)
(* whatever Encrypts did since, KeyId names the configured key.            *)
THEOREM ConfiguredKeyKnownHolds == Spec => []ConfiguredKeyKnown
<1>1. IInv => ConfiguredKeyKnown
  BY DEF IInv, KnownOK, Known, ConfiguredKeyKnown, KeyId
<1> QED
  BY <1>1, Inductive, PTL

(* No renewal of transit's token runs after a failed SetConfig or after    *)
(* Finalize.                                                               *)
THEOREM NoWatcherLeftHolds == Spec => []NoWatcherLeft
<1>1. IInv => NoWatcherLeft
  BY DEF IInv, WatchOK, NoWatcherLeft, InProgress
<1> QED
  BY <1>1, Inductive, PTL

(* What was sealed with a data key is opened with it.                      *)
LEMMA Opens ==
    ASSUME NEW c \in Callers, NEW b, SealedIn(b, c)
    PROVE  OpenEnvelope(c, b, Aad) = c
<1>1. c # Error
  BY NamesAssumption DEF Error
<1>2. EnvelopeDecrypt(c, b.iv, b.text, Aad) = Open(c, Seal(c, c, Aad), Aad)
  BY DEF EnvelopeDecrypt, SealedIn
<1>3. Open(c, Seal(c, c, Aad), Aad) = c
  BY DEF Open, Seal
<1> QED
  BY <1>1, <1>2, <1>3 DEF OpenEnvelope

(* The key and the version of its ciphertext.                              *)
LEMMA Ciphers ==
    ASSUME NEW b, NEW c \in Callers, NEW k \in KeyNames, NEW v \in 1..MaxVersion, NEW id, NEW alg,
           MadeOf(b, c, k, v, id, alg)
    PROVE  b.keyId = id /\ b.of = c /\ CipherOf(b).key = k /\ CipherOf(b).version = v
<1>1. CASE provider \in {"kmip", "transit"}
  <2>1. b.keyId = id /\ b.of = c /\ b.wrapped = NoCipher /\ b.text = <<Wrapped(k, v, c, alg)>>
    BY <1>1, WholeFields
  <2>2. CipherOf(b) = Wrapped(k, v, c, alg)
    BY <2>1 DEF CipherOf
  <2> QED
    BY <2>1, <2>2 DEF Wrapped
<1>2. CASE provider \notin {"kmip", "transit"}
  <2>1. b.keyId = id /\ b.of = c /\ WrappedIn(b, k, v, c, alg)
    BY <1>2, EnvelopeFields
  <2>2. b.wrapped.key = k /\ b.wrapped.version = v
    BY <2>1 DEF Wrapped, WrappedIn
  <2>3. b.wrapped # NoCipher
    BY <2>2, NamesAssumption DEF NoCipher, Wrapped
  <2> QED
    BY <2>1, <2>2, <2>3 DEF CipherOf
<1> QED
  BY <1>1, <1>2

(* The id in a blob names the version of the key that encrypted it, with   *)
(* any number of overlapping Encrypts and rotations between their steps.   *)
THEOREM BlobNamesItsKeyHolds == Spec => []BlobNamesItsKey
<1>1. ASSUME BlobsOK, NEW b \in blobs
      PROVE  LET ct == CipherOf(b)
                 id == IdOf(provider, ct.key, ct.version) IN
             \/ b.keyId = id
             \/ provider = "oci" /\ b.keyId[1] = ct.key /\ b.keyId[2] > ct.version
             \/ provider = "aws" /\ b.keyId = NoId
             \/ ~b.info \/ b.mech = "direct"
  <2>1. BlobOK(b)
    BY <1>1 DEF BlobsOK
  <2>2. ASSUME NEW k \in KeyNames, NEW c \in Callers,
               DirectOf(b, k, c)
        PROVE  ~b.info \/ b.mech = "direct"
    BY <2>2, DirectFields
  <2>3. ASSUME NEW c \in Callers, NEW k \in KeyNames, NEW v \in 1..MaxVersion, NEW id \in Ids,
               NEW alg, Names(id, k, v),
               MadeOf(b, c, k, v, id, alg)
        PROVE  b.keyId = id /\ CipherOf(b).key = k /\ CipherOf(b).version = v
    BY <2>3, Ciphers
  <2> QED
    BY <2>1, <2>2, <2>3 DEF Names, BlobOK
<1>2. IInv => BlobNamesItsKey
  BY <1>1 DEF IInv, BlobNamesItsKey
<1> QED
  BY <1>2, Inductive, PTL

(* Decrypt returns the plaintext of every blob that was made under the key *)
(* of a configured wrapper.                                                *)
THEOREM BlobsReadableHolds == Spec => []BlobsReadable
<1>1. ASSUME BaseOK, BlobsOK, NEW b \in blobs, CipherOf(b).key = wrapper.keyId,
             provider = "kmip" => b.mech = wrapper.alg
      PROVE  Decrypt(provider, wrapper, b, Aad) = b.of
  <2>1. BlobOK(b)
    BY <1>1 DEF BlobsOK
  <2>2. provider \in AllProviders
    BY <1>1, KnownProviders DEF BaseOK
  <2>3. ASSUME provider \in {"aws", "gcp"}, NEW k \in KeyNames, NEW c \in Callers,
               DirectOf(b, k, c)
        PROVE  Decrypt(provider, wrapper, b, Aad) = b.of
    <3>1. /\ b.of = c /\ b.wrapped = NoCipher /\ b.text = <<Wrapped(k, 1, c, "AES_GCM")>>
          /\ ~b.info \/ b.mech = "direct"
      BY <2>3, DirectFields
    <3>2. b.text[1] = Wrapped(k, 1, c, "AES_GCM")
      BY <3>1
    <3>3. Unwrap(b.text[1]) = c /\ UnwrapUnder(wrapper.keyId, b.text[1]) = c
      BY <1>1, <3>1, <3>2 DEF Unwrap, UnwrapUnder, CipherOf, Wrapped
    <3> QED
      BY <2>3, <3>1, <3>3 DEF Decrypt, AwsDecrypt, GcpDecrypt
  <2>4. ASSUME NEW c \in Callers, NEW k \in KeyNames, NEW v \in 1..MaxVersion, NEW id \in Ids,
               NEW alg, Names(id, k, v),
               MadeOf(b, c, k, v, id, alg)
        PROVE  Decrypt(provider, wrapper, b, Aad) = b.of
    <3>1. b.keyId = id /\ b.of = c /\ wrapper.keyId = k
      BY <1>1, <2>4, Ciphers
    <3>2. CASE provider \in {"kmip", "transit"}
      <4>1. b.mech = alg /\ b.text[1] = Wrapped(k, v, c, alg)
        BY <2>4, <3>2, WholeFields
      <4>2. /\ UnwrapUnder(k, b.text[1]) = c /\ b.text[1].alg = alg
        BY <4>1 DEF UnwrapUnder, Wrapped
      <4>3. CASE provider = "transit"
        BY <3>1, <4>2, <4>3 DEF Decrypt, TransitDecrypt
      <4>4. CASE provider = "kmip"
        <5>1. id[1] = k
          BY <2>4, <4>4 DEF Names, IdOf
        <5> QED
          BY <1>1, <3>1, <4>1, <4>2, <4>4, <5>1 DEF Decrypt, KmipDecrypt
      <4> QED
        BY <3>2, <4>3, <4>4
    <3>3. CASE provider \notin {"kmip", "transit"}
      <4>1. /\ b.info /\ b.mech = "envelope" /\ WrappedIn(b, k, v, c, alg)
            /\ SealedIn(b, c)
        BY <2>4, <3>3, EnvelopeFields
      <4>2. /\ Unwrap(b.wrapped) = c /\ UnwrapUnder(k, b.wrapped) = c
            /\ UnwrapVersion(k, v, WrappedBytes(b.wrapped)) = c
        BY <4>1 DEF Unwrap, UnwrapUnder, UnwrapVersion, Wrapped, WrappedIn, WrappedBytes
      <4>3. OpenEnvelope(c, b, Aad) = c
        BY <4>1, Opens
      <4>4. provider = "azure" => b.keyId[2] = v
        BY <2>4, <3>1 DEF Names, IdOf
      <4>5. CASE provider \in {"aws", "gcp", "azure"}
        BY <3>1, <4>1, <4>2, <4>3, <4>4, <4>5
           DEF Decrypt, AwsDecrypt, GcpDecrypt, AzureDecrypt
      <4>6. CASE provider \in {"ali", "huawei", "tencent", "tcloud"}
        BY <3>1, <4>2, <4>3, <4>6
           DEF Decrypt, AliDecrypt, HuaweiDecrypt, TencentDecrypt, TCloudDecrypt
      <4>7. CASE provider \in {"oci", "ovh"}
        BY <3>1, <4>2, <4>3, <4>7 DEF Decrypt, OciDecrypt, OvhDecrypt
      <4> QED
        BY <2>2, <3>3, <4>5, <4>6, <4>7 DEF AllProviders
    <3> QED
      BY <3>2, <3>3
  <2> QED
    BY <2>1, <2>3, <2>4 DEF BlobOK
<1>2. IInv => BlobsReadable
  BY <1>1 DEF IInv, BlobsReadable
<1> QED
  BY <1>2, Inductive, PTL
=============================================================================
