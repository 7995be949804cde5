---------------------------- MODULE MCLegacyPkcs11 ---------------------------
(* Instances of LegacyPkcs11: the texts, the tokens and the settings.      *)
EXTENDS LegacyPkcs11, TLC

CONSTANTS l1, l2, i1, i2

MCParts == {"", "x", l1, l2, i1, i2}

(* One label has a colon; of the ids that are not hexadecimal one has a    *)
(* colon, and with the first label reads like the second label and its id. *)
A == <<l1>>
B == <<l1, l2>>
MCLabels == {A, B}
MCKeyIds == {<<i1>>, <<i2>>}
MCOtherIds == {<<"x">>, <<l2, i2>>}

Aes(label, id, material, dec) ==
    [class |-> "secret", keytype |-> "AES", label |-> label, id |-> id,
     material |-> material, encrypt |-> TRUE, decrypt |-> dec]
Rsa(class, label, id, material) ==
    [class |-> class, keytype |-> "RSA", label |-> label, id |-> id,
     material |-> material, encrypt |-> TRUE, decrypt |-> TRUE]
Cert(label, id) ==
    [class |-> "certificate", keytype |-> None, label |-> label, id |-> id,
     material |-> None, encrypt |-> FALSE, decrypt |-> FALSE]

(* A secret key and a pair whose halves have one label; a pair whose       *)
(* public half has another label, beside the public half of a second pair; *)
(* a pair with a certificate.                                              *)
TidyTokens ==
    {{Aes(A, <<i1>>, "m1", TRUE), Rsa("private", B, <<i2>>, "m2"), Rsa("public", B, <<i2>>, "m2")},
     {Rsa("private", A, <<i1>>, "m1"), Rsa("public", B, <<i1>>, "m1"),
      Rsa("public", B, <<i2>>, "m2")},
     {Aes(A, <<i1>>, "m1", FALSE), Rsa("private", B, <<i2>>, "m2"),
      Rsa("public", B, <<i2>>, "m2"), Cert(B, <<i2>>)}}

(* The name of one key, and at most one of the other settings.             *)
FewSettings(s) ==
    /\ <<s.keyLabel, s.keyId>> \notin {<<A, <<i2>>>>, <<B, <<i1>>>>}
    /\ s.keyId = <<l2, i2>> => s.keyLabel = A
    /\ s.keyId \in OtherIds => /\ s.mechanism = None /\ s.rsaOaepHash = None
                               /\ ~s.disableSoftwareEncryption
    /\ \/ s.mechanism = None /\ s.rsaOaepHash = None
       \/ s.mechanism = None /\ ~s.disableSoftwareEncryption
       \/ s.rsaOaepHash = None /\ ~s.disableSoftwareEncryption

Symmetry == Permutations(Callers)

(* Two pairs that share a label.                                           *)
SharedLabel ==
    {{Rsa("private", A, <<i1>>, "m1"), Rsa("public", A, <<i1>>, "m1"),
      Rsa("private", A, <<i2>>, "m2"), Rsa("public", A, <<i2>>, "m2")}}
=============================================================================
