---------------------------- MODULE MCSessionPool ----------------------------
(***************************************************************************)
(* Instances of SessionPool for TLC.                                       *)
(***************************************************************************)
EXTENDS SessionPool

(* Everybody uses the same token, with the same PIN.                       *)
SameSlot == [c \in Clients |-> "slot1"]
SamePin  == [c \in Clients |-> "pin1"]

(* One client has a PIN of its own.                                        *)
OddPin == LET odd == CHOOSE c \in Clients : TRUE
          IN  [c \in Clients |-> IF c = odd THEN "pin2" ELSE "pin1"]

(* One client uses another token of the same library.                      *)
OddSlot == LET odd == CHOOSE c \in Clients : TRUE
           IN  [c \in Clients |-> IF c = odd THEN "slot2" ELSE "slot1"]
=============================================================================
