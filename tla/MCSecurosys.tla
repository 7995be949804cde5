---------------------------- MODULE MCSecurosys ----------------------------
(* Securosys for TLC: how many API keys each group has.                    *)
EXTENDS Securosys

TwoOperationKeys ==
    [g \in Groups |-> IF g = "KeyOperationToken" THEN 2 ELSE 0]

TwoManagementKeys ==
    [g \in Groups |-> IF g = "KeyManagementToken" THEN 2 ELSE 0]

=============================================================================
