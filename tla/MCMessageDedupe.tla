--------------------------- MODULE MCMessageDedupe ---------------------------
(* Instances of MessageDedupe for TLC. *)
EXTENDS MessageDedupe, TLC

CONSTANTS m1, m2, m3

MsgSymmetry == Permutations({m1, m2, m3})

=============================================================================
