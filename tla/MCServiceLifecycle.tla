------------------------- MODULE MCServiceLifecycle -------------------------
(* Instances of ServiceLifecycle for TLC. *)
EXTENDS ServiceLifecycle

CONSTANTS r1, r2, r3

=============================================================================
