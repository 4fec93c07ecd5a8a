--------------------------- MODULE MCOutboundQueue ---------------------------
(* Instances of OutboundQueue for TLC. *)
EXTENDS OutboundQueue

CONSTANT e1

=============================================================================
