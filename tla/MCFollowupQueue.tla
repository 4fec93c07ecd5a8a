--------------------------- MODULE MCFollowupQueue ---------------------------
(* Instances of FollowupQueue for TLC. *)
EXTENDS FollowupQueue

CONSTANTS m1, m2, m3, m4

\* m1 and m2 have one sender, m3 and m4 another; m4 is answered elsewhere.
MCAuth  == [m \in Msg |-> IF m \in {m1, m2} THEN "a" ELSE "b"]
MCRoute == [m \in Msg |-> IF m = m4 THEN "s" ELSE "r"]

=============================================================================
