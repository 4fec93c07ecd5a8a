---------------------------- MODULE MCCommandQueue ----------------------------
(* Model values for CommandQueue: two sessions with the order in which their *)
(* lanes are created.                                                        *)
EXTENDS CommandQueue

CONSTANTS c1, c2, c3, s1, s2

(* A cron job and a run meet in one session, two runs in the main lane. *)
MCSessionOf == (c1 :> s1) @@ (c2 :> s1) @@ (c3 :> s2)

MCLaneOrder == <<"cron", "main", s1, "nested", s2>>
===============================================================================
