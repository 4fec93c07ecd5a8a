-------------------------- MODULE MCSessionPipeline --------------------------
(* Instances of SessionPipeline for TLC. *)
EXTENDS SessionPipelineRefinement, TLC

CONSTANTS m1, m2, m3, m4, alice, bob

\* One sender: two messages that wait in the aggregator and one that does not.
OneSenderFrom == [m \in {m1, m2, m3} |-> alice]
OneSenderKind == [m \in {m1, m2, m3} |-> IF m = m3 THEN "mention" ELSE "trigger"]
TriggerSymmetry == Permutations({m1, m2})

\* Two senders whose messages also meet the group filters.
TwoSendersFrom == [m \in {m1, m2, m3, m4} |-> IF m \in {m1, m2} THEN alice ELSE bob]
TwoSendersKind ==
  (m1 :> "trigger") @@ (m2 :> "plain") @@ (m3 :> "mention") @@ (m4 :> "ignored")

=============================================================================
