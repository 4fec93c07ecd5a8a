--------------------------- MODULE MCReplyDelivery ---------------------------
(* Instances of ReplyDelivery for TLC. *)
EXTENDS ReplyDelivery

CONSTANTS p1, p2, p3

\* A long line, a blank one and one of exactly the limit; a line just above the
\* limit; and an answer without text.
ThreeAnswers ==
  [p \in {p1, p2, p3} |-> IF p = p1 THEN <<5, 0, 2>>
                          ELSE IF p = p2 THEN <<3>> ELSE <<0>>]

=============================================================================
