---------------------- MODULE SessionPipelineRefinement ----------------------
(***************************************************************************)
(* SessionPipeline implements MessageFate: the fate of a message is read   *)
(* off its handler and the sequences it can be in.                         *)
(***************************************************************************)
EXTENDS SessionPipeline

\* The pipelines m is in the batch of; UsedOnce: at most one.
Batches(m) == {p \in Msg : m \in Range(items[p])}

FateOf(m) ==
  CASE handler[m] \in {"dismissed", "empty", "stored"} -> "setAside"
    [] handler[m] = "submitted" ->
         IF m \in Range(buffer[From[m]]) THEN "waiting"
         ELSE IF \E p \in Batches(m) : Unfinished(p) THEN "answering"
         ELSE "settled"
    [] handler[m] = "appended" ->
         IF \E p \in Msg : m \in Range(extra[p]) THEN "retried"
         ELSE IF \E x \in Msg : m \in Range(pending[x]) THEN "noted"
         ELSE "lost"
    [] OTHER -> "outside"

BatchOf(m) == IF Batches(m) = {} THEN NoSession ELSE CHOOSE p \in Batches(m) : TRUE

Fate == INSTANCE MessageFate WITH
  NoBatch <- NoSession,
  fate <- [m \in Msg |-> FateOf(m)],
  batch <- [m \in Msg |-> BatchOf(m)]

\* Through every overlap of handlers, timers, pipelines and timeouts a message
\* has one fate, a flush takes all that its sender has waiting, and a batch is
\* settled as a whole and once (aggregator, session manager and pipeline
\* together).
ImplementsFate == Fate!FateSpec

=============================================================================
