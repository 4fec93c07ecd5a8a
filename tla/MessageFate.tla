----------------------------- MODULE MessageFate -----------------------------
(***************************************************************************)
(* What the message path of the service promises about one message: of all *)
(* that can become of it exactly one thing does, and what waits together   *)
(* is answered together.  SessionPipeline implements this specification    *)
(* (module SessionPipelineRefinement).                                     *)
(***************************************************************************)
EXTENDS FiniteSets

CONSTANTS
  Msg,     \* the messages
  Sender,  \* the users who write them
  From,    \* From[m]: the sender of m
  NoBatch  \* a message that is in no batch

VARIABLES
  fate,   \* fate[m]: what has become of m, see Fates
  batch   \* batch[m]: the first message of the batch m was flushed with

fateVars == <<fate, batch>>

\* "outside":   not handled, or still being handled.
\* "setAside":  needs no answer.      "waiting": in the sender's buffer.
\* "answering": a pipeline works on its batch.     "settled": not any more.
\* "noted":     appended to a session, be there still a pipeline that will read
\*              it or not.                 "lost": appended to none.
\* "retried":   given to a second generation.
Fates == {"outside", "setAside", "waiting", "answering", "settled", "noted",
          "lost", "retried"}

FateInit ==
  /\ fate = [m \in Msg |-> "outside"]
  /\ batch = [m \in Msg |-> NoBatch]

Becomes(S, f) == fate' = [m \in Msg |-> IF m \in S THEN f ELSE fate[m]]
Waiting(s) == {m \in Msg : From[m] = s /\ fate[m] = "waiting"}

\* A handler ends without a batch being flushed.
Handle(m, f) ==
  /\ fate[m] = "outside"
  /\ Becomes({m}, f)
  /\ UNCHANGED batch

\* Everything the sender has waiting is flushed as one batch, alone or with the
\* message that brings the flush about.
FlushSender(s, trigger) ==
  LET flushed == Waiting(s) \cup trigger
  IN  /\ \A m \in trigger : From[m] = s /\ fate[m] = "outside"
      /\ \E p \in flushed :
           batch' = [m \in Msg |-> IF m \in flushed THEN p ELSE batch[m]]
      /\ Becomes(flushed, "answering")

\* The batch p leads is over: answered, refused, excused or given up.
Settle(p) ==
  /\ fate[p] = "answering" /\ batch[p] = p
  /\ Becomes({m \in Msg : batch[m] = p}, "settled")
  /\ UNCHANGED batch

\* Messages the sender added meanwhile are answered by a second generation.
Retry(s) ==
  /\ \E S \in SUBSET {m \in Msg : From[m] = s /\ fate[m] = "noted"} :
       S # {} /\ Becomes(S, "retried")
  /\ UNCHANGED batch

FateNext ==
  \/ \E m \in Msg, f \in {"setAside", "waiting", "noted", "lost"} : Handle(m, f)
  \/ \E s \in Sender : FlushSender(s, {})
  \/ \E m \in Msg : FlushSender(From[m], {m})
  \/ \E p \in Msg : Settle(p)
  \/ \E s \in Sender : Retry(s)

FateSpec == FateInit /\ [][FateNext]_fateVars

=============================================================================
