--------------------------- MODULE ReplyDelivery ---------------------------
(***************************************************************************)
(* How answers reach a chat (src/feishu-service.ts): chunkReply,           *)
(* sendFeishuReply, the loop over the chunks in processAggregatedMessage,  *)
(* and the excuse its catch block sends.                                   *)
(*                                                                         *)
(* Several pipelines can be sending into one chat.  Every chunk is a call  *)
(* to Feishu; the first one, and the excuse, are sent as a reply to the    *)
(* trigger message and again as a plain message when that fails.  A call   *)
(* that fails may all the same have been carried out.                      *)
(*                                                                         *)
(* The text of an answer is the sequence of the lengths of its lines,      *)
(* trimmed; a chunk is a piece [line, from, to] of a line, so that what    *)
(* chunkReply loses or cuts can be seen.                                   *)
(***************************************************************************)
EXTENDS Integers, Sequences, FiniteSets, SequencesExt

CONSTANTS
  Pipeline,   \* the pipelines that send into the chat
  Lines,      \* Lines[p]: the lengths of the lines of p's answer
  Limit       \* the chunk limit: textChunkLimit, at most DEFAULT_CHUNK_LIMIT

ASSUME LimitType == Limit \in Nat \ {0}
ASSUME LinesType == Lines \in [Pipeline -> Seq(Nat)]

VARIABLES
  step,  \* step[p]: the await p is suspended in, see Steps
  next,  \* next[p]: the index of the chunk p is sending
  chat   \* what the chat shows: records [by, what], what a chunk or Excuse

vars == <<step, next, chat>>

\* "replying", "creating": the two calls for a chunk.  "pausing": the sleep
\* after it.  "excusing", "pleading": the two calls for the excuse.
Steps == {"idle", "replying", "creating", "pausing", "excusing", "pleading",
          "sent", "excused", "mute"}

-----------------------------------------------------------------------------
(* chunkReply *)

\* Mutation of Pieces: the slices overlap by one character.
PiecesOverlapping(line, length) ==
  [k \in 1..((length + Limit - 1) \div Limit) |->
     [line |-> line, from |-> (k - 1) * Limit,
      to |-> IF k * Limit + 1 < length THEN k * Limit + 1 ELSE length]]

\* The pieces of one line: the slices of at most Limit characters, and nothing
\* for a blank line.
Pieces(line, length) ==
  [k \in 1..((length + Limit - 1) \div Limit) |->
     [line |-> line, from |-> (k - 1) * Limit,
      to |-> IF k * Limit < length THEN k * Limit ELSE length]]

\* Every line is cut by itself; lines are never joined.
ChunkReply(lines) ==
  FlattenSeq([i \in DOMAIN lines |-> Pieces(i, lines[i])])

Chunks(p) == ChunkReply(Lines[p])

-----------------------------------------------------------------------------
(* Sending *)

Excuse == [line |-> 0, from |-> 0, to |-> 0]

Init ==
  /\ step = [p \in Pipeline |-> "idle"]
  /\ next = [p \in Pipeline |-> 1]
  /\ chat = <<>>

Goes(p, to) == step' = [step EXCEPT ![p] = to]

\* A call to Feishu: carried out and confirmed, carried out but reported as
\* failed (an error after the message was posted), or not carried out.
Call(p, what, confirmed, failed) ==
  \/ /\ chat' = Append(chat, [by |-> p, what |-> what])
     /\ Goes(p, confirmed) \/ Goes(p, failed)
  \/ UNCHANGED chat /\ Goes(p, failed)

\* The first chunk is sent as a reply.  An answer without text has no chunks
\* and counts as sent.
StartSending(p) ==
  /\ step[p] = "idle"
  /\ Goes(p, IF Chunks(p) = <<>> THEN "sent" ELSE "replying")
  /\ UNCHANGED <<next, chat>>

Reply(p) ==
  /\ step[p] = "replying"
  /\ Call(p, Chunks(p)[next[p]], "pausing", "creating")
  /\ UNCHANGED next

\* Mutation of Create: a failed call is taken for a sent chunk.
CreateUnchecked(p) ==
  /\ step[p] = "creating"
  /\ Call(p, Chunks(p)[next[p]], "pausing", "pausing")
  /\ UNCHANGED next

\* im.message.create: when it fails the pipeline rejects, and the catch block
\* sends the excuse, unless the pipeline was given up by then.
Create(p) ==
  /\ step[p] = "creating"
  /\ \E failed \in {"excusing", "mute"} :
       Call(p, Chunks(p)[next[p]], "pausing", failed)
  /\ UNCHANGED next

\* Mutation of Pause: every chunk is sent as a reply first.
PauseThenReply(p) ==
  /\ step[p] = "pausing"
  /\ next' = [next EXCEPT ![p] = @ + 1]
  /\ Goes(p, IF next[p] < Len(Chunks(p)) THEN "replying" ELSE "sent")
  /\ UNCHANGED chat

\* The sleep after a chunk is over; the other chunks are plain messages.
Pause(p) ==
  /\ step[p] = "pausing"
  /\ next' = [next EXCEPT ![p] = @ + 1]
  /\ Goes(p, IF next[p] < Len(Chunks(p)) THEN "creating" ELSE "sent")
  /\ UNCHANGED chat

\* Mutation of ExcuseReply: the failure is excused in the loop, which goes on.
ExcuseReplyGoesOn(p) ==
  /\ step[p] = "excusing"
  /\ Call(p, Excuse, "pausing", "pleading")
  /\ UNCHANGED next

\* The excuse, whose own failure is swallowed.
ExcuseReply(p) ==
  /\ step[p] = "excusing"
  /\ Call(p, Excuse, "excused", "pleading")
  /\ UNCHANGED next

ExcuseCreate(p) ==
  /\ step[p] = "pleading"
  /\ Call(p, Excuse, "excused", "excused")
  /\ UNCHANGED next

Next ==
  \E p \in Pipeline :
    \/ StartSending(p) \/ Reply(p) \/ Create(p) \/ Pause(p)
    \/ ExcuseReply(p) \/ ExcuseCreate(p)

Spec == Init /\ [][Next]_vars

-----------------------------------------------------------------------------
(* Properties *)

\* The places in the chat where a message of p stands.
PlacesOf(p) == {i \in DOMAIN chat : chat[i].by = p}
PlacesOfChunk(p, k) == {i \in PlacesOf(p) : chat[i].what = Chunks(p)[k]}
Ended == {"sent", "excused", "mute"}

\* The types; only a pipeline past its last chunk has no chunk to send.
TypeOK ==
  /\ step \in [Pipeline -> Steps]
  /\ next \in [Pipeline -> Nat \ {0}]
  /\ \A p \in Pipeline : next[p] > Len(Chunks(p)) => step[p] \in {"idle", "sent"}
  /\ chat \in Seq([by : Pipeline,
                   what : [line : Nat, from : Nat, to : Nat]])

\* What the chat shows of an answer is in order and without a gap: before any
\* piece there is every earlier one, whatever else is posted in between.
InOrder ==
  \A p \in Pipeline : \A k \in 2..Len(Chunks(p)) : \A i \in PlacesOfChunk(p, k) :
    \E j \in PlacesOfChunk(p, k - 1) : j < i

\* Only the first piece can appear twice, when the reply was posted though it
\* was reported as failed.
OnlyFirstTwice ==
  \A p \in Pipeline : \A k \in 1..Len(Chunks(p)) :
    Cardinality(PlacesOfChunk(p, k)) <= IF k = 1 THEN 2 ELSE 1

\* An excuse is the last thing a pipeline says, and a pipeline that says it has
\* not counted its answer as sent.
ExcuseIsLast ==
  \A p \in Pipeline : \A i, j \in PlacesOf(p) :
    chat[i].what = Excuse => /\ step[p] \notin {"sent", "pausing", "creating"}
                             /\ i < j => chat[j].what = Excuse

\* An answer that counts as sent is in the chat character by character: the
\* pieces shown cover every line, without overlap and within the limit.
SentIsWhole ==
  \A p \in Pipeline : step[p] = "sent" =>
    \A i \in DOMAIN Lines[p] : \A c \in 0..(Lines[p][i] - 1) :
      LET covering == {chat[j].what : j \in {j \in PlacesOf(p) :
                         /\ chat[j].what.line = i
                         /\ chat[j].what.from <= c /\ c < chat[j].what.to}}
      IN  /\ Cardinality(covering) = 1
          /\ \A piece \in covering : piece.to - piece.from <= Limit

=============================================================================
