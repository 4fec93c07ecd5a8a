--------------------------- MODULE SessionPipeline ---------------------------
(***************************************************************************)
(* The message path of the Feishu service (src/feishu-service.ts): from    *)
(* the WebSocket callback through handleMessage, the MessageAggregator and *)
(* the SessionManager to processAggregatedMessage.                         *)
(*                                                                         *)
(* The service is one JavaScript event loop.  What interleaves is          *)
(*   - one handleMessage call per delivered message,                       *)
(*   - one aggregation timer per sender,                                   *)
(*   - one pipeline per flushed batch, in two promises: the inner async    *)
(*     function that routes, generates and sends, and the outer call that  *)
(*     races it with a timer (withTimeout) and cleans up after it.         *)
(* Every action below is the code one of them runs from the await it was   *)
(* suspended in to its next await.                                         *)
(*                                                                         *)
(* A pipeline is named after the first message of its batch, and a session *)
(* object after the pipeline that created it.  Sessions and buffers are    *)
(* keyed by sender only.  The rows written to MySQL are not part of this   *)
(* module: the store's methods catch their errors, so all the pipeline     *)
(* sees of them is that it was suspended.                                  *)
(***************************************************************************)
EXTENDS Integers, Sequences, FiniteSets, Functions

CONSTANTS
  Msg,          \* the messages Feishu delivers, by message_id
  Sender,       \* the users who write them
  From,         \* From[m]: the sender of m
  Kind,         \* Kind[m]: what the filters make of m, see Kinds
  MaxMessages,  \* AGGREGATE_MAX_MESSAGES
  NoSession     \* a sender without an entry in SessionManager.sessions

\* "ignored": written by a bot or by a sender the group policy denies.
\* "mention": a direct message, or a group message that names the bot.
\* "trigger": a group message with a trigger word that is not the bot's name.
\* "plain":   any other group message.
Kinds == {"ignored", "mention", "trigger", "plain"}

ASSUME FromType == From \in [Msg -> Sender]
ASSUME KindType == Kind \in [Msg -> Kinds]
ASSUME MaxMessagesType == MaxMessages \in Nat \ {0}
ASSUME NoSessionType == NoSession \notin Msg
ASSUME MsgFinite == IsFiniteSet(Msg)

VARIABLES
  handler,   \* handler[m]: where handleMessage(m) is, or how it ended
  buffer,    \* buffer[s]: the items of MessageAggregator.buffers.get(s)
  timers,    \* the senders with an armed aggregation timer
  sessions,  \* sessions[s]: the session object stored for s, or NoSession
  state,     \* state[x], pending[x], retryCount[x]: the fields of object x
  pending,
  retryCount,
  inner,     \* inner[p]: where the inner promise of pipeline p is suspended
  outer,     \* outer[p]: where the call that waits for it is suspended
  items,     \* items[p]: the batch p was started with
  session,   \* session[p]: the session object p holds a reference to
  extra,     \* extra[p]: the appended messages its second generation was given
  answered,  \* answered[p]: whether its answer was sent, and when
  inFlight   \* inFlightRequests

handlerVars  == <<handler>>
aggregator   == <<buffer, timers>>
manager      == <<sessions, state, pending, retryCount>>
pipelineVars == <<inner, outer, items, session, extra, answered, inFlight>>
vars == <<handlerVars, aggregator, manager, pipelineVars>>

-----------------------------------------------------------------------------
(* States *)

\* "dismissed", "empty", "appended", "stored", "submitted": the message is in
\* processedMessages; the others but "new" are in processingMessages.
Processed == {"dismissed", "empty", "appended", "stored", "submitted"}
Processing == {"parsing", "appending", "storing", "submitting"}

SessionStates == {"IDLE", "ROUTING", "CHATTING", "PROCESSING", "VALIDATING",
                  "SENDING", "DEGRADED"}
ActiveStates == {"ROUTING", "PROCESSING", "VALIDATING", "SENDING", "CHATTING"}

InnerSteps == {"routing", "chatting", "chatSending", "chatPausing", "starting",
               "generating", "closing", "failing", "regenerating", "reclosing",
               "sending", "recording"}
InnerStates == InnerSteps \cup {"off", "returned", "threw"}

\* "waiting": in the race with the timer; "apologizing": sending the excuse.
OuterSteps == {"waiting", "apologizing"}
OuterStates == OuterSteps \cup {"off", "finished", "apologized", "silent"}

\* SessionManager.isActive
IsActive(s) == sessions[s] # NoSession /\ state[sessions[s]] \in ActiveStates

\* SessionManager.transition: the field write goes through the map, so it
\* reaches whichever object is stored for s now, and none after a clear.
Transitioned(s, st) ==
  IF sessions[s] = NoSession THEN state ELSE [state EXCEPT ![sessions[s]] = st]

Unfinished(p) == outer[p] \in OuterSteps

Init ==
  /\ handler = [m \in Msg |-> "new"]
  /\ buffer = [s \in Sender |-> <<>>]
  /\ timers = {}
  /\ sessions = [s \in Sender |-> NoSession]
  /\ state = [x \in Msg |-> "IDLE"]
  /\ pending = [x \in Msg |-> <<>>]
  /\ retryCount = [x \in Msg |-> 0]
  /\ inner = [p \in Msg |-> "off"]
  /\ outer = [p \in Msg |-> "off"]
  /\ items = [p \in Msg |-> <<>>]
  /\ session = [p \in Msg |-> p]
  /\ extra = [p \in Msg |-> <<>>]
  /\ answered = [p \in Msg |-> "no"]
  /\ inFlight = 0

-----------------------------------------------------------------------------
(* Starting a pipeline *)

\* processAggregatedMessage up to its first await: getOrCreate, ROUTING, the
\* in-flight count, and the call of agentD.  A session still stored for the
\* sender is reused with its pending items and its retry count.
StartPipeline(s, batch) ==
  LET p == batch[1]
      x == IF sessions[s] = NoSession THEN p ELSE sessions[s]
  IN  /\ sessions' = [sessions EXCEPT ![s] = x]
      /\ state' = [state EXCEPT ![x] = "ROUTING"]
      /\ session' = [session EXCEPT ![p] = x]
      /\ items' = [items EXCEPT ![p] = batch]
      /\ inner' = [inner EXCEPT ![p] = "routing"]
      /\ outer' = [outer EXCEPT ![p] = "waiting"]
      /\ inFlight' = inFlight + 1
      /\ UNCHANGED <<pending, retryCount, extra, answered>>

\* Mutation of Flush: clearTimeout and timers.delete are missing.
FlushKeepsTimer(s, batch) ==
  /\ buffer' = [buffer EXCEPT ![s] = <<>>]
  /\ UNCHANGED timers
  /\ StartPipeline(s, batch)

\* MessageAggregator.flush: the timer is cleared, the buffer removed and its
\* batch handed to onSubmit.
Flush(s, batch) ==
  /\ buffer' = [buffer EXCEPT ![s] = <<>>]
  /\ timers' = timers \ {s}
  /\ StartPipeline(s, batch)

\* Mutation of Push: the immediate flush hands over the batch without m.
PushLosesItem(s, m, overdue) ==
  IF Kind[m] = "mention" /\ buffer[s] # <<>> THEN Flush(s, buffer[s])
  ELSE IF Kind[m] = "mention" THEN Flush(s, <<m>>)
  ELSE /\ buffer' = [buffer EXCEPT ![s] = Append(@, m)]
       /\ timers' = timers \cup {s}
       /\ UNCHANGED <<manager, pipelineVars>>

\* MessageAggregator.push of m.  "overdue": more than AGGREGATE_MAX_WINDOW_MS
\* have passed since the buffer was opened; a new buffer is not looked at.
Push(s, m, overdue) ==
  LET batch == Append(buffer[s], m)
      existing == buffer[s] # <<>>
  IN  IF \/ Kind[m] = "mention"
         \/ existing /\ Len(batch) >= MaxMessages
         \/ existing /\ overdue
      THEN Flush(s, batch)
      ELSE /\ buffer' = [buffer EXCEPT ![s] = batch]
           /\ timers' = timers \cup {s}
           /\ UNCHANGED <<manager, pipelineVars>>

\* The aggregation timer of s fires.
TimerFires(s) ==
  /\ s \in timers
  /\ Flush(s, buffer[s])
  /\ UNCHANGED handlerVars

-----------------------------------------------------------------------------
(* handleMessage *)

\* Mutation of Deliver: processedMessages is not consulted.
DeliverTwice(m) ==
  /\ handler[m] \notin Processing
  /\ handler' = [handler EXCEPT ![m] = "parsing"]
  /\ UNCHANGED <<aggregator, manager, pipelineVars>>

\* The WebSocket callback: a message that is being handled or was handled is
\* dropped; one from a bot or a denied sender is marked and dropped.
Deliver(m) ==
  /\ handler[m] = "new"
  /\ handler' = [handler EXCEPT ![m] = IF Kind[m] = "ignored" THEN "dismissed"
                                       ELSE "parsing"]
  /\ UNCHANGED <<aggregator, manager, pipelineVars>>

\* parseMessageWithImages throws (an image cannot be written to disk): the
\* finally block forgets the message, and Feishu may deliver it again.
ParseThrows(m) ==
  /\ handler[m] = "parsing"
  /\ handler' = [handler EXCEPT ![m] = "new"]
  /\ UNCHANGED <<aggregator, manager, pipelineVars>>

\* The message has neither text nor an image.
ParsedEmpty(m) ==
  /\ handler[m] = "parsing"
  /\ handler' = [handler EXCEPT ![m] = "empty"]
  /\ UNCHANGED <<aggregator, manager, pipelineVars>>

\* The path of a parsed message is chosen now, before recordUserMessage
\* suspends the handler: an active session wins over the group pre-filter.
Parsed(m) ==
  /\ handler[m] = "parsing"
  /\ handler' = [handler EXCEPT ![m] =
       IF IsActive(From[m]) THEN "appending"
       ELSE IF Kind[m] = "plain" THEN "storing" ELSE "submitting"]
  /\ UNCHANGED <<aggregator, manager, pipelineVars>>

\* recordUserMessage resumes the append path; appendItem looks the session up
\* again and does nothing when it is gone.
Appended(m) ==
  LET x == sessions[From[m]]
  IN  /\ handler[m] = "appending"
      /\ handler' = [handler EXCEPT ![m] = "appended"]
      /\ pending' = IF x = NoSession THEN pending
                    ELSE [pending EXCEPT ![x] = Append(@, m)]
      /\ UNCHANGED <<aggregator, sessions, state, retryCount, pipelineVars>>

\* recordUserMessage resumes the path of a message nobody asked the bot about.
Stored(m) ==
  /\ handler[m] = "storing"
  /\ handler' = [handler EXCEPT ![m] = "stored"]
  /\ UNCHANGED <<aggregator, manager, pipelineVars>>

\* recordUserMessage resumes the path to the aggregator.
Submitted(m) ==
  /\ handler[m] = "submitting"
  /\ handler' = [handler EXCEPT ![m] = "submitted"]
  /\ \E overdue \in BOOLEAN : Push(From[m], m, overdue)

-----------------------------------------------------------------------------
(* processAggregatedMessage *)

\* Mutation of Release: the session is never cleared.
ReleaseKeepsSession(s, st) ==
  /\ state' = Transitioned(s, st)
  /\ UNCHANGED <<sessions, pending, retryCount>>

\* Mutation of Release: clearing the session empties its object's pending items,
\* which a pipeline that still runs holds too.
ReleaseDropsPending(s, st) ==
  /\ state' = Transitioned(s, st)
  /\ sessions' = [sessions EXCEPT ![s] = NoSession]
  /\ pending' = IF sessions[s] = NoSession THEN pending
                ELSE [pending EXCEPT ![sessions[s]] = <<>>]
  /\ UNCHANGED retryCount

\* transition(sender, st) followed by clear(sender).
Release(s, st) ==
  /\ state' = Transitioned(s, st)
  /\ sessions' = [sessions EXCEPT ![s] = NoSession]
  /\ UNCHANGED <<pending, retryCount>>

\* The finally block of the outer call, with how it ended.
OuterEnds(p, how) ==
  /\ outer' = [outer EXCEPT ![p] = how]
  /\ inFlight' = inFlight - 1

\* Mutation of InnerReturns: the in-flight count is decremented by the inner
\* promise as well.
InnerReturnsTwice(p) ==
  /\ inner' = [inner EXCEPT ![p] = "returned"]
  /\ Release(From[p], "IDLE")
  /\ IF outer[p] = "waiting" THEN OuterEnds(p, "finished")
     ELSE /\ inFlight' = inFlight - 1
          /\ UNCHANGED outer

\* The inner promise is done: the sender's session is cleared, whichever that
\* is by now, and the outer call ends unless the timer ended it before.
InnerReturns(p) ==
  /\ inner' = [inner EXCEPT ![p] = "returned"]
  /\ Release(From[p], "IDLE")
  /\ IF outer[p] = "waiting" THEN OuterEnds(p, "finished")
     ELSE UNCHANGED <<outer, inFlight>>

\* The inner promise rejects.  The outer call sends an excuse, except for an
\* error whose text contains "timed out"; after a timeout nobody listens.
InnerThrows(p, timeoutText) ==
  /\ inner' = [inner EXCEPT ![p] = "threw"]
  /\ \/ /\ outer[p] = "waiting" /\ timeoutText
        /\ Release(From[p], "DEGRADED")
        /\ OuterEnds(p, "silent")
     \/ /\ outer[p] = "waiting" /\ ~timeoutText
        /\ outer' = [outer EXCEPT ![p] = "apologizing"]
        /\ UNCHANGED <<manager, inFlight>>
     \/ /\ outer[p] # "waiting"
        /\ UNCHANGED <<manager, outer, inFlight>>

\* The inner promise runs on to its next await; st is the state it sets first.
InnerGoesOn(p, step, st) ==
  /\ inner' = [inner EXCEPT ![p] = step]
  /\ state' = Transitioned(From[p], st)
  /\ UNCHANGED <<sessions, pending, retryCount, outer, inFlight>>

\* The inner promise goes from one await to the next and touches nothing.
InnerWaits(p, from, to) ==
  /\ inner[p] = from
  /\ inner' = [inner EXCEPT ![p] = to]
  /\ UNCHANGED <<handlerVars, aggregator, manager, outer, items, session, extra,
                 answered, inFlight>>

\* agentD decided; its errors count as "answer the question".
Routed(p) ==
  /\ inner[p] = "routing"
  /\ \/ InnerReturns(p)
     \/ InnerGoesOn(p, "chatting", "CHATTING")
     \/ InnerGoesOn(p, "starting", "PROCESSING")
  /\ UNCHANGED <<handlerVars, aggregator, items, session, extra, answered>>

\* agentA wrote the small talk (it has a canned text for its own failures).
ChatWritten(p) == InnerWaits(p, "chatting", "chatSending")

\* The turn is opened in MySQL, or could not be, and generateReply starts.
TurnStarted(p) == InnerWaits(p, "starting", "generating")

\* generateReply resolves or rejects; finishAiTurn records which.
Generated(p) == InnerWaits(p, "generating", "closing")
GenerationFails(p) == InnerWaits(p, "generating", "failing")

FailureRecorded(p) ==
  /\ inner[p] = "failing"
  /\ \E timeoutText \in BOOLEAN : InnerThrows(p, timeoutText)
  /\ UNCHANGED <<handlerVars, aggregator, items, session, extra, answered>>

\* VALIDATING: what was appended meanwhile to the object p holds is taken out
\* and answered by a second generation, once per session; otherwise p sends.
Validated(p) ==
  LET x == session[p]
  IN  /\ inner[p] = "closing"
      /\ IF pending[x] # <<>> /\ retryCount[x] < 1
         THEN /\ retryCount' = [retryCount EXCEPT ![x] = @ + 1]
              /\ extra' = [extra EXCEPT ![p] = pending[x]]
              /\ pending' = [pending EXCEPT ![x] = <<>>]
              /\ state' = Transitioned(From[p], "PROCESSING")
              /\ inner' = [inner EXCEPT ![p] = "regenerating"]
              /\ UNCHANGED <<sessions, outer, inFlight>>
         ELSE /\ InnerGoesOn(p, "sending", "SENDING")
              /\ UNCHANGED extra
      /\ UNCHANGED <<handlerVars, aggregator, items, session, answered>>

\* The second generation ends, either way; its failure keeps the first answer.
Regenerated(p) == InnerWaits(p, "regenerating", "reclosing")

RetryRecorded(p) ==
  /\ inner[p] = "reclosing"
  /\ InnerGoesOn(p, "sending", "SENDING")
  /\ UNCHANGED <<handlerVars, aggregator, items, session, extra, answered>>

\* The last chunk is accepted by Feishu.
MarkAnswered(p) ==
  answered' = [answered EXCEPT ![p] = IF outer[p] = "waiting" THEN "inTime"
                                      ELSE "late"]

Sent(p) ==
  /\ \/ inner[p] = "sending" /\ inner' = [inner EXCEPT ![p] = "recording"]
     \/ inner[p] = "chatSending" /\ inner' = [inner EXCEPT ![p] = "chatPausing"]
  /\ MarkAnswered(p)
  /\ UNCHANGED <<handlerVars, aggregator, manager, outer, items, session, extra,
                 inFlight>>

SendFails(p) ==
  /\ inner[p] \in {"sending", "chatSending"}
  /\ \E timeoutText \in BOOLEAN : InnerThrows(p, timeoutText)
  /\ UNCHANGED <<handlerVars, aggregator, items, session, extra, answered>>

\* Mutation of AnswerRecorded: recordAssistantMessage does not catch its errors.
AnswerRecordingThrows(p) ==
  /\ inner[p] \in {"recording", "chatPausing"}
  /\ InnerReturns(p) \/ InnerThrows(p, FALSE)
  /\ UNCHANGED <<handlerVars, aggregator, items, session, extra, answered>>

\* The pause after the last chunk and, but for small talk,
\* recordAssistantMessage are over; the answer enters the history.
AnswerRecorded(p) ==
  /\ inner[p] \in {"recording", "chatPausing"}
  /\ InnerReturns(p)
  /\ UNCHANGED <<handlerVars, aggregator, items, session, extra, answered>>

\* Mutation of TimesOut: only the generation is raced with the timer.
TimesOutGenerating(p) ==
  /\ outer[p] = "waiting"
  /\ inner[p] \in {"generating", "regenerating"}
  /\ OuterEnds(p, "silent")
  /\ Release(From[p], "DEGRADED")
  /\ UNCHANGED <<handlerVars, aggregator, inner, items, session, extra, answered>>

\* Mutation of TimesOut: the session is left to the inner promise.
TimesOutKeepsSession(p) ==
  /\ outer[p] = "waiting"
  /\ OuterEnds(p, "silent")
  /\ UNCHANGED <<handlerVars, aggregator, manager, inner, items, session, extra,
                 answered>>

\* The race is lost to the timer: the outer call ends, the inner promise is
\* not told.
TimesOut(p) ==
  /\ outer[p] = "waiting"
  /\ OuterEnds(p, "silent")
  /\ Release(From[p], "DEGRADED")
  /\ UNCHANGED <<handlerVars, aggregator, inner, items, session, extra, answered>>

\* The excuse was sent or could not be.
Apologized(p) ==
  /\ outer[p] = "apologizing"
  /\ OuterEnds(p, "apologized")
  /\ Release(From[p], "DEGRADED")
  /\ UNCHANGED <<handlerVars, aggregator, inner, items, session, extra, answered>>

-----------------------------------------------------------------------------
(* The specification *)

HandlerStep(m) ==
  \/ Deliver(m) \/ ParseThrows(m) \/ ParsedEmpty(m) \/ Parsed(m)
  \/ Appended(m) \/ Stored(m) \/ Submitted(m)

InnerStep(p) ==
  \/ Routed(p) \/ ChatWritten(p)
  \/ TurnStarted(p) \/ Generated(p) \/ GenerationFails(p) \/ FailureRecorded(p)
  \/ Validated(p) \/ Regenerated(p) \/ RetryRecorded(p)
  \/ Sent(p) \/ SendFails(p) \/ AnswerRecorded(p)

OuterStep(p) == TimesOut(p) \/ Apologized(p)

Next ==
  \/ \E s \in Sender : TimerFires(s)
  \/ \E m \in Msg : HandlerStep(m) \/ InnerStep(m) \/ OuterStep(m)

Spec == Init /\ [][Next]_vars

\* Both timers fire.  Nothing is assumed of the network, the model or MySQL:
\* none of those calls is bounded by a timeout of the service's own on every
\* path, so a handler, an inner promise or an apology may hang.
Fairness ==
  /\ \A s \in Sender : WF_vars(TimerFires(s))
  /\ \A p \in Msg : WF_vars(TimesOut(p))

FairSpec == Spec /\ Fairness

-----------------------------------------------------------------------------
(* Safety *)

\* The type of every variable.
TypeOK ==
  /\ handler \in [Msg -> {"new"} \cup Processing \cup Processed]
  /\ buffer \in [Sender -> Seq(Msg)]
  /\ timers \subseteq Sender
  /\ sessions \in [Sender -> Msg \cup {NoSession}]
  /\ state \in [Msg -> SessionStates]
  /\ pending \in [Msg -> Seq(Msg)]
  /\ retryCount \in [Msg -> Nat]
  /\ inner \in [Msg -> InnerStates]
  /\ outer \in [Msg -> OuterStates]
  /\ items \in [Msg -> Seq(Msg)]
  /\ session \in [Msg -> Msg]
  /\ extra \in [Msg -> Seq(Msg)]
  /\ answered \in [Msg -> {"no", "inTime", "late"}]
  /\ inFlight \in Nat

\* A stored session belongs to its sender, and the pipeline that created it is
\* still running: whichever way pipelines of one sender overlap, time out and
\* clear each other's sessions (SessionManager.clear is keyed by sender), no
\* sender is left with a session that swallows every later message.
SessionHasOwner ==
  \A s \in Sender : sessions[s] # NoSession =>
    From[sessions[s]] = s /\ Unfinished(sessions[s])

\* A stored session is active.  handleMessage therefore appends to it, and
\* getOrCreate never revives a finished session's retry count and pending items
\* (cleanupIdle, which removes IDLE sessions, never finds one).
StoredSessionActive == \A s \in Sender : sessions[s] # NoSession => IsActive(s)

\* inFlightRequests, which the graceful shutdown waits on, counts the outer
\* calls that have not ended, through overlapping pipelines and timeouts.
InFlightCount == inFlight = Cardinality({p \in Msg : Unfinished(p)})

\* The sequences a message can be in: a buffer, a batch, a session's pending
\* items, the messages a second generation was given.
Queues == ({"buffer"} \X Sender) \cup ({"items", "pending", "extra"} \X Msg)
Content(q) ==
  CASE q[1] = "buffer"  -> buffer[q[2]]
    [] q[1] = "items"   -> items[q[2]]
    [] q[1] = "pending" -> pending[q[2]]
    [] q[1] = "extra"   -> extra[q[2]]

\* A message is worked on at most once: it never sits in two sequences or twice
\* in one, across flushes, retries, and a redelivery after a failed parse.
UsedOnce ==
  \A a, b \in Queues : \A i \in DOMAIN Content(a), j \in DOMAIN Content(b) :
    Content(a)[i] = Content(b)[j] => a = b /\ i = j

\* A message pushed to the aggregator waits in its sender's buffer or is in the
\* batch of a pipeline that was started: no flush path loses it.
SubmittedIsHeld ==
  \A m \in Msg : handler[m] = "submitted" =>
    \/ m \in Range(buffer[From[m]])
    \/ \E p \in Msg : m \in Range(items[p]) /\ outer[p] # "off"

\* A buffer is waiting exactly when its timer is armed: push, flush and the
\* timer itself never leave a batch that nothing will flush, nor a timer that
\* would flush the next batch too early.
BufferArmed == \A s \in Sender : buffer[s] # <<>> <=> s \in timers

\* The excuse is never sent on top of a complete answer: after the last chunk
\* is out, nothing the pipeline still awaits can reject.
NoExcuseAfterAnswer ==
  \A p \in Msg : outer[p] \in {"apologizing", "apologized"} => answered[p] = "no"

\* Pipelines that share a session share its retry budget: at most one of them
\* runs a second generation.
OneRetryPerSession ==
  \A p, q \in Msg :
    extra[p] # <<>> /\ extra[q] # <<>> /\ session[p] = session[q] => p = q

-----------------------------------------------------------------------------
(* The invariant the safety proofs rest on *)

\* What is in a buffer has been submitted by its sender and never been started;
\* only a submitted message starts a pipeline; one that was not started has no
\* trace in the variables of pipelines.
Fresh ==
  /\ \A s \in Sender : \A m \in Range(buffer[s]) :
       From[m] = s /\ handler[m] = "submitted" /\ outer[m] = "off"
  /\ \A m \in Msg : handler[m] # "submitted" => outer[m] = "off"
  /\ \A p \in Msg : outer[p] = "off" =>
       inner[p] = "off" /\ answered[p] = "no" /\ extra[p] = <<>>

\* An excuse follows a rejection; only a pipeline past its last chunk has answered.
EndsApart ==
  \A p \in Msg :
    /\ outer[p] \in {"apologizing", "apologized"} => inner[p] = "threw"
    /\ answered[p] # "no" => inner[p] \in {"recording", "chatPausing", "returned"}

\* A second generation was paid for from the retry budget of the session object.
RetryPaid == \A p \in Msg : extra[p] # <<>> => retryCount[session[p]] >= 1

\* The steps of an inner promise before its second generation, if any.
FirstSteps == {"routing", "chatting", "chatSending", "chatPausing", "starting",
               "generating", "closing", "failing"}

\* Which messages each sequence can hold: a batch has submitted ones, its first
\* one among them, and exists once its pipeline is started; the pending items
\* of a session were appended by its owner's sender; a second generation was
\* given appended messages, and never before the first one.
InPlace ==
  /\ \A p \in Msg : \A m \in Range(items[p]) : handler[m] = "submitted"
  /\ \A p \in Msg : IF outer[p] = "off" THEN items[p] = <<>> ELSE p \in Range(items[p])
  /\ \A x \in Msg : \A m \in Range(pending[x]) :
       handler[m] = "appended" /\ From[m] = From[x]
  /\ \A p \in Msg : \A m \in Range(extra[p]) : handler[m] = "appended"
  /\ \A p \in Msg : inner[p] \in FirstSteps => extra[p] = <<>>

-----------------------------------------------------------------------------
(* Action properties and liveness *)

\* p comes to its validation with m pending and the retry budget unspent, unless
\* it stops before: Unvalidated are the steps that lead there.
Unvalidated == {"routing", "starting", "generating", "closing"}
WillRead(p, m) ==
  /\ inner[p] \in Unvalidated
  /\ m \in Range(pending[session[p]])
  /\ retryCount[session[p]] < 1

\* A second generation of the session that p works with is given m.
GivenToGeneration(p, m) ==
  \E q \in Msg : /\ session'[q] = session[p] /\ inner'[q] = "regenerating"
                 /\ m \in Range(extra'[q])

\* p refuses its batch, makes small talk of it, or its generation fails.
StopsBefore(p) == inner'[p] \in {"returned", "chatting", "failing"}

\* An appended message that a pipeline is going to read is not taken from under
\* it: a timeout, a clear by another pipeline of the sender, a new pipeline that
\* takes the session object over and the splice by one that shares it leave the
\* message to p's validation or have given it to a second generation of the
\* session.  Only p itself may stop before.  Messages nobody was going to read
\* (appended past the validation, the budget, or the pipeline's end) are lost at
\* the clear and are not spoken of here; AppendedReachesPipeline is about them.
PendingIsRead ==
  [][\A p, m \in Msg :
       WillRead(p, m) => WillRead(p, m)' \/ GivenToGeneration(p, m) \/ StopsBefore(p)]_vars

\* A message pushed to the aggregator is in the end part of a pipeline, and that
\* pipeline is in the end not waited for any more, whatever hangs inside it.
SubmittedIsServed ==
  \A m \in Msg : handler[m] = "submitted" ~>
    \E p \in Msg : m \in Range(items[p]) /\ outer[p] \notin {"off", "waiting"}

-----------------------------------------------------------------------------
(* What the service says of itself and does not keep *)

\* "Active session: append message to existing pipeline": an appended message is
\* pending in a session whose pipeline runs, or was given to a generation.
AppendedReachesPipeline ==
  \A m \in Msg : handler[m] = "appended" =>
    \E p \in Msg : \/ m \in Range(extra[p])
                   \/ m \in Range(pending[session[p]]) /\ inner[p] \in InnerSteps

=============================================================================
