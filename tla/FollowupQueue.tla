---------------------------- MODULE FollowupQueue ----------------------------
(***************************************************************************)
(* The follow-up queue of one session of the legacy gateway                *)
(* (src/auto-reply/reply/queue, src/utils/queue-helpers.ts and the ends of *)
(* runReplyAgent that touch it): messages that arrive while the agent is   *)
(* busy are queued, and a drain runs them afterwards.                      *)
(*                                                                         *)
(* FOLLOWUP_QUEUES maps the session's key to a queue object; clearing a    *)
(* session removes the object from the map but not from a drain that is    *)
(* using it, so that several objects of one key can be alive.  Sessions    *)
(* share nothing here, one is enough.  Every await is a step; the debounce *)
(* is a wait of any length.  queue.mode is "collect", or "followup" for    *)
(* each of the other modes that queue.                                     *)
(***************************************************************************)
EXTENDS Integers, Sequences, SequencesExt, FiniteSets

CONSTANTS
  Msg,            \* the messages, by message id
  Auth,           \* Auth[m]: resolveFollowupAuthorizationKey of its run
  Route,          \* Route[m]: where its answer goes, resolveCrossChannelKey
  Modes,          \* the modes of the queue that are looked at
  Policies,       \* the drop policies that are looked at
  Cap,            \* queue.cap: 20 by default
  MaxQueues,      \* bound of the model: queue objects of the session
  MaxDisruptions  \* bound of the model: clears, runs that throw, runs of others,
                  \* repeated deliveries and marks that expire

ASSUME ModesType == Modes \subseteq {"collect", "followup"}
ASSUME PoliciesType == Policies \subseteq {"old", "new", "summarize"}
ASSUME CapType == Cap \in Nat \ {0}
ASSUME MaxQueuesType == MaxQueues \in Nat

Queues == 1 .. MaxQueues
None == <<"none">>

VARIABLES
  mode, policy,  \* the settings, which stay as they are
  delivered,     \* the messages delivered at least once
  recent,        \* RECENT_QUEUE_MESSAGE_IDS
  starting,      \* the messages found free to run, before their reply operation
  op,            \* the reply operation of the session: <<"direct", m>>,
                 \* <<"drain", q>> or None
  other,         \* a run that did not come from a message is active
  current,       \* the queue object in FOLLOWUP_QUEUES, or 0
  made,          \* how many objects were made
  items,         \* items[q]
  dropped,       \* dropped[q]: the messages droppedCount counts
  drain,         \* drain[q]: where its drain is, "off" when queue.draining is FALSE
  single,        \* single[q]: collectState.forceIndividualCollect of the drain
  batch,         \* batch[q]: the items the next or current run takes off the queue
  groups,        \* groups[q]: the authorization groups that follow in this round
  prompt,        \* prompt[q]: what the run is given: "items", "summary" or "both"
  disruptions,   \* how many disruptions there have been
  accepted,      \* the messages that were queued
  ran,           \* those whose prompt a run of a drain has completed
  cleared,       \* those cleared with their session
  runs,          \* runs[m]: how often a drain may still start it: once, and once
                 \* more for a run that threw or a mark that expired
  overflowed,    \* a message was dropped for the cap
  cutOff,        \* the session was cleared while a drain was at work
  unattended     \* a message was queued while only the run of others was active

settings == <<mode, policy>>
arrival  == <<delivered, recent, starting>>
queue    == <<current, made, items, dropped>>
draining == <<drain, single, batch, groups, prompt>>
history  == <<accepted, ran, cleared, runs, overflowed, cutOff, unattended>>
vars == <<settings, arrival, op, other, queue, draining, disruptions, history>>

First(s, n) == SubSeq(s, 1, n)
Rest(s, n)  == SubSeq(s, n + 1, Len(s))

Init ==
  /\ mode \in Modes /\ policy \in Policies
  /\ delivered = {} /\ recent = {} /\ starting = {}
  /\ op = None /\ other = FALSE
  /\ current = 0 /\ made = 0
  /\ items = [q \in Queues |-> <<>>] /\ dropped = [q \in Queues |-> <<>>]
  /\ drain = [q \in Queues |-> "off"] /\ single = [q \in Queues |-> FALSE]
  /\ batch = [q \in Queues |-> <<>>] /\ groups = [q \in Queues |-> <<>>]
  /\ prompt = [q \in Queues |-> "items"]
  /\ disruptions = 0
  /\ accepted = {} /\ ran = {} /\ cleared = {} /\ runs = [m \in Msg |-> 1]
  /\ overflowed = FALSE /\ cutOff = FALSE /\ unattended = FALSE

\* isEmbeddedPiRunActive for the session.
Active == op # None \/ other

Disrupt == /\ disruptions < MaxDisruptions
           /\ disruptions' = disruptions + 1

-----------------------------------------------------------------------------
(* scheduleFollowupDrain and the end of a drain *)

Empty(q, its, drp) == its[q] = <<>> /\ drp[q] = <<>>

\* beginQueueDrain: the drain of the object in the map starts unless it is
\* running; one that finds nothing ends at once and removes the key.
Schedule(d, its, drp) ==
  IF current = 0 \/ d[IF current = 0 THEN 1 ELSE current] # "off"
  THEN drain' = d /\ UNCHANGED current
  ELSE IF Empty(current, its, drp)
       THEN drain' = d /\ current' = 0
       ELSE drain' = [d EXCEPT ![current] = "debounce"] /\ UNCHANGED current

\* The finally block of the drain of q: the key is removed, whichever object it
\* stands for by now, or the drain of that object is scheduled.
EndDrain(q, its, drp) ==
  LET d == [drain EXCEPT ![q] = "off"]
  IN  IF Empty(q, its, drp)
      THEN drain' = d /\ current' = 0
      ELSE Schedule(d, its, drp)

\* The state a drain has of its own is gone with it.
ForgetRound(q) ==
  /\ batch' = [batch EXCEPT ![q] = <<>>]
  /\ groups' = [groups EXCEPT ![q] = <<>>]
  /\ prompt' = [prompt EXCEPT ![q] = "items"]

-----------------------------------------------------------------------------
(* runReplyAgent *)

\* applyQueueDropPolicy at the cap, for a queue of length Cap: the oldest makes
\* room, and with "summarize" it is counted for the next summary.
MakeRoom(q) ==
  IF Len(items[q]) < Cap
  THEN /\ UNCHANGED <<dropped, overflowed>>
  ELSE /\ dropped' = IF policy = "summarize"
                     THEN [dropped EXCEPT ![q] = @ \o First(items[q], Len(items[q]) - Cap + 1)]
                     ELSE dropped
       /\ overflowed' = TRUE

Roomy(q) == Rest(items[q], IF Len(items[q]) < Cap THEN 0 ELSE Len(items[q]) - Cap + 1)

\* Mutation of Enqueue: the message is queued however often it comes.
EnqueueAgain(m, q) ==
  /\ MakeRoom(q)
  /\ items' = [items EXCEPT ![q] = Append(Roomy(q), m)]
  /\ recent' = recent \cup {m}
  /\ accepted' = accepted \cup {m}
  /\ unattended' = (unattended \/ op = None)
  /\ UNCHANGED <<cleared, runs>>

\* enqueueFollowupRun into object q, from runReplyAgent, which leaves it to the
\* end of the active run to schedule the drain.
Enqueue(m, q) ==
  \/ /\ m \in recent \/ m \in ToSet(items[q]) \/ (Len(items[q]) >= Cap /\ policy = "new")
     /\ UNCHANGED <<recent, items, dropped, accepted, cleared, runs, overflowed, unattended>>
  \/ /\ m \notin recent \cup ToSet(items[q])
     /\ Len(items[q]) >= Cap => policy # "new"
     /\ MakeRoom(q)
     /\ items' = [items EXCEPT ![q] = Append(Roomy(q), m)]
     /\ recent' = recent \cup {m}
     /\ accepted' = accepted \cup {m}
     /\ unattended' = (unattended \/ op = None)
     /\ UNCHANGED <<cleared, runs>>

\* A message arrives: queued when a run is active, and on its way to a run of
\* its own otherwise.  Nothing is awaited between the look at the active run and
\* the queue, so the second look after enqueueFollowupRun finds the same.
Arrive(m) ==
  /\ IF m \in delivered THEN Disrupt ELSE UNCHANGED disruptions
  /\ delivered' = delivered \cup {m}
  /\ \/ /\ Active
        /\ \/ /\ current # 0
              /\ Enqueue(m, current)
              /\ UNCHANGED <<current, made>>
           \/ /\ current = 0 /\ made < MaxQueues
              /\ current' = made + 1 /\ made' = made + 1
              /\ Enqueue(m, made + 1)
        /\ UNCHANGED starting
     \/ /\ ~Active /\ m \notin starting
        /\ starting' = starting \cup {m}
        /\ UNCHANGED <<recent, queue, accepted, cleared, runs, overflowed, unattended>>
  /\ UNCHANGED <<settings, op, other, draining, ran, cutOff>>

\* createReplyOperation for a message of its own: granted, or refused with an
\* answer that says so when another run has begun in the meantime.
Begin(m) ==
  /\ m \in starting
  /\ starting' = starting \ {m}
  /\ op' = IF op = None THEN <<"direct", m>> ELSE op
  /\ UNCHANGED <<settings, delivered, recent, other, queue, draining, disruptions, history>>

\* Mutation of DirectEnds: a run that fails does not look at the queue.
DirectEndsQuietly ==
  /\ op[1] = "direct"
  /\ op' = None
  /\ UNCHANGED <<settings, arrival, other, queue, draining, disruptions, history>>

\* Every end of a direct run goes through finalizeWithFollowup.
DirectEnds ==
  /\ op[1] = "direct"
  /\ op' = None
  /\ Schedule(drain, items, dropped)
  /\ UNCHANGED <<settings, arrival, other, made, items, dropped, single, batch, groups, prompt,
                 disruptions, history>>

\* A run of the session that runReplyAgent did not start (a command, a job) is
\* active for a while; its end looks at no queue.
OtherBegins ==
  /\ ~other /\ Disrupt
  /\ other' = TRUE
  /\ UNCHANGED <<settings, arrival, op, queue, draining, history>>

OtherEnds ==
  /\ other
  /\ other' = FALSE
  /\ UNCHANGED <<settings, arrival, op, queue, draining, disruptions, history>>

-----------------------------------------------------------------------------
(* The loop of scheduleFollowupDrain *)

CrossChannel(q) == Cardinality({Route[m] : m \in ToSet(items[q])}) > 1

\* splitCollectItemsByAuthorization: the length of the first group of s.
GroupLength(s) ==
  CHOOSE n \in 1 .. Len(s) :
    /\ \A i \in 1 .. n : Auth[s[i]] = Auth[s[1]]
    /\ n < Len(s) => Auth[s[n + 1]] # Auth[s[1]]

\* previewQueueSummaryPrompt has something to say.
Overflow(q) == policy = "summarize" /\ dropped[q] # <<>>

\* Mutation of Round: the summary of an overflow is not looked at.
RoundOfOne(q) ==
  IF items[q] = <<>> THEN [batch |-> <<>>, groups |-> <<>>, prompt |-> "none"]
  ELSE [batch |-> First(items[q], 1), groups |-> <<>>, prompt |-> "items"]

\* What one round of the loop runs first: an item of its own, all items up to
\* the first change of authorization, or the summary of what was dropped (which
\* outside collect mode takes the oldest item's place); "none" breaks the loop.
Round(q) ==
  LET one == First(items[q], 1)
      group == First(items[q], GroupLength(items[q]))
  IN  IF mode = "followup"
      THEN IF items[q] = <<>> THEN [batch |-> <<>>, groups |-> <<>>, prompt |-> "none"]
           ELSE [batch |-> one, groups |-> <<>>, prompt |-> IF Overflow(q) THEN "summary" ELSE "items"]
      ELSE IF items[q] = <<>>
           THEN [batch |-> <<>>, groups |-> <<>>, prompt |-> IF Overflow(q) THEN "summary" ELSE "none"]
           ELSE IF single[q] \/ CrossChannel(q)
                THEN [batch |-> one, groups |-> <<>>, prompt |-> "items"]
                ELSE [batch |-> group, groups |-> Rest(items[q], Len(group)),
                      prompt |-> IF Overflow(q) THEN "both" ELSE "items"]

\* The debounce is over.
Wake(q) ==
  /\ drain[q] = "debounce"
  /\ LET r == Round(q)
     IN  IF r.prompt = "none"
         THEN /\ EndDrain(q, items, dropped)
              /\ ForgetRound(q)
              /\ single' = [single EXCEPT ![q] = FALSE]
         ELSE /\ drain' = [drain EXCEPT ![q] = "starting"]
              /\ batch' = [batch EXCEPT ![q] = r.batch]
              /\ groups' = [groups EXCEPT ![q] = r.groups]
              /\ prompt' = [prompt EXCEPT ![q] = r.prompt]
              /\ single' = [single EXCEPT ![q] = mode = "collect" /\ (@ \/ CrossChannel(q))]
              /\ UNCHANGED current
  /\ UNCHANGED <<settings, arrival, op, other, made, items, dropped, disruptions, history>>

\* The messages whose text the run is given.
Prompted(q) == IF prompt[q] = "summary" THEN {} ELSE ToSet(batch[q])

\* createReplyOperation in the follow-up run: it throws when the session has a
\* reply operation already, and the drain starts over.
RunStarts(q) ==
  /\ drain[q] = "starting"
  /\ \/ /\ op = None
        /\ op' = <<"drain", q>>
        /\ drain' = [drain EXCEPT ![q] = "running"]
        /\ runs' = [m \in Msg |-> runs[m] - (IF m \in Prompted(q) THEN 1 ELSE 0)]
        /\ UNCHANGED <<current, single, batch, groups, prompt>>
     \/ /\ op # None
        /\ EndDrain(q, items, dropped)
        /\ ForgetRound(q)
        /\ single' = [single EXCEPT ![q] = FALSE]
        /\ UNCHANGED <<op, runs>>
  /\ UNCHANGED <<settings, arrival, other, made, items, dropped, disruptions,
                 accepted, ran, cleared, overflowed, cutOff, unattended>>

\* The run is over: as many items as it was given go from the front of the
\* queue, whatever is there by now, and so does the summary it was given.
\* Then the next group runs, or the next round, or the drain ends.
RunEnds(q) ==
  /\ drain[q] = "running"
  /\ op' = None
  /\ ran' = ran \cup Prompted(q)
  /\ items' = [items EXCEPT ![q] = Rest(@, Len(batch[q]))]
  /\ dropped' = IF prompt[q] = "items" THEN dropped ELSE [dropped EXCEPT ![q] = <<>>]
  /\ IF groups[q] # <<>>
     THEN LET n == GroupLength(groups[q])
          IN  /\ drain' = [drain EXCEPT ![q] = "starting"]
              /\ batch' = [batch EXCEPT ![q] = First(groups[q], n)]
              /\ groups' = [groups EXCEPT ![q] = Rest(@, n)]
              /\ prompt' = [prompt EXCEPT ![q] = "items"]
              /\ UNCHANGED <<current, single>>
     ELSE /\ ForgetRound(q)
          /\ IF Empty(q, items', dropped')
             THEN /\ EndDrain(q, items', dropped')
                  /\ single' = [single EXCEPT ![q] = FALSE]
             ELSE /\ drain' = [drain EXCEPT ![q] = "debounce"]
                  /\ UNCHANGED <<current, single>>
  /\ UNCHANGED <<settings, arrival, other, made, disruptions,
                 accepted, cleared, runs, overflowed, cutOff, unattended>>

\* Mutation of RunThrows: what was run is taken off all the same.
RunThrowsAway(q) ==
  /\ drain[q] = "running" /\ Disrupt
  /\ op' = None
  /\ items' = [items EXCEPT ![q] = Rest(@, Len(batch[q]))]
  /\ EndDrain(q, items', dropped)
  /\ ForgetRound(q)
  /\ single' = [single EXCEPT ![q] = FALSE]
  /\ UNCHANGED <<settings, arrival, other, made, dropped, history>>

\* The run throws, for instance when its answer cannot be sent: the queue stays
\* as it is and the drain starts over.
RunThrows(q) ==
  /\ drain[q] = "running" /\ Disrupt
  /\ op' = None
  /\ EndDrain(q, items, dropped)
  /\ ForgetRound(q)
  /\ single' = [single EXCEPT ![q] = FALSE]
  /\ runs' = [m \in Msg |-> runs[m] + (IF m \in Prompted(q) THEN 1 ELSE 0)]
  /\ UNCHANGED <<settings, arrival, other, made, items, dropped,
                 accepted, ran, cleared, overflowed, cutOff, unattended>>

-----------------------------------------------------------------------------
(* clearSessionQueues, and the time to live of a mark *)

Clear ==
  /\ current # 0 /\ Disrupt
  /\ items' = [items EXCEPT ![current] = <<>>]
  /\ dropped' = [dropped EXCEPT ![current] = <<>>]
  /\ current' = 0
  /\ cleared' = cleared \cup ToSet(items[current]) \cup ToSet(dropped[current])
  /\ cutOff' = (cutOff \/ drain[current] # "off")
  /\ UNCHANGED <<settings, arrival, op, other, made, draining,
                 accepted, ran, runs, overflowed, unattended>>

Expire(m) ==
  /\ m \in recent /\ Disrupt
  /\ recent' = recent \ {m}
  /\ runs' = [runs EXCEPT ![m] = @ + 1]
  /\ UNCHANGED <<settings, delivered, starting, op, other, queue, draining,
                 accepted, ran, cleared, overflowed, cutOff, unattended>>

DrainStep(q) == Wake(q) \/ RunStarts(q) \/ RunEnds(q)

Next ==
  \/ \E m \in Msg : Arrive(m) \/ Begin(m) \/ Expire(m)
  \/ DirectEnds \/ OtherBegins \/ OtherEnds \/ Clear
  \/ \E q \in Queues : DrainStep(q) \/ RunThrows(q)

Spec == Init /\ [][Next]_vars

\* A debounce ends, a run is answered or times out (every model call has a
\* timeout), and what is about to start does.
FairSpec ==
  /\ Spec
  /\ WF_vars(DirectEnds) /\ WF_vars(OtherEnds)
  /\ \A m \in Msg : WF_vars(Begin(m))
  /\ \A q \in Queues : WF_vars(DrainStep(q))

-----------------------------------------------------------------------------
(* Properties *)

TypeOK ==
  /\ mode \in Modes /\ policy \in Policies
  /\ delivered \subseteq Msg /\ recent \subseteq Msg /\ starting \subseteq Msg
  /\ op \in {None} \cup ({"direct"} \X Msg) \cup ({"drain"} \X Queues)
  /\ other \in BOOLEAN
  /\ current \in 0 .. made /\ made \in 0 .. MaxQueues
  /\ items \in [Queues -> Seq(Msg)] /\ dropped \in [Queues -> Seq(Msg)]
  /\ drain \in [Queues -> {"off", "debounce", "starting", "running"}]
  /\ single \in [Queues -> BOOLEAN]
  /\ batch \in [Queues -> Seq(Msg)] /\ groups \in [Queues -> Seq(Msg)]
  /\ prompt \in [Queues -> {"items", "summary", "both"}]
  /\ runs \in [Msg -> Int]

Waiting == UNION {ToSet(items[q]) : q \in Queues}

\* A queue with something in it has a drain at work, or is in the map while a
\* direct run is active whose end will schedule one, unless the session was
\* cleared under a running drain or a message came while only the run of others
\* was active (finalizeWithFollowup at every end of runReplyAgent, the finally
\* block of the drain).
WorkIsDriven ==
  cutOff \/ unattended \/
  \A q \in Queues :
    ~Empty(q, items, dropped) => drain[q] # "off" \/ (q = current /\ op[1] = "direct")

\* A queued message waits until a run was given its text, or its session was
\* cleared, through runs that throw, repeated deliveries and rounds of several
\* groups, as long as the queue has not overflowed (the items leave the queue
\* by number, not by name).
AcceptedIsKept == overflowed \/ accepted \subseteq Waiting \cup ran \cup cleared

\* A drain gives the text of a message to a run once, and again only for a run
\* that threw or a delivery after the mark in RECENT_QUEUE_MESSAGE_IDS expired.
RunOnce == \A m \in Msg : runs[m] >= 0

\* A queue is worked off, the summary of what it dropped included, once no more
\* messages come: its drain neither stops short nor goes round for nothing.
QueueIsWorkedOff ==
  \A q \in Queues : ~Empty(q, items, dropped) ~> (Empty(q, items, dropped) \/ cutOff \/ unattended)

=============================================================================
