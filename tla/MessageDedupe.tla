---------------------------- MODULE MessageDedupe ----------------------------
(***************************************************************************)
(* The protection against repeated messages (src/feishu-service.ts): the   *)
(* sets processingMessages and processedMessages, the time stamps that let *)
(* entries expire, and lite-dedupe.json, through crashes and restarts.     *)
(*                                                                         *)
(* Feishu delivers a message at least once; here it may deliver any        *)
(* message again at any time.  The clock is abstracted to the moment a     *)
(* stamp gets older than DEDUP_TTL_MS.  A handler is a call of             *)
(* handleMessage from its entry to its finally block; what happens in      *)
(* between, and in the pipeline it may start, is SessionPipeline.          *)
(***************************************************************************)
EXTENDS Integers, Sequences, SequencesExt, FiniteSets

CONSTANTS
  Msg,       \* the messages, by message_id
  Keep,      \* how many ids a save keeps: 2000
  MaxStarts  \* bound of the model: how often the service is started

ASSUME KeepType == Keep \in Nat \ {0}
ASSUME MaxStartsType == MaxStarts \in Nat \ {0}

VARIABLES
  up,          \* the process runs
  starts,      \* how often it was started
  processing,  \* processingMessages
  processed,   \* processedMessages, in insertion order
  stamped,     \* the messages with an entry in dedupeTimestamps
  old,         \* the stamped ones whose entry is older than the TTL
  saving,      \* historySaveTimer is armed
  file,        \* the ids in lite-dedupe.json
  torn,        \* the file was cut off while it was written
  handlers,    \* handlers[m]: the running handleMessage calls for m
  marked,      \* handled, and the mark neither expired, evicted nor crashed
  stale        \* the last attempt to save failed

memory  == <<processing, processed, stamped, old, saving>>
history == <<marked, stale>>
vars == <<up, starts, memory, file, torn, handlers, history>>

Ids(s) == ToSet(s)

\* Set.add and Set.delete of a JavaScript set kept in insertion order, and the
\* slice(-2000) of a save.
Added(s, m) == IF m \in Ids(s) THEN s ELSE Append(s, m)
Without(s, S) ==
  LET kept[i \in 0 .. Len(s)] ==
        IF i = 0 THEN <<>>
        ELSE IF s[i] \in S THEN kept[i - 1] ELSE Append(kept[i - 1], s[i])
  IN  kept[Len(s)]
Sliced(s) == IF Len(s) <= Keep THEN s ELSE SubSeq(s, Len(s) - Keep + 1, Len(s))

Init ==
  /\ up = TRUE /\ starts = 1
  /\ processing = {} /\ processed = <<>> /\ stamped = {} /\ old = {}
  /\ saving = FALSE /\ file = <<>> /\ torn = FALSE
  /\ handlers = [m \in Msg |-> 0]
  /\ marked = {} /\ stale = FALSE

-----------------------------------------------------------------------------
(* handleMessage *)

\* Mutation of CleanUp: the age of the entries is not looked at.
CleanUpAll(m) ==
  /\ processed' = Without(processed, stamped)
  /\ stamped' = {m}
  /\ old' = {}
  /\ marked' = marked \ (old \ {m})

\* cleanupDedupeSet once m has been stamped anew: the expired entries go, and
\* with them their marks.
CleanUp(m) ==
  LET expired == old \ {m}
  IN  /\ processed' = Without(processed, expired)
      /\ stamped' = (stamped \cup {m}) \ expired
      /\ old' = {}
      /\ marked' = marked \ expired

Enter(m) ==
  /\ processing' = processing \cup {m}
  /\ handlers' = [handlers EXCEPT ![m] = @ + 1]
  /\ CleanUp(m)
  /\ UNCHANGED <<up, starts, saving, file, torn, stale>>

\* Mutation of Deliver: a message that is being handled is not refused.
DeliverConcurrently(m) ==
  /\ up /\ m \notin Ids(processed) /\ handlers[m] < 2
  /\ Enter(m)

\* handleMessage is called for a message it does not know.
Deliver(m) ==
  /\ up /\ m \notin Ids(processed) /\ m \notin processing
  /\ Enter(m)

\* Mutation of Leave: nothing schedules a save.
LeaveUnsaved(m) ==
  /\ processing' = processing \ {m}
  /\ handlers' = [handlers EXCEPT ![m] = @ - 1]
  /\ UNCHANGED saving

\* The finally block.
Leave(m) ==
  /\ processing' = processing \ {m}
  /\ handlers' = [handlers EXCEPT ![m] = @ - 1]
  /\ saving' = TRUE

\* The handler marks the message and ends; the message needs no answer or has
\* been handed on to a pipeline.
Handled(m) ==
  /\ up /\ m \in processing
  /\ processed' = Added(processed, m)
  /\ marked' = marked \cup {m}
  /\ Leave(m)
  /\ UNCHANGED <<up, starts, stamped, old, file, torn, stale>>

\* The handler throws before it marks the message.
HandlerFails(m) ==
  /\ up /\ m \in processing
  /\ Leave(m)
  /\ UNCHANGED <<up, starts, processed, stamped, old, file, torn, history>>

\* The stamp of m gets older than DEDUP_TTL_MS.
Expires(m) ==
  /\ up /\ m \in stamped \ old
  /\ old' = old \cup {m}
  /\ UNCHANGED <<up, starts, processing, processed, stamped, saving, file, torn,
                 handlers, history>>

-----------------------------------------------------------------------------
(* lite-dedupe.json *)

\* saveStateFiles: the set is cut to its youngest entries and written.
StateSaved ==
  /\ up /\ saving
  /\ saving' = FALSE
  /\ processed' = Sliced(processed)
  /\ file' = processed'
  /\ torn' = FALSE
  /\ marked' = marked \cap Ids(processed')
  /\ stale' = FALSE
  /\ UNCHANGED <<up, starts, processing, stamped, old, handlers>>

\* A write fails: of the history file, before the set is cut, or of this one,
\* which may be left truncated.  The error is logged and the timer is gone.
SaveFails ==
  /\ up /\ saving
  /\ saving' = FALSE
  /\ stale' = TRUE
  /\ \/ UNCHANGED <<processed, marked, torn>>
     \/ /\ processed' = Sliced(processed)
        /\ marked' = marked \cap Ids(processed')
        /\ torn' \in {torn, TRUE}
  /\ UNCHANGED <<up, starts, processing, stamped, old, file, handlers>>

\* The process ends without another save, perhaps in the middle of one.
Stops ==
  /\ up
  /\ up' = FALSE
  /\ torn' \in IF saving THEN {torn, TRUE} ELSE {torn}
  /\ processing' = {} /\ processed' = <<>> /\ stamped' = {} /\ old' = {}
  /\ saving' = FALSE
  /\ handlers' = [m \in Msg |-> 0]
  /\ marked' = IF torn' THEN {} ELSE marked \cap Ids(file)
  /\ UNCHANGED <<starts, file, stale>>

\* loadStateFiles: the ids are restored without a time stamp, or the file does
\* not parse and is ignored.
Starts ==
  /\ ~up /\ starts < MaxStarts
  /\ up' = TRUE
  /\ starts' = starts + 1
  /\ processed' = IF torn THEN <<>> ELSE file
  /\ stale' = torn
  /\ UNCHANGED <<processing, stamped, old, saving, file, torn, handlers, marked>>

-----------------------------------------------------------------------------
(* The specification *)

Next ==
  \/ \E m \in Msg : Deliver(m) \/ Handled(m) \/ HandlerFails(m) \/ Expires(m)
  \/ StateSaved \/ SaveFails \/ Stops \/ Starts

Spec == Init /\ [][Next]_vars

-----------------------------------------------------------------------------
(* Properties *)

\* The types; outside a save the file is never longer than a save leaves it.
TypeOK ==
  /\ up \in BOOLEAN /\ starts \in 1..MaxStarts
  /\ processing \subseteq Msg
  /\ processed \in Seq(Msg)
  /\ old \subseteq stamped /\ stamped \subseteq Msg
  /\ saving \in BOOLEAN /\ torn \in BOOLEAN /\ stale \in BOOLEAN
  /\ file \in Seq(Msg) /\ Len(file) <= Keep
  /\ handlers \in [Msg -> Nat]
  /\ marked \subseteq Msg

\* Two deliveries of one message are never handled side by side.
HandledAlone == \A m \in Msg : handlers[m] <= 1

\* A message that was handled is not handled again, whenever and however often
\* it is delivered, restarts included, before its mark expired, was pushed out
\* by Keep younger ones, or was lost with the process before a save or with a
\* file that was cut off.
HandledOnce ==
  [][\A m \in Msg : handlers'[m] > handlers[m] => m \notin marked]_vars

\* What the file does not say yet will be written: a save is scheduled, or a
\* running handler will schedule it, unless the last attempt failed.
ChangesWillBeSaved ==
  up /\ Ids(processed) # Ids(file) => saving \/ processing # {} \/ stale

=============================================================================
