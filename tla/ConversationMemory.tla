------------------------- MODULE ConversationMemory -------------------------
(***************************************************************************)
(* What the service remembers of one conversation (src/feishu-service.ts): *)
(* the conversations map, lite-history.json, and the rows MysqlMemoryStore *)
(* writes to lb_chat_sessions, lb_chat_messages and lb_ai_turns.           *)
(*                                                                         *)
(* Several messages of the conversation are worked on at the same time.    *)
(* Every method of the store is a sequence of SQL statements with an await *)
(* after each; a statement may fail, before or after MySQL carried it out, *)
(* and the methods catch that.  MySQL is external: it executes statements  *)
(* one at a time and keeps its tables when the service stops.              *)
(*                                                                         *)
(* The messages are those that are answered, each by a batch of its own,   *)
(* and Feishu delivers one again after a restart unless lite-dedupe.json   *)
(* has it (marks do not expire here: module MessageDedupe).  The process   *)
(* may be killed at any await and in the middle of a save.                 *)
(***************************************************************************)
EXTENDS Integers, Sequences, SequencesExt, FiniteSets

CONSTANTS
  Msg,           \* the messages of the conversation
  Kind,          \* Kind[m]: "chat" or "question", the intent agentD sees in m
  RestoreLimit,  \* restoreRecentLimit: how many rows a start restores
  MaxStarts      \* bound of the model: how often the service is started

ASSUME MemoryKinds == Kind \in [Msg -> {"chat", "question"}]
ASSUME MemoryBounds == RestoreLimit \in Nat /\ MaxStarts \in Nat \ {0}

VARIABLES
  up, starts,     \* the process runs; how often it was started
  store,          \* the memory store could be initialized in this life
  conversation,   \* the entries of conversations.get(key)
  saving,         \* historySaveTimer is armed
  file,           \* the entries in lite-history.json that can be read back
  known,          \* processedMessages
  knownFile,      \* the ids in lite-dedupe.json that can be read back
  at,             \* at[m]: the await m is suspended in, see Steps
  role,           \* role[m]: whose row m is about to write
  ref,            \* ref[m]: recordUserMessage returned a DbMessageRef
  verdict,        \* verdict[m]: the status the turn of m is to be closed with
  turnOf,         \* turnOf[m]: aiTurnId, or 0
  cached,         \* MysqlMemoryStore.sessionIds has the conversation
  sessionRow,     \* lb_chat_sessions has a row for it
  rows,           \* lb_chat_messages, in the order of the ids
  turns           \* lb_ai_turns, in the order of the ids

process == <<store, conversation, saving, known, at, role, ref, verdict, turnOf, cached>>
disk    == <<file, knownFile>>
tables  == <<sessionRow, rows, turns>>
vars == <<up, starts, process, disk, tables>>

\* "upserting", "inserting", "updating": the statements of recordUserMessage
\* and recordAssistantMessage.  "opening", "closing", "reclosing": startAiTurn
\* and finishAiTurn.  "generating", "regenerating", "sending", "chatting":
\* calls outside the store.
Steps == {"new", "upserting", "inserting", "updating", "chatting", "opening",
          "generating", "closing", "regenerating", "reclosing", "sending", "done"}

Entry(m, r) == [who |-> m, role |-> r]
Entries == [who : Msg, role : {"user", "assistant"}]
EntryOf(row) == Entry(row.who, row.role)
LastOnes(s, n) == IF Len(s) <= n THEN s ELSE SubSeq(s, Len(s) - n + 1, Len(s))

Init ==
  /\ up = TRUE /\ starts = 1
  /\ store \in BOOLEAN
  /\ conversation = <<>> /\ saving = FALSE /\ known = {}
  /\ file = <<>> /\ knownFile = {}
  /\ at = [m \in Msg |-> "new"]
  /\ role = [m \in Msg |-> "user"]
  /\ ref = [m \in Msg |-> FALSE]
  /\ verdict = [m \in Msg |-> "none"]
  /\ turnOf = [m \in Msg |-> 0]
  /\ cached = FALSE /\ sessionRow = FALSE /\ rows = <<>> /\ turns = <<>>

Goes(m, to) == at' = [at EXCEPT ![m] = to]

-----------------------------------------------------------------------------
(* Writing a message: recordUserMessage and recordAssistantMessage *)

\* addHistory.
Remembers(m, r) ==
  /\ conversation' = Append(conversation, Entry(m, r))
  /\ saving' = TRUE

\* Mutation of Recorded: only what MySQL could not take enters the history.
RecordedElsewhere(m, written) ==
  /\ IF written THEN UNCHANGED <<conversation, saving>> ELSE Remembers(m, role[m])
  /\ IF role[m] = "user"
     THEN /\ ref' = [ref EXCEPT ![m] = written]
          /\ known' = known \cup {m}
          /\ Goes(m, IF Kind[m] = "chat" THEN "chatting" ELSE "opening")
     ELSE /\ Goes(m, "done")
          /\ UNCHANGED <<ref, known>>

\* The message is written, or could not be, and what follows in the same step: a
\* user's message is also marked as processed and handed to its pipeline.
Recorded(m, written) ==
  /\ Remembers(m, role[m])
  /\ IF role[m] = "user"
     THEN /\ ref' = [ref EXCEPT ![m] = written]
          /\ known' = known \cup {m}
          /\ Goes(m, IF Kind[m] = "chat" THEN "chatting" ELSE "opening")
     ELSE /\ Goes(m, "done")
          /\ UNCHANGED <<ref, known>>

\* The store is called: upsertSession asks MySQL unless the id is cached.
BeginRecord(m, r) ==
  /\ role' = [role EXCEPT ![m] = r]
  /\ Goes(m, IF cached THEN "inserting" ELSE "upserting")

\* A message is taken in (handleMessage up to recordUserMessage).
Receive(m) ==
  /\ up /\ at[m] = "new" /\ m \notin known
  /\ IF store THEN BeginRecord(m, "user") /\ UNCHANGED <<conversation, saving, ref, known>>
     ELSE Recorded(m, FALSE) /\ UNCHANGED role
  /\ UNCHANGED <<up, starts, store, verdict, turnOf, cached, disk, tables>>

\* Mutation of SessionUpserted: the id is cached before MySQL has answered.
SessionCachedFirst(m) ==
  /\ up /\ at[m] = "upserting"
  /\ cached' = TRUE
  /\ \/ sessionRow' = TRUE /\ Goes(m, "inserting")
        /\ UNCHANGED <<conversation, saving, ref, known>>
     \/ sessionRow' \in {sessionRow, TRUE} /\ Recorded(m, FALSE)
  /\ UNCHANGED <<up, starts, store, role, verdict, turnOf, disk, rows, turns>>

\* INSERT INTO lb_chat_sessions ... ON DUPLICATE KEY UPDATE.
SessionUpserted(m) ==
  /\ up /\ at[m] = "upserting"
  /\ \/ /\ sessionRow' = TRUE /\ cached' = TRUE
        /\ Goes(m, "inserting")
        /\ UNCHANGED <<conversation, saving, ref, known>>
     \/ /\ sessionRow' \in {sessionRow, TRUE}
        /\ Recorded(m, FALSE)
        /\ UNCHANGED cached
  /\ UNCHANGED <<up, starts, store, role, verdict, turnOf, disk, rows, turns>>

\* Mutation of InsertedRows: the external id of a message is not a unique key.
InsertedAgain(m) ==
  Append(rows, [who |-> m, role |-> role[m], turn |-> turnOf[m]])

\* lb_chat_messages after the INSERT of m: a user message that is there already
\* is updated in place, by its external id.
InsertedRows(m) ==
  IF role[m] = "user" /\ \E i \in DOMAIN rows : EntryOf(rows[i]) = Entry(m, "user")
  THEN rows
  ELSE Append(rows, [who |-> m, role |-> role[m],
                     turn |-> IF role[m] = "user" THEN 0 ELSE turnOf[m]])

MessageInserted(m) ==
  /\ up /\ at[m] = "inserting"
  /\ \/ /\ rows' = InsertedRows(m)
        /\ Goes(m, "updating")
        /\ UNCHANGED <<conversation, saving, ref, known>>
     \/ /\ rows' \in {rows, InsertedRows(m)}
        /\ Recorded(m, FALSE)
  /\ UNCHANGED <<up, starts, store, role, verdict, turnOf, cached, disk,
                 sessionRow, turns>>

\* UPDATE lb_chat_sessions: when it fails the message counts as not written,
\* though its row is there.
SessionUpdated(m) ==
  /\ up /\ at[m] = "updating"
  /\ \E written \in BOOLEAN : Recorded(m, written)
  /\ UNCHANGED <<up, starts, store, role, verdict, turnOf, cached, disk, tables>>

-----------------------------------------------------------------------------
(* The pipeline's use of the store *)

\* Mutation of TurnOpened: the turn is opened whether or not the message has a row.
TurnOpenedAnyway(m) ==
  /\ up /\ at[m] = "opening"
  /\ Goes(m, "generating")
  /\ IF store
     THEN /\ turns' = Append(turns, [who |-> m, status |-> "running"])
          /\ turnOf' = [turnOf EXCEPT ![m] = Len(turns')]
     ELSE UNCHANGED <<turns, turnOf>>
  /\ UNCHANGED <<up, starts, store, known, conversation, saving, role, ref, verdict, cached,
                 disk, sessionRow, rows>>

\* startAiTurn, when the message has a reference.
TurnOpened(m) ==
  /\ up /\ at[m] = "opening"
  /\ Goes(m, "generating")
  /\ \/ /\ store /\ ref[m]
        /\ turns' = Append(turns, [who |-> m, status |-> "running"])
        /\ turnOf' \in {turnOf, [turnOf EXCEPT ![m] = Len(turns')]}
     \/ UNCHANGED <<turns, turnOf>>
  /\ UNCHANGED <<up, starts, store, known, conversation, saving, role, ref, verdict, cached,
                 disk, sessionRow, rows>>

\* generateReply returns or throws, the first or the second time.
Generated(m) ==
  /\ up
  /\ \/ at[m] = "generating" /\ Goes(m, "closing")
     \/ at[m] = "regenerating" /\ Goes(m, "reclosing")
  /\ \E v \in {"success", "failed"} : verdict' = [verdict EXCEPT ![m] = v]
  /\ UNCHANGED <<up, starts, store, known, conversation, saving, role, ref, turnOf, cached,
                 disk, tables>>

\* finishAiTurn, which may fail; without an answer the pipeline ends with an
\* excuse, which is not remembered; with one it may be generated a second time.
TurnClosed(m) ==
  /\ up /\ at[m] \in {"closing", "reclosing"}
  /\ turns' \in {turns, IF turnOf[m] = 0 THEN turns
                        ELSE [turns EXCEPT ![turnOf[m]].status = verdict[m]]}
  /\ \/ at[m] = "closing" /\ verdict[m] = "failed" /\ Goes(m, "done")
     \/ at[m] = "closing" /\ verdict[m] = "success" /\ Goes(m, "regenerating")
     \/ (at[m] = "reclosing" \/ verdict[m] = "success") /\ Goes(m, "sending")
  /\ UNCHANGED <<up, starts, store, known, conversation, saving, role, ref, verdict, turnOf,
                 cached, disk, sessionRow, rows>>

\* The answer is sent and recorded, or cannot be sent.
Sent(m) ==
  /\ up /\ at[m] = "sending"
  /\ \/ Goes(m, "done") /\ UNCHANGED <<conversation, saving, ref, role>>
     \/ store /\ BeginRecord(m, "assistant") /\ UNCHANGED <<conversation, saving, ref>>
     \/ ~store /\ Remembers(m, "assistant") /\ Goes(m, "done") /\ UNCHANGED <<ref, role>>
  /\ UNCHANGED <<up, starts, store, known, verdict, turnOf, cached, disk, tables>>

\* Small talk is sent and enters the history only; or it is not sent.
Chatted(m) ==
  /\ up /\ at[m] = "chatting"
  /\ Goes(m, "done")
  /\ Remembers(m, "assistant") \/ UNCHANGED <<conversation, saving>>
  /\ UNCHANGED <<up, starts, store, known, role, ref, verdict, turnOf, cached, disk, tables>>

-----------------------------------------------------------------------------
(* lite-history.json, stopping and starting *)

\* saveStateFiles, which writes the two files one after the other; either write
\* may fail, and what it leaves cannot be read back.
StateSaved ==
  /\ up /\ saving
  /\ saving' = FALSE
  /\ \/ file' = conversation /\ knownFile' \in {known, knownFile, {}}
     \/ file' \in {file, <<>>} /\ UNCHANGED knownFile
  /\ UNCHANGED <<up, starts, store, conversation, known, at, role, ref, verdict, turnOf,
                 cached, tables>>

\* What the handlers and pipelines were at.
ProcessGone ==
  /\ at' = [m \in Msg |-> "new"]
  /\ role' = [m \in Msg |-> "user"]
  /\ ref' = [m \in Msg |-> FALSE]
  /\ verdict' = [m \in Msg |-> "none"]
  /\ turnOf' = [m \in Msg |-> 0]

\* The process ends, perhaps while it saves; its memory is gone.
Stops ==
  /\ up /\ starts < MaxStarts
  /\ up' = FALSE
  /\ \/ UNCHANGED disk
     \/ /\ saving
        /\ \/ file' = <<>> /\ UNCHANGED knownFile
           \/ file' = conversation /\ knownFile' \in {knownFile, {}}
  /\ conversation' = <<>> /\ known' = {} /\ saving' = FALSE
  /\ store' = FALSE /\ cached' = FALSE
  /\ ProcessGone
  /\ UNCHANGED <<starts, tables>>

\* restoreRecentConversations: the latest rows, which replace what the file had
\* for the conversation.
Restored == LastOnes([i \in DOMAIN rows |-> EntryOf(rows[i])], RestoreLimit)

\* loadStateFiles, then initializeMemoryStore, which may fail.
Starts ==
  /\ ~up
  /\ up' = TRUE /\ starts' = starts + 1
  /\ store' \in BOOLEAN
  /\ conversation' = IF store' /\ rows # <<>> /\ RestoreLimit > 0 THEN Restored ELSE file
  /\ known' = knownFile
  /\ UNCHANGED <<saving, at, role, ref, verdict, turnOf, cached, disk, tables>>

Next ==
  \/ \E m \in Msg :
       \/ Receive(m) \/ SessionUpserted(m) \/ MessageInserted(m) \/ SessionUpdated(m)
       \/ TurnOpened(m) \/ Generated(m) \/ TurnClosed(m) \/ Sent(m) \/ Chatted(m)
  \/ StateSaved \/ Stops \/ Starts

Spec == Init /\ [][Next]_vars

-----------------------------------------------------------------------------
(* Properties *)

Says(row, m, r) == EntryOf(row) = Entry(m, r)

\* The state has the shape the code gives it, no statement is under way without
\* a store, and nobody writes to the turn of another message (the store and the
\* fields of processAggregatedMessage).
TypeOK ==
  /\ up \in BOOLEAN /\ starts \in 1 .. MaxStarts
  /\ store \in BOOLEAN /\ cached \in BOOLEAN /\ saving \in BOOLEAN
  /\ sessionRow \in BOOLEAN
  /\ conversation \in Seq(Entries) /\ file \in Seq(Entries)
  /\ known \subseteq Msg /\ knownFile \subseteq Msg
  /\ at \in [Msg -> Steps]
  /\ role \in [Msg -> {"user", "assistant"}]
  /\ ref \in [Msg -> BOOLEAN]
  /\ verdict \in [Msg -> {"none", "success", "failed"}]
  /\ turns \in Seq([who : Msg, status : {"running", "success", "failed"}])
  /\ rows \in Seq([who : Msg, role : {"user", "assistant"}, turn : 0 .. Len(turns)])
  /\ turnOf \in [Msg -> 0 .. Len(turns)]
  /\ \A m \in Msg :
       /\ at[m] \in {"upserting", "inserting", "updating"} => store
       /\ turnOf[m] # 0 => turns[turnOf[m]].who = m

\* However often a message is taken in, before and after restarts, and whichever
\* statement failed the time before, lb_chat_messages has it once (the INSERT of
\* recordUserMessage and its ON DUPLICATE KEY UPDATE).
OneRowPerMessage ==
  \A m \in Msg : Cardinality({i \in DOMAIN rows : Says(rows[i], m, "user")}) <= 1

\* A row and a cached id always have their session in lb_chat_sessions, however
\* many handlers ask for it at once and whatever fails (upsertSession).
SessionRowFirst == rows # <<>> \/ cached => sessionRow

\* An answer that refers to a turn is the answer to the message of that turn,
\* and the message comes before it in lb_chat_messages, so that a restart
\* restores them in that order (startAiTurn is called with the reference of
\* the recorded message only, recordAssistantMessage with that turn).
AnswerFollowsQuestion ==
  \A i \in DOMAIN rows : rows[i].role = "assistant" /\ rows[i].turn # 0 =>
    /\ turns[rows[i].turn].who = rows[i].who
    /\ \E j \in 1 .. i - 1 : Says(rows[j], rows[i].who, "user")

\* While an answer is written its question is in the history the model is
\* given, whether MySQL took the message or failed at any statement, and in a
\* life that began with a restored or a lost history too (addHistory follows
\* recordUserMessage whatever it returned).
QuestionInHistory ==
  \A m \in Msg :
    at[m] \in {"chatting", "opening", "generating", "closing", "regenerating",
              "reclosing", "sending"}
      => Entry(m, "user") \in ToSet(conversation)

=============================================================================
