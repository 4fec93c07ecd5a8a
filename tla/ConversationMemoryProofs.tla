---------------------- MODULE ConversationMemoryProofs ----------------------
(***************************************************************************)
(* What lb_chat_sessions, lb_chat_messages and lb_ai_turns hold, and the   *)
(* history the model is given: theorems about ConversationMemory for every *)
(* set of messages, every mix of small talk and questions, every limit of  *)
(* restored rows and every number of starts.                               *)
(***************************************************************************)
EXTENDS ConversationMemory, FiniteSetTheorems, TLAPS

Roles == {"user", "assistant"}
Statuses == {"running", "success", "failed"}
Turn == [who : Msg, status : Statuses]
Row(n) == [who : Msg, role : Roles, turn : 0 .. n]

\* A process that is down has no handler under way, and may be started again.
DownIsIdle ==
  ~up => starts < MaxStarts /\ \A m \in Msg : at[m] = "new"

\* A turn that is to be closed has a verdict.
VerdictFirst ==
  \A m \in Msg : at[m] \in {"closing", "reclosing"} => verdict[m] # "none"

Typing == TypeOK /\ DownIsIdle /\ VerdictFirst

\* A statement after the first is under way only when the session has its row.
Sessions ==
  /\ SessionRowFirst
  /\ \A m \in Msg : at[m] \in {"inserting", "updating"} => sessionRow

\* lb_chat_messages has the message as its sender's.
HasRow(m) == \E i \in DOMAIN rows : Says(rows[i], m, "user")

\* A message past its INSERT, a message with a reference and a message with a
\* turn have their row.
RowFirst ==
  \A m \in Msg :
    (at[m] = "updating" /\ role[m] = "user") \/ ref[m] \/ turnOf[m] # 0 => HasRow(m)

\* No two rows hold the same message.
Unrepeated ==
  \A m \in Msg : \A i, j \in DOMAIN rows :
    Says(rows[i], m, "user") /\ Says(rows[j], m, "user") => i = j

Tables == RowFirst /\ AnswerFollowsQuestion /\ Unrepeated

-----------------------------------------------------------------------------
(* The types *)

\* The parts of TypeOK, so that a step is looked at one part at a time.
Scalars ==
  /\ up \in BOOLEAN /\ starts \in 1 .. MaxStarts
  /\ store \in BOOLEAN /\ cached \in BOOLEAN /\ saving \in BOOLEAN
  /\ sessionRow \in BOOLEAN
  /\ known \subseteq Msg /\ knownFile \subseteq Msg
Histories == conversation \in Seq(Entries) /\ file \in Seq(Entries)
Handlers ==
  /\ at \in [Msg -> Steps]
  /\ role \in [Msg -> Roles]
  /\ ref \in [Msg -> BOOLEAN]
  /\ verdict \in [Msg -> {"none", "success", "failed"}]
Stored ==
  /\ turns \in Seq(Turn)
  /\ rows \in Seq(Row(Len(turns)))
  /\ turnOf \in [Msg -> 0 .. Len(turns)]
  /\ \A m \in Msg : turnOf[m] # 0 => turns[turnOf[m]].who = m
StoreNeeded ==
  \A m \in Msg : at[m] \in {"upserting", "inserting", "updating"} => store

Parts ==
  Scalars /\ Histories /\ Handlers /\ Stored /\ StoreNeeded /\ DownIsIdle /\ VerdictFirst

LEMMA TypeParts ==
  TypeOK <=> Scalars /\ Histories /\ Handlers /\ Stored /\ StoreNeeded
BY DEF TypeOK, Scalars, Histories, Handlers, Stored, StoreNeeded, Turn, Row, Roles, Statuses

LEMMA TypePartsNext ==
  TypeOK' <=> Scalars' /\ Histories' /\ Handlers' /\ Stored' /\ StoreNeeded'
BY DEF TypeOK, Scalars, Histories, Handlers, Stored, StoreNeeded, Turn, Row, Roles, Statuses

LEMMA TypingIsParts == Typing <=> Parts
BY TypeParts DEF Typing, Parts

LEMMA TypingIsPartsNext == Typing' <=> Parts'
BY TypePartsNext DEF Typing, Parts

LEMMA TypingInit == Init => Typing
<1> SUFFICES ASSUME Init  PROVE Typing
  OBVIOUS
<1>1. Scalars
  <2>1. starts \in 1 .. MaxStarts
    BY MemoryBounds DEF Init
  <2> QED  BY <2>1, Zenon DEF Init, Scalars
<1>4. Histories
  BY DEF Init, Histories
<1>2. Handlers /\ StoreNeeded /\ DownIsIdle /\ VerdictFirst
  BY DEF Init, Handlers, StoreNeeded, Steps, Roles, DownIsIdle, VerdictFirst
<1>3. Stored
  BY DEF Init, Stored
<1> QED  BY <1>1, <1>2, <1>3, <1>4, TypeParts DEF Typing

\* The last entries of a sequence are a sequence of such entries.
LEMMA LastOnesType ==
  ASSUME NEW S, NEW s \in Seq(S), NEW n \in Nat
  PROVE  LastOnes(s, n) \in Seq(S)
<1>1. CASE Len(s) <= n
  BY <1>1 DEF LastOnes
<1>2. CASE ~(Len(s) <= n)
  <2>1. Len(s) - n + 1 \in 1 .. Len(s) + 1 /\ Len(s) \in Nat
    BY <1>2
  <2> QED  BY <1>2, <2>1 DEF LastOnes
<1> QED  BY <1>1, <1>2

\* What a start restores from the rows are entries of the history.
LEMMA RestoredType == Typing => Restored \in Seq(Entries)
<1> SUFFICES ASSUME Typing  PROVE Restored \in Seq(Entries)
  OBVIOUS
<1> DEFINE es == [i \in DOMAIN rows |-> EntryOf(rows[i])]
<1>1. rows \in Seq(Row(Len(turns)))
  BY TypeParts DEF Typing, Stored
<1>2. \A i \in DOMAIN rows : EntryOf(rows[i]) \in Entries
  <2> SUFFICES ASSUME NEW i \in DOMAIN rows  PROVE EntryOf(rows[i]) \in Entries
    OBVIOUS
  <2>1. rows[i] \in Row(Len(turns))
    BY <1>1
  <2> QED  BY <2>1 DEF Row, EntryOf, Entry, Entries, Roles
<1>3. es \in Seq(Entries)
  BY <1>1, <1>2
<1> QED  BY <1>3, LastOnesType, MemoryBounds DEF Restored

\* addHistory appends an entry.
LEMMA RemembersType ==
  ASSUME Histories, NEW m \in Msg, NEW r \in Roles, Remembers(m, r)
  PROVE  conversation' \in Seq(Entries)
<1>1. Entry(m, r) \in Entries
  BY DEF Entry, Entries, Roles
<1> QED  BY <1>1 DEF Histories, Remembers

\* Recording appends an entry, with the role of the handler.
LEMMA RecordedType ==
  ASSUME Histories, Handlers, NEW m \in Msg, NEW w \in BOOLEAN, Recorded(m, w)
  PROVE  conversation' \in Seq(Entries)
<1>1. role[m] \in Roles
  BY DEF Handlers
<1>2. Remembers(m, role[m])
  BY DEF Recorded
<1> QED  BY <1>1, <1>2, RemembersType

\* The rows after an INSERT.
LEMMA InsertedType ==
  ASSUME Handlers, Stored, NEW m \in Msg
  PROVE  InsertedRows(m) \in Seq(Row(Len(turns)))
<1> DEFINE row == [who |-> m, role |-> role[m],
                   turn |-> IF role[m] = "user" THEN 0 ELSE turnOf[m]]
<1>1. row \in Row(Len(turns)) /\ rows \in Seq(Row(Len(turns)))
  BY DEF Row, Handlers, Stored
<1>2. InsertedRows(m) = rows \/ InsertedRows(m) = Append(rows, row)
  BY DEF InsertedRows
<1> HIDE DEF row
<1>3. Append(rows, row) \in Seq(Row(Len(turns)))
  BY <1>1
<1> QED  BY <1>1, <1>2, <1>3

LEMMA TypingStep == Typing /\ [Next]_vars => Typing'
<1> SUFFICES ASSUME Typing, [Next]_vars  PROVE Typing'
  OBVIOUS
<1>0. Parts
  BY TypingIsParts
<1> SUFFICES Parts'
  BY TypingIsPartsNext
<1> USE <1>0 DEF Parts, process, disk, tables
<1>1. CASE UNCHANGED vars
  BY <1>1 DEF vars, Scalars, Histories, Handlers, Stored, StoreNeeded, DownIsIdle,
     VerdictFirst
<1>2. ASSUME NEW m \in Msg, Receive(m)  PROVE Parts'
  <2>1. Scalars'
    BY <1>2 DEF Receive, Recorded, Remembers, BeginRecord, Goes, Scalars
  <2>2. Histories'
    BY <1>2, RecordedType DEF Receive, BeginRecord, Histories
  <2>3. Handlers'
    BY <1>2 DEF Receive, Recorded, BeginRecord, Goes, Handlers, Steps, Roles
  <2>4. Stored'
    BY <1>2 DEF Receive, Stored
  <2>5. StoreNeeded' /\ DownIsIdle' /\ VerdictFirst'
    BY <1>2 DEF Receive, Recorded, BeginRecord, Goes, Handlers, StoreNeeded, DownIsIdle,
       VerdictFirst
  <2> QED  BY <2>1, <2>2, <2>3, <2>4, <2>5
<1>3. ASSUME NEW m \in Msg, SessionUpserted(m)  PROVE Parts'
  <2>1. Scalars'
    BY <1>3 DEF SessionUpserted, Recorded, Remembers, Goes, Scalars
  <2>2. Histories'
    BY <1>3, RecordedType DEF SessionUpserted, Histories
  <2>3. Handlers'
    BY <1>3 DEF SessionUpserted, Recorded, Goes, Handlers, Steps, Roles
  <2>4. Stored'
    BY <1>3 DEF SessionUpserted, Stored
  <2>5. StoreNeeded' /\ DownIsIdle' /\ VerdictFirst'
    BY <1>3 DEF SessionUpserted, Recorded, Goes, Handlers, StoreNeeded, DownIsIdle,
       VerdictFirst
  <2> QED  BY <2>1, <2>2, <2>3, <2>4, <2>5
<1>4. ASSUME NEW m \in Msg, MessageInserted(m)  PROVE Parts'
  <2>1. Scalars'
    BY <1>4 DEF MessageInserted, Recorded, Remembers, Goes, Scalars
  <2>2. Histories'
    BY <1>4, RecordedType DEF MessageInserted, Histories
  <2>3. Handlers'
    BY <1>4 DEF MessageInserted, Recorded, Goes, Handlers, Steps, Roles
  <2>4. Stored'
    <3>1. rows' \in Seq(Row(Len(turns)))
      BY <1>4, InsertedType DEF MessageInserted, Stored
    <3> QED  BY <1>4, <3>1 DEF MessageInserted, Stored
  <2>5. StoreNeeded' /\ DownIsIdle' /\ VerdictFirst'
    BY <1>4 DEF MessageInserted, Recorded, Goes, Handlers, StoreNeeded, DownIsIdle,
       VerdictFirst
  <2> QED  BY <2>1, <2>2, <2>3, <2>4, <2>5
<1>5. ASSUME NEW m \in Msg, SessionUpdated(m)  PROVE Parts'
  <2>1. Scalars'
    BY <1>5 DEF SessionUpdated, Recorded, Remembers, Goes, Scalars
  <2>2. Histories'
    BY <1>5, RecordedType DEF SessionUpdated, Histories
  <2>3. Handlers'
    BY <1>5 DEF SessionUpdated, Recorded, Goes, Handlers, Steps, Roles
  <2>4. Stored'
    BY <1>5 DEF SessionUpdated, Stored
  <2>5. StoreNeeded' /\ DownIsIdle' /\ VerdictFirst'
    BY <1>5 DEF SessionUpdated, Recorded, Goes, Handlers, StoreNeeded, DownIsIdle,
       VerdictFirst
  <2> QED  BY <2>1, <2>2, <2>3, <2>4, <2>5
<1>6. ASSUME NEW m \in Msg, TurnOpened(m)  PROVE Parts'
  <2>1. Scalars'
    BY <1>6 DEF TurnOpened, Goes, Scalars
  <2>2. Histories'
    BY <1>6 DEF TurnOpened, Histories, Roles
  <2>3. Handlers'
    BY <1>6 DEF TurnOpened, Goes, Handlers, Steps, Roles
  <2>4. Stored'
    <3>1. CASE UNCHANGED <<turns, turnOf>>
      BY <1>6, <3>1 DEF TurnOpened, Stored
    <3>2. CASE /\ turns' = Append(turns, [who |-> m, status |-> "running"])
               /\ turnOf' \in {turnOf, [turnOf EXCEPT ![m] = Len(turns')]}
      <4>1. turns' \in Seq(Turn) /\ Len(turns') = Len(turns) + 1 /\ Len(turns) \in Nat
        BY <3>2 DEF Stored, Turn, Statuses
      <4>2. Row(Len(turns)) \subseteq Row(Len(turns'))
        BY <4>1 DEF Row
      <4>3. rows' \in Seq(Row(Len(turns')))
        BY <1>6, <4>2 DEF TurnOpened, Stored
      <4>4. turnOf' \in [Msg -> 0 .. Len(turns')]
        BY <3>2, <4>1 DEF Stored
      <4>5. \A q \in Msg : turnOf'[q] # 0 => turns'[turnOf'[q]].who = q
        BY <3>2, <4>1 DEF Stored
      <4> QED  BY <4>1, <4>3, <4>4, <4>5 DEF Stored
    <3> QED  BY <1>6, <3>1, <3>2 DEF TurnOpened
  <2>5. StoreNeeded' /\ DownIsIdle' /\ VerdictFirst'
    BY <1>6 DEF TurnOpened, Goes, Handlers, StoreNeeded, DownIsIdle, VerdictFirst
  <2> QED  BY <2>1, <2>2, <2>3, <2>4, <2>5
<1>7. ASSUME NEW m \in Msg, Generated(m)  PROVE Parts'
  <2>1. Scalars'
    BY <1>7 DEF Generated, Goes, Scalars
  <2>2. Histories'
    BY <1>7 DEF Generated, Histories, Roles
  <2>3. Handlers'
    BY <1>7 DEF Generated, Goes, Handlers, Steps, Roles
  <2>4. Stored'
    BY <1>7 DEF Generated, Stored
  <2>5. StoreNeeded' /\ DownIsIdle' /\ VerdictFirst'
    BY <1>7 DEF Generated, Goes, Handlers, StoreNeeded, DownIsIdle, VerdictFirst
  <2> QED  BY <2>1, <2>2, <2>3, <2>4, <2>5
<1>8. ASSUME NEW m \in Msg, TurnClosed(m)  PROVE Parts'
  <2>1. Scalars'
    BY <1>8 DEF TurnClosed, Goes, Scalars
  <2>2. Histories'
    BY <1>8 DEF TurnClosed, Histories, Roles
  <2>3. Handlers'
    BY <1>8 DEF TurnClosed, Goes, Handlers, Steps, Roles
  <2>4. Stored'
    <3>1. verdict[m] \in Statuses
      BY <1>8 DEF TurnClosed, Handlers, VerdictFirst, Statuses
    <3>2. CASE turns' = turns
      BY <1>8, <3>2 DEF TurnClosed, Stored
    <3>3. CASE turnOf[m] # 0 /\ turns' = [turns EXCEPT ![turnOf[m]].status = verdict[m]]
      <4>1. turnOf[m] \in DOMAIN turns
        BY <3>3 DEF Stored
      <4>2. turns' \in Seq(Turn) /\ Len(turns') = Len(turns)
        <5>1. turns \in Seq(Turn) /\ \A k \in DOMAIN turns : turns[k] \in Turn
          BY DEF Stored
        <5>2. DOMAIN turns' = DOMAIN turns
          BY <3>3
        <5>3. \A k \in DOMAIN turns : turns'[k] \in Turn
          BY <3>1, <3>3, <4>1, <5>1 DEF Turn
        <5>4. turns' = [k \in 1 .. Len(turns) |-> turns'[k]]
          <6>1. turns = [k \in 1 .. Len(turns) |-> turns[k]]
            BY <5>1
          <6> QED  BY <3>3, <6>1
        <5> QED  BY <5>1, <5>3, <5>4
      <4>3. \A k \in DOMAIN turns : turns'[k].who = turns[k].who
        BY <3>3, <4>1 DEF Stored, Turn
      <4>4. \A q \in Msg : turnOf[q] # 0 => turns'[turnOf[q]].who = q
        BY <4>3 DEF Stored
      <4> QED  BY <1>8, <4>2, <4>4 DEF TurnClosed, Stored
    <3> QED  BY <1>8, <3>2, <3>3 DEF TurnClosed
  <2>5. StoreNeeded' /\ DownIsIdle' /\ VerdictFirst'
    BY <1>8 DEF TurnClosed, Goes, Handlers, StoreNeeded, DownIsIdle, VerdictFirst
  <2> QED  BY <2>1, <2>2, <2>3, <2>4, <2>5
<1>9. ASSUME NEW m \in Msg, Sent(m)  PROVE Parts'
  <2>1. Scalars'
    BY <1>9 DEF Sent, BeginRecord, Remembers, Goes, Scalars
  <2>2. Histories'
    BY <1>9, RemembersType DEF Sent, Histories, Roles
  <2>3. Handlers'
    BY <1>9 DEF Sent, BeginRecord, Goes, Handlers, Steps, Roles
  <2>4. Stored'
    BY <1>9 DEF Sent, Stored
  <2>5. StoreNeeded' /\ DownIsIdle' /\ VerdictFirst'
    BY <1>9 DEF Sent, BeginRecord, Goes, Handlers, StoreNeeded, DownIsIdle, VerdictFirst
  <2> QED  BY <2>1, <2>2, <2>3, <2>4, <2>5
<1>10. ASSUME NEW m \in Msg, Chatted(m)  PROVE Parts'
  <2>1. Scalars'
    BY <1>10 DEF Chatted, Remembers, Goes, Scalars
  <2>2. Histories'
    BY <1>10, RemembersType DEF Chatted, Histories, Roles
  <2>3. Handlers'
    BY <1>10 DEF Chatted, Goes, Handlers, Steps, Roles
  <2>4. Stored'
    BY <1>10 DEF Chatted, Stored
  <2>5. StoreNeeded' /\ DownIsIdle' /\ VerdictFirst'
    BY <1>10 DEF Chatted, Goes, Handlers, StoreNeeded, DownIsIdle, VerdictFirst
  <2> QED  BY <2>1, <2>2, <2>3, <2>4, <2>5
<1>11. CASE StateSaved
  <2>1. Scalars'
    BY <1>11 DEF StateSaved, Scalars
  <2>2. Histories'
    <3>1. conversation' = conversation /\ (file' = conversation \/ file' = file \/ file' = <<>>)
      BY <1>11, Zenon DEF StateSaved
    <3>2. <<>> \in Seq(Entries) /\ conversation \in Seq(Entries) /\ file \in Seq(Entries)
      BY DEF Histories
    <3> QED  BY <3>1, <3>2, Zenon DEF Histories
  <2>3. Handlers'
    BY <1>11 DEF StateSaved, Handlers, Steps, Roles
  <2>4. Stored'
    BY <1>11 DEF StateSaved, Stored
  <2>5. StoreNeeded' /\ DownIsIdle' /\ VerdictFirst'
    BY <1>11 DEF StateSaved, Handlers, StoreNeeded, DownIsIdle, VerdictFirst, Scalars
  <2> QED  BY <2>1, <2>2, <2>3, <2>4, <2>5
<1>12. CASE Stops
  <2>1. Scalars'
    BY <1>12 DEF Stops, ProcessGone, Scalars
  <2>2. Histories'
    <3>1. conversation' = <<>> /\ (file' = conversation \/ file' = file \/ file' = <<>>)
      BY <1>12, Zenon DEF Stops
    <3>2. <<>> \in Seq(Entries) /\ conversation \in Seq(Entries) /\ file \in Seq(Entries)
      BY DEF Histories
    <3> QED  BY <3>1, <3>2, Zenon DEF Histories
  <2>3. Handlers'
    BY <1>12 DEF Stops, ProcessGone, Handlers, Steps, Roles
  <2>4. Stored'
    BY <1>12 DEF Stops, ProcessGone, Stored
  <2>5. StoreNeeded' /\ DownIsIdle' /\ VerdictFirst'
    BY <1>12 DEF Stops, ProcessGone, Handlers, StoreNeeded, DownIsIdle, VerdictFirst,
       Scalars
  <2> QED  BY <2>1, <2>2, <2>3, <2>4, <2>5
<1>13. CASE Starts
  <2>1. Scalars'
    BY <1>13, MemoryBounds DEF Starts, Scalars, DownIsIdle
  <2>2. Histories'
    BY <1>13, RestoredType DEF Starts, Histories
  <2>3. Handlers'
    BY <1>13 DEF Starts, Handlers, Steps, Roles
  <2>4. Stored'
    BY <1>13 DEF Starts, Stored
  <2>5. StoreNeeded' /\ DownIsIdle' /\ VerdictFirst'
    BY <1>13 DEF Starts, Handlers, StoreNeeded, DownIsIdle, VerdictFirst, Scalars
  <2> QED  BY <2>1, <2>2, <2>3, <2>4, <2>5
<1> QED  BY <1>1, <1>2, <1>3, <1>4, <1>5, <1>6, <1>7, <1>8, <1>9, <1>10, <1>11, <1>12,
   <1>13 DEF Next

\* The state keeps its shape, and no message writes to the turn of another
\* (the statements of MysqlMemoryStore and the fields of the pipelines).
THEOREM TypeCorrect == Spec => []TypeOK
<1>1. Init => Typing
  BY TypingInit
<1>2. Typing /\ [Next]_vars => Typing'
  BY TypingStep
<1>3. Typing => TypeOK
  BY DEF Typing
<1> QED  BY <1>1, <1>2, <1>3, PTL DEF Spec

-----------------------------------------------------------------------------
(* The session's row comes first *)

LEMMA SessionsInit == Init => Sessions
BY DEF Init, Sessions, SessionRowFirst

LEMMA SessionsStep == Typing /\ Sessions /\ [Next]_vars => Sessions'
<1> SUFFICES ASSUME Typing, Sessions, [Next]_vars  PROVE Sessions'
  OBVIOUS
<1>0. Handlers /\ sessionRow \in BOOLEAN
  BY TypeParts DEF Typing, Scalars
<1> USE <1>0 DEF Sessions, SessionRowFirst, process, disk, tables
<1>1. CASE UNCHANGED vars
  BY <1>1 DEF vars
<1>2. ASSUME NEW m \in Msg, Receive(m)  PROVE Sessions'
  BY <1>2 DEF Receive, Recorded, BeginRecord, Goes, Handlers
<1>3. ASSUME NEW m \in Msg, SessionUpserted(m)  PROVE Sessions'
  <2>1. CASE sessionRow'
    BY <1>3, <2>1
  <2>2. CASE ~sessionRow'
    <3>1. Recorded(m, FALSE) /\ ~sessionRow /\ UNCHANGED <<cached, rows>>
      <4>1. sessionRow' # TRUE
        BY <2>2
      <4>2. /\ sessionRow' \in {sessionRow, TRUE} /\ Recorded(m, FALSE)
            /\ UNCHANGED <<cached, rows>>
        BY <1>3, <4>1, Zenon DEF SessionUpserted
      <4>3. sessionRow' = sessionRow
        BY <4>1, <4>2, Zenon
      <4> QED  BY <2>2, <4>2, <4>3, Zenon
    <3> QED  BY <3>1 DEF Recorded, Goes, Handlers
  <2> QED  BY <2>1, <2>2
<1>4. ASSUME NEW m \in Msg, MessageInserted(m)  PROVE Sessions'
  BY <1>4 DEF MessageInserted, Recorded, Goes, Handlers
<1>5. ASSUME NEW m \in Msg, SessionUpdated(m)  PROVE Sessions'
  BY <1>5 DEF SessionUpdated, Recorded, Goes, Handlers
<1>6. ASSUME NEW m \in Msg, TurnOpened(m)  PROVE Sessions'
  BY <1>6 DEF TurnOpened, Goes, Handlers
<1>7. ASSUME NEW m \in Msg, Generated(m)  PROVE Sessions'
  BY <1>7 DEF Generated, Goes, Handlers
<1>8. ASSUME NEW m \in Msg, TurnClosed(m)  PROVE Sessions'
  BY <1>8 DEF TurnClosed, Goes, Handlers
<1>9. ASSUME NEW m \in Msg, Sent(m)  PROVE Sessions'
  BY <1>9 DEF Sent, BeginRecord, Goes, Handlers
<1>10. ASSUME NEW m \in Msg, Chatted(m)  PROVE Sessions'
  BY <1>10 DEF Chatted, Goes, Handlers
<1>11. CASE StateSaved
  BY <1>11 DEF StateSaved
<1>12. CASE Stops
  BY <1>12 DEF Stops, ProcessGone
<1>13. CASE Starts
  BY <1>13 DEF Starts
<1> QED  BY <1>1, <1>2, <1>3, <1>4, <1>5, <1>6, <1>7, <1>8, <1>9, <1>10, <1>11, <1>12,
   <1>13 DEF Next

\* A row and a cached id always have their session in lb_chat_sessions, however
\* many handlers ask for it at once and whatever fails (upsertSession).
THEOREM SessionBeforeRows == Spec => []SessionRowFirst
<1>1. Init => Typing /\ Sessions
  BY TypingInit, SessionsInit
<1>2. Typing /\ Sessions /\ [Next]_vars => (Typing /\ Sessions)'
  BY TypingStep, SessionsStep
<1>3. Typing /\ Sessions => SessionRowFirst
  BY DEF Sessions
<1> QED  BY <1>1, <1>2, <1>3, PTL DEF Spec

-----------------------------------------------------------------------------
(* The history the model is given *)

\* What is appended is in the history, and what was in it stays.
LEMMA ToSetAppend ==
  ASSUME NEW S, NEW s \in Seq(S), NEW e \in S
  PROVE  ToSet(Append(s, e)) = ToSet(s) \cup {e}
<1>1. Len(Append(s, e)) = Len(s) + 1 /\ Len(s) \in Nat
  OBVIOUS
<1>2. \A i \in 1 .. Len(s) : Append(s, e)[i] = s[i]
  OBVIOUS
<1>3. Append(s, e)[Len(s) + 1] = e
  OBVIOUS
<1>4. ToSet(Append(s, e)) \subseteq ToSet(s) \cup {e}
  BY <1>1, <1>2, <1>3 DEF ToSet
<1>5. ToSet(s) \subseteq ToSet(Append(s, e))
  BY <1>1, <1>2 DEF ToSet
<1>6. e \in ToSet(Append(s, e))
  BY <1>1, <1>3 DEF ToSet
<1> QED  BY <1>4, <1>5, <1>6

\* addHistory keeps the history and adds its entry.
LEMMA RemembersSet ==
  ASSUME Histories, NEW m \in Msg, NEW r \in Roles, Remembers(m, r)
  PROVE  ToSet(conversation') = ToSet(conversation) \cup {Entry(m, r)}
<1>1. Entry(m, r) \in Entries
  BY DEF Entry, Entries, Roles
<1> QED  BY <1>1, ToSetAppend DEF Histories, Remembers

\* A message whose answer is being written.
Answering(m) ==
  at[m] \in {"chatting", "opening", "generating", "closing", "regenerating",
            "reclosing", "sending"}

\* When the history only grows, the step of a message disturbs nobody else's.
LEMMA HistoryGrows ==
  ASSUME Typing, QuestionInHistory, NEW m \in Msg, NEW to \in Steps, Goes(m, to),
         ToSet(conversation) \subseteq ToSet(conversation'),
         Answering(m)' => Answering(m) \/ Entry(m, "user") \in ToSet(conversation')
  PROVE  QuestionInHistory'
<1>1. at \in [Msg -> Steps]
  BY TypeParts DEF Typing, Handlers
<1>2. \A q \in Msg : Answering(q)' => Answering(q) \/ (q = m /\ Answering(m)')
  BY <1>1 DEF Goes, Answering
<1> QED  BY <1>2 DEF QuestionInHistory, Answering

\* recordUserMessage and recordAssistantMessage end: a message that goes on to its
\* answer has just entered the history.
LEMMA RecordedInHistory ==
  ASSUME Typing, QuestionInHistory, NEW m \in Msg, NEW w \in BOOLEAN, Recorded(m, w)
  PROVE  QuestionInHistory'
<1>1. Histories /\ Handlers
  BY TypeParts DEF Typing
<1>2. ToSet(conversation') = ToSet(conversation) \cup {Entry(m, role[m])}
  BY <1>1, RemembersSet DEF Recorded, Handlers
<1>3. CASE role[m] = "user"
  <2>1. PICK to \in Steps : Goes(m, to)
    BY <1>3 DEF Recorded, Steps
  <2> QED  BY <1>2, <1>3, <2>1, HistoryGrows
<1>4. CASE role[m] # "user"
  <2>1. Goes(m, "done") /\ "done" \in Steps
    BY <1>4 DEF Recorded, Steps
  <2>2. ~Answering(m)'
    BY <1>1, <2>1 DEF Goes, Answering, Handlers
  <2> QED  BY <1>2, <2>1, <2>2, HistoryGrows
<1> QED  BY <1>3, <1>4

\* A handler goes on, and the history stays as it is.
LEMMA GoesOn ==
  ASSUME Typing, QuestionInHistory, NEW m \in Msg, NEW to \in Steps, Goes(m, to),
         conversation' = conversation,
         \/ to \in {"upserting", "inserting", "updating", "done"}
         \/ Answering(m)
  PROVE  QuestionInHistory'
<1>1. Handlers
  BY TypeParts DEF Typing
<1>2. Answering(m)' => Answering(m)
  BY <1>1 DEF Goes, Answering, Handlers
<1> QED  BY <1>2, HistoryGrows

LEMMA QuestionsStep == Typing /\ QuestionInHistory /\ [Next]_vars => QuestionInHistory'
<1> SUFFICES ASSUME Typing, QuestionInHistory, [Next]_vars  PROVE QuestionInHistory'
  OBVIOUS
<1>0. Histories /\ Handlers /\ DownIsIdle
  BY TypeParts DEF Typing
<1> USE DEF process, disk, tables
<1>1. CASE UNCHANGED vars
  BY <1>1 DEF vars, QuestionInHistory
<1>2. ASSUME NEW m \in Msg, Receive(m)  PROVE QuestionInHistory'
  BY <1>2, RecordedInHistory, GoesOn DEF Receive, BeginRecord, Steps
<1>3. ASSUME NEW m \in Msg, SessionUpserted(m)  PROVE QuestionInHistory'
  BY <1>3, RecordedInHistory, GoesOn DEF SessionUpserted, Steps
<1>4. ASSUME NEW m \in Msg, MessageInserted(m)  PROVE QuestionInHistory'
  BY <1>4, RecordedInHistory, GoesOn DEF MessageInserted, Steps
<1>5. ASSUME NEW m \in Msg, SessionUpdated(m)  PROVE QuestionInHistory'
  BY <1>5, RecordedInHistory DEF SessionUpdated
<1>6. ASSUME NEW m \in Msg, TurnOpened(m)  PROVE QuestionInHistory'
  BY <1>6, GoesOn DEF TurnOpened, Steps, Answering
<1>7. ASSUME NEW m \in Msg, Generated(m)  PROVE QuestionInHistory'
  BY <1>7, GoesOn DEF Generated, Steps, Answering
<1>8. ASSUME NEW m \in Msg, TurnClosed(m)  PROVE QuestionInHistory'
  BY <1>8, GoesOn DEF TurnClosed, Steps, Answering
<1>9. ASSUME NEW m \in Msg, Sent(m)  PROVE QuestionInHistory'
  <2>1. CASE conversation' = conversation
    BY <1>9, <2>1, GoesOn DEF Sent, BeginRecord, Steps, Answering
  <2>2. CASE Remembers(m, "assistant") /\ Goes(m, "done")
    BY <1>0, <1>9, <2>2, RemembersSet, HistoryGrows DEF Sent, Steps, Answering, Roles
  <2> QED  BY <1>9, <2>1, <2>2 DEF Sent
<1>10. ASSUME NEW m \in Msg, Chatted(m)  PROVE QuestionInHistory'
  <2>1. CASE conversation' = conversation
    BY <1>10, <2>1, GoesOn DEF Chatted, Steps, Answering
  <2>2. CASE Remembers(m, "assistant")
    BY <1>0, <1>10, <2>2, RemembersSet, HistoryGrows DEF Chatted, Steps, Answering, Roles
  <2> QED  BY <1>10, <2>1, <2>2 DEF Chatted
<1>11. CASE StateSaved
  BY <1>11 DEF StateSaved, QuestionInHistory
<1>12. CASE Stops
  BY <1>12 DEF Stops, ProcessGone, QuestionInHistory
<1>13. CASE Starts
  BY <1>0, <1>13 DEF Starts, DownIsIdle, QuestionInHistory
<1> QED
  BY <1>1, <1>2, <1>3, <1>4, <1>5, <1>6, <1>7, <1>8, <1>9, <1>10, <1>11, <1>12, <1>13
     DEF Next

\* While an answer is written its question is in the history the model is
\* given, whichever statements failed and however the history was restored
\* (addHistory follows recordUserMessage whatever it returned).
THEOREM QuestionIsKnown == Spec => []QuestionInHistory
<1>1. Init => Typing /\ QuestionInHistory
  BY TypingInit DEF Init, QuestionInHistory
<1>2. Typing /\ QuestionInHistory /\ [Next]_vars => (Typing /\ QuestionInHistory)'
  BY TypingStep, QuestionsStep
<1> QED  BY <1>1, <1>2, PTL DEF Spec

-----------------------------------------------------------------------------
(* The rows of messages and turns *)

LEMMA TablesInit == Init => Tables
BY DEF Init, Tables, RowFirst, AnswerFollowsQuestion, Unrepeated

\* lb_chat_messages changes by an INSERT only, and lb_ai_turns by a new turn at
\* its end or a new status of an old one.
LEMMA TableSteps ==
  ASSUME Typing, [Next]_vars
  PROVE  /\ \/ rows' = rows
            \/ \E m \in Msg : rows' = InsertedRows(m) /\ turns' = turns
         /\ \A k \in 1 .. Len(turns) : turns'[k].who = turns[k].who
<1> DEFINE Inserts == \E m \in Msg : rows' = InsertedRows(m) /\ turns' = turns
           Authors == \A k \in 1 .. Len(turns) : turns'[k].who = turns[k].who
<1> SUFFICES (rows' = rows \/ Inserts) /\ Authors
  OBVIOUS
<1>0. Stored
  BY TypeParts DEF Typing
<1> USE DEF process, disk, tables
<1>1. ASSUME UNCHANGED <<rows, turns>>  PROVE (rows' = rows \/ Inserts) /\ Authors
  BY <1>1
<1>2. ASSUME NEW m \in Msg, MessageInserted(m)  PROVE (rows' = rows \/ Inserts) /\ Authors
  BY <1>2 DEF MessageInserted
<1>3. ASSUME NEW m \in Msg, TurnOpened(m)  PROVE (rows' = rows \/ Inserts) /\ Authors
  <2>1. /\ rows' = rows
        /\ turns' = turns \/ turns' = Append(turns, [who |-> m, status |-> "running"])
    BY <1>3 DEF TurnOpened
  <2>2. Authors
    BY <1>0, <2>1 DEF Stored
  <2> QED  BY <2>1, <2>2
<1>4. ASSUME NEW m \in Msg, TurnClosed(m)  PROVE (rows' = rows \/ Inserts) /\ Authors
  <2>1. rows' = rows
    BY <1>4 DEF TurnClosed
  <2>2. CASE turns' = turns
    BY <2>1, <2>2
  <2>3. CASE turnOf[m] # 0 /\ turns' = [turns EXCEPT ![turnOf[m]].status = verdict[m]]
    <3>1. turns \in Seq(Turn) /\ turnOf[m] \in 1 .. Len(turns)
      BY <1>0, <2>3 DEF Stored
    <3>2. Authors
      BY <2>3, <3>1 DEF Turn
    <3> QED  BY <2>1, <3>2
  <2> QED  BY <1>4, <2>2, <2>3 DEF TurnClosed
<1>5. ASSUME NEW m \in Msg,
             \/ Receive(m) \/ SessionUpserted(m) \/ SessionUpdated(m)
             \/ Generated(m) \/ Sent(m) \/ Chatted(m)
      PROVE  UNCHANGED <<rows, turns>>
  BY <1>5 DEF Receive, SessionUpserted, SessionUpdated, Generated, Sent, Chatted
<1>6. ASSUME UNCHANGED vars \/ StateSaved \/ Stops \/ Starts
      PROVE  UNCHANGED <<rows, turns>>
  BY <1>6 DEF vars, StateSaved, Stops, Starts
<1> HIDE DEF Inserts, Authors
<1> QED  BY <1>1, <1>2, <1>3, <1>4, <1>5, <1>6 DEF Next

\* Who of the awaits, references and turns owes its message a row: it owed it
\* before, or its row has just been written.
Owing(m) == (at[m] = "updating" /\ role[m] = "user") \/ ref[m] \/ turnOf[m] # 0

LEMMA OwingKept ==
  ASSUME Typing, [Next]_vars, NEW q \in Msg, Owing(q)'
  PROVE  Owing(q) \/ (at[q] = "inserting" /\ role[q] = "user" /\ rows' = InsertedRows(q))
<1>0. Handlers /\ turnOf \in [Msg -> 0 .. Len(turns)] /\ DownIsIdle
  BY TypeParts DEF Typing, Stored
<1> USE <1>0 DEF process, disk, tables, Owing, Handlers
<1>1. CASE UNCHANGED vars
  BY <1>1 DEF vars
<1>2. ASSUME NEW m \in Msg, Receive(m)  PROVE Owing(q)
  BY <1>2 DEF Receive, BeginRecord, Recorded, Goes
<1>3. ASSUME NEW m \in Msg, SessionUpserted(m)  PROVE Owing(q)
  BY <1>3 DEF SessionUpserted, Recorded, Goes
<1>4. ASSUME NEW m \in Msg, MessageInserted(m)
      PROVE  Owing(q) \/ (at[q] = "inserting" /\ role[q] = "user" /\ rows' = InsertedRows(q))
  BY <1>4 DEF MessageInserted, Recorded, Goes
<1>5. ASSUME NEW m \in Msg, SessionUpdated(m)  PROVE Owing(q)
  BY <1>5 DEF SessionUpdated, Recorded, Goes
<1>6. ASSUME NEW m \in Msg, TurnOpened(m)  PROVE Owing(q)
  BY <1>6 DEF TurnOpened, Goes
<1>7. ASSUME NEW m \in Msg, Generated(m)  PROVE Owing(q)
  BY <1>7 DEF Generated, Goes
<1>8. ASSUME NEW m \in Msg, TurnClosed(m)  PROVE Owing(q)
  BY <1>8 DEF TurnClosed, Goes
<1>9. ASSUME NEW m \in Msg, Sent(m)  PROVE Owing(q)
  BY <1>9 DEF Sent, BeginRecord, Goes
<1>10. ASSUME NEW m \in Msg, Chatted(m)  PROVE Owing(q)
  BY <1>10 DEF Chatted, Goes
<1>11. CASE StateSaved \/ Stops \/ Starts
  BY <1>11 DEF StateSaved, Stops, Starts, ProcessGone
<1> QED
  BY <1>1, <1>2, <1>3, <1>4, <1>5, <1>6, <1>7, <1>8, <1>9, <1>10, <1>11 DEF Next

\* The row an INSERT appends, unless the message has its row already.
NewRow(m) == [who |-> m, role |-> role[m], turn |-> IF role[m] = "user" THEN 0 ELSE turnOf[m]]

LEMMA Insertion ==
  ASSUME NEW m \in Msg
  PROVE  \/ InsertedRows(m) = rows /\ role[m] = "user" /\ HasRow(m)
         \/ InsertedRows(m) = Append(rows, NewRow(m)) /\ (role[m] = "user" => ~HasRow(m))
BY DEF InsertedRows, HasRow, NewRow, Says

LEMMA TablesStep == Typing /\ Tables /\ [Next]_vars => Tables'
<1> SUFFICES ASSUME Typing, Tables, [Next]_vars  PROVE Tables'
  OBVIOUS
<1> USE DEF Tables
<1>0. Stored /\ Handlers
  BY TypeParts DEF Typing
<1>1. \A k \in 1 .. Len(turns) : turns'[k].who = turns[k].who
  BY TableSteps
<1>2. CASE rows' = rows
  <2>1. \A m \in Msg : HasRow(m)' <=> HasRow(m)
    BY <1>2 DEF HasRow
  <2>2. \A m \in Msg : role[m] = "user" /\ rows' = InsertedRows(m) => HasRow(m)
    <3> SUFFICES ASSUME NEW m \in Msg, role[m] = "user", rows' = InsertedRows(m), rows' = Append(rows, NewRow(m))
                 PROVE FALSE
      BY Insertion, <1>2
    <3>1. rows \in Seq(Row(Len(turns))) /\ NewRow(m) \in Row(Len(turns))
      BY <1>0 DEF Stored, Row, NewRow, Roles
    <3>2. Len(Append(rows, NewRow(m))) = Len(rows) + 1 /\ Len(rows) \in Nat
      BY <3>1
    <3> QED  BY <1>2, <3>2
  <2>3. RowFirst'
    BY <2>1, <2>2, OwingKept DEF RowFirst, Owing
  <2>4. Unrepeated'
    BY <1>2 DEF Unrepeated
  <2>5. \A i \in DOMAIN rows : rows[i].turn # 0 => rows[i].turn \in 1 .. Len(turns)
    <3>1. \A i \in DOMAIN rows : rows[i] \in Row(Len(turns)) /\ Len(turns) \in Nat
      BY <1>0 DEF Stored
    <3> QED  BY <3>1 DEF Row
  <2>6. AnswerFollowsQuestion'
    BY <1>1, <1>2, <2>5 DEF AnswerFollowsQuestion
  <2> QED  BY <2>3, <2>4, <2>6
<1>3. ASSUME NEW m \in Msg, rows' = Append(rows, NewRow(m)), role[m] = "user" => ~HasRow(m), turns' = turns
      PROVE  Tables'
  <2>1. rows \in Seq(Row(Len(turns))) /\ NewRow(m) \in Row(Len(turns))
    BY <1>0 DEF Stored, Handlers, Row, NewRow, Roles
  <2>2. /\ Len(rows) \in Nat /\ DOMAIN rows = 1 .. Len(rows) /\ DOMAIN rows' = 1 .. Len(rows) + 1
        /\ rows'[Len(rows) + 1] = NewRow(m)
        /\ \A i \in DOMAIN rows : rows'[i] = rows[i]
    BY <1>3, <2>1
  <2>3. \A q \in Msg : HasRow(q) => HasRow(q)'
    BY <2>2 DEF HasRow
  <2>4. Says(NewRow(m), m, "user") <=> role[m] = "user"
    BY DEF Says, NewRow, EntryOf, Entry
  <2>5. \A q \in Msg : Says(NewRow(m), q, "user") => q = m /\ role[m] = "user"
    BY DEF Says, NewRow, EntryOf, Entry
  <2>6. RowFirst'
    <3> SUFFICES ASSUME NEW q \in Msg, Owing(q)'  PROVE HasRow(q)'
      BY DEF RowFirst, Owing
    <3>1. CASE Owing(q)
      BY <2>3, <3>1 DEF RowFirst, Owing
    <3>2. CASE role[q] = "user" /\ rows' = InsertedRows(q)
      <4>1. CASE HasRow(q)
        BY <2>3, <4>1
      <4>2. CASE ~HasRow(q)
        <5>1. rows' = Append(rows, NewRow(q))
          BY <3>2, <4>2, Insertion
        <5>2. NewRow(q) \in Row(Len(turns))
          BY <1>0 DEF Stored, Handlers, Row, NewRow, Roles
        <5>3. rows'[Len(rows) + 1] = NewRow(q)
          BY <2>1, <5>1, <5>2
        <5>4. Says(NewRow(q), q, "user")
          BY <3>2 DEF Says, NewRow, EntryOf, Entry
        <5> QED  BY <2>2, <5>3, <5>4 DEF HasRow
      <4> QED  BY <4>1, <4>2
    <3> QED  BY <3>1, <3>2, OwingKept
  <2>7. Unrepeated'
    <3> SUFFICES ASSUME NEW q \in Msg, NEW i \in DOMAIN rows', NEW j \in DOMAIN rows',
                        Says(rows'[i], q, "user"), Says(rows'[j], q, "user")
                 PROVE  i = j
      BY DEF Unrepeated
    <3>1. CASE i \in DOMAIN rows /\ j \in DOMAIN rows
      BY <2>2, <3>1 DEF Unrepeated
    <3>2. CASE i = Len(rows) + 1 /\ j \in DOMAIN rows
      BY <1>3, <2>2, <2>5, <3>2 DEF HasRow
    <3>3. CASE j = Len(rows) + 1 /\ i \in DOMAIN rows
      BY <1>3, <2>2, <2>5, <3>3 DEF HasRow
    <3> QED  BY <2>2, <3>1, <3>2, <3>3
  <2>8. AnswerFollowsQuestion'
    <3> SUFFICES ASSUME NEW i \in DOMAIN rows', rows'[i].role = "assistant", rows'[i].turn # 0
                 PROVE  /\ turns[rows'[i].turn].who = rows'[i].who
                        /\ \E j \in 1 .. i - 1 : Says(rows'[j], rows'[i].who, "user")
      BY <1>3 DEF AnswerFollowsQuestion
    <3>1. CASE i \in DOMAIN rows
      <4>1. rows'[i] = rows[i] /\ \A j \in 1 .. i - 1 : rows'[j] = rows[j]
        BY <2>2, <3>1
      <4> QED  BY <3>1, <4>1 DEF AnswerFollowsQuestion
    <3>2. CASE i = Len(rows) + 1
      <4>1. role[m] = "assistant" /\ turnOf[m] # 0 /\ rows'[i].turn = turnOf[m] /\ rows'[i].who = m
        BY <2>2, <3>2 DEF NewRow
      <4>2. HasRow(m) /\ turns[turnOf[m]].who = m
        BY <1>0, <4>1 DEF RowFirst, Stored
      <4>3. \E j \in 1 .. i - 1 : Says(rows'[j], m, "user")
        BY <2>2, <3>2, <4>2 DEF HasRow
      <4> QED  BY <4>1, <4>2, <4>3
    <3> QED  BY <2>2, <3>1, <3>2
  <2> QED  BY <2>6, <2>7, <2>8
<1> QED  BY <1>2, <1>3, TableSteps, Insertion

LEMMA TablesAlways == Spec => [](Typing /\ Tables)
<1>1. Init => Typing /\ Tables
  BY TypingInit, TablesInit
<1>2. Typing /\ Tables /\ [Next]_vars => (Typing /\ Tables)'
  BY TypingStep, TablesStep
<1> QED  BY <1>1, <1>2, PTL DEF Spec

\* An answer that refers to a turn is the answer to the message of that turn, and
\* the message comes before it in lb_chat_messages (startAiTurn is called with the
\* reference of the recorded message only, recordAssistantMessage with that turn).
THEOREM AnswersFollowQuestions == Spec => []AnswerFollowsQuestion
<1>1. Typing /\ Tables => AnswerFollowsQuestion
  BY DEF Tables
<1> QED  BY <1>1, TablesAlways, PTL

\* However often a message is taken in, before and after restarts, and whichever
\* statement failed the time before, lb_chat_messages has it once (the INSERT of
\* recordUserMessage and its ON DUPLICATE KEY UPDATE).
THEOREM MessagesHaveOneRow == Spec => []OneRowPerMessage
<1>1. Typing /\ Tables => OneRowPerMessage
  <2> SUFFICES ASSUME Typing, Tables, NEW m \in Msg
               PROVE  Cardinality({i \in DOMAIN rows : Says(rows[i], m, "user")}) <= 1
    BY DEF OneRowPerMessage
  <2> DEFINE S == {i \in DOMAIN rows : Says(rows[i], m, "user")}
  <2>1. CASE S = {}
    BY <2>1, FS_EmptySet
  <2>2. CASE S # {}
    <3>1. PICK i \in S : TRUE
      BY <2>2
    <3>2. S = {i}
      BY <3>1 DEF Tables, Unrepeated
    <3> QED  BY <3>2, FS_Singleton
  <2> QED  BY <2>1, <2>2
<1> QED  BY <1>1, TablesAlways, PTL

=============================================================================
