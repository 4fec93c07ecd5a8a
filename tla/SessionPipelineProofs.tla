----------------------- MODULE SessionPipelineProofs -----------------------
(***************************************************************************)
(* Theorems about SessionPipeline for every set of messages and senders,   *)
(* every assignment of senders and kinds, and every batch limit.           *)
(***************************************************************************)
EXTENDS SessionPipelineRefinement, FiniteSetTheorems, TLAPS

Running == {p \in Msg : Unfinished(p)}

\* Types, together with what keeps them inductive: a timer implies a batch (so
\* that batch[1] is a message), a started pipeline is new, and the in-flight
\* count is the number of running pipelines (so that it stays in Nat).
Typing == TypeOK /\ BufferArmed /\ Fresh /\ InFlightCount

-----------------------------------------------------------------------------
(* Lemmas about the steps' common parts *)

\* The set of running pipelines is finite.
LEMMA RunningFinite == IsFiniteSet(Running) /\ IsFiniteSet(Running')
  BY MsgFinite, FS_Subset, Running \in SUBSET Msg, Running' \in SUBSET Msg
  DEF Running

\* A pipeline that enters the race is counted.
LEMMA CountStart ==
  ASSUME TypeOK, InFlightCount, NEW p \in Msg, outer[p] = "off",
         outer' = [outer EXCEPT ![p] = "waiting"], inFlight' = inFlight + 1
  PROVE  InFlightCount' /\ inFlight' \in Nat
<1>1. Running' = Running \cup {p} /\ p \notin Running
  BY DEF Running, Unfinished, OuterSteps, TypeOK
<1>2. Cardinality(Running') = Cardinality(Running) + 1
  BY <1>1, RunningFinite, FS_AddElement
<1>3. inFlight = Cardinality(Running)
  BY DEF InFlightCount, Running
<1>4. inFlight' = Cardinality(Running')
  BY <1>2, <1>3
<1> QED  BY <1>4, RunningFinite, FS_CardinalityType DEF InFlightCount, Running

\* A pipeline that leaves the race or ends its apology is no longer counted.
LEMMA CountEnd ==
  ASSUME TypeOK, InFlightCount, NEW p \in Msg, Unfinished(p),
         NEW how \in OuterStates \ OuterSteps, OuterEnds(p, how)
  PROVE  InFlightCount' /\ inFlight' \in Nat
<1>1. Running' = Running \ {p} /\ p \in Running
  BY DEF Running, Unfinished, OuterSteps, OuterStates, TypeOK, OuterEnds
<1>2. Cardinality(Running') = Cardinality(Running) - 1
  BY <1>1, RunningFinite, FS_RemoveElement
<1>3. inFlight = Cardinality(Running)
  BY DEF InFlightCount, Running
<1>4. inFlight' = Cardinality(Running')
  BY <1>2, <1>3 DEF OuterEnds
<1> QED  BY <1>4, RunningFinite, FS_CardinalityType DEF InFlightCount, Running

\* Steps between which no pipeline starts or ends leave the count alone.
LEMMA CountSame ==
  ASSUME InFlightCount, inFlight' = inFlight,
         \A p \in Msg : Unfinished(p)' <=> Unfinished(p)
  PROVE  InFlightCount'
<1>1. Running' = Running
  BY DEF Running
<1> QED  BY <1>1 DEF InFlightCount, Running

\* transition() writes a state into the stored object, or nothing.
LEMMA TransitionedType ==
  ASSUME TypeOK, NEW s \in Sender, NEW st \in SessionStates
  PROVE  Transitioned(s, st) \in [Msg -> SessionStates]
  BY DEF Transitioned, TypeOK

\* Appending a message adds it to the range.
LEMMA RangeAppend ==
  ASSUME NEW c \in Seq(Msg), NEW m \in Msg
  PROVE  /\ Append(c, m) \in Seq(Msg) /\ Append(c, m) # <<>>
         /\ Range(Append(c, m)) = Range(c) \cup {m}
<1> DEFINE d == Append(c, m)
<1>1. d \in Seq(Msg) /\ Len(d) = Len(c) + 1
  OBVIOUS
<1>2. \A i \in 1..Len(d) : d[i] = IF i = Len(d) THEN m ELSE c[i]
  OBVIOUS
<1>3. Range(d) \subseteq Range(c) \cup {m}
  BY <1>1, <1>2 DEF Range
<1>4. m \in Range(d)
  BY <1>1, <1>2 DEF Range
<1>5. ASSUME NEW i \in DOMAIN c  PROVE  c[i] \in Range(d)
  <2>1. i \in DOMAIN d /\ d[i] = c[i]
    BY <1>1, <1>2, <1>5
  <2> QED  BY <2>1 DEF Range
<1> QED  BY <1>1, <1>3, <1>4, <1>5 DEF Range

-----------------------------------------------------------------------------
(* Preservation of Typing, by kind of step *)

HandlerStates == {"new"} \cup Processing \cup Processed

\* A handler step that does not push anything.
LEMMA HandlerOnly ==
  ASSUME Typing, NEW m \in Msg, handler[m] # "submitted",
         NEW h \in HandlerStates \ {"submitted"},
         handler' = [handler EXCEPT ![m] = h],
         UNCHANGED <<aggregator, manager, pipelineVars>>
  PROVE  Typing'
<1> USE DEF Typing, aggregator, manager, pipelineVars
<1>1. TypeOK'
  BY DEF TypeOK, HandlerStates
<1>2. BufferArmed'
  BY DEF BufferArmed
<1>3. Fresh'
  BY DEF Fresh, TypeOK, HandlerStates
<1>4. InFlightCount'
  BY CountSame DEF Unfinished
<1> QED  BY <1>1, <1>2, <1>3, <1>4

\* A step that hands a batch to a new pipeline.
LEMMA Flushing ==
  ASSUME Typing, NEW s \in Sender, NEW batch \in Seq(Msg), batch # <<>>,
         handler' \in [Msg -> HandlerStates],
         \A m \in Msg : handler[m] = "submitted" => handler'[m] = "submitted",
         \A m \in Range(batch) :
           From[m] = s /\ handler'[m] = "submitted" /\ outer[m] = "off",
         Flush(s, batch)
  PROVE  Typing'
<1> DEFINE p == batch[1]
<1> USE DEF Typing, Flush, StartPipeline
<1>1. p \in Msg /\ p \in Range(batch)
  BY DEF Range
<1>2. InFlightCount' /\ inFlight' \in Nat
  BY <1>1, CountStart
<1>3. TypeOK'
  <2> DEFINE x == IF sessions[s] = NoSession THEN p ELSE sessions[s]
  <2>1. x \in Msg
    BY <1>1 DEF TypeOK
  <2>2. /\ sessions' \in [Sender -> Msg \cup {NoSession}]
        /\ state' \in [Msg -> SessionStates]
        /\ session' \in [Msg -> Msg]
    BY <2>1, <1>1 DEF TypeOK, SessionStates
  <2>3. /\ items' \in [Msg -> Seq(Msg)]
        /\ inner' \in [Msg -> InnerStates]
        /\ outer' \in [Msg -> OuterStates]
    BY <1>1 DEF TypeOK, InnerStates, InnerSteps, OuterStates, OuterSteps
  <2>4. buffer' \in [Sender -> Seq(Msg)] /\ timers' \subseteq Sender
    BY DEF TypeOK
  <2> QED  BY <2>2, <2>3, <2>4, <1>2 DEF TypeOK, HandlerStates
<1>4. BufferArmed'
  BY DEF BufferArmed, TypeOK
<1>5. Fresh'
  <2>1. ASSUME NEW t \in Sender, NEW m \in Range(buffer'[t])
        PROVE  From[m] = t /\ handler'[m] = "submitted" /\ outer'[m] = "off"
    <3>1. t # s
      BY <2>1 DEF Range, TypeOK
    <3>2. m \in Msg /\ m \in Range(buffer[t])
      BY <3>1, <2>1 DEF Range, TypeOK
    <3>3. From[m] = t /\ handler[m] = "submitted" /\ outer[m] = "off"
      BY <3>2 DEF Fresh
    <3>4. m # p
      BY <1>1, <3>1, <3>3
    <3> QED  BY <3>2, <3>3, <3>4, <1>1 DEF TypeOK
  <2>2. ASSUME NEW m \in Msg, handler'[m] # "submitted"
        PROVE  outer'[m] = "off"
    <3>1. outer[m] = "off"
      BY <2>2 DEF Fresh
    <3>2. m # p
      BY <1>1, <2>2
    <3> QED  BY <3>1, <3>2, <1>1 DEF TypeOK
  <2>3. ASSUME NEW q \in Msg, outer'[q] = "off"
        PROVE  inner'[q] = "off" /\ answered'[q] = "no" /\ extra'[q] = <<>>
    BY <2>3, <1>1 DEF Fresh, TypeOK
  <2> QED  BY <2>1, <2>2, <2>3 DEF Fresh
<1> QED  BY <1>2, <1>3, <1>4, <1>5

\* A step of a running or abandoned pipeline.
LEMMA PipelineOnly ==
  ASSUME Typing, TypeOK', InFlightCount', UNCHANGED <<handlerVars, aggregator>>,
         \A q \in Msg : outer'[q] = "off" <=> outer[q] = "off",
         \A q \in Msg : outer[q] = "off" =>
           inner'[q] = inner[q] /\ answered'[q] = answered[q] /\ extra'[q] = extra[q]
  PROVE  Typing'
<1> USE DEF Typing, handlerVars, aggregator
<1>1. BufferArmed'
  BY DEF BufferArmed
<1>2. Fresh'
  <2>1. ASSUME NEW t \in Sender, NEW m \in Range(buffer'[t])
        PROVE  From[m] = t /\ handler'[m] = "submitted" /\ outer'[m] = "off"
    <3>1. m \in Range(buffer[t]) /\ m \in Msg
      BY <2>1 DEF Range, TypeOK
    <3>2. From[m] = t /\ handler[m] = "submitted" /\ outer[m] = "off"
      BY <3>1 DEF Fresh
    <3> QED  BY <3>1, <3>2
  <2> QED  BY <2>1 DEF Fresh, TypeOK
<1> QED  BY <1>1, <1>2

\* The inner promise waits for the next thing.
LEMMA Waiting ==
  ASSUME Typing, NEW p \in Msg, NEW from \in InnerSteps, NEW to \in InnerSteps,
         InnerWaits(p, from, to)
  PROVE  Typing'
<1> USE DEF Typing, InnerWaits, handlerVars, aggregator, manager
<1>1. TypeOK'
  BY DEF TypeOK, InnerStates
<1>2. InFlightCount'
  BY CountSame DEF Unfinished
<1>3. outer[p] # "off"
  BY DEF Fresh, InnerSteps
<1> QED  BY <1>1, <1>2, <1>3, PipelineOnly DEF TypeOK

\* The inner promise sets a state and goes on to its next await.
LEMMA GoingOn ==
  ASSUME Typing, NEW p \in Msg, inner[p] \in InnerSteps,
         NEW step \in InnerSteps, NEW st \in SessionStates,
         InnerGoesOn(p, step, st),
         UNCHANGED <<handlerVars, aggregator, items, session, extra, answered>>
  PROVE  Typing'
<1> USE DEF Typing, InnerGoesOn, handlerVars, aggregator
<1>1. Transitioned(From[p], st) \in [Msg -> SessionStates]
  BY FromType, TransitionedType
<1>2. TypeOK'
  BY <1>1 DEF TypeOK, InnerStates
<1>3. InFlightCount'
  BY CountSame DEF Unfinished
<1>4. outer[p] # "off"
  BY DEF Fresh, InnerSteps
<1> QED  BY <1>2, <1>3, <1>4, PipelineOnly DEF TypeOK

\* The outer call ends and the sender's session is released.
LEMMA Ending ==
  ASSUME Typing, NEW p \in Msg, Unfinished(p),
         NEW how \in OuterStates \ (OuterSteps \cup {"off"}), OuterEnds(p, how),
         NEW st \in SessionStates, Release(From[p], st),
         inner' = inner \/ \E i \in InnerStates : inner' = [inner EXCEPT ![p] = i],
         answered' \in [Msg -> {"no", "inTime", "late"}],
         \A q \in Msg \ {p} : answered'[q] = answered[q],
         UNCHANGED <<handlerVars, aggregator, items, session, extra>>
  PROVE  Typing'
<1> USE DEF Typing, Release, handlerVars, aggregator
<1>1. Transitioned(From[p], st) \in [Msg -> SessionStates]
  BY FromType, TransitionedType
<1>2. InFlightCount' /\ inFlight' \in Nat
  BY CountEnd
<1>3. outer' = [outer EXCEPT ![p] = how] /\ outer[p] # "off" /\ how # "off"
  BY DEF OuterEnds, Unfinished, OuterSteps
<1>4. inner' \in [Msg -> InnerStates] /\ (\A q \in Msg \ {p} : inner'[q] = inner[q])
  <2>1. inner \in [Msg -> InnerStates]
    BY DEF TypeOK
  <2>2. CASE inner' = inner
    BY <2>1, <2>2
  <2>3. CASE \E i \in InnerStates : inner' = [inner EXCEPT ![p] = i]
    BY <2>1, <2>3
  <2> QED  BY <2>2, <2>3
<1>5. TypeOK'
  <2>1. outer' \in [Msg -> OuterStates]
    BY <1>3 DEF TypeOK
  <2>2. sessions' \in [Sender -> Msg \cup {NoSession}]
    BY DEF TypeOK
  <2> QED  BY <2>1, <2>2, <1>1, <1>2, <1>4 DEF TypeOK
<1>6. \A q \in Msg : outer'[q] = "off" <=> outer[q] = "off"
  BY <1>3 DEF TypeOK
<1>7. \A q \in Msg : outer[q] = "off" =>
        inner'[q] = inner[q] /\ answered'[q] = answered[q] /\ extra'[q] = extra[q]
  BY <1>3, <1>4
<1> QED  BY <1>2, <1>5, <1>6, <1>7, PipelineOnly

\* The inner promise resolves.
LEMMA Returning ==
  ASSUME Typing, NEW p \in Msg, inner[p] \in InnerSteps, InnerReturns(p),
         answered' \in [Msg -> {"no", "inTime", "late"}],
         \A q \in Msg \ {p} : answered'[q] = answered[q],
         UNCHANGED <<handlerVars, aggregator, items, session, extra>>
  PROVE  Typing'
<1> USE DEF Typing, InnerReturns
<1>1. inner' = [inner EXCEPT ![p] = "returned"] /\ "returned" \in InnerStates
  BY DEF InnerStates
<1>2. "IDLE" \in SessionStates /\ Release(From[p], "IDLE")
  BY DEF SessionStates
<1>3. CASE outer[p] = "waiting"
  <2>1. OuterEnds(p, "finished") /\ Unfinished(p)
        /\ "finished" \in OuterStates \ (OuterSteps \cup {"off"})
    BY <1>3 DEF Unfinished, OuterSteps, OuterStates
  <2> QED  BY <2>1, <1>1, <1>2, Ending
<1>4. CASE outer[p] # "waiting"
  <2> USE <1>4 DEF Release, handlerVars, aggregator
  <2>1. Transitioned(From[p], "IDLE") \in [Msg -> SessionStates]
    BY <1>2, FromType, TransitionedType
  <2>2. outer' = outer /\ inFlight' = inFlight
    OBVIOUS
  <2>3. TypeOK'
    <3>1. sessions' \in [Sender -> Msg \cup {NoSession}]
      BY DEF TypeOK
    <3>2. inner' \in [Msg -> InnerStates]
      BY <1>1 DEF TypeOK
    <3> QED  BY <2>1, <2>2, <3>1, <3>2 DEF TypeOK
  <2>4. InFlightCount'
    BY <2>2, CountSame DEF Unfinished
  <2>5. outer[p] # "off"
    BY DEF Fresh, InnerSteps
  <2>6. \A q \in Msg : outer[q] = "off" =>
          inner'[q] = inner[q] /\ answered'[q] = answered[q] /\ extra'[q] = extra[q]
    BY <2>5, <1>1 DEF TypeOK
  <2> QED  BY <2>2, <2>3, <2>4, <2>6, PipelineOnly
<1> QED  BY <1>3, <1>4

\* The inner promise rejects.
LEMMA Throwing ==
  ASSUME Typing, NEW p \in Msg, inner[p] \in InnerSteps,
         NEW timeoutText \in BOOLEAN, InnerThrows(p, timeoutText),
         UNCHANGED <<handlerVars, aggregator, items, session, extra, answered>>
  PROVE  Typing'
<1> USE DEF Typing, InnerThrows
<1>1. inner' = [inner EXCEPT ![p] = "threw"] /\ "threw" \in InnerStates
  BY DEF InnerStates
<1>2. outer[p] # "off"
  BY DEF Fresh, InnerSteps
<1>3. \A q \in Msg : outer[q] = "off" =>
        inner'[q] = inner[q] /\ answered'[q] = answered[q] /\ extra'[q] = extra[q]
  BY <1>1, <1>2 DEF TypeOK
<1>4. CASE outer[p] = "waiting" /\ timeoutText
  <2>1. OuterEnds(p, "silent") /\ Unfinished(p) /\ Release(From[p], "DEGRADED")
        /\ "silent" \in OuterStates \ (OuterSteps \cup {"off"})
        /\ "DEGRADED" \in SessionStates
    BY <1>4 DEF Unfinished, OuterSteps, OuterStates, SessionStates
  <2> QED  BY <2>1, <1>1, Ending DEF TypeOK
<1>5. CASE outer[p] = "waiting" /\ ~timeoutText
  <2>1. outer' = [outer EXCEPT ![p] = "apologizing"] /\ UNCHANGED <<manager, inFlight>>
    BY <1>5
  <2>2. TypeOK'
    <3>1. inner' \in [Msg -> InnerStates] /\ outer' \in [Msg -> OuterStates]
      BY <2>1, <1>1 DEF TypeOK, OuterStates, OuterSteps
    <3> QED  BY <2>1, <3>1 DEF TypeOK, manager, handlerVars, aggregator
  <2>3. InFlightCount'
    BY <2>1, <1>5, CountSame DEF Unfinished, OuterSteps, TypeOK
  <2>4. \A q \in Msg : outer'[q] = "off" <=> outer[q] = "off"
    BY <2>1, <1>5 DEF TypeOK
  <2> QED  BY <2>2, <2>3, <2>4, <1>3, PipelineOnly
<1>6. CASE outer[p] # "waiting"
  <2>1. UNCHANGED <<manager, outer, inFlight>>
    BY <1>6
  <2>2. TypeOK'
    BY <2>1, <1>1 DEF TypeOK, manager, handlerVars, aggregator
  <2>3. InFlightCount'
    BY <2>1, CountSame DEF Unfinished
  <2> QED  BY <2>1, <2>2, <2>3, <1>3, PipelineOnly
<1> QED  BY <1>4, <1>5, <1>6

-----------------------------------------------------------------------------
(* Typing is inductive *)

\* A push keeps the typing, whether it flushes or waits.
LEMMA Pushing ==
  ASSUME Typing, NEW m \in Msg, Submitted(m)
  PROVE  Typing'
<1> DEFINE s == From[m]
<1> DEFINE batch == Append(buffer[s], m)
<1> USE DEF Typing
<1>1. s \in Sender /\ buffer[s] \in Seq(Msg)
  BY FromType DEF TypeOK
<1>2. batch \in Seq(Msg) /\ batch # <<>> /\ Range(batch) = Range(buffer[s]) \cup {m}
  BY <1>1, RangeAppend
<1>3. /\ handler[m] = "submitting"
      /\ handler' = [handler EXCEPT ![m] = "submitted"]
      /\ \E overdue \in BOOLEAN : Push(s, m, overdue)
  BY DEF Submitted
<1>4. handler' \in [Msg -> HandlerStates]
  BY <1>3 DEF TypeOK, HandlerStates, Processed
<1>5. \A n \in Msg : handler[n] = "submitted" => handler'[n] = "submitted"
  BY <1>3 DEF TypeOK
<1>6. \A n \in Range(batch) :
        n \in Msg /\ From[n] = s /\ handler'[n] = "submitted" /\ outer[n] = "off"
  <2>1. From[m] = s /\ handler'[m] = "submitted" /\ outer[m] = "off"
    BY <1>3 DEF TypeOK, Fresh
  <2>2. ASSUME NEW n \in Range(buffer[s])
        PROVE  n \in Msg /\ From[n] = s /\ handler'[n] = "submitted" /\ outer[n] = "off"
    <3>1. n \in Msg
      BY <1>1, <2>2 DEF Range
    <3> QED  BY <1>1, <1>5, <2>2, <3>1 DEF Fresh
  <2> QED  BY <1>2, <2>1, <2>2
<1>7. CASE Flush(s, batch)
  BY <1>1, <1>2, <1>4, <1>5, <1>6, <1>7, Flushing
<1>8. CASE /\ buffer' = [buffer EXCEPT ![s] = batch]
           /\ timers' = timers \cup {s}
           /\ UNCHANGED <<manager, pipelineVars>>
  <2> USE <1>8 DEF manager, pipelineVars
  <2>1. TypeOK'
    <3>1. buffer' \in [Sender -> Seq(Msg)] /\ timers' \subseteq Sender
      BY <1>1, <1>2 DEF TypeOK
    <3> QED  BY <3>1, <1>4 DEF TypeOK, HandlerStates
  <2>2. BufferArmed'
    BY <1>1, <1>2 DEF BufferArmed, TypeOK
  <2>3. InFlightCount'
    BY CountSame DEF Unfinished
  <2>4. ASSUME NEW t \in Sender, NEW n \in Range(buffer'[t])
        PROVE  From[n] = t /\ handler'[n] = "submitted" /\ outer'[n] = "off"
    <3>1. CASE t = s
      <4>1. n \in Range(batch)
        BY <3>1, <2>4, <1>1 DEF TypeOK
      <4> QED  BY <4>1, <1>6, <3>1
    <3>2. CASE t # s
      <4>1. n \in Range(buffer[t]) /\ n \in Msg
        BY <3>2, <2>4 DEF Range, TypeOK
      <4>2. From[n] = t /\ handler[n] = "submitted" /\ outer[n] = "off"
        BY <4>1 DEF Fresh
      <4> QED  BY <4>1, <4>2, <1>5
    <3> QED  BY <3>1, <3>2
  <2>5. \A n \in Msg : handler'[n] # "submitted" => outer'[n] = "off"
    BY <1>5 DEF Fresh
  <2>6. Fresh'
    BY <2>4, <2>5 DEF Fresh
  <2> QED  BY <2>1, <2>2, <2>3, <2>6
<1> QED  BY <1>3, <1>7, <1>8 DEF Push

\* Every step keeps the typing.
LEMMA TypingStep == Typing /\ [Next]_vars => Typing'
<1> SUFFICES ASSUME Typing, [Next]_vars  PROVE Typing'
  OBVIOUS
<1>1. ASSUME NEW s \in Sender, TimerFires(s)  PROVE Typing'
  <2>1. buffer[s] \in Seq(Msg) /\ buffer[s] # <<>> /\ Flush(s, buffer[s])
    BY <1>1 DEF TimerFires, Typing, TypeOK, BufferArmed
  <2>2. handler' = handler /\ handler' \in [Msg -> HandlerStates]
    BY <1>1 DEF TimerFires, handlerVars, Typing, TypeOK, HandlerStates
  <2>3. \A m \in Range(buffer[s]) :
          From[m] = s /\ handler'[m] = "submitted" /\ outer[m] = "off"
    BY <2>2 DEF Typing, Fresh
  <2> QED  BY <2>1, <2>2, <2>3, Flushing
<1>2. ASSUME NEW m \in Msg, HandlerStep(m)  PROVE Typing'
  <2> USE DEF HandlerStates, Processing, Processed
  <2>1. CASE Deliver(m)
    BY <2>1, HandlerOnly DEF Deliver
  <2>2. CASE ParseThrows(m)
    BY <2>2, HandlerOnly DEF ParseThrows
  <2>3. CASE ParsedEmpty(m)
    BY <2>3, HandlerOnly DEF ParsedEmpty
  <2>4. CASE Parsed(m)
    BY <2>4, HandlerOnly DEF Parsed
  <2>5. CASE Appended(m)
    <3> USE <2>5 DEF Appended, Typing
    <3>1. From[m] \in Sender /\ sessions[From[m]] \in Msg \cup {NoSession}
      BY FromType DEF TypeOK
    <3>2. pending' \in [Msg -> Seq(Msg)]
      <4> DEFINE x == sessions[From[m]]
      <4>1. pending \in [Msg -> Seq(Msg)] /\ x \in Msg \cup {NoSession}
        BY <3>1 DEF TypeOK
      <4>2. pending' = IF x = NoSession THEN pending
                       ELSE [pending EXCEPT ![x] = Append(pending[x], m)]
        OBVIOUS
      <4>3. x # NoSession => x \in Msg /\ Append(pending[x], m) \in Seq(Msg)
        BY <4>1
      <4> HIDE <2>5 DEF Appended, Typing, x
      <4> QED  BY <4>1, <4>2, <4>3
    <3>3. TypeOK'
      BY <3>2 DEF TypeOK, aggregator, pipelineVars
    <3>4. BufferArmed'
      BY DEF BufferArmed, aggregator
    <3>5. Fresh'
      BY DEF Fresh, TypeOK, aggregator, pipelineVars
    <3>6. InFlightCount'
      BY CountSame DEF Unfinished, pipelineVars
    <3> QED  BY <3>3, <3>4, <3>5, <3>6
  <2>6. CASE Stored(m)
    BY <2>6, HandlerOnly DEF Stored
  <2>7. CASE Submitted(m)
    BY <2>7, Pushing
  <2> QED  BY <1>2, <2>1, <2>2, <2>3, <2>4, <2>5, <2>6, <2>7 DEF HandlerStep
<1>3. ASSUME NEW p \in Msg, InnerStep(p)  PROVE Typing'
  <2> USE DEF InnerSteps
  <2>1. CASE Routed(p)
    BY <2>1, Returning, GoingOn DEF Routed, Typing, TypeOK, SessionStates
  <2>2. CASE ChatWritten(p)
    BY <2>2, Waiting DEF ChatWritten
  <2>4. CASE TurnStarted(p)
    BY <2>4, Waiting DEF TurnStarted
  <2>5. CASE Generated(p)
    BY <2>5, Waiting DEF Generated
  <2>6. CASE GenerationFails(p)
    BY <2>6, Waiting DEF GenerationFails
  <2>7. CASE FailureRecorded(p)
    BY <2>7, Throwing DEF FailureRecorded
  <2>8. CASE Validated(p)
    <3> USE <2>8 DEF Validated, Typing
    <3>1. session[p] \in Msg /\ From[p] \in Sender
      BY FromType DEF TypeOK
    <3>2. Transitioned(From[p], "PROCESSING") \in [Msg -> SessionStates]
      BY <3>1, TransitionedType DEF SessionStates
    <3>3. CASE pending[session[p]] # <<>> /\ retryCount[session[p]] < 1
      <4>1. /\ pending' \in [Msg -> Seq(Msg)]
            /\ retryCount' \in [Msg -> Nat]
            /\ extra' \in [Msg -> Seq(Msg)]
            /\ inner' \in [Msg -> InnerStates]
        <5> DEFINE x == session[p]
        <5>1. /\ pending \in [Msg -> Seq(Msg)] /\ retryCount \in [Msg -> Nat]
              /\ extra \in [Msg -> Seq(Msg)] /\ inner \in [Msg -> InnerStates]
          BY DEF TypeOK
        <5>2. /\ retryCount' = [retryCount EXCEPT ![x] = retryCount[x] + 1]
              /\ extra' = [extra EXCEPT ![p] = pending[x]]
              /\ pending' = [pending EXCEPT ![x] = <<>>]
              /\ inner' = [inner EXCEPT ![p] = "regenerating"]
          BY <3>3
        <5>3. <<>> \in Seq(Msg) /\ pending[x] \in Seq(Msg) /\ retryCount[x] + 1 \in Nat
              /\ "regenerating" \in InnerStates
          BY <5>1, <3>1 DEF InnerStates
        <5> HIDE <2>8 DEF Validated, Typing, x
        <5> QED  BY <5>1, <5>2, <5>3
      <4>2. TypeOK'
        BY <4>1, <3>2, <3>3 DEF TypeOK, handlerVars, aggregator
      <4>3. InFlightCount'
        BY <3>3, CountSame DEF Unfinished
      <4>4. outer[p] # "off"
        BY DEF Fresh
      <4>5. \A q \in Msg : outer[q] = "off" =>
              inner'[q] = inner[q] /\ answered'[q] = answered[q] /\ extra'[q] = extra[q]
        <5>1. /\ inner \in [Msg -> InnerStates] /\ extra \in [Msg -> Seq(Msg)]
              /\ inner' = [inner EXCEPT ![p] = "regenerating"]
              /\ extra' = [extra EXCEPT ![p] = pending[session[p]]]
              /\ answered' = answered
          BY <3>3 DEF TypeOK
        <5> HIDE <2>8 DEF Validated, Typing
        <5> QED  BY <4>4, <5>1
      <4> QED  BY <3>3, <4>2, <4>3, <4>5, PipelineOnly
    <3>4. CASE ~(pending[session[p]] # <<>> /\ retryCount[session[p]] < 1)
      BY <3>4, GoingOn DEF SessionStates
    <3> QED  BY <3>3, <3>4
  <2>9. CASE Regenerated(p)
    BY <2>9, Waiting DEF Regenerated
  <2>10. CASE RetryRecorded(p)
    BY <2>10, GoingOn DEF RetryRecorded, SessionStates
  <2>11. CASE Sent(p)
    <3> USE <2>11 DEF Sent, MarkAnswered, Typing
    <3>1. TypeOK'
      BY DEF TypeOK, InnerStates, handlerVars, aggregator, manager
    <3>2. InFlightCount'
      BY CountSame DEF Unfinished
    <3>3. outer[p] # "off"
      BY DEF Fresh
    <3>4. \A q \in Msg : outer[q] = "off" =>
            inner'[q] = inner[q] /\ answered'[q] = answered[q] /\ extra'[q] = extra[q]
      BY <3>3 DEF TypeOK
    <3> QED  BY <3>1, <3>2, <3>4, PipelineOnly
  <2>12. CASE SendFails(p)
    BY <2>12, Throwing DEF SendFails
  <2>13. CASE AnswerRecorded(p)
    BY <2>13, Returning DEF AnswerRecorded, Typing, TypeOK
  <2> QED  BY <1>3, <2>1, <2>2, <2>4, <2>5, <2>6, <2>7, <2>8, <2>9, <2>10,
             <2>11, <2>12, <2>13 DEF InnerStep
<1>4. ASSUME NEW p \in Msg, OuterStep(p)  PROVE Typing'
  <2> USE DEF OuterStates, OuterSteps, SessionStates, Unfinished
  <2>1. CASE TimesOut(p)
    BY <2>1, Ending DEF TimesOut, Typing, TypeOK
  <2>2. CASE Apologized(p)
    BY <2>2, Ending DEF Apologized, Typing, TypeOK
  <2> QED  BY <1>4, <2>1, <2>2 DEF OuterStep
<1>5. CASE UNCHANGED vars
  <2> USE <1>5 DEF vars, handlerVars, aggregator, manager, pipelineVars, Typing
  <2>1. TypeOK'
    BY DEF TypeOK
  <2>2. InFlightCount'
    BY CountSame DEF Unfinished
  <2> QED  BY <2>1, <2>2, PipelineOnly
<1> QED  BY <1>1, <1>2, <1>3, <1>4, <1>5 DEF Next

\* The initial state is typed: nothing runs.
LEMMA TypingInit == Init => Typing
<1> SUFFICES ASSUME Init  PROVE Typing
  OBVIOUS
<1>1. TypeOK
  BY FromType DEF Init, TypeOK, SessionStates, InnerStates, OuterStates
<1>2. BufferArmed /\ Fresh
  BY DEF Init, BufferArmed, Fresh, Range
<1>3. {p \in Msg : Unfinished(p)} = {}
  BY DEF Init, Unfinished, OuterSteps
<1>4. InFlightCount
  BY <1>3, FS_EmptySet DEF InFlightCount, Init
<1> QED  BY <1>1, <1>2, <1>4 DEF Typing

\* Every variable keeps its type, and the in-flight count never goes below zero
\* (the fields of the service and of its pipelines).
THEOREM TypeCorrectness == Spec => []TypeOK
<1>1. Typing => TypeOK
  BY DEF Typing
<1> QED  BY TypingInit, TypingStep, <1>1, PTL DEF Spec

\* inFlightRequests is the number of pipelines that have not ended: one is
\* counted once when it starts and once when it ends, in whichever way
\* (processAggregatedMessage and its finally block).
THEOREM InFlightCounted == Spec => []InFlightCount
<1>1. Typing => InFlightCount
  BY DEF Typing
<1> QED  BY TypingInit, TypingStep, <1>1, PTL DEF Spec

\* A batch waits exactly when its timer is armed (MessageAggregator).
THEOREM BuffersArmed == Spec => []BufferArmed
<1>1. Typing => BufferArmed
  BY DEF Typing
<1> QED  BY TypingInit, TypingStep, <1>1, PTL DEF Spec

-----------------------------------------------------------------------------
(* Sessions and their owners *)

Ownership == SessionHasOwner /\ StoredSessionActive

\* What starts a pipeline, seen from the session map: the batch is the sender's
\* and its first message is a message.
LEMMA FlushOwner ==
  ASSUME Typing, Ownership, NEW s \in Sender, NEW batch \in Seq(Msg),
         batch # <<>>, From[batch[1]] = s, StartPipeline(s, batch)
  PROVE  Ownership'
<1> DEFINE p == batch[1]
<1> DEFINE x == IF sessions[s] = NoSession THEN p ELSE sessions[s]
<1>1. p \in Msg
  OBVIOUS
<1>2. /\ sessions \in [Sender -> Msg \cup {NoSession}]
      /\ state \in [Msg -> SessionStates]
      /\ outer \in [Msg -> OuterStates]
  BY DEF Typing, TypeOK
<1>3. x \in Msg /\ From[x] = s
  BY <1>1, <1>2 DEF Ownership, SessionHasOwner
<1>4. /\ sessions' = [sessions EXCEPT ![s] = x]
      /\ state' = [state EXCEPT ![x] = "ROUTING"]
      /\ outer' = [outer EXCEPT ![p] = "waiting"]
  BY DEF StartPipeline
<1> HIDE DEF p, x
<1>5. \A q \in Msg : Unfinished(q) => Unfinished(q)'
  BY <1>2, <1>4 DEF Unfinished, OuterSteps
<1>6. outer'[x] \in OuterSteps
  BY <1>1, <1>2, <1>4, <1>5 DEF p, x, Ownership, SessionHasOwner, Unfinished, OuterSteps
<1>7. x # NoSession
  BY <1>3, NoSessionType
<1>8. ASSUME NEW t \in Sender, sessions'[t] # NoSession
      PROVE  /\ From[sessions'[t]] = t /\ outer'[sessions'[t]] \in OuterSteps
             /\ state'[sessions'[t]] \in ActiveStates
  <2>1. CASE t = s
    <3>1. sessions'[t] = x
      BY <2>1, <1>2, <1>4
    <3>2. state'[x] \in ActiveStates
      BY <1>2, <1>3, <1>4 DEF ActiveStates
    <3> QED  BY <3>1, <3>2, <1>3, <1>6, <2>1
  <2>2. CASE t # s
    <3>1. sessions'[t] = sessions[t] /\ sessions[t] \in Msg
      BY <2>2, <1>2, <1>4, <1>8
    <3>2. /\ From[sessions[t]] = t /\ Unfinished(sessions[t])
          /\ state[sessions[t]] \in ActiveStates
      BY <3>1, <1>8 DEF Ownership, SessionHasOwner, StoredSessionActive, IsActive
    <3>3. sessions[t] # x
      BY <3>2, <2>2, <1>3
    <3>4. state'[sessions[t]] = state[sessions[t]]
      BY <3>1, <3>3, <1>2, <1>4
    <3> QED  BY <3>1, <3>2, <3>4, <1>5 DEF Unfinished
  <2> QED  BY <2>1, <2>2
<1> QED  BY <1>8 DEF Ownership, SessionHasOwner, StoredSessionActive, IsActive, Unfinished

\* transition() to an active state, from a pipeline that may not own the stored
\* session, leaves it active.
LEMMA TransitionOwner ==
  ASSUME Typing, Ownership, NEW s \in Sender, NEW st \in ActiveStates,
         state' = Transitioned(s, st), sessions' = sessions, outer' = outer
  PROVE  Ownership'
<1>1. /\ sessions \in [Sender -> Msg \cup {NoSession}]
      /\ state \in [Msg -> SessionStates]
  BY DEF Typing, TypeOK
<1>2. ASSUME NEW t \in Sender, sessions'[t] # NoSession
      PROVE  state'[sessions'[t]] \in ActiveStates
  <2>1. sessions[t] \in Msg /\ state[sessions[t]] \in ActiveStates
    BY <1>1, <1>2 DEF Ownership, StoredSessionActive, IsActive
  <2> QED  BY <1>1, <2>1 DEF Transitioned
<1> QED  BY <1>2 DEF Ownership, SessionHasOwner, StoredSessionActive, IsActive, Unfinished

\* transition() and clear() by a pipeline that ends: the sender has no session
\* left, and those of other senders are not touched.
LEMMA ReleaseOwner ==
  ASSUME Typing, Ownership, NEW p \in Msg, NEW st \in SessionStates,
         Release(From[p], st), \A q \in Msg \ {p} : outer'[q] = outer[q]
  PROVE  Ownership'
<1> DEFINE s == From[p]
<1>1. /\ sessions \in [Sender -> Msg \cup {NoSession}]
      /\ state \in [Msg -> SessionStates]
      /\ s \in Sender
  BY FromType DEF Typing, TypeOK
<1>2. sessions' = [sessions EXCEPT ![s] = NoSession] /\ state' = Transitioned(s, st)
  BY DEF Release
<1>3. ASSUME NEW t \in Sender, sessions'[t] # NoSession
      PROVE  /\ From[sessions'[t]] = t /\ outer'[sessions'[t]] \in OuterSteps
             /\ state'[sessions'[t]] \in ActiveStates
  <2> DEFINE y == sessions[t]
  <2>1. t # s /\ sessions'[t] = y /\ y \in Msg /\ y # NoSession
    BY <1>1, <1>2, <1>3
  <2>2. From[y] = t /\ Unfinished(y) /\ state[y] \in ActiveStates
    BY <2>1 DEF Ownership, SessionHasOwner, StoredSessionActive, IsActive
  <2>3. y # p
    BY <2>1, <2>2
  <2>4. outer'[y] = outer[y]
    BY <2>1, <2>3
  <2>5. sessions[s] = NoSession \/ sessions[s] # y
    BY <1>1, <2>1, <2>2 DEF Ownership, SessionHasOwner
  <2>6. state'[y] = state[y]
    BY <1>1, <1>2, <2>1, <2>5 DEF Transitioned
  <2> QED  BY <2>1, <2>2, <2>4, <2>6 DEF Unfinished
<1> QED  BY <1>3 DEF Ownership, SessionHasOwner, StoredSessionActive, IsActive, Unfinished

\* Steps that touch neither the map, nor the states, nor end an outer call.
LEMMA SameOwner ==
  ASSUME Ownership, UNCHANGED <<sessions, state>>,
         \A q \in Msg : Unfinished(q) => Unfinished(q)',
         sessions \in [Sender -> Msg \cup {NoSession}]
  PROVE  Ownership'
  BY DEF Ownership, SessionHasOwner, StoredSessionActive, IsActive

\* Every step keeps the sessions owned and active.
LEMMA OwnershipStep == Typing /\ Ownership /\ [Next]_vars => Ownership'
<1> SUFFICES ASSUME Typing, Ownership, [Next]_vars  PROVE Ownership'
  OBVIOUS
<1> USE DEF manager, pipelineVars
<1>0. sessions \in [Sender -> Msg \cup {NoSession}] /\ outer \in [Msg -> OuterStates]
  BY DEF Typing, TypeOK
<1>1. ASSUME NEW s \in Sender, TimerFires(s)  PROVE Ownership'
  <2>1. buffer[s] \in Seq(Msg) /\ buffer[s] # <<>> /\ StartPipeline(s, buffer[s])
    BY <1>1 DEF TimerFires, Flush, Typing, TypeOK, BufferArmed
  <2>2. buffer[s][1] \in Range(buffer[s])
    BY <2>1 DEF Range
  <2>3. From[buffer[s][1]] = s
    BY <2>2 DEF Typing, Fresh
  <2> QED  BY <2>1, <2>3, FlushOwner
<1>2. ASSUME NEW m \in Msg, HandlerStep(m)  PROVE Ownership'
  <2>1. CASE UNCHANGED <<sessions, state, outer>>
    BY <2>1, <1>0, SameOwner DEF Unfinished
  <2>2. CASE Submitted(m)
    <3> DEFINE s == From[m]
    <3> DEFINE batch == Append(buffer[s], m)
    <3>1. s \in Sender /\ buffer[s] \in Seq(Msg)
      BY FromType DEF Typing, TypeOK
    <3>2. batch \in Seq(Msg) /\ batch # <<>>
      BY <3>1
    <3>3. From[batch[1]] = s
      <4>1. CASE buffer[s] = <<>>
        BY <4>1
      <4>2. CASE buffer[s] # <<>>
        <5>1. batch[1] = buffer[s][1] /\ buffer[s][1] \in Range(buffer[s])
          BY <4>2, <3>1 DEF Range
        <5> QED  BY <5>1, <3>1 DEF Typing, Fresh
      <4> QED  BY <4>1, <4>2
    <3>4. StartPipeline(s, batch) \/ UNCHANGED <<sessions, state, outer>>
      BY <2>2 DEF Submitted, Push, Flush
    <3>5. CASE StartPipeline(s, batch)
      BY <3>1, <3>2, <3>3, <3>5, FlushOwner
    <3> QED  BY <2>1, <3>4, <3>5
  <2> QED  BY <1>2, <2>1, <2>2 DEF HandlerStep, Deliver, ParseThrows, ParsedEmpty,
             Parsed, Appended, Stored
<1>3. ASSUME NEW p \in Msg, InnerStep(p)  PROVE Ownership'
  <2>0. From[p] \in Sender
    BY FromType
  <2>1. CASE UNCHANGED <<sessions, state, outer>>
    BY <2>1, <1>0, SameOwner DEF Unfinished
  <2>2. ASSUME NEW from, NEW to, InnerWaits(p, from, to)  PROVE Ownership'
    BY <2>1, <2>2 DEF InnerWaits
  <2>3. CASE InnerReturns(p)
    <3>1. Release(From[p], "IDLE") /\ "IDLE" \in SessionStates
      BY <2>3 DEF InnerReturns, SessionStates
    <3>2. \A q \in Msg \ {p} : outer'[q] = outer[q]
      BY <2>3, <1>0 DEF InnerReturns, OuterEnds
    <3> QED  BY <3>1, <3>2, ReleaseOwner
  <2>4. ASSUME NEW b \in BOOLEAN, InnerThrows(p, b)  PROVE Ownership'
    <3>1. CASE Release(From[p], "DEGRADED") /\ OuterEnds(p, "silent")
      <4>1. \A q \in Msg \ {p} : outer'[q] = outer[q]
        BY <3>1, <1>0 DEF OuterEnds
      <4> QED  BY <3>1, <4>1, ReleaseOwner DEF SessionStates
    <3>2. CASE outer' = [outer EXCEPT ![p] = "apologizing"] /\ UNCHANGED manager
      <4>1. \A q \in Msg : Unfinished(q) => Unfinished(q)'
        BY <3>2, <1>0 DEF Unfinished, OuterSteps
      <4> QED  BY <3>2, <4>1, <1>0, SameOwner
    <3>3. CASE UNCHANGED <<manager, outer>>
      BY <3>3, <2>1
    <3> QED  BY <2>4, <3>1, <3>2, <3>3 DEF InnerThrows
  <2>5. ASSUME NEW step, NEW st \in ActiveStates, InnerGoesOn(p, step, st)
        PROVE  Ownership'
    BY <2>0, <2>5, TransitionOwner DEF InnerGoesOn
  <2>6. CASE Validated(p)
    <3>1. CASE /\ state' = Transitioned(From[p], "PROCESSING")
               /\ UNCHANGED <<sessions, outer>>
      BY <2>0, <3>1, TransitionOwner DEF ActiveStates
    <3>2. CASE InnerGoesOn(p, "sending", "SENDING")
      BY <3>2, <2>5 DEF ActiveStates
    <3> QED  BY <2>6, <3>1, <3>2 DEF Validated
  <2>7. CASE Routed(p) \/ RetryRecorded(p)
    BY <2>3, <2>5, <2>7 DEF Routed, RetryRecorded, ActiveStates
  <2>8. CASE FailureRecorded(p) \/ SendFails(p)
    BY <2>4, <2>8 DEF FailureRecorded, SendFails
  <2>9. CASE AnswerRecorded(p)
    BY <2>3, <2>9 DEF AnswerRecorded
  <2>10. CASE Sent(p)
    BY <2>1, <2>10 DEF Sent
  <2>11. CASE \/ ChatWritten(p) \/ TurnStarted(p) \/ Generated(p)
              \/ GenerationFails(p) \/ Regenerated(p)
    BY <2>2, <2>11 DEF ChatWritten, TurnStarted, Generated, GenerationFails, Regenerated
  <2> QED  BY <1>3, <2>6, <2>7, <2>8, <2>9, <2>10, <2>11 DEF InnerStep
<1>4. ASSUME NEW p \in Msg, OuterStep(p)  PROVE Ownership'
  <2>1. PICK how \in OuterStates : OuterEnds(p, how) /\ Release(From[p], "DEGRADED")
    BY <1>4 DEF OuterStep, TimesOut, Apologized, OuterStates, OuterSteps
  <2>2. \A q \in Msg \ {p} : outer'[q] = outer[q]
    BY <2>1, <1>0 DEF OuterEnds
  <2> QED  BY <2>1, <2>2, ReleaseOwner DEF SessionStates
<1>5. CASE UNCHANGED vars
  BY <1>5, <1>0, SameOwner DEF vars, Unfinished
<1> QED  BY <1>1, <1>2, <1>3, <1>4, <1>5 DEF Next

\* No sender is ever locked into a session whose pipeline is over: a stored
\* session is its sender's, it is active, and its creator still runs.
THEOREM SessionsOwned == Spec => [](SessionHasOwner /\ StoredSessionActive)
<1>1. Init => Ownership
  BY DEF Init, Ownership, SessionHasOwner, StoredSessionActive
<1>2. Ownership => SessionHasOwner /\ StoredSessionActive
  BY DEF Ownership
<1> QED  BY <1>1, <1>2, OwnershipStep, TypingInit, TypingStep, PTL DEF Spec

\* In particular the next message of the sender is appended to it, and no
\* finished session is ever reused with its pending items and retry count.
THEOREM SessionsActive == Spec => []StoredSessionActive
  BY SessionsOwned, PTL

-----------------------------------------------------------------------------
(* How a pipeline ends, and its second generation *)

\* A step that starts no pipeline and leaves the ends of all but p alone.
LEMMA EndsOfOthers ==
  ASSUME EndsApart, NEW p \in Msg,
         \A q \in Msg \ {p} : /\ inner'[q] = inner[q]
                              /\ outer'[q] = outer[q]
                              /\ answered'[q] = answered[q],
         outer'[p] \in {"apologizing", "apologized"} => inner'[p] = "threw",
         answered'[p] # "no" => inner'[p] \in {"recording", "chatPausing", "returned"}
  PROVE  EndsApart'
  BY DEF EndsApart

\* Every step keeps rejections and answers apart.
LEMMA EndsStep == Typing /\ EndsApart /\ [Next]_vars => EndsApart'
<1> SUFFICES ASSUME Typing, EndsApart, [Next]_vars  PROVE EndsApart'
  OBVIOUS
<1> USE DEF pipelineVars
<1>0. /\ inner \in [Msg -> InnerStates] /\ outer \in [Msg -> OuterStates]
      /\ answered \in [Msg -> {"no", "inTime", "late"}]
  BY DEF Typing, TypeOK
<1>1. ASSUME NEW s \in Sender, NEW batch \in Seq(Msg), batch # <<>>,
             outer[batch[1]] = "off", StartPipeline(s, batch)
      PROVE  EndsApart'
  <2> DEFINE p == batch[1]
  <2>1. p \in Msg /\ answered[p] = "no"
    BY <1>1 DEF Typing, Fresh
  <2>2. /\ inner' = [inner EXCEPT ![p] = "routing"]
        /\ outer' = [outer EXCEPT ![p] = "waiting"] /\ answered' = answered
    BY <1>1 DEF StartPipeline
  <2> QED  BY <2>1, <2>2, <1>0, EndsOfOthers
<1>2. ASSUME NEW s \in Sender, TimerFires(s)  PROVE EndsApart'
  <2>1. buffer[s] \in Seq(Msg) /\ buffer[s] # <<>> /\ StartPipeline(s, buffer[s])
    BY <1>2 DEF TimerFires, Flush, Typing, TypeOK, BufferArmed
  <2>2. buffer[s][1] \in Range(buffer[s])
    BY <2>1 DEF Range
  <2>3. outer[buffer[s][1]] = "off"
    BY <2>2 DEF Typing, Fresh
  <2> QED  BY <2>1, <2>3, <1>1
<1>3. ASSUME NEW m \in Msg, HandlerStep(m)  PROVE EndsApart'
  <2>1. CASE UNCHANGED pipelineVars
    BY <2>1 DEF EndsApart
  <2>2. CASE Submitted(m)
    <3> DEFINE batch == Append(buffer[From[m]], m)
    <3>1. From[m] \in Sender /\ buffer[From[m]] \in Seq(Msg) /\ outer[m] = "off"
      BY <2>2, FromType DEF Submitted, Typing, TypeOK, Fresh
    <3>2. batch \in Seq(Msg) /\ batch # <<>>
      BY <3>1
    <3>3. outer[batch[1]] = "off"
      <4>1. CASE buffer[From[m]] = <<>>
        BY <4>1, <3>1
      <4>2. CASE buffer[From[m]] # <<>>
        <5>1. /\ batch[1] = buffer[From[m]][1]
              /\ buffer[From[m]][1] \in Range(buffer[From[m]])
          BY <4>2, <3>1 DEF Range
        <5> QED  BY <5>1, <3>1 DEF Typing, Fresh
      <4> QED  BY <4>1, <4>2
    <3>4. StartPipeline(From[m], batch) \/ UNCHANGED pipelineVars
      BY <2>2 DEF Submitted, Push, Flush
    <3> QED  BY <3>1, <3>2, <3>3, <3>4, <2>1, <1>1
  <2> QED  BY <1>3, <2>1, <2>2 DEF HandlerStep, Deliver, ParseThrows, ParsedEmpty,
             Parsed, Appended, Stored
<1>4. ASSUME NEW p \in Msg, InnerStep(p)  PROVE EndsApart'
  <2>1. /\ inner[p] \in InnerSteps
        /\ \A q \in Msg \ {p} : /\ inner'[q] = inner[q]
                                /\ outer'[q] = outer[q]
                                /\ answered'[q] = answered[q]
    BY <1>4, <1>0 DEF InnerStep, Routed, ChatWritten, TurnStarted, Generated,
       GenerationFails, FailureRecorded, Validated, Regenerated, RetryRecorded, Sent,
       SendFails, AnswerRecorded, InnerWaits, InnerReturns, InnerThrows, InnerGoesOn,
       OuterEnds, MarkAnswered, InnerSteps
  <2>2. outer[p] \notin {"apologizing", "apologized"}
    BY <2>1 DEF EndsApart, InnerSteps
  <2>3. answered[p] # "no" => inner[p] \in {"recording", "chatPausing"}
    BY <2>1 DEF EndsApart, InnerSteps
  <2>4. outer'[p] \in {"apologizing", "apologized"} => inner'[p] = "threw"
    BY <2>2, <1>4, <1>0 DEF InnerStep, Routed, ChatWritten, TurnStarted,
       Generated, GenerationFails, FailureRecorded, Validated, Regenerated,
       RetryRecorded, Sent, SendFails, AnswerRecorded, InnerWaits, InnerReturns,
       InnerThrows, InnerGoesOn, OuterEnds
  <2>5. answered'[p] # "no" => inner'[p] \in {"recording", "chatPausing", "returned"}
    BY <2>3, <1>4, <1>0 DEF InnerStep, Routed, ChatWritten, TurnStarted,
       Generated, GenerationFails, FailureRecorded, Validated, Regenerated,
       RetryRecorded, Sent, SendFails, AnswerRecorded, InnerWaits, InnerReturns,
       InnerThrows, InnerGoesOn, MarkAnswered
  <2> QED  BY <2>1, <2>4, <2>5, EndsOfOthers
<1>5. ASSUME NEW p \in Msg, OuterStep(p)  PROVE EndsApart'
  <2>1. /\ inner' = inner /\ answered' = answered
        /\ \A q \in Msg \ {p} : outer'[q] = outer[q]
    BY <1>5, <1>0 DEF OuterStep, TimesOut, Apologized, OuterEnds
  <2>2. outer'[p] \in {"apologizing", "apologized"} => inner'[p] = "threw"
    BY <1>5, <1>0 DEF OuterStep, TimesOut, Apologized, OuterEnds, EndsApart
  <2> QED  BY <2>1, <2>2, EndsOfOthers DEF EndsApart
<1>6. CASE UNCHANGED vars
  BY <1>6 DEF vars, EndsApart
<1> QED  BY <1>2, <1>3, <1>4, <1>5, <1>6 DEF Next

\* Nobody is sent the excuse after a complete answer.
THEOREM ExcuseExcludesAnswer == Spec => []NoExcuseAfterAnswer
<1>1. Init => EndsApart
  BY DEF Init, EndsApart
<1>2. Typing /\ EndsApart => NoExcuseAfterAnswer
  BY DEF EndsApart, NoExcuseAfterAnswer, Typing, TypeOK
<1> QED  BY <1>1, <1>2, EndsStep, TypingInit, TypingStep, PTL DEF Spec

Retries == RetryPaid /\ OneRetryPerSession

\* Steps that give no pipeline a second generation, give back no retry, and
\* bind at most pipelines without a second generation to a session.
LEMMA SameRetries ==
  ASSUME Typing, Retries, extra' = extra, retryCount' = retryCount,
         \A q \in Msg : extra[q] # <<>> => session'[q] = session[q]
  PROVE  Retries'
  BY DEF Retries, RetryPaid, OneRetryPerSession

\* Every step keeps one second generation per session.
LEMMA RetriesStep == Typing /\ Retries /\ [Next]_vars => Retries'
<1> SUFFICES ASSUME Typing, Retries, [Next]_vars  PROVE Retries'
  OBVIOUS
<1> USE DEF manager, pipelineVars
<1>0. /\ extra \in [Msg -> Seq(Msg)] /\ session \in [Msg -> Msg]
      /\ retryCount \in [Msg -> Nat]
  BY DEF Typing, TypeOK
<1>1. ASSUME NEW s \in Sender, NEW batch \in Seq(Msg), batch # <<>>,
             outer[batch[1]] = "off", StartPipeline(s, batch)
      PROVE  Retries'
  <2>1. batch[1] \in Msg /\ extra[batch[1]] = <<>>
    BY <1>1 DEF Typing, Fresh
  <2>2. /\ \A q \in Msg \ {batch[1]} : session'[q] = session[q]
        /\ extra' = extra /\ retryCount' = retryCount
    BY <1>1, <1>0 DEF StartPipeline
  <2> QED  BY <2>1, <2>2, SameRetries
<1>2. ASSUME NEW s \in Sender, TimerFires(s)  PROVE Retries'
  <2>1. buffer[s] \in Seq(Msg) /\ buffer[s] # <<>> /\ StartPipeline(s, buffer[s])
    BY <1>2 DEF TimerFires, Flush, Typing, TypeOK, BufferArmed
  <2>2. buffer[s][1] \in Range(buffer[s])
    BY <2>1 DEF Range
  <2>3. outer[buffer[s][1]] = "off"
    BY <2>2 DEF Typing, Fresh
  <2> QED  BY <2>1, <2>3, <1>1
<1>3. ASSUME NEW m \in Msg, HandlerStep(m)  PROVE Retries'
  <2>1. CASE UNCHANGED <<extra, retryCount, session>>
    BY <2>1, SameRetries
  <2>2. CASE Submitted(m)
    <3> DEFINE batch == Append(buffer[From[m]], m)
    <3>1. From[m] \in Sender /\ buffer[From[m]] \in Seq(Msg) /\ outer[m] = "off"
      BY <2>2, FromType DEF Submitted, Typing, TypeOK, Fresh
    <3>2. batch \in Seq(Msg) /\ batch # <<>>
      BY <3>1
    <3>3. outer[batch[1]] = "off"
      <4>1. CASE buffer[From[m]] = <<>>
        BY <4>1, <3>1
      <4>2. CASE buffer[From[m]] # <<>>
        <5>1. /\ batch[1] = buffer[From[m]][1]
              /\ buffer[From[m]][1] \in Range(buffer[From[m]])
          BY <4>2, <3>1 DEF Range
        <5> QED  BY <5>1, <3>1 DEF Typing, Fresh
      <4> QED  BY <4>1, <4>2
    <3>4. StartPipeline(From[m], batch) \/ UNCHANGED <<extra, retryCount, session>>
      BY <2>2 DEF Submitted, Push, Flush
    <3> QED  BY <3>1, <3>2, <3>3, <3>4, <2>1, <1>1
  <2> QED  BY <1>3, <2>1, <2>2 DEF HandlerStep, Deliver, ParseThrows, ParsedEmpty,
             Parsed, Appended, Stored
<1>4. ASSUME NEW p \in Msg, Validated(p), retryCount[session[p]] < 1,
             retryCount' = [retryCount EXCEPT ![session[p]] = @ + 1],
             extra' = [extra EXCEPT ![p] = pending[session[p]]]
      PROVE  Retries'
  <2> DEFINE x == session[p]
  <2>1. session' = session /\ x \in Msg
    BY <1>4, <1>0 DEF Validated
  <2>2. \A q \in Msg : session[q] = x => extra[q] = <<>>
    BY <1>4, <1>0 DEF Retries, RetryPaid
  <2>3. retryCount'[x] >= 1 /\ \A y \in Msg \ {x} : retryCount'[y] = retryCount[y]
    BY <1>4, <2>1, <1>0
  <2>4. \A q \in Msg \ {p} : extra'[q] = extra[q]
    BY <1>4, <1>0
  <2>5. ASSUME NEW q \in Msg, extra'[q] # <<>>  PROVE retryCount'[session[q]] >= 1
    <3>1. CASE session[q] = x
      BY <3>1, <2>3
    <3>2. CASE session[q] # x
      BY <3>2, <2>3, <2>4, <2>5, <1>0 DEF Retries, RetryPaid
    <3> QED  BY <3>1, <3>2
  <2>6. ASSUME NEW q \in Msg, NEW r \in Msg, extra'[q] # <<>>, extra'[r] # <<>>,
               session[q] = session[r]
        PROVE  q = r
    <3>1. CASE session[q] = x
      BY <3>1, <2>2, <2>4, <2>6
    <3>2. CASE session[q] # x
      BY <3>2, <2>4, <2>6 DEF Retries, OneRetryPerSession
    <3> QED  BY <3>1, <3>2
  <2> QED  BY <2>1, <2>5, <2>6 DEF Retries, RetryPaid, OneRetryPerSession
<1>5. ASSUME NEW p \in Msg, InnerStep(p) \/ OuterStep(p)  PROVE Retries'
  <2>1. CASE UNCHANGED <<extra, retryCount, session>>
    BY <2>1, SameRetries
  <2>2. CASE Validated(p)
    BY <2>1, <2>2, <1>4 DEF Validated, InnerGoesOn
  <2> QED  BY <1>5, <2>1, <2>2 DEF InnerStep, OuterStep, Routed, ChatWritten, TurnStarted, Generated, GenerationFails, FailureRecorded, Regenerated,
             RetryRecorded, Sent, SendFails, AnswerRecorded, TimesOut, Apologized,
             InnerWaits, InnerReturns, InnerThrows, InnerGoesOn, OuterEnds, Release
<1>6. CASE UNCHANGED vars
  BY <1>6, SameRetries DEF vars
<1> QED  BY <1>2, <1>3, <1>5, <1>6 DEF Next

\* However many pipelines share a session object, one of them at most runs a
\* second generation.
THEOREM RetriedOnce == Spec => []OneRetryPerSession
<1>1. Init => Retries
  BY DEF Init, Retries, RetryPaid, OneRetryPerSession
<1>2. Retries => OneRetryPerSession
  BY DEF Retries
<1> QED  BY <1>1, <1>2, RetriesStep, TypingInit, TypingStep, PTL DEF Spec

-----------------------------------------------------------------------------
(* Where messages are *)

\* All sequences that hold messages, as one function.
Placed == [q \in Queues |-> Content(q)]

Distinct(c) ==
  \A a, b \in Queues : \A i \in DOMAIN c[a], j \in DOMAIN c[b] :
    c[a][i] = c[b][j] => a = b /\ i = j

\* UsedOnce is about Placed only.
LEMMA UsedOnceDistinct == UsedOnce <=> Distinct(Placed)
  BY DEF UsedOnce, Distinct, Placed

\* The same, of the next state.
LEMMA UsedOncePrimed == UsedOnce' <=> Distinct(Placed')
  BY DEF UsedOnce, Distinct, Placed

\* The four kinds of sequence, in this state and in the next.
LEMMA Contents ==
  /\ \A s \in Sender : /\ <<"buffer", s>> \in Queues
                       /\ Content(<<"buffer", s>>) = buffer[s]
                       /\ Content(<<"buffer", s>>)' = buffer'[s]
  /\ \A x \in Msg : /\ <<"items", x>> \in Queues
                    /\ Content(<<"items", x>>) = items[x]
                    /\ Content(<<"items", x>>)' = items'[x]
  /\ \A x \in Msg : /\ <<"pending", x>> \in Queues
                    /\ Content(<<"pending", x>>) = pending[x]
                    /\ Content(<<"pending", x>>)' = pending'[x]
  /\ \A x \in Msg : /\ <<"extra", x>> \in Queues
                    /\ Content(<<"extra", x>>) = extra[x]
                    /\ Content(<<"extra", x>>)' = extra'[x]
  /\ \A q \in Queues : \/ \E s \in Sender : q = <<"buffer", s>>
                       \/ \E x \in Msg : q \in {<<"items", x>>, <<"pending", x>>, <<"extra", x>>}
  BY DEF Queues, Content

\* A whole sequence moves to a place of its own.
LEMMA DistinctMove ==
  ASSUME NEW c \in [Queues -> Seq(Msg)], Distinct(c),
         NEW a \in Queues, NEW b \in Queues, a # b
  PROVE  Distinct([c EXCEPT ![b] = c[a], ![a] = <<>>])
<1> DEFINE d == [c EXCEPT ![b] = c[a], ![a] = <<>>]
<1>1. d[b] = c[a] /\ d[a] = <<>> /\ \A q \in Queues \ {a, b} : d[q] = c[q]
  OBVIOUS
<1> HIDE DEF d
<1>2. DOMAIN d[a] = {}
  BY <1>1
<1> DEFINE old(q) == IF q = b THEN a ELSE q
<1>3. \A q \in Queues \ {a} : old(q) \in Queues /\ d[q] = c[old(q)]
  BY <1>1
<1>4. \A q, r \in Queues \ {a} : old(q) = old(r) => q = r
  OBVIOUS
<1> HIDE DEF old
<1>5. ASSUME NEW q \in Queues, NEW r \in Queues, NEW i \in DOMAIN d[q], NEW j \in DOMAIN d[r],
             d[q][i] = d[r][j]
      PROVE  q = r /\ i = j
  <2>1. q # a /\ r # a
    BY <1>2, <1>5
  <2>2. d[q] = c[old(q)] /\ d[r] = c[old(r)] /\ old(q) \in Queues /\ old(r) \in Queues
    BY <2>1, <1>3
  <2>3. old(q) = old(r) /\ i = j
    BY <2>2, <1>5 DEF Distinct
  <2> QED  BY <2>1, <2>3, <1>4
<1>6. Distinct(d)
  BY <1>5 DEF Distinct
<1> QED  BY <1>6 DEF d

\* A message that is nowhere is appended to one sequence.
LEMMA DistinctAppend ==
  ASSUME NEW c \in [Queues -> Seq(Msg)], Distinct(c),
         NEW a \in Queues, NEW m \in Msg, \A q \in Queues : m \notin Range(c[q])
  PROVE  Distinct([c EXCEPT ![a] = Append(c[a], m)])
<1> DEFINE d == [c EXCEPT ![a] = Append(c[a], m)]
<1>1. d[a] = Append(c[a], m) /\ \A q \in Queues \ {a} : d[q] = c[q]
  OBVIOUS
<1> HIDE DEF d
<1>2. ASSUME NEW q \in Queues, NEW i \in DOMAIN d[q]
      PROVE  \/ i \in DOMAIN c[q] /\ d[q][i] = c[q][i] /\ d[q][i] # m
             \/ q = a /\ i = Len(c[a]) + 1 /\ d[q][i] = m
  <2>1. CASE q # a
    BY <2>1, <1>1, <1>2 DEF Range
  <2>2. CASE q = a /\ i \in DOMAIN c[a]
    <3>1. d[a][i] = c[a][i]
      BY <1>1, <2>2
    <3> QED  BY <2>2, <3>1 DEF Range
  <2>3. CASE q = a /\ i \notin DOMAIN c[a]
    BY <1>1, <1>2, <2>3
  <2> QED  BY <2>1, <2>2, <2>3
<1>3. ASSUME NEW q \in Queues, NEW r \in Queues, NEW i \in DOMAIN d[q], NEW j \in DOMAIN d[r],
             d[q][i] = d[r][j]
      PROVE  q = r /\ i = j
  <2>1. CASE d[q][i] = m
    BY <2>1, <1>2, <1>3
  <2>2. CASE d[q][i] # m
    <3>1. i \in DOMAIN c[q] /\ j \in DOMAIN c[r] /\ c[q][i] = c[r][j]
      BY <2>2, <1>2, <1>3
    <3> QED  BY <3>1 DEF Distinct
  <2> QED  BY <2>1, <2>2
<1>4. Distinct(d)
  BY <1>3 DEF Distinct
<1> QED  BY <1>4 DEF d

\* With the types known, Placed is a function into the sequences of messages.
LEMMA PlacedType == TypeOK => Placed \in [Queues -> Seq(Msg)]
<1> SUFFICES ASSUME TypeOK, NEW q \in Queues  PROVE Content(q) \in Seq(Msg)
  BY DEF Placed
<1>1. ASSUME NEW s \in Sender, q = <<"buffer", s>>  PROVE Content(q) \in Seq(Msg)
  BY <1>1, Contents DEF TypeOK
<1>2. ASSUME NEW x \in Msg, q \in {<<"items", x>>, <<"pending", x>>, <<"extra", x>>}
      PROVE Content(q) \in Seq(Msg)
  BY <1>2, Contents DEF TypeOK
<1> QED  BY <1>1, <1>2, Contents

-----------------------------------------------------------------------------
(* The kinds of step, as far as the places of messages go *)

places == <<buffer, items, pending, extra>>

\* A handler that neither submits nor appends goes on or ends.
HandlerMoves(m, h) ==
  /\ handler[m] \in {"new", "parsing", "storing"}
  /\ h \in HandlerStates \ {"submitted", "appended"}
  /\ handler' = [handler EXCEPT ![m] = h]
  /\ UNCHANGED <<aggregator, manager, pipelineVars>>

\* A message joins its sender's buffer.
Joins(m) ==
  /\ handler[m] = "submitting"
  /\ handler' = [handler EXCEPT ![m] = "submitted"]
  /\ buffer' = [buffer EXCEPT ![From[m]] = Append(@, m)]
  /\ UNCHANGED <<manager, pipelineVars>>

\* A batch is handed to the pipeline of its first message.
BatchStarts(s, batch) ==
  /\ buffer' = [buffer EXCEPT ![s] = <<>>]
  /\ items' = [items EXCEPT ![batch[1]] = batch]
  /\ inner' = [inner EXCEPT ![batch[1]] = "routing"]
  /\ outer' = [outer EXCEPT ![batch[1]] = "waiting"]
  /\ UNCHANGED <<pending, extra>>

\* The pending items of p's session are given to its second generation.
Regenerates(p) ==
  /\ pending[session[p]] # <<>>
  /\ inner[p] = "closing"
  /\ inner' = [inner EXCEPT ![p] = "regenerating"]
  /\ extra' = [extra EXCEPT ![p] = pending[session[p]]]
  /\ pending' = [pending EXCEPT ![session[p]] = <<>>]
  /\ UNCHANGED <<handler, buffer, outer, items>>

\* A pipeline goes on or ends without touching a message.
PipelineMoves(p) ==
  /\ outer[p] # "off"
  /\ \E i \in InnerStates, o \in OuterStates \ {"off"} :
       /\ inner' = [inner EXCEPT ![p] = i] /\ (i \in FirstSteps => inner[p] \in FirstSteps)
       /\ outer' = [outer EXCEPT ![p] = o] /\ (o \in OuterSteps => outer[p] \in OuterSteps)
  /\ UNCHANGED <<handler, places>>

\* A step of an inner promise is one of the last two.
LEMMA InnerKinds ==
  ASSUME Typing, NEW p \in Msg, InnerStep(p)
  PROVE  PipelineMoves(p) \/ Regenerates(p)
<1>1. inner[p] # "off" => outer[p] # "off"
  BY DEF Typing, Fresh
<1>2. inner \in [Msg -> InnerStates] /\ outer \in [Msg -> OuterStates]
  BY DEF Typing, TypeOK
<1>3. /\ inner = [inner EXCEPT ![p] = inner[p]] /\ inner[p] \in InnerStates
      /\ outer = [outer EXCEPT ![p] = outer[p]] /\ outer[p] \in OuterStates
  BY <1>2
<1> USE DEF handlerVars, aggregator, manager, pipelineVars, places
<1>4. ASSUME NEW from \in InnerSteps, NEW to \in InnerSteps, InnerWaits(p, from, to),
             to \in FirstSteps => from \in FirstSteps
      PROVE  PipelineMoves(p)
  BY <1>1, <1>3, <1>4 DEF InnerWaits, PipelineMoves, InnerSteps, InnerStates
<1>5. ASSUME inner[p] \in InnerSteps, InnerReturns(p),
             UNCHANGED <<handlerVars, aggregator, items, session, extra, answered>>
      PROVE  PipelineMoves(p)
  <2>1. \E o \in OuterStates \ {"off"} :
          outer' = [outer EXCEPT ![p] = o] /\ (o \in OuterSteps => outer[p] \in OuterSteps)
    BY <1>1, <1>3, <1>5 DEF InnerReturns, OuterEnds, OuterStates, OuterSteps, InnerSteps
  <2> QED  BY <1>1, <1>5, <2>1 DEF InnerReturns, Release, PipelineMoves, InnerSteps, InnerStates, FirstSteps
<1>6. ASSUME inner[p] \in InnerSteps, NEW b \in BOOLEAN, InnerThrows(p, b),
             UNCHANGED <<handlerVars, aggregator, items, session, extra, answered>>
      PROVE  PipelineMoves(p)
  <2>1. \E o \in OuterStates \ {"off"} :
          outer' = [outer EXCEPT ![p] = o] /\ (o \in OuterSteps => outer[p] \in OuterSteps)
    BY <1>1, <1>3, <1>6 DEF InnerThrows, OuterEnds, OuterStates, OuterSteps, InnerSteps
  <2> QED  BY <1>1, <1>6, <2>1 DEF InnerThrows, Release, PipelineMoves, InnerSteps, InnerStates, FirstSteps
<1>7. ASSUME inner[p] \in InnerSteps, NEW to \in InnerSteps, NEW st, InnerGoesOn(p, to, st),
             to \in FirstSteps => inner[p] \in FirstSteps,
             UNCHANGED <<handlerVars, aggregator, items, session, extra, answered>>
      PROVE  PipelineMoves(p)
  BY <1>1, <1>3, <1>7 DEF InnerGoesOn, PipelineMoves, InnerSteps, InnerStates
<1> HIDE DEF handlerVars, aggregator, manager, pipelineVars, places
<1>8. CASE Routed(p)
  BY <1>5, <1>7, <1>8 DEF Routed, InnerSteps, FirstSteps
<1>9. CASE ChatWritten(p) \/ TurnStarted(p) \/ Generated(p) \/ GenerationFails(p) \/ Regenerated(p)
  BY <1>4, <1>9 DEF ChatWritten, TurnStarted, Generated, GenerationFails, Regenerated, InnerSteps, FirstSteps
<1>10. CASE FailureRecorded(p) \/ SendFails(p)
  BY <1>6, <1>10 DEF FailureRecorded, SendFails, InnerSteps
<1>11. CASE Validated(p)
  <2>1. CASE pending[session[p]] # <<>> /\ retryCount[session[p]] < 1
    BY <1>11, <2>1 DEF Validated, Regenerates, handlerVars, aggregator
  <2>2. CASE ~(pending[session[p]] # <<>> /\ retryCount[session[p]] < 1)
    BY <1>7, <1>11, <2>2 DEF Validated, InnerSteps, FirstSteps
  <2> QED  BY <2>1, <2>2
<1>12. CASE RetryRecorded(p)
  BY <1>7, <1>12 DEF RetryRecorded, InnerSteps, FirstSteps
<1>13. CASE Sent(p)
  BY <1>1, <1>3, <1>13 DEF Sent, PipelineMoves, InnerSteps, InnerStates, FirstSteps,
       handlerVars, aggregator, manager, places
<1>14. CASE AnswerRecorded(p)
  BY <1>5, <1>14 DEF AnswerRecorded, InnerSteps
<1> QED  BY <1>8, <1>9, <1>10, <1>11, <1>12, <1>13, <1>14, InnerStep(p) DEF InnerStep

\* Every step is of one of these kinds.
LEMMA StepKinds ==
  ASSUME Typing, [Next]_vars
  PROVE  \/ \E m \in Msg, h \in HandlerStates : HandlerMoves(m, h)
         \/ \E m \in Msg : Appended(m) \/ Joins(m)
         \/ \E s \in Sender : /\ buffer[s] # <<>> /\ UNCHANGED handler
                              /\ BatchStarts(s, buffer[s])
         \/ \E m \in Msg : /\ handler[m] = "submitting"
                           /\ handler' = [handler EXCEPT ![m] = "submitted"]
                           /\ BatchStarts(From[m], Append(buffer[From[m]], m))
         \/ \E p \in Msg : Regenerates(p) \/ PipelineMoves(p)
         \/ UNCHANGED <<handler, inner, outer, session, places>>
<1>1. ASSUME NEW s \in Sender, TimerFires(s)
      PROVE  buffer[s] # <<>> /\ UNCHANGED handler /\ BatchStarts(s, buffer[s])
  BY <1>1 DEF TimerFires, Flush, StartPipeline, BatchStarts, handlerVars, Typing, BufferArmed
<1>2. ASSUME NEW m \in Msg, Submitted(m)
      PROVE  \/ Joins(m)
             \/ /\ handler[m] = "submitting"
                /\ handler' = [handler EXCEPT ![m] = "submitted"]
                /\ BatchStarts(From[m], Append(buffer[From[m]], m))
  BY <1>2 DEF Submitted, Push, Flush, StartPipeline, BatchStarts, Joins
<1>3. ASSUME NEW m \in Msg, HandlerStep(m), ~Submitted(m)
      PROVE  Appended(m) \/ \E h \in HandlerStates : HandlerMoves(m, h)
  BY <1>3 DEF HandlerStep, Deliver, ParseThrows, ParsedEmpty, Parsed, Stored,
       HandlerMoves, HandlerStates, Processing, Processed
<1>4. ASSUME NEW p \in Msg, OuterStep(p)  PROVE PipelineMoves(p)
  <2>1. inner \in [Msg -> InnerStates] /\ outer \in [Msg -> OuterStates]
    BY DEF Typing, TypeOK
  <2>2. /\ outer[p] \in OuterSteps /\ inner' = inner
        /\ \E o \in {"silent", "apologized"} : outer' = [outer EXCEPT ![p] = o]
        /\ UNCHANGED <<handler, places>>
    BY <1>4 DEF OuterStep, TimesOut, Apologized, OuterEnds, Release, OuterSteps,
         handlerVars, aggregator, places
  <2>3. inner' = [inner EXCEPT ![p] = inner[p]] /\ inner[p] \in InnerStates
    BY <2>1, <2>2
  <2> QED  BY <2>2, <2>3 DEF PipelineMoves, OuterSteps, OuterStates
<1>5. CASE UNCHANGED vars
  BY <1>5 DEF vars, handlerVars, aggregator, manager, pipelineVars, places
<1> QED  BY <1>1, <1>2, <1>3, <1>4, <1>5, InnerKinds DEF Next

-----------------------------------------------------------------------------
(* UsedOnce, SubmittedIsHeld and InPlace, by kind of step *)

Placing == UsedOnce /\ InPlace /\ SubmittedIsHeld

\* A message that was neither submitted nor appended is in no sequence.
LEMMA Nowhere ==
  ASSUME Typing, InPlace, NEW m \in Msg, handler[m] \notin {"submitted", "appended"}
  PROVE  \A q \in Queues : m \notin Range(Content(q))
<1>1. \A s \in Sender : m \notin Range(buffer[s])
  BY DEF Typing, Fresh
<1>2. \A x \in Msg : m \notin Range(items[x]) /\ m \notin Range(pending[x]) /\ m \notin Range(extra[x])
  BY DEF InPlace
<1> QED  BY <1>1, <1>2, Contents

\* The sequences are as they were.
LEMMA PlacedSame == ASSUME UNCHANGED places PROVE Placed' = Placed
<1>1. ASSUME NEW q \in Queues  PROVE Content(q)' = Content(q)
  BY DEF places, Content
<1> QED  BY <1>1 DEF Placed

\* Steps that move no message.
LEMMA PlacingSame ==
  ASSUME Typing, Placing, UNCHANGED places,
         handler' \in [Msg -> HandlerStates],
         \A m \in Msg : handler[m] = "submitted" <=> handler'[m] = "submitted",
         \A m \in Msg : handler[m] = "appended" => handler'[m] = "appended",
         \A p \in Msg : outer[p] = "off" <=> outer'[p] = "off",
         \A p \in Msg : inner'[p] \in FirstSteps => inner[p] \in FirstSteps
  PROVE  Placing'
<1>1. UsedOnce'
  BY PlacedSame, UsedOnceDistinct, UsedOncePrimed DEF Placing
<1>2. \A p \in Msg : /\ Range(items[p]) \subseteq Msg /\ Range(pending[p]) \subseteq Msg
                     /\ Range(extra[p]) \subseteq Msg
  <2>1. /\ items \in [Msg -> Seq(Msg)] /\ pending \in [Msg -> Seq(Msg)]
        /\ extra \in [Msg -> Seq(Msg)]
    BY DEF Typing, TypeOK
  <2> QED  BY <2>1 DEF Range
<1>3. InPlace'
  BY <1>2 DEF Placing, InPlace, places
<1>4. SubmittedIsHeld'
  BY DEF Placing, SubmittedIsHeld, places
<1> QED  BY <1>1, <1>3, <1>4 DEF Placing

\* The sequences after a step that starts a batch.
StartedPlaces(s, batch) ==
  [Placed EXCEPT ![<<"items", batch[1]>>] = batch, ![<<"buffer", s>>] = <<>>]

\* A batch that starts leaves them so.
LEMMA PlacedStarts ==
  ASSUME Typing, NEW s \in Sender, NEW batch \in Seq(Msg), batch # <<>>, BatchStarts(s, batch)
  PROVE  Placed' = StartedPlaces(s, batch)
<1> DEFINE p == batch[1]
<1> DEFINE d == StartedPlaces(s, batch)
<1>1. p \in Msg
  OBVIOUS
<1>2. buffer \in [Sender -> Seq(Msg)] /\ items \in [Msg -> Seq(Msg)]
  BY DEF Typing, TypeOK
<1>3. ASSUME NEW q \in Queues  PROVE Content(q)' = d[q]
  <2>1. /\ d[<<"items", p>>] = batch /\ d[<<"buffer", s>>] = <<>>
        /\ \A r \in Queues \ {<<"items", p>>, <<"buffer", s>>} : d[r] = Content(r)
    BY <1>1, Contents DEF StartedPlaces, Placed
  <2>2. ASSUME NEW t \in Sender, q = <<"buffer", t>>  PROVE Content(q)' = d[q]
    <3>1. CASE t = s
      BY <3>1, <2>2, <2>1, <1>2, Contents DEF BatchStarts
    <3>2. CASE t # s
      BY <3>2, <2>2, <2>1, <1>2, Contents DEF BatchStarts
    <3> QED  BY <3>1, <3>2
  <2>3. ASSUME NEW x \in Msg, q = <<"items", x>>  PROVE Content(q)' = d[q]
    <3>1. CASE x = p
      BY <3>1, <2>3, <2>1, <1>2, Contents DEF BatchStarts
    <3>2. CASE x # p
      BY <3>2, <2>3, <2>1, <1>2, Contents DEF BatchStarts
    <3> QED  BY <3>1, <3>2
  <2>4. ASSUME NEW x \in Msg, q \in {<<"pending", x>>, <<"extra", x>>}  PROVE Content(q)' = d[q]
    BY <2>4, <2>1, Contents DEF BatchStarts
  <2> QED  BY <2>2, <2>3, <2>4, Contents
<1>4. d = [q \in Queues |-> d[q]]
  BY DEF StartedPlaces, Placed
<1> HIDE DEF d
<1>5. Placed' = [q \in Queues |-> d[q]]
  BY <1>3 DEF Placed
<1> QED  BY <1>4, <1>5 DEF d

\* A batch that starts keeps every message in its place.
LEMMA PlacingStarts ==
  ASSUME Typing, Placing, NEW s \in Sender, NEW batch \in Seq(Msg), batch # <<>>,
         BatchStarts(s, batch), handler' \in [Msg -> HandlerStates],
         \A m \in Msg : handler[m] \in {"submitted", "appended"} => handler'[m] = handler[m],
         \A m \in Msg : handler'[m] = "submitted" =>
           handler[m] = "submitted" \/ m \in Range(batch),
         Range(buffer[s]) \subseteq Range(batch),
         \A m \in Range(batch) : handler'[m] = "submitted" /\ outer[m] = "off",
         Distinct(StartedPlaces(s, batch))
  PROVE  Placing'
<1> DEFINE p == batch[1]
<1>1. UsedOnce'
  BY PlacedStarts, UsedOncePrimed
<1>2. p \in Msg /\ p \in Range(batch) /\ outer[p] = "off" /\ extra[p] = <<>>
  BY DEF Range, Typing, Fresh
<1> HIDE DEF p
<1>3. /\ buffer' = [buffer EXCEPT ![s] = <<>>] /\ pending' = pending /\ extra' = extra
      /\ items' = [items EXCEPT ![p] = batch]
      /\ inner' = [inner EXCEPT ![p] = "routing"]
      /\ outer' = [outer EXCEPT ![p] = "waiting"]
  BY DEF BatchStarts, p
<1>4. /\ buffer \in [Sender -> Seq(Msg)] /\ items \in [Msg -> Seq(Msg)]
      /\ pending \in [Msg -> Seq(Msg)] /\ extra \in [Msg -> Seq(Msg)]
      /\ inner \in [Msg -> InnerStates] /\ outer \in [Msg -> OuterStates]
  BY DEF Typing, TypeOK
<1>5. /\ items'[p] = batch /\ inner'[p] = "routing" /\ outer'[p] = "waiting"
      /\ \A q \in Msg \ {p} : items'[q] = items[q] /\ inner'[q] = inner[q] /\ outer'[q] = outer[q]
  BY <1>2, <1>3, <1>4
<1>6. \A q \in Msg : /\ Range(items[q]) \subseteq Msg /\ Range(pending[q]) \subseteq Msg
                     /\ Range(extra[q]) \subseteq Msg
  BY <1>4 DEF Range
<1>7. InPlace'
  <2>1. ASSUME NEW q \in Msg, NEW m \in Range(items'[q])  PROVE handler'[m] = "submitted"
    <3>1. CASE q = p
      BY <3>1, <2>1, <1>5
    <3>2. CASE q # p
      BY <3>2, <2>1, <1>5, <1>6 DEF Placing, InPlace
    <3> QED  BY <3>1, <3>2
  <2>2. ASSUME NEW q \in Msg
        PROVE  IF outer'[q] = "off" THEN items'[q] = <<>> ELSE q \in Range(items'[q])
    BY <1>2, <1>5 DEF Placing, InPlace
  <2>3. \A q \in Msg : inner'[q] \in FirstSteps => extra'[q] = <<>>
    BY <1>2, <1>3, <1>5 DEF Placing, InPlace
  <2>4. /\ \A x \in Msg : \A m \in Range(pending'[x]) : handler'[m] = "appended" /\ From[m] = From[x]
        /\ \A x \in Msg : \A m \in Range(extra'[x]) : handler'[m] = "appended"
    <3>1. /\ \A x \in Msg : \A m \in Range(pending[x]) :
               m \in Msg /\ handler[m] = "appended" /\ From[m] = From[x]
          /\ \A x \in Msg : \A m \in Range(extra[x]) : m \in Msg /\ handler[m] = "appended"
      BY <1>6 DEF Placing, InPlace
    <3>2. \A m \in Msg : handler[m] = "appended" => handler'[m] = "appended"
      OBVIOUS
    <3> QED  BY <3>1, <3>2, <1>3
  <2> QED  BY <2>1, <2>2, <2>3, <2>4 DEF InPlace
<1>8. ASSUME NEW m \in Msg, handler'[m] = "submitted"
      PROVE  \/ m \in Range(buffer'[From[m]])
             \/ \E q \in Msg : m \in Range(items'[q]) /\ outer'[q] # "off"
  <2>1. CASE m \in Range(batch)
    BY <2>1, <1>2, <1>5
  <2>2. CASE m \in Range(buffer[From[m]]) /\ m \notin Range(batch)
    BY <2>2, <1>3, <1>4, FromType
  <2>3. ASSUME NEW q \in Msg, m \in Range(items[q]), outer[q] # "off"
        PROVE  m \in Range(items'[q]) /\ outer'[q] # "off"
    BY <2>3, <1>2, <1>5
  <2> QED  BY <1>8, <2>1, <2>2, <2>3 DEF Placing, SubmittedIsHeld
<1>9. SubmittedIsHeld'
  BY <1>8 DEF SubmittedIsHeld
<1> QED  BY <1>1, <1>7, <1>9 DEF Placing

\* The sequences after a step, given by their contents.
LEMMA PlacedIs ==
  ASSUME NEW d, d = [q \in Queues |-> d[q]], \A q \in Queues : Content(q)' = d[q]
  PROVE  Placed' = d
<1>1. Placed' = [q \in Queues |-> d[q]]
  BY DEF Placed
<1> QED  BY <1>1

\* A message is appended to the pending items of its sender's session.
LEMMA PlacedAppends ==
  ASSUME Typing, NEW m \in Msg, NEW x \in Msg,
         pending' = [pending EXCEPT ![x] = Append(@, m)], UNCHANGED <<buffer, items, extra>>
  PROVE  Placed' = [Placed EXCEPT ![<<"pending", x>>] = Append(Placed[<<"pending", x>>], m)]
<1> DEFINE a == <<"pending", x>>
<1> DEFINE d == [Placed EXCEPT ![a] = Append(Placed[a], m)]
<1>1. a \in Queues /\ d = [q \in Queues |-> d[q]] /\ d[a] = Append(pending[x], m)
      /\ \A r \in Queues \ {a} : d[r] = Content(r)
  BY Contents DEF Placed
<1>2. pending \in [Msg -> Seq(Msg)]
  BY DEF Typing, TypeOK
<1> HIDE DEF d
<1>3. ASSUME NEW q \in Queues  PROVE Content(q)' = d[q]
  <2>1. ASSUME NEW y \in Msg, q = <<"pending", y>>  PROVE Content(q)' = d[q]
    <3>1. CASE y = x
      BY <3>1, <2>1, <1>1, <1>2, Contents
    <3>2. CASE y # x
      BY <3>2, <2>1, <1>1, <1>2, Contents
    <3> QED  BY <3>1, <3>2
  <2>2. ASSUME NEW y \in Msg, q \in {<<"items", y>>, <<"extra", y>>}  PROVE Content(q)' = d[q]
    <3>1. q # a
      BY <2>2
    <3>2. d[q] = Content(q)
      BY <3>1, <1>1
    <3> QED  BY <3>2, <2>2, Contents
  <2>3. ASSUME NEW s \in Sender, q = <<"buffer", s>>  PROVE Content(q)' = d[q]
    <3>1. q # a
      BY <2>3
    <3>2. d[q] = Content(q)
      BY <3>1, <1>1
    <3> QED  BY <3>2, <2>3, Contents
  <2> QED  BY <2>1, <2>2, <2>3, Contents
<1>4. Placed' = d
  BY <1>1, <1>3, PlacedIs
<1> QED  BY <1>4 DEF d

\* A message joins its sender's buffer.
LEMMA PlacedJoins ==
  ASSUME Typing, NEW m \in Msg, NEW s \in Sender,
         buffer' = [buffer EXCEPT ![s] = Append(@, m)], UNCHANGED <<pending, items, extra>>
  PROVE  Placed' = [Placed EXCEPT ![<<"buffer", s>>] = Append(Placed[<<"buffer", s>>], m)]
<1> DEFINE a == <<"buffer", s>>
<1> DEFINE d == [Placed EXCEPT ![a] = Append(Placed[a], m)]
<1>1. a \in Queues /\ d = [q \in Queues |-> d[q]] /\ d[a] = Append(buffer[s], m)
      /\ \A r \in Queues \ {a} : d[r] = Content(r)
  BY Contents DEF Placed
<1>2. buffer \in [Sender -> Seq(Msg)]
  BY DEF Typing, TypeOK
<1> HIDE DEF d
<1>3. ASSUME NEW q \in Queues  PROVE Content(q)' = d[q]
  <2>1. ASSUME NEW t \in Sender, q = <<"buffer", t>>  PROVE Content(q)' = d[q]
    <3>1. CASE t = s
      BY <3>1, <2>1, <1>1, <1>2, Contents
    <3>2. CASE t # s
      BY <3>2, <2>1, <1>1, <1>2, Contents
    <3> QED  BY <3>1, <3>2
  <2>2. ASSUME NEW y \in Msg, q \in {<<"items", y>>, <<"pending", y>>, <<"extra", y>>}
        PROVE  Content(q)' = d[q]
    <3>1. q # a
      BY <2>2
    <3>2. d[q] = Content(q)
      BY <3>1, <1>1
    <3> QED  BY <3>2, <2>2, Contents
  <2> QED  BY <2>1, <2>2, Contents
<1>4. Placed' = d
  BY <1>1, <1>3, PlacedIs
<1> QED  BY <1>4 DEF d

\* The pending items of a session are handed to a second generation.
LEMMA PlacedRegenerates ==
  ASSUME Typing, NEW p \in Msg, Regenerates(p)
  PROVE  Placed' = [Placed EXCEPT ![<<"extra", p>>] = Placed[<<"pending", session[p]>>],
                                  ![<<"pending", session[p]>>] = <<>>]
<1> DEFINE x == session[p]
<1> DEFINE a == <<"pending", x>>
<1> DEFINE b == <<"extra", p>>
<1> DEFINE d == [Placed EXCEPT ![b] = Placed[a], ![a] = <<>>]
<1>1. /\ pending \in [Msg -> Seq(Msg)] /\ extra \in [Msg -> Seq(Msg)] /\ x \in Msg
      /\ pending' = [pending EXCEPT ![x] = <<>>]
      /\ extra' = [extra EXCEPT ![p] = pending[x]] /\ UNCHANGED <<buffer, items>>
  BY DEF Typing, TypeOK, Regenerates
<1> HIDE DEF x
<1>2. a \in Queues /\ b \in Queues /\ d = [q \in Queues |-> d[q]]
      /\ d[b] = pending[x] /\ d[a] = <<>> /\ \A r \in Queues \ {a, b} : d[r] = Content(r)
  BY <1>1, Contents DEF Placed
<1> HIDE DEF d
<1>3. ASSUME NEW q \in Queues  PROVE Content(q)' = d[q]
  <2>1. ASSUME NEW y \in Msg, q = <<"pending", y>>  PROVE Content(q)' = d[q]
    <3>1. CASE y = x
      BY <3>1, <2>1, <1>1, <1>2, Contents
    <3>2. CASE y # x
      BY <3>2, <2>1, <1>1, <1>2, Contents
    <3> QED  BY <3>1, <3>2
  <2>2. ASSUME NEW y \in Msg, q = <<"extra", y>>  PROVE Content(q)' = d[q]
    <3>1. CASE y = p
      BY <3>1, <2>2, <1>1, <1>2, Contents
    <3>2. CASE y # p
      BY <3>2, <2>2, <1>1, <1>2, Contents
    <3> QED  BY <3>1, <3>2
  <2>3. ASSUME NEW y \in Msg, q = <<"items", y>>  PROVE Content(q)' = d[q]
    <3>1. q # a /\ q # b
      BY <2>3
    <3>2. d[q] = Content(q) /\ items' = items
      BY <3>1, <1>1, <1>2
    <3> QED  BY <3>2, <2>3, Contents
  <2>4. ASSUME NEW s \in Sender, q = <<"buffer", s>>  PROVE Content(q)' = d[q]
    <3>1. q # a /\ q # b
      BY <2>4
    <3>2. d[q] = Content(q) /\ buffer' = buffer
      BY <3>1, <1>1, <1>2
    <3> QED  BY <3>2, <2>4, Contents
  <2> QED  BY <2>1, <2>2, <2>3, <2>4, Contents
<1>4. Placed' = d
  BY <1>2, <1>3, PlacedIs
<1> QED  BY <1>4 DEF d, x

\* Appending keeps every message in its place.
LEMMA PlacingAppended ==
  ASSUME Typing, Ownership, Placing, NEW m \in Msg, Appended(m)
  PROVE  Placing'
<1> DEFINE x == sessions[From[m]]
<1>1. /\ handler[m] = "appending" /\ handler' = [handler EXCEPT ![m] = "appended"]
      /\ pending' = IF x = NoSession THEN pending ELSE [pending EXCEPT ![x] = Append(@, m)]
      /\ UNCHANGED <<buffer, items, extra, inner, outer>>
  BY DEF Appended, aggregator, pipelineVars
<1>2. /\ handler \in [Msg -> HandlerStates] /\ pending \in [Msg -> Seq(Msg)]
      /\ items \in [Msg -> Seq(Msg)] /\ extra \in [Msg -> Seq(Msg)]
      /\ x \in Msg \cup {NoSession} /\ From[m] \in Sender
  BY FromType DEF Typing, TypeOK, HandlerStates
<1>3. handler' \in [Msg -> HandlerStates]
  BY <1>1, <1>2 DEF HandlerStates, Processed
<1>4. /\ handler'[m] = "appended"
      /\ \A n \in Msg \ {m} : handler'[n] = handler[n]
  BY <1>1, <1>2
<1>5. CASE x = NoSession
  <2>1. UNCHANGED places
    BY <1>1, <1>5 DEF places
  <2>2. /\ \A n \in Msg : handler[n] = "submitted" <=> handler'[n] = "submitted"
        /\ \A n \in Msg : handler[n] = "appended" => handler'[n] = "appended"
    BY <1>1, <1>4
  <2>3. \A p \in Msg : /\ outer[p] = "off" <=> outer'[p] = "off"
                       /\ inner'[p] \in FirstSteps => inner[p] \in FirstSteps
    BY <1>1
  <2> QED  BY <2>1, <2>2, <2>3, <1>3, PlacingSame
<1>6. CASE x # NoSession
  <2>1. x \in Msg /\ From[x] = From[m]
    BY <1>2, <1>6 DEF Ownership, SessionHasOwner
  <2> HIDE DEF x
  <2>2. pending' = [pending EXCEPT ![x] = Append(@, m)]
    BY <1>1, <1>6
  <2>3. UsedOnce'
    <3> DEFINE a == <<"pending", x>>
    <3>1. Placed' = [Placed EXCEPT ![a] = Append(Placed[a], m)]
      BY <2>1, <2>2, <1>1, PlacedAppends
    <3>2. Placed \in [Queues -> Seq(Msg)] /\ Distinct(Placed) /\ a \in Queues
      BY <2>1, PlacedType, UsedOnceDistinct, Contents DEF Placing, Typing
    <3>3. \A q \in Queues : m \notin Range(Placed[q])
      BY <1>1, Nowhere DEF Placing, Placed
    <3>4. Distinct(Placed')
      BY <3>1, <3>2, <3>3, DistinctAppend
    <3> QED  BY <3>4, UsedOncePrimed
  <2>4. /\ Range(pending'[x]) = Range(pending[x]) \cup {m}
        /\ \A y \in Msg \ {x} : pending'[y] = pending[y]
    BY <2>1, <2>2, <1>2, RangeAppend
  <2>5. \A q \in Msg : /\ Range(items[q]) \subseteq Msg /\ Range(pending[q]) \subseteq Msg
                       /\ Range(extra[q]) \subseteq Msg
    BY <1>2 DEF Range
  <2>6. \A y \in Msg : \A n \in Range(pending'[y]) : handler'[n] = "appended" /\ From[n] = From[y]
    BY <2>1, <2>4, <2>5, <1>4 DEF Placing, InPlace
  <2>7. \A p \in Msg : \A n \in Range(items[p]) : handler'[n] = "submitted"
    BY <2>5, <1>1, <1>4 DEF Placing, InPlace
  <2>8. \A p \in Msg : \A n \in Range(extra[p]) : handler'[n] = "appended"
    BY <2>5, <1>4 DEF Placing, InPlace
  <2>9. InPlace'
    BY <2>6, <2>7, <2>8, <1>1 DEF Placing, InPlace
  <2>10. SubmittedIsHeld'
    BY <1>1, <1>4 DEF Placing, SubmittedIsHeld
  <2> QED  BY <2>3, <2>9, <2>10 DEF Placing
<1> QED  BY <1>5, <1>6

\* Joining the buffer keeps every message in its place.
LEMMA PlacingJoins ==
  ASSUME Typing, Placing, NEW m \in Msg, Joins(m)
  PROVE  Placing'
<1> DEFINE s == From[m]
<1>1. /\ handler[m] = "submitting" /\ handler' = [handler EXCEPT ![m] = "submitted"]
      /\ buffer' = [buffer EXCEPT ![s] = Append(@, m)]
      /\ UNCHANGED <<pending, items, extra, inner, outer>>
  BY DEF Joins, manager, pipelineVars
<1>2. /\ handler \in [Msg -> HandlerStates] /\ pending \in [Msg -> Seq(Msg)]
      /\ items \in [Msg -> Seq(Msg)] /\ extra \in [Msg -> Seq(Msg)]
      /\ buffer \in [Sender -> Seq(Msg)] /\ s \in Sender
  BY FromType DEF Typing, TypeOK, HandlerStates
<1> HIDE DEF s
<1>3. UsedOnce'
  <2> DEFINE a == <<"buffer", s>>
  <2>1. Placed' = [Placed EXCEPT ![a] = Append(Placed[a], m)]
    BY <1>1, <1>2, PlacedJoins
  <2>2. Placed \in [Queues -> Seq(Msg)] /\ Distinct(Placed) /\ a \in Queues
    BY <1>2, PlacedType, UsedOnceDistinct, Contents DEF Placing, Typing
  <2>3. \A q \in Queues : m \notin Range(Placed[q])
    BY <1>1, Nowhere DEF Placing, Placed
  <2>4. Distinct(Placed')
    BY <2>1, <2>2, <2>3, DistinctAppend
  <2> QED  BY <2>4, UsedOncePrimed
<1>4. handler'[m] = "submitted" /\ \A n \in Msg \ {m} : handler'[n] = handler[n]
  BY <1>1, <1>2
<1>5. \A q \in Msg : /\ Range(items[q]) \subseteq Msg /\ Range(pending[q]) \subseteq Msg
                     /\ Range(extra[q]) \subseteq Msg
  BY <1>2 DEF Range
<1>6. InPlace'
  BY <1>1, <1>4, <1>5 DEF Placing, InPlace
<1>7. /\ Range(buffer'[s]) = Range(buffer[s]) \cup {m}
      /\ \A t \in Sender \ {s} : buffer'[t] = buffer[t]
  BY <1>1, <1>2, RangeAppend
<1>8. \A n \in Msg : n \in Range(buffer[From[n]]) \/ n = m => n \in Range(buffer'[From[n]])
  BY <1>7, FromType DEF s
<1>9. SubmittedIsHeld'
  BY <1>1, <1>4, <1>8 DEF Placing, SubmittedIsHeld
<1> QED  BY <1>3, <1>6, <1>9 DEF Placing

\* A second generation keeps every message in its place.
LEMMA PlacingRegenerates ==
  ASSUME Typing, Placing, NEW p \in Msg, Regenerates(p)
  PROVE  Placing'
<1> DEFINE x == session[p]
<1>1. /\ inner[p] = "closing" /\ inner' = [inner EXCEPT ![p] = "regenerating"]
      /\ extra' = [extra EXCEPT ![p] = pending[x]]
      /\ pending' = [pending EXCEPT ![x] = <<>>]
      /\ UNCHANGED <<handler, buffer, outer, items>>
  BY DEF Regenerates
<1>2. /\ pending \in [Msg -> Seq(Msg)] /\ inner \in [Msg -> InnerStates]
      /\ items \in [Msg -> Seq(Msg)] /\ extra \in [Msg -> Seq(Msg)] /\ x \in Msg
  BY DEF Typing, TypeOK
<1>3. UsedOnce'
  <2> DEFINE a == <<"pending", x>>
  <2> DEFINE b == <<"extra", p>>
  <2>1. Placed' = [Placed EXCEPT ![b] = Placed[a], ![a] = <<>>]
    BY PlacedRegenerates
  <2>2. /\ Placed \in [Queues -> Seq(Msg)] /\ Distinct(Placed)
        /\ a \in Queues /\ b \in Queues /\ a # b
    BY <1>2, PlacedType, UsedOnceDistinct, Contents DEF Placing, Typing
  <2> HIDE DEF a, b
  <2>3. Distinct(Placed')
    BY <2>1, <2>2, DistinctMove
  <2> QED  BY <2>3, UsedOncePrimed
<1> HIDE DEF x
<1>4. /\ inner'[p] = "regenerating" /\ extra'[p] = pending[x] /\ pending'[x] = <<>>
      /\ \A q \in Msg \ {p} : inner'[q] = inner[q] /\ extra'[q] = extra[q]
      /\ \A y \in Msg \ {x} : pending'[y] = pending[y]
  BY <1>1, <1>2
<1>5. Range(pending'[x]) = {}
  BY <1>4 DEF Range
<1>6. ASSUME NEW q \in Msg
      PROVE  /\ \A n \in Range(extra'[q]) : handler[n] = "appended"
             /\ inner'[q] \in FirstSteps => extra'[q] = <<>>
  <2>1. CASE q = p
    BY <2>1, <1>2, <1>4 DEF Placing, InPlace, FirstSteps
  <2>2. CASE q # p
    BY <2>2, <1>4 DEF Placing, InPlace
  <2> QED  BY <2>1, <2>2
<1>7. \A y \in Msg : \A n \in Range(pending'[y]) : handler[n] = "appended" /\ From[n] = From[y]
  BY <1>4, <1>5 DEF Placing, InPlace
<1>8. InPlace'
  BY <1>1, <1>6, <1>7 DEF Placing, InPlace
<1>9. SubmittedIsHeld'
  BY <1>1 DEF Placing, SubmittedIsHeld
<1> QED  BY <1>3, <1>8, <1>9 DEF Placing

\* Every step keeps every message in its place.
LEMMA PlacingStep == Typing /\ Ownership /\ Placing /\ [Next]_vars => Placing'
<1> SUFFICES ASSUME Typing, Ownership, Placing, [Next]_vars  PROVE Placing'
  OBVIOUS
<1>0. /\ handler \in [Msg -> HandlerStates] /\ inner \in [Msg -> InnerStates]
      /\ outer \in [Msg -> OuterStates] /\ buffer \in [Sender -> Seq(Msg)]
      /\ Placed \in [Queues -> Seq(Msg)] /\ Distinct(Placed)
  BY PlacedType, UsedOnceDistinct DEF Typing, TypeOK, HandlerStates, Placing
<1>1. ASSUME NEW m \in Msg, NEW h \in HandlerStates, HandlerMoves(m, h)  PROVE Placing'
  <2>1. UNCHANGED <<inner, outer, places>>
    BY <1>1 DEF HandlerMoves, aggregator, manager, pipelineVars, places
  <2>2. /\ handler' \in [Msg -> HandlerStates]
        /\ \A n \in Msg : handler[n] = "submitted" <=> handler'[n] = "submitted"
        /\ \A n \in Msg : handler[n] = "appended" => handler'[n] = "appended"
    BY <1>0, <1>1 DEF HandlerMoves
  <2> QED  BY <2>1, <2>2, PlacingSame
<1>2. ASSUME NEW s \in Sender, buffer[s] # <<>>, UNCHANGED handler, BatchStarts(s, buffer[s])
      PROVE  Placing'
  <2> DEFINE b == buffer[s]
  <2>1. b \in Seq(Msg) /\ b[1] \in Msg /\ Range(b) \subseteq Msg
    BY <1>0, <1>2 DEF Range
  <2>2. \A m \in Range(b) : handler[m] = "submitted" /\ outer[m] = "off"
    BY DEF Typing, Fresh
  <2>3. /\ <<"buffer", s>> \in Queues /\ <<"items", b[1]>> \in Queues
        /\ <<"buffer", s>> # <<"items", b[1]>> /\ Placed[<<"buffer", s>>] = b
    BY <2>1, Contents DEF Placed
  <2>4. Distinct(StartedPlaces(s, b))
    BY <2>3, <1>0, DistinctMove DEF StartedPlaces
  <2> QED  BY <2>1, <2>2, <2>4, <1>0, <1>2, PlacingStarts
<1>3. ASSUME NEW m \in Msg, handler[m] = "submitting",
             handler' = [handler EXCEPT ![m] = "submitted"],
             BatchStarts(From[m], Append(buffer[From[m]], m))
      PROVE  Placing'
  <2> DEFINE s == From[m]
  <2> DEFINE b == Append(buffer[s], m)
  <2> DEFINE a == <<"buffer", s>>
  <2> DEFINE c == [Placed EXCEPT ![a] = Append(Placed[a], m)]
  <2>1. s \in Sender /\ buffer[s] \in Seq(Msg)
    BY <1>0, FromType
  <2>2. b \in Seq(Msg) /\ b # <<>> /\ Range(b) = Range(buffer[s]) \cup {m}
    BY <2>1, RangeAppend
  <2>3. b[1] \in Msg /\ Range(buffer[s]) \subseteq Msg
    BY <2>1, <2>2 DEF Range
  <2>4. a \in Queues /\ <<"items", b[1]>> \in Queues /\ Placed[a] = buffer[s]
    BY <2>1, <2>3, Contents DEF Placed
  <2>5. \A q \in Queues : m \notin Range(Placed[q])
    BY <1>3, Nowhere DEF Placing, Placed
  <2>6. c \in [Queues -> Seq(Msg)] /\ Distinct(c) /\ c[a] = b
    <3>1. Distinct(c)
      BY <2>4, <2>5, <1>0, DistinctAppend
    <3> QED  BY <3>1, <2>1, <2>2, <2>4, <1>0
  <2> DEFINE e == <<"items", b[1]>>
  <2>7. e \in Queues /\ e # a
    BY <2>4
  <2>8. Distinct(StartedPlaces(s, b))
    <3>1. StartedPlaces(s, b) = [Placed EXCEPT ![e] = b, ![a] = <<>>]
      BY DEF StartedPlaces
    <3> HIDE DEF a, b, e
    <3>2. [Placed EXCEPT ![e] = b, ![a] = <<>>] = [c EXCEPT ![e] = c[a], ![a] = <<>>]
      BY <2>4, <2>6, <2>7, <1>0
    <3> HIDE DEF c
    <3>3. Distinct([c EXCEPT ![e] = c[a], ![a] = <<>>])
      BY <2>4, <2>6, <2>7, DistinctMove
    <3> QED  BY <3>1, <3>2, <3>3
  <2>9. /\ handler' \in [Msg -> HandlerStates] /\ handler'[m] = "submitted"
        /\ \A n \in Msg \ {m} : handler'[n] = handler[n]
    BY <1>0, <1>3 DEF HandlerStates, Processed
  <2>10. \A n \in Range(b) : handler'[n] = "submitted" /\ outer[n] = "off"
    <3>1. outer[m] = "off"
      BY <1>3 DEF Typing, Fresh
    <3>2. \A n \in Range(buffer[s]) : handler[n] = "submitted" /\ outer[n] = "off"
      BY <2>1 DEF Typing, Fresh
    <3> QED  BY <3>1, <3>2, <2>2, <2>3, <2>9
  <2>11. /\ \A n \in Msg : handler[n] \in {"submitted", "appended"} => handler'[n] = handler[n]
         /\ \A n \in Msg : handler'[n] = "submitted" =>
              handler[n] = "submitted" \/ n \in Range(b)
    BY <2>2, <2>9, <1>3
  <2> HIDE DEF b, s
  <2>12. BatchStarts(s, b)
    BY <1>3 DEF b, s
  <2>13. Range(buffer[s]) \subseteq Range(b)
    BY <2>2
  <2> QED  BY <2>1, <2>2, <2>8, <2>9, <2>10, <2>11, <2>12, <2>13, PlacingStarts
<1>4. ASSUME NEW p \in Msg, PipelineMoves(p)  PROVE Placing'
  <2>1. UNCHANGED <<handler, places>>
    BY <1>4 DEF PipelineMoves
  <2>2. \A q \in Msg : /\ outer[q] = "off" <=> outer'[q] = "off"
                       /\ inner'[q] \in FirstSteps => inner[q] \in FirstSteps
    BY <1>0, <1>4 DEF PipelineMoves
  <2> QED  BY <2>1, <2>2, <1>0, PlacingSame
<1>5. CASE UNCHANGED <<handler, inner, outer, session, places>>
  BY <1>0, <1>5, PlacingSame
<1> QED  BY <1>1, <1>2, <1>3, <1>4, <1>5, StepKinds, PlacingAppended, PlacingJoins, PlacingRegenerates

\* The three invariants the remaining theorems rest on.
LEMMA PlacingAlways == Spec => [](Typing /\ Ownership /\ Placing)
<1>1. Init => Ownership
  BY DEF Init, Ownership, SessionHasOwner, StoredSessionActive
<1>2. Init => Placing
  <2> SUFFICES ASSUME Init PROVE Placing
    OBVIOUS
  <2>1. \A q \in Queues : Content(q) = <<>>
    BY DEF Init, Queues, Content
  <2>2. UsedOnce
    BY <2>1 DEF UsedOnce
  <2>3. InPlace
    BY DEF Init, InPlace, Range, FirstSteps
  <2>4. SubmittedIsHeld
    BY DEF Init, SubmittedIsHeld
  <2> QED  BY <2>2, <2>3, <2>4 DEF Placing
<1> QED  BY <1>1, <1>2, PlacingStep, TypingInit, TypingStep, OwnershipStep, PTL DEF Spec

\* However flushes, retries, redeliveries and timeouts interleave, no message
\* is in two sequences or twice in one.
THEOREM MessagesUsedOnce == Spec => []UsedOnce
<1>1. Placing => UsedOnce
  BY DEF Placing
<1> QED  BY <1>1, PlacingAlways, PTL

\* No push, flush or timer loses a message handed to the aggregator.
THEOREM NoSubmissionLost == Spec => []SubmittedIsHeld
<1>1. Placing => SubmittedIsHeld
  BY DEF Placing
<1> QED  BY <1>1, PlacingAlways, PTL

-----------------------------------------------------------------------------
(* Pending messages are read *)

\* What a step must do for a message m that p is going to read.
Kept(p, m) == WillRead(p, m)' \/ GivenToGeneration(p, m) \/ StopsBefore(p)

\* p goes on towards its validation, with m pending and the budget unspent.
LEMMA ReadsOn ==
  ASSUME NEW p \in Msg, NEW m \in Msg, WillRead(p, m),
         session'[p] = session[p], retryCount' = retryCount,
         m \in Range(pending'[session[p]]), inner'[p] \in Unvalidated
  PROVE  Kept(p, m)
  BY DEF Kept, WillRead

\* A new pipeline may take over a session object and leaves it as it is.
LEMMA StartKeeps ==
  ASSUME Typing, NEW s \in Sender, NEW batch \in Seq(Msg), batch # <<>>,
         outer[batch[1]] = "off", StartPipeline(s, batch),
         NEW p \in Msg, NEW m \in Msg, WillRead(p, m)
  PROVE  Kept(p, m)
<1>1. batch[1] \in Msg /\ inner[batch[1]] = "off"
  BY DEF Typing, Fresh
<1>2. p # batch[1]
  BY <1>1 DEF WillRead, Unvalidated
<1>3. session \in [Msg -> Msg] /\ inner \in [Msg -> InnerStates]
  BY DEF Typing, TypeOK
<1>4. /\ session'[p] = session[p] /\ inner'[p] = inner[p]
      /\ pending' = pending /\ retryCount' = retryCount
  BY <1>1, <1>2, <1>3 DEF StartPipeline
<1> QED  BY <1>4, ReadsOn DEF WillRead

\* A message appended to a session is added to what is pending there.
LEMMA AppendedKeeps ==
  ASSUME Typing, NEW n \in Msg, Appended(n), NEW p \in Msg, NEW m \in Msg, WillRead(p, m)
  PROVE  Kept(p, m)
<1> DEFINE x == sessions[From[n]]
<1>1. /\ session' = session /\ inner' = inner /\ retryCount' = retryCount
      /\ pending' = IF x = NoSession THEN pending
                    ELSE [pending EXCEPT ![x] = Append(@, n)]
  BY DEF Appended, pipelineVars
<1>2. pending \in [Msg -> Seq(Msg)] /\ session[p] \in Msg
  BY DEF Typing, TypeOK
<1> HIDE DEF x
<1>3. m \in Range(pending'[session[p]])
  <2>1. CASE x = NoSession \/ x # session[p]
    BY <2>1, <1>1, <1>2 DEF WillRead
  <2>2. CASE x # NoSession /\ x = session[p]
    <3>1. pending'[x] = Append(pending[x], n)
      BY <2>2, <1>1, <1>2
    <3>2. Range(Append(pending[x], n)) = Range(pending[x]) \cup {n}
      BY <2>2, <1>2, RangeAppend
    <3> QED  BY <2>2, <3>1, <3>2 DEF WillRead
  <2> QED  BY <2>1, <2>2
<1> QED  BY <1>1, <1>3, ReadsOn DEF WillRead

\* The splice of the pending items gives them to the second generation of a
\* pipeline of the same session, or leaves those of another session alone.
LEMMA SpliceKeeps ==
  ASSUME Typing, NEW q \in Msg, Validated(q),
         pending[session[q]] # <<>> /\ retryCount[session[q]] < 1,
         NEW p \in Msg, NEW m \in Msg, WillRead(p, m)
  PROVE  Kept(p, m)
<1> DEFINE x == session[q]
<1>0. /\ pending \in [Msg -> Seq(Msg)] /\ extra \in [Msg -> Seq(Msg)]
      /\ retryCount \in [Msg -> Nat] /\ inner \in [Msg -> InnerStates]
      /\ session[p] \in Msg /\ x \in Msg
  BY DEF Typing, TypeOK
<1>1. /\ retryCount' = [retryCount EXCEPT ![x] = @ + 1]
      /\ extra' = [extra EXCEPT ![q] = pending[x]]
      /\ pending' = [pending EXCEPT ![x] = <<>>]
      /\ inner' = [inner EXCEPT ![q] = "regenerating"]
      /\ session' = session
  BY DEF Validated
<1>2. CASE session[p] = x
  <2>1. session'[q] = session[p] /\ inner'[q] = "regenerating" /\ extra'[q] = pending[session[p]]
    BY <1>0, <1>1, <1>2
  <2> QED  BY <2>1 DEF Kept, GivenToGeneration, WillRead
<1>3. CASE session[p] # x
  <2>1. p # q
    BY <1>3
  <2>2. /\ session'[p] = session[p] /\ inner'[p] = inner[p]
        /\ pending'[session[p]] = pending[session[p]]
        /\ retryCount'[session[p]] = retryCount[session[p]]
    BY <2>1, <1>0, <1>1, <1>3
  <2> QED  BY <2>2 DEF Kept, WillRead
<1> QED  BY <1>2, <1>3

\* All other steps of a pipeline touch neither pending items nor budgets: they
\* bring q nearer to its validation, or q stops before it, or is past it.
LEMMA OthersKeep ==
  ASSUME Typing, NEW q \in Msg, InnerStep(q) \/ OuterStep(q),
         ~(Validated(q) /\ pending[session[q]] # <<>> /\ retryCount[session[q]] < 1),
         NEW p \in Msg, NEW m \in Msg, WillRead(p, m)
  PROVE  Kept(p, m)
<1>0. inner \in [Msg -> InnerStates]
  BY DEF Typing, TypeOK
<1>1. session' = session /\ pending' = pending /\ retryCount' = retryCount
  BY DEF InnerStep, OuterStep, Routed, ChatWritten, TurnStarted, Generated, GenerationFails,
     FailureRecorded, Validated, Regenerated, RetryRecorded, Sent, SendFails, AnswerRecorded,
     TimesOut, Apologized, InnerWaits, InnerReturns, InnerThrows, InnerGoesOn, Release, manager
<1>2. inner'[p] \in Unvalidated \cup {"returned", "chatting", "failing"}
  <2>1. CASE inner' = inner
    BY <2>1 DEF WillRead
  <2>2. CASE p # q
    <3>1. inner'[p] = inner[p] \/ inner' = inner
      BY <2>2, <1>0 DEF InnerStep, OuterStep, Routed, ChatWritten, TurnStarted, Generated,
         GenerationFails, FailureRecorded, Validated, Regenerated, RetryRecorded, Sent, SendFails,
         AnswerRecorded, TimesOut, Apologized, InnerWaits, InnerReturns, InnerThrows, InnerGoesOn
    <3> QED  BY <3>1, <2>1 DEF WillRead
  <2>3. CASE p = q /\ InnerStep(q)
    <3>1. ~Validated(q)
      BY <2>3 DEF WillRead, Range
    <3>2. inner[q] \in Unvalidated
      BY <2>3 DEF WillRead
    <3>3. Routed(q) \/ TurnStarted(q) \/ Generated(q) \/ GenerationFails(q)
      BY <2>3, <3>1, <3>2 DEF InnerStep, ChatWritten, FailureRecorded, Regenerated, RetryRecorded,
         Sent, SendFails, AnswerRecorded, InnerWaits, Unvalidated
    <3> QED  BY <2>3, <3>3, <1>0 DEF Routed, TurnStarted, Generated, GenerationFails,
               InnerWaits, InnerReturns, InnerGoesOn, Unvalidated
  <2>4. CASE OuterStep(q)
    BY <2>4, <2>1 DEF OuterStep, TimesOut, Apologized
  <2> QED  BY <2>2, <2>3, <2>4
<1>3. CASE inner'[p] \in Unvalidated
  BY <1>1, <1>3, ReadsOn DEF WillRead
<1>4. CASE inner'[p] \in {"returned", "chatting", "failing"}
  BY <1>4 DEF Kept, StopsBefore
<1> QED  BY <1>2, <1>3, <1>4

\* Every step leaves what a pipeline is going to read to a reader.
LEMMA KeptStep ==
  ASSUME Typing, [Next]_vars, NEW p \in Msg, NEW m \in Msg, WillRead(p, m)
  PROVE  Kept(p, m)
<1>1. CASE UNCHANGED <<session, pending, retryCount, inner>>
  BY <1>1, ReadsOn DEF WillRead
<1>2. ASSUME NEW s \in Sender, TimerFires(s)  PROVE Kept(p, m)
  <2>1. buffer[s] \in Seq(Msg) /\ buffer[s] # <<>> /\ StartPipeline(s, buffer[s])
    BY <1>2 DEF TimerFires, Flush, Typing, TypeOK, BufferArmed
  <2>2. buffer[s][1] \in Range(buffer[s])
    BY <2>1 DEF Range
  <2>3. outer[buffer[s][1]] = "off"
    BY <2>2 DEF Typing, Fresh
  <2> QED  BY <2>1, <2>3, StartKeeps
<1>3. ASSUME NEW n \in Msg, Submitted(n)  PROVE Kept(p, m)
  <2> DEFINE batch == Append(buffer[From[n]], n)
  <2>0. handler[n] = "submitting"
    BY <1>3 DEF Submitted
  <2>1. From[n] \in Sender /\ buffer[From[n]] \in Seq(Msg) /\ outer[n] = "off"
    BY <2>0, FromType DEF Typing, TypeOK, Fresh
  <2>2. batch \in Seq(Msg) /\ batch # <<>>
    BY <2>1, RangeAppend
  <2>3. outer[batch[1]] = "off"
    <3>1. CASE buffer[From[n]] = <<>>
      BY <3>1, <2>1
    <3>2. CASE buffer[From[n]] # <<>>
      <4>1. batch[1] = buffer[From[n]][1] /\ buffer[From[n]][1] \in Range(buffer[From[n]])
        BY <3>2, <2>1 DEF Range
      <4> QED  BY <4>1, <2>1 DEF Typing, Fresh
    <3> QED  BY <3>1, <3>2
  <2>4. \/ StartPipeline(From[n], batch)
        \/ UNCHANGED <<session, pending, retryCount, inner>>
    BY <1>3 DEF Submitted, Push, Flush, manager, pipelineVars
  <2> QED  BY <2>1, <2>2, <2>3, <2>4, <1>1, StartKeeps
<1>4. ASSUME NEW n \in Msg, HandlerStep(n)  PROVE Kept(p, m)
  <2>1. Submitted(n) \/ Appended(n) \/ UNCHANGED <<session, pending, retryCount, inner>>
    BY <1>4 DEF HandlerStep, Deliver, ParseThrows, ParsedEmpty, Parsed, Stored, manager,
       pipelineVars
  <2> QED  BY <2>1, <1>1, <1>3, AppendedKeeps
<1>5. ASSUME NEW q \in Msg, InnerStep(q) \/ OuterStep(q)  PROVE Kept(p, m)
  BY <1>5, SpliceKeeps, OthersKeep
<1>6. CASE UNCHANGED vars
  BY <1>6, <1>1 DEF vars, manager, pipelineVars
<1> QED  BY <1>2, <1>4, <1>5, <1>6 DEF Next

\* A message that some pipeline is going to read stays so until a second
\* generation of the session is given it or the pipeline stops by itself: no
\* timeout, clear, splice or new pipeline of the sender takes it away.
THEOREM PendingMessagesRead == Spec => PendingIsRead
<1>1. Typing /\ [Next]_vars =>
        [\A p, m \in Msg :
           WillRead(p, m) => WillRead(p, m)' \/ GivenToGeneration(p, m) \/ StopsBefore(p)]_vars
  BY KeptStep DEF Kept
<1> QED  BY <1>1, TypingInit, TypingStep, PTL DEF Spec, PendingIsRead

-----------------------------------------------------------------------------
(* SessionPipeline implements MessageFate *)

\* UsedOnce, for the places the fate of a message is read off.
LEMMA Apart ==
  ASSUME UsedOnce, NEW m
  PROVE  /\ \A p, q \in Msg : m \in Range(items[p]) /\ m \in Range(items[q]) => p = q
         /\ \A p \in Msg, s \in Sender : ~(m \in Range(items[p]) /\ m \in Range(buffer[s]))
         /\ \A x, p \in Msg : ~(m \in Range(pending[x]) /\ m \in Range(extra[p]))
         /\ \A x, y \in Msg : m \in Range(pending[x]) /\ m \in Range(pending[y]) => x = y
<1>1. ASSUME NEW a \in Queues, NEW b \in Queues, m \in Range(Content(a)), m \in Range(Content(b))
      PROVE  a = b
  BY <1>1 DEF UsedOnce, Range
<1>2. ASSUME NEW p \in Msg, NEW q \in Msg, m \in Range(items[p]), m \in Range(items[q])
      PROVE  p = q
  <2>1. <<"items", p>> = <<"items", q>>
    BY <1>1, <1>2, Contents
  <2> QED  BY <2>1
<1>3. ASSUME NEW p \in Msg, NEW s \in Sender, m \in Range(items[p]), m \in Range(buffer[s])
      PROVE  FALSE
  <2>1. <<"items", p>> = <<"buffer", s>>
    BY <1>1, <1>3, Contents
  <2> QED  BY <2>1
<1>4. ASSUME NEW x \in Msg, NEW p \in Msg, m \in Range(pending[x]), m \in Range(extra[p])
      PROVE  FALSE
  <2>1. <<"pending", x>> = <<"extra", p>>
    BY <1>1, <1>4, Contents
  <2> QED  BY <2>1
<1>5. ASSUME NEW x \in Msg, NEW y \in Msg, m \in Range(pending[x]), m \in Range(pending[y])
      PROVE  x = y
  <2>1. <<"pending", x>> = <<"pending", y>>
    BY <1>1, <1>5, Contents
  <2> QED  BY <2>1
<1> QED  BY <1>2, <1>3, <1>4, <1>5

Answering(m) == \E p \in Msg : m \in Range(items[p]) /\ Unfinished(p)

\* The fate of a message, one case at a time.
LEMMA FateCases ==
  ASSUME NEW m \in Msg
  PROVE  /\ handler[m] \in {"dismissed", "empty", "stored"} => FateOf(m) = "setAside"
         /\ handler[m] \notin {"dismissed", "empty", "stored", "submitted", "appended"} =>
              FateOf(m) = "outside"
         /\ handler[m] = "submitted" =>
              FateOf(m) = IF m \in Range(buffer[From[m]]) THEN "waiting"
                          ELSE IF Answering(m) THEN "answering" ELSE "settled"
         /\ handler[m] = "appended" =>
              FateOf(m) = IF \E p \in Msg : m \in Range(extra[p]) THEN "retried"
                          ELSE IF \E x \in Msg : m \in Range(pending[x]) THEN "noted"
                          ELSE "lost"
<1>1. (\E p \in Batches(m) : Unfinished(p)) <=> Answering(m)
  BY DEF Batches, Answering
<1> QED  BY <1>1 DEF FateOf

\* The same, of the next state.
LEMMA FateCasesPrimed ==
  ASSUME NEW m \in Msg
  PROVE  /\ handler'[m] \in {"dismissed", "empty", "stored"} => FateOf(m)' = "setAside"
         /\ handler'[m] \notin {"dismissed", "empty", "stored", "submitted", "appended"} =>
              FateOf(m)' = "outside"
         /\ handler'[m] = "submitted" =>
              FateOf(m)' = IF m \in Range(buffer'[From[m]]) THEN "waiting"
                           ELSE IF Answering(m)' THEN "answering" ELSE "settled"
         /\ handler'[m] = "appended" =>
              FateOf(m)' = IF \E p \in Msg : m \in Range(extra'[p]) THEN "retried"
                           ELSE IF \E x \in Msg : m \in Range(pending'[x]) THEN "noted"
                           ELSE "lost"
<1>1. (\E p \in Batches(m)' : Unfinished(p)') <=> Answering(m)'
  BY DEF Batches, Answering
<1> QED  BY <1>1 DEF FateOf

\* The fate and the batch of a message depend on its handler and its places only.
LEMMA FateSame ==
  ASSUME NEW m \in Msg, handler'[m] = handler[m],
         m \in Range(buffer'[From[m]]) <=> m \in Range(buffer[From[m]]),
         Answering(m)' <=> Answering(m),
         (\E p \in Msg : m \in Range(extra'[p])) <=> (\E p \in Msg : m \in Range(extra[p])),
         (\E x \in Msg : m \in Range(pending'[x])) <=> (\E x \in Msg : m \in Range(pending[x]))
  PROVE  FateOf(m)' = FateOf(m)
<1>1. CASE handler[m] = "submitted"
  BY <1>1, FateCases, FateCasesPrimed
<1>2. CASE handler[m] = "appended"
  BY <1>2, FateCases, FateCasesPrimed
<1>3. CASE handler[m] \in {"dismissed", "empty", "stored"}
  BY <1>3, FateCases, FateCasesPrimed
<1>4. CASE handler[m] \notin {"dismissed", "empty", "stored", "submitted", "appended"}
  BY <1>4, FateCases, FateCasesPrimed
<1> QED  BY <1>1, <1>2, <1>3, <1>4

\* The batch of a message: the one pipeline that has it.
LEMMA BatchIs ==
  ASSUME UsedOnce, NEW m \in Msg
  PROVE  /\ \A p \in Msg : m \in Range(items[p]) => BatchOf(m) = p
         /\ (\A p \in Msg : m \notin Range(items[p])) => BatchOf(m) = NoSession
<1>1. ASSUME NEW p \in Msg, m \in Range(items[p])  PROVE BatchOf(m) = p
  <2>1. Batches(m) = {p}
    BY <1>1, Apart DEF Batches
  <2> QED  BY <2>1 DEF BatchOf
<1>2. ASSUME \A p \in Msg : m \notin Range(items[p])  PROVE BatchOf(m) = NoSession
  BY <1>2 DEF BatchOf, Batches
<1> QED  BY <1>1, <1>2

\* The same, of the next state.
LEMMA BatchIsPrimed ==
  ASSUME UsedOnce', NEW m \in Msg
  PROVE  /\ \A p \in Msg : m \in Range(items'[p]) => BatchOf(m)' = p
         /\ (\A p \in Msg : m \notin Range(items'[p])) => BatchOf(m)' = NoSession
<1>1. ASSUME NEW p \in Msg, NEW q \in Msg, m \in Range(items'[p]), m \in Range(items'[q])
      PROVE  p = q
  <2>1. /\ <<"items", p>> \in Queues /\ Content(<<"items", p>>)' = items'[p]
        /\ <<"items", q>> \in Queues /\ Content(<<"items", q>>)' = items'[q]
    BY Contents
  <2>2. <<"items", p>> = <<"items", q>>
    BY <1>1, <2>1 DEF UsedOnce, Range
  <2> QED  BY <2>2
<1>2. ASSUME NEW p \in Msg, m \in Range(items'[p])  PROVE BatchOf(m)' = p
  <2>1. Batches(m)' = {p}
    BY <1>1, <1>2 DEF Batches
  <2> QED  BY <2>1 DEF BatchOf
<1>3. ASSUME \A p \in Msg : m \notin Range(items'[p])  PROVE BatchOf(m)' = NoSession
  BY <1>3 DEF BatchOf, Batches
<1> QED  BY <1>2, <1>3

\* The refinement mapping of SessionPipelineRefinement, by name.
fate == [m \in Msg |-> FateOf(m)]
batchOf == [m \in Msg |-> BatchOf(m)]

\* Steps that change no fate are stutters of MessageFate.
LEMMA FateStutters ==
  ASSUME \A m \in Msg : FateOf(m)' = FateOf(m), items' = items
  PROVE  UNCHANGED Fate!fateVars
<1>1. ASSUME NEW m \in Msg  PROVE BatchOf(m)' = BatchOf(m)
  BY DEF BatchOf, Batches
<1>2. fate' = fate /\ batchOf' = batchOf
  BY <1>1 DEF fate, batchOf
<1> QED  BY <1>2 DEF Fate!fateVars, fate, batchOf

\* A handler that ends gives its message a fate and touches no other.
LEMMA FateHandled ==
  ASSUME NEW m \in Msg, NEW f \in {"setAside", "waiting", "noted", "lost"},
         FateOf(m) = "outside", FateOf(m)' = f,
         \A n \in Msg \ {m} : FateOf(n)' = FateOf(n), items' = items
  PROVE  Fate!FateNext
<1>1. ASSUME NEW n \in Msg  PROVE BatchOf(n)' = BatchOf(n)
  BY DEF BatchOf, Batches
<1>2. batchOf' = batchOf
  BY <1>1 DEF batchOf
<1>3. fate' = [n \in Msg |-> IF n \in {m} THEN f ELSE fate[n]]
  BY DEF fate
<1>4. Fate!Handle(m, f)
  BY <1>2, <1>3 DEF Fate!Handle, Fate!Becomes, fate, batchOf
<1> QED  BY <1>4 DEF Fate!FateNext

\* A handler on its way, or one that needs no answer.
LEMMA FateHandlerMoves ==
  ASSUME NEW m \in Msg, NEW h \in HandlerStates, HandlerMoves(m, h), Typing
  PROVE  [Fate!FateNext]_(Fate!fateVars)
<1>1. /\ handler \in [Msg -> HandlerStates]
      /\ handler' = [handler EXCEPT ![m] = h] /\ UNCHANGED <<buffer, items, pending, extra, outer>>
      /\ handler[m] \in {"new", "parsing", "storing"} /\ h \notin {"submitted", "appended"}
  BY DEF HandlerMoves, aggregator, manager, pipelineVars, Typing, TypeOK, HandlerStates
<1>2. handler'[m] = h /\ \A n \in Msg \ {m} : handler'[n] = handler[n]
  BY <1>1
<1>3. ASSUME NEW n \in Msg  PROVE Answering(n)' <=> Answering(n)
  BY <1>1 DEF Answering, Unfinished
<1>4. \A n \in Msg \ {m} : FateOf(n)' = FateOf(n)
  BY <1>1, <1>2, <1>3, FateSame
<1>5. FateOf(m) = "outside"
  BY <1>1, FateCases
<1>6. CASE h \in {"dismissed", "empty", "stored"}
  BY <1>1, <1>2, <1>4, <1>5, <1>6, FateCasesPrimed, FateHandled
<1>7. CASE h \notin {"dismissed", "empty", "stored"}
  <2>1. FateOf(m)' = "outside"
    BY <1>1, <1>2, <1>7, FateCasesPrimed
  <2> QED  BY <2>1, <1>1, <1>4, <1>5, FateStutters
<1> QED  BY <1>6, <1>7

\* An appended message is noted or lost.
LEMMA FateAppended ==
  ASSUME Typing, Ownership, Placing, NEW m \in Msg, Appended(m)
  PROVE  Fate!FateNext
<1> DEFINE x == sessions[From[m]]
<1>1. /\ handler \in [Msg -> HandlerStates] /\ pending \in [Msg -> Seq(Msg)]
      /\ handler[m] = "appending" /\ handler' = [handler EXCEPT ![m] = "appended"]
      /\ pending' = IF x = NoSession THEN pending ELSE [pending EXCEPT ![x] = Append(@, m)]
      /\ UNCHANGED <<buffer, items, extra, outer>>
      /\ x \in Msg \cup {NoSession}
  BY FromType DEF Appended, aggregator, pipelineVars, Typing, TypeOK, HandlerStates
<1> HIDE DEF x
<1>2. handler'[m] = "appended" /\ \A n \in Msg \ {m} : handler'[n] = handler[n]
  BY <1>1
<1>3. ASSUME NEW n \in Msg  PROVE Answering(n)' <=> Answering(n)
  BY <1>1 DEF Answering, Unfinished
<1>4. \A y \in Msg : /\ y = x => Range(pending'[y]) = Range(pending[y]) \cup {m}
                     /\ y # x => Range(pending'[y]) = Range(pending[y])
  BY <1>1, RangeAppend, NoSessionType
<1>5. \A n \in Msg \ {m} : (\E y \in Msg : n \in Range(pending'[y]))
                        <=> (\E y \in Msg : n \in Range(pending[y]))
  BY <1>4
<1>6. ASSUME NEW n \in Msg \ {m}  PROVE FateOf(n)' = FateOf(n)
  BY <1>1, <1>2, <1>3, <1>5, FateSame
<1>7. FateOf(m) = "outside"
  BY <1>1, FateCases
<1>8. \A y \in Msg : m \notin Range(extra[y])
  BY <1>1, Nowhere, Contents DEF Placing
<1>9. FateOf(m)' \in {"noted", "lost"}
  BY <1>1, <1>2, <1>8, FateCasesPrimed
<1> QED  BY <1>1, <1>6, <1>7, <1>9, FateHandled

\* A message that joins the buffer waits.
LEMMA FateJoins ==
  ASSUME Typing, NEW m \in Msg, Joins(m)
  PROVE  Fate!FateNext
<1>1. /\ handler \in [Msg -> HandlerStates] /\ buffer \in [Sender -> Seq(Msg)]
      /\ handler[m] = "submitting" /\ handler' = [handler EXCEPT ![m] = "submitted"]
      /\ buffer' = [buffer EXCEPT ![From[m]] = Append(@, m)]
      /\ UNCHANGED <<pending, items, extra, outer>> /\ From[m] \in Sender
  BY FromType DEF Joins, manager, pipelineVars, Typing, TypeOK, HandlerStates
<1>2. handler'[m] = "submitted" /\ \A n \in Msg \ {m} : handler'[n] = handler[n]
  BY <1>1
<1>3. ASSUME NEW n \in Msg  PROVE Answering(n)' <=> Answering(n)
  BY <1>1 DEF Answering, Unfinished
<1>4. /\ Range(buffer'[From[m]]) = Range(buffer[From[m]]) \cup {m}
      /\ \A t \in Sender \ {From[m]} : buffer'[t] = buffer[t]
  BY <1>1, RangeAppend
<1>5. ASSUME NEW n \in Msg \ {m}  PROVE FateOf(n)' = FateOf(n)
  <2>1. n \in Range(buffer'[From[n]]) <=> n \in Range(buffer[From[n]])
    BY <1>4, FromType
  <2> QED  BY <2>1, <1>1, <1>2, <1>3, FateSame
<1>6. FateOf(m) = "outside" /\ FateOf(m)' = "waiting"
  BY <1>1, <1>2, <1>4, FateCases, FateCasesPrimed
<1> QED  BY <1>1, <1>5, <1>6, FateHandled

\* A batch starts: all that the sender had waiting, and the trigger, is being
\* answered, as the batch of its first message.
LEMMA FateStarts ==
  ASSUME Typing, Placing, Placing', NEW s \in Sender, NEW b \in Seq(Msg), b # <<>>,
         NEW T \in SUBSET Msg, Range(b) = Range(buffer[s]) \cup T,
         \A m \in T : From[m] = s /\ handler[m] = "submitting",
         \A m \in T : handler'[m] = "submitted",
         \A m \in Msg \ T : handler'[m] = handler[m],
         BatchStarts(s, b)
  PROVE  Fate!FlushSender(s, T)
<1> DEFINE p == b[1]
<1>1. p \in Msg /\ p \in Range(b) /\ Range(b) \subseteq Msg
  BY DEF Range
<1>2. /\ buffer' = [buffer EXCEPT ![s] = <<>>] /\ pending' = pending /\ extra' = extra
      /\ items' = [items EXCEPT ![p] = b] /\ outer' = [outer EXCEPT ![p] = "waiting"]
      /\ buffer \in [Sender -> Seq(Msg)] /\ items \in [Msg -> Seq(Msg)]
      /\ outer \in [Msg -> OuterStates]
  BY DEF BatchStarts, Typing, TypeOK
<1> HIDE DEF p
<1>3. \A m \in Range(buffer[s]) : From[m] = s /\ handler[m] = "submitted" /\ outer[m] = "off"
  BY DEF Typing, Fresh
<1>4. outer[p] = "off" /\ items[p] = <<>>
  BY <1>1, <1>3 DEF Typing, Fresh, Placing, InPlace
<1>5. /\ items'[p] = b /\ outer'[p] = "waiting" /\ buffer'[s] = <<>>
      /\ \A q \in Msg \ {p} : items'[q] = items[q] /\ outer'[q] = outer[q]
      /\ \A t \in Sender \ {s} : buffer'[t] = buffer[t]
  BY <1>1, <1>2
<1>6. Range(items[p]) = {} /\ Range(buffer'[s]) = {}
  BY <1>4, <1>5 DEF Range
<1>7. ASSUME NEW m \in Range(b)
      PROVE  FateOf(m)' = "answering" /\ BatchOf(m)' = p /\ From[m] = s
  <2>1. m \in Msg /\ handler'[m] = "submitted" /\ From[m] = s
    BY <1>1, <1>3, <1>7
  <2>2. Answering(m)'
    BY <1>1, <1>5, <1>7 DEF Answering, Unfinished, OuterSteps
  <2>3. BatchOf(m)' = p
    BY <2>1, <1>1, <1>5, <1>7, BatchIsPrimed DEF Placing
  <2> QED  BY <2>1, <2>2, <2>3, <1>6, FateCasesPrimed
<1>8. ASSUME NEW m \in Msg \ Range(b)
      PROVE  FateOf(m)' = FateOf(m) /\ BatchOf(m)' = BatchOf(m)
  <2>1. m \in Range(buffer'[From[m]]) <=> m \in Range(buffer[From[m]])
    BY <1>5, <1>6, FromType
  <2>2. \A q \in Msg : m \in Range(items'[q]) <=> m \in Range(items[q])
    BY <1>5, <1>6
  <2>3. Answering(m)' <=> Answering(m)
    BY <2>2, <1>5, <1>6 DEF Answering, Unfinished
  <2>4. handler'[m] = handler[m]
    BY <1>8
  <2>5. FateOf(m)' = FateOf(m)
    BY <2>1, <2>3, <2>4, <1>2, FateSame
  <2>6. Batches(m)' = Batches(m)
    BY <2>2 DEF Batches
  <2> QED  BY <2>5, <2>6 DEF BatchOf
<1>9. {m \in Msg : From[m] = s /\ FateOf(m) = "waiting"} = Range(buffer[s])
  <2>1. ASSUME NEW m \in Range(buffer[s])  PROVE m \in Msg /\ From[m] = s /\ FateOf(m) = "waiting"
    BY <1>1, <1>3, FateCases
  <2>2. ASSUME NEW m \in Msg, From[m] = s, FateOf(m) = "waiting"  PROVE m \in Range(buffer[s])
    <3>1. CASE handler[m] = "submitted"
      BY <2>2, <3>1, FateCases
    <3>2. CASE handler[m] # "submitted"
      BY <2>2, <3>2, FateCases
    <3> QED  BY <3>1, <3>2
  <2> QED  BY <2>1, <2>2
<1>10. Fate!Waiting(s) = Range(buffer[s])
  BY <1>9 DEF Fate!Waiting
<1>11. /\ fate' = [m \in Msg |-> IF m \in Range(b) THEN "answering" ELSE fate[m]]
       /\ batchOf' = [m \in Msg |-> IF m \in Range(b) THEN p ELSE batchOf[m]]
  BY <1>7, <1>8 DEF fate, batchOf
<1>12. \A m \in T : From[m] = s /\ fate[m] = "outside"
  BY FateCases DEF fate
<1> QED  BY <1>1, <1>10, <1>11, <1>12 DEF Fate!FlushSender, Fate!Becomes, fate, batchOf

\* The pending items of a session are retried together.
LEMMA FateRegenerates ==
  ASSUME Typing, Placing, NEW p \in Msg, Regenerates(p)
  PROVE  Fate!FateNext
<1> DEFINE x == session[p]
<1> DEFINE S == Range(pending[x])
<1>1. /\ pending \in [Msg -> Seq(Msg)] /\ extra \in [Msg -> Seq(Msg)] /\ x \in Msg
      /\ pending[x] # <<>> /\ inner[p] = "closing"
      /\ extra' = [extra EXCEPT ![p] = pending[x]] /\ pending' = [pending EXCEPT ![x] = <<>>]
      /\ UNCHANGED <<handler, buffer, outer, items>>
  BY DEF Regenerates, Typing, TypeOK
<1> HIDE DEF x
<1>2. extra[p] = <<>>
  BY <1>1 DEF Placing, InPlace, FirstSteps
<1>3. /\ extra'[p] = pending[x] /\ pending'[x] = <<>>
      /\ \A q \in Msg \ {p} : extra'[q] = extra[q]
      /\ \A y \in Msg \ {x} : pending'[y] = pending[y]
  BY <1>1
<1>4. Range(extra[p]) = {} /\ Range(pending'[x]) = {}
  BY <1>2, <1>3 DEF Range
<1>5. S \subseteq Msg /\ S # {}
  <2>1. pending[x] \in Seq(Msg) /\ pending[x] # <<>>
    BY <1>1
  <2>2. pending[x][1] \in S
    BY <2>1 DEF Range
  <2>3. S \subseteq Msg
    BY <2>1 DEF Range
  <2> HIDE DEF S
  <2> QED  BY <2>2, <2>3
<1>6. ASSUME NEW m \in S
      PROVE  m \in Msg /\ From[m] = From[x] /\ FateOf(m) = "noted" /\ FateOf(m)' = "retried"
  <2>1. m \in Msg /\ handler[m] = "appended" /\ From[m] = From[x]
    BY <1>1, <1>5, <1>6 DEF Placing, InPlace
  <2>2. \A q \in Msg : m \notin Range(extra[q])
    BY <1>1, <1>6, Apart DEF Placing
  <2>3. FateOf(m) = "noted"
    BY <2>1, <2>2, <1>1, <1>6, FateCases
  <2>4. FateOf(m)' = "retried"
    BY <2>1, <1>1, <1>3, <1>6, FateCasesPrimed
  <2> QED  BY <2>1, <2>3, <2>4
<1>7. ASSUME NEW m \in Msg  PROVE Answering(m)' <=> Answering(m)
  BY <1>1 DEF Answering, Unfinished
<1>8. ASSUME NEW m \in Msg \ S  PROVE FateOf(m)' = FateOf(m)
  <2>1. (\E q \in Msg : m \in Range(extra'[q])) <=> (\E q \in Msg : m \in Range(extra[q]))
    BY <1>3, <1>4
  <2>2. (\E y \in Msg : m \in Range(pending'[y])) <=> (\E y \in Msg : m \in Range(pending[y]))
    BY <1>3, <1>4
  <2> QED  BY <2>1, <2>2, <1>1, <1>7, FateSame
<1>9. ASSUME NEW m \in Msg  PROVE BatchOf(m)' = BatchOf(m)
  BY <1>1 DEF BatchOf, Batches
<1>10. batchOf' = batchOf
  BY <1>9 DEF batchOf
<1>11. fate' = [m \in Msg |-> IF m \in S THEN "retried" ELSE fate[m]]
  BY <1>6, <1>8 DEF fate
<1>12. S \in SUBSET {m \in Msg : From[m] = From[x] /\ fate[m] = "noted"}
  BY <1>6 DEF fate
<1> HIDE DEF S
<1>13. Fate!Retry(From[x])
  BY <1>5, <1>10, <1>11, <1>12 DEF Fate!Retry, Fate!Becomes, fate, batchOf
<1>14. From[x] \in Sender
  BY <1>1, FromType
<1> QED  BY <1>13, <1>14 DEF Fate!FateNext

\* A pipeline that ends settles its batch; any other move of it is invisible.
LEMMA FatePipelineMoves ==
  ASSUME Typing, Placing, NEW p \in Msg, PipelineMoves(p)
  PROVE  [Fate!FateNext]_(Fate!fateVars)
<1>1. /\ outer \in [Msg -> OuterStates] /\ outer[p] # "off"
      /\ UNCHANGED <<handler, buffer, items, pending, extra>>
      /\ \A q \in Msg \ {p} : outer'[q] = outer[q]
      /\ Unfinished(p)' => Unfinished(p)
  BY DEF PipelineMoves, places, Typing, TypeOK, Unfinished
<1>2. \A q \in Msg \ {p} : Unfinished(q)' <=> Unfinished(q)
  BY <1>1 DEF Unfinished
<1>3. CASE Unfinished(p)' <=> Unfinished(p)
  <2>1. ASSUME NEW m \in Msg  PROVE Answering(m)' <=> Answering(m)
    BY <1>1, <1>2, <1>3 DEF Answering
  <2>2. \A m \in Msg : FateOf(m)' = FateOf(m)
    BY <2>1, <1>1, FateSame
  <2> QED  BY <2>2, <1>1, FateStutters
<1>4. CASE Unfinished(p) /\ ~Unfinished(p)'
  <2> DEFINE S == Range(items[p])
  <2>1. \A m \in S : m \in Msg /\ handler[m] = "submitted"
    BY DEF Range, Typing, TypeOK, Placing, InPlace
  <2>2. p \in S
    BY <1>1 DEF Placing, InPlace
  <2>3. ASSUME NEW m \in S
        PROVE  FateOf(m) = "answering" /\ FateOf(m)' = "settled" /\ BatchOf(m) = p
    <3>1. /\ m \notin Range(buffer[From[m]]) /\ BatchOf(m) = p
          /\ \A q \in Msg : m \in Range(items[q]) => q = p
      BY <2>1, <2>3, FromType, Apart, BatchIs DEF Placing
    <3>2. Answering(m) /\ ~Answering(m)'
      BY <3>1, <2>3, <1>1, <1>4 DEF Answering
    <3> QED  BY <3>1, <3>2, <2>1, <1>1, FateCases, FateCasesPrimed
  <2>4. ASSUME NEW m \in Msg \ S  PROVE FateOf(m)' = FateOf(m) /\ BatchOf(m) # p
    <3>1. Answering(m)' <=> Answering(m)
      BY <1>1, <1>2 DEF Answering
    <3>2. FateOf(m)' = FateOf(m)
      BY <3>1, <1>1, FateSame
    <3>3. CASE \E q \in Msg : m \in Range(items[q])
      BY <3>2, <3>3, BatchIs DEF Placing
    <3>4. CASE \A q \in Msg : m \notin Range(items[q])
      BY <3>2, <3>4, BatchIs, NoSessionType DEF Placing
    <3> QED  BY <3>3, <3>4
  <2>5. {m \in Msg : batchOf[m] = p} = S
    BY <2>1, <2>3, <2>4 DEF batchOf
  <2>6. fate' = [m \in Msg |-> IF m \in S THEN "settled" ELSE fate[m]]
    BY <2>3, <2>4 DEF fate
  <2>7. ASSUME NEW m \in Msg  PROVE BatchOf(m)' = BatchOf(m)
    BY <1>1 DEF BatchOf, Batches
  <2>8. batchOf' = batchOf
    BY <2>7 DEF batchOf
  <2>9. fate[p] = "answering" /\ batchOf[p] = p
    BY <2>2, <2>3 DEF fate, batchOf
  <2> HIDE DEF S
  <2>10. Fate!Settle(p)
    BY <2>5, <2>6, <2>8, <2>9 DEF Fate!Settle, Fate!Becomes, fate, batchOf
  <2> QED  BY <2>10 DEF Fate!FateNext
<1> QED  BY <1>1, <1>3, <1>4

\* Every step of the service is a step of MessageFate or invisible to it.
LEMMA FateStep ==
  Typing /\ Ownership /\ Placing /\ Placing' /\ [Next]_vars => [Fate!FateNext]_(Fate!fateVars)
<1> SUFFICES ASSUME Typing, Ownership, Placing, Placing', [Next]_vars
             PROVE  [Fate!FateNext]_(Fate!fateVars)
  OBVIOUS
<1>0. handler \in [Msg -> HandlerStates] /\ buffer \in [Sender -> Seq(Msg)]
  BY DEF Typing, TypeOK, HandlerStates
<1>1. ASSUME NEW s \in Sender, buffer[s] # <<>>, UNCHANGED handler, BatchStarts(s, buffer[s])
      PROVE  Fate!FateNext
  <2>1. buffer[s] \in Seq(Msg) /\ {} \in SUBSET Msg
    BY <1>0
  <2>2. Fate!FlushSender(s, {})
    BY <2>1, <1>1, FateStarts
  <2> QED  BY <2>2 DEF Fate!FateNext
<1>2. ASSUME NEW m \in Msg, handler[m] = "submitting",
             handler' = [handler EXCEPT ![m] = "submitted"],
             BatchStarts(From[m], Append(buffer[From[m]], m))
      PROVE  Fate!FateNext
  <2> DEFINE b == Append(buffer[From[m]], m)
  <2>1. From[m] \in Sender /\ buffer[From[m]] \in Seq(Msg) /\ {m} \in SUBSET Msg
    BY <1>0, FromType
  <2>2. b \in Seq(Msg) /\ b # <<>> /\ Range(b) = Range(buffer[From[m]]) \cup {m}
    BY <2>1, RangeAppend
  <2>3. handler'[m] = "submitted" /\ \A n \in Msg \ {m} : handler'[n] = handler[n]
    BY <1>0, <1>2
  <2> HIDE DEF b
  <2>4. Fate!FlushSender(From[m], {m})
    BY <2>1, <2>2, <2>3, <1>2, FateStarts DEF b
  <2> QED  BY <2>4 DEF Fate!FateNext
<1>3. CASE UNCHANGED <<handler, inner, outer, session, places>>
  <2>1. ASSUME NEW m \in Msg  PROVE FateOf(m)' = FateOf(m)
    <3>1. Answering(m)' <=> Answering(m)
      BY <1>3 DEF Answering, Unfinished, places
    <3> QED  BY <3>1, <1>3, FateSame DEF places
  <2> QED  BY <2>1, <1>3, FateStutters DEF places
<1> QED  BY <1>1, <1>2, <1>3, StepKinds, FateHandlerMoves, FateAppended, FateJoins,
            FateRegenerates, FatePipelineMoves

\* The service implements MessageFate: exactly one thing becomes of a message,
\* a flush takes all that its sender has waiting, and a batch is settled as a
\* whole and once.
THEOREM FateImplemented == Spec => ImplementsFate
<1>1. Init => Fate!FateInit
  <2> SUFFICES ASSUME Init  PROVE Fate!FateInit
    OBVIOUS
  <2>1. ASSUME NEW m \in Msg  PROVE FateOf(m) = "outside" /\ BatchOf(m) = NoSession
    BY FateCases DEF Init, BatchOf, Batches, Range
  <2>2. fate = [m \in Msg |-> "outside"] /\ batchOf = [m \in Msg |-> NoSession]
    BY <2>1 DEF fate, batchOf
  <2> QED  BY <2>2 DEF Fate!FateInit, fate, batchOf
<1> QED  BY <1>1, FateStep, PlacingAlways, PTL DEF Spec, ImplementsFate, Fate!FateSpec

=============================================================================
