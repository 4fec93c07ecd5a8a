---------------------------- MODULE ProcessProofs ----------------------------
(***************************************************************************)
(* Theorems about the two modules in which the process itself starts and   *)
(* ends: MessageDedupe, for every set of messages, every limit and every   *)
(* number of restarts, and ServiceLifecycle (the last section), for every  *)
(* set of requests and of signals.                                         *)
(***************************************************************************)
EXTENDS MessageDedupe, ServiceLifecycle, WellFoundedInduction, NaturalsInduction,
        TLAPS

\* processingMessages is the set of the messages with a running handler, and a
\* message has one handler at most.
OneHandlerEach ==
  /\ processing \subseteq Msg
  /\ handlers = [m \in Msg |-> IF m \in processing THEN 1 ELSE 0]

LEMMA OneHandlerInit == Init => OneHandlerEach
BY DEF Init, OneHandlerEach

\* The end of a handler, whatever it did before.
LEMMA Leaving ==
  ASSUME OneHandlerEach, NEW m \in processing, Leave(m)
  PROVE  OneHandlerEach'
BY DEF OneHandlerEach, Leave

LEMMA OneHandlerStep == OneHandlerEach /\ [Next]_vars => OneHandlerEach'
<1> SUFFICES ASSUME OneHandlerEach, [Next]_vars  PROVE OneHandlerEach'
  OBVIOUS
<1>1. ASSUME NEW m \in Msg, Deliver(m)  PROVE OneHandlerEach'
  BY <1>1 DEF Deliver, Enter, OneHandlerEach
<1>2. ASSUME NEW m \in Msg, Handled(m)  PROVE OneHandlerEach'
  BY <1>2, Leaving DEF Handled
<1>3. ASSUME NEW m \in Msg, HandlerFails(m)  PROVE OneHandlerEach'
  BY <1>3, Leaving DEF HandlerFails
<1>4. ASSUME NEW m \in Msg, Expires(m)  PROVE OneHandlerEach'
  BY <1>4 DEF Expires, OneHandlerEach
<1>5. CASE StateSaved \/ SaveFails \/ Starts
  BY <1>5 DEF StateSaved, SaveFails, Starts, OneHandlerEach
<1>6. CASE Stops
  BY <1>6 DEF Stops, OneHandlerEach
<1>7. CASE UNCHANGED vars
  BY <1>7 DEF vars, memory, OneHandlerEach
<1> QED  BY <1>1, <1>2, <1>3, <1>4, <1>5, <1>6, <1>7 DEF Next

\* Two deliveries of one message are never handled side by side, restarts and
\* handlers that throw included (processingMessages in handleMessage).
THEOREM HandlersAlone == Spec => []HandledAlone
<1>1. OneHandlerEach => HandledAlone
  BY DEF OneHandlerEach, HandledAlone
<1> QED  BY OneHandlerInit, OneHandlerStep, <1>1, PTL DEF Spec

-----------------------------------------------------------------------------
(* Induction, and what cleanupDedupeSet leaves *)

\* A set of numbers that is not empty has a least element.
LEMMA LeastElement ==
  ASSUME NEW T \in SUBSET Nat, T # {}
  PROVE  \E n \in T : \A k \in T : n <= k
<1>1. \E n \in T : \A k \in T : ~(<<k, n>> \in OpToRel(<, Nat))
  BY NatLessThanWellFounded, WFMin
<1>2. PICK n \in T : \A k \in T : ~(<<k, n>> \in OpToRel(<, Nat))
  BY <1>1
<1>3. \A k \in T : ~(k < n)
  BY <1>2 DEF OpToRel
<1> QED  BY <1>3

\* Induction, for a set.
LEMMA Induction ==
  ASSUME NEW T, NEW N \in Nat, 0 \in T, \A n \in 1 .. N : n - 1 \in T => n \in T
  PROVE  \A n \in 0 .. N : n \in T
<1> SUFFICES ASSUME NEW m \in 0 .. N, m \notin T  PROVE FALSE
  OBVIOUS
<1> DEFINE U == {n \in 0 .. N : n \notin T}
<1>1. U \in SUBSET Nat /\ U # {}
  OBVIOUS
<1>2. PICK n \in U : \A k \in U : n <= k
  BY <1>1, LeastElement
<1>3. n \in 1 .. N /\ n - 1 \in 0 .. N /\ ~(n <= n - 1)
  BY <1>2
<1>4. n - 1 \notin U
  BY <1>2, <1>3
<1> QED  BY <1>2, <1>3, <1>4

\* f is the function Without is the last value of.
Keeps(s, S, n, f) ==
  f = [i \in 0 .. n |->
        IF i = 0 THEN <<>>
        ELSE IF s[i] \in S THEN f[i - 1] ELSE Append(f[i - 1], s[i])]

\* There is one: the recursion is well founded.
LEMMA KeepsExists ==
  ASSUME NEW s, NEW S, NEW N \in Nat
  PROVE  \E f : Keeps(s, S, N, f)
<1> DEFINE T == {n \in 0 .. N : \E f : Keeps(s, S, n, f)}
<1>1. 0 \in T
  <2>1. Keeps(s, S, 0, [i \in 0 .. 0 |-> <<>>])
    BY DEF Keeps
  <2> QED  BY <2>1
<1>2. ASSUME NEW n \in 1 .. N, n - 1 \in T  PROVE n \in T
  <2>1. PICK f : Keeps(s, S, n - 1, f)
    BY <1>2
  <2> DEFINE x == IF s[n] \in S THEN f[n - 1] ELSE Append(f[n - 1], s[n])
             g == [i \in 0 .. n |-> IF i = n THEN x ELSE f[i]]
  <2>2. \A i \in 0 .. n - 1 : g[i] = f[i]
    OBVIOUS
  <2>3. g[n] = IF s[n] \in S THEN g[n - 1] ELSE Append(g[n - 1], s[n])
    OBVIOUS
  <2>4. DOMAIN g = 0 .. n /\ g = [i \in 0 .. n |-> g[i]]
    OBVIOUS
  <2> HIDE DEF g, x
  <2>5. \A i \in 0 .. n - 1 : f[i] = IF i = 0 THEN <<>>
               ELSE IF s[i] \in S THEN f[i - 1] ELSE Append(f[i - 1], s[i])
    BY <2>1 DEF Keeps
  <2>6. \A i \in 1 .. n - 1 : i - 1 \in 0 .. n - 1
    OBVIOUS
  <2>7. \A i \in 0 .. n : g[i] = IF i = 0 THEN <<>>
               ELSE IF s[i] \in S THEN g[i - 1] ELSE Append(g[i - 1], s[i])
    <3> SUFFICES ASSUME NEW i \in 0 .. n, i # n
                 PROVE  g[i] = IF i = 0 THEN <<>>
                          ELSE IF s[i] \in S THEN g[i - 1] ELSE Append(g[i - 1], s[i])
      BY <2>3
    <3>1. i \in 0 .. n - 1 /\ (i # 0 => i - 1 \in 0 .. n - 1)
      OBVIOUS
    <3> QED  BY <2>2, <2>5, <3>1
  <2>8. Keeps(s, S, n, g)
    BY <2>4, <2>7 DEF Keeps
  <2> QED  BY <2>8
<1> HIDE DEF T
<1>3. N \in T
  BY <1>1, <1>2, Induction
<1> QED  BY <1>3 DEF T

LEMMA WithoutIs ==
  ASSUME NEW s, NEW S, Len(s) \in Nat
  PROVE  \E f : Keeps(s, S, Len(s), f) /\ Without(s, S) = f[Len(s)]
<1>1. \E f : Keeps(s, S, Len(s), f)
  BY KeepsExists
<1> DEFINE F == CHOOSE f : Keeps(s, S, Len(s), f)
<1>2. Keeps(s, S, Len(s), F)
  BY <1>1
<1>3. Without(s, S) = F[Len(s)]
  BY DEF Without, Keeps
<1> QED  BY <1>2, <1>3

LEMMA IdsAppend ==
  ASSUME NEW V, NEW s \in Seq(V), NEW x \in V
  PROVE  Append(s, x) \in Seq(V) /\ Ids(Append(s, x)) = Ids(s) \cup {x}
<1> DEFINE t == Append(s, x)
<1>1. Len(s) \in Nat /\ DOMAIN s = 1 .. Len(s) /\ t \in Seq(V) /\ DOMAIN t = 1 .. Len(s) + 1
  OBVIOUS
<1>2. t[Len(s) + 1] = x /\ \A i \in 1 .. Len(s) : t[i] = s[i]
  OBVIOUS
<1> HIDE DEF t
<1>3. Ids(t) = Ids(s) \cup {x}
  <2>1. Ids(s) \cup {x} \subseteq Ids(t)
    BY <1>1, <1>2 DEF Ids, ToSet
  <2>2. \A i \in 1 .. Len(s) + 1 : i \in 1 .. Len(s) \/ i = Len(s) + 1
    BY <1>1
  <2>3. Ids(t) \subseteq Ids(s) \cup {x}
    BY <1>1, <1>2, <2>2 DEF Ids, ToSet
  <2> QED  BY <2>1, <2>3
<1> QED  BY <1>1, <1>3 DEF t

\* What was deleted is gone, and nothing else is.
LEMMA WithoutProperties ==
  ASSUME NEW V, NEW s \in Seq(V), NEW S
  PROVE  Without(s, S) \in Seq(V) /\ Ids(Without(s, S)) = Ids(s) \ S
<1> DEFINE N == Len(s)
<1>1. N \in Nat /\ DOMAIN s = 1 .. N /\ \A i \in 1 .. N : s[i] \in V
  OBVIOUS
<1>2. PICK f : Keeps(s, S, N, f) /\ Without(s, S) = f[N]
  BY <1>1, WithoutIs
<1> DEFINE Begun(n) == {s[i] : i \in 1 .. n}
           T == {n \in 0 .. N : f[n] \in Seq(V) /\ Ids(f[n]) = Begun(n) \ S}
<1> HIDE DEF N
<1>3. /\ f[0] = <<>>
      /\ \A n \in 1 .. N : f[n] = IF s[n] \in S THEN f[n - 1] ELSE Append(f[n - 1], s[n])
  <2>1. \A i \in 0 .. N : f[i] = IF i = 0 THEN <<>>
              ELSE IF s[i] \in S THEN f[i - 1] ELSE Append(f[i - 1], s[i])
    BY <1>2, Zenon DEF Keeps
  <2>2. 0 \in 0 .. N /\ \A n \in 1 .. N : n \in 0 .. N /\ n # 0
    BY <1>1
  <2>3. f[0] = <<>>
    BY <2>1, <2>2
  <2>4. \A n \in 1 .. N : f[n] = IF s[n] \in S THEN f[n - 1] ELSE Append(f[n - 1], s[n])
    BY <2>1, <2>2
  <2> QED  BY <2>3, <2>4
<1>4. 0 \in T
  <2>1. Ids(<<>>) = {} /\ Begun(0) = {} /\ <<>> \in Seq(V)
    BY DEF Ids, ToSet
  <2>2. f[0] \in Seq(V) /\ Ids(f[0]) = Begun(0) \ S
    BY <1>3, <2>1
  <2>3. 0 \in 0 .. N
    BY <1>1
  <2> QED  BY <2>2, <2>3
<1>5. ASSUME NEW n \in 1 .. N, n - 1 \in T  PROVE n \in T
  <2>1. f[n - 1] \in Seq(V) /\ Ids(f[n - 1]) = Begun(n - 1) \ S
    BY <1>5
  <2>2. Begun(n) = Begun(n - 1) \cup {s[n]}
    BY <1>1
  <2>3. CASE s[n] \in S
    BY <1>3, <2>1, <2>2, <2>3
  <2>4. CASE s[n] \notin S
    <3>1. f[n] = Append(f[n - 1], s[n]) /\ s[n] \in V
      BY <1>1, <1>3, <2>4
    <3>2. f[n] \in Seq(V) /\ Ids(f[n]) = Ids(f[n - 1]) \cup {s[n]}
      BY <2>1, <3>1, IdsAppend
    <3> HIDE DEF Begun
    <3> QED  BY <2>1, <2>2, <2>4, <3>2
  <2> QED  BY <2>3, <2>4
<1> HIDE DEF T
<1>6. N \in T
  BY <1>1, <1>4, <1>5, Induction
<1>7. Begun(N) = Ids(s)
  BY <1>1 DEF Ids, ToSet
<1> QED  BY <1>2, <1>6, <1>7 DEF T

LEMMA SlicedProperties ==
  ASSUME NEW V, NEW s \in Seq(V)
  PROVE  Sliced(s) \in Seq(V) /\ Len(Sliced(s)) <= Keep
<1>1. Len(s) \in Nat
  OBVIOUS
<1>2. CASE Len(s) <= Keep
  BY <1>1, <1>2 DEF Sliced
<1>3. CASE ~(Len(s) <= Keep)
  <2>1. Sliced(s) = SubSeq(s, Len(s) - Keep + 1, Len(s))
    BY <1>3 DEF Sliced
  <2>2. Len(s) - Keep + 1 \in 1 .. Len(s) + 1
    BY <1>1, <1>3, KeepType
  <2> QED  BY <1>1, <2>1, <2>2, KeepType
<1> QED  BY <1>2, <1>3

-----------------------------------------------------------------------------
(* The types *)

\* The parts of TypeOK.
Process == up \in BOOLEAN /\ starts \in 1 .. MaxStarts /\ handlers \in [Msg -> Nat]
Stamps == processing \subseteq Msg /\ old \subseteq stamped /\ stamped \subseteq Msg
Flags == saving \in BOOLEAN /\ torn \in BOOLEAN /\ stale \in BOOLEAN
Files == processed \in Seq(Msg) /\ file \in Seq(Msg) /\ Len(file) <= Keep /\ marked \subseteq Msg

LEMMA TypeParts == TypeOK <=> Process /\ Stamps /\ Flags /\ Files
BY DEF TypeOK, Process, Stamps, Flags, Files

LEMMA TypePartsNext == TypeOK' <=> Process' /\ Stamps' /\ Flags' /\ Files'
BY DEF TypeOK, Process, Stamps, Flags, Files

LEMMA TypeInit == Init => TypeOK
<1> SUFFICES ASSUME Init  PROVE Process /\ Stamps /\ Flags /\ Files
  BY TypeParts
<1>1. Process
  BY MaxStartsType DEF Init, Process
<1>2. Stamps
  BY DEF Init, Stamps
<1>3. Flags
  BY DEF Init, Flags
<1>4. Files
  BY KeepType DEF Init, Files
<1> QED  BY <1>1, <1>2, <1>3, <1>4

\* The handlers are counted by OneHandlerEach.
LEMMA TypeStep == TypeOK /\ OneHandlerEach' /\ [Next]_vars => TypeOK'
<1> SUFFICES ASSUME TypeOK, OneHandlerEach', [Next]_vars
             PROVE  Process' /\ Stamps' /\ Flags' /\ Files'
  BY TypePartsNext
<1>0. Process /\ Stamps /\ Flags /\ Files
  BY TypeParts
<1> USE <1>0
<1>1. handlers' \in [Msg -> Nat] /\ processing' \subseteq Msg
  BY DEF OneHandlerEach
<1>2. CASE UNCHANGED vars
  BY <1>2 DEF vars, memory, history, Process, Stamps, Flags, Files
<1>3. ASSUME NEW m \in Msg, Deliver(m)  PROVE Process' /\ Stamps' /\ Flags' /\ Files'
  <2>1. Process' /\ Stamps' /\ Flags'
    BY <1>1, <1>3 DEF Deliver, Enter, CleanUp, Process, Stamps, Flags
  <2>2. Files'
    BY <1>3, WithoutProperties DEF Deliver, Enter, CleanUp, Files
  <2> QED  BY <2>1, <2>2
<1>4. ASSUME NEW m \in Msg, Handled(m)  PROVE Process' /\ Stamps' /\ Flags' /\ Files'
  <2>1. Process' /\ Stamps' /\ Flags'
    BY <1>1, <1>4 DEF Handled, Leave, Process, Stamps, Flags
  <2>2. Files'
    BY <1>4 DEF Handled, Added, Files
  <2> QED  BY <2>1, <2>2
<1>5. ASSUME NEW m \in Msg, HandlerFails(m)  PROVE Process' /\ Stamps' /\ Flags' /\ Files'
  BY <1>1, <1>5 DEF HandlerFails, Leave, history, Process, Stamps, Flags, Files
<1>6. ASSUME NEW m \in Msg, Expires(m)  PROVE Process' /\ Stamps' /\ Flags' /\ Files'
  BY <1>1, <1>6 DEF Expires, history, Process, Stamps, Flags, Files
<1>7. CASE StateSaved
  <2>1. Process' /\ Stamps' /\ Flags'
    BY <1>1, <1>7 DEF StateSaved, Process, Stamps, Flags
  <2>2. Files'
    BY <1>7, SlicedProperties DEF StateSaved, Files
  <2> QED  BY <2>1, <2>2
<1>8. CASE SaveFails
  <2>1. Process' /\ Stamps'
    BY <1>1, <1>8 DEF SaveFails, Process, Stamps
  <2>2. saving' = FALSE /\ stale' = TRUE /\ (torn' = torn \/ torn' \in {torn, TRUE})
    BY <1>8 DEF SaveFails
  <2>3. Flags'
    BY <2>2 DEF Flags
  <2>4. Files'
    BY <1>8, SlicedProperties DEF SaveFails, Files
  <2> QED  BY <2>1, <2>3, <2>4
<1>9. CASE Stops
  <2>1. Process' /\ Stamps'
    BY <1>1, <1>9 DEF Stops, Process, Stamps
  <2>2. saving' = FALSE /\ stale' = stale /\ torn' \in {torn, TRUE}
    BY <1>9 DEF Stops
  <2>3. Flags'
    BY <2>2 DEF Flags
  <2>4. processed' = <<>> /\ file' = file /\ marked' \subseteq marked
    BY <1>9 DEF Stops
  <2>5. Files'
    BY <2>4 DEF Files
  <2> QED  BY <2>1, <2>3, <2>5
<1>10. CASE Starts
  <2>1. Process'
    BY <1>1, <1>10, MaxStartsType DEF Starts, Process
  <2>2. Stamps' /\ Flags'
    BY <1>10 DEF Starts, Stamps, Flags
  <2>3. Files'
    BY <1>10 DEF Starts, Files
  <2> QED  BY <2>1, <2>2, <2>3
<1> QED  BY <1>2, <1>3, <1>4, <1>5, <1>6, <1>7, <1>8, <1>9, <1>10 DEF Next

Typing == TypeOK /\ OneHandlerEach

LEMMA TypingInit == Init => Typing
BY TypeInit, OneHandlerInit DEF Typing

LEMMA TypingStep == Typing /\ [Next]_vars => Typing'
BY TypeStep, OneHandlerStep DEF Typing

\* The state keeps its shape, and what is on disk is never longer than a save
\* leaves it.
THEOREM TypeCorrect == Spec => []TypeOK
<1>1. Typing => TypeOK
  BY DEF Typing
<1> QED  BY <1>1, TypingInit, TypingStep, PTL DEF Spec

-----------------------------------------------------------------------------
(* What was handled is known *)

\* The messages a delivery is compared with: the set in memory, or what the next
\* start will read.
Known == IF up THEN Ids(processed) ELSE IF torn THEN {} ELSE Ids(file)

Remembered == marked \subseteq Known

LEMMA RememberedInit == Init => Remembered
BY DEF Init, Remembered

LEMMA RememberedStep == Typing /\ Remembered /\ [Next]_vars => Remembered'
<1> SUFFICES ASSUME Typing, Remembered, [Next]_vars  PROVE Remembered'
  OBVIOUS
<1>0. processed \in Seq(Msg)
  BY TypeParts DEF Typing, Files
<1>1. CASE UNCHANGED vars
  BY <1>1 DEF vars, memory, history, Remembered, Known
<1>2. ASSUME NEW m \in Msg, Deliver(m)  PROVE Remembered'
  <2>1. /\ up /\ up' /\ marked' = marked \ (old \ {m})
        /\ processed' = Without(processed, old \ {m})
    BY <1>2 DEF Deliver, Enter, CleanUp
  <2>2. Ids(processed') = Ids(processed) \ (old \ {m})
    BY <1>0, <2>1, WithoutProperties
  <2> QED  BY <2>1, <2>2 DEF Remembered, Known
<1>3. ASSUME NEW m \in Msg, Handled(m)  PROVE Remembered'
  <2>1. up /\ up' /\ marked' = marked \cup {m} /\ processed' = Added(processed, m)
    BY <1>3 DEF Handled
  <2>2. Ids(processed') = Ids(processed) \cup {m}
    BY <1>0, <2>1, IdsAppend DEF Added
  <2> QED  BY <2>1, <2>2 DEF Remembered, Known
<1>4. ASSUME NEW m \in Msg, HandlerFails(m) \/ Expires(m)  PROVE Remembered'
  BY <1>4 DEF HandlerFails, Expires, history, Remembered, Known
<1>5. CASE StateSaved \/ SaveFails
  <2>1. UNCHANGED <<processed, marked>> \/ marked' = marked \cap Ids(processed')
    BY <1>5, Zenon DEF StateSaved, SaveFails
  <2>2. up /\ up' = up
    BY <1>5 DEF StateSaved, SaveFails
  <2> QED  BY <2>1, <2>2 DEF Remembered, Known
<1>6. CASE Stops
  <2>1. ~up' /\ file' = file /\ marked' = IF torn' THEN {} ELSE marked \cap Ids(file)
    BY <1>6 DEF Stops
  <2> QED  BY <2>1 DEF Remembered, Known
<1>7. CASE Starts
  <2>1. /\ ~up /\ up' /\ marked' = marked
        /\ processed' = IF torn THEN <<>> ELSE file
    BY <1>7 DEF Starts
  <2> QED  BY <2>1 DEF Remembered, Known
<1> QED  BY <1>1, <1>2, <1>3, <1>4, <1>5, <1>6, <1>7 DEF Next

\* Only handleMessage begins a handler, and only for a message it does not know.
LEMMA BegunIsUnknown ==
  ASSUME Typing, Remembered, [Next]_vars, NEW m \in Msg, handlers'[m] > handlers[m]
  PROVE  m \notin marked
<1>1. handlers \in [Msg -> Nat] /\ \A n \in Msg : handlers[n] \in Nat
  BY TypeParts DEF Typing, Process
<1>2. ASSUME NEW n \in Msg, Deliver(n)  PROVE m \notin marked
  <2>1. up /\ n \notin Ids(processed) /\ handlers' = [handlers EXCEPT ![n] = @ + 1]
    BY <1>2 DEF Deliver, Enter
  <2>2. m = n
    BY <1>1, <2>1
  <2> QED  BY <2>1, <2>2 DEF Remembered, Known
<1>3. ASSUME NEW n \in Msg, Handled(n) \/ HandlerFails(n)  PROVE FALSE
  <2>1. handlers' = [handlers EXCEPT ![n] = @ - 1]
    BY <1>3 DEF Handled, HandlerFails, Leave
  <2> QED  BY <1>1, <2>1
<1>4. CASE handlers' = handlers
  BY <1>1, <1>4
<1>5. CASE Stops
  <2>1. handlers'[m] = 0
    BY <1>5 DEF Stops
  <2> QED  BY <1>1, <2>1
<1>6. ASSUME NEW n \in Msg, Expires(n)  PROVE handlers' = handlers
  BY <1>6 DEF Expires
<1>7. CASE StateSaved \/ SaveFails \/ Starts \/ UNCHANGED vars
  BY <1>4, <1>7 DEF StateSaved, SaveFails, Starts, vars
<1> QED  BY <1>2, <1>3, <1>4, <1>5, <1>6, <1>7 DEF Next

\* A message that was handled is not handled again before its mark expired, was
\* pushed out, or was lost with the process or the file: whatever restarts,
\* failed saves and clean-ups lie in between, marked stays within what a
\* delivery is compared with (handleMessage, loadStateFiles, saveStateFiles).
THEOREM MessagesHandledOnce == Spec => HandledOnce
<1> DEFINE Once == \A m \in Msg : handlers'[m] > handlers[m] => m \notin marked
<1>1. Init => Typing /\ Remembered
  BY TypingInit, RememberedInit
<1>2. Typing /\ Remembered /\ [Next]_vars => Typing' /\ Remembered'
  BY TypingStep, RememberedStep
<1>3. Typing /\ Remembered /\ [Next]_vars => [Once]_vars
  BY BegunIsUnknown
<1>4. HandledOnce <=> [][Once]_vars
  BY PTL DEF HandledOnce
<1> HIDE DEF Once
<1> QED  BY <1>1, <1>2, <1>3, <1>4, PTL DEF Spec

-----------------------------------------------------------------------------
(* What changed is written *)

LEMMA SavedStep == ChangesWillBeSaved /\ [Next]_vars => ChangesWillBeSaved'
<1> SUFFICES ASSUME ChangesWillBeSaved, [Next]_vars  PROVE ChangesWillBeSaved'
  OBVIOUS
<1> USE DEF ChangesWillBeSaved
<1>1. CASE UNCHANGED vars
  BY <1>1 DEF vars, memory, history
<1>2. ASSUME NEW m \in Msg, Deliver(m)  PROVE ChangesWillBeSaved'
  BY <1>2 DEF Deliver, Enter
<1>3. ASSUME NEW m \in Msg, Handled(m) \/ HandlerFails(m)  PROVE ChangesWillBeSaved'
  BY <1>3 DEF Handled, HandlerFails, Leave
<1>4. ASSUME NEW m \in Msg, Expires(m)  PROVE ChangesWillBeSaved'
  BY <1>4 DEF Expires, history
<1>5. CASE StateSaved \/ SaveFails \/ Stops
  BY <1>5 DEF StateSaved, SaveFails, Stops
<1>6. CASE Starts
  BY <1>6 DEF Starts
<1> QED  BY <1>1, <1>2, <1>3, <1>4, <1>5, <1>6 DEF Next

\* Whatever the file does not say yet is going to be written, by a timer that is
\* armed or by a handler that will arm it, unless the last attempt failed: no
\* order of handlers, saves and restarts leaves a change behind
\* (scheduleStateSave in the finally block of handleMessage).
THEOREM ChangesAreSaved == Spec => []ChangesWillBeSaved
<1>1. Init => ChangesWillBeSaved
  BY DEF Init, ChangesWillBeSaved
<1> QED  BY <1>1, SavedStep, PTL DEF Spec

-----------------------------------------------------------------------------
(* The life of the service process (ServiceLifecycle) *)

\* What the proofs carry along: the types, and where owed requests are.
ClosingKept == LifeTypeOK /\ OwedInPipeline /\ ClosedAfterRequests

LEMMA ClosingInit == LifeInit => ClosingKept
BY DEF LifeInit, ClosingKept, LifeTypeOK, OwedInPipeline, ClosedAfterRequests, Phases,
       ExitCodes, CloseSteps, RequestStates, Running, Aborted

\* The synchronous part of close, at the first signal.
LEMMA Closing ==
  ASSUME ClosingKept, Close
  PROVE  /\ request' \in [Request -> RequestStates]
         /\ owed' \subseteq Request
         /\ closing' \in {"draining", "mcp"}
         /\ closing' = "mcp" => owed' = {}
         /\ \A r \in owed' : request'[r] = "inFlight"
BY DEF ClosingKept, LifeTypeOK, Close, At, RequestStates

\* Every step keeps the invariant.
LEMMA ClosingStep == ClosingKept /\ [LifeNext]_lifeVars => ClosingKept'
<1> SUFFICES ASSUME ClosingKept, [LifeNext]_lifeVars  PROVE ClosingKept'
  OBVIOUS
<1> USE DEF Phases, ExitCodes, CloseSteps, RequestStates, Running, Aborted
<1>1. CASE \/ MemoryReady \/ IdentityProbed \/ McpReady \/ WebSocketStarted
           \/ StartFails \/ Crash \/ ForceExit
  BY <1>1 DEF ClosingKept, LifeTypeOK, OwedInPipeline, ClosedAfterRequests, MemoryReady,
     IdentityProbed, McpReady, WebSocketStarted, StartFails, Crash, ForceExit, Exit
<1>2. ASSUME NEW s \in Signals, Signal(s)  PROVE ClosingKept'
  <2>1. CASE UNCHANGED <<closing, request, owed>>
    BY <1>2, <2>1 DEF ClosingKept, LifeTypeOK, OwedInPipeline, ClosedAfterRequests,
       Signal, Exit
  <2>2. CASE Close /\ caught' = caught \cup {s}
    <3>1. LifeTypeOK'
      BY <1>2, <2>2, Closing DEF ClosingKept, LifeTypeOK, Signal, Exit
    <3>2. OwedInPipeline'
      BY <2>2, Closing DEF OwedInPipeline
    <3>3. ClosedAfterRequests'
      BY <2>2, Closing DEF ClosedAfterRequests
    <3> QED  BY <3>1, <3>2, <3>3 DEF ClosingKept
  <2> QED  BY <1>2, <2>1, <2>2 DEF Signal
<1>3. CASE DeadlinePasses \/ Drained \/ McpClosed \/ MemoryClosed
  <2>1. LifeTypeOK'
    BY <1>3 DEF ClosingKept, LifeTypeOK, DeadlinePasses, Drained, McpClosed, MemoryClosed
  <2>2. OwedInPipeline'
    BY <1>3 DEF ClosingKept, OwedInPipeline, DeadlinePasses, Drained, McpClosed,
       MemoryClosed
  <2>3. ClosedAfterRequests'
    <3>1. CASE Drained
      BY <3>1 DEF ClosingKept, LifeTypeOK, OwedInPipeline, ClosedAfterRequests, Drained, At
    <3>2. CASE DeadlinePasses \/ McpClosed \/ MemoryClosed
      BY <3>2 DEF ClosingKept, ClosedAfterRequests, DeadlinePasses, McpClosed,
         MemoryClosed
    <3> QED  BY <1>3, <3>1, <3>2
  <2> QED  BY <2>1, <2>2, <2>3 DEF ClosingKept
<1>4. ASSUME NEW r \in Request, Arrive(r) \/ RequestHandled(r) \/ Flushed(r) \/ Ended(r)
      PROVE  ClosingKept'
  <2>1. LifeTypeOK'
    BY <1>4 DEF ClosingKept, LifeTypeOK, Arrive, RequestHandled, Flushed, Ended
  <2>2. \A q \in owed : \/ request'[q] = request[q]
                        \/ request'[q] = "over"
    BY <1>4 DEF ClosingKept, LifeTypeOK, OwedInPipeline, Arrive, RequestHandled, Flushed, Ended
  <2>3. UNCHANGED <<closing, caught, overdue, owed>>
    BY <1>4 DEF Arrive, RequestHandled, Flushed, Ended
  <2> QED  BY <2>1, <2>2, <2>3 DEF ClosingKept, OwedInPipeline, ClosedAfterRequests
<1>5. CASE FilesSaved
  BY <1>5 DEF ClosingKept, LifeTypeOK, OwedInPipeline, ClosedAfterRequests, FilesSaved
<1>6. CASE UNCHANGED lifeVars
  BY <1>6 DEF lifeVars, ClosingKept, LifeTypeOK, OwedInPipeline, ClosedAfterRequests
<1> QED  BY <1>1, <1>2, <1>3, <1>4, <1>5, <1>6 DEF LifeNext

\* The variables of the process keep their types, and it has an exit code
\* exactly when it has ended.
THEOREM LifecycleTypes == LifeSpec => []LifeTypeOK
<1>1. ClosingKept => LifeTypeOK
  BY DEF ClosingKept
<1> QED  BY <1>1, ClosingInit, ClosingStep, PTL DEF LifeSpec

\* close takes nothing away from the requests it owes an answer: the MCP clients
\* and the memory store go when those are over, or after the 30 seconds.
THEOREM CloseWaits == LifeSpec => []ClosedAfterRequests
<1>1. ClosingKept => ClosedAfterRequests
  BY DEF ClosingKept
<1> QED  BY <1>1, ClosingInit, ClosingStep, PTL DEF LifeSpec

\* After a signal the callback takes nothing in, and close is not started again.
THEOREM NoIntakeAfterSignal == LifeSpec => NothingAfterSignal
<1> DEFINE Kept == Aborted => At("none")' = At("none") /\ owed' = owed
<1>1. ClosingKept /\ [LifeNext]_lifeVars => [Kept]_lifeVars
  <2> SUFFICES ASSUME ClosingKept, LifeNext, Aborted
               PROVE  At("none")' = At("none") /\ owed' = owed
    OBVIOUS
  <2>1. ASSUME NEW s \in Signals, Signal(s)
        PROVE  At("none")' = At("none") /\ owed' = owed
    BY <2>1 DEF Signal, At
  <2>2. ASSUME NEW r \in Request, Arrive(r) \/ RequestHandled(r) \/ Flushed(r) \/ Ended(r)
        PROVE  At("none")' = At("none") /\ owed' = owed
    <3>1. owed' = owed /\ ~Arrive(r)
      BY <2>2 DEF Arrive, RequestHandled, Flushed, Ended
    <3>2. /\ request[r] # "none" /\ request'[r] # "none"
          /\ \A q \in Request \ {r} : request'[q] = request[q]
      BY <2>2, <3>1 DEF ClosingKept, LifeTypeOK, RequestHandled, Flushed, Ended
    <3> QED  BY <3>1, <3>2 DEF At
  <2> QED
    BY <2>1, <2>2 DEF LifeNext, MemoryReady, IdentityProbed, McpReady, WebSocketStarted,
       StartFails, Crash, ForceExit, DeadlinePasses, Drained, McpClosed, MemoryClosed,
       FilesSaved, At
<1> QED  BY <1>1, ClosingInit, ClosingStep, PTL DEF LifeSpec, NothingAfterSignal

=============================================================================
