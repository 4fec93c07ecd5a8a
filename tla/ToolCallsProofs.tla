-------------------------- MODULE ToolCallsProofs --------------------------
(***************************************************************************)
(* The dialogue a generation has with the model, and what it notes of its  *)
(* tool calls: theorems about ToolCalls for every set of generations and   *)
(* servers and every number of rounds, attempts and calls.                 *)
(***************************************************************************)
EXTENDS ToolCalls, TLAPS

Row == [round : Nat, place : Nat, status : {"none", "success", "failed"},
        attempts : Nat, runs : Nat]
Said == [role : {"assistant", "tool"}, round : Nat, place : Nat]

\* A generation is at one of its tool calls.
Working(g) == step[g] \in {"calling", "resting", "noting"}

\* The place of a call is one of its round's.
Places ==
  \A g \in Generation :
    /\ Len(calls[g]) <= MaxCalls
    /\ Working(g) => at[g] <= Len(calls[g]) /\ rounds[g] >= 1

\* A call has been carried out at most once in each attempt that has ended, and
\* its outcome is what the attempts were.
Counted ==
  \A g \in Generation :
    /\ step[g] = "calling" => runs[g] < attempt[g]
    /\ step[g] = "resting" => runs[g] <= attempt[g] /\ attempt[g] < MaxAttempts
    /\ step[g] = "noting" => /\ runs[g] <= attempt[g]
                             /\ outcome[g] = "success" => runs[g] >= 1
                             /\ outcome[g] = "failed" => attempt[g] = MaxAttempts

\* The parts of TypeOK.
HubType ==
  /\ tried \subseteq Server /\ trying \in tried \cup {"nothing"}
  /\ clients \subseteq tried /\ bindings \subseteq tried
LoopType ==
  /\ step \in [Generation -> Steps]
  /\ rounds \in [Generation -> 0..MaxRounds]
  /\ calls \in [Generation -> Seq(Server \cup {NoServer})]
CallType ==
  /\ at \in [Generation -> 1..MaxCalls]
  /\ attempt \in [Generation -> 1..MaxAttempts]
  /\ runs \in [Generation -> 0..MaxAttempts]
  /\ outcome \in [Generation -> {"none", "success", "failed"}]
LogType ==
  /\ dialogue \in [Generation -> Seq(Said)]
  /\ rows \in [Generation -> Seq(Row)]

Typing == HubType /\ LoopType /\ CallType /\ LogType /\ Places /\ Counted

\* A row is about an earlier call than the one being worked on.
Logged ==
  \A g \in Generation : \A i \in DOMAIN rows[g] :
    /\ rows[g][i].round <= rounds[g]
    /\ Working(g) /\ rows[g][i].round = rounds[g] => rows[g][i].place < at[g]

\* The requests of a dialogue are those of the rounds so far, in their order.
Ordered(d) ==
  \A i, j \in DOMAIN d : i < j =>
    /\ d[i].round <= d[j].round
    /\ d[j].role = "assistant" => d[i].round < d[j].round
Rounds(g) ==
  /\ \A i \in DOMAIN dialogue[g] : dialogue[g][i].round \in 1..rounds[g]
  /\ \A r \in 1..rounds[g] : \E i \in DOMAIN dialogue[g] :
       dialogue[g][i].role = "assistant" /\ dialogue[g][i].round = r

\* Every result is the result of a call of the request it follows.
ResultsBelong(d) ==
  \A j \in DOMAIN d : d[j].role = "tool" =>
    \E i \in 1..j - 1 : /\ d[i].role = "assistant" /\ j - i <= d[i].place
                        /\ d[j] = ResultOf(d[i], j - i)

\* A request has all its results, or, while its round is worked on, the results
\* of the calls before the present one.
Replied(d, i, n) ==
  \A k \in 1..n : i + k \in DOMAIN d /\ d[i + k] = ResultOf(d[i], k)
Requests(g) ==
  \A i \in DOMAIN dialogue[g] : dialogue[g][i].role = "assistant" =>
    IF Working(g) /\ dialogue[g][i].round = rounds[g]
    THEN /\ dialogue[g][i].place = Len(calls[g])
         /\ i + at[g] = Len(dialogue[g]) + 1
         /\ Replied(dialogue[g], i, at[g] - 1)
    ELSE Replied(dialogue[g], i, dialogue[g][i].place)

Dialogues ==
  \A g \in Generation :
    Ordered(dialogue[g]) /\ Rounds(g) /\ ResultsBelong(dialogue[g]) /\ Requests(g)

-----------------------------------------------------------------------------
(* The types *)

LEMMA TypingGives == Typing => TypeOK
BY DEF Typing, TypeOK, HubType, LoopType, CallType, LogType, Said

LEMMA TypingInit == Init => Typing
<1> SUFFICES ASSUME Init  PROVE Typing
  OBVIOUS
<1>1. HubType
  BY DEF Init, HubType
<1>2. LoopType
  BY BoundsType DEF Init, LoopType, Steps
<1>3. CallType
  BY BoundsType DEF Init, CallType
<1>4. LogType
  BY DEF Init, LogType
<1>5. Places /\ Counted
  BY BoundsType DEF Init, Places, Counted, Working
<1> QED  BY <1>1, <1>2, <1>3, <1>4, <1>5 DEF Typing

\* The steps of the hub leave the generations alone.
LEMMA HubStep ==
  ASSUME Typing, NEW s \in Server, Connect(s) \/ ConnectFails(s) \/ Connected(s) \/ Listed(s)
  PROVE  HubType' /\ UNCHANGED hubOnly
<1>1. HubType
  BY DEF Typing
<1>2. CASE Connect(s)
  BY <1>1, <1>2 DEF Connect, HubType
<1>3. CASE ConnectFails(s)
  BY <1>1, <1>3 DEF ConnectFails, HubType
<1>4. CASE Connected(s)
  BY <1>1, <1>4, NoServerType DEF Connected, HubType
<1>5. CASE Listed(s)
  BY <1>1, <1>5 DEF Listed, HubType
<1> QED  BY <1>2, <1>3, <1>4, <1>5

\* What the model asks for in one response.
LEMMA AskedType ==
  ASSUME NEW asked \in SeqOf(Server \cup {NoServer}, MaxCalls)
  PROVE  asked \in Seq(Server \cup {NoServer}) /\ Len(asked) <= MaxCalls
BY BoundsType DEF SeqOf

\* The next call of a round begins, or the model is asked again.
LEMMA ResultTyped ==
  ASSUME Typing, NEW g \in Generation, Working(g), Result(g), UNCHANGED <<rounds, calls>>
  PROVE  LoopType' /\ CallType' /\ dialogue' \in [Generation -> Seq(Said)] /\ Places' /\ Counted'
<1>0. LoopType /\ CallType /\ LogType /\ Places /\ Counted
  BY DEF Typing
<1>1. [role |-> "tool", round |-> rounds[g], place |-> at[g]] \in Said
  BY <1>0, BoundsType DEF Said, LoopType, CallType
<1>2. dialogue' \in [Generation -> Seq(Said)]
  BY <1>0, <1>1 DEF Result, LogType
<1>3. CASE at[g] < Len(calls[g])
  <2>1. BeginCall(g, at[g] + 1) /\ Goes(g, "calling")
    BY <1>3 DEF Result
  <2>2. at[g] + 1 \in 1..MaxCalls /\ at[g] + 1 <= Len(calls[g])
    BY <1>0, <1>3, BoundsType DEF Places, CallType, LoopType
  <2>3. LoopType'
    BY <1>0, <2>1 DEF LoopType, Goes, Steps
  <2>4. CallType'
    BY <1>0, <2>1, <2>2, BoundsType DEF CallType, BeginCall
  <2>5. Places'
    BY <1>0, <2>1, <2>2 DEF Places, Working, LoopType, CallType, Goes, BeginCall
  <2>6. Counted'
    BY <1>0, <2>1 DEF Counted, LoopType, CallType, Goes, BeginCall
  <2> QED  BY <1>2, <2>3, <2>4, <2>5, <2>6
<1>4. CASE ~(at[g] < Len(calls[g]))
  <2>1. UNCHANGED call /\ Goes(g, "asking")
    BY <1>4 DEF Result
  <2>2. LoopType' /\ CallType'
    BY <1>0, <2>1 DEF LoopType, CallType, Goes, Steps, call
  <2>3. Places' /\ Counted'
    BY <1>0, <2>1 DEF Places, Counted, Working, LoopType, CallType, Goes, call
  <2> QED  BY <1>2, <2>2, <2>3
<1> QED  BY <1>3, <1>4

LEMMA TypingStep == Typing /\ [Next]_vars => Typing'
<1> SUFFICES ASSUME Typing, [Next]_vars  PROVE Typing'
  OBVIOUS
<1>0. HubType /\ LoopType /\ CallType /\ LogType /\ Places /\ Counted
  BY DEF Typing
<1>1. CASE UNCHANGED vars
  BY <1>0, <1>1 DEF vars, hub, call, Typing, HubType, LoopType, CallType, LogType, Places,
     Counted, Working
<1>2. ASSUME NEW s \in Server, Connect(s) \/ ConnectFails(s) \/ Connected(s) \/ Listed(s)
      PROVE  Typing'
  <2>1. HubType' /\ UNCHANGED hubOnly
    BY <1>2, HubStep
  <2> QED  BY <1>0, <2>1 DEF Typing, hubOnly, call, LoopType, CallType, LogType, Places,
           Counted, Working
<1>3. ASSUME NEW g \in Generation, Begin(g) \/ ModelAnswers(g) \/ ModelFails(g)
      PROVE  Typing'
  <2>1. UNCHANGED <<hub, rounds, calls, call, dialogue, rows>>
    BY <1>3 DEF Begin, ModelAnswers, ModelFails
  <2>2. \E to \in {"asking", "answered", "failed"} : Goes(g, to)
    BY <1>3 DEF Begin, ModelAnswers, ModelFails
  <2>3. HubType' /\ LoopType' /\ CallType' /\ LogType'
    BY <1>0, <2>1, <2>2 DEF HubType, LoopType, CallType, LogType, hub, call, Goes, Steps
  <2>4. Places' /\ Counted'
    BY <1>0, <2>1, <2>2 DEF Places, Counted, Working, LoopType, Goes, call
  <2> QED  BY <2>3, <2>4 DEF Typing
<1>4. ASSUME NEW g \in Generation, ModelRequestsTools(g)  PROVE Typing'
  <2>1. CASE rounds[g] >= MaxRounds
    <3>1. Goes(g, "stopped") /\ UNCHANGED <<hub, rounds, calls, call, dialogue, rows>>
      BY <1>4, <2>1 DEF ModelRequestsTools
    <3>2. HubType' /\ LoopType' /\ CallType' /\ LogType'
      BY <1>0, <3>1 DEF HubType, LoopType, CallType, LogType, hub, call, Goes, Steps
    <3>3. Places' /\ Counted'
      BY <1>0, <3>1 DEF Places, Counted, Working, LoopType, Goes, call
    <3> QED  BY <3>2, <3>3 DEF Typing
  <2>2. CASE ~(rounds[g] >= MaxRounds)
    <3>1. PICK asked \in SeqOf(Server \cup {NoServer}, MaxCalls) :
            /\ asked # <<>>
            /\ calls' = [calls EXCEPT ![g] = asked]
            /\ dialogue' = [dialogue EXCEPT ![g] =
                 Append(@, [role |-> "assistant", round |-> rounds'[g], place |-> Len(asked)])]
      BY <1>4, <2>2 DEF ModelRequestsTools
    <3>2. /\ rounds' = [rounds EXCEPT ![g] = @ + 1] /\ BeginCall(g, 1) /\ Goes(g, "calling")
          /\ UNCHANGED <<hub, rows>>
      BY <1>4, <2>2 DEF ModelRequestsTools
    <3>3. asked \in Seq(Server \cup {NoServer}) /\ Len(asked) \in 1..MaxCalls
      <4>1. asked \in Seq(Server \cup {NoServer}) /\ Len(asked) <= MaxCalls
        BY AskedType
      <4>2. Len(asked) # 0
        BY <3>1, <4>1
      <4> QED  BY <4>1, <4>2, BoundsType
    <3>4. rounds'[g] = rounds[g] + 1 /\ rounds'[g] \in 1..MaxRounds
      BY <1>0, <2>2, <3>2, BoundsType DEF LoopType
    <3>5. HubType' /\ LoopType'
      BY <1>0, <3>1, <3>2, <3>3, <3>4 DEF HubType, LoopType, hub, Goes, Steps
    <3>6. CallType'
      BY <1>0, <3>2, BoundsType DEF CallType, BeginCall
    <3>7. [role |-> "assistant", round |-> rounds'[g], place |-> Len(asked)] \in Said
      BY <3>3, <3>4 DEF Said
    <3>8. LogType'
      BY <1>0, <3>1, <3>2, <3>7 DEF LogType
    <3>9. Places'
      BY <1>0, <3>1, <3>2, <3>3, <3>4 DEF Places, Working, LoopType, CallType, Goes,
         BeginCall
    <3>10. Counted'
      BY <1>0, <3>2 DEF Counted, LoopType, CallType, Goes, BeginCall
    <3> QED  BY <3>5, <3>6, <3>8, <3>9, <3>10 DEF Typing
  <2> QED  BY <2>1, <2>2
<1>5. ASSUME NEW g \in Generation, ToolMissing(g)  PROVE Typing'
  <2>1. Working(g) /\ Result(g) /\ UNCHANGED <<hub, rounds, calls, rows>>
    BY <1>5 DEF ToolMissing, Working
  <2> QED  BY <1>0, <2>1, ResultTyped DEF Typing, HubType, LogType, hub
<1>6. ASSUME NEW g \in Generation, ToolSucceeds(g)  PROVE Typing'
  <2>1. runs[g] + 1 \in 0..MaxAttempts /\ runs[g] + 1 <= attempt[g]
    BY <1>0, <1>6, BoundsType DEF ToolSucceeds, Counted, CallType
  <2>2. HubType' /\ LoopType' /\ CallType' /\ LogType'
    BY <1>0, <1>6, <2>1 DEF ToolSucceeds, HubType, LoopType, CallType, LogType, hub, Goes,
       Steps
  <2>3. Places'
    BY <1>0, <1>6 DEF ToolSucceeds, Places, Working, LoopType, Goes
  <2>4. Counted'
    BY <1>0, <1>6, <2>1 DEF ToolSucceeds, Counted, LoopType, CallType, Goes
  <2> QED  BY <2>2, <2>3, <2>4 DEF Typing
<1>7. ASSUME NEW g \in Generation, ToolFails(g)  PROVE Typing'
  <2>1. runs[g] + 1 \in 0..MaxAttempts /\ runs[g] + 1 <= attempt[g]
    BY <1>0, <1>7, BoundsType DEF ToolFails, Counted, CallType
  <2>5. HubType' /\ LogType'
    BY <1>0, <1>7 DEF ToolFails, HubType, LogType, hub
  <2>6. LoopType'
    BY <1>0, <1>7 DEF ToolFails, LoopType, Goes, Steps
  <2>7. CallType'
    BY <1>0, <1>7, <2>1 DEF ToolFails, CallType
  <2>3. Places'
    BY <1>0, <1>7 DEF ToolFails, Places, Working, LoopType, Goes
  <2>4. Counted'
    <3>1. CASE attempt[g] >= MaxAttempts
      <4>1. Goes(g, "noting") /\ outcome' = [outcome EXCEPT ![g] = "failed"] /\ attempt' = attempt
        BY <1>7, <3>1 DEF ToolFails
      <4>2. attempt[g] = MaxAttempts
        BY <1>0, <3>1, BoundsType DEF CallType
      <4>3. runs' = runs \/ runs' = [runs EXCEPT ![g] = @ + 1]
        BY <1>7 DEF ToolFails
      <4> QED  BY <1>0, <2>1, <4>1, <4>2, <4>3 DEF Counted, LoopType, CallType, Goes
    <3>2. CASE ~(attempt[g] >= MaxAttempts)
      <4>1. Goes(g, "resting") /\ outcome' = outcome /\ attempt' = attempt
        BY <1>7, <3>2 DEF ToolFails
      <4>2. attempt[g] < MaxAttempts
        BY <1>0, <3>2, BoundsType DEF CallType
      <4>3. runs' = runs \/ runs' = [runs EXCEPT ![g] = @ + 1]
        BY <1>7 DEF ToolFails
      <4> QED  BY <1>0, <2>1, <4>1, <4>2, <4>3 DEF Counted, LoopType, CallType, Goes
    <3> QED  BY <3>1, <3>2
  <2> QED  BY <2>3, <2>4, <2>5, <2>6, <2>7 DEF Typing
<1>8. ASSUME NEW g \in Generation, Rested(g)  PROVE Typing'
  <2>1. attempt[g] + 1 \in 1..MaxAttempts /\ runs[g] <= attempt[g]
    BY <1>0, <1>8, BoundsType DEF Rested, Counted, CallType
  <2>2. HubType' /\ LoopType' /\ CallType' /\ LogType'
    BY <1>0, <1>8, <2>1 DEF Rested, HubType, LoopType, CallType, LogType, hub, Goes, Steps
  <2>3. Places'
    BY <1>0, <1>8 DEF Rested, Places, Working, LoopType, Goes
  <2>4. Counted'
    BY <1>0, <1>8, <2>1 DEF Rested, Counted, LoopType, CallType, Goes
  <2> QED  BY <2>2, <2>3, <2>4 DEF Typing
<1>9. ASSUME NEW g \in Generation, Noted(g)  PROVE Typing'
  <2> DEFINE row == [round |-> rounds[g], place |-> at[g], status |-> outcome[g],
                     attempts |-> attempt[g], runs |-> runs[g]]
  <2>1. Working(g) /\ Result(g) /\ UNCHANGED <<hub, rounds, calls>>
    BY <1>9 DEF Noted, Working
  <2>2. row \in Row
    BY <1>0, BoundsType DEF Row, LoopType, CallType
  <2>3. rows' = rows \/ rows' = [rows EXCEPT ![g] = Append(@, row)]
    BY <1>9 DEF Noted
  <2> HIDE DEF row
  <2>4. rows' \in [Generation -> Seq(Row)]
    <3>1. rows \in [Generation -> Seq(Row)] /\ Append(rows[g], row) \in Seq(Row)
      BY <1>0, <2>2 DEF LogType
    <3> QED  BY <2>3, <3>1
  <2> QED  BY <1>0, <2>1, <2>4, ResultTyped DEF Typing, HubType, LogType, hub
<1> QED
  BY <1>1, <1>2, <1>3, <1>4, <1>5, <1>6, <1>7, <1>8, <1>9 DEF Next

\* The types as the proofs below use them.
LEMMA Plain ==
  ASSUME Typing
  PROVE  /\ rounds \in [Generation -> Nat] /\ step \in [Generation -> Steps]
         /\ calls \in [Generation -> Seq(Server \cup {NoServer})]
         /\ at \in [Generation -> Nat]
         /\ dialogue \in [Generation -> Seq(Said)] /\ rows \in [Generation -> Seq(Row)]
<1>1. LoopType /\ CallType /\ LogType
  BY DEF Typing
<1>2. 0..MaxRounds \subseteq Nat /\ 1..MaxCalls \subseteq Nat
  BY BoundsType
<1>3. rounds \in [Generation -> Nat]
  BY <1>1, <1>2 DEF LoopType
<1>4. at \in [Generation -> Nat]
  BY <1>1, <1>2 DEF CallType
<1> QED  BY <1>1, <1>3, <1>4 DEF LoopType, LogType

LEMMA TypingAlways == Spec => []Typing
<1>1. Init => Typing
  BY TypingInit
<1>2. Typing /\ [Next]_vars => Typing'
  BY TypingStep
<1> QED  BY <1>1, <1>2, PTL DEF Spec

\* The counters stay within MAX_TOOL_ROUNDS and MCP_TOOL_MAX_ATTEMPTS, and no call
\* is carried out more often than it may be attempted (the loops of generateReply
\* and callOpenAiTool).
THEOREM TypeCorrect == Spec => []TypeOK
BY TypingAlways, TypingGives, PTL

-----------------------------------------------------------------------------
(* The tools the model is offered *)

\* Every tool the model is offered belongs to a connected server (initialize).
THEOREM OffersAreConnected == Spec => []OfferedIsConnected
<1>1. Init => OfferedIsConnected
  BY DEF Init, OfferedIsConnected
<1>2. OfferedIsConnected /\ [Next]_vars => OfferedIsConnected'
  <2> SUFFICES ASSUME OfferedIsConnected, [Next]_vars  PROVE OfferedIsConnected'
    OBVIOUS
  <2>1. ASSUME UNCHANGED hub  PROVE OfferedIsConnected'
    BY <2>1 DEF hub, OfferedIsConnected
  <2>2. ASSUME NEW s \in Server, Connect(s) \/ ConnectFails(s) \/ Connected(s) \/ Listed(s)
        PROVE  OfferedIsConnected'
    BY <2>2 DEF Connect, ConnectFails, Connected, Listed, OfferedIsConnected
  <2>3. ASSUME NEW g \in Generation,
               \/ Begin(g) \/ ModelAnswers(g) \/ ModelFails(g) \/ ModelRequestsTools(g)
               \/ ToolMissing(g) \/ ToolSucceeds(g) \/ ToolFails(g) \/ Rested(g) \/ Noted(g)
        PROVE  UNCHANGED hub
    BY <2>3 DEF Begin, ModelAnswers, ModelFails, ModelRequestsTools, ToolMissing,
       ToolSucceeds, ToolFails, Rested, Noted
  <2> QED  BY <2>1, <2>2, <2>3 DEF Next, vars
<1> QED  BY <1>1, <1>2, PTL DEF Spec

-----------------------------------------------------------------------------
(* The kinds of steps *)

\* Nothing is said or noted, and every generation stays at its call or away
\* from one.
Quiet ==
  /\ UNCHANGED <<rounds, calls, at, dialogue, rows>>
  /\ \A g \in Generation : Working(g)' <=> Working(g)

\* The model requests the tools asked, and the first call begins.
Requesting(g, asked) ==
  /\ ~Working(g) /\ Len(asked) \in Nat
  /\ rounds' = [rounds EXCEPT ![g] = @ + 1]
  /\ calls' = [calls EXCEPT ![g] = asked]
  /\ dialogue' = [dialogue EXCEPT ![g] =
       Append(@, [role |-> "assistant", round |-> rounds[g] + 1, place |-> Len(asked)])]
  /\ at' = [at EXCEPT ![g] = 1]
  /\ rows' = rows
  /\ step' = [step EXCEPT ![g] = "calling"]

\* The row of the call g is at.
RowOf(g) == [round |-> rounds[g], place |-> at[g], status |-> outcome[g],
             attempts |-> attempt[g], runs |-> runs[g]]

\* The result of the present call is said, after its row was written or not; the
\* next call begins or the round is over.
Replying(g) ==
  /\ Working(g) /\ UNCHANGED <<rounds, calls>>
  /\ dialogue' = [dialogue EXCEPT ![g] =
       Append(@, [role |-> "tool", round |-> rounds[g], place |-> at[g]])]
  /\ \/ rows' = rows
     \/ step[g] = "noting" /\ rows' = [rows EXCEPT ![g] = Append(@, RowOf(g))]
  /\ \/ /\ at[g] < Len(calls[g])
        /\ at' = [at EXCEPT ![g] = at[g] + 1] /\ step' = [step EXCEPT ![g] = "calling"]
     \/ /\ at[g] >= Len(calls[g])
        /\ at' = at /\ step' = [step EXCEPT ![g] = "asking"]

LEMMA ResultKind ==
  ASSUME Typing, NEW g \in Generation, Result(g)
  PROVE  \/ /\ at[g] < Len(calls[g])
            /\ at' = [at EXCEPT ![g] = at[g] + 1] /\ step' = [step EXCEPT ![g] = "calling"]
         \/ /\ at[g] >= Len(calls[g])
            /\ at' = at /\ step' = [step EXCEPT ![g] = "asking"]
<1>1. at[g] \in Int /\ Len(calls[g]) \in Int
  BY BoundsType DEF Typing, CallType, LoopType
<1> QED  BY <1>1 DEF Result, BeginCall, Goes, call

LEMMA StepKinds ==
  ASSUME Typing, [Next]_vars
  PROVE  \/ Quiet
         \/ \E g \in Generation : \E asked \in Seq(Server \cup {NoServer}) : Requesting(g, asked)
         \/ \E g \in Generation : Replying(g)
<1> DEFINE Requested == \E g \in Generation :
             \E asked \in Seq(Server \cup {NoServer}) : Requesting(g, asked)
           Resulted == \E g \in Generation : Replying(g)
<1> SUFFICES Quiet \/ Requested \/ Resulted
  OBVIOUS
<1>0. step \in [Generation -> Steps] /\ rounds \in [Generation -> 0..MaxRounds]
  BY DEF Typing, LoopType
<1>1. CASE UNCHANGED vars
  BY <1>1 DEF vars, call, Quiet, Working
<1>2. ASSUME NEW s \in Server, Connect(s) \/ ConnectFails(s) \/ Connected(s) \/ Listed(s)
      PROVE  Quiet
  BY <1>2, HubStep DEF hubOnly, call, Quiet, Working
<1>3. ASSUME NEW g \in Generation, Begin(g) \/ ModelAnswers(g) \/ ModelFails(g)  PROVE Quiet
  BY <1>0, <1>3 DEF Begin, ModelAnswers, ModelFails, Goes, call, Quiet, Working
<1>4. ASSUME NEW g \in Generation, ModelRequestsTools(g)  PROVE Quiet \/ Requested
  <2>1. CASE rounds[g] >= MaxRounds
    BY <1>0, <1>4, <2>1 DEF ModelRequestsTools, Goes, call, Quiet, Working
  <2>2. CASE ~(rounds[g] >= MaxRounds)
    <3>1. PICK asked \in SeqOf(Server \cup {NoServer}, MaxCalls) :
            /\ calls' = [calls EXCEPT ![g] = asked]
            /\ dialogue' = [dialogue EXCEPT ![g] =
                 Append(@, [role |-> "assistant", round |-> rounds'[g], place |-> Len(asked)])]
      BY <1>4, <2>2 DEF ModelRequestsTools
    <3>2. /\ rounds' = [rounds EXCEPT ![g] = @ + 1] /\ at' = [at EXCEPT ![g] = 1]
          /\ step' = [step EXCEPT ![g] = "calling"] /\ rows' = rows /\ ~Working(g)
      BY <1>4, <2>2 DEF ModelRequestsTools, BeginCall, Goes, Working
    <3>3. rounds'[g] = rounds[g] + 1
      BY <1>0, <3>2
    <3>4. asked \in Seq(Server \cup {NoServer})
      BY AskedType
    <3>5. Requesting(g, asked)
      <4>1. Len(asked) \in Nat
        BY <3>4
      <4>2. dialogue' = [dialogue EXCEPT ![g] =
              Append(@, [role |-> "assistant", round |-> rounds[g] + 1, place |-> Len(asked)])]
        BY <3>1, <3>3
      <4> QED  BY <3>1, <3>2, <4>1, <4>2 DEF Requesting
    <3> QED  BY <3>4, <3>5
  <2> QED  BY <2>1, <2>2
<1>5. ASSUME NEW g \in Generation, ToolMissing(g)  PROVE Resulted
  <2>1. Replying(g)
    BY <1>5, ResultKind DEF ToolMissing, Result, Replying, Working
  <2> QED  BY <2>1
<1>6. ASSUME NEW g \in Generation, ToolSucceeds(g) \/ ToolFails(g) \/ Rested(g)  PROVE Quiet
  BY <1>0, <1>6 DEF ToolSucceeds, ToolFails, Rested, Goes, Quiet, Working
<1>7. ASSUME NEW g \in Generation, Noted(g)  PROVE Resulted
  <2>1. Replying(g)
    BY <1>7, ResultKind DEF Noted, Result, Replying, RowOf, Working
  <2> QED  BY <2>1
<1> HIDE DEF Requested, Resulted
<1> QED
  BY <1>1, <1>2, <1>3, <1>4, <1>5, <1>6, <1>7 DEF Next

-----------------------------------------------------------------------------
(* The rows of lb_tool_calls *)

Rows == Logged /\ RowsAreTrue

LEMMA RowNumbers ==
  ASSUME Typing, NEW g \in Generation, NEW i \in DOMAIN rows[g]
  PROVE  rows[g][i].round \in Nat /\ rows[g][i].place \in Nat
<1>1. rows[g][i] \in Row
  BY DEF Typing, LogType
<1> QED  BY <1>1 DEF Row

LEMMA RowsStep == Typing /\ Rows /\ [Next]_vars => Rows'
<1> SUFFICES ASSUME Typing, Rows, [Next]_vars  PROVE Rows'
  OBVIOUS
<1> USE DEF Rows
<1>0. /\ rounds \in [Generation -> Nat] /\ step \in [Generation -> Steps]
      /\ at \in [Generation -> Nat] /\ rows \in [Generation -> Seq(Row)]
  BY Plain
<1>1. CASE Quiet
  BY <1>1 DEF Quiet, Logged, RowsAreTrue
<1>2. ASSUME NEW g \in Generation, NEW asked, Requesting(g, asked)  PROVE Rows'
  <2>1. \A h \in Generation : h # g =>
          rounds'[h] = rounds[h] /\ at'[h] = at[h] /\ (Working(h)' <=> Working(h))
    BY <1>0, <1>2 DEF Requesting, Working
  <2>2. rounds'[g] = rounds[g] + 1 /\ rows' = rows
    BY <1>0, <1>2 DEF Requesting
  <2>3. \A h \in Generation : \A i \in DOMAIN rows[h] :
          rows[h][i].round \in Nat /\ rows[h][i].place \in Nat
    BY RowNumbers
  <2>4. Logged'
    <3> SUFFICES ASSUME NEW h \in Generation, NEW i \in DOMAIN rows[h]
                 PROVE  /\ rows[h][i].round <= rounds'[h]
                        /\ Working(h)' /\ rows[h][i].round = rounds'[h] => rows[h][i].place < at'[h]
      BY <2>2 DEF Logged
    <3>1. rows[h][i].round <= rounds[h] /\ rounds[h] \in Nat
      BY <1>0 DEF Logged
    <3>2. CASE h = g
      BY <2>2, <2>3, <3>1, <3>2
    <3>3. CASE h # g
      BY <2>1, <3>1, <3>3 DEF Logged
    <3> QED  BY <3>2, <3>3
  <2> QED  BY <2>2, <2>4 DEF RowsAreTrue
<1>3. ASSUME NEW g \in Generation, Replying(g)  PROVE Rows'
  <2>1. /\ rounds' = rounds
        /\ \A h \in Generation : h # g => at'[h] = at[h] /\ (Working(h)' <=> Working(h))
    BY <1>0, <1>3 DEF Replying, Working
  <2>2. Working(g) /\ (Working(g)' => at'[g] = at[g] + 1)
    BY <1>0, <1>3 DEF Replying, Working
  <2>3. \A h \in Generation : \A i \in DOMAIN rows[h] :
          rows[h][i].round \in Nat /\ rows[h][i].place \in Nat
    BY RowNumbers
  <2>4. CASE rows' = rows
    <3>1. Logged'
      <4> SUFFICES ASSUME NEW h \in Generation, NEW i \in DOMAIN rows[h],
                          Working(h)', rows[h][i].round = rounds[h]
                   PROVE  rows[h][i].place < at'[h]
        BY <2>1, <2>4 DEF Logged
      <4>1. CASE h = g
        <5>1. rows[h][i].place < at[h] /\ at'[h] = at[h] + 1 /\ at[h] \in Nat
          BY <1>0, <2>2, <4>1 DEF Logged
        <5> QED  BY <2>3, <5>1
      <4>2. CASE h # g
        BY <2>1, <4>2 DEF Logged
      <4> QED  BY <4>1, <4>2
    <3> QED  BY <2>4, <3>1 DEF RowsAreTrue
  <2>5. CASE step[g] = "noting" /\ rows' = [rows EXCEPT ![g] = Append(@, RowOf(g))]
    <3>1. RowOf(g) \in Row
      BY BoundsType DEF Typing, LoopType, CallType, Row, RowOf
    <3>2. \A h \in Generation : h # g => rows'[h] = rows[h]
      BY <1>0, <2>5
    <3>3. /\ Len(rows[g]) \in Nat /\ DOMAIN rows[g] = 1..Len(rows[g])
          /\ DOMAIN rows'[g] = 1..Len(rows[g]) + 1
          /\ rows'[g][Len(rows[g]) + 1] = RowOf(g)
          /\ \A i \in DOMAIN rows[g] : rows'[g][i] = rows[g][i]
      <4>1. rows'[g] = Append(rows[g], RowOf(g)) /\ rows[g] \in Seq(Row)
        BY <1>0, <2>5
      <4> HIDE DEF RowOf
      <4> QED  BY <3>1, <4>1
    <3>4. RowOf(g).round = rounds[g] /\ RowOf(g).place = at[g]
      BY DEF RowOf
    <3>5. /\ RowOf(g).status = "success" => RowOf(g).runs >= 1
          /\ RowOf(g).status = "failed" => RowOf(g).attempts = MaxAttempts
          /\ RowOf(g).runs <= RowOf(g).attempts
      BY <2>5 DEF Typing, Counted, RowOf
    <3>6. Logged'
      <4> SUFFICES ASSUME NEW h \in Generation, NEW i \in DOMAIN rows'[h]
                   PROVE  /\ rows'[h][i].round <= rounds'[h]
                          /\ Working(h)' /\ rows'[h][i].round = rounds'[h] => rows'[h][i].place < at'[h]
        BY DEF Logged
      <4>1. CASE h # g
        BY <2>1, <3>2, <4>1 DEF Logged
      <4>2. CASE h = g /\ i \in DOMAIN rows[g]
        <5>1. /\ rows[g][i].round <= rounds[g]
              /\ rows[g][i].round = rounds[g] => rows[g][i].place < at[g]
          BY <2>2, <4>2 DEF Logged
        <5>2. rows[g][i].place \in Nat /\ at[g] \in Nat
          BY <1>0, <2>3, <4>2
        <5> QED  BY <2>1, <2>2, <3>3, <4>2, <5>1, <5>2
      <4>3. CASE h = g /\ i = Len(rows[g]) + 1
        BY <1>0, <2>1, <2>2, <3>3, <3>4, <4>3
      <4> QED  BY <3>3, <4>1, <4>2, <4>3
    <3>7. RowsAreTrue'
      <4> SUFFICES ASSUME NEW h \in Generation, NEW i \in DOMAIN rows'[h], NEW j \in DOMAIN rows'[h]
                   PROVE  /\ rows'[h][i].status = "success" => rows'[h][i].runs >= 1
                          /\ rows'[h][i].status = "failed" => rows'[h][i].attempts = MaxAttempts
                          /\ rows'[h][i].runs <= rows'[h][i].attempts
                          /\ i < j => \/ rows'[h][i].round < rows'[h][j].round
                                      \/ /\ rows'[h][i].round = rows'[h][j].round
                                         /\ rows'[h][i].place < rows'[h][j].place
        BY DEF RowsAreTrue
      <4>1. CASE h # g
        BY <3>2, <4>1 DEF RowsAreTrue
      <4>2. CASE h = g
        <5>1. CASE i \in DOMAIN rows[g] /\ j \in DOMAIN rows[g]
          <6>1. rows'[g][i] = rows[g][i] /\ rows'[g][j] = rows[g][j]
            BY <3>3, <5>1
          <6> QED  BY <4>2, <5>1, <6>1 DEF RowsAreTrue
        <5>2. CASE i \in DOMAIN rows[g] /\ j = Len(rows[g]) + 1
          <6>1. rows[g][i].round <= rounds[g] /\ (rows[g][i].round = rounds[g] => rows[g][i].place < at[g])
            BY <2>2, <5>2 DEF Logged
          <6>2. rows[g][i].round \in Nat /\ rounds[g] \in Nat
            BY <1>0, <2>3, <5>2 DEF Row
          <6>3. /\ rows[g][i].status = "success" => rows[g][i].runs >= 1
                /\ rows[g][i].status = "failed" => rows[g][i].attempts = MaxAttempts
                /\ rows[g][i].runs <= rows[g][i].attempts
            BY <5>2 DEF RowsAreTrue
          <6>4. rows'[g][i] = rows[g][i] /\ rows'[g][j] = RowOf(g)
            BY <3>3, <5>2
          <6>5. rows[g][i].round < rounds[g] \/ rows[g][i].round = rounds[g]
            BY <6>1, <6>2
          <6> QED  BY <3>4, <4>2, <6>1, <6>3, <6>4, <6>5
        <5>3. CASE i = Len(rows[g]) + 1
          BY <3>3, <3>5, <4>2, <5>3
        <5> QED  BY <3>3, <4>2, <5>1, <5>2, <5>3
      <4> QED  BY <4>1, <4>2
    <3> QED  BY <3>6, <3>7
  <2> QED  BY <1>3, <2>4, <2>5 DEF Replying
<1> QED  BY <1>1, <1>2, <1>3, StepKinds

\* A row of lb_tool_calls says what happened to its call: there is one at most, a
\* call noted as successful was carried out, and no call more often than the
\* attempts it is noted with (callOpenAiTool and recordToolCall).
THEOREM RowsTellTheTruth == Spec => []RowsAreTrue
<1>1. Init => Typing /\ Rows
  BY TypingInit DEF Init, Rows, Logged, RowsAreTrue
<1>2. Typing /\ Rows /\ [Next]_vars => (Typing /\ Rows)'
  BY TypingStep, RowsStep
<1>3. Typing /\ Rows => RowsAreTrue
  BY DEF Rows
<1> QED  BY <1>1, <1>2, <1>3, PTL DEF Spec

-----------------------------------------------------------------------------
(* The dialogue with the model *)

Dialogue(g) ==
  Ordered(dialogue[g]) /\ Rounds(g) /\ ResultsBelong(dialogue[g]) /\ Requests(g)

\* What a step does not touch stays as it is.
LEMMA SameDialogue ==
  ASSUME NEW g \in Generation, Dialogue(g), dialogue'[g] = dialogue[g],
         rounds'[g] = rounds[g], calls'[g] = calls[g], at'[g] = at[g], Working(g)' <=> Working(g)
  PROVE  Dialogue(g)'
BY DEF Dialogue, Ordered, Rounds, ResultsBelong, Requests, Replied

\* The entries of a dialogue.
LEMMA SaidNumbers ==
  ASSUME Typing, NEW g \in Generation
  PROVE  /\ dialogue[g] \in Seq(Said) /\ Len(dialogue[g]) \in Nat
         /\ DOMAIN dialogue[g] = 1..Len(dialogue[g])
         /\ \A i \in DOMAIN dialogue[g] :
              /\ dialogue[g][i].round \in Nat /\ dialogue[g][i].place \in Nat
              /\ dialogue[g][i].role \in {"assistant", "tool"}
<1>1. dialogue[g] \in Seq(Said)
  BY DEF Typing, LogType
<1>2. \A i \in DOMAIN dialogue[g] : dialogue[g][i] \in Said
  BY <1>1
<1> QED  BY <1>1, <1>2 DEF Said

\* A dialogue with one entry more.
LEMMA Appended ==
  ASSUME Typing, NEW g \in Generation, NEW e \in Said,
         dialogue' = [dialogue EXCEPT ![g] = Append(@, e)]
  PROVE  /\ Len(dialogue'[g]) = Len(dialogue[g]) + 1
         /\ DOMAIN dialogue'[g] = 1..Len(dialogue[g]) + 1
         /\ dialogue'[g][Len(dialogue[g]) + 1] = e
         /\ \A i \in 1..Len(dialogue[g]) : dialogue'[g][i] = dialogue[g][i]
         /\ \A h \in Generation : h # g => dialogue'[h] = dialogue[h]
<1>1. dialogue \in [Generation -> Seq(Said)] /\ dialogue[g] \in Seq(Said)
  BY DEF Typing, LogType
<1>2. dialogue'[g] = Append(dialogue[g], e)
  BY <1>1
<1> QED  BY <1>1, <1>2

\* dd is d, of length n, with e appended.
Grown(d, dd, n, e) ==
  /\ n \in Nat /\ DOMAIN d = 1..n /\ DOMAIN dd = 1..n + 1
  /\ dd[n + 1] = e /\ \A i \in 1..n : dd[i] = d[i]

\* An entry of a round that is no earlier keeps the order, and a request that is
\* appended must be of a later round.
LEMMA OrderedAppend ==
  ASSUME NEW d, NEW dd, NEW n, NEW e, Grown(d, dd, n, e), Ordered(d),
         \A i \in 1..n : d[i].round <= e.round /\ (e.role = "assistant" => d[i].round < e.round)
  PROVE  Ordered(dd)
<1> SUFFICES ASSUME NEW i \in 1..n + 1, NEW j \in 1..n + 1, i < j
             PROVE  /\ dd[i].round <= dd[j].round
                    /\ dd[j].role = "assistant" => dd[i].round < dd[j].round
  BY DEF Ordered, Grown
<1>1. i \in 1..n
  BY DEF Grown
<1>2. CASE j \in 1..n
  BY <1>1, <1>2 DEF Ordered, Grown
<1>3. CASE j = n + 1
  BY <1>1, <1>3 DEF Grown
<1> QED  BY <1>2, <1>3 DEF Grown

\* The results that were there stay with their requests.
LEMMA ResultsStay ==
  ASSUME NEW d, NEW dd, NEW n, NEW e, Grown(d, dd, n, e), ResultsBelong(d),
         NEW j \in 1..n, dd[j].role = "tool"
  PROVE  \E i \in 1..j - 1 : /\ dd[i].role = "assistant" /\ j - i <= dd[i].place
                              /\ dd[j] = ResultOf(dd[i], j - i)
<1>1. PICK i \in 1..j - 1 : /\ d[i].role = "assistant" /\ j - i <= d[i].place
                            /\ d[j] = ResultOf(d[i], j - i)
  BY DEF ResultsBelong, Grown
<1>2. i \in 1..n
  BY DEF Grown
<1> QED  BY <1>1, <1>2 DEF Grown

\* So do the results of a request.
LEMMA RepliedStays ==
  ASSUME NEW d, NEW dd, NEW n, NEW e, Grown(d, dd, n, e), NEW i \in 1..n, NEW m,
         Replied(d, i, m)
  PROVE  Replied(dd, i, m)
BY DEF Replied, Grown

\* The model requests tools: all earlier requests have their results.
LEMMA RequestingStep ==
  ASSUME Typing, Dialogues, NEW g \in Generation, NEW asked, Requesting(g, asked)
  PROVE  Dialogue(g)'
<1> DEFINE e == [role |-> "assistant", round |-> rounds[g] + 1, place |-> Len(asked)]
           d == dialogue[g]
           dd == dialogue'[g]
           n == Len(dialogue[g])
<1>1. /\ rounds \in [Generation -> Nat] /\ step \in [Generation -> Steps]
      /\ calls \in [Generation -> Seq(Server \cup {NoServer})]
      /\ at \in [Generation -> Nat]
  BY Plain
<1>2. /\ rounds'[g] = rounds[g] + 1 /\ at'[g] = 1 /\ calls'[g] = asked
      /\ Working(g)' /\ ~Working(g)
  BY <1>1 DEF Requesting, Working
<1>3. e \in Said
  BY <1>1 DEF Requesting, Said
<1>4. dialogue' = [dialogue EXCEPT ![g] = Append(@, e)]
  BY DEF Requesting
<1>5. e.role = "assistant" /\ e.round = rounds[g] + 1 /\ e.place = Len(asked)
  OBVIOUS
<1> HIDE DEF e
<1>6. /\ n \in Nat /\ Len(dd) = n + 1 /\ DOMAIN d = 1..n /\ DOMAIN dd = 1..n + 1
      /\ dd[n + 1] = e /\ \A i \in 1..n : dd[i] = d[i]
      /\ Grown(d, dd, n, e)
  BY <1>3, <1>4, Appended, SaidNumbers DEF Grown
<1>7. Ordered(d) /\ Rounds(g) /\ ResultsBelong(d) /\ Requests(g)
  BY DEF Dialogues
<1>8. \A i \in 1..n : d[i].round \in 1..rounds[g] /\ d[i].place \in Nat
  BY <1>6, <1>7, SaidNumbers DEF Rounds
<1> HIDE DEF d, dd, n
<1>9. Ordered(dd)
  <2>1. \A i \in 1..n : d[i].round <= e.round /\ (e.role = "assistant" => d[i].round < e.round)
    BY <1>1, <1>5, <1>8
  <2> QED  BY <1>6, <1>7, <2>1, OrderedAppend
<1>10. Rounds(g)'
  <2>1. \A i \in 1..n + 1 : dd[i].round \in 1..rounds[g] + 1
    <3>1. \A i \in 1..n : dd[i].round \in 1..rounds[g] + 1
      BY <1>1, <1>6, <1>8
    <3>2. dd[n + 1].round \in 1..rounds[g] + 1
      BY <1>1, <1>5, <1>6
    <3> QED  BY <1>6, <3>1, <3>2
  <2>2. \A r \in 1..rounds[g] : \E i \in 1..n : d[i].role = "assistant" /\ d[i].round = r
    BY <1>6, <1>7 DEF Rounds, d
  <2>3. \A r \in 1..rounds[g] + 1 : \E i \in 1..n + 1 : dd[i].role = "assistant" /\ dd[i].round = r
    <3> SUFFICES ASSUME NEW r \in 1..rounds[g] + 1
                 PROVE  \E i \in 1..n + 1 : dd[i].role = "assistant" /\ dd[i].round = r
      OBVIOUS
    <3>1. CASE r = rounds[g] + 1
      BY <1>5, <1>6, <3>1
    <3>2. CASE r \in 1..rounds[g]
      BY <1>6, <2>2, <3>2
    <3>3. r = rounds[g] + 1 \/ r \in 1..rounds[g]
      <4>1. rounds[g] \in Nat
        BY <1>1
      <4> HIDE <1>1
      <4> QED  BY <4>1
    <3> QED  BY <3>1, <3>2, <3>3
  <2> QED  BY <1>2, <1>6, <2>1, <2>3 DEF Rounds, dd
<1>11. ResultsBelong(dd)
  <2>1. \A j \in 1..n : dd[j].role = "tool" =>
          \E i \in 1..j - 1 : /\ dd[i].role = "assistant" /\ j - i <= dd[i].place
                              /\ dd[j] = ResultOf(dd[i], j - i)
    BY <1>6, <1>7, ResultsStay
  <2>2. dd[n + 1].role # "tool" /\ \A j \in 1..n + 1 : j \in 1..n \/ j = n + 1
    BY <1>5, <1>6
  <2> QED  BY <1>6, <2>1, <2>2 DEF ResultsBelong
<1>12. Requests(g)'
  <2> SUFFICES ASSUME NEW i \in 1..n + 1, dd[i].role = "assistant"
               PROVE  IF dd[i].round = rounds[g] + 1
                      THEN dd[i].place = Len(asked) /\ i + 1 = n + 2 /\ Replied(dd, i, 0)
                      ELSE Replied(dd, i, dd[i].place)
    BY <1>2, <1>6 DEF Requests, dd
  <2>1. CASE i = n + 1
    BY <1>5, <1>6, <2>1 DEF Replied
  <2>2. CASE i \in 1..n
    <3>1. dd[i] = d[i] /\ dd[i].round # rounds[g] + 1
      BY <1>1, <1>6, <1>8, <2>2
    <3>2. Replied(d, i, d[i].place)
      BY <1>2, <1>6, <1>7, <2>2, <3>1 DEF Requests, d
    <3> QED  BY <1>6, <2>2, <3>1, <3>2, RepliedStays
  <2> QED  BY <1>6, <2>1, <2>2
<1> QED  BY <1>9, <1>10, <1>11, <1>12 DEF Dialogue, dd

\* The result of the present call is appended: its request is the open one.
LEMMA ReplyingStep ==
  ASSUME Typing, Dialogues, NEW g \in Generation, Replying(g)
  PROVE  Dialogue(g)'
<1> DEFINE e == [role |-> "tool", round |-> rounds[g], place |-> at[g]]
           d == dialogue[g]
           dd == dialogue'[g]
           n == Len(dialogue[g])
<1>1. /\ rounds \in [Generation -> Nat] /\ step \in [Generation -> Steps]
      /\ calls \in [Generation -> Seq(Server \cup {NoServer})] /\ Len(calls[g]) \in Nat
      /\ at \in [Generation -> Nat] /\ at[g] \in Nat \ {0}
  <2>1. at[g] # 0
    BY BoundsType DEF Typing, CallType
  <2> QED  BY <2>1, Plain
<1>2. /\ rounds'[g] = rounds[g] /\ calls'[g] = calls[g] /\ Working(g)
      /\ \/ Working(g)' /\ at'[g] = at[g] + 1
         \/ ~Working(g)' /\ at[g] >= Len(calls[g])
  BY <1>1 DEF Replying, Working
<1>3. at[g] <= Len(calls[g]) /\ rounds[g] >= 1
  BY <1>2 DEF Typing, Places
<1>4. e \in Said
  BY <1>1 DEF Said
<1>5. dialogue' = [dialogue EXCEPT ![g] = Append(@, e)]
  BY DEF Replying
<1>6. e.role = "tool" /\ e.round = rounds[g] /\ e.place = at[g]
  OBVIOUS
<1>7. \A request : request.round = rounds[g] => e = ResultOf(request, at[g])
  BY DEF ResultOf
<1> HIDE DEF e
<1>8. /\ n \in Nat /\ Len(dd) = n + 1 /\ DOMAIN d = 1..n /\ DOMAIN dd = 1..n + 1
      /\ dd[n + 1] = e /\ \A i \in 1..n : dd[i] = d[i]
      /\ Grown(d, dd, n, e)
  BY <1>4, <1>5, Appended, SaidNumbers DEF Grown
<1>9. Ordered(d) /\ Rounds(g) /\ ResultsBelong(d) /\ Requests(g)
  BY DEF Dialogues
<1>10. \A i \in 1..n : d[i].round \in 1..rounds[g] /\ d[i].place \in Nat
  BY <1>8, <1>9, SaidNumbers DEF Rounds
<1>11. \A i \in 1..n : d[i].role = "assistant" /\ d[i].round = rounds[g] =>
         /\ d[i].place = Len(calls[g]) /\ i + at[g] = n + 1
         /\ Replied(d, i, at[g] - 1)
  BY <1>2, <1>8, <1>9 DEF Requests
<1>12. \A i \in 1..n : d[i].role = "assistant" /\ d[i].round # rounds[g] =>
         Replied(d, i, d[i].place)
  BY <1>2, <1>8, <1>9 DEF Requests
<1>13. \A r \in 1..rounds[g] : \E i \in 1..n : d[i].role = "assistant" /\ d[i].round = r
  BY <1>8, <1>9 DEF Rounds
<1> HIDE DEF d, dd, n
<1>14. Ordered(dd)
  <2>1. \A i \in 1..n : d[i].round <= e.round /\ (e.role = "assistant" => d[i].round < e.round)
    BY <1>1, <1>6, <1>10
  <2> QED  BY <1>8, <1>9, <2>1, OrderedAppend
<1>15. Rounds(g)'
  <2>1. \A i \in 1..n + 1 : dd[i].round \in 1..rounds[g]
    <3>1. rounds[g] \in 1..rounds[g] /\ \A i \in 1..n + 1 : i \in 1..n \/ i = n + 1
      BY <1>1, <1>3, <1>8
    <3> QED  BY <1>6, <1>8, <1>10, <3>1
  <2>2. \A r \in 1..rounds[g] : \E i \in 1..n + 1 : dd[i].role = "assistant" /\ dd[i].round = r
    BY <1>8, <1>13
  <2> QED  BY <1>2, <1>8, <2>1, <2>2 DEF Rounds, dd
<1>16. ResultsBelong(dd)
  <2>1. PICK p \in 1..n : d[p].role = "assistant" /\ d[p].round = rounds[g]
    <3>1. rounds[g] \in 1..rounds[g]
      BY <1>1, <1>3
    <3> QED  BY <1>13, <3>1
  <2>2. (n + 1) - p = at[g] /\ at[g] <= d[p].place /\ dd[p] = d[p] /\ p \in 1..(n + 1) - 1
    <3>1. d[p].place = Len(calls[g]) /\ p + at[g] = n + 1
      BY <1>11, <2>1
    <3>2. n \in Nat /\ dd[p] = d[p] /\ at[g] \in Nat
      BY <1>1, <1>8
    <3> QED  BY <1>3, <3>1, <3>2
  <2>3. dd[n + 1] = ResultOf(dd[p], (n + 1) - p)
    BY <1>7, <1>8, <2>1, <2>2
  <2>5. \A j \in 1..n : dd[j].role = "tool" =>
          \E i \in 1..j - 1 : /\ dd[i].role = "assistant" /\ j - i <= dd[i].place
                              /\ dd[j] = ResultOf(dd[i], j - i)
    <3>1. Grown(d, dd, n, e)
      BY <1>8
    <3> QED  BY <1>9, <3>1, ResultsStay
  <2>6. \A j \in 1..n + 1 : j \in 1..n \/ j = n + 1
    BY <1>8
  <2>7. DOMAIN dd = 1..n + 1
    BY <1>8
  <2> SUFFICES ASSUME NEW j \in 1..n + 1, dd[j].role = "tool"
               PROVE  \E i \in 1..j - 1 : /\ dd[i].role = "assistant" /\ j - i <= dd[i].place
                                           /\ dd[j] = ResultOf(dd[i], j - i)
    BY <2>7 DEF ResultsBelong
  <2>8. CASE j = n + 1
    <3>1. p \in 1..j - 1 /\ j - p <= dd[p].place /\ dd[j] = ResultOf(dd[p], j - p)
      <4>1. (n + 1) - p <= dd[p].place
        BY <2>2, Zenon
      <4> QED  BY <2>2, <2>3, <2>8, <4>1, Zenon
    <3> QED  BY <2>1, <2>2, <3>1
  <2>9. CASE j \in 1..n
    BY <2>5, <2>9
  <2> QED  BY <2>6, <2>8, <2>9
<1>17. Requests(g)'
  <2> SUFFICES ASSUME NEW i \in 1..n + 1, dd[i].role = "assistant"
               PROVE  IF Working(g)' /\ dd[i].round = rounds[g]
                      THEN /\ dd[i].place = Len(calls[g]) /\ i + at'[g] = n + 2
                           /\ Replied(dd, i, at'[g] - 1)
                      ELSE Replied(dd, i, dd[i].place)
    BY <1>2, <1>8 DEF Requests, dd
  <2>1. i \in 1..n /\ dd[i] = d[i]
    BY <1>6, <1>8
  <2>2. CASE d[i].round = rounds[g]
    <3>1. d[i].place = Len(calls[g]) /\ i + at[g] = n + 1 /\ Replied(d, i, at[g] - 1)
      BY <1>11, <2>1, <2>2
    <3>2. Replied(dd, i, at[g] - 1)
      BY <1>8, <2>1, <3>1, RepliedStays
    <3>3. i + at[g] \in DOMAIN dd /\ dd[i + at[g]] = ResultOf(dd[i], at[g])
      BY <1>7, <1>8, <2>1, <2>2, <3>1
    <3>4. \A k \in 1..at[g] : k \in 1..at[g] - 1 \/ k = at[g]
      BY <1>1
    <3>5. Replied(dd, i, at[g])
      BY <3>2, <3>3, <3>4 DEF Replied
    <3>6. CASE Working(g)'
      <4>1. at'[g] = at[g] + 1 /\ at'[g] - 1 = at[g]
        <5>1. at'[g] = at[g] + 1
          BY <1>2, <3>6, Zenon
        <5> QED  BY <1>1, <5>1
      <4>2. dd[i].place = Len(calls[g]) /\ i + at'[g] = n + 2
        <5>1. at[g] \in Nat /\ n \in Nat
          BY <1>1, <1>8
        <5>2. i + at'[g] = n + 2
          BY <3>1, <4>1, <5>1
        <5> QED  BY <2>1, <3>1, <5>2
      <4>3. Replied(dd, i, at'[g] - 1)
        BY <3>5, <4>1
      <4>4. dd[i].round = rounds[g]
        BY <2>1, <2>2
      <4> QED  BY <3>6, <4>2, <4>3, <4>4
    <3>7. CASE ~Working(g)'
      <4>1. at[g] = dd[i].place
        BY <1>1, <1>2, <1>3, <2>1, <3>1, <3>7
      <4> QED  BY <3>5, <3>7, <4>1
    <3> QED  BY <3>6, <3>7
  <2>3. CASE d[i].round # rounds[g]
    BY <1>8, <1>12, <2>1, <2>3, RepliedStays
  <2> QED  BY <2>2, <2>3
<1> QED  BY <1>14, <1>15, <1>16, <1>17 DEF Dialogue, dd

LEMMA DialoguesStep == Typing /\ Dialogues /\ [Next]_vars => Dialogues'
<1> SUFFICES ASSUME Typing, Dialogues, [Next]_vars, NEW h \in Generation  PROVE Dialogue(h)'
  BY DEF Dialogues, Dialogue
<1>0. Dialogue(h)
  BY DEF Dialogues, Dialogue
<1>1. /\ rounds \in [Generation -> Nat] /\ step \in [Generation -> Steps]
      /\ calls \in [Generation -> Seq(Server \cup {NoServer})]
      /\ at \in [Generation -> Nat] /\ dialogue \in [Generation -> Seq(Said)]
  BY Plain
<1>2. CASE Quiet
  BY <1>0, <1>2, SameDialogue DEF Quiet
<1>3. ASSUME NEW g \in Generation, NEW asked \in Seq(Server \cup {NoServer}), Requesting(g,
   asked)
      PROVE  Dialogue(h)'
  <2>1. CASE h = g
    BY <1>3, <2>1, RequestingStep
  <2>2. CASE h # g
    <3>1. /\ dialogue'[h] = dialogue[h] /\ rounds'[h] = rounds[h] /\ calls'[h] = calls[h]
          /\ at'[h] = at[h] /\ (Working(h)' <=> Working(h))
      BY <1>1, <1>3, <2>2 DEF Requesting, Working
    <3> QED  BY <1>0, <3>1, SameDialogue
  <2> QED  BY <2>1, <2>2
<1>4. ASSUME NEW g \in Generation, Replying(g)  PROVE Dialogue(h)'
  <2>1. CASE h = g
    BY <1>4, <2>1, ReplyingStep
  <2>2. CASE h # g
    <3>1. /\ dialogue'[h] = dialogue[h] /\ rounds'[h] = rounds[h] /\ calls'[h] = calls[h]
          /\ at'[h] = at[h] /\ (Working(h)' <=> Working(h))
      BY <1>1, <1>4, <2>2 DEF Replying, Working
    <3> QED  BY <1>0, <3>1, SameDialogue
  <2> QED  BY <2>1, <2>2
<1> QED  BY <1>2, <1>3, <1>4, StepKinds

LEMMA DialoguesGive == Typing /\ Dialogues => DialogueComplete
<1> SUFFICES ASSUME Typing, Dialogues, NEW g \in Generation, step[g] = "asking"
             PROVE  /\ WellFormed(dialogue[g])
                    /\ \A r \in 1..rounds[g] : \E i \in DOMAIN dialogue[g] :
                         dialogue[g][i].role = "assistant" /\ dialogue[g][i].round = r
                    /\ Ordered(dialogue[g])
  BY DEF DialogueComplete, Ordered
<1>1. Ordered(dialogue[g]) /\ Rounds(g) /\ ResultsBelong(dialogue[g]) /\ Requests(g)
  BY DEF Dialogues
<1>2. ~Working(g)
  BY DEF Working
<1>3. WellFormed(dialogue[g])
  BY <1>1, <1>2 DEF WellFormed, ResultsBelong, Requests, Replied
<1> QED  BY <1>1, <1>3 DEF Rounds

\* When the model is asked again every tool call it made has exactly one result, in
\* the order of the calls, whatever failed, was retried or was not available
\* meanwhile (the loop of generateReply).
THEOREM DialoguesAreComplete == Spec => []DialogueComplete
<1>1. Init => Typing /\ Dialogues
  <2> SUFFICES ASSUME Init, NEW g \in Generation
               PROVE  Ordered(dialogue[g]) /\ Rounds(g) /\ ResultsBelong(dialogue[g]) /\ Requests(g)
    BY TypingInit DEF Dialogues
  <2>1. dialogue[g] = <<>> /\ rounds[g] = 0
    BY DEF Init
  <2> QED  BY <2>1 DEF Ordered, Rounds, ResultsBelong, Requests
<1>2. Typing /\ Dialogues /\ [Next]_vars => (Typing /\ Dialogues)'
  BY TypingStep, DialoguesStep
<1> QED  BY <1>1, <1>2, DialoguesGive, PTL DEF Spec

=============================================================================
