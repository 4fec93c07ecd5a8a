----------------------------- MODULE ToolCalls -----------------------------
(***************************************************************************)
(* Generating an answer with tools (src/feishu-service.ts): McpHub, which  *)
(* connects the configured MCP servers once and forwards tool calls with   *)
(* retries, and the loop of generateReply, which asks the model, runs the  *)
(* tools it requests and asks again.                                       *)
(*                                                                         *)
(* A generation is one call of generateReply.  Generations of different    *)
(* pipelines, and zombies of pipelines that timed out, run side by side on *)
(* one hub.  A tool call is identified by its round and its place in the   *)
(* response; which tool it names is reduced to the server the tool belongs *)
(* to, or NoServer for a name the hub does not know.                       *)
(***************************************************************************)
EXTENDS Integers, Sequences, FiniteSets, SequencesExt

CONSTANTS
  Generation,   \* the calls of generateReply
  Server,       \* the enabled MCP servers
  NoServer,     \* a tool name without a binding
  MaxRounds,    \* MAX_TOOL_ROUNDS
  MaxAttempts,  \* MCP_TOOL_MAX_ATTEMPTS
  MaxCalls      \* bound of the model: tool calls in one response

ASSUME BoundsType ==
  MaxRounds \in Nat /\ MaxAttempts \in Nat \ {0} /\ MaxCalls \in Nat \ {0}
ASSUME NoServerType == NoServer \notin Server /\ "nothing" \notin Server

VARIABLES
  tried,     \* the servers initialize has begun with
  trying,    \* the await initialize is suspended in for the last of them
  clients,   \* McpHub.clients
  bindings,  \* the servers with tools in McpHub.bindings
  step,      \* step[g]: the await g is suspended in, see Steps
  rounds,    \* rounds[g]: toolRounds
  calls,     \* calls[g]: the servers of the calls of this round, see ToolsAsked
  at,        \* at[g]: the place of the call being worked on
  attempt,   \* attempt[g]: its attempt
  runs,      \* runs[g]: how often the server carried it out
  outcome,   \* outcome[g]: whether it succeeded
  dialogue,  \* dialogue[g]: what generateReply has pushed onto messages
  rows       \* rows[g]: the rows of lb_tool_calls written for g

hub == <<tried, trying, clients, bindings>>
call == <<at, attempt, runs, outcome>>
vars == <<hub, step, rounds, calls, call, dialogue, rows>>

\* "asking": the model.  "calling": the tool.  "resting": the sleep before the
\* next attempt.  "noting": recordToolCall.
Steps == {"idle", "asking", "calling", "resting", "noting", "answered", "stopped",
          "failed"}

Init ==
  /\ tried = {} /\ trying = "nothing" /\ clients = {} /\ bindings = {}
  /\ step = [g \in Generation |-> "idle"]
  /\ rounds = [g \in Generation |-> 0]
  /\ calls = [g \in Generation |-> <<>>]
  /\ at = [g \in Generation |-> 1]
  /\ attempt = [g \in Generation |-> 1]
  /\ runs = [g \in Generation |-> 0]
  /\ outcome = [g \in Generation |-> "none"]
  /\ dialogue = [g \in Generation |-> <<>>]
  /\ rows = [g \in Generation |-> <<>>]

-----------------------------------------------------------------------------
(* McpHub.initialize, which the service awaits before it starts *)

Initialized == tried = Server /\ trying = "nothing"

hubOnly == <<step, rounds, calls, call, dialogue, rows>>

\* The servers are connected one after the other.
Connect(s) ==
  /\ trying = "nothing" /\ s \notin tried
  /\ tried' = tried \cup {s}
  /\ trying' = s
  /\ UNCHANGED <<clients, bindings, hubOnly>>

\* The transport cannot be made, connecting fails or takes too long: the server
\* is left out for the life of the process, for initPromise is kept.
ConnectFails(s) ==
  /\ trying = s /\ s \notin clients
  /\ trying' = "nothing"
  /\ UNCHANGED <<tried, clients, bindings, hubOnly>>

\* Mutation of Connected: the client is registered when its tools are listed.
ConnectedUnregistered(s) ==
  /\ trying = s /\ s \notin clients
  /\ bindings' = bindings \cup {s}
  /\ trying' = "nothing"
  /\ UNCHANGED <<tried, clients, hubOnly>>

Connected(s) ==
  /\ trying = s /\ s \notin clients
  /\ clients' = clients \cup {s}
  /\ UNCHANGED <<tried, trying, bindings, hubOnly>>

\* listTools returns and the tools are bound, or fails and the server stays
\* connected without a tool.
Listed(s) ==
  /\ trying = s /\ s \in clients
  /\ bindings' \in {bindings, bindings \cup {s}}
  /\ trying' = "nothing"
  /\ UNCHANGED <<tried, clients, hubOnly>>

-----------------------------------------------------------------------------
(* generateReply *)

Goes(g, to) == step' = [step EXCEPT ![g] = to]

\* openAiTools and the context documents are at hand; the model is asked.
Begin(g) ==
  /\ Initialized /\ step[g] = "idle"
  /\ Goes(g, "asking")
  /\ UNCHANGED <<hub, rounds, calls, call, dialogue, rows>>

\* The model answers without a tool call.
ModelAnswers(g) ==
  /\ step[g] = "asking"
  /\ Goes(g, "answered")
  /\ UNCHANGED <<hub, rounds, calls, call, dialogue, rows>>

\* The request is refused, aborted after AGENT_B_TIMEOUT_MS, or broken off.
ModelFails(g) ==
  /\ step[g] = "asking"
  /\ Goes(g, "failed")
  /\ UNCHANGED <<hub, rounds, calls, call, dialogue, rows>>

\* The call at place i of g's round begins.
BeginCall(g, i) ==
  /\ at' = [at EXCEPT ![g] = i]
  /\ attempt' = [attempt EXCEPT ![g] = 1]
  /\ runs' = [runs EXCEPT ![g] = 0]
  /\ outcome' = [outcome EXCEPT ![g] = "none"]

\* The model requests tools.  After MaxRounds rounds generateReply gives up;
\* else the request enters the dialogue and its first call begins.
ModelRequestsTools(g) ==
  /\ step[g] = "asking"
  /\ IF rounds[g] >= MaxRounds
     THEN Goes(g, "stopped") /\ UNCHANGED <<rounds, calls, call, dialogue>>
     ELSE /\ rounds' = [rounds EXCEPT ![g] = @ + 1]
          /\ \E asked \in SeqOf(Server \cup {NoServer}, MaxCalls) :
               /\ asked # <<>>
               /\ calls' = [calls EXCEPT ![g] = asked]
               /\ dialogue' = [dialogue EXCEPT ![g] =
                    Append(@, [role |-> "assistant", round |-> rounds'[g],
                               place |-> Len(asked)])]
          /\ BeginCall(g, 1)
          /\ Goes(g, "calling")
  /\ UNCHANGED <<hub, rows>>

\* Mutation of Result: a result is not pushed when the call has failed.
ResultIfSucceeded(g) ==
  /\ dialogue' = IF outcome[g] = "success"
                 THEN [dialogue EXCEPT ![g] =
                   Append(@, [role |-> "tool", round |-> rounds[g], place |-> at[g]])]
                 ELSE dialogue
  /\ IF at[g] < Len(calls[g])
     THEN BeginCall(g, at[g] + 1) /\ Goes(g, "calling")
     ELSE UNCHANGED call /\ Goes(g, "asking")

\* The result enters the dialogue; then the next call of the round begins, or
\* the model is asked again.
Result(g) ==
  /\ dialogue' = [dialogue EXCEPT ![g] =
       Append(@, [role |-> "tool", round |-> rounds[g], place |-> at[g]])]
  /\ IF at[g] < Len(calls[g])
     THEN BeginCall(g, at[g] + 1) /\ Goes(g, "calling")
     ELSE UNCHANGED call /\ Goes(g, "asking")

-----------------------------------------------------------------------------
(* McpHub.callOpenAiTool *)

Target(g) == calls[g][at[g]]

\* The tool is not known: the model is told so, and no row is written.
ToolMissing(g) ==
  /\ step[g] = "calling" /\ Target(g) \notin bindings
  /\ Result(g)
  /\ UNCHANGED <<hub, rounds, calls, rows>>

ToolSucceeds(g) ==
  /\ step[g] = "calling" /\ Target(g) \in bindings
  /\ runs' = [runs EXCEPT ![g] = @ + 1]
  /\ outcome' = [outcome EXCEPT ![g] = "success"]
  /\ Goes(g, "noting")
  /\ UNCHANGED <<hub, rounds, calls, at, attempt, dialogue, rows>>

\* callTool rejects, by an error or a timeout, before or after the server has
\* carried the call out; the last attempt makes the call failed.
ToolFails(g) ==
  /\ step[g] = "calling" /\ Target(g) \in bindings
  /\ runs' \in {runs, [runs EXCEPT ![g] = @ + 1]}
  /\ IF attempt[g] >= MaxAttempts
     THEN Goes(g, "noting") /\ outcome' = [outcome EXCEPT ![g] = "failed"]
     ELSE Goes(g, "resting") /\ UNCHANGED outcome
  /\ UNCHANGED <<hub, rounds, calls, at, attempt, dialogue, rows>>

\* Mutation of Rested: the attempt is not counted.
RestedUncounted(g) ==
  /\ step[g] = "resting" /\ runs[g] <= MaxAttempts
  /\ Goes(g, "calling")
  /\ UNCHANGED <<hub, rounds, calls, call, dialogue, rows>>

Rested(g) ==
  /\ step[g] = "resting"
  /\ attempt' = [attempt EXCEPT ![g] = @ + 1]
  /\ Goes(g, "calling")
  /\ UNCHANGED <<hub, rounds, calls, at, runs, outcome, dialogue, rows>>

\* recordToolCall wrote its row, or could not, or there is no turn to write it
\* for; either way the result is returned.
Noted(g) ==
  /\ step[g] = "noting"
  /\ \/ UNCHANGED rows
     \/ rows' = [rows EXCEPT ![g] =
          Append(@, [round |-> rounds[g], place |-> at[g], status |-> outcome[g],
                     attempts |-> attempt[g], runs |-> runs[g]])]
  /\ Result(g)
  /\ UNCHANGED <<hub, rounds, calls>>

-----------------------------------------------------------------------------
(* The specification *)

Next ==
  \/ \E s \in Server : Connect(s) \/ ConnectFails(s) \/ Connected(s) \/ Listed(s)
  \/ \E g \in Generation :
       \/ Begin(g) \/ ModelAnswers(g) \/ ModelFails(g) \/ ModelRequestsTools(g)
       \/ ToolMissing(g) \/ ToolSucceeds(g) \/ ToolFails(g) \/ Rested(g) \/ Noted(g)

Spec == Init /\ [][Next]_vars

-----------------------------------------------------------------------------
(* Properties *)

\* The types; the counters stay within the limits of the code.
TypeOK ==
  /\ tried \subseteq Server /\ trying \in tried \cup {"nothing"}
  /\ clients \subseteq tried /\ bindings \subseteq tried
  /\ step \in [Generation -> Steps]
  /\ rounds \in [Generation -> 0..MaxRounds]
  /\ calls \in [Generation -> Seq(Server \cup {NoServer})]
  /\ at \in [Generation -> 1..MaxCalls]
  /\ attempt \in [Generation -> 1..MaxAttempts]
  /\ runs \in [Generation -> 0..MaxAttempts]
  /\ outcome \in [Generation -> {"none", "success", "failed"}]
  /\ dialogue \in [Generation -> Seq([role : {"assistant", "tool"},
                                      round : Nat, place : Nat])]

\* Every tool the model is offered belongs to a connected server: a server whose
\* listing failed, was slow, or which never connected is not offered.
OfferedIsConnected == bindings \subseteq clients

\* The result of the k-th call of a request, as generateReply pushes it.
ResultOf(request, k) == [role |-> "tool", round |-> request.round, place |-> k]

\* Every request of a dialogue is followed at once by one result for each of its
\* calls, in the order of the calls, and nothing but those is a result.
WellFormed(d) ==
  /\ \A i \in DOMAIN d : d[i].role = "assistant" =>
       \A k \in 1..d[i].place : i + k \in DOMAIN d /\ d[i + k] = ResultOf(d[i], k)
  /\ \A j \in DOMAIN d : d[j].role = "tool" =>
       \E i \in 1..j - 1 : /\ d[i].role = "assistant" /\ j - i <= d[i].place
                           /\ d[j] = ResultOf(d[i], j - i)

\* When the model is asked again every tool call it made has exactly one result,
\* whatever failed, was retried or was not available meanwhile, and each of the
\* rounds so far has its one request, in their order.
DialogueComplete ==
  \A g \in Generation : step[g] = "asking" =>
    /\ WellFormed(dialogue[g])
    /\ \A r \in 1..rounds[g] : \E i \in DOMAIN dialogue[g] :
         dialogue[g][i].role = "assistant" /\ dialogue[g][i].round = r
    /\ \A i, j \in DOMAIN dialogue[g] : i < j =>
         /\ dialogue[g][i].round <= dialogue[g][j].round
         /\ dialogue[g][j].role = "assistant" => dialogue[g][i].round < dialogue[g][j].round

\* A row of lb_tool_calls says what happened to its call: there is one at most,
\* a call noted as successful was carried out, and no call was carried out more
\* often than the attempts it is noted with.
RowsAreTrue ==
  \A g \in Generation : \A i, j \in DOMAIN rows[g] :
    /\ rows[g][i].status = "success" => rows[g][i].runs >= 1
    /\ rows[g][i].status = "failed" => rows[g][i].attempts = MaxAttempts
    /\ rows[g][i].runs <= rows[g][i].attempts
    /\ i < j => \/ rows[g][i].round < rows[g][j].round
                \/ /\ rows[g][i].round = rows[g][j].round
                   /\ rows[g][i].place < rows[g][j].place

=============================================================================
