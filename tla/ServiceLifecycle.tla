-------------------------- MODULE ServiceLifecycle --------------------------
(***************************************************************************)
(* The life of the service process (src/feishu-service.ts): main,          *)
(* runFeishuService, the signal handlers of createAbortSignal, the close   *)
(* function an abort starts, and process.exit.                             *)
(*                                                                         *)
(* An abort runs its listeners synchronously: first close, up to its first *)
(* await, then the one that lets runFeishuService return.  From there main *)
(* reaches process.exit(0) in two microtasks, whereas close needs a timer  *)
(* (while requests are in flight) or three microtasks to get to            *)
(* saveStateFiles; while the service is serving, abort and exit are        *)
(* therefore one step.                                                     *)
(*                                                                         *)
(* A request is a message on its way through handleMessage, the aggregator *)
(* and a pipeline, reduced to what shutting down has to do with it.        *)
(*                                                                         *)
(* Its LifeInit, LifeNext and the like have names of their own so that     *)
(* ProcessProofs can extend this module together with MessageDedupe.       *)
(***************************************************************************)
EXTENDS FiniteSets

CONSTANTS
  Request,  \* the messages the WebSocket delivers
  Signals   \* the signals with a handler: SIGINT and SIGTERM

VARIABLES
  phase,     \* the await main is suspended in, see Phases
  caught,    \* the signals whose once-handler has been used up
  exitCode,  \* how the process ended
  closing,   \* the await close is suspended in, see CloseSteps
  overdue,   \* the 30 seconds close waits for requests have passed
  request,   \* request[r]: where r is
  unsaved,   \* the save timer is armed: the state files are out of date
  owed       \* the requests that were buffered or in flight at the abort

lifeVars == <<phase, caught, exitCode, closing, overdue, request, unsaved, owed>>

\* "booting":    loadStateFiles, loadConfig and initializeMemoryStore.
\* "probing":    fetchBotIdentity.      "connecting": McpHub.openAiTools.
\* "starting":   wsClient.start.        "serving":    waiting for the abort.
Phases == {"booting", "probing", "connecting", "starting", "serving", "exited"}
ExitCodes == {"none", "ok", "forced", "failed", "killed"}

\* "draining": the wait for requests; "mcp", "memory": the two closes;
\* "broken": the memory pool could not be closed and close rejected.
CloseSteps == {"no", "draining", "mcp", "memory", "complete", "broken"}
RequestStates == {"none", "handling", "buffered", "inFlight", "over"}

Aborted == caught # {}
Running == phase # "exited"
At(where) == {r \in Request : request[r] = where}

LifeInit ==
  /\ phase = "booting"
  /\ caught = {}
  /\ exitCode = "none"
  /\ closing = "no"
  /\ overdue = FALSE
  /\ request = [r \in Request |-> "none"]
  /\ unsaved = FALSE
  /\ owed = {}

-----------------------------------------------------------------------------
(* main and runFeishuService *)

\* Mutation of Exit: process.exitCode is set instead of calling process.exit.
ExitCodeOnly(code) == exitCode' = code /\ UNCHANGED phase

Exit(code) == phase' = "exited" /\ exitCode' = code

\* The memory store is ready, or given up; the signal handlers are installed.
MemoryReady ==
  /\ phase = "booting" /\ phase' = "probing"
  /\ UNCHANGED <<caught, exitCode, closing, overdue, request, unsaved, owed>>

\* fetchBotIdentity is over (its failure is caught) and openAiTools is called.
IdentityProbed ==
  /\ phase = "probing" /\ phase' = "connecting"
  /\ UNCHANGED <<caught, exitCode, closing, overdue, request, unsaved, owed>>

\* The globals and the dispatcher are set up, the abort listener that closes
\* the service is added, too late for an abort that has happened already, and
\* wsClient.start is called.
McpReady ==
  /\ phase = "connecting" /\ phase' = "starting"
  /\ UNCHANGED <<caught, exitCode, closing, overdue, request, unsaved, owed>>

\* wsClient.start returned: wait for the abort, or return after one.
WebSocketStarted ==
  /\ phase = "starting"
  /\ IF Aborted THEN Exit("ok") ELSE phase' = "serving" /\ UNCHANGED exitCode
  /\ UNCHANGED <<caught, closing, overdue, request, unsaved, owed>>

\* The configuration is unusable, or the WebSocket client cannot be started:
\* main rejects.
StartFails ==
  /\ phase \in {"booting", "connecting", "starting"}
  /\ Exit("failed")
  /\ UNCHANGED <<caught, closing, overdue, request, unsaved, owed>>

\* An uncaught exception.
Crash ==
  /\ Running
  /\ Exit("failed")
  /\ UNCHANGED <<caught, closing, overdue, request, unsaved, owed>>

-----------------------------------------------------------------------------
(* Signals and close *)

\* Mutation of Close: it does not wait for requests.
CloseAtOnce ==
  /\ request' = [r \in Request |-> IF request[r] = "buffered" THEN "inFlight"
                                   ELSE request[r]]
  /\ owed' = At("buffered") \cup At("inFlight")
  /\ closing' = "mcp"

\* close up to its first await: the aggregator is flushed, then the requests in
\* flight are waited for, or the WebSocket and the MCP clients are closed.
Close ==
  /\ request' = [r \in Request |-> IF request[r] = "buffered" THEN "inFlight"
                                   ELSE request[r]]
  /\ owed' = At("buffered") \cup At("inFlight")
  /\ closing' = IF owed' # {} THEN "draining" ELSE "mcp"

\* A signal arrives.  It has no handler before createAbortSignal ran and after
\* its handler was used; the first of the two signals aborts.
Signal(s) ==
  /\ Running
  /\ IF phase = "booting" \/ s \in caught
     THEN Exit("killed") /\ UNCHANGED <<caught, closing, request, owed>>
     ELSE /\ caught' = caught \cup {s}
          /\ IF phase \in {"starting", "serving"} /\ ~Aborted
             THEN Close ELSE UNCHANGED <<closing, request, owed>>
          /\ IF phase = "serving" THEN Exit("ok") ELSE UNCHANGED <<phase, exitCode>>
  /\ UNCHANGED <<overdue, unsaved>>

\* Mutation of ForceExit: the timer is armed when close has come to its end.
ForceExitAfterClose ==
  /\ Running /\ Aborted /\ closing = "complete"
  /\ Exit("forced")
  /\ UNCHANGED <<caught, closing, overdue, request, unsaved, owed>>

\* The timer of 35 seconds an abort arms.
ForceExit ==
  /\ Running /\ Aborted
  /\ Exit("forced")
  /\ UNCHANGED <<caught, closing, overdue, request, unsaved, owed>>

DeadlinePasses ==
  /\ Running /\ closing = "draining" /\ ~overdue
  /\ overdue' = TRUE
  /\ UNCHANGED <<phase, caught, exitCode, closing, request, unsaved, owed>>

\* The next poll of close finds nothing in flight, or the time is up.
Drained ==
  /\ Running /\ closing = "draining"
  /\ At("inFlight") = {} \/ overdue
  /\ closing' = "mcp"
  /\ UNCHANGED <<phase, caught, exitCode, overdue, request, unsaved, owed>>

McpClosed ==
  /\ Running /\ closing = "mcp"
  /\ closing' = "memory"
  /\ UNCHANGED <<phase, caught, exitCode, overdue, request, unsaved, owed>>

\* The pool is closed and saveStateFiles runs, or the pool rejects and it
\* does not.
MemoryClosed ==
  /\ Running /\ closing = "memory"
  /\ \/ closing' = "complete" /\ unsaved' = FALSE
     \/ closing' = "broken" /\ UNCHANGED unsaved
  /\ UNCHANGED <<phase, caught, exitCode, overdue, request, owed>>

-----------------------------------------------------------------------------
(* Requests *)

\* Mutation of Arrive: the callback does not look at shutdownRequested.
ArriveAnyway(r) ==
  /\ phase \in {"starting", "serving"} /\ request[r] = "none"
  /\ request' = [request EXCEPT ![r] = "handling"]
  /\ UNCHANGED <<phase, caught, exitCode, closing, overdue, unsaved, owed>>

\* The WebSocket callback, which drops everything once a signal was received.
Arrive(r) ==
  /\ phase \in {"starting", "serving"} /\ ~Aborted /\ request[r] = "none"
  /\ request' = [request EXCEPT ![r] = "handling"]
  /\ UNCHANGED <<phase, caught, exitCode, closing, overdue, unsaved, owed>>

\* handleMessage ends: the message is in the aggregator, started a pipeline at
\* once, or needs none; its finally block schedules a save.
RequestHandled(r) ==
  /\ Running /\ request[r] = "handling"
  /\ \E next \in {"buffered", "inFlight", "over"} :
       request' = [request EXCEPT ![r] = next]
  /\ unsaved' = TRUE
  /\ UNCHANGED <<phase, caught, exitCode, closing, overdue, owed>>

\* The aggregation timer starts the pipeline.
Flushed(r) ==
  /\ Running /\ request[r] = "buffered"
  /\ request' = [request EXCEPT ![r] = "inFlight"]
  /\ UNCHANGED <<phase, caught, exitCode, closing, overdue, unsaved, owed>>

\* The pipeline ends: with an answer in the history, or without one.
Ended(r) ==
  /\ Running /\ request[r] = "inFlight"
  /\ request' = [request EXCEPT ![r] = "over"]
  /\ unsaved' \in {unsaved, TRUE}
  /\ UNCHANGED <<phase, caught, exitCode, closing, overdue, owed>>

\* The save timer fires.
FilesSaved ==
  /\ Running /\ unsaved
  /\ unsaved' = FALSE
  /\ UNCHANGED <<phase, caught, exitCode, closing, overdue, request, owed>>

-----------------------------------------------------------------------------
(* The specification *)

LifeNext ==
  \/ MemoryReady \/ IdentityProbed \/ McpReady \/ WebSocketStarted
  \/ StartFails \/ Crash \/ ForceExit
  \/ \E s \in Signals : Signal(s)
  \/ DeadlinePasses \/ Drained \/ McpClosed \/ MemoryClosed
  \/ \E r \in Request : Arrive(r) \/ RequestHandled(r) \/ Flushed(r) \/ Ended(r)
  \/ FilesSaved

LifeSpec == LifeInit /\ [][LifeNext]_lifeVars

\* The force-exit timer and the two timers of close fire; no network call is
\* assumed to return.
Fairness == WF_lifeVars(ForceExit) /\ WF_lifeVars(DeadlinePasses) /\ WF_lifeVars(Drained)

FairSpec == LifeSpec /\ Fairness

-----------------------------------------------------------------------------
(* Properties *)

\* The types; a process has ended exactly when it has an exit code.
LifeTypeOK ==
  /\ phase \in Phases
  /\ caught \subseteq Signals
  /\ exitCode \in ExitCodes
  /\ Running <=> exitCode = "none"
  /\ closing \in CloseSteps
  /\ overdue \in BOOLEAN
  /\ request \in [Request -> RequestStates]
  /\ unsaved \in BOOLEAN
  /\ owed \subseteq Request

\* Where close runs on, it takes the MCP clients and the memory store away only
\* from requests that came after the abort: those that were buffered or in
\* flight then are over, or had their 30 seconds.
ClosedAfterRequests ==
  closing \in {"mcp", "memory", "complete", "broken"} =>
    overdue \/ \A r \in owed : request[r] = "over"

\* The requests owed at the abort are in a pipeline, or were: what the two
\* properties above and below rest on.
OwedInPipeline ==
  /\ closing # "no" => Aborted
  /\ owed # {} => closing # "no"
  /\ \A r \in owed : request[r] \in {"inFlight", "over"}

\* After a signal no message is taken in, whatever phase the signal met, and
\* close is started at most once however many signals come.
NothingAfterSignal ==
  [][Aborted => /\ At("none")' = At("none")
                /\ owed' = owed]_lifeVars

\* A signal ends the process, also while the start or close hangs.
SignalEnds == Aborted ~> phase = "exited"

\* "graceful shutdown: waiting for ... in-flight request(s)": a process that
\* ends by itself after a signal, before the force-exit timer, has waited for
\* the requests it owed an answer when the signal came, or for 30 seconds.
GracefulExit ==
  exitCode = "ok" => overdue \/ \A r \in owed : request[r] = "over"

=============================================================================
