------------------------------ MODULE CommandQueue ------------------------------
(***************************************************************************)
(* The command lanes of the gateway (process/command-queue.ts), with the   *)
(* two users that make them hard: agent runs, which hold a slot of their   *)
(* session's lane while they wait for one of a global lane, cron jobs,     *)
(* which hold a slot of the cron lane around all of that, and the restart  *)
(* inside the process (cli/gateway-cli/run-loop.ts), which drains the      *)
(* lanes, waits, and resets them under tasks that may still be running.    *)
(*                                                                         *)
(* A command is one call of runEmbeddedPiAgent or one manual cron run.  It *)
(* descends through the lanes of its Path; <<c, k>> is its entry, and then *)
(* its task, in the k-th of them.  A task's id belongs to the current      *)
(* generation of its lane exactly while it is in the lane's active set, so *)
(* the model needs no generation numbers.                                  *)
(***************************************************************************)
EXTENDS Naturals, Sequences, FiniteSets, SequencesExt

CONSTANTS
    Commands,      \* runs and jobs, each called once
    CronJobs,      \* the commands that are manual cron runs
    Sessions,      \* session lanes; their names begin with "session:"
    SessionOf,     \* SessionOf[c] is the session a command works in
    LaneOrder,     \* the lanes in the order in which they are created
    Slots,         \* values of maxConcurrent the configuration may give
    MaxRestarts,   \* bound on restarts inside the process
    MaxReloads     \* bound on changes of the configuration

LaneNames == {"cron", "main", "nested"} \cup Sessions

ASSUME CommandQueueConstants ==
    /\ IsFiniteSet(Commands) /\ CronJobs \subseteq Commands
    /\ Sessions \cap {"cron", "main", "nested"} = {}
    /\ SessionOf \in [Commands -> Sessions]
    /\ LaneOrder \in Seq(LaneNames) /\ Range(LaneOrder) = LaneNames
    /\ Slots \subseteq Nat \ {0} /\ 1 \in Slots
    /\ MaxRestarts \in Nat /\ MaxReloads \in Nat

VARIABLES
    lanes,     \* per lane: its queue, its active task ids, maxConcurrent
    level,     \* level[c]: how far into its Path a command is
    status,    \* status[c]: what it does there
    phase,     \* of the gateway: "serving", "draining", "closing"
    waits,     \* what the restart still waits for: "tasks", "runs"
    waiting,   \* the task ids waitForActiveTasks was called with
    drained,   \* what the waits told the restart
    aborted,   \* commands whose abort signal has fired
    carried,   \* history: tasks active when lanes were reset
    cut,       \* history: those of them interrupted in their work
    restarts, reloads

vars == <<lanes, level, status, phase, waits, waiting, drained, aborted,
          carried, cut, restarts, reloads>>

(* gatewayDraining is set by markGatewayDraining and cleared by the reset. *)
gatewayDraining == phase # "serving"

(* Work in a slot: a body, or a cron job outside its agent run. *)
Working == {"held", "body"}

-----------------------------------------------------------------------------
(* resolveNestedAgentLane and resolveGlobalLane: which lane a run's work takes. *)
resolveNestedAgentLane(lane) == IF lane = "cron" THEN "nested" ELSE lane
resolveGlobalLane(lane) == IF lane = "cron" THEN "nested" ELSE lane

\* Mutant: the inner run of a cron job inherits the cron lane.
PathThroughCron(c) ==
    IF c \in CronJobs THEN <<"cron", SessionOf[c], "cron">> ELSE <<SessionOf[c], "main">>

(* The lanes a command holds, outermost first. *)
Path(c) ==
    IF c \in CronJobs
      THEN <<"cron", SessionOf[c], resolveGlobalLane(resolveNestedAgentLane("cron"))>>
      ELSE <<SessionOf[c], resolveGlobalLane("main")>>

LaneOf(id) == Path(id[1])[id[2]]

-----------------------------------------------------------------------------
(* The lanes, the levels and the statuses change together, in chains of    *)
(* synchronous calls: they are passed along as one record.                 *)

Here == [lanes |-> lanes, level |-> level, status |-> status]

Becomes(s) == lanes' = s.lanes /\ level' = s.level /\ status' = s.status

At(s, id, what) == [s EXCEPT !.level[id[1]] = id[2], !.status[id[1]] = what]

(* A promise is settled: its caller, one level up, goes on. *)
Return(s, id) ==
    At(s, <<id[1], id[2] - 1>>, IF id[2] = 1 THEN "over" ELSE "back")

\* Mutant: the comparison with maxConcurrent is off by one.
FreeSlotsOffByOne(ln) ==
    IF Cardinality(ln.active) <= ln.max THEN ln.max + 1 - Cardinality(ln.active) ELSE 0

FreeSlots(ln) ==
    IF Cardinality(ln.active) < ln.max THEN ln.max - Cardinality(ln.active) ELSE 0

(* pump: entries leave the queue for the free slots. *)
Pump(s, l) ==
    LET ln == s.lanes[l]
        n == Min({FreeSlots(ln), Len(ln.queue)})
        go == {ln.queue[i] : i \in 1..n}
        starts(c) == \E id \in go : id[1] = c
        pumped == [ln EXCEPT !.queue = SubSeq(@, n + 1, Len(@)), !.active = @ \cup go]
    IN  [s EXCEPT
          !.lanes[l] = pumped,
          !.status = [c \in Commands |->
              IF starts(c) THEN IF <<c, Len(Path(c))>> \in go THEN "body" ELSE "held"
                           ELSE s.status[c]]]

Push(s, id) ==
    [At(s, id, "queued") EXCEPT !.lanes[LaneOf(id)].queue = Append(@, id)]

(* drainLane.  The task of a session lane calls throwIfAborted and then    *)
(* enqueues for its global lane, before anything is awaited; either may    *)
(* refuse.  No session lane ever has more than one slot.                   *)
drainLane(s, l, refused) ==
    LET t == Pump(s, l)
        started == t.lanes[l].active \ s.lanes[l].active
        id == CHOOSE x \in started : TRUE
        inner == <<id[1], id[2] + 1>>
    IN  IF l \notin Sessions \/ started = {} THEN t
        ELSE IF id[1] \in refused THEN Return(t, inner)
        ELSE Pump(Push(t, inner), LaneOf(inner))

enqueueCommandInLane(s, id, refused) ==
    IF id[1] \in refused THEN Return(s, id) ELSE drainLane(Push(s, id), LaneOf(id), refused)

(* Who is turned away: everyone while the gateway drains, and the aborted. *)
Refused == IF gatewayDraining THEN Commands ELSE aborted

-----------------------------------------------------------------------------
(* hasPendingActiveTasks, for lanes s *)
Pending(s) == waiting \cap UNION {s.lanes[l].active : l \in LaneNames}

\* Mutant: the waiter is told as soon as one of its tasks has ended.
NotifyEarly(s) ==
    waits' = IF waiting \subseteq Pending(s) THEN waits ELSE waits \ {"tasks"}

(* notifyActiveTaskWaiters *)
Notify(s) == waits' = IF Pending(s) = {} THEN waits \ {"tasks"} ELSE waits

(* What the lanes' operations leave alone. *)
Gateway == <<phase, waiting, drained, carried, cut, restarts>>

(* A run or a manual cron run is asked for. *)
Call(c) ==
    /\ status[c] = "idle"
    /\ Becomes(enqueueCommandInLane(Here, <<c, 1>>, Refused))
    /\ UNCHANGED <<Gateway, waits, aborted, reloads>>

(* A cron job that has its slot comes to its agent run. *)
RunAgent(c) ==
    /\ status[c] = "held"
    /\ Becomes(enqueueCommandInLane(Here, <<c, 2>>, Refused))
    /\ UNCHANGED <<Gateway, waits, aborted, reloads>>

(* A task ends, well or not: completeTask, the waiters, pump, its promise. *)
(* A task of an earlier generation only settles its promise.               *)
Settle(c) ==
    LET id == <<c, level[c]>>
        l == LaneOf(id)
        freed == [Here EXCEPT !.lanes[l].active = @ \ {id}]
    IN  /\ status[c] \in Working \cup {"back"}
        /\ IF id \in lanes[l].active
             THEN /\ Notify(freed)
                  /\ Becomes(drainLane(Return(freed, id), l, Refused))
             ELSE /\ Becomes(Return(Here, id))
                  /\ UNCHANGED waits
        /\ UNCHANGED <<Gateway, aborted, reloads>>

(* The abort signal of a run fires; what runs or waits sees it later. *)
Abort(c) ==
    /\ status[c] \notin {"idle", "over"} /\ c \notin aborted
    /\ aborted' = aborted \cup {c}
    /\ UNCHANGED <<Gateway, lanes, level, status, waits, reloads>>

(* clearCommandLane, called for session lanes: what is queued is rejected. *)
clearCommandLane(l) ==
    LET gone == {id[1] : id \in Range(lanes[l].queue)}
    IN  /\ gone # {}
        /\ lanes' = [lanes EXCEPT ![l].queue = <<>>]
        /\ level' = [c \in Commands |-> IF c \in gone THEN level[c] - 1 ELSE level[c]]
        /\ status' = [c \in Commands |->
               IF c \notin gone THEN status[c] ELSE IF level[c] = 1 THEN "over" ELSE "back"]
        /\ UNCHANGED <<Gateway, waits, aborted, reloads>>

(* setCommandLaneConcurrency for the lanes of the configuration, on reload. *)
Reload(cron, main) ==
    LET s == drainLane([Here EXCEPT !.lanes["cron"].max = cron], "cron", Refused)
    IN  /\ reloads < MaxReloads
        /\ reloads' = reloads + 1
        /\ Becomes(drainLane([s EXCEPT !.lanes["main"].max = main], "main", Refused))
        /\ UNCHANGED <<Gateway, waits, aborted>>

-----------------------------------------------------------------------------
(* The restart inside the process *)

ActiveIds == UNION {lanes[l].active : l \in LaneNames}

(* request: intake stops; the tasks active now are waited for, and so are  *)
(* the embedded runs, whose registry is not part of the lanes.             *)
RequestRestart ==
    /\ phase = "serving" /\ restarts < MaxRestarts
    /\ restarts' = restarts + 1
    /\ waiting' = ActiveIds
    /\ \E runs \in SUBSET {"runs"} :
         waits' = runs \cup (IF ActiveIds = {} THEN {} ELSE {"tasks"})
    /\ phase' = "draining"
    /\ UNCHANGED <<lanes, level, status, drained, aborted, carried, cut, reloads>>

(* waitForActiveEmbeddedRuns finds no run. *)
RunsDrained ==
    /\ phase = "draining" /\ waits' = waits \ {"runs"} /\ waits' # waits
    /\ UNCHANGED <<Gateway, lanes, level, status, aborted, reloads>>

(* "all active work drained", or the time for it is over. *)
StopWaiting ==
    /\ phase = "draining"
    /\ phase' = "closing" /\ drained' = (waits = {}) /\ waits' = {}
    /\ UNCHANGED <<lanes, level, status, waiting, aborted, carried, cut, restarts, reloads>>

Idle == [l \in LaneNames |-> [lanes[l] EXCEPT !.active = {}]]

\* Mutant: the lanes are reset and wait for the next call to be drained.
ResetOnly ==
    /\ phase = "closing"
    /\ phase' = "serving" /\ waiting' = {} /\ drained' = FALSE
    /\ lanes' = Idle
    /\ carried' = carried \cup ActiveIds
    /\ cut' = cut \cup {<<c, level[c]>> : c \in {d \in Commands : status[d] \in Working}}
    /\ UNCHANGED <<level, status, waits, aborted, restarts, reloads>>

(* drainLane for one lane after the other, all of them being idle. *)
Redrained ==
    LET after[i \in 0..Len(LaneOrder)] ==
          IF i = 0 THEN [Here EXCEPT !.lanes = Idle]
                   ELSE drainLane(after[i - 1], LaneOrder[i], aborted)
    IN  after[Len(LaneOrder)]

(* The server is closed and the loop begins again with resetAllLanes. *)
resetAllLanes ==
    /\ phase = "closing"
    /\ phase' = "serving" /\ waiting' = {} /\ drained' = FALSE
    /\ Becomes(Redrained)
    /\ carried' = carried \cup ActiveIds
    /\ cut' = cut \cup {<<c, level[c]>> : c \in {d \in Commands : status[d] \in Working}}
    /\ UNCHANGED <<waits, aborted, restarts, reloads>>

-----------------------------------------------------------------------------
Lane(max) == [queue |-> <<>>, active |-> {}, max |-> max]

Init ==
    /\ \E cron, main \in Slots :
         lanes = [l \in LaneNames |->
                    Lane(IF l = "cron" THEN cron ELSE IF l = "main" THEN main ELSE 1)]
    /\ level = [c \in Commands |-> 0] /\ status = [c \in Commands |-> "idle"]
    /\ phase = "serving" /\ waits = {} /\ waiting = {} /\ drained = FALSE
    /\ aborted = {} /\ carried = {} /\ cut = {}
    /\ restarts = 0 /\ reloads = 0

Next ==
    \/ \E c \in Commands : Call(c) \/ RunAgent(c) \/ Settle(c) \/ Abort(c)
    \/ \E s \in Sessions : clearCommandLane(s)
    \/ \E cron, main \in Slots : Reload(cron, main)
    \/ RequestRestart \/ RunsDrained \/ StopWaiting
    \/ resetAllLanes

Spec == Init /\ [][Next]_vars

(* Weak fairness of Settle(c) \/ RunAgent(c), enabled exactly while the    *)
(* command works or is on its way back and was not interrupted, and of     *)
(* resetAllLanes, enabled exactly while the server closes: written out,    *)
(* because what these steps do is costly to evaluate for ENABLED.          *)
Busy(c) == <<c, level[c]>> \notin cut /\ status[c] \in Working \cup {"back"}

Fair(c) == []<>~Busy(c) \/ []<><<Settle(c) \/ RunAgent(c)>>_vars

(* Runs and jobs have timeouts and so end, except those a restart has      *)
(* interrupted; the drain has a timer; the server closes.                  *)
FairSpec ==
    /\ Spec
    /\ \A c \in Commands : Fair(c)
    /\ WF_vars(StopWaiting)
    /\ WF_phase(phase = "closing" /\ phase' = "serving")

-----------------------------------------------------------------------------
(* Properties *)

(* A task is really under way while its command is at or below its level. *)
UnderWay(id) ==
    /\ level[id[1]] >= id[2]
    /\ ~(level[id[1]] = id[2] /\ status[id[1]] = "queued")

(* No entry waits in a lane that has a free slot: whatever ends, is        *)
(* cleared, reconfigured or reset, drainLane has been called for it (the   *)
(* comment of resetAllLanes: "a future enqueueCommandInLane() call (which  *)
(* may never come)").                                                      *)
NoIdleSlot ==
    \A l \in LaneNames : lanes[l].queue # <<>> => FreeSlots(lanes[l]) = 0

(* Two runs of one session are past its lane at once only when one of them *)
(* held its slot at a restart: "serialize command executions".             *)
SessionTask(c) == <<c, Len(Path(c)) - 1>>

SessionSerial ==
    \A c, d \in Commands :
        /\ c # d /\ SessionOf[c] = SessionOf[d]
        /\ UnderWay(SessionTask(c)) /\ UnderWay(SessionTask(d))
        => {SessionTask(c), SessionTask(d)} \cap carried # {}

(* When the restart is told that the active work is drained, every task    *)
(* that was active when it asked has ended, at whichever level it was and  *)
(* whatever was started, cleared or refused in between.                    *)
DrainedIsTrue ==
    phase = "closing" /\ drained => \A id \in waiting : ~UnderWay(id)

(* Every run and every job that was called is settled, though a run waits  *)
(* for a slot while it holds one (the comment in resolveGlobalLane: "inner *)
(* operations must use nested to avoid deadlock"); only those interrupted  *)
(* by a restart may stay open.                                             *)
CalledIsSettled ==
    \A c \in Commands : (status[c] # "idle") ~> (status[c] = "over" \/ \E k \in 1..3 : <<c, k>> \in cut)
=============================================================================
