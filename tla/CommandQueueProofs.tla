-------------------------- MODULE CommandQueueProofs --------------------------
(***************************************************************************)
(* Theorems about CommandQueue for every set of commands, sessions and     *)
(* cron jobs, every maxConcurrent and every number of restarts and reloads.*)
(*                                                                         *)
(* A step of CommandQueue is a chain of calls, each of which takes the     *)
(* lanes, the levels and the statuses from one record s to the next.  What *)
(* the chain keeps is therefore stated about such records, and each call   *)
(* is a lemma.                                                             *)
(***************************************************************************)
EXTENDS CommandQueue, FiniteSetTheorems, SequenceTheorems, WellFoundedInduction,
        NaturalsInduction, TLAPS

\* The entries and tasks there can be.
Ids == {id \in Commands \X (1 .. 3) : id[2] <= Len(Path(id[1]))}

Statuses == {"idle", "queued", "held", "body", "back", "over"}

LaneStates == [queue : Seq(Ids), active : SUBSET Ids, max : Nat \ {0}]

States ==
  [lanes : [LaneNames -> LaneStates],
   level : [Commands -> 0 .. 3],
   status : [Commands -> Statuses]]

\* UnderWay, in the record s.
Under(s, id) ==
  /\ s.level[id[1]] >= id[2]
  /\ ~(s.level[id[1]] = id[2] /\ s.status[id[1]] = "queued")

\* A command is at no level exactly before its call and after its end.
LevelsFit(s) ==
  \A c \in Commands :
    /\ s.level[c] <= Len(Path(c))
    /\ s.level[c] = 0 <=> s.status[c] \in {"idle", "over"}

\* A lane's queue holds entries of its own, each once, of queued commands.
QueuesFit(s) ==
  \A l \in LaneNames : \A i \in 1 .. Len(s.lanes[l].queue) :
    LET id == s.lanes[l].queue[i]
    IN  /\ LaneOf(id) = l
        /\ s.level[id[1]] = id[2] /\ s.status[id[1]] = "queued"
        /\ \A j \in 1 .. Len(s.lanes[l].queue) : s.lanes[l].queue[j] = id => i = j

\* What is active in a lane is a task of its own that is under way.
ActiveFit(s) ==
  \A l \in LaneNames : \A id \in s.lanes[l].active : LaneOf(id) = l /\ Under(s, id)

\* The lane of a session has one slot.
OneSlot(s) ==
  \A l \in Sessions :
    /\ s.lanes[l].max = 1
    /\ \A x, y \in s.lanes[l].active : x = y

Consistent(s) ==
  s \in States /\ LevelsFit(s) /\ QueuesFit(s) /\ ActiveFit(s) /\ OneSlot(s)

\* Between two steps only cron jobs are held: the task of a session's lane goes
\* on to its global lane before anything is awaited.
Calm(s) == \A c \in Commands : s.status[c] = "held" => c \in CronJobs /\ s.level[c] = 1

\* A task that is under way is active in its lane, or in K.
Owned(s, K) ==
  \A id \in Ids : Under(s, id) /\ id \notin K => id \in s.lanes[LaneOf(id)].active

\* Nothing waits in l while it has a free slot.
Full(s, l) == s.lanes[l].queue # <<>> => FreeSlots(s.lanes[l]) = 0

\* The tasks W that are waited for are active or have ended for good.
Awaited(s, W) ==
  \A id \in W : id \in s.lanes[LaneOf(id)].active \/ s.level[id[1]] < id[2]

\* None of W is active.
Apart(s, W) == \A l \in LaneNames : W \cap s.lanes[l].active = {}

LaneInvariant ==
  /\ Consistent(Here) /\ Calm(Here) /\ Owned(Here, carried)
  /\ \A l \in LaneNames : Full(Here, l)

WaitInvariant ==
  /\ phase \in {"serving", "draining", "closing"}
  /\ waiting \subseteq Ids
  /\ phase # "serving" => Awaited(Here, waiting)
  /\ phase = "draining" /\ "tasks" \notin waits => Apart(Here, waiting)
  /\ phase = "closing" /\ drained => Apart(Here, waiting)

-----------------------------------------------------------------------------
(* Paths and lanes *)

LEMMA PathLength ==
  ASSUME NEW c \in Commands
  PROVE  /\ c \in CronJobs => Len(Path(c)) = 3
         /\ c \notin CronJobs => Len(Path(c)) = 2
BY DEF Path

LEMMA IdParts ==
  ASSUME NEW id \in Ids
  PROVE  /\ id[1] \in Commands /\ id[2] \in 1 .. 3 /\ id = <<id[1], id[2]>>
         /\ id[2] <= Len(Path(id[1]))
BY DEF Ids

LEMMA IdMade ==
  ASSUME NEW c \in Commands, NEW k \in 1 .. 3, k <= Len(Path(c))
  PROVE  <<c, k>> \in Ids
BY DEF Ids

\* The lane of a session is the last but one of a path; the cron lane is the
\* first of a cron job's; the last is "main" or "nested".
LEMMA LaneFacts ==
  ASSUME NEW id \in Ids
  PROVE  /\ LaneOf(id) \in LaneNames
         /\ LaneOf(id) \in Sessions <=> id[2] = Len(Path(id[1])) - 1
         /\ LaneOf(id) = "cron" <=> id[1] \in CronJobs /\ id[2] = 1
         /\ id[2] = Len(Path(id[1])) => LaneOf(id) \in {"main", "nested"}
<1> DEFINE c == id[1]  k == id[2]
<1>1. c \in Commands /\ k \in 1 .. 3 /\ k <= Len(Path(c))
  BY IdParts
<1>2. SessionOf[c] \in Sessions /\ Sessions \cap {"cron", "main", "nested"} = {}
  BY <1>1, CommandQueueConstants
<1>3. LaneOf(id) = Path(c)[k]
  BY DEF LaneOf
<1> HIDE DEF c, k
<1>4. CASE c \in CronJobs
  <2>1. Path(c) = <<"cron", SessionOf[c], "nested">> /\ Len(Path(c)) = 3
    BY <1>4 DEF Path, resolveGlobalLane, resolveNestedAgentLane
  <2>2. k = 1 \/ k = 2 \/ k = 3
    BY <1>1
  <2> QED  BY <1>1, <1>2, <1>3, <1>4, <2>1, <2>2 DEF LaneNames, c, k
<1>5. CASE c \notin CronJobs
  <2>1. Path(c) = <<SessionOf[c], "main">> /\ Len(Path(c)) = 2
    BY <1>5 DEF Path, resolveGlobalLane
  <2>2. k = 1 \/ k = 2
    BY <1>1, <2>1
  <2> QED  BY <1>1, <1>2, <1>3, <1>5, <2>1, <2>2 DEF LaneNames, c, k
<1> QED  BY <1>4, <1>5

LEMMA IdsFinite == IsFiniteSet(Ids)
<1>1. IsFiniteSet(1 .. 3)
  <2>1. 1 \in Int /\ 3 \in Int
    OBVIOUS
  <2> QED  BY <2>1, FS_Interval
<1>2. IsFiniteSet(Commands \X (1 .. 3))
  BY <1>1, FS_Product, CommandQueueConstants
<1> QED  BY <1>2, FS_Subset DEF Ids

-----------------------------------------------------------------------------
(* What pump does to the record *)

LEMMA MinOfTwo ==
  ASSUME NEW a \in Nat, NEW b \in Nat
  PROVE  Min({a, b}) = IF a <= b THEN a ELSE b
BY DEF Min

LEMMA StateParts ==
  ASSUME NEW s \in States, NEW l \in LaneNames
  PROVE  /\ s.lanes[l].queue \in Seq(Ids)
         /\ s.lanes[l].active \subseteq Ids /\ IsFiniteSet(s.lanes[l].active)
         /\ s.lanes[l].max \in Nat \ {0}
<1>1. s.lanes[l] \in LaneStates
  BY DEF States
<1>2. /\ s.lanes[l].queue \in Seq(Ids) /\ s.lanes[l].active \subseteq Ids
      /\ s.lanes[l].max \in Nat \ {0}
  BY <1>1 DEF LaneStates
<1>3. IsFiniteSet(s.lanes[l].active)
  BY <1>2, IdsFinite, FS_Subset
<1> QED  BY <1>2, <1>3

\* How many entries leave the queue, and which.
Taken(s, l) == Min({FreeSlots(s.lanes[l]), Len(s.lanes[l].queue)})
Starting(s, l) == {s.lanes[l].queue[i] : i \in 1 .. Taken(s, l)}

LEMMA FreeSlotsNat ==
  ASSUME NEW s \in States, NEW l \in LaneNames
  PROVE  /\ Cardinality(s.lanes[l].active) \in Nat
         /\ FreeSlots(s.lanes[l]) \in Nat
         /\ FreeSlots(s.lanes[l]) = 0 <=> Cardinality(s.lanes[l].active) >= s.lanes[l].max
         /\ FreeSlots(s.lanes[l]) # 0 =>
              FreeSlots(s.lanes[l]) + Cardinality(s.lanes[l].active) = s.lanes[l].max
<1>1. Cardinality(s.lanes[l].active) \in Nat /\ s.lanes[l].max \in Nat \ {0}
  BY StateParts, FS_CardinalityType
<1> QED  BY <1>1 DEF FreeSlots

LEMMA TakenParts ==
  ASSUME NEW s \in States, NEW l \in LaneNames
  PROVE  /\ Taken(s, l) \in 0 .. Len(s.lanes[l].queue)
         /\ Taken(s, l) <= FreeSlots(s.lanes[l])
         /\ Taken(s, l) = Len(s.lanes[l].queue) \/ Taken(s, l) = FreeSlots(s.lanes[l])
         /\ Starting(s, l) \subseteq Ids
<1>1. FreeSlots(s.lanes[l]) \in Nat /\ s.lanes[l].queue \in Seq(Ids)
      /\ Len(s.lanes[l].queue) \in Nat
  BY FreeSlotsNat, StateParts
<1>2. Taken(s, l) = IF FreeSlots(s.lanes[l]) <= Len(s.lanes[l].queue)
                      THEN FreeSlots(s.lanes[l]) ELSE Len(s.lanes[l].queue)
  BY <1>1, MinOfTwo DEF Taken
<1>3. /\ Taken(s, l) \in 0 .. Len(s.lanes[l].queue)
      /\ Taken(s, l) <= FreeSlots(s.lanes[l])
      /\ Taken(s, l) = Len(s.lanes[l].queue) \/ Taken(s, l) = FreeSlots(s.lanes[l])
  BY <1>1, <1>2
<1>4. \A i \in 1 .. Taken(s, l) : s.lanes[l].queue[i] \in Ids
  <2>1. ASSUME NEW i \in 1 .. Taken(s, l)  PROVE i \in 1 .. Len(s.lanes[l].queue)
    BY <1>1, <1>3
  <2> QED  BY <2>1, <1>1
<1> QED  BY <1>3, <1>4 DEF Starting

Pumped(s, l) ==
  [s.lanes[l] EXCEPT
     !.queue = SubSeq(@, Taken(s, l) + 1, Len(@)), !.active = @ \cup Starting(s, l)]

PumpStatus(s, l) ==
  [c \in Commands |->
     IF \E id \in Starting(s, l) : id[1] = c
       THEN IF <<c, Len(Path(c))>> \in Starting(s, l) THEN "body" ELSE "held"
       ELSE s.status[c]]

LEMMA PumpFields ==
  ASSUME NEW s \in States, NEW l \in LaneNames
  PROVE  /\ Pump(s, l) \in States
         /\ Pump(s, l).level = s.level
         /\ Pump(s, l).status = PumpStatus(s, l)
         /\ \A m \in LaneNames \ {l} : Pump(s, l).lanes[m] = s.lanes[m]
         /\ Pump(s, l).lanes[l].queue =
              SubSeq(s.lanes[l].queue, Taken(s, l) + 1, Len(s.lanes[l].queue))
         /\ Pump(s, l).lanes[l].active = s.lanes[l].active \cup Starting(s, l)
         /\ Pump(s, l).lanes[l].max = s.lanes[l].max
<1>1. Pump(s, l) = [s EXCEPT !.lanes[l] = Pumped(s, l), !.status = PumpStatus(s, l)]
  BY DEF Pump, Pumped, PumpStatus, Taken, Starting
<1>2. Taken(s, l) \in 0 .. Len(s.lanes[l].queue) /\ Starting(s, l) \subseteq Ids
  BY TakenParts
<1>3. s.lanes[l] \in LaneStates /\ s.lanes[l].queue \in Seq(Ids)
  BY StateParts DEF States
<1>4. SubSeq(s.lanes[l].queue, Taken(s, l) + 1, Len(s.lanes[l].queue)) \in Seq(Ids)
  BY <1>2, <1>3, SubSeqProperties
<1>5. /\ Pumped(s, l) \in LaneStates
      /\ Pumped(s, l).queue =
           SubSeq(s.lanes[l].queue, Taken(s, l) + 1, Len(s.lanes[l].queue))
      /\ Pumped(s, l).active = s.lanes[l].active \cup Starting(s, l)
      /\ Pumped(s, l).max = s.lanes[l].max
  BY <1>2, <1>3, <1>4 DEF Pumped, LaneStates
<1>6. PumpStatus(s, l) \in [Commands -> Statuses]
  BY DEF PumpStatus, States, Statuses
<1> QED  BY <1>1, <1>5, <1>6 DEF States

LEMMA PumpActive ==
  ASSUME NEW s \in States, NEW l \in LaneNames, NEW m \in LaneNames
  PROVE  /\ s.lanes[m].active \subseteq Pump(s, l).lanes[m].active
         /\ Pump(s, l).lanes[m].active \subseteq s.lanes[m].active \cup Starting(s, l)
<1>1. CASE m = l
  BY <1>1, PumpFields
<1>2. CASE m # l
  <2>1. Pump(s, l).lanes[m] = s.lanes[m]
    BY <1>2, PumpFields
  <2> QED  BY <2>1
<1> QED  BY <1>1, <1>2

-----------------------------------------------------------------------------
(* What pump keeps *)

LEMMA StartingFacts ==
  ASSUME NEW s, Consistent(s), NEW l \in LaneNames, NEW id \in Starting(s, l)
  PROVE  /\ id \in Ids /\ LaneOf(id) = l
         /\ s.level[id[1]] = id[2] /\ s.status[id[1]] = "queued"
         /\ ~Under(s, id)
         /\ \E i \in 1 .. Taken(s, l) : s.lanes[l].queue[i] = id
<1>1. s \in States
  BY DEF Consistent
<1>2. Taken(s, l) \in 0 .. Len(s.lanes[l].queue) /\ id \in Ids
      /\ Len(s.lanes[l].queue) \in Nat
  BY <1>1, TakenParts, StateParts
<1>3. PICK i \in 1 .. Taken(s, l) : s.lanes[l].queue[i] = id
  BY DEF Starting
<1>4. i \in 1 .. Len(s.lanes[l].queue)
  BY <1>2
<1>5. /\ LaneOf(id) = l
      /\ s.level[id[1]] = id[2] /\ s.status[id[1]] = "queued"
  BY <1>3, <1>4 DEF Consistent, QueuesFit
<1> QED  BY <1>2, <1>3, <1>5 DEF Under

\* A command has at most one entry, at its level.
LEMMA StartedOnce ==
  ASSUME NEW s, Consistent(s), NEW l \in LaneNames,
         NEW x \in Starting(s, l), NEW id \in Ids, id[1] = x[1], s.level[id[1]] = id[2]
  PROVE  id = x
<1>1. x \in Ids /\ s.level[x[1]] = x[2]
  BY StartingFacts
<1> QED  BY <1>1, IdParts

LEMMA SessionSlots ==
  ASSUME NEW s, Consistent(s), NEW l \in Sessions
  PROVE  /\ s.lanes[l].active = {} => FreeSlots(s.lanes[l]) = 1
         /\ s.lanes[l].active # {} => FreeSlots(s.lanes[l]) = 0
<1>1. s.lanes[l].max = 1 /\ \A x, y \in s.lanes[l].active : x = y
  BY DEF Consistent, OneSlot
<1>2. CASE s.lanes[l].active = {}
  BY <1>1, <1>2, FS_EmptySet DEF FreeSlots
<1>3. CASE s.lanes[l].active # {}
  <2>1. PICK x : s.lanes[l].active = {x}
    BY <1>1, <1>3
  <2>2. Cardinality({x}) = 1
    BY FS_Singleton
  <2> QED  BY <1>1, <1>3, <2>1, <2>2 DEF FreeSlots
<1> QED  BY <1>2, <1>3

\* What leaves a session's queue is its first entry, and only when nothing of it
\* is active.
LEMMA SessionStart ==
  ASSUME NEW s, Consistent(s), NEW l \in Sessions
  PROVE  /\ \A x, y \in Starting(s, l) : x = y
         /\ s.lanes[l].active # {} => Starting(s, l) = {}
<1>1. l \in LaneNames /\ s \in States
  BY DEF LaneNames, Consistent
<1>2. Taken(s, l) <= FreeSlots(s.lanes[l]) /\ Taken(s, l) \in Nat
  BY <1>1, TakenParts, StateParts
<1>3. Taken(s, l) \in {0, 1} /\ (s.lanes[l].active # {} => Taken(s, l) = 0)
  BY <1>2, SessionSlots
<1>4. \A i, j \in 1 .. Taken(s, l) : i = j
  BY <1>3
<1>5. \A x, y \in Starting(s, l) : x = y
  BY <1>4 DEF Starting
<1>6. Taken(s, l) = 0 => Starting(s, l) = {}
  BY DEF Starting
<1> QED  BY <1>3, <1>5, <1>6

LEMMA PumpUnder ==
  ASSUME NEW s, Consistent(s), NEW l \in LaneNames, NEW id \in Ids
  PROVE  Under(Pump(s, l), id) <=> Under(s, id) \/ id \in Starting(s, l)
<1> DEFINE t == Pump(s, l)  c == id[1]
<1>1. s \in States /\ c \in Commands
  BY IdParts DEF Consistent
<1>2. t.level = s.level /\ t.status = PumpStatus(s, l)
  BY <1>1, PumpFields
<1>3. s.level[c] \in Nat /\ id[2] \in Nat
  BY <1>1, IdParts DEF States
<1>4. CASE \E x \in Starting(s, l) : x[1] = c
  <2>1. PICK x \in Starting(s, l) : x[1] = c
    BY <1>4
  <2>2. s.level[c] = x[2] /\ s.status[c] = "queued"
    BY <2>1, StartingFacts
  <2>3. t.status[c] # "queued"
    BY <1>1, <1>2, <2>1 DEF PumpStatus
  <2>4. s.level[c] = id[2] => id \in Starting(s, l)
    BY <2>1, StartedOnce
  <2>5. id \in Starting(s, l) => s.level[c] = id[2]
    BY StartingFacts
  <2> QED  BY <1>2, <1>3, <2>2, <2>3, <2>4, <2>5 DEF Under
<1>5. CASE ~ \E x \in Starting(s, l) : x[1] = c
  <2>1. t.status[c] = s.status[c] /\ id \notin Starting(s, l)
    BY <1>1, <1>2, <1>5 DEF PumpStatus
  <2> QED  BY <1>2, <2>1 DEF Under
<1> QED  BY <1>4, <1>5

\* The queue that is left.
LEMMA PumpQueue ==
  ASSUME NEW s \in States, NEW l \in LaneNames
  PROVE  LET n == Taken(s, l)
             q == s.lanes[l].queue
             r == Pump(s, l).lanes[l].queue
         IN  /\ n \in Nat /\ Len(q) \in Nat /\ n <= Len(q)
             /\ Len(r) = Len(q) - n
             /\ \A i \in 1 .. Len(r) : i + n \in 1 .. Len(q) /\ r[i] = q[i + n]
<1> DEFINE n == Taken(s, l)  q == s.lanes[l].queue  r == Pump(s, l).lanes[l].queue
<1>1. r = SubSeq(q, n + 1, Len(q))
  BY PumpFields
<1>2. n \in Nat /\ Len(q) \in Nat /\ n <= Len(q) /\ q \in Seq(Ids)
  BY TakenParts, StateParts
<1> HIDE DEF n, q, r
<1>3. \A i \in n + 1 .. Len(q) : q[i] \in Ids
  BY <1>2
<1>4. /\ Len(r) = IF n + 1 <= Len(q) THEN Len(q) - (n + 1) + 1 ELSE 0
      /\ \A i \in 1 .. Len(q) - (n + 1) + 1 : r[i] = q[n + 1 + i - 1]
  BY <1>1, <1>2, <1>3, SubSeqProperties
<1>5. Len(r) = Len(q) - n
  BY <1>2, <1>4
<1>6. ASSUME NEW i \in 1 .. Len(r)  PROVE i + n \in 1 .. Len(q) /\ r[i] = q[i + n]
  <2>1. i \in 1 .. Len(q) - (n + 1) + 1 /\ n + 1 + i - 1 = i + n
    BY <1>2, <1>5
  <2>2. r[i] = q[n + 1 + i - 1]
    BY <1>4, <2>1
  <2> QED  BY <1>2, <1>5, <2>1, <2>2
<1> QED  BY <1>2, <1>5, <1>6 DEF n, q, r

\* Who is not started keeps its status, and a started one is not queued any more.
LEMMA PumpStatuses ==
  ASSUME NEW s, Consistent(s), NEW l \in LaneNames, NEW c \in Commands
  PROVE  LET t == Pump(s, l)
         IN  /\ t.level[c] = s.level[c]
             /\ (~ \E x \in Starting(s, l) : x[1] = c) => t.status[c] = s.status[c]
             /\ (\E x \in Starting(s, l) : x[1] = c) =>
                  /\ s.status[c] = "queued" /\ s.level[c] # 0
                  /\ t.status[c] \in {"held", "body"}
                  /\ t.status[c] = "held" => s.level[c] # Len(Path(c))
<1>1. s \in States
  BY DEF Consistent
<1>2. Pump(s, l).level = s.level /\ Pump(s, l).status = PumpStatus(s, l)
  BY <1>1, PumpFields
<1>3. ASSUME NEW x \in Starting(s, l), x[1] = c
      PROVE  /\ s.status[c] = "queued" /\ s.level[c] # 0
             /\ s.level[c] = Len(Path(c)) => <<c, Len(Path(c))>> \in Starting(s, l)
  <2>1. x \in Ids /\ s.level[c] = x[2] /\ s.status[c] = "queued"
    BY <1>3, StartingFacts
  <2>2. x = <<c, s.level[c]>> /\ x[2] \in 1 .. 3
    BY <1>3, <2>1, IdParts
  <2> QED  BY <2>1, <2>2
<1> QED  BY <1>2, <1>3 DEF PumpStatus

LEMMA PumpConsistent ==
  ASSUME NEW s, Consistent(s), NEW l \in LaneNames
  PROVE  Consistent(Pump(s, l))
<1> DEFINE t == Pump(s, l)
<1>1. s \in States /\ t \in States
  BY PumpFields DEF Consistent
<1>2. LevelsFit(t)
  <2> SUFFICES ASSUME NEW c \in Commands
               PROVE  /\ t.level[c] <= Len(Path(c))
                      /\ t.level[c] = 0 <=> t.status[c] \in {"idle", "over"}
    BY DEF LevelsFit
  <2>1. s.level[c] <= Len(Path(c)) /\ (s.level[c] = 0 <=> s.status[c] \in {"idle", "over"})
    BY DEF Consistent, LevelsFit
  <2> QED  BY <2>1, PumpStatuses
<1>3. QueuesFit(t)
  <2> SUFFICES ASSUME NEW m \in LaneNames, NEW i \in 1 .. Len(t.lanes[m].queue)
               PROVE  LET id == t.lanes[m].queue[i]
                      IN  /\ LaneOf(id) = m
                          /\ t.level[id[1]] = id[2] /\ t.status[id[1]] = "queued"
                          /\ \A j \in 1 .. Len(t.lanes[m].queue) :
                               t.lanes[m].queue[j] = id => i = j
    BY DEF QueuesFit
  <2> DEFINE id == t.lanes[m].queue[i]  n == Taken(s, l)
  <2>1. PICK d \in Nat :
          /\ d = IF m = l THEN n ELSE 0
          /\ Len(t.lanes[m].queue) = Len(s.lanes[m].queue) - d
          /\ \A j \in 1 .. Len(t.lanes[m].queue) :
               /\ j + d \in 1 .. Len(s.lanes[m].queue)
               /\ t.lanes[m].queue[j] = s.lanes[m].queue[j + d]
    <3>1. CASE m = l
      <4>1. /\ n \in Nat
            /\ Len(t.lanes[l].queue) = Len(s.lanes[l].queue) - n
            /\ \A j \in 1 .. Len(t.lanes[l].queue) :
                 /\ j + n \in 1 .. Len(s.lanes[l].queue)
                 /\ t.lanes[l].queue[j] = s.lanes[l].queue[j + n]
        BY <1>1, PumpQueue
      <4> HIDE DEF t, n
      <4> QED  BY <3>1, <4>1
    <3>2. CASE m # l
      <4> DEFINE q == s.lanes[m].queue  r == t.lanes[m].queue
      <4>1. r = q /\ Len(q) \in Nat
        <5>1. m \in LaneNames \ {l}
          BY <3>2
        <5>2. t.lanes[m] = s.lanes[m]
          BY <1>1, <5>1, PumpFields
        <5>3. q \in Seq(Ids)
          BY <1>1, StateParts
        <5> HIDE DEF t
        <5>4. r = q
          BY <5>2
        <5> HIDE DEF q, r
        <5> QED  BY <5>3, <5>4
      <4> HIDE DEF q, r, n
      <4>2. 0 \in Nat /\ Len(r) = Len(q) - 0
            /\ \A j \in 1 .. Len(r) : j + 0 \in 1 .. Len(q) /\ r[j] = q[j + 0]
        BY <4>1
      <4> QED  BY <3>2, <4>2 DEF q, r
    <3> QED  BY <3>1, <3>2
  <2>2. Len(s.lanes[m].queue) \in Nat /\ s.lanes[m].queue \in Seq(Ids)
    BY <1>1, StateParts
  <2>3. i + d \in 1 .. Len(s.lanes[m].queue) /\ id = s.lanes[m].queue[i + d]
    BY <2>1
  <2>4. /\ LaneOf(id) = m
        /\ s.level[id[1]] = id[2] /\ s.status[id[1]] = "queued"
        /\ \A j \in 1 .. Len(s.lanes[m].queue) : s.lanes[m].queue[j] = id => i + d = j
    <3> DEFINE k == i + d
    <3>1. k \in 1 .. Len(s.lanes[m].queue) /\ id = s.lanes[m].queue[k]
      BY <2>3
    <3> HIDE DEF k, id
    <3>2. /\ LaneOf(id) = m
          /\ s.level[id[1]] = id[2] /\ s.status[id[1]] = "queued"
          /\ \A j \in 1 .. Len(s.lanes[m].queue) : s.lanes[m].queue[j] = id => k = j
      BY <3>1 DEF Consistent, QueuesFit
    <3> QED  BY <3>2 DEF k
  <2>5. id \in Ids /\ id[1] \in Commands
    BY <2>2, <2>3, IdParts
  <2>6. ASSUME NEW x \in Starting(s, l), x[1] = id[1]  PROVE FALSE
    <3>1. id = x
      BY <2>4, <2>5, <2>6, StartedOnce
    <3>2. LaneOf(id) = l /\ \E j \in 1 .. n : s.lanes[l].queue[j] = id
      BY <3>1, StartingFacts
    <3>3. m = l /\ d = n
      BY <2>1, <2>4, <3>2
    <3>4. PICK j \in 1 .. n : s.lanes[m].queue[j] = id
      BY <3>2, <3>3
    <3>5. n \in Nat /\ n <= Len(s.lanes[m].queue)
      BY <1>1, <3>3, PumpQueue
    <3>6. j \in 1 .. Len(s.lanes[m].queue)
      BY <2>2, <3>5
    <3>7. i + d = j
      BY <2>4, <3>4, <3>6
    <3> QED  BY <3>3, <3>5, <3>7
  <2>7. t.level[id[1]] = id[2] /\ t.status[id[1]] = "queued"
    <3> DEFINE c == id[1]
    <3>1. c \in Commands /\ ~ \E x \in Starting(s, l) : x[1] = c
      BY <2>5, <2>6
    <3> HIDE DEF c
    <3>2. t.level[c] = s.level[c] /\ t.status[c] = s.status[c]
      BY <3>1, PumpStatuses
    <3> QED  BY <2>4, <3>2 DEF c
  <2>8. ASSUME NEW j \in 1 .. Len(t.lanes[m].queue), t.lanes[m].queue[j] = id
        PROVE  i = j
    <3>1. j + d \in 1 .. Len(s.lanes[m].queue) /\ s.lanes[m].queue[j + d] = id
      BY <2>1, <2>8
    <3>2. i + d = j + d
      BY <2>4, <3>1
    <3> QED  BY <2>1, <3>2
  <2> QED  BY <2>4, <2>7, <2>8
<1>4. ActiveFit(t)
  <2> SUFFICES ASSUME NEW m \in LaneNames, NEW id \in t.lanes[m].active
               PROVE  LaneOf(id) = m /\ Under(t, id)
    BY DEF ActiveFit
  <2>1. id \in Ids
    BY <1>1, StateParts
  <2>2. id \in s.lanes[m].active \/ (m = l /\ id \in Starting(s, l))
    BY <1>1, PumpFields
  <2>3. CASE id \in s.lanes[m].active
    BY <2>1, <2>3, PumpUnder DEF Consistent, ActiveFit
  <2>4. CASE m = l /\ id \in Starting(s, l)
    BY <2>1, <2>4, PumpUnder, StartingFacts
  <2> QED  BY <2>2, <2>3, <2>4
<1>5. OneSlot(t)
  <2> SUFFICES ASSUME NEW m \in Sessions
               PROVE  /\ t.lanes[m].max = 1
                      /\ \A x, y \in t.lanes[m].active : x = y
    BY DEF OneSlot
  <2>1. s.lanes[m].max = 1 /\ \A x, y \in s.lanes[m].active : x = y
    BY DEF Consistent, OneSlot
  <2>2. m \in LaneNames
    BY DEF LaneNames
  <2>3. CASE m # l
    BY <1>1, <2>1, <2>2, <2>3, PumpFields
  <2>4. CASE m = l
    <3>1. t.lanes[m].active = s.lanes[m].active \cup Starting(s, m)
          /\ t.lanes[m].max = s.lanes[m].max
      BY <1>1, <2>4, PumpFields
    <3> QED  BY <2>1, <3>1, SessionStart
  <2> QED  BY <2>3, <2>4
<1> QED  BY <1>1, <1>2, <1>3, <1>4, <1>5 DEF Consistent

LEMMA PumpOwned ==
  ASSUME NEW s, NEW K, Consistent(s), Owned(s, K), NEW l \in LaneNames
  PROVE  Owned(Pump(s, l), K)
<1> DEFINE t == Pump(s, l)
<1> SUFFICES ASSUME NEW id \in Ids, Under(t, id), id \notin K
             PROVE  id \in t.lanes[LaneOf(id)].active
  BY DEF Owned
<1>1. s \in States /\ LaneOf(id) \in LaneNames
  BY LaneFacts DEF Consistent
<1>2. CASE id \in Starting(s, l)
  BY <1>1, <1>2, StartingFacts, PumpFields
<1>3. CASE id \notin Starting(s, l)
  <2>1. id \in s.lanes[LaneOf(id)].active
    BY <1>3, PumpUnder DEF Owned
  <2> QED  BY <1>1, <2>1, PumpFields
<1> QED  BY <1>2, <1>3

LEMMA PumpAwaited ==
  ASSUME NEW s, NEW W \in SUBSET Ids, Consistent(s), Awaited(s, W), NEW l \in LaneNames
  PROVE  /\ Awaited(Pump(s, l), W)
         /\ Apart(s, W) => Apart(Pump(s, l), W)
<1> DEFINE t == Pump(s, l)
<1>1. s \in States
  BY DEF Consistent
<1>2. ASSUME NEW id \in W
      PROVE  id \in t.lanes[LaneOf(id)].active \/ t.level[id[1]] < id[2]
  <2>1. id \in s.lanes[LaneOf(id)].active \/ s.level[id[1]] < id[2]
    BY DEF Awaited
  <2>2. LaneOf(id) \in LaneNames
    BY LaneFacts
  <2>3. s.lanes[LaneOf(id)].active \subseteq t.lanes[LaneOf(id)].active
    BY <1>1, <2>2, PumpActive
  <2>4. t.level = s.level
    BY <1>1, PumpFields
  <2> QED  BY <2>1, <2>3, <2>4
<1>3. ASSUME Apart(s, W), NEW id \in W, NEW m \in LaneNames  PROVE id \notin t.lanes[m].active
  <2>1. id \notin s.lanes[m].active /\ id \notin s.lanes[LaneOf(id)].active
    BY <1>3, LaneFacts DEF Apart
  <2>2. s.level[id[1]] < id[2]
    BY <2>1 DEF Awaited
  <2>3. s.level[id[1]] \in Nat /\ id[2] \in Nat
    BY <1>1, IdParts DEF States
  <2>4. id \notin Starting(s, l)
    BY <2>2, <2>3, StartingFacts
  <2>5. t.lanes[m].active \subseteq s.lanes[m].active \cup Starting(s, l)
    BY <1>1, PumpActive
  <2> QED  BY <2>1, <2>4, <2>5
<1> QED  BY <1>2, <1>3 DEF Awaited, Apart

LEMMA StartingCount ==
  ASSUME NEW s, Consistent(s), NEW l \in LaneNames
  PROVE  /\ IsFiniteSet(Starting(s, l))
         /\ Cardinality(Starting(s, l)) = Taken(s, l)
         /\ Starting(s, l) \cap s.lanes[l].active = {}
<1> DEFINE n == Taken(s, l)  q == s.lanes[l].queue
           f == [i \in 1 .. n |-> q[i]]
<1>1. s \in States
  BY DEF Consistent
<1>2. n \in Nat /\ Len(q) \in Nat /\ n <= Len(q)
  BY <1>1, PumpQueue
<1>3. \A i, j \in 1 .. n : q[i] = q[j] => i = j
  <2> SUFFICES ASSUME NEW i \in 1 .. n, NEW j \in 1 .. n, q[i] = q[j]  PROVE i = j
    OBVIOUS
  <2>1. i \in 1 .. Len(q) /\ j \in 1 .. Len(q)
    BY <1>2
  <2> QED  BY <2>1 DEF Consistent, QueuesFit
<1>4. f \in Bijection(1 .. n, Starting(s, l))
  <2>1. Starting(s, l) = {q[i] : i \in 1 .. n}
    BY DEF Starting
  <2> HIDE DEF q, n
  <2> QED  BY <1>3, <2>1 DEF Bijection, Injection, Surjection, IsInjective
<1>5. IsFiniteSet(1 .. n) /\ Cardinality(1 .. n) = n
  <2>1. n \in Int /\ 1 \in Int
    BY <1>2
  <2>2. IsFiniteSet(1 .. n) /\ Cardinality(1 .. n) = IF 1 > n THEN 0 ELSE n - 1 + 1
    BY <2>1, FS_Interval
  <2> QED  BY <1>2, <2>2
<1>6. IsFiniteSet(Starting(s, l)) /\ Cardinality(Starting(s, l)) = n
  <2> HIDE DEF f, n
  <2>1. ExistsBijection(1 .. n, Starting(s, l))
    BY <1>4 DEF ExistsBijection
  <2> QED  BY <1>5, <2>1, FS_Bijection
<1>7. \A id \in Starting(s, l) : id \notin s.lanes[l].active
  BY StartingFacts DEF Consistent, ActiveFit
<1> QED  BY <1>6, <1>7

\* pump stops only when the queue is empty or the slots are taken.
LEMMA PumpFull ==
  ASSUME NEW s, Consistent(s), NEW l \in LaneNames
  PROVE  /\ Full(Pump(s, l), l)
         /\ \A m \in LaneNames \ {l} : Full(s, m) => Full(Pump(s, l), m)
<1> DEFINE t == Pump(s, l)  n == Taken(s, l)  A == s.lanes[l].active
           B == Starting(s, l)
<1>1. s \in States /\ t \in States
  BY PumpFields DEF Consistent
<1>2. \A m \in LaneNames \ {l} : Full(s, m) => Full(t, m)
  BY <1>1, PumpFields DEF Full
<1>3. ASSUME t.lanes[l].queue # <<>>  PROVE FreeSlots(t.lanes[l]) = 0
  <2>1. Len(t.lanes[l].queue) # 0
    BY <1>1, <1>3, StateParts, EmptySeq
  <2>2. n # Len(s.lanes[l].queue)
    <3>1. /\ n \in Nat /\ Len(s.lanes[l].queue) \in Nat
          /\ Len(t.lanes[l].queue) = Len(s.lanes[l].queue) - n
      BY <1>1, PumpQueue
    <3> HIDE DEF t, n
    <3> QED  BY <2>1, <3>1
  <2>3. n = FreeSlots(s.lanes[l])
    BY <1>1, <2>2, TakenParts
  <2>4. IsFiniteSet(A) /\ IsFiniteSet(B) /\ A \cap B = {} /\ Cardinality(B) = n
    BY <1>1, StateParts, StartingCount
  <2>5. Cardinality(A \cup B) = Cardinality(A) + Cardinality(B) - Cardinality(A \cap B)
    BY <2>4, FS_Union
  <2>6. Cardinality(A) \in Nat /\ n \in Nat
    BY <1>1, <2>3, FreeSlotsNat
  <2>7. Cardinality(A \cup B) = Cardinality(A) + n
    <3>1. Cardinality(A \cap B) = 0
      BY <2>4, FS_EmptySet
    <3> HIDE DEF A, B, n
    <3> QED  BY <2>4, <2>5, <2>6, <3>1
  <2>8. t.lanes[l].active = A \cup B /\ t.lanes[l].max = s.lanes[l].max
    BY <1>1, PumpFields
  <2>9. Cardinality(t.lanes[l].active) >= s.lanes[l].max
    <3>1. s.lanes[l].max \in Nat
      BY <1>1, StateParts
    <3>2. \/ Cardinality(A) >= s.lanes[l].max
          \/ n + Cardinality(A) = s.lanes[l].max
      BY <1>1, <2>3, FreeSlotsNat
    <3> QED  BY <2>6, <2>7, <2>8, <3>1, <3>2
  <2> QED  BY <1>1, <2>8, <2>9, FreeSlotsNat
<1> QED  BY <1>2, <1>3 DEF Full

\* A task that starts in a lane without a session is a body, or a cron job that
\* has its slot.
LEMMA PumpCalm ==
  ASSUME NEW s, Consistent(s), Calm(s), NEW l \in LaneNames, l \notin Sessions
  PROVE  Calm(Pump(s, l))
<1> SUFFICES ASSUME NEW c \in Commands, Pump(s, l).status[c] = "held"
             PROVE  c \in CronJobs /\ Pump(s, l).level[c] = 1
  BY DEF Calm
<1>1. CASE ~ \E x \in Starting(s, l) : x[1] = c
  BY <1>1, PumpStatuses DEF Calm
<1>2. CASE \E x \in Starting(s, l) : x[1] = c
  <2>1. PICK x \in Starting(s, l) : x[1] = c
    BY <1>2
  <2>2. x \in Ids /\ LaneOf(x) = l /\ s.level[c] = x[2]
    BY <2>1, StartingFacts
  <2>3. x[2] # Len(Path(c)) /\ Pump(s, l).level[c] = x[2]
    BY <1>2, <2>2, PumpStatuses
  <2>4. x[2] # Len(Path(c)) - 1
    BY <2>1, <2>2, LaneFacts
  <2>5. x[2] \in 1 .. 3 /\ x[2] <= Len(Path(c)) /\ Len(Path(c)) \in {2, 3}
        /\ (Len(Path(c)) = 3 => c \in CronJobs)
    BY <2>1, <2>2, IdParts, PathLength
  <2> DEFINE n == Len(Path(c))  k == x[2]
  <2>6. n = 3 /\ k = 1
    <3>1. k \in 1 .. 3 /\ k <= n /\ n \in {2, 3} /\ k # n /\ k # n - 1
      BY <2>3, <2>4, <2>5
    <3> HIDE DEF n, k
    <3> QED  BY <3>1
  <2> QED  BY <2>3, <2>5, <2>6
<1> QED  BY <1>1, <1>2

-----------------------------------------------------------------------------
(* An entry is pushed, a promise is settled *)

LEMMA ReturnFields ==
  ASSUME NEW s \in States, NEW id \in Ids
  PROVE  /\ Return(s, id) \in States
         /\ Return(s, id).lanes = s.lanes
         /\ Return(s, id).level = [s.level EXCEPT ![id[1]] = id[2] - 1]
         /\ Return(s, id).status =
              [s.status EXCEPT ![id[1]] = IF id[2] = 1 THEN "over" ELSE "back"]
<1> DEFINE c == id[1]  k == id[2] - 1  what == IF id[2] = 1 THEN "over" ELSE "back"
<1>1. c \in Commands /\ k \in 0 .. 3
  BY IdParts
<1>2. what \in Statuses
  BY DEF Statuses
<1> DEFINE t == [s EXCEPT !.level[c] = k, !.status[c] = what]
<1>3. Return(s, id) = t
  BY DEF Return, At
<1> HIDE DEF c, k, what
<1>4. /\ t \in States /\ t.lanes = s.lanes
      /\ t.level = [s.level EXCEPT ![c] = k]
      /\ t.status = [s.status EXCEPT ![c] = what]
  BY <1>1, <1>2 DEF States
<1> HIDE DEF t
<1> QED  BY <1>3, <1>4 DEF c, k, what

\* The task id is over, or was refused, and its caller goes on one level up.
LEMMA ReturnUnder ==
  ASSUME NEW s \in States, NEW id \in Ids, s.status[id[1]] # "queued",
         s.level[id[1]] = id[2] \/ s.level[id[1]] = id[2] - 1, NEW x \in Ids
  PROVE  Under(Return(s, id), x) <=> Under(s, x) /\ x # id
<1> DEFINE t == Return(s, id)
<1>1. /\ t.level = [s.level EXCEPT ![id[1]] = id[2] - 1]
      /\ t.status = [s.status EXCEPT ![id[1]] = IF id[2] = 1 THEN "over" ELSE "back"]
  BY ReturnFields
<1>2. s.level \in [Commands -> 0 .. 3] /\ s.status \in [Commands -> Statuses]
  BY DEF States
<1>3. CASE x[1] # id[1]
  <2>1. t.level[x[1]] = s.level[x[1]] /\ t.status[x[1]] = s.status[x[1]]
    BY <1>1, <1>2, <1>3, IdParts
  <2> QED  BY <1>3, <2>1 DEF Under
<1>4. CASE x[1] = id[1]
  <2>1. t.level[x[1]] = id[2] - 1 /\ t.status[x[1]] # "queued"
    BY <1>1, <1>2, <1>4, IdParts
  <2>2. id[2] \in 1 .. 3 /\ x[2] \in 1 .. 3 /\ (x = id <=> x[2] = id[2])
    BY <1>4, IdParts
  <2>3. Under(t, x) <=> id[2] - 1 >= x[2]
    BY <2>1 DEF Under
  <2>4. Under(s, x) <=> s.level[id[1]] >= x[2]
    BY <1>4 DEF Under
  <2> QED  BY <2>2, <2>3, <2>4
<1> QED  BY <1>3, <1>4

LEMMA ReturnKeeps ==
  ASSUME NEW s, Consistent(s), NEW id \in Ids, s.status[id[1]] # "queued",
         s.level[id[1]] = id[2] \/ s.level[id[1]] = id[2] - 1,
         id \notin s.lanes[LaneOf(id)].active
  PROVE  LET t == Return(s, id)
         IN  /\ Consistent(t)
             /\ \A c \in Commands : t.status[c] = "held" =>
                  c # id[1] /\ s.status[c] = "held" /\ t.level[c] = s.level[c]
             /\ \A K : Owned(s, K \cup {id}) => Owned(t, K)
             /\ \A W \in SUBSET Ids : Awaited(s, W \ {id}) => Awaited(t, W)
<1> DEFINE t == Return(s, id)  c == id[1]
<1>1. s \in States
  BY DEF Consistent
<1>2. /\ t \in States /\ t.lanes = s.lanes
      /\ t.level = [s.level EXCEPT ![c] = id[2] - 1]
      /\ t.status = [s.status EXCEPT ![c] = IF id[2] = 1 THEN "over" ELSE "back"]
  BY <1>1, ReturnFields
<1>3. /\ s.level \in [Commands -> 0 .. 3] /\ s.status \in [Commands -> Statuses]
      /\ c \in Commands /\ id[2] \in 1 .. 3 /\ id[2] <= Len(Path(c))
  BY <1>1, IdParts DEF States
<1> HIDE DEF t, c
<1>4. /\ t.level[c] = id[2] - 1 /\ t.status[c] = IF id[2] = 1 THEN "over" ELSE "back"
      /\ \A d \in Commands \ {c} : t.level[d] = s.level[d] /\ t.status[d] = s.status[d]
  BY <1>2, <1>3
<1>5. LevelsFit(t)
  <2> SUFFICES ASSUME NEW d \in Commands
               PROVE  /\ t.level[d] <= Len(Path(d))
                      /\ t.level[d] = 0 <=> t.status[d] \in {"idle", "over"}
    BY DEF LevelsFit
  <2>1. CASE d = c
    <3>1. Len(Path(c)) \in Nat
      BY <1>3, PathLength
    <3> QED  BY <1>3, <1>4, <2>1, <3>1
  <2>2. CASE d # c
    BY <1>4, <2>2 DEF Consistent, LevelsFit
  <2> QED  BY <2>1, <2>2
<1>6. QueuesFit(t)
  <2> SUFFICES ASSUME NEW m \in LaneNames, NEW i \in 1 .. Len(t.lanes[m].queue)
               PROVE  LET x == t.lanes[m].queue[i]
                      IN  /\ LaneOf(x) = m
                          /\ t.level[x[1]] = x[2] /\ t.status[x[1]] = "queued"
                          /\ \A j \in 1 .. Len(t.lanes[m].queue) :
                               t.lanes[m].queue[j] = x => i = j
    BY DEF QueuesFit
  <2>1. t.lanes[m].queue = s.lanes[m].queue
    BY <1>2
  <2> DEFINE q == s.lanes[m].queue  x == q[i]
  <2>2. i \in 1 .. Len(q)
    BY <2>1
  <2>3. /\ LaneOf(x) = m /\ s.level[x[1]] = x[2] /\ s.status[x[1]] = "queued"
        /\ \A j \in 1 .. Len(q) : q[j] = x => i = j
    BY <2>2 DEF Consistent, QueuesFit
  <2>4. q \in Seq(Ids)
    BY <1>1, StateParts
  <2>5. x[1] \in Commands
    BY <2>2, <2>4, IdParts
  <2>6. x[1] # c
    BY <2>3 DEF c
  <2> HIDE DEF q
  <2>7. t.lanes[m].queue = q
    BY <2>1 DEF q
  <2> QED  BY <1>4, <2>3, <2>5, <2>6, <2>7
<1>7. ActiveFit(t)
  <2> SUFFICES ASSUME NEW m \in LaneNames, NEW x \in s.lanes[m].active
               PROVE  LaneOf(x) = m /\ Under(t, x)
    BY <1>2 DEF ActiveFit
  <2>1. LaneOf(x) = m /\ Under(s, x) /\ x \in Ids
    BY <1>1, StateParts DEF Consistent, ActiveFit
  <2> QED  BY <1>1, <2>1, ReturnUnder DEF t
<1>8. OneSlot(t)
  BY <1>2 DEF Consistent, OneSlot
<1>9. ASSUME NEW d \in Commands, t.status[d] = "held"
      PROVE  d # id[1] /\ s.status[d] = "held" /\ t.level[d] = s.level[d]
  <2>1. d # c
    BY <1>4, <1>9
  <2> QED  BY <1>4, <1>9, <2>1 DEF c
<1>10. ASSUME NEW K, Owned(s, K \cup {id})  PROVE Owned(t, K)
  <2> SUFFICES ASSUME NEW x \in Ids, Under(t, x), x \notin K
               PROVE  x \in t.lanes[LaneOf(x)].active
    BY DEF Owned
  <2>1. Under(s, x) /\ x # id
    BY <1>1, ReturnUnder DEF t
  <2> QED  BY <1>2, <1>10, <2>1 DEF Owned
<1>11. ASSUME NEW W \in SUBSET Ids, Awaited(s, W \ {id})  PROVE Awaited(t, W)
  <2> SUFFICES ASSUME NEW x \in W
               PROVE  x \in t.lanes[LaneOf(x)].active \/ t.level[x[1]] < x[2]
    BY DEF Awaited
  <2>1. x \in Ids /\ x[1] \in Commands /\ x[2] \in 1 .. 3
    BY IdParts
  <2>2. CASE x = id
    BY <1>3, <1>4, <2>2 DEF c
  <2>3. CASE x # id
    <3>1. x \in s.lanes[LaneOf(x)].active \/ s.level[x[1]] < x[2]
      BY <1>11, <2>3 DEF Awaited
    <3>2. t.level[x[1]] <= s.level[x[1]] /\ t.level[x[1]] \in Nat /\ s.level[x[1]] \in Nat
      BY <1>3, <1>4, <2>1 DEF c
    <3> QED  BY <1>2, <2>1, <3>1, <3>2
  <2> QED  BY <2>2, <2>3
<1>12. Consistent(t)
  BY <1>2, <1>5, <1>6, <1>7, <1>8 DEF Consistent
<1> QED  BY <1>9, <1>10, <1>11, <1>12 DEF t

\* One field of one lane is set.
LEMMA QueueSet ==
  ASSUME NEW s \in States, NEW l \in LaneNames, NEW v \in Seq(Ids)
  PROVE  LET t == [s EXCEPT !.lanes[l].queue = v]
         IN  /\ t \in States /\ t.level = s.level /\ t.status = s.status
             /\ \A m \in LaneNames \ {l} : t.lanes[m] = s.lanes[m]
             /\ t.lanes[l].queue = v
             /\ t.lanes[l].active = s.lanes[l].active
             /\ t.lanes[l].max = s.lanes[l].max
<1> DEFINE t == [s EXCEPT !.lanes[l].queue = v]
<1>1. t \in States
  <2> DEFINE ln == [s.lanes[l] EXCEPT !.queue = v]
  <2>1. s.lanes[l] \in LaneStates
    BY DEF States
  <2>2. ln \in LaneStates
    BY <2>1 DEF LaneStates
  <2>3. t = [s EXCEPT !.lanes[l] = ln]
    OBVIOUS
  <2> HIDE DEF ln, t
  <2> QED  BY <2>2, <2>3 DEF States
<1>2. t.level = s.level /\ t.status = s.status
  BY DEF States
<1>3. \A m \in LaneNames \ {l} : t.lanes[m] = s.lanes[m]
  BY DEF States
<1>4. /\ t.lanes[l].queue = v
      /\ t.lanes[l].active = s.lanes[l].active
      /\ t.lanes[l].max = s.lanes[l].max
  BY DEF States, LaneStates
<1> QED  BY <1>1, <1>2, <1>3, <1>4

LEMMA ActiveLess ==
  ASSUME NEW s \in States, NEW l \in LaneNames, NEW x
  PROVE  LET t == [s EXCEPT !.lanes[l].active = @ \ {x}]
         IN  /\ t \in States /\ t.level = s.level /\ t.status = s.status
             /\ \A m \in LaneNames \ {l} : t.lanes[m] = s.lanes[m]
             /\ t.lanes[l].active = s.lanes[l].active \ {x}
             /\ t.lanes[l].queue = s.lanes[l].queue
             /\ t.lanes[l].max = s.lanes[l].max
<1> DEFINE t == [s EXCEPT !.lanes[l].active = @ \ {x}]
<1>1. t \in States
  <2> DEFINE ln == [s.lanes[l] EXCEPT !.active = @ \ {x}]
  <2>1. s.lanes[l] \in LaneStates
    BY DEF States
  <2>2. ln \in LaneStates
    BY <2>1 DEF LaneStates
  <2>3. t = [s EXCEPT !.lanes[l] = ln]
    OBVIOUS
  <2> HIDE DEF ln, t
  <2> QED  BY <2>2, <2>3 DEF States
<1>2. t.level = s.level /\ t.status = s.status
  BY DEF States
<1>3. \A m \in LaneNames \ {l} : t.lanes[m] = s.lanes[m]
  BY DEF States
<1>4. /\ t.lanes[l].active = s.lanes[l].active \ {x}
      /\ t.lanes[l].queue = s.lanes[l].queue
      /\ t.lanes[l].max = s.lanes[l].max
  BY DEF States, LaneStates
<1> QED  BY <1>1, <1>2, <1>3, <1>4

LEMMA MaxSet ==
  ASSUME NEW s \in States, NEW l \in LaneNames, NEW v \in Nat \ {0}
  PROVE  LET t == [s EXCEPT !.lanes[l].max = v]
         IN  /\ t \in States /\ t.level = s.level /\ t.status = s.status
             /\ \A m \in LaneNames \ {l} : t.lanes[m] = s.lanes[m]
             /\ t.lanes[l].max = v
             /\ t.lanes[l].queue = s.lanes[l].queue
             /\ t.lanes[l].active = s.lanes[l].active
<1> DEFINE t == [s EXCEPT !.lanes[l].max = v]
<1>1. t \in States
  <2> DEFINE ln == [s.lanes[l] EXCEPT !.max = v]
  <2>1. s.lanes[l] \in LaneStates
    BY DEF States
  <2>2. ln \in LaneStates
    BY <2>1 DEF LaneStates
  <2>3. t = [s EXCEPT !.lanes[l] = ln]
    OBVIOUS
  <2> HIDE DEF ln, t
  <2> QED  BY <2>2, <2>3 DEF States
<1>2. t.level = s.level /\ t.status = s.status
  BY DEF States
<1>3. \A m \in LaneNames \ {l} : t.lanes[m] = s.lanes[m]
  BY DEF States
<1>4. /\ t.lanes[l].max = v
      /\ t.lanes[l].queue = s.lanes[l].queue
      /\ t.lanes[l].active = s.lanes[l].active
  BY DEF States, LaneStates
<1> QED  BY <1>1, <1>2, <1>3, <1>4

LEMMA AppendParts ==
  ASSUME NEW q \in Seq(Ids), NEW x \in Ids
  PROVE  /\ Len(Append(q, x)) = Len(q) + 1
         /\ Append(q, x)[Len(q) + 1] = x
         /\ \A j \in 1 .. Len(q) : Append(q, x)[j] = q[j]
OBVIOUS

LEMMA PushFields ==
  ASSUME NEW s \in States, NEW id \in Ids
  PROVE  /\ Push(s, id) \in States
         /\ Push(s, id).level = [s.level EXCEPT ![id[1]] = id[2]]
         /\ Push(s, id).status = [s.status EXCEPT ![id[1]] = "queued"]
         /\ \A m \in LaneNames :
              /\ Push(s, id).lanes[m].queue = IF m = LaneOf(id) THEN Append(s.lanes[m].queue, id)
                                                                ELSE s.lanes[m].queue
              /\ Push(s, id).lanes[m].active = s.lanes[m].active
              /\ Push(s, id).lanes[m].max = s.lanes[m].max
<1> DEFINE c == id[1]  k == id[2]  l == LaneOf(id)
           t == [s EXCEPT !.level[c] = k, !.status[c] = "queued"]
           q == Append(s.lanes[l].queue, id)
           u == [t EXCEPT !.lanes[l].queue = q]
<1>1. c \in Commands /\ k \in 0 .. 3 /\ l \in LaneNames
  BY IdParts, LaneFacts
<1>2. "queued" \in Statuses
  BY DEF Statuses
<1>3. At(s, id, "queued") = t
  BY DEF At
<1>4. s.lanes[l].queue \in Seq(Ids)
  BY <1>1, StateParts
<1>5. q \in Seq(Ids)
  BY <1>4
<1> HIDE DEF c, k, l
<1>6. /\ t \in States /\ t.lanes = s.lanes
      /\ t.level = [s.level EXCEPT ![c] = k]
      /\ t.status = [s.status EXCEPT ![c] = "queued"]
  BY <1>1, <1>2 DEF States
<1> HIDE DEF t
<1>7. Push(s, id) = u
  BY <1>3, <1>6 DEF Push, l
<1> HIDE DEF q
<1>8. /\ u \in States /\ u.level = t.level /\ u.status = t.status
      /\ \A m \in LaneNames :
           /\ u.lanes[m].queue = IF m = l THEN q ELSE t.lanes[m].queue
           /\ u.lanes[m].active = t.lanes[m].active
           /\ u.lanes[m].max = t.lanes[m].max
  <2>1. /\ u \in States /\ u.level = t.level /\ u.status = t.status
        /\ u.lanes[l].queue = q /\ u.lanes[l].active = t.lanes[l].active
        /\ u.lanes[l].max = t.lanes[l].max
        /\ \A m \in LaneNames \ {l} : u.lanes[m] = t.lanes[m]
    BY <1>1, <1>5, <1>6, QueueSet
  <2> HIDE DEF u
  <2> QED  BY <2>1
<1> HIDE DEF u
<1>9. \A m \in LaneNames :
        /\ Push(s, id).lanes[m].queue = IF m = l THEN Append(s.lanes[m].queue, id)
                                                 ELSE s.lanes[m].queue
        /\ Push(s, id).lanes[m].active = s.lanes[m].active
        /\ Push(s, id).lanes[m].max = s.lanes[m].max
  BY <1>6, <1>7, <1>8 DEF q
<1> QED  BY <1>6, <1>7, <1>8, <1>9 DEF c, k, l

LEMMA PushUnder ==
  ASSUME NEW s \in States, NEW id \in Ids, s.status[id[1]] # "queued",
         s.level[id[1]] = id[2] - 1, NEW x \in Ids
  PROVE  Under(Push(s, id), x) <=> Under(s, x)
<1> DEFINE t == Push(s, id)
<1>1. /\ t.level = [s.level EXCEPT ![id[1]] = id[2]]
      /\ t.status = [s.status EXCEPT ![id[1]] = "queued"]
  BY PushFields
<1>2. s.level \in [Commands -> 0 .. 3] /\ s.status \in [Commands -> Statuses]
  BY DEF States
<1>3. CASE x[1] # id[1]
  <2>1. t.level[x[1]] = s.level[x[1]] /\ t.status[x[1]] = s.status[x[1]]
    BY <1>1, <1>2, <1>3, IdParts
  <2> QED  BY <1>3, <2>1 DEF Under
<1>4. CASE x[1] = id[1]
  <2>1. t.level[x[1]] = id[2] /\ t.status[x[1]] = "queued"
    BY <1>1, <1>2, <1>4, IdParts
  <2>2. id[2] \in 1 .. 3 /\ x[2] \in 1 .. 3
    BY IdParts
  <2>3. Under(t, x) <=> id[2] >= x[2] /\ id[2] # x[2]
    BY <2>1 DEF Under
  <2>4. Under(s, x) <=> id[2] - 1 >= x[2]
    BY <1>4 DEF Under
  <2> QED  BY <2>2, <2>3, <2>4
<1> QED  BY <1>3, <1>4

LEMMA PushKeeps ==
  ASSUME NEW s, Consistent(s), NEW id \in Ids, s.status[id[1]] # "queued",
         s.level[id[1]] = id[2] - 1
  PROVE  LET t == Push(s, id)
         IN  /\ Consistent(t)
             /\ \A c \in Commands : t.status[c] = "held" =>
                  c # id[1] /\ s.status[c] = "held" /\ t.level[c] = s.level[c]
             /\ \A K : Owned(s, K) => Owned(t, K)
             /\ \A m \in LaneNames \ {LaneOf(id)} : Full(s, m) => Full(t, m)
<1> DEFINE t == Push(s, id)  c == id[1]  l == LaneOf(id)
<1>1. s \in States
  BY DEF Consistent
<1>2. /\ t \in States
      /\ t.level = [s.level EXCEPT ![c] = id[2]]
      /\ t.status = [s.status EXCEPT ![c] = "queued"]
      /\ \A m \in LaneNames :
           /\ t.lanes[m].queue = IF m = l THEN Append(s.lanes[m].queue, id)
                                          ELSE s.lanes[m].queue
           /\ t.lanes[m].active = s.lanes[m].active
           /\ t.lanes[m].max = s.lanes[m].max
  BY <1>1, PushFields
<1>3. /\ s.level \in [Commands -> 0 .. 3] /\ s.status \in [Commands -> Statuses]
      /\ c \in Commands /\ id[2] \in 1 .. 3 /\ id[2] <= Len(Path(c)) /\ l \in LaneNames
      /\ id = <<c, id[2]>>
  BY <1>1, IdParts, LaneFacts DEF States
<1> HIDE DEF t, c, l
<1>4. /\ t.level[c] = id[2] /\ t.status[c] = "queued"
      /\ \A d \in Commands \ {c} : t.level[d] = s.level[d] /\ t.status[d] = s.status[d]
  BY <1>2, <1>3
<1>5. LevelsFit(t)
  <2> SUFFICES ASSUME NEW d \in Commands
               PROVE  /\ t.level[d] <= Len(Path(d))
                      /\ t.level[d] = 0 <=> t.status[d] \in {"idle", "over"}
    BY DEF LevelsFit
  <2>1. CASE d = c
    BY <1>3, <1>4, <2>1
  <2>2. CASE d # c
    BY <1>4, <2>2 DEF Consistent, LevelsFit
  <2> QED  BY <2>1, <2>2
<1>6. ASSUME NEW m \in LaneNames, NEW i \in 1 .. Len(s.lanes[m].queue)
      PROVE  LET x == s.lanes[m].queue[i]
             IN  /\ LaneOf(x) = m
                 /\ t.level[x[1]] = x[2] /\ t.status[x[1]] = "queued"
                 /\ \A j \in 1 .. Len(s.lanes[m].queue) :
                      s.lanes[m].queue[j] = x => i = j
                 /\ x # id
  <2> DEFINE x == s.lanes[m].queue[i]
  <2>1. /\ LaneOf(x) = m /\ s.level[x[1]] = x[2] /\ s.status[x[1]] = "queued"
        /\ \A j \in 1 .. Len(s.lanes[m].queue) : s.lanes[m].queue[j] = x => i = j
    BY DEF Consistent, QueuesFit
  <2>2. s.lanes[m].queue \in Seq(Ids)
    BY <1>1, StateParts
  <2>3. x[1] \in Commands
    BY <2>2, IdParts
  <2>4. x[1] # c
    BY <2>1 DEF c
  <2> QED  BY <1>3, <1>4, <2>1, <2>3, <2>4 DEF c
<1>7. QueuesFit(t)
  <2> SUFFICES ASSUME NEW m \in LaneNames, NEW i \in 1 .. Len(t.lanes[m].queue)
               PROVE  LET x == t.lanes[m].queue[i]
                      IN  /\ LaneOf(x) = m
                          /\ t.level[x[1]] = x[2] /\ t.status[x[1]] = "queued"
                          /\ \A j \in 1 .. Len(t.lanes[m].queue) :
                               t.lanes[m].queue[j] = x => i = j
    BY DEF QueuesFit
  <2>1. CASE m # l
    <3> DEFINE q == s.lanes[m].queue  x == q[i]
    <3>1. t.lanes[m].queue = q
      BY <1>2, <2>1
    <3>2. i \in 1 .. Len(q)
      BY <3>1
    <3>3. /\ LaneOf(x) = m
          /\ t.level[x[1]] = x[2] /\ t.status[x[1]] = "queued"
          /\ \A j \in 1 .. Len(q) : q[j] = x => i = j
      BY <1>6, <3>2
    <3> HIDE DEF q
    <3> QED  BY <3>1, <3>3
  <2>2. CASE m = l
    <3> DEFINE q == s.lanes[m].queue  r == t.lanes[m].queue  n == Len(q)
    <3>1. q \in Seq(Ids) /\ r = Append(q, id) /\ n \in Nat
      <4>1. q \in Seq(Ids)
        BY <1>1, StateParts
      <4>2. r = Append(q, id)
        BY <1>2, <2>2
      <4> HIDE DEF q
      <4> QED  BY <4>1, <4>2
    <3>2. Len(r) = n + 1 /\ r[n + 1] = id /\ \A j \in 1 .. n : r[j] = q[j]
      <4> HIDE DEF q, r
      <4>1. q \in Seq(Ids) /\ r = Append(q, id) /\ Len(q) = n
        BY <3>1 DEF n
      <4> HIDE DEF n
      <4> QED  BY <4>1, AppendParts
    <3>3. \A j \in 1 .. Len(r) : j \in 1 .. n \/ j = n + 1
      <4>1. Len(r) = n + 1 /\ n \in Nat
        BY <3>1, <3>2
      <4> HIDE DEF r, n
      <4> QED  BY <4>1
    <3>4. CASE i = n + 1
      <4>1. r[i] = id
        BY <3>2, <3>4
      <4>2. \A j \in 1 .. Len(r) : r[j] = id => j = n + 1
        <5>1. ASSUME NEW j \in 1 .. n  PROVE r[j] # id
          <6>1. q[j] # id
            BY <1>6
          <6> QED  BY <3>2, <6>1
        <5> QED  BY <3>3, <5>1
      <4>3. LaneOf(id) = m /\ t.level[id[1]] = id[2] /\ t.status[id[1]] = "queued"
        BY <1>4, <2>2 DEF l, c
      <4> QED  BY <3>4, <4>1, <4>2, <4>3
    <3>5. CASE i \in 1 .. n
      <4>1. r[i] = q[i] /\ q[i] # id
        BY <1>6, <3>2, <3>5
      <4>2. \A j \in 1 .. n : q[j] = q[i] => i = j
        BY <1>6, <3>5
      <4>3. \A j \in 1 .. Len(r) : r[j] = q[i] => i = j
        BY <3>2, <3>3, <4>1, <4>2
      <4>4. LaneOf(q[i]) = m /\ t.level[q[i][1]] = q[i][2] /\ t.status[q[i][1]] = "queued"
        BY <1>6, <3>5
      <4> QED  BY <4>1, <4>3, <4>4
    <3> QED  BY <3>3, <3>4, <3>5
  <2> QED  BY <2>1, <2>2
<1>8. ActiveFit(t)
  <2> SUFFICES ASSUME NEW m \in LaneNames, NEW x \in s.lanes[m].active
               PROVE  LaneOf(x) = m /\ Under(t, x)
    BY <1>2 DEF ActiveFit
  <2>1. LaneOf(x) = m /\ Under(s, x) /\ x \in Ids
    BY <1>1, StateParts DEF Consistent, ActiveFit
  <2> QED  BY <1>1, <2>1, PushUnder DEF t
<1>9. OneSlot(t)
  <2>1. \A m \in Sessions : m \in LaneNames
    BY DEF LaneNames
  <2> QED  BY <1>2, <2>1 DEF Consistent, OneSlot
<1>10. ASSUME NEW d \in Commands, t.status[d] = "held"
       PROVE  d # id[1] /\ s.status[d] = "held" /\ t.level[d] = s.level[d]
  <2>1. d # c
    BY <1>4, <1>10
  <2> QED  BY <1>4, <1>10, <2>1 DEF c
<1>11. ASSUME NEW K, Owned(s, K)  PROVE Owned(t, K)
  <2> SUFFICES ASSUME NEW x \in Ids, Under(t, x), x \notin K
               PROVE  x \in t.lanes[LaneOf(x)].active
    BY DEF Owned
  <2>1. Under(s, x) /\ LaneOf(x) \in LaneNames
    BY <1>1, PushUnder, LaneFacts DEF t
  <2> QED  BY <1>2, <1>11, <2>1 DEF Owned
<1>12. ASSUME NEW m \in LaneNames \ {l}, Full(s, m)  PROVE Full(t, m)
  BY <1>2, <1>12 DEF Full, FreeSlots
<1>13. Consistent(t)
  BY <1>2, <1>5, <1>7, <1>8, <1>9 DEF Consistent
<1> QED  BY <1>10, <1>11, <1>12, <1>13 DEF t, l

-----------------------------------------------------------------------------
(* drainLane *)

Good(s, K) == Consistent(s) /\ Calm(s) /\ Owned(s, K)

\* What drainLane calls: pump, and, when the task of a session's lane starts, the
\* refusal or the push for its global lane.
LEMMA DrainCases ==
  ASSUME NEW s, Consistent(s), NEW l \in LaneNames, NEW refused
  PROVE  LET u == Pump(s, l)
             t == drainLane(s, l, refused)
         IN  \/ t = u /\ (l \notin Sessions \/ Starting(s, l) = {})
             \/ /\ l \in Sessions
                /\ \E inner \in Ids :
                     /\ LaneOf(inner) \notin Sessions
                     /\ u.level[inner[1]] = inner[2] - 1
                     /\ u.status[inner[1]] # "queued"
                     /\ inner \notin u.lanes[LaneOf(inner)].active
                     /\ \A c \in Commands \ {inner[1]} :
                          u.status[c] = s.status[c] /\ u.level[c] = s.level[c]
                     /\ IF inner[1] \in refused
                          THEN t = Return(u, inner)
                          ELSE t = Pump(Push(u, inner), LaneOf(inner))
<1> DEFINE u == Pump(s, l)  t == drainLane(s, l, refused)
           started == u.lanes[l].active \ s.lanes[l].active
           id == CHOOSE x \in started : TRUE
           inner == <<id[1], id[2] + 1>>
<1>1. t = IF l \notin Sessions \/ started = {} THEN u
          ELSE IF id[1] \in refused THEN Return(u, inner)
          ELSE Pump(Push(u, inner), LaneOf(inner))
  BY DEF drainLane
<1>2. s \in States /\ u.lanes[l].active = s.lanes[l].active \cup Starting(s, l)
  BY PumpFields DEF Consistent
<1>3. started = Starting(s, l)
  BY <1>2, StartingCount
<1>4. CASE l \notin Sessions \/ Starting(s, l) = {}
  BY <1>1, <1>3, <1>4
<1>5. CASE l \in Sessions /\ Starting(s, l) # {}
  <2>1. id \in Starting(s, l)
    BY <1>3, <1>5
  <2> HIDE DEF id
  <2>2. /\ id \in Ids /\ LaneOf(id) = l
        /\ s.level[id[1]] = id[2] /\ s.status[id[1]] = "queued"
    BY <2>1, StartingFacts
  <2>3. id[1] \in Commands /\ id[2] \in 1 .. 3 /\ id[2] = Len(Path(id[1])) - 1
        /\ Len(Path(id[1])) \in {2, 3}
    BY <1>5, <2>2, IdParts, LaneFacts, PathLength
  <2>4. inner \in Ids /\ inner[1] = id[1] /\ inner[2] = id[2] + 1
        /\ inner[2] = Len(Path(inner[1]))
    <3>1. id[2] + 1 = Len(Path(id[1]))
      BY <2>3
    <3>2. id[2] + 1 \in 1 .. 3 /\ id[2] + 1 <= Len(Path(id[1]))
      BY <2>3, <3>1
    <3> QED  BY <2>3, <3>1, <3>2, IdMade
  <2> HIDE DEF inner
  <2>5. LaneOf(inner) \in LaneNames /\ LaneOf(inner) \in {"main", "nested"}
    BY <2>4, LaneFacts
  <2>6. LaneOf(inner) \notin Sessions
    BY <2>5, CommandQueueConstants
  <2>7. u.level[id[1]] = id[2] /\ u.status[id[1]] # "queued"
    BY <2>1, <2>2, <2>3, PumpStatuses
  <2>8. inner \notin u.lanes[LaneOf(inner)].active
    <3>1. ~Under(u, inner)
      BY <2>3, <2>4, <2>7 DEF Under
    <3> QED  BY <2>5, <3>1, PumpConsistent DEF Consistent, ActiveFit
  <2>9. ASSUME NEW c \in Commands, c # id[1]
        PROVE  u.status[c] = s.status[c] /\ u.level[c] = s.level[c]
    <3>1. \A x \in Starting(s, l) : x = id
      BY <1>5, <2>1, SessionStart
    <3> QED  BY <2>9, <3>1, PumpStatuses
  <2>10. IF inner[1] \in refused THEN t = Return(u, inner)
                                 ELSE t = Pump(Push(u, inner), LaneOf(inner))
    BY <1>1, <1>3, <1>5, <2>4
  <2>11. u.level[inner[1]] = inner[2] - 1 /\ u.status[inner[1]] # "queued"
    BY <2>3, <2>4, <2>7
  <2> HIDE DEF u, t
  <2> QED  BY <1>5, <2>4, <2>6, <2>8, <2>9, <2>10, <2>11 DEF u, t
<1> QED  BY <1>4, <1>5

\* Whatever was so for the lanes is so again, and nothing waits in l any more.
LEMMA DrainKeeps ==
  ASSUME NEW s, NEW K, Good(s, K), NEW l \in LaneNames, NEW refused
  PROVE  LET t == drainLane(s, l, refused)
         IN  /\ Good(t, K)
             /\ Full(t, l)
             /\ \A m \in LaneNames : Full(s, m) => Full(t, m)
<1> DEFINE u == Pump(s, l)  t == drainLane(s, l, refused)
<1>1. Consistent(s) /\ Calm(s) /\ Owned(s, K)
  BY DEF Good
<1>2. Consistent(u) /\ Owned(u, K) /\ u \in States
  BY <1>1, PumpConsistent, PumpOwned DEF Consistent
<1>3. Full(u, l) /\ \A m \in LaneNames : Full(s, m) => Full(u, m)
  BY <1>1, PumpFull
<1>4. ASSUME t = u, l \notin Sessions \/ Starting(s, l) = {}
      PROVE  Good(t, K) /\ Full(t, l) /\ \A m \in LaneNames : Full(s, m) => Full(t, m)
  <2>1. Calm(u)
    <3>1. CASE l \notin Sessions
      BY <1>1, <3>1, PumpCalm
    <3>2. CASE Starting(s, l) = {}
      <4>1. \A c \in Commands : u.status[c] = s.status[c] /\ u.level[c] = s.level[c]
        BY <1>1, <3>2, PumpStatuses
      <4> QED  BY <1>1, <4>1 DEF Calm
    <3> QED  BY <1>4, <3>1, <3>2
  <2> HIDE DEF u, t
  <2> QED  BY <1>2, <1>3, <1>4, <2>1 DEF Good
<1>5. ASSUME l \in Sessions, NEW inner \in Ids,
             LaneOf(inner) \notin Sessions,
             u.level[inner[1]] = inner[2] - 1,
             u.status[inner[1]] # "queued",
             inner \notin u.lanes[LaneOf(inner)].active,
             \A c \in Commands \ {inner[1]} :
               u.status[c] = s.status[c] /\ u.level[c] = s.level[c],
             IF inner[1] \in refused
               THEN t = Return(u, inner)
               ELSE t = Pump(Push(u, inner), LaneOf(inner))
      PROVE  Good(t, K) /\ Full(t, l) /\ \A m \in LaneNames : Full(s, m) => Full(t, m)
  <2> HIDE DEF u, t
  <2>1. LaneOf(inner) \in LaneNames
    BY LaneFacts
  <2>2. CASE inner[1] \in refused
    <3> DEFINE v == Return(u, inner)
    <3>1. /\ Consistent(v)
          /\ \A c \in Commands : v.status[c] = "held" =>
               c # inner[1] /\ u.status[c] = "held" /\ v.level[c] = u.level[c]
          /\ \A L : Owned(u, L \cup {inner}) => Owned(v, L)
      BY <1>2, <1>5, ReturnKeeps
    <3>2. v.lanes = u.lanes
      BY <1>2, ReturnFields
    <3> HIDE DEF v
    <3>3. t = v
      BY <1>5, <2>2 DEF v
    <3>4. Calm(v)
      BY <1>1, <1>5, <3>1 DEF Calm
    <3>5. Owned(u, K \cup {inner})
      BY <1>2 DEF Owned
    <3>6. \A m \in LaneNames : Full(u, m) => Full(v, m)
      BY <3>2 DEF Full
    <3>7. Full(v, l)
      BY <1>3, <3>6
    <3> QED  BY <1>3, <3>1, <3>3, <3>4, <3>5, <3>6, <3>7 DEF Good
  <2>3. CASE inner[1] \notin refused
    <3> DEFINE v == Push(u, inner)  g == LaneOf(inner)  w == Pump(v, g)
    <3>1. /\ Consistent(v)
          /\ \A c \in Commands : v.status[c] = "held" =>
               c # inner[1] /\ u.status[c] = "held" /\ v.level[c] = u.level[c]
          /\ \A L : Owned(u, L) => Owned(v, L)
          /\ \A m \in LaneNames \ {g} : Full(u, m) => Full(v, m)
      BY <1>2, <1>5, PushKeeps
    <3> HIDE DEF v
    <3>2. Calm(v)
      BY <1>1, <1>5, <3>1 DEF Calm
    <3>3. Consistent(w) /\ Calm(w) /\ Owned(w, K)
      BY <1>2, <1>5, <2>1, <3>1, <3>2, PumpConsistent, PumpCalm, PumpOwned
    <3>4. Full(w, g) /\ \A m \in LaneNames \ {g} : Full(v, m) => Full(w, m)
      BY <2>1, <3>1, PumpFull
    <3>5. t = w
      BY <1>5, <2>3 DEF v
    <3>6. g # l
      BY <1>5
    <3> HIDE DEF w, g
    <3> QED  BY <1>3, <3>1, <3>3, <3>4, <3>5, <3>6 DEF Good
  <2> QED  BY <2>2, <2>3
<1> HIDE DEF u, t
<1>6. \/ t = u /\ (l \notin Sessions \/ Starting(s, l) = {})
      \/ /\ l \in Sessions
         /\ \E inner \in Ids :
              /\ LaneOf(inner) \notin Sessions
              /\ u.level[inner[1]] = inner[2] - 1
              /\ u.status[inner[1]] # "queued"
              /\ inner \notin u.lanes[LaneOf(inner)].active
              /\ \A c \in Commands \ {inner[1]} :
                   u.status[c] = s.status[c] /\ u.level[c] = s.level[c]
              /\ IF inner[1] \in refused
                   THEN t = Return(u, inner)
                   ELSE t = Pump(Push(u, inner), LaneOf(inner))
  BY <1>1, DrainCases DEF u, t
<1>7. Good(t, K) /\ Full(t, l) /\ \A m \in LaneNames : Full(s, m) => Full(t, m)
  BY <1>4, <1>5, <1>6
<1> QED  BY <1>7 DEF t

\* While everyone is refused, what is waited for stays active or ends.
LEMMA DrainAwaits ==
  ASSUME NEW s, NEW W \in SUBSET Ids, Consistent(s), Awaited(s, W), NEW l \in LaneNames
  PROVE  LET t == drainLane(s, l, Commands)
         IN  /\ Awaited(t, W)
             /\ Apart(s, W) => Apart(t, W)
<1> DEFINE u == Pump(s, l)  t == drainLane(s, l, Commands)
<1>1. Consistent(u) /\ Awaited(u, W) /\ (Apart(s, W) => Apart(u, W)) /\ u \in States
  BY PumpConsistent, PumpAwaited DEF Consistent
<1>2. CASE t = u
  BY <1>1, <1>2
<1>3. ASSUME NEW inner \in Ids,
             u.level[inner[1]] = inner[2] - 1,
             u.status[inner[1]] # "queued",
             inner \notin u.lanes[LaneOf(inner)].active,
             t = Return(u, inner)
      PROVE  Awaited(t, W) /\ (Apart(s, W) => Apart(t, W))
  <2> HIDE DEF u, t
  <2>1. Awaited(u, W \ {inner})
    BY <1>1 DEF Awaited
  <2>2. Awaited(t, W)
    BY <1>1, <1>3, <2>1, ReturnKeeps
  <2>3. t.lanes = u.lanes
    BY <1>1, <1>3, ReturnFields
  <2> QED  BY <1>1, <2>2, <2>3 DEF Apart
<1>4. \A inner \in Ids : inner[1] \in Commands
  BY IdParts
<1> QED  BY <1>2, <1>3, <1>4, DrainCases

-----------------------------------------------------------------------------
(* enqueueCommandInLane *)

\* The entry id of a command one level up: pushed, or refused.
LEMMA EnqueueKeeps ==
  ASSUME NEW s, NEW K, Good(s, K), NEW id \in Ids, NEW refused,
         s.status[id[1]] # "queued", s.level[id[1]] = id[2] - 1,
         \A m \in LaneNames : Full(s, m)
  PROVE  LET t == enqueueCommandInLane(s, id, refused)
         IN  Good(t, K) /\ \A m \in LaneNames : Full(t, m)
<1> DEFINE t == enqueueCommandInLane(s, id, refused)  l == LaneOf(id)
<1>1. Consistent(s) /\ Calm(s) /\ Owned(s, K) /\ s \in States /\ l \in LaneNames
  BY LaneFacts DEF Good, Consistent
<1>2. id \notin s.lanes[l].active
  <2>1. s.level[id[1]] < id[2]
    BY IdParts
  <2>2. ~Under(s, id)
    BY <2>1, IdParts DEF Under
  <2> QED  BY <1>1, <2>2 DEF Consistent, ActiveFit
<1>3. CASE id[1] \in refused
  <2> DEFINE v == Return(s, id)
  <2>1. t = v
    BY <1>3 DEF enqueueCommandInLane
  <2>2. /\ Consistent(v)
        /\ \A c \in Commands : v.status[c] = "held" =>
             c # id[1] /\ s.status[c] = "held" /\ v.level[c] = s.level[c]
        /\ \A L : Owned(s, L \cup {id}) => Owned(v, L)
    BY <1>1, <1>2, ReturnKeeps
  <2>3. v.lanes = s.lanes
    BY <1>1, ReturnFields
  <2> HIDE DEF v, t
  <2>4. Calm(v)
    BY <1>1, <2>2 DEF Calm
  <2>5. Owned(v, K)
    BY <1>1, <2>2 DEF Owned
  <2>6. \A m \in LaneNames : Full(v, m)
    BY <2>3 DEF Full
  <2> QED  BY <2>1, <2>2, <2>4, <2>5, <2>6 DEF Good, t
<1>4. CASE id[1] \notin refused
  <2> DEFINE v == Push(s, id)
  <2>1. t = drainLane(v, l, refused)
    BY <1>4 DEF enqueueCommandInLane
  <2>2. /\ Consistent(v)
        /\ \A c \in Commands : v.status[c] = "held" =>
             c # id[1] /\ s.status[c] = "held" /\ v.level[c] = s.level[c]
        /\ \A L : Owned(s, L) => Owned(v, L)
        /\ \A m \in LaneNames \ {l} : Full(s, m) => Full(v, m)
    BY <1>1, PushKeeps
  <2> HIDE DEF v, t, l
  <2>3. Good(v, K)
    BY <1>1, <2>2 DEF Calm, Good
  <2>4. /\ Good(t, K) /\ Full(t, l)
        /\ \A m \in LaneNames : Full(v, m) => Full(t, m)
    BY <1>1, <2>1, <2>3, DrainKeeps
  <2> QED  BY <2>2, <2>4 DEF t
<1> QED  BY <1>3, <1>4

LEMMA EnqueueAwaits ==
  ASSUME NEW s, NEW W \in SUBSET Ids, Consistent(s), Awaited(s, W), NEW id \in Ids,
         s.status[id[1]] # "queued", s.level[id[1]] = id[2] - 1
  PROVE  LET t == enqueueCommandInLane(s, id, Commands)
         IN  Awaited(t, W) /\ (Apart(s, W) => Apart(t, W))
<1> DEFINE t == Return(s, id)
<1>1. enqueueCommandInLane(s, id, Commands) = t
  BY IdParts DEF enqueueCommandInLane
<1>2. s \in States
  BY DEF Consistent
<1>3. id \notin s.lanes[LaneOf(id)].active
  <2>1. ~Under(s, id)
    BY IdParts DEF Under
  <2> QED  BY <2>1, LaneFacts DEF Consistent, ActiveFit
<1>4. Awaited(s, W \ {id})
  BY DEF Awaited
<1>5. Awaited(t, W)
  BY <1>3, <1>4, ReturnKeeps
<1>6. t.lanes = s.lanes
  BY <1>2, ReturnFields
<1> HIDE DEF t
<1> QED  BY <1>1, <1>5, <1>6 DEF Apart

-----------------------------------------------------------------------------
(* A slot is freed, a lane is cleared, maxConcurrent is set *)

LEMMA QueuesSame ==
  ASSUME NEW s, NEW t, QueuesFit(s), t.level = s.level, t.status = s.status,
         \A m \in LaneNames : t.lanes[m].queue = s.lanes[m].queue
  PROVE  QueuesFit(t)
<1> SUFFICES ASSUME NEW m \in LaneNames, NEW i \in 1 .. Len(t.lanes[m].queue)
             PROVE  LET id == t.lanes[m].queue[i]
                    IN  /\ LaneOf(id) = m
                        /\ t.level[id[1]] = id[2] /\ t.status[id[1]] = "queued"
                        /\ \A j \in 1 .. Len(t.lanes[m].queue) :
                             t.lanes[m].queue[j] = id => i = j
  BY DEF QueuesFit
<1> DEFINE q == s.lanes[m].queue  id == q[i]
<1>1. t.lanes[m].queue = q /\ i \in 1 .. Len(q)
  OBVIOUS
<1>2. /\ LaneOf(id) = m
      /\ s.level[id[1]] = id[2] /\ s.status[id[1]] = "queued"
      /\ \A j \in 1 .. Len(q) : q[j] = id => i = j
  BY <1>1 DEF QueuesFit
<1> HIDE DEF q
<1> QED  BY <1>1, <1>2

\* completeTask of an active task, and its promise.
LEMMA FreedKeeps ==
  ASSUME NEW s, NEW K, Good(s, K), NEW id \in Ids,
         s.status[id[1]] # "queued", s.level[id[1]] = id[2],
         id \in s.lanes[LaneOf(id)].active
  PROVE  LET freed == [s EXCEPT !.lanes[LaneOf(id)].active = @ \ {id}]
             t == Return(freed, id)
         IN  /\ Good(t, K)
             /\ \A m \in LaneNames \ {LaneOf(id)} : Full(s, m) => Full(t, m)
             /\ \A W \in SUBSET Ids :
                  /\ Awaited(s, W) => Awaited(t, W)
                  /\ Apart(s, W) => Apart(freed, W)
                  /\ Apart(freed, W) => Apart(t, W)
<1> DEFINE l == LaneOf(id)  freed == [s EXCEPT !.lanes[l].active = @ \ {id}]
           t == Return(freed, id)
<1>1. Consistent(s) /\ Calm(s) /\ Owned(s, K) /\ s \in States /\ l \in LaneNames
  BY LaneFacts DEF Good, Consistent
<1>2. /\ freed \in States /\ freed.level = s.level /\ freed.status = s.status
      /\ \A m \in LaneNames \ {l} : freed.lanes[m] = s.lanes[m]
      /\ freed.lanes[l].active = s.lanes[l].active \ {id}
      /\ freed.lanes[l].queue = s.lanes[l].queue
      /\ freed.lanes[l].max = s.lanes[l].max
  BY <1>1, ActiveLess
<1> HIDE DEF freed
<1>3. /\ \A m \in LaneNames : /\ freed.lanes[m].queue = s.lanes[m].queue
                              /\ freed.lanes[m].max = s.lanes[m].max
                              /\ freed.lanes[m].active \subseteq s.lanes[m].active
      /\ \A m \in LaneNames : \A x : x # id =>
           (x \in freed.lanes[m].active <=> x \in s.lanes[m].active)
  BY <1>2
<1>4. \A x : Under(freed, x) <=> Under(s, x)
  BY <1>2 DEF Under
<1>5. Consistent(freed)
  <2>1. LevelsFit(freed)
    BY <1>1, <1>2 DEF Consistent, LevelsFit
  <2>2. QueuesFit(freed)
    BY <1>1, <1>2, <1>3, QueuesSame DEF Consistent
  <2>3. ActiveFit(freed)
    BY <1>1, <1>3, <1>4 DEF Consistent, ActiveFit
  <2>4. OneSlot(freed)
    <3>1. \A m \in Sessions : m \in LaneNames
      BY DEF LaneNames
    <3> QED  BY <1>1, <1>3, <3>1 DEF Consistent, OneSlot
  <2> QED  BY <1>2, <2>1, <2>2, <2>3, <2>4 DEF Consistent
<1>6. Owned(freed, K \cup {id})
  <2> SUFFICES ASSUME NEW x \in Ids, Under(freed, x), x \notin K \cup {id}
               PROVE  x \in freed.lanes[LaneOf(x)].active
    BY DEF Owned
  <2>1. x \in s.lanes[LaneOf(x)].active /\ x # id
    BY <1>1, <1>4 DEF Owned
  <2> QED  BY <1>3, <2>1, LaneFacts
<1>7. /\ Consistent(t)
      /\ \A c \in Commands : t.status[c] = "held" =>
           c # id[1] /\ freed.status[c] = "held" /\ t.level[c] = freed.level[c]
      /\ \A L : Owned(freed, L \cup {id}) => Owned(t, L)
      /\ \A W \in SUBSET Ids : Awaited(freed, W \ {id}) => Awaited(t, W)
  <2>1. /\ freed.status[id[1]] # "queued" /\ freed.level[id[1]] = id[2]
        /\ id \notin freed.lanes[LaneOf(id)].active
    BY <1>2
  <2> QED  BY <1>5, <2>1, ReturnKeeps
<1>8. t.lanes = freed.lanes
  BY <1>2, ReturnFields
<1> HIDE DEF t, l
<1>9. Good(t, K)
  BY <1>1, <1>2, <1>6, <1>7 DEF Good, Calm
<1>10. ASSUME NEW m \in LaneNames \ {l}, Full(s, m)  PROVE Full(t, m)
  BY <1>2, <1>8, <1>10 DEF Full
<1>11. ASSUME NEW W \in SUBSET Ids
       PROVE  /\ Awaited(s, W) => Awaited(t, W)
              /\ Apart(s, W) => Apart(freed, W)
              /\ Apart(freed, W) => Apart(t, W)
  <2>1. Awaited(s, W) => Awaited(freed, W \ {id})
    <3> SUFFICES ASSUME Awaited(s, W), NEW x \in W \ {id}
                 PROVE  x \in freed.lanes[LaneOf(x)].active \/ freed.level[x[1]] < x[2]
      BY DEF Awaited
    <3>1. x \in s.lanes[LaneOf(x)].active \/ s.level[x[1]] < x[2]
      BY DEF Awaited
    <3>2. LaneOf(x) \in LaneNames
      BY LaneFacts
    <3> QED  BY <1>2, <1>3, <3>1, <3>2
  <2> QED  BY <1>3, <1>7, <1>8, <2>1 DEF Apart
<1> QED  BY <1>9, <1>10, <1>11 DEF freed, t, l

\* A lane that belongs to no session gets another maxConcurrent.
LEMMA MaxKeeps ==
  ASSUME NEW s, NEW K, Good(s, K), NEW l \in LaneNames, l \notin Sessions,
         NEW v \in Nat \ {0}
  PROVE  LET t == [s EXCEPT !.lanes[l].max = v]
         IN  /\ Good(t, K)
             /\ \A m \in LaneNames \ {l} : Full(s, m) => Full(t, m)
             /\ \A W \in SUBSET Ids :
                  /\ Awaited(s, W) => Awaited(t, W)
                  /\ Apart(s, W) => Apart(t, W)
<1> DEFINE t == [s EXCEPT !.lanes[l].max = v]
<1>1. Consistent(s) /\ Calm(s) /\ Owned(s, K) /\ s \in States
  BY DEF Good, Consistent
<1>2. /\ t \in States /\ t.level = s.level /\ t.status = s.status
      /\ \A m \in LaneNames \ {l} : t.lanes[m] = s.lanes[m]
      /\ t.lanes[l].queue = s.lanes[l].queue
      /\ t.lanes[l].active = s.lanes[l].active
  BY <1>1, MaxSet
<1> HIDE DEF t
<1>3. \A m \in LaneNames : /\ t.lanes[m].queue = s.lanes[m].queue
                           /\ t.lanes[m].active = s.lanes[m].active
  BY <1>2
<1>4. \A x : Under(t, x) <=> Under(s, x)
  BY <1>2 DEF Under
<1>5. Consistent(t)
  <2>1. LevelsFit(t)
    BY <1>1, <1>2 DEF Consistent, LevelsFit
  <2>2. QueuesFit(t)
    BY <1>1, <1>2, <1>3, QueuesSame DEF Consistent
  <2>3. ActiveFit(t)
    BY <1>1, <1>3, <1>4 DEF Consistent, ActiveFit
  <2>4. OneSlot(t)
    <3>1. \A m \in Sessions : m \in LaneNames \ {l}
      BY DEF LaneNames
    <3> QED  BY <1>1, <1>2, <3>1 DEF Consistent, OneSlot
  <2> QED  BY <1>2, <2>1, <2>2, <2>3, <2>4 DEF Consistent
<1>6. Calm(t)
  BY <1>1, <1>2 DEF Calm
<1>7. Owned(t, K)
  BY <1>1, <1>3, <1>4, LaneFacts DEF Owned
<1>8. \A m \in LaneNames \ {l} : Full(s, m) => Full(t, m)
  BY <1>2 DEF Full
<1>9. ASSUME NEW W \in SUBSET Ids
      PROVE  (Awaited(s, W) => Awaited(t, W)) /\ (Apart(s, W) => Apart(t, W))
  <2>1. \A x \in W : LaneOf(x) \in LaneNames
    BY LaneFacts
  <2> QED  BY <1>2, <1>3, <2>1 DEF Awaited, Apart
<1> QED  BY <1>5, <1>6, <1>7, <1>8, <1>9 DEF t, Good

-----------------------------------------------------------------------------
(* The steps *)

LEMMA HereAfter ==
  ASSUME NEW t \in States, Becomes(t)
  PROVE  Here' = t
BY DEF Becomes, Here, States

LEMMA HereNow ==
  ASSUME LaneInvariant
  PROVE  /\ Good(Here, carried) /\ Here \in States
         /\ Here.lanes = lanes /\ Here.level = level /\ Here.status = status
         /\ \A m \in LaneNames : Full(Here, m)
BY DEF LaneInvariant, Good, Consistent, Here

\* What has to be shown of a step that leaves the restart alone.
LEMMA StepKeeps ==
  ASSUME LaneInvariant, WaitInvariant, NEW t, Becomes(t), Good(t, carried),
         \A m \in LaneNames : Full(t, m),
         UNCHANGED <<phase, waiting, drained, carried>>,
         phase # "serving" => /\ Awaited(t, waiting)
                              /\ Apart(Here, waiting) => Apart(t, waiting),
         phase = "draining" /\ "tasks" \notin waits' =>
           "tasks" \notin waits \/ Apart(t, waiting)
  PROVE  LaneInvariant' /\ WaitInvariant'
<1>1. t \in States
  BY DEF Good, Consistent
<1>2. Here' = t
  BY <1>1, HereAfter
<1>3. LaneInvariant'
  BY <1>2 DEF LaneInvariant, Good
<1>4. WaitInvariant'
  BY <1>2 DEF WaitInvariant
<1> QED  BY <1>3, <1>4

LEMMA RefusedAll ==
  ASSUME phase # "serving"
  PROVE  Refused = Commands
BY DEF Refused, gatewayDraining

\* A step that enqueues one entry, of a command one level up.
LEMMA EnqueueStep ==
  ASSUME LaneInvariant, WaitInvariant, NEW id \in Ids,
         status[id[1]] # "queued", level[id[1]] = id[2] - 1,
         Becomes(enqueueCommandInLane(Here, id, Refused)),
         UNCHANGED <<Gateway, waits>>
  PROVE  LaneInvariant' /\ WaitInvariant'
<1> DEFINE t == enqueueCommandInLane(Here, id, Refused)
<1>1. /\ Good(Here, carried) /\ Consistent(Here)
      /\ Here.status[id[1]] # "queued" /\ Here.level[id[1]] = id[2] - 1
      /\ \A m \in LaneNames : Full(Here, m)
  BY HereNow DEF Good
<1>2. Good(t, carried) /\ \A m \in LaneNames : Full(t, m)
  BY <1>1, EnqueueKeeps
<1>3. ASSUME phase # "serving"
      PROVE  Awaited(t, waiting) /\ (Apart(Here, waiting) => Apart(t, waiting))
  <2>1. waiting \in SUBSET Ids /\ Awaited(Here, waiting)
    BY <1>3 DEF WaitInvariant
  <2> QED  BY <1>1, <1>3, <2>1, EnqueueAwaits, RefusedAll
<1>4. Becomes(t)
  OBVIOUS
<1> HIDE DEF t
<1> QED  BY <1>2, <1>3, <1>4, StepKeeps DEF Gateway

LEMMA CallStep ==
  ASSUME LaneInvariant, WaitInvariant, NEW c \in Commands, Call(c)
  PROVE  LaneInvariant' /\ WaitInvariant'
<1> DEFINE id == <<c, 1>>
<1>1. id \in Ids
  <2>1. 1 \in 1 .. 3 /\ 1 <= Len(Path(c))
    BY PathLength
  <2> QED  BY <2>1, IdMade
<1>2. level[c] = 0 /\ status[c] = "idle"
  BY HereNow DEF Call, Good, Consistent, LevelsFit
<1>3. Becomes(enqueueCommandInLane(Here, id, Refused)) /\ UNCHANGED <<Gateway, waits>>
  BY DEF Call
<1> QED  BY <1>1, <1>2, <1>3, EnqueueStep

LEMMA RunAgentStep ==
  ASSUME LaneInvariant, WaitInvariant, NEW c \in Commands, RunAgent(c)
  PROVE  LaneInvariant' /\ WaitInvariant'
<1> DEFINE id == <<c, 2>>
<1>1. c \in CronJobs /\ level[c] = 1 /\ status[c] = "held"
  BY HereNow DEF RunAgent, Good, Calm
<1>2. id \in Ids
  <2>1. Len(Path(c)) = 3
    BY <1>1, PathLength
  <2>2. 2 \in 1 .. 3 /\ 2 <= Len(Path(c))
    BY <2>1
  <2> QED  BY <2>2, IdMade
<1>3. Becomes(enqueueCommandInLane(Here, id, Refused)) /\ UNCHANGED <<Gateway, waits>>
  BY DEF RunAgent
<1> QED  BY <1>1, <1>2, <1>3, EnqueueStep

LEMMA SettleStep ==
  ASSUME LaneInvariant, WaitInvariant, NEW c \in Commands, Settle(c)
  PROVE  LaneInvariant' /\ WaitInvariant'
<1> DEFINE id == <<c, level[c]>>  l == LaneOf(id)
           freed == [Here EXCEPT !.lanes[l].active = @ \ {id}]
<1>1. /\ status[c] \in Working \cup {"back"}
      /\ IF id \in lanes[l].active
           THEN Notify(freed) /\ Becomes(drainLane(Return(freed, id), l, Refused))
           ELSE Becomes(Return(Here, id)) /\ UNCHANGED waits
      /\ UNCHANGED <<Gateway, aborted, reloads>>
  BY DEF Settle
<1>2. /\ Good(Here, carried) /\ Consistent(Here) /\ Here \in States
      /\ Here.lanes = lanes /\ Here.level = level /\ Here.status = status
      /\ \A m \in LaneNames : Full(Here, m)
  BY HereNow DEF Good
<1>3. level[c] \in 1 .. 3 /\ level[c] <= Len(Path(c))
  <2>1. level[c] <= Len(Path(c)) /\ level[c] # 0 /\ level[c] \in 0 .. 3
    BY <1>1, <1>2 DEF Consistent, LevelsFit, States, Working
  <2> QED  BY <2>1
<1>4. id \in Ids /\ id[1] = c /\ id[2] = level[c] /\ l \in LaneNames
  BY <1>3, IdMade, LaneFacts
<1>5. Here.status[id[1]] # "queued" /\ Here.level[id[1]] = id[2]
  BY <1>1, <1>2, <1>4 DEF Working
<1>6. waiting \in SUBSET Ids /\ (phase # "serving" => Awaited(Here, waiting))
  BY DEF WaitInvariant
<1> HIDE DEF id
<1>7. CASE id \in lanes[l].active
  <2> DEFINE s == Return(freed, id)  t == drainLane(s, l, Refused)
  <2>1. /\ Good(s, carried)
        /\ \A m \in LaneNames \ {l} : Full(Here, m) => Full(s, m)
        /\ \A W \in SUBSET Ids :
             /\ Awaited(Here, W) => Awaited(s, W)
             /\ Apart(Here, W) => Apart(freed, W)
             /\ Apart(freed, W) => Apart(s, W)
    BY <1>2, <1>4, <1>5, <1>7, FreedKeeps
  <2>2. Becomes(t) /\ Notify(freed)
    BY <1>1, <1>7
  <2> HIDE DEF freed, s, l
  <2>3. /\ Good(t, carried) /\ Full(t, l)
        /\ \A m \in LaneNames : Full(s, m) => Full(t, m)
    BY <1>4, <2>1, DrainKeeps
  <2>4. \A m \in LaneNames : Full(t, m)
    BY <1>2, <2>1, <2>3
  <2>5. ASSUME phase # "serving"
        PROVE  Awaited(t, waiting) /\ (Apart(s, waiting) => Apart(t, waiting))
    BY <1>4, <1>6, <2>1, <2>5, DrainAwaits, RefusedAll DEF Good
  <2>6. "tasks" \notin waits' => "tasks" \notin waits \/ Apart(freed, waiting)
    BY <2>2 DEF Notify, Pending, Apart
  <2>7. Apart(Here, waiting) => Apart(s, waiting)
    BY <1>6, <2>1
  <2>8. Apart(freed, waiting) => Apart(s, waiting)
    BY <1>6, <2>1
  <2>9. UNCHANGED <<phase, waiting, drained, carried>>
    BY <1>1 DEF Gateway
  <2> HIDE DEF t
  <2> QED  BY <2>2, <2>3, <2>4, <2>5, <2>6, <2>7, <2>8, <2>9, StepKeeps
<1>8. CASE id \notin lanes[l].active
  <2> DEFINE t == Return(Here, id)
  <2>1. /\ Consistent(t)
        /\ \A d \in Commands : t.status[d] = "held" =>
             d # id[1] /\ Here.status[d] = "held" /\ t.level[d] = Here.level[d]
        /\ \A L : Owned(Here, L \cup {id}) => Owned(t, L)
        /\ \A W \in SUBSET Ids : Awaited(Here, W \ {id}) => Awaited(t, W)
    BY <1>2, <1>4, <1>5, <1>8, ReturnKeeps
  <2>2. t.lanes = Here.lanes
    BY <1>2, <1>4, ReturnFields
  <2>3. Becomes(t) /\ UNCHANGED waits /\ UNCHANGED <<phase, waiting, drained, carried>>
    BY <1>1, <1>8 DEF Gateway
  <2> HIDE DEF t
  <2>4. Owned(t, carried)
    <3>1. Owned(Here, carried \cup {id})
      BY <1>2 DEF Good, Owned
    <3> QED  BY <2>1, <3>1
  <2>5. Good(t, carried)
    BY <1>2, <2>1, <2>4 DEF Good, Calm
  <2>6. \A m \in LaneNames : Full(t, m)
    BY <1>2, <2>2 DEF Full
  <2>7. ASSUME phase # "serving"
        PROVE  Awaited(t, waiting) /\ (Apart(Here, waiting) => Apart(t, waiting))
    <3>1. Awaited(Here, waiting \ {id})
      BY <1>6, <2>7 DEF Awaited
    <3> QED  BY <1>6, <2>1, <2>2, <3>1 DEF Apart
  <2> QED  BY <2>3, <2>5, <2>6, <2>7, StepKeeps
<1> QED  BY <1>7, <1>8

LEMMA ClearStep ==
  ASSUME LaneInvariant, WaitInvariant, NEW l \in Sessions, clearCommandLane(l)
  PROVE  LaneInvariant' /\ WaitInvariant'
<1> DEFINE s == Here  t == Here'  gone == {id[1] : id \in Range(lanes[l].queue)}
<1>1. /\ lanes' = [lanes EXCEPT ![l].queue = <<>>]
      /\ level' = [c \in Commands |-> IF c \in gone THEN level[c] - 1 ELSE level[c]]
      /\ status' = [c \in Commands |->
             IF c \notin gone THEN status[c] ELSE IF level[c] = 1 THEN "over" ELSE "back"]
      /\ UNCHANGED <<Gateway, waits, aborted, reloads>>
  BY DEF clearCommandLane
<1>2. /\ Consistent(s) /\ Calm(s) /\ Owned(s, carried) /\ s \in States
      /\ s.lanes = lanes /\ s.level = level /\ s.status = status
      /\ \A m \in LaneNames : Full(s, m)
  BY HereNow DEF Good
<1>3. t.lanes = lanes' /\ t.level = level' /\ t.status = status'
      /\ t = [lanes |-> lanes', level |-> level', status |-> status']
  BY DEF Here
<1>4. l \in LaneNames
  BY DEF LaneNames
<1>5. lanes \in [LaneNames -> LaneStates] /\ level \in [Commands -> 0 .. 3]
      /\ status \in [Commands -> Statuses]
  BY <1>2 DEF States
<1>6. \A c \in gone : c \in Commands /\ status[c] = "queued" /\ level[c] \in 1 .. 3
                      /\ \E i \in 1 .. Len(lanes[l].queue) :
                           lanes[l].queue[i] = <<c, level[c]>>
  <2> SUFFICES ASSUME NEW id \in Range(lanes[l].queue)
               PROVE  /\ id[1] \in Commands /\ status[id[1]] = "queued"
                      /\ level[id[1]] \in 1 .. 3
                      /\ \E i \in 1 .. Len(lanes[l].queue) :
                           lanes[l].queue[i] = <<id[1], level[id[1]]>>
    OBVIOUS
  <2>1. lanes[l].queue \in Seq(Ids)
    BY <1>2, <1>4, StateParts
  <2>2. PICK i \in 1 .. Len(lanes[l].queue) : id = lanes[l].queue[i]
    BY <2>1 DEF Range
  <2>3. id \in Ids /\ level[id[1]] = id[2] /\ status[id[1]] = "queued"
    BY <1>2, <1>4, <2>1, <2>2 DEF Consistent, QueuesFit
  <2> QED  BY <2>2, <2>3, IdParts
<1>7. \A c \in Commands :
        IF c \in gone
          THEN t.level[c] = level[c] - 1 /\ t.status[c] = IF level[c] = 1 THEN "over" ELSE "back"
          ELSE t.level[c] = level[c] /\ t.status[c] = status[c]
  BY <1>1, <1>3
<1>8. /\ \A m \in LaneNames \ {l} : t.lanes[m] = s.lanes[m]
      /\ t.lanes[l].queue = <<>> /\ t.lanes[l].active = s.lanes[l].active
      /\ t.lanes[l].max = s.lanes[l].max
      /\ lanes' \in [LaneNames -> LaneStates]
  <2> HIDE DEF s, t, gone
  <2>1. <<>> \in Seq(Ids)
    OBVIOUS
  <2>2. lanes' = [lanes EXCEPT ![l].queue = <<>>]
    BY <1>1
  <2>3. lanes' \in [LaneNames -> LaneStates]
    BY <1>4, <1>5, <2>1, <2>2 DEF LaneStates
  <2>4. \A m \in LaneNames \ {l} : lanes'[m] = lanes[m]
    BY <1>5, <2>2
  <2>5. /\ lanes'[l].queue = <<>> /\ lanes'[l].active = lanes[l].active
        /\ lanes'[l].max = lanes[l].max
    BY <1>4, <1>5, <2>2 DEF LaneStates
  <2> QED  BY <1>2, <1>3, <2>3, <2>4, <2>5
<1> HIDE DEF gone, s, t
<1>9. t \in States
  <2>1. level' \in [Commands -> 0 .. 3]
    <3>1. \A c \in Commands : (IF c \in gone THEN level[c] - 1 ELSE level[c]) \in 0 .. 3
      BY <1>5, <1>6
    <3> QED  BY <1>1, <3>1
  <2>2. status' \in [Commands -> Statuses]
    BY <1>1, <1>5 DEF Statuses
  <2> QED  BY <1>3, <1>8, <2>1, <2>2 DEF States
<1>10. \A x \in Ids : Under(t, x) <=> Under(s, x)
  <2> SUFFICES ASSUME NEW x \in Ids  PROVE Under(t, x) <=> Under(s, x)
    OBVIOUS
  <2>1. x[1] \in Commands /\ x[2] \in 1 .. 3
    BY IdParts
  <2>2. CASE x[1] \in gone
    <3>1. /\ level[x[1]] \in 1 .. 3 /\ status[x[1]] = "queued"
          /\ t.level[x[1]] = level[x[1]] - 1 /\ t.status[x[1]] # "queued"
      BY <1>6, <1>7, <2>1, <2>2
    <3> QED  BY <1>2, <2>1, <3>1 DEF Under
  <2>3. CASE x[1] \notin gone
    BY <1>2, <1>7, <2>1, <2>3 DEF Under
  <2> QED  BY <2>2, <2>3
<1>11. LevelsFit(t)
  <2> SUFFICES ASSUME NEW c \in Commands
               PROVE  /\ t.level[c] <= Len(Path(c))
                      /\ t.level[c] = 0 <=> t.status[c] \in {"idle", "over"}
    BY DEF LevelsFit
  <2>1. level[c] <= Len(Path(c)) /\ (level[c] = 0 <=> status[c] \in {"idle", "over"})
    BY <1>2 DEF Consistent, LevelsFit
  <2>2. CASE c \in gone
    <3>1. level[c] \in 1 .. 3 /\ Len(Path(c)) \in Nat
      BY <1>6, <2>2, PathLength
    <3> QED  BY <1>7, <2>1, <2>2, <3>1
  <2>3. CASE c \notin gone
    BY <1>7, <2>1, <2>3
  <2> QED  BY <2>2, <2>3
<1>12. QueuesFit(t)
  <2> SUFFICES ASSUME NEW m \in LaneNames, NEW i \in 1 .. Len(t.lanes[m].queue)
               PROVE  LET id == t.lanes[m].queue[i]
                      IN  /\ LaneOf(id) = m
                          /\ t.level[id[1]] = id[2] /\ t.status[id[1]] = "queued"
                          /\ \A j \in 1 .. Len(t.lanes[m].queue) :
                               t.lanes[m].queue[j] = id => i = j
    BY DEF QueuesFit
  <2>1. m # l
    BY <1>8
  <2>2. t.lanes[m].queue = s.lanes[m].queue
    BY <1>8, <2>1
  <2> DEFINE id == s.lanes[m].queue[i]
  <2>3. /\ LaneOf(id) = m /\ level[id[1]] = id[2] /\ status[id[1]] = "queued"
        /\ \A j \in 1 .. Len(s.lanes[m].queue) : s.lanes[m].queue[j] = id => i = j
    BY <1>2, <2>2 DEF Consistent, QueuesFit
  <2>4. id \in Ids
    <3>1. s.lanes[m].queue \in Seq(Ids)
      BY <1>2, StateParts
    <3> QED  BY <2>2, <3>1
  <2>5. id[1] \notin gone
    <3> SUFFICES ASSUME id[1] \in gone  PROVE FALSE
      OBVIOUS
    <3>1. PICK k \in 1 .. Len(lanes[l].queue) :
            lanes[l].queue[k] = <<id[1], level[id[1]]>>
      BY <1>6
    <3>2. lanes[l].queue[k] = id
      BY <2>3, <2>4, <3>1, IdParts
    <3>3. LaneOf(id) = l
      BY <1>2, <1>4, <3>2 DEF Consistent, QueuesFit
    <3> QED  BY <2>1, <2>3, <3>3
  <2>6. t.level[id[1]] = id[2] /\ t.status[id[1]] = "queued"
    BY <1>7, <2>3, <2>4, <2>5, IdParts
  <2> HIDE DEF id
  <2>7. t.lanes[m].queue[i] = id
    BY <2>2 DEF id
  <2> QED  BY <2>2, <2>3, <2>6, <2>7
<1>13. \A m \in LaneNames : t.lanes[m].active = s.lanes[m].active /\ t.lanes[m].max = s.lanes[m].max
  BY <1>8
<1>14. ActiveFit(t)
  <2> SUFFICES ASSUME NEW m \in LaneNames, NEW id \in t.lanes[m].active
               PROVE  LaneOf(id) = m /\ Under(t, id)
    BY DEF ActiveFit
  <2>1. id \in s.lanes[m].active
    BY <1>13
  <2>2. id \in Ids
    BY <1>2, <2>1, StateParts
  <2> QED  BY <1>2, <1>10, <2>1, <2>2 DEF Consistent, ActiveFit
<1>15. OneSlot(t)
  <2>1. \A m \in Sessions : m \in LaneNames
    BY DEF LaneNames
  <2> QED  BY <1>2, <1>13, <2>1 DEF Consistent, OneSlot
<1>16. Calm(t)
  BY <1>2, <1>7 DEF Calm
<1>17. Owned(t, carried)
  BY <1>2, <1>10, <1>13, LaneFacts DEF Owned
<1>18. \A m \in LaneNames : Full(t, m)
  BY <1>2, <1>8 DEF Full
<1>19. LaneInvariant'
  <2>1. Consistent(t)
    BY <1>9, <1>11, <1>12, <1>14, <1>15 DEF Consistent
  <2>2. carried' = carried
    BY <1>1 DEF Gateway
  <2> QED  BY <1>16, <1>17, <1>18, <2>1, <2>2 DEF LaneInvariant, t
<1>20. WaitInvariant'
  <2>1. phase' = phase /\ waiting' = waiting /\ drained' = drained /\ waits' = waits
    BY <1>1 DEF Gateway
  <2>2. Apart(s, waiting) => Apart(t, waiting)
    BY <1>13 DEF Apart
  <2>3. ASSUME phase # "serving"  PROVE Awaited(t, waiting)
    <3> SUFFICES ASSUME NEW id \in waiting
                 PROVE  id \in t.lanes[LaneOf(id)].active \/ t.level[id[1]] < id[2]
      BY DEF Awaited
    <3>1. id \in Ids /\ LaneOf(id) \in LaneNames /\ id[1] \in Commands /\ id[2] \in 1 .. 3
      BY IdParts, LaneFacts DEF WaitInvariant
    <3>2. id \in s.lanes[LaneOf(id)].active \/ level[id[1]] < id[2]
      BY <1>2, <2>3 DEF WaitInvariant, Awaited, s
    <3>3. t.level[id[1]] <= level[id[1]] /\ t.level[id[1]] \in Nat /\ level[id[1]] \in Nat
      BY <1>5, <1>6, <1>7, <3>1
    <3> QED  BY <1>13, <3>1, <3>2, <3>3
  <2> QED  BY <2>1, <2>2, <2>3 DEF WaitInvariant, s, t
<1> QED  BY <1>19, <1>20

LEMMA ReloadStep ==
  ASSUME LaneInvariant, WaitInvariant, NEW cron \in Slots, NEW main \in Slots,
         Reload(cron, main)
  PROVE  LaneInvariant' /\ WaitInvariant'
<1> DEFINE a == [Here EXCEPT !.lanes["cron"].max = cron]
           s == drainLane(a, "cron", Refused)
           b == [s EXCEPT !.lanes["main"].max = main]
           t == drainLane(b, "main", Refused)
<1>1. Becomes(t) /\ UNCHANGED <<Gateway, waits, aborted>>
  BY DEF Reload
<1>2. /\ "cron" \in LaneNames /\ "main" \in LaneNames
      /\ "cron" \notin Sessions /\ "main" \notin Sessions
      /\ cron \in Nat \ {0} /\ main \in Nat \ {0}
  BY CommandQueueConstants DEF LaneNames
<1>3. Good(Here, carried) /\ \A m \in LaneNames : Full(Here, m)
  BY HereNow
<1>4. /\ Good(a, carried)
      /\ \A m \in LaneNames \ {"cron"} : Full(Here, m) => Full(a, m)
      /\ \A W \in SUBSET Ids :
           (Awaited(Here, W) => Awaited(a, W)) /\ (Apart(Here, W) => Apart(a, W))
  BY <1>2, <1>3, MaxKeeps
<1> HIDE DEF a
<1>5. /\ Good(s, carried) /\ Full(s, "cron")
      /\ \A m \in LaneNames : Full(a, m) => Full(s, m)
  BY <1>2, <1>4, DrainKeeps
<1> HIDE DEF s
<1>6. /\ Good(b, carried)
      /\ \A m \in LaneNames \ {"main"} : Full(s, m) => Full(b, m)
      /\ \A W \in SUBSET Ids :
           (Awaited(s, W) => Awaited(b, W)) /\ (Apart(s, W) => Apart(b, W))
  BY <1>2, <1>5, MaxKeeps
<1> HIDE DEF b
<1>7. /\ Good(t, carried) /\ Full(t, "main")
      /\ \A m \in LaneNames : Full(b, m) => Full(t, m)
  BY <1>2, <1>6, DrainKeeps
<1>8. ASSUME phase # "serving"
      PROVE  Awaited(t, waiting) /\ (Apart(Here, waiting) => Apart(t, waiting))
  <2>1. waiting \in SUBSET Ids /\ Awaited(Here, waiting) /\ Refused = Commands
    BY <1>8, RefusedAll DEF WaitInvariant
  <2>2. Awaited(a, waiting) /\ (Apart(Here, waiting) => Apart(a, waiting))
    BY <1>4, <2>1
  <2>3. Awaited(s, waiting) /\ (Apart(a, waiting) => Apart(s, waiting))
    BY <1>2, <1>4, <2>1, <2>2, DrainAwaits DEF Good, s
  <2>4. Awaited(b, waiting) /\ (Apart(s, waiting) => Apart(b, waiting))
    BY <1>6, <2>1, <2>3
  <2>5. Awaited(t, waiting) /\ (Apart(b, waiting) => Apart(t, waiting))
    BY <1>2, <1>6, <2>1, <2>4, DrainAwaits DEF Good
  <2> QED  BY <2>2, <2>3, <2>4, <2>5
<1> HIDE DEF t
<1>9. \A m \in LaneNames : Full(t, m)
  BY <1>3, <1>4, <1>5, <1>6, <1>7
<1>10. waits' = waits /\ UNCHANGED <<phase, waiting, drained, carried>>
  BY <1>1 DEF Gateway
<1> QED  BY <1>1, <1>7, <1>8, <1>9, <1>10, StepKeeps

\* Steps that leave the lanes alone.
LEMMA LanesAlone ==
  ASSUME LaneInvariant, WaitInvariant, UNCHANGED <<lanes, level, status, carried>>
  PROVE  LaneInvariant' /\ Here' = Here
BY DEF LaneInvariant, Here

LEMMA RequestStep ==
  ASSUME LaneInvariant, WaitInvariant, RequestRestart
  PROVE  LaneInvariant' /\ WaitInvariant'
<1>1. LaneInvariant' /\ Here' = Here
  BY LanesAlone DEF RequestRestart
<1>2. /\ phase' = "draining" /\ waiting' = ActiveIds
      /\ ActiveIds # {} => "tasks" \in waits'
  BY DEF RequestRestart
<1>3. Consistent(Here) /\ Here \in States /\ Here.lanes = lanes
  BY HereNow DEF Good
<1>4. ASSUME NEW id \in ActiveIds
      PROVE  id \in Ids /\ id \in Here.lanes[LaneOf(id)].active
  <2>1. PICK m \in LaneNames : id \in lanes[m].active
    BY DEF ActiveIds
  <2>2. LaneOf(id) = m
    BY <1>3, <2>1 DEF Consistent, ActiveFit
  <2> QED  BY <1>3, <2>1, <2>2, StateParts
<1>5. Awaited(Here, ActiveIds)
  BY <1>4 DEF Awaited
<1>6. ActiveIds = {} => Apart(Here, ActiveIds)
  BY DEF Apart
<1>7. ActiveIds \subseteq Ids
  BY <1>4
<1> HIDE DEF ActiveIds
<1> QED  BY <1>1, <1>2, <1>5, <1>6, <1>7 DEF WaitInvariant

LEMMA RunsDrainedStep ==
  ASSUME LaneInvariant, WaitInvariant, RunsDrained
  PROVE  LaneInvariant' /\ WaitInvariant'
<1>1. LaneInvariant' /\ Here' = Here
  BY LanesAlone DEF RunsDrained, Gateway
<1>2. /\ phase' = phase /\ waiting' = waiting /\ drained' = drained
      /\ "tasks" \notin waits' => "tasks" \notin waits
  BY DEF RunsDrained, Gateway
<1> QED  BY <1>1, <1>2 DEF WaitInvariant

LEMMA StopWaitingStep ==
  ASSUME LaneInvariant, WaitInvariant, StopWaiting
  PROVE  LaneInvariant' /\ WaitInvariant'
<1>1. LaneInvariant' /\ Here' = Here
  BY LanesAlone DEF StopWaiting
<1>2. /\ phase = "draining" /\ phase' = "closing" /\ waiting' = waiting
      /\ drained' => "tasks" \notin waits
  BY DEF StopWaiting
<1> QED  BY <1>1, <1>2 DEF WaitInvariant

LEMMA AbortStep ==
  ASSUME LaneInvariant, WaitInvariant, NEW c \in Commands, Abort(c)
  PROVE  LaneInvariant' /\ WaitInvariant'
<1>1. LaneInvariant' /\ Here' = Here
  BY LanesAlone DEF Abort, Gateway
<1>2. UNCHANGED <<phase, waiting, drained, waits>>
  BY DEF Abort, Gateway
<1> QED  BY <1>1, <1>2 DEF WaitInvariant

-----------------------------------------------------------------------------
(* resetAllLanes: the lanes are idle, and are drained one after the other *)

LEMMA LeastElement ==
  ASSUME NEW T \in SUBSET Nat, T # {}
  PROVE  \E n \in T : \A k \in T : n <= k
<1>1. \E n \in T : \A k \in T : ~(<<k, n>> \in OpToRel(<, Nat))
  BY NatLessThanWellFounded, WFMin
<1>2. PICK n \in T : \A k \in T : ~(<<k, n>> \in OpToRel(<, Nat))
  BY <1>1
<1>3. \A k \in T : ~(k < n)
  BY <1>2 DEF OpToRel
<1> QED  BY <1>3

LEMMA UpTo ==
  ASSUME NEW T, NEW N \in Nat, 0 \in T, \A n \in 1 .. N : n - 1 \in T => n \in T
  PROVE  \A n \in 0 .. N : n \in T
<1> SUFFICES ASSUME NEW m \in 0 .. N, m \notin T  PROVE FALSE
  OBVIOUS
<1> DEFINE U == {n \in 0 .. N : n \notin T}
<1>1. U \in SUBSET Nat /\ U # {}
  OBVIOUS
<1>2. PICK n \in U : \A k \in U : n <= k
  BY <1>1, LeastElement
<1>3. n \in 1 .. N /\ n - 1 \in 0 .. N /\ ~(n <= n - 1)
  BY <1>2
<1>4. n - 1 \notin U
  BY <1>2, <1>3
<1> QED  BY <1>2, <1>3, <1>4

\* f[i] is the record after the first i of the lanes have been drained.
Drains(s, n, f) ==
  f = [i \in 0 .. n |->
        IF i = 0 THEN s ELSE drainLane(f[i - 1], LaneOrder[i], aborted)]

\* There is such a function: the recursion is well founded.
LEMMA DrainsExists ==
  ASSUME NEW s, NEW N \in Nat
  PROVE  \E f : Drains(s, N, f)
<1> DEFINE T == {n \in 0 .. N : \E f : Drains(s, n, f)}
<1>1. 0 \in T
  <2>1. Drains(s, 0, [i \in 0 .. 0 |-> s])
    BY DEF Drains
  <2> QED  BY <2>1
<1>2. ASSUME NEW n \in 1 .. N, n - 1 \in T  PROVE n \in T
  <2>1. PICK f : Drains(s, n - 1, f)
    BY <1>2
  <2> DEFINE x == drainLane(f[n - 1], LaneOrder[n], aborted)
             g == [i \in 0 .. n |-> IF i = n THEN x ELSE f[i]]
  <2>2. \A i \in 0 .. n - 1 : g[i] = f[i]
    OBVIOUS
  <2>3. g[n] = drainLane(g[n - 1], LaneOrder[n], aborted)
    OBVIOUS
  <2>4. DOMAIN g = 0 .. n /\ g = [i \in 0 .. n |-> g[i]]
    OBVIOUS
  <2> HIDE DEF g, x
  <2>5. \A i \in 0 .. n - 1 :
          f[i] = IF i = 0 THEN s ELSE drainLane(f[i - 1], LaneOrder[i], aborted)
    BY <2>1 DEF Drains
  <2>6. \A i \in 0 .. n :
          g[i] = IF i = 0 THEN s ELSE drainLane(g[i - 1], LaneOrder[i], aborted)
    <3> SUFFICES ASSUME NEW i \in 0 .. n, i # n
                 PROVE  g[i] = IF i = 0 THEN s
                                 ELSE drainLane(g[i - 1], LaneOrder[i], aborted)
      BY <2>3
    <3>1. i \in 0 .. n - 1 /\ (i # 0 => i - 1 \in 0 .. n - 1)
      OBVIOUS
    <3> QED  BY <2>2, <2>5, <3>1
  <2>7. Drains(s, n, g)
    BY <2>4, <2>6 DEF Drains
  <2> QED  BY <2>7
<1> HIDE DEF T
<1>3. N \in T
  BY <1>1, <1>2, UpTo
<1> QED  BY <1>3 DEF T

LEMMA RedrainedIs ==
  ASSUME Len(LaneOrder) \in Nat
  PROVE  \E f : /\ Drains([Here EXCEPT !.lanes = Idle], Len(LaneOrder), f)
                /\ Redrained = f[Len(LaneOrder)]
<1> DEFINE s == [Here EXCEPT !.lanes = Idle]
           F == CHOOSE f : Drains(s, Len(LaneOrder), f)
<1>1. \E f : Drains(s, Len(LaneOrder), f)
  BY DrainsExists
<1>2. Drains(s, Len(LaneOrder), F)
  BY <1>1
<1>3. Redrained = F[Len(LaneOrder)]
  BY DEF Redrained, Drains
<1> QED  BY <1>2, <1>3

\* The lanes with nothing active.
LEMMA IdleKeeps ==
  ASSUME LaneInvariant
  PROVE  Good([Here EXCEPT !.lanes = Idle], carried \cup ActiveIds)
<1> DEFINE s == Here  t == [Here EXCEPT !.lanes = Idle]
<1>1. /\ Consistent(s) /\ Calm(s) /\ Owned(s, carried) /\ s \in States
      /\ s.lanes = lanes
  BY HereNow DEF Good
<1>2. t.lanes = Idle /\ t.level = s.level /\ t.status = s.status
      /\ t = [lanes |-> Idle, level |-> s.level, status |-> s.status]
  BY DEF Here
<1>3. \A m \in LaneNames : lanes[m] \in LaneStates
  BY <1>1 DEF States
<1> HIDE DEF s, t
<1>4. \A m \in LaneNames : Idle[m] = [lanes[m] EXCEPT !.active = {}]
  BY DEF Idle
<1>5. ASSUME NEW m \in LaneNames
      PROVE  /\ t.lanes[m] \in LaneStates
             /\ t.lanes[m].queue = s.lanes[m].queue /\ t.lanes[m].active = {}
             /\ t.lanes[m].max = s.lanes[m].max
  <2> DEFINE ln == lanes[m]  idle == [ln EXCEPT !.active = {}]
  <2>1. ln \in LaneStates
    BY <1>3
  <2>2. t.lanes[m] = idle /\ s.lanes[m] = ln
    BY <1>1, <1>2, <1>4
  <2> HIDE DEF ln
  <2>3. /\ idle \in LaneStates /\ idle.queue = ln.queue /\ idle.active = {}
        /\ idle.max = ln.max
    BY <2>1 DEF LaneStates
  <2> HIDE DEF idle
  <2> QED  BY <2>2, <2>3
<1>6. t \in States
  <2>1. Idle \in [LaneNames -> LaneStates]
    <3>1. \A m \in LaneNames : Idle[m] \in LaneStates
      BY <1>2, <1>5
    <3>2. Idle = [m \in LaneNames |-> Idle[m]]
      BY DEF Idle
    <3> QED  BY <3>1, <3>2
  <2>2. s.level \in [Commands -> 0 .. 3] /\ s.status \in [Commands -> Statuses]
    BY <1>1 DEF States
  <2> QED  BY <1>2, <2>1, <2>2 DEF States
<1>7. Consistent(t)
  <2>1. LevelsFit(t)
    BY <1>1, <1>2 DEF Consistent, LevelsFit
  <2>2. QueuesFit(t)
    BY <1>1, <1>2, <1>5, QueuesSame DEF Consistent
  <2>3. ActiveFit(t)
    BY <1>5 DEF ActiveFit
  <2>4. OneSlot(t)
    <3>1. \A m \in Sessions : m \in LaneNames
      BY DEF LaneNames
    <3> QED  BY <1>1, <1>5, <3>1 DEF Consistent, OneSlot
  <2> QED  BY <1>6, <2>1, <2>2, <2>3, <2>4 DEF Consistent
<1>8. Calm(t)
  BY <1>1, <1>2 DEF Calm
<1>9. Owned(t, carried \cup ActiveIds)
  <2> SUFFICES ASSUME NEW x \in Ids, Under(t, x), x \notin carried, x \notin ActiveIds
               PROVE  FALSE
    BY DEF Owned
  <2>1. Under(s, x)
    BY <1>2 DEF Under
  <2>2. x \in lanes[LaneOf(x)].active /\ LaneOf(x) \in LaneNames
    BY <1>1, <2>1, LaneFacts DEF Owned
  <2> QED  BY <2>2 DEF ActiveIds
<1> QED  BY <1>7, <1>8, <1>9 DEF Good, t

LEMMA ResetStep ==
  ASSUME LaneInvariant, WaitInvariant, resetAllLanes
  PROVE  LaneInvariant' /\ WaitInvariant'
<1> DEFINE K == carried \cup ActiveIds  N == Len(LaneOrder)
           s == [Here EXCEPT !.lanes = Idle]
<1>1. /\ phase' = "serving" /\ waiting' = {} /\ drained' = FALSE
      /\ carried' = K /\ Becomes(Redrained)
  BY DEF resetAllLanes
<1>2. N \in Nat /\ \A i \in 1 .. N : LaneOrder[i] \in LaneNames
  BY CommandQueueConstants
<1>3. \A m \in LaneNames : \E i \in 1 .. N : LaneOrder[i] = m
  BY <1>2, CommandQueueConstants DEF Range
<1>4. Good(s, K)
  BY IdleKeeps
<1>5. PICK f : Drains(s, N, f) /\ Redrained = f[N]
  BY <1>2, RedrainedIs
<1> HIDE DEF N, s, K
<1>6. f[0] = s /\ \A i \in 1 .. N : f[i] = drainLane(f[i - 1], LaneOrder[i], aborted)
  <2>1. \A i \in 0 .. N :
          f[i] = IF i = 0 THEN s ELSE drainLane(f[i - 1], LaneOrder[i], aborted)
    BY <1>5, Zenon DEF Drains
  <2>2. 0 \in 0 .. N /\ \A i \in 1 .. N : i \in 0 .. N /\ i # 0
    BY <1>2
  <2> QED  BY <2>1, <2>2
<1> DEFINE Done(n) == Good(f[n], K) /\ \A i \in 1 .. n : Full(f[n], LaneOrder[i])
           T == {n \in 0 .. N : Done(n)}
<1>7. 0 \in T
  BY <1>2, <1>4, <1>6
<1>8. ASSUME NEW n \in 1 .. N, n - 1 \in T  PROVE n \in T
  <2>1. Good(f[n - 1], K) /\ \A i \in 1 .. n - 1 : Full(f[n - 1], LaneOrder[i])
    BY <1>8
  <2>2. f[n] = drainLane(f[n - 1], LaneOrder[n], aborted) /\ LaneOrder[n] \in LaneNames
    BY <1>2, <1>6
  <2>3. /\ Good(f[n], K) /\ Full(f[n], LaneOrder[n])
        /\ \A m \in LaneNames : Full(f[n - 1], m) => Full(f[n], m)
    BY <2>1, <2>2, DrainKeeps
  <2>4. ASSUME NEW i \in 1 .. n  PROVE Full(f[n], LaneOrder[i])
    <3>1. i = n \/ (i \in 1 .. n - 1 /\ i \in 1 .. N)
      BY <1>2
    <3> QED  BY <1>2, <2>1, <2>3, <3>1
  <2>5. n \in 0 .. N
    OBVIOUS
  <2> QED  BY <2>3, <2>4, <2>5
<1>9. N \in T
  <2>1. \A n \in 1 .. N : n - 1 \in T => n \in T
    BY <1>8
  <2> HIDE DEF T
  <2>2. \A n \in 0 .. N : n \in T
    BY <1>2, <1>7, <2>1, UpTo
  <2> QED  BY <1>2, <2>2
<1> DEFINE t == f[N]
<1>10. Good(t, K) /\ \A m \in LaneNames : Full(t, m)
  BY <1>3, <1>9
<1>11. t \in States /\ Becomes(t)
  BY <1>1, <1>5, <1>10 DEF Good, Consistent
<1> HIDE DEF t
<1>12. Here' = t
  BY <1>11, HereAfter
<1>13. LaneInvariant'
  BY <1>1, <1>10, <1>12 DEF LaneInvariant, Good
<1>14. WaitInvariant'
  BY <1>1 DEF WaitInvariant
<1> QED  BY <1>13, <1>14

-----------------------------------------------------------------------------
(* The invariant and what follows from it *)

LEMMA LanesInit == Init => LaneInvariant /\ WaitInvariant
<1> SUFFICES ASSUME Init  PROVE LaneInvariant /\ WaitInvariant
  OBVIOUS
<1>1. PICK cron \in Slots, main \in Slots :
        lanes = [l \in LaneNames |->
                   Lane(IF l = "cron" THEN cron ELSE IF l = "main" THEN main ELSE 1)]
  BY DEF Init
<1>2. /\ level = [c \in Commands |-> 0] /\ status = [c \in Commands |-> "idle"]
      /\ phase = "serving" /\ waiting = {} /\ carried = {}
  BY DEF Init
<1> DEFINE s == Here
<1>3. s.lanes = lanes /\ s.level = level /\ s.status = status
      /\ s = [lanes |-> lanes, level |-> level, status |-> status]
  BY DEF Here
<1>4. ASSUME NEW l \in LaneNames
      PROVE  /\ lanes[l] \in LaneStates /\ lanes[l].queue = <<>> /\ lanes[l].active = {}
             /\ l \in Sessions => lanes[l].max = 1
  <2> DEFINE v == IF l = "cron" THEN cron ELSE IF l = "main" THEN main ELSE 1
  <2>1. lanes[l] = [queue |-> <<>>, active |-> {}, max |-> v]
    BY <1>1 DEF Lane
  <2>2. v \in Nat \ {0} /\ (l \in Sessions => v = 1)
    BY CommandQueueConstants
  <2>3. <<>> \in Seq(Ids)
    OBVIOUS
  <2> HIDE DEF v
  <2> QED  BY <2>1, <2>2, <2>3 DEF LaneStates
<1> HIDE DEF s
<1>5. s \in States
  <2>1. lanes \in [LaneNames -> LaneStates]
    <3>1. lanes = [l \in LaneNames |-> lanes[l]]
      BY <1>1
    <3> QED  BY <1>4, <3>1
  <2>2. level \in [Commands -> 0 .. 3] /\ status \in [Commands -> Statuses]
    BY <1>2 DEF Statuses
  <2> QED  BY <1>3, <2>1, <2>2 DEF States
<1>6. LevelsFit(s)
  <2> SUFFICES ASSUME NEW c \in Commands
               PROVE  /\ s.level[c] <= Len(Path(c))
                      /\ s.level[c] = 0 <=> s.status[c] \in {"idle", "over"}
    BY DEF LevelsFit
  <2> QED  BY <1>2, <1>3, PathLength
<1>7. QueuesFit(s)
  <2>1. \A l \in LaneNames : Len(s.lanes[l].queue) = 0
    BY <1>3, <1>4
  <2> QED  BY <2>1 DEF QueuesFit
<1>8. ActiveFit(s)
  BY <1>3, <1>4 DEF ActiveFit
<1>9. OneSlot(s)
  BY <1>3, <1>4 DEF OneSlot, LaneNames
<1>10. Calm(s)
  BY <1>2, <1>3 DEF Calm
<1>11. Owned(s, carried)
  <2>1. ASSUME NEW id \in Ids  PROVE ~Under(s, id)
    BY <1>2, <1>3, IdParts DEF Under
  <2> QED  BY <2>1 DEF Owned
<1>12. \A l \in LaneNames : Full(s, l)
  BY <1>3, <1>4 DEF Full
<1>13. LaneInvariant
  BY <1>5, <1>6, <1>7, <1>8, <1>9, <1>10, <1>11, <1>12 DEF LaneInvariant, Consistent, s
<1>14. WaitInvariant
  BY <1>2 DEF WaitInvariant
<1> QED  BY <1>13, <1>14

LEMMA LanesStep ==
  ASSUME LaneInvariant, WaitInvariant, [Next]_vars
  PROVE  LaneInvariant' /\ WaitInvariant'
<1>1. ASSUME NEW c \in Commands, Call(c)  PROVE LaneInvariant' /\ WaitInvariant'
  BY <1>1, CallStep
<1>2. ASSUME NEW c \in Commands, RunAgent(c)  PROVE LaneInvariant' /\ WaitInvariant'
  BY <1>2, RunAgentStep
<1>3. ASSUME NEW c \in Commands, Settle(c)  PROVE LaneInvariant' /\ WaitInvariant'
  BY <1>3, SettleStep
<1>4. ASSUME NEW c \in Commands, Abort(c)  PROVE LaneInvariant' /\ WaitInvariant'
  BY <1>4, AbortStep
<1>5. ASSUME NEW l \in Sessions, clearCommandLane(l)
      PROVE  LaneInvariant' /\ WaitInvariant'
  BY <1>5, ClearStep
<1>6. ASSUME NEW cron \in Slots, NEW main \in Slots, Reload(cron, main)
      PROVE  LaneInvariant' /\ WaitInvariant'
  BY <1>6, ReloadStep
<1>7. CASE RequestRestart
  BY <1>7, RequestStep
<1>8. CASE RunsDrained
  BY <1>8, RunsDrainedStep
<1>9. CASE StopWaiting
  BY <1>9, StopWaitingStep
<1>10. CASE resetAllLanes
  BY <1>10, ResetStep
<1>11. CASE UNCHANGED vars
  <2>1. LaneInvariant' /\ Here' = Here
    BY <1>11, LanesAlone DEF vars
  <2>2. UNCHANGED <<phase, waiting, drained, waits>>
    BY <1>11 DEF vars
  <2> QED  BY <2>1, <2>2 DEF WaitInvariant
<1> QED  BY <1>1, <1>2, <1>3, <1>4, <1>5, <1>6, <1>7, <1>8, <1>9, <1>10, <1>11 DEF Next

\* The records of lanes, levels and statuses are consistent, a task under way is
\* active or was carried over a reset, and drainLane has been called for every
\* lane that has a free slot and an entry; what a restart waits for is active or
\* over.
THEOREM LanesAlways == Spec => [](LaneInvariant /\ WaitInvariant)
<1>1. Init => LaneInvariant /\ WaitInvariant
  BY LanesInit
<1>2. (LaneInvariant /\ WaitInvariant) /\ [Next]_vars => (LaneInvariant /\ WaitInvariant)'
  BY LanesStep
<1> QED  BY <1>1, <1>2, PTL DEF Spec

\* No entry waits in a lane that has a free slot: after a task's end, a refusal, a
\* cleared queue, another maxConcurrent and resetAllLanes, drainLane has been
\* called for every lane it matters to.
THEOREM NoIdleSlotAlways == Spec => []NoIdleSlot
<1>1. LaneInvariant => NoIdleSlot
  BY HereNow DEF NoIdleSlot, Full
<1> QED  BY <1>1, LanesAlways, PTL

\* Two runs of one session are past its lane at once only when one of them held
\* its slot when resetAllLanes emptied the active sets.
THEOREM SessionSerialAlways == Spec => []SessionSerial
<1>1. LaneInvariant => SessionSerial
  <2> SUFFICES ASSUME LaneInvariant,
                      NEW c \in Commands, NEW d \in Commands, c # d,
                      SessionOf[c] = SessionOf[d],
                      UnderWay(SessionTask(c)), UnderWay(SessionTask(d)),
                      SessionTask(c) \notin carried, SessionTask(d) \notin carried
               PROVE  FALSE
    BY DEF SessionSerial
  <2>1. Consistent(Here) /\ Owned(Here, carried) /\ Here.level = level /\ Here.status = status
    BY HereNow DEF Good
  <2>2. ASSUME NEW e \in Commands, UnderWay(SessionTask(e)), SessionTask(e) \notin carried
        PROVE  /\ SessionTask(e) \in Here.lanes[SessionOf[e]].active
               /\ SessionOf[e] \in Sessions
    <3> DEFINE id == SessionTask(e)  k == Len(Path(e)) - 1
    <3>1. k \in 1 .. 3 /\ k <= Len(Path(e)) /\ Path(e)[k] = SessionOf[e]
      BY PathLength DEF Path
    <3>2. id \in Ids /\ LaneOf(id) = SessionOf[e]
      BY <3>1, IdMade DEF SessionTask, LaneOf
    <3>3. Under(Here, id)
      BY <2>1, <2>2 DEF UnderWay, Under
    <3>4. SessionOf[e] \in Sessions
      BY CommandQueueConstants
    <3> QED  BY <2>1, <2>2, <3>2, <3>3, <3>4 DEF Owned
  <2>3. SessionTask(c) = SessionTask(d)
    BY <2>1, <2>2 DEF Consistent, OneSlot
  <2> QED  BY <2>3 DEF SessionTask
<1> QED  BY <1>1, LanesAlways, PTL

\* When waitForActiveTasks has told the restart that the work is drained, every
\* task that was active when it asked has ended.
THEOREM DrainedIsTrueAlways == Spec => []DrainedIsTrue
<1>1. LaneInvariant /\ WaitInvariant => DrainedIsTrue
  <2> SUFFICES ASSUME LaneInvariant, WaitInvariant,
                      phase = "closing", drained, NEW id \in waiting  PROVE ~UnderWay(id)
    BY DEF DrainedIsTrue
  <2>1. id \in Ids /\ Awaited(Here, waiting) /\ Apart(Here, waiting)
    BY DEF WaitInvariant
  <2>2. Here \in States /\ Here.level = level
    BY HereNow
  <2>3. LaneOf(id) \in LaneNames
    BY <2>1, LaneFacts
  <2>4. level[id[1]] < id[2]
    BY <2>1, <2>2, <2>3 DEF Awaited, Apart
  <2>5. level[id[1]] \in Nat /\ id[2] \in Nat
    BY <2>1, <2>2, IdParts DEF States
  <2> QED  BY <2>4, <2>5 DEF UnderWay
<1> QED  BY <1>1, LanesAlways, PTL

=============================================================================
