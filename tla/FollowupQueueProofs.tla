------------------------ MODULE FollowupQueueProofs ------------------------
(***************************************************************************)
(* No queue is left without a drain, no queued message is lost and none    *)
(* runs twice without a cause:                                             *)
(* theorems about FollowupQueue for every set of messages, authorizations, *)
(* routes, modes and policies, and every cap and number of queue objects   *)
(* and disruptions.                                                        *)
(***************************************************************************)
EXTENDS FollowupQueue, FiniteSetTheorems, SequenceTheorems, WellFoundedInduction,
        NaturalsInduction, TLAPS

DrainStates == {"off", "debounce", "starting", "running"}

\* While no session was cut off and no message left unattended: only the object
\* in the map holds anything or has a drain, a held message is driven, and the
\* reply operation of a drain is that of a drain that runs.
Attended ==
  /\ \A q \in Queues : ~Empty(q, items, dropped) =>
       q = current /\ (drain[q] # "off" \/ op[1] = "direct")
  /\ \A q \in Queues : drain[q] # "off" => q = current
  /\ \A q \in Queues : op = <<"drain", q>> => drain[q] = "running"

Driving == cutOff \/ unattended \/ Attended

\* Only objects that were made have a drain.
Unused == \A q \in Queues : drain[q] # "off" => q <= made

\* While nothing was dropped for the cap, what a drain is about to run and the
\* groups that follow are the front of its queue, or its queue was cleared and
\* is not the one in the map any more.
AtFront(its, bat, grp) ==
  /\ Len(bat) + Len(grp) <= Len(its)
  /\ \A i \in 1 .. Len(bat) : its[i] = bat[i]
  /\ \A i \in 1 .. Len(grp) : its[Len(bat) + i] = grp[i]

AheadOf(q) ==
  /\ dropped[q] = <<>>
  /\ prompt[q] = "items"
  /\ drain[q] \in {"starting", "running"} =>
       AtFront(items[q], batch[q], groups[q]) \/ (items[q] = <<>> /\ q # current)

Ahead == \A q \in Queues : AheadOf(q)

Keeping == overflowed \/ (Ahead /\ AcceptedIsKept)

-----------------------------------------------------------------------------
(* Sequences *)

LEMMA FirstProperties ==
  ASSUME NEW S, NEW s \in Seq(S), NEW n \in 0 .. Len(s)
  PROVE  /\ First(s, n) \in Seq(S) /\ Len(First(s, n)) = n
         /\ \A i \in 1 .. n : First(s, n)[i] = s[i]
BY DEF First

LEMMA RestProperties ==
  ASSUME NEW S, NEW s \in Seq(S), NEW n \in 0 .. Len(s)
  PROVE  /\ Rest(s, n) \in Seq(S) /\ Len(Rest(s, n)) = Len(s) - n
         /\ \A i \in 1 .. Len(s) - n : Rest(s, n)[i] = s[n + i]
BY DEF Rest

\* More may be taken off than is there.
LEMMA RestType ==
  ASSUME NEW S, NEW s \in Seq(S), NEW n \in Nat
  PROVE  Rest(s, n) \in Seq(S)
BY DEF Rest

\* Nothing taken off.
LEMMA RestNone ==
  ASSUME NEW S, NEW s \in Seq(S)
  PROVE  Rest(s, 0) = s
BY DEF Rest

\* A set of numbers that is not empty has a least element.
LEMMA LeastElement ==
  ASSUME NEW T \in SUBSET Nat, T # {}
  PROVE  \E n \in T : \A k \in T : n <= k
<1>1. \E n \in T : \A k \in T : ~(<<k, n>> \in OpToRel(<, Nat))
  BY NatLessThanWellFounded, WFMin
<1>2. PICK n \in T : \A k \in T : ~(<<k, n>> \in OpToRel(<, Nat))
  BY <1>1
<1>3. \A k \in T : ~(k < n)
  BY <1>2 DEF OpToRel
<1> QED  BY <1>3

\* splitCollectItemsByAuthorization finds a first group.
LEMMA GroupLengthType ==
  ASSUME NEW s \in Seq(Msg), s # <<>>
  PROVE  GroupLength(s) \in 1 .. Len(s)
<1> DEFINE Ends(n) == n < Len(s) => Auth[s[n + 1]] # Auth[s[1]]
           Group(n) == (\A i \in 1 .. n : Auth[s[i]] = Auth[s[1]]) /\ Ends(n)
           T == {n \in 1 .. Len(s) : Ends(n)}
<1>1. Len(s) \in Nat \ {0}
  OBVIOUS
<1>2. T \in SUBSET Nat /\ Len(s) \in T
  BY <1>1
<1>3. PICK n \in T : \A k \in T : n <= k
  BY <1>2, LeastElement
<1>4. \A i \in 1 .. n : Auth[s[i]] = Auth[s[1]]
  <2> SUFFICES ASSUME NEW i \in 1 .. n, i # 1  PROVE Auth[s[i]] = Auth[s[1]]
    OBVIOUS
  <2>1. i - 1 \in 1 .. Len(s) /\ ~(n <= i - 1) /\ (i - 1) + 1 = i
    BY <1>1
  <2>2. i - 1 \notin T
    BY <1>3, <2>1
  <2> QED  BY <2>1, <2>2
<1>5. \E k \in 1 .. Len(s) : Group(k)
  BY <1>3, <1>4
<1>6. GroupLength(s) = CHOOSE k \in 1 .. Len(s) : Group(k)
  BY DEF GroupLength
<1> HIDE DEF Group
<1> QED  BY <1>5, <1>6

-----------------------------------------------------------------------------
(* The types *)

\* The parts of TypeOK.
Around ==
  /\ mode \in Modes /\ policy \in Policies
  /\ delivered \subseteq Msg /\ recent \subseteq Msg /\ starting \subseteq Msg
  /\ op \in {None} \cup ({"direct"} \X Msg) \cup ({"drain"} \X Queues)
  /\ other \in BOOLEAN
  /\ runs \in [Msg -> Int]
Map == current \in 0 .. made /\ made \in 0 .. MaxQueues
Held == items \in [Queues -> Seq(Msg)] /\ dropped \in [Queues -> Seq(Msg)]
Drains ==
  /\ drain \in [Queues -> DrainStates]
  /\ single \in [Queues -> BOOLEAN]
  /\ batch \in [Queues -> Seq(Msg)] /\ groups \in [Queues -> Seq(Msg)]
  /\ prompt \in [Queues -> {"items", "summary", "both"}]

LEMMA TypeParts == TypeOK <=> Around /\ Map /\ Held /\ Drains
BY DEF TypeOK, Around, Map, Held, Drains, DrainStates

LEMMA TypePartsNext == TypeOK' <=> Around' /\ Map' /\ Held' /\ Drains'
BY DEF TypeOK, Around, Map, Held, Drains, DrainStates

LEMMA CurrentIsQueue == Map => current = 0 \/ current \in Queues
BY MaxQueuesType DEF Map, Queues

\* What scheduleFollowupDrain does with the object in the map.
LEMMA ScheduleCases ==
  ASSUME NEW d, NEW its, NEW drp, Schedule(d, its, drp)
  PROVE  \/ current = 0 /\ drain' = d /\ current' = 0
         \/ current # 0 /\ d[current] # "off" /\ drain' = d /\ current' = current
         \/ /\ current # 0 /\ d[current] = "off" /\ Empty(current, its, drp)
            /\ drain' = d /\ current' = 0
         \/ /\ current # 0 /\ d[current] = "off" /\ ~Empty(current, its, drp)
            /\ drain' = [d EXCEPT ![current] = "debounce"] /\ current' = current
BY DEF Schedule

LEMMA ScheduleType ==
  ASSUME Map, NEW d \in [Queues -> DrainStates], NEW its, NEW drp, Schedule(d, its, drp)
  PROVE  drain' \in [Queues -> DrainStates] /\ current' \in {0, current}
BY ScheduleCases, CurrentIsQueue DEF DrainStates

LEMMA EndDrainType ==
  ASSUME Map, Drains, NEW q \in Queues, NEW its, NEW drp, EndDrain(q, its, drp)
  PROVE  drain' \in [Queues -> DrainStates] /\ current' \in {0, current}
<1>1. [drain EXCEPT ![q] = "off"] \in [Queues -> DrainStates]
  BY DEF Drains, DrainStates
<1> QED  BY <1>1, ScheduleType DEF EndDrain

LEMMA MapType ==
  ASSUME Map, current' \in {0, current}, made' = made
  PROVE  Map'
BY DEF Map

LEMMA ForgetType ==
  ASSUME Drains, NEW q \in Queues, ForgetRound(q), drain' \in [Queues -> DrainStates],
         single' \in [Queues -> BOOLEAN]
  PROVE  Drains'
<1>1. <<>> \in Seq(Msg)
  OBVIOUS
<1> QED  BY <1>1 DEF Drains, ForgetRound

\* enqueueFollowupRun keeps the queues sequences of messages.
LEMMA EnqueueType ==
  ASSUME TypeOK, NEW m \in Msg, NEW q \in Queues, Enqueue(m, q)
  PROVE  Held' /\ recent' \subseteq Msg /\ runs' = runs
<1>1. Held /\ Around
  BY TypeParts
<1>2. CASE UNCHANGED <<recent, items, dropped, runs>>
  BY <1>1, <1>2 DEF Held, Around
<1>3. CASE /\ MakeRoom(q) /\ items' = [items EXCEPT ![q] = Append(Roomy(q), m)]
           /\ recent' = recent \cup {m} /\ runs' = runs
  <2>1. items[q] \in Seq(Msg) /\ dropped[q] \in Seq(Msg) /\ Len(items[q]) \in Nat
    BY <1>1 DEF Held
  <2>2. Roomy(q) \in Seq(Msg)
    <3>1. CASE Len(items[q]) < Cap
      BY <2>1, <3>1, RestType DEF Roomy
    <3>2. CASE ~(Len(items[q]) < Cap)
      <4>1. Len(items[q]) - Cap + 1 \in Nat
        BY <2>1, <3>2, CapType
      <4> QED  BY <2>1, <3>2, <4>1, RestType DEF Roomy
    <3> QED  BY <3>1, <3>2
  <2>3. items' \in [Queues -> Seq(Msg)]
    <3>1. Append(Roomy(q), m) \in Seq(Msg)
      BY <2>2
    <3> QED  BY <1>1, <1>3, <3>1 DEF Held
  <2>4. dropped' \in [Queues -> Seq(Msg)]
    <3>1. CASE dropped' = dropped
      BY <1>1, <3>1 DEF Held
    <3>2. CASE ~(Len(items[q]) < Cap)
      <4> DEFINE n == Len(items[q]) - Cap + 1
      <4>1. n \in 0 .. Len(items[q])
        BY <2>1, <3>2, CapType
      <4>2. First(items[q], n) \in Seq(Msg)
        BY <2>1, <4>1, FirstProperties
      <4>3. dropped[q] \o First(items[q], n) \in Seq(Msg)
        BY <2>1, <4>2
      <4>4. \/ dropped' = [dropped EXCEPT ![q] = @ \o First(items[q], n)]
            \/ dropped' = dropped
        BY <1>3, <3>2 DEF MakeRoom
      <4> HIDE DEF n
      <4> QED  BY <1>1, <4>3, <4>4 DEF Held
    <3> QED  BY <1>3, <3>1, <3>2 DEF MakeRoom
  <2> QED  BY <1>1, <1>3, <2>3, <2>4 DEF Held, Around
<1> QED  BY <1>2, <1>3 DEF Enqueue

\* What a round of the loop is about to run is from the queue.
LEMMA RoundType ==
  ASSUME Held, NEW q \in Queues, Round(q).prompt # "none"
  PROVE  /\ Round(q).batch \in Seq(Msg) /\ Round(q).groups \in Seq(Msg)
         /\ Round(q).prompt \in {"items", "summary", "both"}
<1>1. items[q] \in Seq(Msg) /\ Len(items[q]) \in Nat
  BY DEF Held
<1>2. CASE items[q] = <<>>
  BY <1>1, <1>2 DEF Round
<1>3. CASE items[q] # <<>>
  <2>1. First(items[q], 1) \in Seq(Msg)
    BY <1>1, <1>3, FirstProperties
  <2>2. GroupLength(items[q]) \in 1 .. Len(items[q])
    BY <1>1, <1>3, GroupLengthType
  <2> DEFINE group == First(items[q], GroupLength(items[q]))
  <2>3. group \in Seq(Msg) /\ Len(group) = GroupLength(items[q])
    BY <1>1, <2>2, FirstProperties
  <2>4. Rest(items[q], Len(group)) \in Seq(Msg)
    <3>1. Len(group) \in Nat
      BY <1>1, <2>2, <2>3
    <3> HIDE DEF group
    <3> QED  BY <1>1, <3>1, RestType
  <2>5. <<>> \in Seq(Msg)
    OBVIOUS
  <2>6. \/ Round(q).batch = First(items[q], 1) /\ Round(q).groups = <<>>
        \/ Round(q).batch = group /\ Round(q).groups = Rest(items[q], Len(group))
    BY <1>3 DEF Round
  <2>7. Round(q).prompt \in {"items", "summary", "both"}
    BY <1>3 DEF Round
  <2> HIDE DEF group
  <2> QED  BY <2>1, <2>3, <2>4, <2>5, <2>6, <2>7
<1> QED  BY <1>2, <1>3

LEMMA TypeInit == Init => TypeOK
<1> SUFFICES ASSUME Init  PROVE Around /\ Map /\ Held /\ Drains
  BY TypeParts
<1>1. Around
  <2>1. runs \in [Msg -> Int]
    BY DEF Init
  <2>2. op = None /\ other = FALSE
    BY DEF Init
  <2>3. delivered \subseteq Msg /\ recent \subseteq Msg /\ starting \subseteq Msg
    BY DEF Init
  <2>4. mode \in Modes /\ policy \in Policies
    BY DEF Init
  <2> QED  BY <2>1, <2>2, <2>3, <2>4, Zenon DEF Around
<1>2. Map
  BY MaxQueuesType DEF Init, Map
<1>3. <<>> \in Seq(Msg)
  OBVIOUS
<1>4. Held /\ Drains
  BY <1>3 DEF Init, Held, Drains, DrainStates
<1> QED  BY <1>1, <1>2, <1>4

LEMMA TypeStep == TypeOK /\ [Next]_vars => TypeOK'
<1> SUFFICES ASSUME TypeOK, [Next]_vars  PROVE Around' /\ Map' /\ Held' /\ Drains'
  BY TypePartsNext
<1>0. Around /\ Map /\ Held /\ Drains
  BY TypeParts
<1> USE <1>0 DEF settings, arrival, queue, draining, history
<1>1. CASE UNCHANGED vars
  BY <1>1 DEF vars, Around, Map, Held, Drains
<1>2. ASSUME NEW m \in Msg, Arrive(m)  PROVE Around' /\ Map' /\ Held' /\ Drains'
  <2>1. Drains' /\ UNCHANGED <<mode, policy, op, other>> /\ delivered' \subseteq Msg
    BY <1>2 DEF Arrive, Drains, Around
  <2>2. CASE ~Active
    BY <1>2, <2>1, <2>2 DEF Arrive, Around, Map, Held
  <2>3. CASE Active /\ current # 0
    <3>1. Enqueue(m, current) /\ UNCHANGED <<current, made, starting>>
      BY <1>2, <2>3 DEF Arrive
    <3>2. Held' /\ recent' \subseteq Msg /\ runs' = runs
      BY <2>3, <3>1, EnqueueType, CurrentIsQueue
    <3> QED  BY <2>1, <3>1, <3>2 DEF Around, Map
  <2>4. CASE Active /\ current = 0
    <3>1. /\ Enqueue(m, made + 1) /\ made < MaxQueues /\ UNCHANGED starting
          /\ current' = made + 1 /\ made' = made + 1
      BY <1>2, <2>4 DEF Arrive
    <3>2. made + 1 \in Queues /\ Map'
      BY <3>1, MaxQueuesType DEF Map, Queues
    <3>3. Held' /\ recent' \subseteq Msg /\ runs' = runs
      BY <3>1, <3>2, EnqueueType
    <3> QED  BY <2>1, <3>1, <3>2, <3>3 DEF Around
  <2> QED  BY <2>2, <2>3, <2>4
<1>3. ASSUME NEW m \in Msg, Begin(m)  PROVE Around' /\ Map' /\ Held' /\ Drains'
  <2>1. Map' /\ Held' /\ Drains'
    BY <1>3 DEF Begin, Map, Held, Drains
  <2>2. Around'
    BY <1>3 DEF Begin, Around
  <2> QED  BY <2>1, <2>2
<1>4. ASSUME NEW m \in Msg, Expire(m)  PROVE Around' /\ Map' /\ Held' /\ Drains'
  <2>1. Map' /\ Held' /\ Drains'
    BY <1>4 DEF Expire, Map, Held, Drains
  <2>2. Around'
    BY <1>4 DEF Expire, Around
  <2> QED  BY <2>1, <2>2
<1>5. CASE DirectEnds
  <2>1. drain' \in [Queues -> DrainStates] /\ current' \in {0, current}
    BY <1>5, ScheduleType DEF DirectEnds, Drains
  <2>2. Around' /\ Held' /\ Drains'
    BY <1>5, <2>1 DEF DirectEnds, Around, Held, Drains
  <2> QED  BY <1>5, <2>1, <2>2, MapType DEF DirectEnds
<1>6. CASE OtherBegins \/ OtherEnds
  BY <1>6 DEF OtherBegins, OtherEnds, Around, Map, Held, Drains
<1>7. CASE Clear
  <2>1. <<>> \in Seq(Msg)
    OBVIOUS
  <2>2. Held'
    BY <1>7, <2>1 DEF Clear, Held
  <2> QED  BY <1>7, <2>2, MapType DEF Clear, Around, Drains
<1>8. ASSUME NEW q \in Queues, Wake(q)  PROVE Around' /\ Map' /\ Held' /\ Drains'
  <2>1. Around' /\ Held' /\ made' = made
    BY <1>8 DEF Wake, Around, Held
  <2>2. CASE Round(q).prompt = "none"
    <3>1. /\ EndDrain(q, items, dropped) /\ ForgetRound(q)
          /\ single' = [single EXCEPT ![q] = FALSE]
      BY <1>8, <2>2 DEF Wake
    <3>2. drain' \in [Queues -> DrainStates] /\ current' \in {0, current}
      BY <3>1, EndDrainType
    <3>3. Drains'
      BY <3>1, <3>2, ForgetType DEF Drains
    <3> QED  BY <2>1, <3>2, <3>3, MapType
  <2>3. CASE Round(q).prompt # "none"
    <3>1. /\ drain' = [drain EXCEPT ![q] = "starting"]
          /\ batch' = [batch EXCEPT ![q] = Round(q).batch]
          /\ groups' = [groups EXCEPT ![q] = Round(q).groups]
          /\ prompt' = [prompt EXCEPT ![q] = Round(q).prompt]
          /\ single' = [single EXCEPT ![q] = mode = "collect" /\ (@ \/ CrossChannel(q))]
          /\ current' = current
      BY <1>8, <2>3 DEF Wake
    <3>2. single' \in [Queues -> BOOLEAN]
      BY <3>1 DEF Drains
    <3>3. Drains'
      BY <2>3, <3>1, <3>2, RoundType DEF Drains, DrainStates
    <3> QED  BY <2>1, <3>1, <3>3, MapType
  <2> QED  BY <2>2, <2>3
<1>9. ASSUME NEW q \in Queues, RunStarts(q)  PROVE Around' /\ Map' /\ Held' /\ Drains'
  <2>1. Held' /\ made' = made /\ UNCHANGED <<mode, policy, delivered, recent, starting, other>>
    BY <1>9 DEF RunStarts, Held
  <2>2. CASE op = None
    <3>1. /\ op' = <<"drain", q>> /\ drain' = [drain EXCEPT ![q] = "running"]
          /\ runs' = [m \in Msg |-> runs[m] - (IF m \in Prompted(q) THEN 1 ELSE 0)]
          /\ UNCHANGED <<current, single, batch, groups, prompt>>
      BY <1>9, <2>2 DEF RunStarts
    <3>2. Drains'
      BY <3>1 DEF Drains, DrainStates
    <3>3. runs' \in [Msg -> Int]
      BY <3>1 DEF Around
    <3>4. Around'
      BY <2>1, <3>1, <3>3 DEF Around
    <3> QED  BY <2>1, <3>1, <3>2, <3>4, MapType
  <2>3. CASE op # None
    <3>1. /\ EndDrain(q, items, dropped) /\ ForgetRound(q)
          /\ single' = [single EXCEPT ![q] = FALSE] /\ UNCHANGED <<op, runs>>
      BY <1>9, <2>3 DEF RunStarts
    <3>2. drain' \in [Queues -> DrainStates] /\ current' \in {0, current}
      BY <3>1, EndDrainType
    <3>3. Drains'
      BY <3>1, <3>2, ForgetType DEF Drains
    <3>4. Around'
      BY <2>1, <3>1 DEF Around
    <3> QED  BY <2>1, <3>2, <3>3, <3>4, MapType
  <2> QED  BY <2>2, <2>3
<1>10. ASSUME NEW q \in Queues, RunEnds(q)  PROVE Around' /\ Map' /\ Held' /\ Drains'
  <2>1. Around' /\ made' = made
    BY <1>10 DEF RunEnds, Around
  <2>2. Held'
    <3>1. Rest(items[q], Len(batch[q])) \in Seq(Msg) /\ <<>> \in Seq(Msg)
      BY RestType DEF Held, Drains
    <3> QED  BY <1>10, <3>1 DEF RunEnds, Held
  <2>3. CASE groups[q] # <<>>
    <3> DEFINE n == GroupLength(groups[q])
    <3>1. /\ drain' = [drain EXCEPT ![q] = "starting"]
          /\ batch' = [batch EXCEPT ![q] = First(groups[q], n)]
          /\ groups' = [groups EXCEPT ![q] = Rest(groups[q], n)]
          /\ prompt' = [prompt EXCEPT ![q] = "items"]
          /\ UNCHANGED <<current, single>>
      BY <1>10, <2>3 DEF RunEnds
    <3>2. groups[q] \in Seq(Msg) /\ n \in 1 .. Len(groups[q]) /\ Len(groups[q]) \in Nat
      BY <2>3, GroupLengthType DEF Drains
    <3>3. First(groups[q], n) \in Seq(Msg) /\ Rest(groups[q], n) \in Seq(Msg)
      BY <3>2, FirstProperties, RestProperties
    <3> HIDE DEF n
    <3>4. Drains'
      BY <3>1, <3>3 DEF Drains, DrainStates
    <3> QED  BY <2>1, <2>2, <3>1, <3>4, MapType
  <2>4. CASE groups[q] = <<>>
    <3>1. ForgetRound(q)
      BY <1>10, <2>4 DEF RunEnds
    <3>2. CASE Empty(q, items', dropped')
      <4>1. EndDrain(q, items', dropped') /\ single' = [single EXCEPT ![q] = FALSE]
        BY <1>10, <2>4, <3>2 DEF RunEnds
      <4>2. drain' \in [Queues -> DrainStates] /\ current' \in {0, current}
        BY <4>1, EndDrainType
      <4>3. Drains'
        BY <3>1, <4>1, <4>2, ForgetType DEF Drains
      <4> QED  BY <2>1, <2>2, <4>2, <4>3, MapType
    <3>3. CASE ~Empty(q, items', dropped')
      <4>1. drain' = [drain EXCEPT ![q] = "debounce"] /\ UNCHANGED <<current, single>>
        BY <1>10, <2>4, <3>3 DEF RunEnds
      <4>2. Drains'
        BY <3>1, <4>1, ForgetType DEF Drains, DrainStates
      <4> QED  BY <2>1, <2>2, <4>1, <4>2, MapType
    <3> QED  BY <3>2, <3>3
  <2> QED  BY <2>3, <2>4
<1>11. ASSUME NEW q \in Queues, RunThrows(q)  PROVE Around' /\ Map' /\ Held' /\ Drains'
  <2>1. /\ EndDrain(q, items, dropped) /\ ForgetRound(q) /\ made' = made
        /\ single' = [single EXCEPT ![q] = FALSE] /\ Held'
    BY <1>11 DEF RunThrows, Held
  <2>2. drain' \in [Queues -> DrainStates] /\ current' \in {0, current}
    BY <2>1, EndDrainType
  <2>3. Drains'
    BY <2>1, <2>2, ForgetType DEF Drains
  <2>4. runs' \in [Msg -> Int]
    BY <1>11 DEF RunThrows, Around
  <2>5. Around'
    BY <1>11, <2>4 DEF RunThrows, Around
  <2> QED  BY <2>1, <2>2, <2>3, <2>5, MapType
<1> QED
  BY <1>1, <1>2, <1>3, <1>4, <1>5, <1>6, <1>7, <1>8, <1>9, <1>10, <1>11 DEF Next, DrainStep

\* The state of the queue keeps its shape: the map names an object that was made,
\* and what a drain runs are messages, for every way a round is cut into groups.
THEOREM TypeCorrect == Spec => []TypeOK
<1>1. Init => TypeOK
  BY TypeInit
<1>2. TypeOK /\ [Next]_vars => TypeOK'
  BY TypeStep
<1> QED  BY <1>1, <1>2, PTL DEF Spec

-----------------------------------------------------------------------------
(* What holds messages is driven *)

Holding(q) == ~Empty(q, items, dropped)

LEMMA HoldingNext == \A q : Holding(q)' <=> ~Empty(q, items', dropped')
BY DEF Holding, Empty

\* Attended, and what it says of the next state.
LEMMA AttendedParts ==
  Attended <=>
    /\ \A q \in Queues : Holding(q) => q = current /\ (drain[q] # "off" \/ op[1] = "direct")
    /\ \A q \in Queues : drain[q] # "off" => q = current
    /\ \A q \in Queues : op = <<"drain", q>> => drain[q] = "running"
BY DEF Attended, Holding

LEMMA AttendedPartsNext ==
  Attended' <=>
    /\ \A q \in Queues :
         Holding(q)' => q = current' /\ (drain'[q] # "off" \/ op'[1] = "direct")
    /\ \A q \in Queues : drain'[q] # "off" => q = current'
    /\ \A q \in Queues : op' = <<"drain", q>> => drain'[q] = "running"
BY DEF Attended, Holding

LEMMA HoldingSame ==
  ASSUME NEW q \in Queues, items'[q] = items[q], dropped'[q] = dropped[q]
  PROVE  Holding(q)' <=> Holding(q)
BY DEF Holding, Empty

\* Reply operations are none, a message's or a drain's.
LEMMA Operations ==
  ASSUME Around
  PROVE  \/ op = None /\ op[1] # "direct" /\ \A q : op # <<"drain", q>>
         \/ op[1] = "direct" /\ \A q : op # <<"drain", q>>
         \/ \E q \in Queues : op = <<"drain", q>>
<1>1. CASE op = None
  BY <1>1 DEF None
<1>2. CASE op \in {"direct"} \X Msg
  BY <1>2
<1>3. CASE op \in {"drain"} \X Queues
  <2>1. PICK q \in Queues : op = <<"drain", q>>
    BY <1>3
  <2> QED  BY <2>1
<1> QED  BY <1>1, <1>2, <1>3 DEF Around

\* The drain of an attended queue is that of the object in the map, and a drain's
\* reply operation is its.
LEMMA DrainIsCurrent ==
  ASSUME Attended, NEW q \in Queues, drain[q] # "off"
  PROVE  /\ q = current
         /\ \A p \in Queues : p # q => ~Holding(p) /\ drain[p] = "off" /\ op # <<"drain", p>>
         /\ op = <<"drain", q>> => drain[q] = "running"
<1>1. q = current
  BY AttendedParts
<1>2. \A p \in Queues : p # q => ~Holding(p) /\ drain[p] = "off"
  BY <1>1, AttendedParts
<1>3. \A p \in Queues : p # q => op # <<"drain", p>>
  BY <1>2, AttendedParts
<1> QED  BY <1>1, <1>2, <1>3, AttendedParts

\* The finally block leaves an attended queue attended.
LEMMA EndDrainAttended ==
  ASSUME Map, Drains, Attended, NEW q \in Queues, drain[q] # "off",
         \A p \in Queues : p # q => items'[p] = items[p] /\ dropped'[p] = dropped[p],
         \A p \in Queues : op' # <<"drain", p>>,
         EndDrain(q, items', dropped')
  PROVE  Attended'
<1>1. q = current /\ q # 0
  BY DrainIsCurrent DEF Queues
<1>2. \A p \in Queues : p # q => ~Holding(p)' /\ drain[p] = "off"
  BY DrainIsCurrent, HoldingSame
<1> DEFINE d == [drain EXCEPT ![q] = "off"]
<1>3. \A p \in Queues : d[p] = "off"
  BY <1>2 DEF Drains
<1>4. CASE ~Holding(q)'
  <2>1. drain' = d /\ current' = 0
    BY <1>4, HoldingNext DEF EndDrain
  <2> HIDE DEF d
  <2>2. \A p \in Queues : ~Holding(p)' /\ drain'[p] = "off"
    BY <1>2, <1>3, <1>4, <2>1
  <2> QED  BY <2>2, AttendedPartsNext
<1>5. CASE Holding(q)'
  <2>1. ~Empty(q, items', dropped')
    BY <1>5, HoldingNext
  <2>2. Schedule(d, items', dropped')
    BY <2>1 DEF EndDrain
  <2>3. drain' = [d EXCEPT ![q] = "debounce"] /\ current' = q
    BY <1>1, <1>3, <2>1, <2>2, ScheduleCases
  <2>4. d \in [Queues -> DrainStates]
    BY DEF Drains, DrainStates
  <2> HIDE DEF d
  <2>5. \A p \in Queues : drain'[p] = IF p = q THEN "debounce" ELSE "off"
    BY <1>3, <2>3, <2>4
  <2> QED  BY <1>2, <2>3, <2>5, AttendedPartsNext
<1> QED  BY <1>4, <1>5

\* enqueueFollowupRun changes the one object.
LEMMA EnqueueFrame ==
  ASSUME Held, NEW m \in Msg, NEW q \in Queues, Enqueue(m, q)
  PROVE  /\ \A p \in Queues : p # q => items'[p] = items[p] /\ dropped'[p] = dropped[p]
         /\ \/ UNCHANGED <<items, dropped, unattended>>
            \/ unattended' = (unattended \/ op = None)
<1>1. \A p \in Queues : p # q => items'[p] = items[p]
  BY DEF Enqueue, Held
<1>2. \A p \in Queues : p # q => dropped'[p] = dropped[p]
  BY DEF Enqueue, MakeRoom, Held
<1>3. \/ UNCHANGED <<items, dropped, unattended>>
      \/ unattended' = (unattended \/ op = None)
  BY Zenon DEF Enqueue
<1> QED  BY <1>1, <1>2, <1>3

\* A step that leaves queues, drains, map and reply operation alone.
LEMMA AttendedSame ==
  ASSUME Attended, UNCHANGED <<items, dropped, drain, current, op>>
  PROVE  Attended'
BY DEF Attended, Empty

LEMMA ArriveAttended ==
  ASSUME TypeOK, Attended, ~unattended', NEW m \in Msg, Arrive(m)
  PROVE  Attended'
<1>0. Around /\ Map /\ Held /\ Drains
  BY TypeParts
<1> USE <1>0
<1>1. UNCHANGED <<op, drain>>
  BY DEF Arrive, draining
<1>2. CASE UNCHANGED <<items, dropped, current>>
  BY <1>1, <1>2, AttendedSame
<1>3. ASSUME current # 0, Enqueue(m, current), current' = current  PROVE Attended'
  <2>1. current \in Queues
    BY <1>3, CurrentIsQueue
  <2>2. \A p \in Queues : p # current => items'[p] = items[p] /\ dropped'[p] = dropped[p]
    BY <1>3, <2>1, EnqueueFrame
  <2>3. CASE UNCHANGED <<items, dropped>>
    BY <1>2, <1>3, <2>3
  <2>4. CASE op # None
    <3>1. drain[current] # "off" \/ op[1] = "direct"
      BY <2>4, Operations, AttendedParts
    <3>2. \A p \in Queues : p # current => ~Holding(p)'
      BY <2>2, HoldingSame, AttendedParts
    <3> QED  BY <1>1, <1>3, <3>1, <3>2, AttendedParts, AttendedPartsNext
  <2> QED  BY <1>3, <2>1, <2>3, <2>4, EnqueueFrame
<1>4. ASSUME current = 0, made < MaxQueues, Enqueue(m, made + 1), current' = made + 1
      PROVE  Attended'
  <2>1. made + 1 \in Queues /\ 0 \notin Queues
    BY <1>4, MaxQueuesType DEF Map, Queues
  <2>2. \A p \in Queues : ~Holding(p) /\ drain[p] = "off" /\ op # <<"drain", p>>
    BY <1>4, <2>1, AttendedParts
  <2>3. \A p \in Queues : p # made + 1 => ~Holding(p)'
    BY <1>4, <2>1, <2>2, EnqueueFrame, HoldingSame
  <2>4. CASE UNCHANGED <<items, dropped>>
    <3>1. \A p \in Queues : ~Holding(p)'
      BY <2>2, <2>4, HoldingSame
    <3> QED  BY <1>1, <2>2, <3>1, AttendedPartsNext
  <2>5. CASE op # None
    <3>1. op[1] = "direct"
      BY <2>2, <2>5, Operations
    <3> QED  BY <1>1, <1>4, <2>2, <2>3, <3>1, AttendedPartsNext
  <2> QED  BY <1>4, <2>1, <2>4, <2>5, EnqueueFrame
<1> QED  BY <1>2, <1>3, <1>4 DEF Arrive, queue

LEMMA DirectEndsAttended ==
  ASSUME TypeOK, Attended, DirectEnds
  PROVE  Attended'
<1>0. Map /\ Drains
  BY TypeParts
<1> USE <1>0
<1>1. op' = None /\ Schedule(drain, items, dropped) /\ UNCHANGED <<items, dropped>>
  BY DEF DirectEnds
<1>2. \A p \in Queues : op' # <<"drain", p>>
  BY <1>1 DEF None
<1>3. \A p \in Queues : Holding(p)' <=> Holding(p)
  BY <1>1, HoldingSame
<1>4. 0 \notin Queues
  BY DEF Queues
<1>5. CASE current = 0 /\ drain' = drain /\ current' = 0
  BY <1>2, <1>3, <1>4, <1>5, AttendedParts, AttendedPartsNext
<1>6. CASE current # 0 /\ drain[current] # "off" /\ drain' = drain /\ current' = current
  BY <1>2, <1>3, <1>6, AttendedParts, AttendedPartsNext
<1>7. CASE /\ current # 0 /\ drain[current] = "off" /\ Empty(current, items, dropped)
           /\ drain' = drain /\ current' = 0
  <2>1. ~Holding(current)
    BY <1>7 DEF Holding
  <2>2. \A p \in Queues : ~Holding(p) /\ drain[p] = "off"
    BY <1>7, <2>1, AttendedParts
  <2> QED  BY <1>2, <1>3, <1>7, <2>2, AttendedPartsNext
<1>8. CASE /\ current # 0 /\ drain[current] = "off" /\ ~Empty(current, items, dropped)
           /\ drain' = [drain EXCEPT ![current] = "debounce"] /\ current' = current
  <2>1. current \in Queues
    BY <1>8, CurrentIsQueue
  <2>2. \A p \in Queues : drain'[p] = IF p = current THEN "debounce" ELSE drain[p]
    BY <1>8, <2>1 DEF Drains
  <2> QED  BY <1>2, <1>3, <1>8, <2>2, AttendedParts, AttendedPartsNext
<1> QED  BY <1>1, <1>5, <1>6, <1>7, <1>8, ScheduleCases

LEMMA ClearAttended ==
  ASSUME TypeOK, Attended, ~cutOff', Clear
  PROVE  Attended'
<1>0. Map /\ Held
  BY TypeParts
<1> USE <1>0
<1>1. current # 0 /\ UNCHANGED <<drain, op>> /\ current' = 0 /\ drain[current] = "off"
  BY DEF Clear, draining
<1>2. current \in Queues
  BY <1>1, CurrentIsQueue
<1>3. \A p \in Queues : drain[p] = "off"
  BY <1>1, AttendedParts
<1>4. \A p \in Queues : ~Holding(p)'
  <2>1. items'[current] = <<>> /\ dropped'[current] = <<>>
    BY <1>2 DEF Clear, Held
  <2>2. \A p \in Queues : p # current => items'[p] = items[p] /\ dropped'[p] = dropped[p]
    BY DEF Clear, Held
  <2>3. \A p \in Queues : p # current => ~Holding(p)'
    BY <2>2, HoldingSame, AttendedParts
  <2> QED  BY <2>1, <2>3, HoldingNext DEF Empty
<1> QED  BY <1>1, <1>3, <1>4, AttendedParts, AttendedPartsNext

LEMMA WakeAttended ==
  ASSUME TypeOK, Attended, NEW q \in Queues, Wake(q)
  PROVE  Attended'
<1>0. Map /\ Drains
  BY TypeParts
<1>1. drain[q] = "debounce" /\ UNCHANGED <<op, items, dropped>>
  BY DEF Wake
<1>2. \A p \in Queues : op # <<"drain", p>>
  BY <1>1, DrainIsCurrent
<1>3. CASE EndDrain(q, items, dropped)
  <2>1. EndDrain(q, items', dropped')
    BY <1>1, <1>3
  <2> QED  BY <1>0, <1>1, <1>2, <2>1, EndDrainAttended
<1>4. CASE drain' = [drain EXCEPT ![q] = "starting"] /\ current' = current
  <2>1. \A p \in Queues : drain'[p] = IF p = q THEN "starting" ELSE drain[p]
    BY <1>0, <1>4 DEF Drains
  <2>2. \A p \in Queues : Holding(p)' <=> Holding(p)
    BY <1>1, HoldingSame
  <2> QED  BY <1>1, <1>2, <1>4, <2>1, <2>2, AttendedParts, AttendedPartsNext
<1> QED  BY <1>3, <1>4 DEF Wake

LEMMA RunStartsAttended ==
  ASSUME TypeOK, Attended, NEW q \in Queues, RunStarts(q)
  PROVE  Attended'
<1>0. Map /\ Drains
  BY TypeParts
<1>1. drain[q] = "starting" /\ UNCHANGED <<items, dropped>>
  BY DEF RunStarts
<1>2. \A p \in Queues : op # <<"drain", p>>
  BY <1>1, DrainIsCurrent
<1>3. CASE EndDrain(q, items, dropped) /\ op' = op
  <2>1. EndDrain(q, items', dropped')
    BY <1>1, <1>3
  <2> QED  BY <1>0, <1>1, <1>2, <1>3, <2>1, EndDrainAttended
<1>4. CASE /\ op' = <<"drain", q>> /\ drain' = [drain EXCEPT ![q] = "running"]
           /\ current' = current
  <2>1. \A p \in Queues : drain'[p] = IF p = q THEN "running" ELSE drain[p]
    BY <1>0, <1>4 DEF Drains
  <2>2. \A p \in Queues : Holding(p)' <=> Holding(p)
    BY <1>1, HoldingSame
  <2>3. q = current /\ \A p \in Queues : p # q => ~Holding(p)
    BY <1>1, DrainIsCurrent
  <2>4. \A p \in Queues : op' = <<"drain", p>> => p = q
    BY <1>4
  <2> QED  BY <1>1, <1>4, <2>1, <2>2, <2>3, <2>4, AttendedParts, AttendedPartsNext
<1> QED  BY <1>3, <1>4 DEF RunStarts

LEMMA RunEndsAttended ==
  ASSUME TypeOK, Attended, NEW q \in Queues, RunEnds(q)
  PROVE  Attended'
<1>0. Map /\ Drains /\ Held
  BY TypeParts
<1>1. drain[q] = "running" /\ op' = None
  BY DEF RunEnds
<1>2. \A p \in Queues : op' # <<"drain", p>>
  BY <1>1 DEF None
<1>3. \A p \in Queues : p # q => items'[p] = items[p] /\ dropped'[p] = dropped[p]
  BY <1>0 DEF RunEnds, Held
<1>4. CASE EndDrain(q, items', dropped')
  BY <1>0, <1>1, <1>2, <1>3, <1>4, EndDrainAttended
<1>5. ASSUME NEW w \in {"starting", "debounce"}, current' = current,
             drain' = [drain EXCEPT ![q] = w]
      PROVE  Attended'
  <2>1. \A p \in Queues : drain'[p] = IF p = q THEN w ELSE drain[p]
    BY <1>0, <1>5 DEF Drains
  <2>2. q = current /\ \A p \in Queues : p # q => ~Holding(p) /\ drain[p] = "off"
    BY <1>1, DrainIsCurrent
  <2>3. \A p \in Queues : p # q => ~Holding(p)'
    BY <1>3, <2>2, HoldingSame
  <2> QED  BY <1>2, <1>5, <2>1, <2>2, <2>3, AttendedPartsNext
<1> QED  BY <1>4, <1>5 DEF RunEnds

LEMMA RunThrowsAttended ==
  ASSUME TypeOK, Attended, NEW q \in Queues, RunThrows(q)
  PROVE  Attended'
<1>0. Map /\ Drains
  BY TypeParts
<1>1. drain[q] = "running" /\ op' = None /\ UNCHANGED <<items, dropped>>
  BY DEF RunThrows
<1>2. \A p \in Queues : op' # <<"drain", p>>
  BY <1>1 DEF None
<1>3. EndDrain(q, items', dropped')
  BY <1>1 DEF RunThrows
<1> QED  BY <1>0, <1>1, <1>2, <1>3, EndDrainAttended

LEMMA BeginAttended ==
  ASSUME TypeOK, Attended, NEW m \in Msg, Begin(m)
  PROVE  Attended'
<1>1. Around /\ UNCHANGED <<items, dropped, drain, current>>
  BY TypeParts DEF Begin, queue, draining
<1>2. CASE op' = op
  BY <1>1, <1>2, AttendedSame
<1>3. CASE op = None /\ op' = <<"direct", m>>
  <2>1. op'[1] = "direct" /\ \A q \in Queues : op' # <<"drain", q>>
    BY <1>3
  <2>2. \A p \in Queues : Holding(p)' <=> Holding(p)
    BY <1>1, HoldingSame
  <2> QED  BY <1>1, <2>1, <2>2, AttendedParts, AttendedPartsNext
<1> QED  BY <1>2, <1>3 DEF Begin

LEMMA DrivingStep == TypeOK /\ Driving /\ [Next]_vars => Driving'
<1> SUFFICES ASSUME TypeOK, Driving, [Next]_vars, ~cutOff', ~unattended'  PROVE Attended'
  BY Zenon DEF Driving
<1>0. Held /\ Map
  BY TypeParts
<1> USE DEF queue, draining, history
<1>1. ~cutOff /\ ~unattended
  <2>1. cutOff => cutOff'
    BY Zenon DEF Next, DrainStep, vars, Arrive, Begin, Expire, DirectEnds, OtherBegins,
       OtherEnds,
                 Clear, Wake, RunStarts, RunEnds, RunThrows
  <2>2. unattended => unattended'
    <3>1. ASSUME NEW m \in Msg, Arrive(m), unattended  PROVE unattended'
      BY <3>1, Zenon DEF Arrive, Enqueue
    <3> QED
      BY <3>1, Zenon DEF Next, DrainStep, vars, Begin, Expire, DirectEnds, OtherBegins,
                         OtherEnds, Clear, Wake, RunStarts, RunEnds, RunThrows
  <2> QED  BY <2>1, <2>2
<1>2. Attended
  BY <1>1 DEF Driving
<1>3. CASE UNCHANGED vars
  BY <1>2, <1>3, AttendedSame DEF vars
<1>4. ASSUME NEW m \in Msg, Expire(m)  PROVE Attended'
  BY <1>2, <1>4, AttendedSame DEF Expire
<1>5. CASE OtherBegins \/ OtherEnds
  BY <1>2, <1>5, AttendedSame DEF OtherBegins, OtherEnds
<1>6. ASSUME NEW m \in Msg, Arrive(m) \/ Begin(m)  PROVE Attended'
  BY <1>2, <1>6, ArriveAttended, BeginAttended
<1>7. CASE DirectEnds \/ Clear
  BY <1>2, <1>7, DirectEndsAttended, ClearAttended
<1>8. ASSUME NEW q \in Queues, DrainStep(q) \/ RunThrows(q)  PROVE Attended'
  BY <1>2, <1>8, WakeAttended, RunStartsAttended, RunEndsAttended, RunThrowsAttended
     DEF DrainStep
<1> QED  BY <1>3, <1>4, <1>5, <1>6, <1>7, <1>8 DEF Next

LEMMA DrivingInit == Init => Driving
<1> SUFFICES ASSUME Init  PROVE Attended
  BY DEF Driving
<1>1. \A q \in Queues : ~Holding(q) /\ drain[q] = "off" /\ op # <<"drain", q>>
  BY DEF Init, Holding, Empty, None
<1> QED  BY <1>1, AttendedParts

\* No queue is left with messages and nobody at work on them: it has a drain, or
\* a direct run is active whose end starts one, through every order of arrivals,
\* runs refused because another began first, runs that throw and clears
\* (finalizeWithFollowup, the finally block of the drain).
THEOREM QueuesAreDriven == Spec => []WorkIsDriven
<1>1. Init => TypeOK /\ Driving
  BY TypeInit, DrivingInit
<1>2. TypeOK /\ Driving /\ [Next]_vars => TypeOK' /\ Driving'
  BY TypeStep, DrivingStep
<1>3. Driving => WorkIsDriven
  BY DEF Driving, WorkIsDriven, Attended
<1> QED  BY <1>1, <1>2, <1>3, PTL DEF Spec

-----------------------------------------------------------------------------
(* What was accepted is kept *)

LEMMA EndDrainFrame ==
  ASSUME Map, Drains, NEW q \in Queues, NEW its, NEW drp, EndDrain(q, its, drp)
  PROVE  /\ drain'[q] \in {"off", "debounce"} /\ current' \in {0, current}
         /\ \A p \in Queues : p # q => drain'[p] \in {drain[p], "debounce"}
         /\ \A p \in Queues : p # q /\ drain[p] # "off" => drain'[p] = drain[p]
         /\ \A p \in Queues : drain'[p] # "off" => drain[p] # "off" \/ p = current
<1> DEFINE d == [drain EXCEPT ![q] = "off"]
<1>1. \A p \in Queues : d[p] = IF p = q THEN "off" ELSE drain[p]
  BY DEF Drains
<1>2. d \in [Queues -> DrainStates]
  BY DEF Drains, DrainStates
<1>3. \/ drain' = d /\ current' = 0
      \/ Schedule(d, its, drp)
  BY DEF EndDrain
<1> HIDE DEF d
<1>4. CASE drain' = d /\ current' \in {0, current}
  BY <1>1, <1>4
<1>5. CASE /\ current # 0 /\ d[current] = "off" /\ current' = current
           /\ drain' = [d EXCEPT ![current] = "debounce"]
  <2>1. \A p \in Queues : drain'[p] = IF p = current THEN "debounce" ELSE d[p]
    BY <1>2, <1>5
  <2> QED  BY <1>1, <1>5, <2>1
<1> QED  BY <1>3, <1>4, <1>5, ScheduleCases

LEMMA ScheduleFrame ==
  ASSUME Map, Drains, Schedule(drain, items, dropped)
  PROVE  /\ current' \in {0, current}
         /\ \A p \in Queues : drain'[p] \in {drain[p], "debounce"}
         /\ \A p \in Queues : drain[p] # "off" => drain'[p] = drain[p]
         /\ \A p \in Queues : drain'[p] # "off" => drain[p] # "off" \/ p = current
<1>4. CASE drain' = drain /\ current' \in {0, current}
  BY <1>4
<1>5. CASE /\ current # 0 /\ drain[current] = "off" /\ current' = current
           /\ drain' = [drain EXCEPT ![current] = "debounce"]
  <2>1. \A p \in Queues : drain'[p] = IF p = current THEN "debounce" ELSE drain[p]
    BY <1>5 DEF Drains
  <2> QED  BY <1>5, <2>1
<1> QED  BY <1>4, <1>5, ScheduleCases

LEMMA UnusedInit == Init => Unused
BY DEF Init, Unused

LEMMA UnusedStep == TypeOK /\ Unused /\ [Next]_vars => Unused'
<1> SUFFICES ASSUME TypeOK, Unused, [Next]_vars  PROVE Unused'
  OBVIOUS
<1>0. Map /\ Drains
  BY TypeParts
<1> USE <1>0 DEF queue, draining, history
<1>1. current <= made /\ made \in Nat /\ current \in Nat
  BY MaxQueuesType DEF Map
<1>2. ASSUME made' = made,
             \A p \in Queues : drain'[p] # "off" => drain[p] # "off" \/ p = current
      PROVE  Unused'
  BY <1>1, <1>2 DEF Unused, Queues
<1>3. CASE UNCHANGED vars
  BY <1>2, <1>3 DEF vars
<1>4. ASSUME NEW m \in Msg, Arrive(m)  PROVE Unused'
  <2>1. drain' = drain /\ made' \in {made, made + 1}
    BY <1>4 DEF Arrive
  <2> QED  BY <1>1, <2>1 DEF Unused, Queues
<1>5. ASSUME NEW m \in Msg, Begin(m) \/ Expire(m)  PROVE Unused'
  BY <1>2, <1>5 DEF Begin, Expire
<1>6. CASE OtherBegins \/ OtherEnds \/ Clear
  BY <1>2, <1>6 DEF OtherBegins, OtherEnds, Clear
<1>7. CASE DirectEnds
  BY <1>2, <1>7, ScheduleFrame DEF DirectEnds
<1>8. ASSUME NEW q \in Queues, NEW its, NEW drp, EndDrain(q, its, drp), made' = made
      PROVE  Unused'
  BY <1>2, <1>8, EndDrainFrame
<1>9. ASSUME NEW q \in Queues, NEW w, drain[q] # "off", drain' = [drain EXCEPT ![q] = w],
             made' = made
      PROVE  Unused'
  <2>1. \A p \in Queues : drain'[p] = IF p = q THEN w ELSE drain[p]
    BY <1>9 DEF Drains
  <2> QED  BY <1>2, <1>9, <2>1
<1>10. ASSUME NEW q \in Queues, Wake(q)  PROVE Unused'
  BY <1>8, <1>9, <1>10 DEF Wake
<1>11. ASSUME NEW q \in Queues, RunStarts(q)  PROVE Unused'
  BY <1>8, <1>9, <1>11 DEF RunStarts
<1>12. ASSUME NEW q \in Queues, RunEnds(q)  PROVE Unused'
  BY <1>8, <1>9, <1>12 DEF RunEnds
<1>13. ASSUME NEW q \in Queues, RunThrows(q)  PROVE Unused'
  BY <1>8, <1>13 DEF RunThrows
<1> QED  BY <1>3, <1>4, <1>5, <1>6, <1>7, <1>10, <1>11, <1>12, <1>13 DEF Next, DrainStep

\* A queue that a step leaves alone, but for a drain that ends or starts over.
LEMMA AheadSame ==
  ASSUME NEW q \in Queues, AheadOf(q), items'[q] = items[q], dropped'[q] = dropped[q],
         prompt'[q] = "items", current' \in {0, current},
         drain'[q] \in {"starting", "running"} =>
           drain[q] \in {"starting", "running"} /\ batch'[q] = batch[q] /\ groups'[q] = groups[q]
  PROVE  AheadOf(q)'
<1>1. q # 0
  BY DEF Queues
<1> QED  BY <1>1 DEF AheadOf

\* What is in a queue that a step only adds to, or whose items were run or
\* cleared.
LEMMA KeptSame ==
  ASSUME ~overflowed, AcceptedIsKept, ran \subseteq ran', cleared \subseteq cleared',
         accepted' \subseteq accepted \cup Waiting',
         \A q \in Queues : ToSet(items[q]) \subseteq ToSet(items'[q]) \cup ran' \cup cleared'
  PROVE  AcceptedIsKept'
<1>1. Waiting \subseteq Waiting' \cup ran' \cup cleared'
  BY DEF Waiting
<1>2. accepted \subseteq Waiting \cup ran \cup cleared
  BY DEF AcceptedIsKept
<1>3. accepted' \subseteq Waiting' \cup ran' \cup cleared'
  BY <1>1, <1>2
<1> QED  BY <1>3 DEF AcceptedIsKept

LEMMA ToSetAppend ==
  ASSUME NEW S, NEW s \in Seq(S), NEW x \in S
  PROVE  ToSet(s) \subseteq ToSet(Append(s, x)) /\ x \in ToSet(Append(s, x))
<1> DEFINE t == Append(s, x)
<1>1. Len(s) \in Nat /\ DOMAIN s = 1 .. Len(s) /\ DOMAIN t = 1 .. Len(s) + 1
  OBVIOUS
<1>2. t[Len(s) + 1] = x /\ \A i \in 1 .. Len(s) : t[i] = s[i]
  OBVIOUS
<1> HIDE DEF t
<1> QED  BY <1>1, <1>2 DEF ToSet, t

LEMMA FrontAppend ==
  ASSUME NEW S, NEW s \in Seq(S), NEW x \in S, NEW b \in Seq(S), NEW g \in Seq(S),
         AtFront(s, b, g)
  PROVE  AtFront(Append(s, x), b, g)
<1> DEFINE t == Append(s, x)
<1>1. Len(s) \in Nat /\ Len(b) \in Nat /\ Len(g) \in Nat /\ Len(t) = Len(s) + 1
  OBVIOUS
<1>2. \A i \in 1 .. Len(s) : t[i] = s[i]
  OBVIOUS
<1> HIDE DEF t
<1>3. AtFront(t, b, g)
  <2>1. Len(b) + Len(g) <= Len(t)
    BY <1>1 DEF AtFront
  <2>2. \A i \in 1 .. Len(b) : t[i] = b[i]
    BY <1>1, <1>2 DEF AtFront
  <2>3. \A i \in 1 .. Len(g) : t[Len(b) + i] = g[i]
    <3> SUFFICES ASSUME NEW i \in 1 .. Len(g)  PROVE t[Len(b) + i] = g[i]
      OBVIOUS
    <3>1. Len(b) + i \in 1 .. Len(s) /\ s[Len(b) + i] = g[i]
      BY <1>1 DEF AtFront
    <3> QED  BY <1>2, <3>1
  <2> QED  BY <2>1, <2>2, <2>3 DEF AtFront
<1> QED  BY <1>3 DEF t

\* What the run was given comes off the front.
LEMMA FrontRest ==
  ASSUME NEW S, NEW s \in Seq(S), NEW b \in Seq(S), NEW g \in Seq(S), AtFront(s, b, g)
  PROVE  /\ ToSet(s) \subseteq ToSet(Rest(s, Len(b))) \cup ToSet(b)
         /\ AtFront(Rest(s, Len(b)), <<>>, g)
<1> DEFINE t == Rest(s, Len(b))
<1>1. Len(s) \in Nat /\ Len(b) \in Nat /\ Len(g) \in Nat /\ Len(b) \in 0 .. Len(s)
  BY DEF AtFront
<1>2. /\ t \in Seq(S) /\ Len(t) = Len(s) - Len(b)
      /\ \A i \in 1 .. Len(s) - Len(b) : t[i] = s[Len(b) + i]
  BY <1>1, RestProperties
<1> HIDE DEF t
<1>3. ToSet(s) \subseteq ToSet(t) \cup ToSet(b)
  <2> SUFFICES ASSUME NEW i \in 1 .. Len(s)  PROVE s[i] \in ToSet(t) \cup ToSet(b)
    BY DEF ToSet
  <2>1. CASE i <= Len(b)
    <3>1. i \in DOMAIN b /\ s[i] = b[i]
      BY <1>1, <2>1 DEF AtFront
    <3> QED  BY <3>1 DEF ToSet
  <2>2. CASE i > Len(b)
    <3>1. i - Len(b) \in 1 .. Len(s) - Len(b) /\ Len(b) + (i - Len(b)) = i
      BY <1>1, <2>2
    <3>2. t[i - Len(b)] = s[i] /\ i - Len(b) \in DOMAIN t
      BY <1>2, <3>1
    <3> QED  BY <3>2 DEF ToSet
  <2> QED  BY <1>1, <2>1, <2>2
<1>4. AtFront(t, <<>>, g)
  <2>1. Len(g) <= Len(t) /\ \A i \in 1 .. Len(g) : t[i] = g[i]
    BY <1>1, <1>2 DEF AtFront
  <2> QED  BY <1>1, <2>1 DEF AtFront
<1> QED  BY <1>3, <1>4 DEF t

\* The groups that are left, cut once more.
LEMMA FrontCut ==
  ASSUME NEW S, NEW s \in Seq(S), NEW g \in Seq(S), AtFront(s, <<>>, g), NEW n \in 0 .. Len(g)
  PROVE  AtFront(s, First(g, n), Rest(g, n))
<1>1. Len(s) \in Nat /\ Len(g) \in Nat
  OBVIOUS
<1>2. Len(g) <= Len(s) /\ \A i \in 1 .. Len(g) : s[i] = g[i]
  BY <1>1 DEF AtFront
<1>3. /\ Len(First(g, n)) = n /\ Len(Rest(g, n)) = Len(g) - n
      /\ \A i \in 1 .. n : First(g, n)[i] = g[i]
      /\ \A i \in 1 .. Len(g) - n : Rest(g, n)[i] = g[n + i]
  <2>1. Len(First(g, n)) = n /\ \A i \in 1 .. n : First(g, n)[i] = g[i]
    BY FirstProperties
  <2>2. /\ Len(Rest(g, n)) = Len(g) - n
        /\ \A i \in 1 .. Len(g) - n : Rest(g, n)[i] = g[n + i]
    BY RestProperties
  <2> QED  BY <2>1, <2>2
<1>4. \A i \in 1 .. Len(g) - n : n + i \in 1 .. Len(g)
  BY <1>1
<1> QED  BY <1>1, <1>2, <1>3, <1>4 DEF AtFront

\* Both parts, for a step that leaves the queues alone.
LEMMA KeepingSame ==
  ASSUME ~overflowed, Ahead, AcceptedIsKept,
         UNCHANGED <<items, dropped, accepted, ran, cleared>>, current' \in {0, current},
         \A q \in Queues :
           /\ prompt'[q] = "items"
           /\ drain'[q] \in {"starting", "running"} =>
                /\ drain[q] \in {"starting", "running"}
                /\ batch'[q] = batch[q] /\ groups'[q] = groups[q]
  PROVE  Ahead' /\ AcceptedIsKept'
<1>1. Ahead'
  BY AheadSame DEF Ahead
<1>2. AcceptedIsKept'
  BY KeptSame
<1> QED  BY <1>1, <1>2

\* enqueueFollowupRun of a queue that is not full.
LEMMA EnqueueKeeping ==
  ASSUME Held, ~overflowed', NEW m \in Msg, NEW q \in Queues, Enqueue(m, q)
  PROVE  /\ UNCHANGED <<dropped, cleared>>
         /\ \/ UNCHANGED <<items, accepted>>
            \/ /\ items' = [items EXCEPT ![q] = Append(items[q], m)]
               /\ accepted' = accepted \cup {m}
<1>1. CASE UNCHANGED <<items, dropped, accepted, cleared>>
  BY <1>1
<1>2. CASE /\ MakeRoom(q) /\ items' = [items EXCEPT ![q] = Append(Roomy(q), m)]
           /\ accepted' = accepted \cup {m} /\ cleared' = cleared
  <2>1. Len(items[q]) < Cap /\ dropped' = dropped
    BY <1>2 DEF MakeRoom
  <2>2. items[q] \in Seq(Msg)
    BY DEF Held
  <2>3. Roomy(q) = items[q]
    BY <2>1, <2>2, RestNone DEF Roomy
  <2> QED  BY <1>2, <2>1, <2>3
<1> QED  BY <1>1, <1>2 DEF Enqueue

LEMMA ArriveKeeping ==
  ASSUME TypeOK, Unused, ~overflowed, ~overflowed', Ahead, AcceptedIsKept,
         NEW m \in Msg, Arrive(m)
  PROVE  Ahead' /\ AcceptedIsKept'
<1>0. Map /\ Held /\ Drains
  BY TypeParts
<1> USE <1>0
<1>1. UNCHANGED <<drain, batch, groups, prompt, ran>>
  BY DEF Arrive, draining
<1>2. CASE UNCHANGED <<items, dropped, current, accepted, cleared>>
  BY <1>1, <1>2, KeepingSame DEF Ahead, AheadOf
<1>3. ASSUME NEW q \in Queues, Enqueue(m, q), current' = q,
             q # current => current = 0 /\ drain[q] = "off"
      PROVE  Ahead' /\ AcceptedIsKept'
  <2>1. UNCHANGED <<dropped, cleared>>
    BY <1>3, EnqueueKeeping
  <2>2. ASSUME NEW p \in Queues, items'[p] = items[p]  PROVE AheadOf(p)'
    BY <1>1, <1>3, <2>1, <2>2 DEF Ahead, AheadOf
  <2>3. CASE UNCHANGED <<items, accepted>>
    <3>1. Ahead'
      BY <2>2, <2>3 DEF Ahead
    <3>2. AcceptedIsKept'
      BY <1>1, <2>1, <2>3, KeptSame
    <3> QED  BY <3>1, <3>2
  <2>4. CASE /\ items' = [items EXCEPT ![q] = Append(items[q], m)]
             /\ accepted' = accepted \cup {m}
    <3>1. /\ items[q] \in Seq(Msg) /\ items'[q] = Append(items[q], m)
          /\ \A p \in Queues : p # q => items'[p] = items[p]
      BY <2>4 DEF Held
    <3>2. AheadOf(q)'
      <4>1. AheadOf(q) /\ batch[q] \in Seq(Msg) /\ groups[q] \in Seq(Msg)
        BY DEF Ahead, Drains
      <4>2. AtFront(items[q], batch[q], groups[q]) => AtFront(items'[q], batch[q],
         groups[q])
        BY <3>1, <4>1, FrontAppend
      <4>3. drain[q] \in {"starting", "running"} => q = current
        BY <1>3
      <4> QED  BY <1>1, <2>1, <4>1, <4>2, <4>3 DEF AheadOf
    <3>3. Ahead'
      BY <2>2, <3>1, <3>2 DEF Ahead
    <3>4. ToSet(items[q]) \subseteq ToSet(items'[q]) /\ m \in ToSet(items'[q])
      BY <3>1, ToSetAppend
    <3>5. accepted' \subseteq accepted \cup Waiting'
      BY <2>4, <3>4 DEF Waiting
    <3>6. \A p \in Queues : ToSet(items[p]) \subseteq ToSet(items'[p])
      BY <3>1, <3>4
    <3>7. AcceptedIsKept'
      BY <1>1, <2>1, <3>5, <3>6, KeptSame
    <3> QED  BY <3>3, <3>7
  <2> QED  BY <1>3, <2>3, <2>4, EnqueueKeeping
<1>4. CASE current # 0 /\ Enqueue(m, current) /\ current' = current
  BY <1>3, <1>4, CurrentIsQueue
<1>5. CASE current = 0 /\ made < MaxQueues /\ Enqueue(m, made + 1) /\ current' = made + 1
  <2>1. made + 1 \in Queues /\ ~(made + 1 <= made)
    BY <1>5, MaxQueuesType DEF Map, Queues
  <2>2. drain[made + 1] = "off"
    BY <2>1 DEF Unused
  <2> QED  BY <1>3, <1>5, <2>1, <2>2
<1> QED  BY <1>2, <1>4, <1>5 DEF Arrive, queue

LEMMA ClearKeeping ==
  ASSUME TypeOK, ~overflowed, Ahead, AcceptedIsKept, Clear
  PROVE  Ahead' /\ AcceptedIsKept'
<1>0. Map /\ Held
  BY TypeParts
<1>1. /\ UNCHANGED <<drain, batch, groups, prompt, accepted, ran>>
      /\ current # 0 /\ current' = 0 /\ cleared \subseteq cleared'
      /\ ToSet(items[current]) \subseteq cleared'
  BY DEF Clear, draining
<1>2. current \in Queues /\ 0 \notin Queues
  BY <1>0, <1>1, CurrentIsQueue DEF Queues
<1>3. /\ items'[current] = <<>> /\ dropped'[current] = <<>>
      /\ \A p \in Queues : p # current => items'[p] = items[p] /\ dropped'[p] = dropped[p]
  BY <1>0, <1>2 DEF Clear, Held
<1>4. Ahead'
  <2> SUFFICES ASSUME NEW p \in Queues  PROVE AheadOf(p)'
    BY DEF Ahead
  <2>1. CASE p = current
    BY <1>1, <1>2, <1>3, <2>1 DEF Ahead, AheadOf
  <2>2. CASE p # current
    BY <1>1, <1>2, <1>3, <2>2 DEF Ahead, AheadOf
  <2> QED  BY <2>1, <2>2
<1>5. \A p \in Queues : ToSet(items[p]) \subseteq ToSet(items'[p]) \cup ran' \cup cleared'
  BY <1>1, <1>3
<1>6. AcceptedIsKept'
  BY <1>1, <1>5, KeptSame
<1> QED  BY <1>4, <1>6

\* A drain that ends or starts over without having taken anything off.
LEMMA EndKeeping ==
  ASSUME TypeOK, ~overflowed, Ahead, AcceptedIsKept, NEW q \in Queues,
         EndDrain(q, items, dropped), ForgetRound(q),
         UNCHANGED <<items, dropped, accepted, ran, cleared>>
  PROVE  Ahead' /\ AcceptedIsKept'
<1>0. Map /\ Drains
  BY TypeParts
<1>1. \A p \in Queues : prompt'[p] = "items"
  BY <1>0 DEF ForgetRound, Drains, Ahead, AheadOf
<1>2. \A p \in Queues : p # q => batch'[p] = batch[p] /\ groups'[p] = groups[p]
  BY <1>0 DEF ForgetRound, Drains
<1>3. /\ drain'[q] \in {"off", "debounce"} /\ current' \in {0, current}
      /\ \A p \in Queues : p # q => drain'[p] \in {drain[p], "debounce"}
  BY <1>0, EndDrainFrame
<1> QED  BY <1>1, <1>2, <1>3, KeepingSame

LEMMA WakeKeeping ==
  ASSUME TypeOK, ~overflowed, Ahead, AcceptedIsKept, NEW q \in Queues, Wake(q)
  PROVE  Ahead' /\ AcceptedIsKept'
<1>0. Held /\ Drains
  BY TypeParts
<1>1. UNCHANGED <<items, dropped, accepted, ran, cleared>>
  BY DEF Wake, history
<1>2. CASE Round(q).prompt = "none"
  BY <1>1, <1>2, EndKeeping DEF Wake
<1>3. CASE Round(q).prompt # "none"
  <2>1. /\ drain' = [drain EXCEPT ![q] = "starting"]
        /\ batch' = [batch EXCEPT ![q] = Round(q).batch]
        /\ groups' = [groups EXCEPT ![q] = Round(q).groups]
        /\ prompt' = [prompt EXCEPT ![q] = Round(q).prompt]
        /\ current' = current
    BY <1>3 DEF Wake
  <2>2. items[q] \in Seq(Msg) /\ dropped[q] = <<>> /\ ~Overflow(q)
    BY <1>0 DEF Held, Ahead, AheadOf, Overflow
  <2>3. items[q] # <<>>
    BY <1>3, <2>2 DEF Round
  <2>4. Round(q).prompt = "items"
    BY <2>2, <2>3 DEF Round
  <2>5. AtFront(items[q], Round(q).batch, Round(q).groups)
    <3>1. AtFront(items[q], <<>>, items[q]) /\ Len(items[q]) \in Nat \ {0}
      BY <2>2, <2>3 DEF AtFront
    <3>2. \A n \in 1 .. Len(items[q]) : AtFront(items[q], First(items[q], n),
       Rest(items[q], n))
      BY <2>2, <3>1, FrontCut
    <3>3. CASE Round(q).batch = First(items[q], 1) /\ Round(q).groups = <<>>
      <4>1. 1 \in 0 .. Len(items[q])
        BY <3>1
      <4> DEFINE one == First(items[q], 1)
      <4>2. Len(one) = 1 /\ \A i \in 1 .. 1 : one[i] = items[q][i]
        BY <2>2, <4>1, FirstProperties
      <4> HIDE DEF one
      <4>3. AtFront(items[q], one, <<>>)
        BY <3>1, <4>2 DEF AtFront
      <4> QED  BY <3>3, <4>3 DEF one
    <3> DEFINE n == GroupLength(items[q])
    <3>4. n \in 1 .. Len(items[q])
      BY <2>2, <2>3, GroupLengthType
    <3>5. Len(First(items[q], n)) = n
      BY <2>2, <3>4, FirstProperties
    <3>6. \/ Round(q).batch = First(items[q], 1) /\ Round(q).groups = <<>>
          \/ /\ Round(q).batch = First(items[q], n)
             /\ Round(q).groups = Rest(items[q], Len(First(items[q], n)))
      BY <2>3 DEF Round
    <3> HIDE DEF n
    <3> QED  BY <3>2, <3>3, <3>4, <3>5, <3>6
  <2>6. /\ batch'[q] = Round(q).batch /\ groups'[q] = Round(q).groups /\ prompt'[q] = "items"
        /\ \A p \in Queues : p # q => /\ batch'[p] = batch[p] /\ groups'[p] = groups[p]
                                      /\ prompt'[p] = prompt[p] /\ drain'[p] = drain[p]
    BY <1>0, <2>1, <2>4 DEF Drains
  <2>7. AheadOf(q)'
    BY <1>1, <2>2, <2>5, <2>6 DEF AheadOf
  <2>8. ASSUME NEW p \in Queues, p # q  PROVE AheadOf(p)'
    BY <1>1, <2>1, <2>6, <2>8 DEF Ahead, AheadOf
  <2>9. Ahead'
    BY <2>7, <2>8 DEF Ahead
  <2>10. AcceptedIsKept'
    BY <1>1, KeptSame
  <2> QED  BY <2>9, <2>10
<1> QED  BY <1>2, <1>3

LEMMA RunStartsKeeping ==
  ASSUME TypeOK, ~overflowed, Ahead, AcceptedIsKept, NEW q \in Queues, RunStarts(q)
  PROVE  Ahead' /\ AcceptedIsKept'
<1>0. Drains
  BY TypeParts
<1>1. UNCHANGED <<items, dropped, accepted, ran, cleared>> /\ drain[q] = "starting"
  BY DEF RunStarts
<1>2. CASE EndDrain(q, items, dropped) /\ ForgetRound(q)
  BY <1>1, <1>2, EndKeeping
<1>3. CASE /\ drain' = [drain EXCEPT ![q] = "running"]
           /\ UNCHANGED <<current, batch, groups, prompt>>
  <2>1. \A p \in Queues : drain'[p] = IF p = q THEN "running" ELSE drain[p]
    BY <1>0, <1>3 DEF Drains
  <2> QED  BY <1>1, <1>3, <2>1, KeepingSame DEF Ahead, AheadOf
<1> QED  BY <1>2, <1>3 DEF RunStarts

\* The items leave the queue by number, and they are the ones that were run.
LEMMA RunEndsKeeping ==
  ASSUME TypeOK, ~overflowed, Ahead, AcceptedIsKept, NEW q \in Queues, RunEnds(q)
  PROVE  Ahead' /\ AcceptedIsKept'
<1>0. Map /\ Held /\ Drains
  BY TypeParts
<1>1. /\ items[q] \in Seq(Msg) /\ batch[q] \in Seq(Msg) /\ groups[q] \in Seq(Msg)
      /\ Len(batch[q]) \in Nat /\ q # 0
  BY <1>0 DEF Held, Drains, Queues
<1>2. AheadOf(q) /\ prompt[q] = "items" /\ drain[q] = "running"
  BY DEF Ahead, AheadOf, RunEnds
<1>3. /\ dropped' = dropped /\ ran' = ran \cup ToSet(batch[q])
      /\ UNCHANGED <<accepted, cleared>>
      /\ items'[q] = Rest(items[q], Len(batch[q]))
      /\ \A p \in Queues : p # q => items'[p] = items[p]
  BY <1>0, <1>2 DEF RunEnds, Prompted, Held
<1>4. /\ ToSet(items[q]) \subseteq ToSet(items'[q]) \cup ToSet(batch[q])
      /\ AtFront(items'[q], <<>>, groups[q]) \/ (items'[q] = <<>> /\ q # current)
  <2>1. CASE AtFront(items[q], batch[q], groups[q])
    BY <1>1, <1>3, <2>1, FrontRest
  <2>2. CASE items[q] = <<>> /\ q # current
    <3>1. Rest(<<>>, Len(batch[q])) = <<>>
      BY <1>1 DEF Rest
    <3> QED  BY <1>3, <2>2, <3>1
  <2> QED  BY <1>2, <2>1, <2>2 DEF AheadOf
<1>5. AcceptedIsKept'
  BY <1>3, <1>4, KeptSame
<1>6. Ahead'
  <2>1. CASE groups[q] # <<>>
    <3> DEFINE n == GroupLength(groups[q])
    <3>1. /\ drain' = [drain EXCEPT ![q] = "starting"]
          /\ batch' = [batch EXCEPT ![q] = First(groups[q], n)]
          /\ groups' = [groups EXCEPT ![q] = Rest(groups[q], n)]
          /\ prompt' = [prompt EXCEPT ![q] = "items"]
          /\ current' = current
      BY <2>1 DEF RunEnds
    <3>2. n \in 1 .. Len(groups[q]) /\ Len(groups[q]) \in Nat
      BY <1>1, <2>1, GroupLengthType
    <3>3. items'[q] \in Seq(Msg)
      BY <1>1, <1>3, RestType
    <3> HIDE DEF n
    <3>4. AtFront(items'[q], <<>>, groups[q]) =>
            AtFront(items'[q], First(groups[q], n), Rest(groups[q], n))
      BY <1>1, <3>2, <3>3, FrontCut
    <3>5. /\ batch'[q] = First(groups[q], n) /\ groups'[q] = Rest(groups[q], n)
          /\ prompt'[q] = "items"
          /\ \A p \in Queues : p # q => /\ batch'[p] = batch[p] /\ groups'[p] = groups[p]
                                        /\ prompt'[p] = prompt[p] /\ drain'[p] = drain[p]
      BY <1>0, <3>1 DEF Drains
    <3>6. AheadOf(q)'
      BY <1>2, <1>3, <1>4, <3>1, <3>4, <3>5 DEF AheadOf
    <3>7. ASSUME NEW p \in Queues, p # q  PROVE AheadOf(p)'
      BY <1>3, <3>1, <3>5, <3>7 DEF Ahead, AheadOf
    <3> QED  BY <3>6, <3>7 DEF Ahead
  <2>2. CASE groups[q] = <<>>
    <3>1. ForgetRound(q)
      BY <2>2 DEF RunEnds
    <3>2. /\ drain'[q] \in {"off", "debounce"} /\ current' \in {0, current}
          /\ \A p \in Queues : p # q => drain'[p] \in {drain[p], "debounce"}
      <4>1. CASE EndDrain(q, items', dropped')
        BY <1>0, <4>1, EndDrainFrame
      <4>2. CASE drain' = [drain EXCEPT ![q] = "debounce"] /\ current' = current
        BY <1>0, <4>2 DEF Drains
      <4> QED  BY <2>2, <4>1, <4>2 DEF RunEnds
    <3>3. /\ prompt'[q] = "items"
          /\ \A p \in Queues : p # q => /\ batch'[p] = batch[p] /\ groups'[p] = groups[p]
                                        /\ prompt'[p] = prompt[p]
      BY <1>0, <3>1 DEF ForgetRound, Drains
    <3>4. AheadOf(q)'
      BY <1>2, <1>3, <3>2, <3>3 DEF AheadOf
    <3>5. ASSUME NEW p \in Queues, p # q  PROVE AheadOf(p)'
      <4>1. AheadOf(p) /\ prompt'[p] = "items"
        BY <3>3, <3>5 DEF Ahead, AheadOf
      <4> QED  BY <1>3, <3>2, <3>3, <3>5, <4>1, AheadSame
    <3> QED  BY <3>4, <3>5 DEF Ahead
  <2> QED  BY <2>1, <2>2
<1> QED  BY <1>5, <1>6

LEMMA KeepingStep == TypeOK /\ Unused /\ Keeping /\ [Next]_vars => Keeping'
<1> SUFFICES ASSUME TypeOK, Unused, Keeping, [Next]_vars, ~overflowed'
             PROVE  Ahead' /\ AcceptedIsKept'
  BY Zenon DEF Keeping
<1>0. Map /\ Drains
  BY TypeParts
<1> USE DEF queue, draining, history
<1>1. ~overflowed
  <2>1. ASSUME NEW m \in Msg, Arrive(m), overflowed  PROVE overflowed'
    BY <2>1, Zenon DEF Arrive, Enqueue, MakeRoom
  <2> QED
    BY <2>1, Zenon DEF Next, DrainStep, vars, Begin, Expire, DirectEnds, OtherBegins,
                       OtherEnds, Clear, Wake, RunStarts, RunEnds, RunThrows
<1>2. Ahead /\ AcceptedIsKept
  BY <1>1 DEF Keeping
<1>3. ASSUME UNCHANGED <<items, dropped, accepted, ran, cleared, current, drain, batch,
   groups, prompt>>
      PROVE  Ahead' /\ AcceptedIsKept'
  BY <1>1, <1>2, <1>3, KeepingSame DEF Ahead, AheadOf
<1>4. CASE UNCHANGED vars
  BY <1>3, <1>4 DEF vars
<1>5. ASSUME NEW m \in Msg, Begin(m) \/ Expire(m)  PROVE Ahead' /\ AcceptedIsKept'
  BY <1>3, <1>5 DEF Begin, Expire
<1>6. CASE OtherBegins \/ OtherEnds
  BY <1>3, <1>6 DEF OtherBegins, OtherEnds
<1>7. CASE DirectEnds
  <2>1. /\ UNCHANGED <<items, dropped, accepted, ran, cleared, batch, groups, prompt>>
        /\ Schedule(drain, items, dropped)
    BY <1>7 DEF DirectEnds
  <2>2. /\ current' \in {0, current}
        /\ \A p \in Queues : drain'[p] \in {drain[p], "debounce"}
    BY <1>0, <2>1, ScheduleFrame
  <2> QED  BY <1>1, <1>2, <2>1, <2>2, KeepingSame DEF Ahead, AheadOf
<1>8. ASSUME NEW q \in Queues, RunThrows(q)  PROVE Ahead' /\ AcceptedIsKept'
  BY <1>1, <1>2, <1>8, EndKeeping DEF RunThrows
<1>9. ASSUME NEW q \in Queues, DrainStep(q)  PROVE Ahead' /\ AcceptedIsKept'
  BY <1>1, <1>2, <1>9, WakeKeeping, RunStartsKeeping, RunEndsKeeping DEF DrainStep
<1>10. ASSUME NEW m \in Msg, Arrive(m)  PROVE Ahead' /\ AcceptedIsKept'
  BY <1>1, <1>2, <1>10, ArriveKeeping
<1>11. CASE Clear
  BY <1>1, <1>2, <1>11, ClearKeeping
<1> QED  BY <1>4, <1>5, <1>6, <1>7, <1>8, <1>9, <1>10, <1>11 DEF Next

LEMMA KeepingInit == Init => Keeping
BY DEF Init, Keeping, Ahead, AheadOf, AcceptedIsKept

\* A message that was queued waits, has been run or was cleared with its session,
\* although a run takes its items off the queue by number: until a message is
\* dropped for the cap, they are the ones it was given.
THEOREM AcceptedAreKept == Spec => []AcceptedIsKept
<1>1. Init => TypeOK /\ Unused /\ Keeping
  BY TypeInit, UnusedInit, KeepingInit
<1>2. TypeOK /\ Unused /\ Keeping /\ [Next]_vars => TypeOK' /\ Unused' /\ Keeping'
  BY TypeStep, UnusedStep, KeepingStep
<1>3. Keeping => AcceptedIsKept
  BY DEF Keeping, AcceptedIsKept
<1> QED  BY <1>1, <1>2, <1>3, PTL DEF Spec

-----------------------------------------------------------------------------
(* How often a message may still be run *)

\* The messages that came to a queue object, in their order, are log.  What its
\* drain has under way begins at from, and its items begin at head: further on
\* when some were dropped for the cap or cleared since the round began.
Entered(log, from, head, its, bat, grp) ==
  /\ 1 <= from /\ from <= head /\ head <= Len(log) + 1
  /\ Len(its) = Len(log) + 1 - head
  /\ \A i \in 1 .. Len(its) : its[i] = log[head + i - 1]
  /\ from + Len(bat) + Len(grp) <= Len(log) + 1
  /\ \A i \in 1 .. Len(bat) : bat[i] = log[from + i - 1]
  /\ \A i \in 1 .. Len(grp) : grp[i] = log[from + Len(bat) + i - 1]

\* How many messages a run that has begun was given.
Given(q) == IF drain[q] = "running" /\ prompt[q] # "summary" THEN Len(batch[q]) ELSE 0

\* The times a drain may still start m: once for each place of m in a log that
\* no run was given, and once for the place it gets when it is queued next.
Places(log, begin, m) ==
  {t \in Queues \X Nat : /\ begin[t[1]] <= t[2] /\ t[2] <= Len(log[t[1]])
                         /\ log[t[1]][t[2]] = m}
Chances(log, begin, seen, m) ==
  Places(log, begin, m) \cup (IF m \in seen THEN {} ELSE {<<0, 0>>})

Begins(from) == [q \in Queues |-> from[q] + Given(q)]

Logs == [Queues -> Seq(Msg)]
Marks == [Queues -> Nat]

Booked(log, from, head) ==
  /\ \A q \in Queues :
       Entered(log[q], from[q], head[q], items[q], batch[q], groups[q])
  /\ \A m \in Msg : /\ IsFiniteSet(Chances(log, Begins(from), recent, m))
                    /\ Cardinality(Chances(log, Begins(from), recent, m)) <= runs[m]

\* No message is twice in one queue.
Once(s) == \A i, j \in DOMAIN s : s[i] = s[j] => i = j
Distinct == \A q \in Queues : Once(items[q])

Counting ==
  Distinct /\ \E log \in Logs : \E from, head \in Marks : Booked(log, from, head)

LEMMA CountingInit == Init => Counting
<1> SUFFICES ASSUME Init  PROVE Counting
  OBVIOUS
<1> DEFINE log == [q \in Queues |-> <<>>]
           one == [q \in Queues |-> 1]
<1>1. log \in Logs /\ one \in Marks
  BY DEF Logs, Marks
<1>2. ASSUME NEW q \in Queues
      PROVE  /\ Entered(log[q], one[q], one[q], items[q], batch[q], groups[q])
             /\ items[q] = <<>>
  BY DEF Init, Entered
<1>3. ASSUME NEW m \in Msg
      PROVE  /\ IsFiniteSet(Chances(log, Begins(one), recent, m))
             /\ Cardinality(Chances(log, Begins(one), recent, m)) <= runs[m]
  <2>1. \A q \in Queues : Begins(one)[q] = 1 /\ Len(log[q]) = 0
    BY DEF Init, Begins, Given
  <2>2. Places(log, Begins(one), m) = {}
    <3> HIDE DEF log, one
    <3> QED  BY <2>1 DEF Places
  <2>3. Chances(log, Begins(one), recent, m) = {<<0, 0>>} /\ runs[m] = 1
    BY <2>2 DEF Init, Chances
  <2> DEFINE S == Chances(log, Begins(one), recent, m)
  <2>4. S = {<<0, 0>>}
    BY <2>3
  <2> HIDE DEF S
  <2>5. IsFiniteSet(S) /\ Cardinality(S) = 1
    BY <2>4, FS_Singleton
  <2> QED  BY <2>3, <2>5 DEF S
<1> HIDE DEF log, one
<1>4. Booked(log, one, one)
  BY <1>2, <1>3 DEF Booked
<1>5. Distinct
  BY <1>2 DEF Distinct, Once
<1> QED  BY <1>1, <1>4, <1>5 DEF Counting

\* Places that were given to a run, or have passed.
LEMMA FewerPlaces ==
  ASSUME NEW log \in Logs, NEW begin, NEW later, NEW m,
         \A q \in Queues : begin[q] \in Nat /\ later[q] \in Nat /\ begin[q] <= later[q]
  PROVE  Places(log, later, m) \subseteq Places(log, begin, m)
<1> SUFFICES ASSUME NEW t \in Places(log, later, m)  PROVE t \in Places(log, begin, m)
  OBVIOUS
<1>1. /\ t \in Queues \X Nat /\ t[1] \in Queues /\ t[2] \in Nat
      /\ later[t[1]] <= t[2] /\ t[2] <= Len(log[t[1]]) /\ log[t[1]][t[2]] = m
  BY DEF Places
<1>2. begin[t[1]] <= t[2]
  BY <1>1
<1> QED  BY <1>1, <1>2 DEF Places

LEMMA Fewer ==
  ASSUME NEW S, NEW T, NEW n \in Int, IsFiniteSet(S), Cardinality(S) <= n, T \subseteq S
  PROVE  IsFiniteSet(T) /\ Cardinality(T) <= n
<1>1. IsFiniteSet(T) /\ Cardinality(T) <= Cardinality(S)
  BY FS_Subset
<1>2. Cardinality(T) \in Nat /\ Cardinality(S) \in Nat
  BY <1>1, FS_CardinalityType
<1> QED  BY <1>1, <1>2

LEMMA GivenType ==
  ASSUME TypeOK, NEW q \in Queues
  PROVE  Given(q) \in Nat
<1>1. batch[q] \in Seq(Msg)
  BY DEF TypeOK
<1> QED  BY <1>1 DEF Given

LEMMA GivenTypeNext ==
  ASSUME TypeOK', NEW q \in Queues
  PROVE  Given(q)' \in Nat
<1>1. batch'[q] \in Seq(Msg)
  BY DEF TypeOK
<1> QED  BY <1>1 DEF Given

\* A step that starts nothing, queues nothing and takes nothing back.
LEMMA Later ==
  ASSUME TypeOK, TypeOK', NEW log \in Logs, NEW from \in Marks, NEW head \in Marks,
         Booked(log, from, head), NEW from2 \in Marks, NEW head2 \in Marks,
         \A q \in Queues :
           /\ Entered(log[q], from2[q], head2[q], items'[q], batch'[q], groups'[q])
           /\ from[q] + Given(q) <= from2[q] + Given(q)',
         recent' = recent, runs' = runs
  PROVE  Booked(log, from2, head2)'
<1>1. ASSUME NEW q \in Queues
      PROVE  /\ Begins(from)[q] \in Nat /\ Begins(from2)'[q] \in Nat
             /\ Begins(from)[q] <= Begins(from2)'[q]
  BY GivenType, GivenTypeNext DEF Begins, Marks
<1>2. ASSUME NEW m \in Msg
      PROVE  /\ IsFiniteSet(Chances(log, Begins(from2), recent, m)')
             /\ Cardinality(Chances(log, Begins(from2), recent, m)') <= runs'[m]
  <2>1. Places(log, Begins(from2)', m) \subseteq Places(log, Begins(from), m)
    BY <1>1, FewerPlaces
  <2>2. Chances(log, Begins(from2)', recent', m) \subseteq Chances(log, Begins(from), recent, m)
    BY <2>1 DEF Chances
  <2>3. /\ IsFiniteSet(Chances(log, Begins(from), recent, m))
        /\ Cardinality(Chances(log, Begins(from), recent, m)) <= runs[m]
    BY DEF Booked
  <2>4. runs[m] \in Int /\ runs'[m] = runs[m]
    BY DEF TypeOK
  <2> QED  BY <2>2, <2>3, <2>4, Fewer
<1> QED  BY <1>2 DEF Booked

\* A run that begins takes one of the chances of each message it is given.
LEMMA Granted ==
  ASSUME TypeOK, TypeOK', NEW log \in Logs, NEW from \in Marks, NEW head \in Marks,
         Booked(log, from, head), NEW q \in Queues, drain[q] = "starting",
         drain' = [drain EXCEPT ![q] = "running"],
         runs' = [m \in Msg |-> runs[m] - (IF m \in Prompted(q) THEN 1 ELSE 0)],
         UNCHANGED <<items, batch, groups, prompt, recent>>
  PROVE  Booked(log, from, head)'
<1>1. \A p \in Queues : drain'[p] = IF p = q THEN "running" ELSE drain[p]
  BY DEF TypeOK
<1>2. ASSUME NEW p \in Queues
      PROVE  /\ Begins(from)[p] \in Nat /\ Begins(from)'[p] \in Nat
             /\ Begins(from)[p] <= Begins(from)'[p]
  <2>1. Given(p) <= Given(p)'
    <3>1. batch[p] \in Seq(Msg)
      BY DEF TypeOK
    <3> QED  BY <1>1, <3>1 DEF Given
  <2> QED  BY <2>1, GivenType, GivenTypeNext DEF Begins, Marks
<1>3. ASSUME NEW m \in Msg
      PROVE  /\ IsFiniteSet(Chances(log, Begins(from), recent, m)')
             /\ Cardinality(Chances(log, Begins(from), recent, m)') <= runs'[m]
  <2> DEFINE S == Chances(log, Begins(from), recent, m)
             T == Chances(log, Begins(from)', recent', m)
  <2>1. Places(log, Begins(from)', m) \subseteq Places(log, Begins(from), m)
    BY <1>2, FewerPlaces
  <2>2. T \subseteq S
    BY <2>1 DEF Chances
  <2>3. IsFiniteSet(S) /\ Cardinality(S) <= runs[m] /\ runs[m] \in Int
    BY DEF Booked, TypeOK
  <2>4. CASE m \notin Prompted(q)
    <3>1. runs'[m] = runs[m]
      BY <2>3, <2>4
    <3> HIDE DEF S, T
    <3>2. IsFiniteSet(T) /\ Cardinality(T) <= runs'[m]
      BY <2>2, <2>3, <3>1, Fewer
    <3> QED  BY <3>2 DEF T
  <2>5. CASE m \in Prompted(q)
    <3>1. prompt[q] # "summary" /\ m \in ToSet(batch[q]) /\ batch[q] \in Seq(Msg)
      BY <2>5 DEF Prompted, TypeOK
    <3>2. PICK i \in 1 .. Len(batch[q]) : batch[q][i] = m
      BY <3>1 DEF ToSet
    <3> DEFINE k == from[q] + i - 1
               t == <<q, k>>
    <3>3. /\ from[q] \in Nat /\ 1 <= from[q] /\ Len(batch[q]) \in Nat
          /\ from[q] + Len(batch[q]) <= Len(log[q]) + 1 /\ Len(log[q]) \in Nat
          /\ log[q][k] = m
      <4>1. log[q] \in Seq(Msg) /\ groups[q] \in Seq(Msg) /\ from[q] \in Nat
        BY DEF Logs, Marks, TypeOK
      <4>2. Len(log[q]) \in Nat /\ Len(groups[q]) \in Nat /\ Len(batch[q]) \in Nat
        BY <3>1, <4>1
      <4>3. Entered(log[q], from[q], head[q], items[q], batch[q], groups[q])
        BY DEF Booked
      <4>4. 1 <= from[q] /\ from[q] + Len(batch[q]) + Len(groups[q]) <= Len(log[q]) + 1
        BY <4>3 DEF Entered
      <4>5. from[q] + Len(batch[q]) <= Len(log[q]) + 1
        <5> DEFINE f == from[q]  b == Len(batch[q])  g == Len(groups[q])  n == Len(log[q])
        <5>1. f \in Nat /\ b \in Nat /\ g \in Nat /\ n \in Nat /\ f + b + g <= n + 1
          BY <4>1, <4>2, <4>4
        <5> HIDE DEF f, b, g, n
        <5>2. f + b <= n + 1
          BY <5>1
        <5> QED  BY <5>2 DEF f, b, n
      <4>6. batch[q][i] = log[q][from[q] + i - 1]
        BY <3>2, <4>3 DEF Entered
      <4>7. log[q][k] = m
        BY <3>2, <4>6
      <4> HIDE DEF k
      <4> QED  BY <4>1, <4>2, <4>4, <4>5, <4>7
    <3>4. Begins(from)[q] = from[q] /\ Begins(from)'[q] = from[q] + Len(batch[q])
      BY <1>1, <3>1, <3>3 DEF Begins, Given
    <3>4a. k \in Nat /\ from[q] <= k /\ k <= Len(log[q]) /\ ~(from[q] + Len(batch[q]) <= k)
      <4> DEFINE f == from[q]  b == Len(batch[q])  n == Len(log[q])
      <4>1. f \in Nat /\ b \in Nat /\ n \in Nat /\ i \in 1 .. b /\ f + b <= n + 1 /\ 1 <= f
        BY <3>2, <3>3
      <4> HIDE DEF f, b, n
      <4>2. f + i - 1 \in Nat /\ f <= f + i - 1 /\ f + i - 1 <= n /\ ~(f + b <= f + i - 1)
        BY <4>1
      <4> QED  BY <4>2 DEF f, b, n
    <3> HIDE DEF k
    <3>5. t \in Places(log, Begins(from), m)
      BY <3>3, <3>4, <3>4a DEF Places
    <3>6. t \notin Places(log, Begins(from)', m)
      BY <3>3, <3>4, <3>4a DEF Places
    <3>7. t # <<0, 0>>
      BY DEF Queues
    <3>8. t \in S /\ t \notin T
      BY <3>5, <3>6, <3>7 DEF Chances
    <3>9. runs'[m] = runs[m] - 1
      BY <2>3, <2>5
    <3> HIDE DEF S, T, t
    <3>10. T \subseteq S \ {t}
      BY <2>2, <3>8
    <3>11. IsFiniteSet(S \ {t}) /\ Cardinality(S \ {t}) = Cardinality(S) - 1
      BY <2>3, <3>8, FS_RemoveElement
    <3>12. Cardinality(S) \in Nat
      BY <2>3, FS_CardinalityType
    <3>13. runs'[m] \in Int /\ Cardinality(S \ {t}) <= runs'[m]
      BY <2>3, <3>9, <3>11, <3>12
    <3>14. IsFiniteSet(T) /\ Cardinality(T) <= runs'[m]
      BY <3>10, <3>11, <3>13, Fewer
    <3> QED  BY <3>14 DEF T
  <2> QED  BY <2>4, <2>5
<1> QED  BY <1>3 DEF Booked

\* One more chance.
LEMMA OneMore ==
  ASSUME NEW S, NEW T, NEW t, NEW n \in Int, IsFiniteSet(S), Cardinality(S) <= n,
         T \subseteq S \cup {t}
  PROVE  IsFiniteSet(T) /\ Cardinality(T) <= n + 1
<1>1. IsFiniteSet(S \cup {t}) /\ Cardinality(S \cup {t}) <= Cardinality(S) + 1
  <2>1. Cardinality(S) \in Nat
    BY FS_CardinalityType
  <2> QED  BY <2>1, FS_AddElement
<1>2. Cardinality(S) \in Nat /\ Cardinality(S \cup {t}) \in Nat
  BY <1>1, FS_CardinalityType
<1>3. Cardinality(S \cup {t}) <= n + 1 /\ n + 1 \in Int
  BY <1>1, <1>2
<1> QED  BY <1>1, <1>3, Fewer

\* Where a place of the log is in the items.
LEMMA Place ==
  ASSUME NEW h \in Nat, NEW l \in Nat, NEW n, n = l + 1 - h, NEW k \in h .. l
  PROVE  k - h + 1 \in 1 .. n /\ h + (k - h + 1) - 1 = k
OBVIOUS

\* A run that throws gives the chances back: its messages are at the front of
\* the queue still, or were dropped.
LEMMA GivenBack ==
  ASSUME TypeOK, TypeOK', Distinct, NEW log \in Logs, NEW from \in Marks, NEW head \in Marks,
         Booked(log, from, head), NEW q \in Queues, drain[q] = "running", Given(q)' = 0,
         \A p \in Queues : /\ batch'[p] = IF p = q THEN <<>> ELSE batch[p]
                           /\ groups'[p] = IF p = q THEN <<>> ELSE groups[p]
                           /\ p # q => Given(p) <= Given(p)',
         runs' = [m \in Msg |-> runs[m] + (IF m \in Prompted(q) THEN 1 ELSE 0)],
         UNCHANGED <<items, recent>>
  PROVE  Booked(log, [from EXCEPT ![q] = head[q]], head)'
<1> DEFINE back == [from EXCEPT ![q] = head[q]]
<1>1. /\ back \in Marks /\ back[q] = head[q]
      /\ \A p \in Queues : p # q => back[p] = from[p]
  BY DEF Marks
<1>2. /\ from[q] \in Nat /\ head[q] \in Nat /\ Len(log[q]) \in Nat
      /\ from[q] <= head[q] /\ 1 <= from[q] /\ head[q] <= Len(log[q]) + 1
      /\ Len(items[q]) = Len(log[q]) + 1 - head[q]
      /\ \A i \in 1 .. Len(items[q]) : items[q][i] = log[q][head[q] + i - 1]
      /\ \A i \in 1 .. Len(batch[q]) : batch[q][i] = log[q][from[q] + i - 1]
  <2>1. log[q] \in Seq(Msg) /\ from[q] \in Nat /\ head[q] \in Nat
    BY DEF Logs, Marks
  <2>2. Entered(log[q], from[q], head[q], items[q], batch[q], groups[q])
    BY DEF Booked
  <2>3. Len(log[q]) \in Nat
    BY <2>1
  <2>4. /\ from[q] <= head[q] /\ 1 <= from[q] /\ head[q] <= Len(log[q]) + 1
        /\ Len(items[q]) = Len(log[q]) + 1 - head[q]
    BY <2>2 DEF Entered
  <2> QED  BY <2>1, <2>2, <2>3, <2>4 DEF Entered
<1>2a. /\ from[q] \in Nat /\ head[q] \in Nat /\ Len(log[q]) \in Nat
       /\ from[q] <= head[q] /\ 1 <= from[q] /\ head[q] <= Len(log[q]) + 1
       /\ Len(items[q]) = Len(log[q]) + 1 - head[q]
  BY <1>2
<1>3. batch[q] \in Seq(Msg) /\ Len(batch[q]) \in Nat /\ items[q] \in Seq(Msg)
  BY DEF TypeOK
<1>4. ASSUME NEW p \in Queues
      PROVE  Entered(log[p], back[p], head[p], items'[p], batch'[p], groups'[p])
  <2>1. CASE p = q
    BY <1>1, <1>2, <2>1 DEF Entered
  <2>2. CASE p # q
    BY <1>1, <2>2 DEF Booked
  <2> QED  BY <2>1, <2>2
<1> HIDE DEF back
<1>5. ASSUME NEW p \in Queues
      PROVE  /\ Begins(from)[p] \in Nat /\ Begins(back)'[p] \in Nat
             /\ p # q => Begins(from)[p] <= Begins(back)'[p]
  BY <1>1, GivenType, GivenTypeNext DEF Begins, Marks
<1>6. Begins(back)'[q] = head[q] /\ Begins(from)[q] = from[q] + Given(q)
  BY <1>1, <1>2 DEF Begins
<1>7. ASSUME NEW m \in Msg
      PROVE  /\ IsFiniteSet(Chances(log, Begins(back)', recent', m))
             /\ Cardinality(Chances(log, Begins(back)', recent', m)) <= runs'[m]
  <2> DEFINE S == Chances(log, Begins(from), recent, m)
             T == Chances(log, Begins(back)', recent', m)
  <2>1. IsFiniteSet(S) /\ Cardinality(S) <= runs[m] /\ runs[m] \in Int
    BY DEF Booked, TypeOK
  <2>2. ASSUME NEW t \in Places(log, Begins(back)', m), t \notin Places(log, Begins(from), m)
        PROVE  m \in Prompted(q) /\ \E k \in head[q] .. Len(log[q]) : t = <<q, k>> /\ log[q][k] = m
    <3>1. PICK p \in Queues, k \in Nat : t = <<p, k>>
      BY <2>2 DEF Places
    <3>2. Begins(back)'[p] <= k /\ k <= Len(log[p]) /\ log[p][k] = m
      BY <2>2, <3>1 DEF Places
    <3>3. ~(Begins(from)[p] <= k)
      BY <2>2, <3>1, <3>2 DEF Places
    <3>4. p = q
      BY <1>5, <3>2, <3>3
    <3>5. head[q] <= k /\ ~(from[q] + Given(q) <= k)
      BY <1>6, <3>2, <3>3, <3>4
    <3>6. Given(q) = Len(batch[q]) /\ prompt[q] # "summary"
      <4>1. Given(q) # 0
        BY <1>2, <3>5
      <4> QED  BY <4>1 DEF Given
    <3>7. k - from[q] + 1 \in 1 .. Len(batch[q])
      BY <1>2a, <1>3, <3>5, <3>6
    <3>8. batch[q][k - from[q] + 1] = m
      <4> DEFINE i == k - from[q] + 1
      <4>1. from[q] + i - 1 = k /\ i \in 1 .. Len(batch[q])
        BY <1>2a, <3>7
      <4> HIDE DEF i
      <4>2. batch[q][i] = m
        BY <1>2, <3>2, <3>4, <4>1
      <4> QED  BY <4>2 DEF i
    <3>9. m \in ToSet(batch[q])
      BY <1>3, <3>7, <3>8 DEF ToSet
    <3>10. k \in head[q] .. Len(log[q])
      BY <1>2a, <3>2, <3>4, <3>5
    <3> QED  BY <3>1, <3>2, <3>4, <3>6, <3>9, <3>10 DEF Prompted
  <2>3. CASE Places(log, Begins(back)', m) \subseteq Places(log, Begins(from), m)
    <3>1. T \subseteq S /\ runs[m] <= runs'[m] /\ runs'[m] \in Int
      BY <2>1, <2>3 DEF Chances
    <3> HIDE DEF S, T
    <3>2. IsFiniteSet(T) /\ Cardinality(T) <= runs[m]
      BY <2>1, <3>1, Fewer
    <3>3. Cardinality(T) \in Nat
      BY <3>2, FS_CardinalityType
    <3> QED  BY <2>1, <3>1, <3>2, <3>3 DEF T
  <2>4. CASE ~(Places(log, Begins(back)', m) \subseteq Places(log, Begins(from), m))
    <3>1. PICK t \in Places(log, Begins(back)', m) : t \notin Places(log, Begins(from), m)
      BY <2>4
    <3>2. m \in Prompted(q)
      BY <2>2, <3>1
    <3>2a. PICK k \in head[q] .. Len(log[q]) : t = <<q, k>> /\ log[q][k] = m
      BY <2>2, <3>1
    <3>3. ASSUME NEW u \in Places(log, Begins(back)', m), u \notin Places(log, Begins(from), m)
          PROVE  u = t
      <4>1. PICK l \in head[q] .. Len(log[q]) : u = <<q, l>> /\ log[q][l] = m
        BY <2>2, <3>3
      <4> DEFINE i == k - head[q] + 1
                 j == l - head[q] + 1
      <4>2. /\ i \in 1 .. Len(items[q]) /\ j \in 1 .. Len(items[q])
            /\ head[q] + i - 1 = k /\ head[q] + j - 1 = l
        BY <1>2a, <3>2a, <4>1, Place
      <4>3. i = j => k = l
        BY <4>2
      <4> HIDE DEF i, j
      <4>4. items[q][i] = m /\ items[q][j] = m
        <5>1. \A e \in 1 .. Len(items[q]) : items[q][e] = log[q][head[q] + e - 1]
          BY <1>2
        <5>2. items[q][i] = log[q][k] /\ items[q][j] = log[q][l]
          BY <4>2, <5>1
        <5> QED  BY <3>2a, <4>1, <5>2
      <4>5. i = j
        BY <1>3, <4>2, <4>4 DEF Distinct, Once
      <4> QED  BY <3>2a, <4>1, <4>3, <4>5
    <3>4. T \subseteq S \cup {t}
      BY <3>3 DEF Chances
    <3>5. runs'[m] = runs[m] + 1
      BY <2>1, <3>2
    <3> HIDE DEF S, T
    <3>6. IsFiniteSet(T) /\ Cardinality(T) <= runs[m] + 1
      BY <2>1, <3>4, OneMore
    <3> QED  BY <3>5, <3>6 DEF T
  <2> QED  BY <2>3, <2>4
<1>8. Booked(log, back, head)'
  BY <1>4, <1>7 DEF Booked
<1> QED  BY <1>8 DEF back

-----------------------------------------------------------------------------
(* What the steps make of a log and its marks *)

\* The parts of Entered, for marks that are numbers.
LEMMA EnteredParts ==
  ASSUME NEW log \in Seq(Msg), NEW from \in Nat, NEW head \in Nat, NEW its \in Seq(Msg),
         NEW bat \in Seq(Msg), NEW grp \in Seq(Msg), Entered(log, from, head, its, bat, grp)
  PROVE  /\ Len(log) \in Nat /\ Len(its) \in Nat /\ Len(bat) \in Nat /\ Len(grp) \in Nat
         /\ 1 <= from /\ from <= head /\ head <= Len(log) + 1
         /\ Len(its) = Len(log) + 1 - head
         /\ from + Len(bat) + Len(grp) <= Len(log) + 1
BY DEF Entered

\* The run is over: its messages leave the queue, as many as are there.
LEMMA EnteredRest ==
  ASSUME NEW log \in Seq(Msg), NEW from \in Nat, NEW head \in Nat, NEW its \in Seq(Msg),
         NEW bat \in Seq(Msg), NEW grp \in Seq(Msg), Entered(log, from, head, its, bat, grp)
  PROVE  \E h \in Nat : Entered(log, from + Len(bat), h, Rest(its, Len(bat)), <<>>, grp)
<1>1. /\ Len(log) \in Nat /\ Len(its) \in Nat /\ Len(bat) \in Nat /\ Len(grp) \in Nat
      /\ 1 <= from /\ from <= head /\ head <= Len(log) + 1
      /\ Len(its) = Len(log) + 1 - head
      /\ from + Len(bat) + Len(grp) <= Len(log) + 1
  BY EnteredParts
<1>2. \A i \in 1 .. Len(its) : its[i] = log[head + i - 1]
  BY DEF Entered
<1>3. \A i \in 1 .. Len(grp) : grp[i] = log[from + Len(bat) + i - 1]
  BY DEF Entered
<1>4. Len(<<>>) = 0 /\ (from + Len(bat)) + 0 = from + Len(bat)
  BY <1>1
<1>5. CASE Len(bat) <= Len(its)
  <2> DEFINE t == Rest(its, Len(bat))
             h == head + Len(bat)
  <2>1. Len(bat) \in 0 .. Len(its)
    BY <1>1, <1>5
  <2>2. Len(t) = Len(its) - Len(bat) /\ \A i \in 1 .. Len(its) - Len(bat) : t[i] = its[Len(bat) + i]
    BY <2>1, RestProperties
  <2>3. h \in Nat /\ from + Len(bat) <= h /\ h <= Len(log) + 1 /\ Len(t) = Len(log) + 1 - h
    BY <1>1, <1>5, <2>2
  <2>4. ASSUME NEW i \in 1 .. Len(t)  PROVE t[i] = log[h + i - 1]
    <3>1. i \in 1 .. Len(its) - Len(bat) /\ Len(bat) + i \in 1 .. Len(its)
          /\ head + (Len(bat) + i) - 1 = h + i - 1
      BY <1>1, <2>1, <2>2
    <3> HIDE DEF t, h
    <3>2. its[Len(bat) + i] = log[head + (Len(bat) + i) - 1]
      BY <1>2, <3>1
    <3> QED  BY <2>2, <3>1, <3>2
  <2> HIDE DEF t, h
  <2>5. Entered(log, from + Len(bat), h, t, <<>>, grp)
    BY <1>1, <1>3, <1>4, <2>3, <2>4 DEF Entered
  <2> QED  BY <2>3, <2>5 DEF t
<1>6. CASE ~(Len(bat) <= Len(its))
  <2>1. Rest(its, Len(bat)) = <<>>
    BY <1>1, <1>6 DEF Rest
  <2> DEFINE h == Len(log) + 1
  <2>2. h \in Nat /\ 1 <= from + Len(bat) /\ from + Len(bat) <= h /\ h <= Len(log) + 1
        /\ Len(<<>>) = Len(log) + 1 - h
    BY <1>1
  <2> HIDE DEF h
  <2>3. Entered(log, from + Len(bat), h, <<>>, <<>>, grp)
    BY <1>1, <1>3, <1>4, <2>2 DEF Entered
  <2> QED  BY <2>1, <2>2, <2>3
<1> QED  BY <1>5, <1>6

\* The next group begins.
LEMMA EnteredCut ==
  ASSUME NEW log \in Seq(Msg), NEW from \in Nat, NEW head \in Nat, NEW its \in Seq(Msg),
         NEW grp \in Seq(Msg), Entered(log, from, head, its, <<>>, grp),
         NEW n \in 0 .. Len(grp)
  PROVE  Entered(log, from, head, its, First(grp, n), Rest(grp, n))
<1>0. <<>> \in Seq(Msg) /\ Len(<<>>) = 0
  OBVIOUS
<1>1. /\ Len(log) \in Nat /\ Len(its) \in Nat /\ Len(grp) \in Nat
      /\ 1 <= from /\ from <= head /\ head <= Len(log) + 1
      /\ Len(its) = Len(log) + 1 - head
      /\ from + 0 + Len(grp) <= Len(log) + 1
  <2>1. /\ Len(log) \in Nat /\ Len(its) \in Nat /\ Len(grp) \in Nat
        /\ 1 <= from /\ from <= head /\ head <= Len(log) + 1
        /\ Len(its) = Len(log) + 1 - head
        /\ from + Len(<<>>) + Len(grp) <= Len(log) + 1
    BY DEF Entered
  <2> QED  BY <1>0, <2>1
<1>2. \A i \in 1 .. Len(its) : its[i] = log[head + i - 1]
  BY DEF Entered
<1>3. \A i \in 1 .. Len(grp) : grp[i] = log[from + 0 + i - 1]
  BY <1>0 DEF Entered
<1> DEFINE b == First(grp, n)
           g == Rest(grp, n)
<1>4. /\ Len(b) = n /\ Len(g) = Len(grp) - n
      /\ \A i \in 1 .. n : b[i] = grp[i]
      /\ \A i \in 1 .. Len(grp) - n : g[i] = grp[n + i]
  BY FirstProperties, RestProperties
<1>5. n \in Nat /\ n <= Len(grp) /\ from + n + (Len(grp) - n) <= Len(log) + 1
  BY <1>1
<1> HIDE DEF b, g
<1>6. ASSUME NEW i \in 1 .. Len(b)  PROVE b[i] = log[from + i - 1]
  <2>1. i \in 1 .. n /\ i \in 1 .. Len(grp) /\ from + 0 + i - 1 = from + i - 1
    BY <1>1, <1>4, <1>5
  <2>2. grp[i] = log[from + 0 + i - 1]
    BY <1>3, <2>1
  <2> QED  BY <1>4, <2>1, <2>2
<1>7. ASSUME NEW i \in 1 .. Len(g)  PROVE g[i] = log[from + Len(b) + i - 1]
  <2>1. i \in 1 .. Len(grp) - n /\ n + i \in 1 .. Len(grp)
        /\ from + 0 + (n + i) - 1 = from + Len(b) + i - 1
    BY <1>1, <1>4, <1>5
  <2>2. grp[n + i] = log[from + 0 + (n + i) - 1]
    BY <1>3, <2>1
  <2> QED  BY <1>4, <2>1, <2>2
<1>8. from + Len(b) + Len(g) <= Len(log) + 1
  BY <1>4, <1>5
<1>9. Entered(log, from, head, its, b, g)
  BY <1>1, <1>2, <1>6, <1>7, <1>8 DEF Entered
<1> QED  BY <1>9 DEF b, g

\* A round is given up, and the next one begins at the head of the queue.
LEMMA EnteredForget ==
  ASSUME NEW log \in Seq(Msg), NEW from \in Nat, NEW head \in Nat, NEW its \in Seq(Msg),
         NEW bat \in Seq(Msg), NEW grp \in Seq(Msg), Entered(log, from, head, its, bat, grp)
  PROVE  /\ Entered(log, from, head, its, <<>>, <<>>)
         /\ Entered(log, head, head, its, <<>>, <<>>)
         /\ Entered(log, head, head, its, <<>>, its)
<1>1. /\ Len(log) \in Nat /\ Len(its) \in Nat /\ Len(bat) \in Nat /\ Len(grp) \in Nat
      /\ 1 <= from /\ from <= head /\ head <= Len(log) + 1
      /\ Len(its) = Len(log) + 1 - head
      /\ from + Len(bat) + Len(grp) <= Len(log) + 1
  BY EnteredParts
<1>2. \A i \in 1 .. Len(its) : its[i] = log[head + i - 1]
  BY DEF Entered
<1>3. /\ Len(<<>>) = 0 /\ head + 0 = head
      /\ from + 0 + 0 <= Len(log) + 1 /\ head + 0 + 0 <= Len(log) + 1
      /\ head + 0 + Len(its) <= Len(log) + 1 /\ 1 <= head /\ head <= head
  BY <1>1
<1>4. Entered(log, from, head, its, <<>>, <<>>)
  BY <1>1, <1>2, <1>3 DEF Entered
<1>5. Entered(log, head, head, its, <<>>, <<>>)
  BY <1>1, <1>2, <1>3 DEF Entered
<1>6. Entered(log, head, head, its, <<>>, its)
  BY <1>1, <1>2, <1>3 DEF Entered
<1> QED  BY <1>4, <1>5, <1>6

\* The groups that follow are left for a later round.
LEMMA EnteredAlone ==
  ASSUME NEW log \in Seq(Msg), NEW from \in Nat, NEW head \in Nat, NEW its \in Seq(Msg),
         NEW bat \in Seq(Msg), NEW grp \in Seq(Msg), Entered(log, from, head, its, bat, grp)
  PROVE  Entered(log, from, head, its, bat, <<>>)
<1>1. /\ Len(log) \in Nat /\ Len(bat) \in Nat /\ Len(grp) \in Nat
      /\ from + Len(bat) + Len(grp) <= Len(log) + 1
  BY EnteredParts
<1>2. Len(<<>>) = 0 /\ from + Len(bat) + 0 <= Len(log) + 1
  BY <1>1
<1> QED  BY <1>2 DEF Entered

\* What a round of the loop begins with is the front of the queue.
LEMMA EnteredRound ==
  ASSUME Held, NEW q \in Queues, Round(q).prompt # "none",
         NEW log \in Seq(Msg), NEW from \in Nat, NEW head \in Nat,
         NEW bat \in Seq(Msg), NEW grp \in Seq(Msg), Entered(log, from, head, items[q], bat, grp)
  PROVE  Entered(log, head, head, items[q], Round(q).batch, Round(q).groups)
<1>1. items[q] \in Seq(Msg) /\ Len(items[q]) \in Nat
  BY DEF Held
<1>2. /\ Entered(log, head, head, items[q], <<>>, <<>>)
      /\ Entered(log, head, head, items[q], <<>>, items[q])
  BY <1>1, EnteredForget
<1>3. CASE items[q] = <<>>
  BY <1>2, <1>3 DEF Round
<1>4. CASE items[q] # <<>>
  <2> DEFINE group == First(items[q], GroupLength(items[q]))
  <2>1. 1 \in 0 .. Len(items[q]) /\ GroupLength(items[q]) \in 0 .. Len(items[q])
    BY <1>1, <1>4, GroupLengthType
  <2>2. Len(group) = GroupLength(items[q])
    BY <1>1, <2>1, FirstProperties
  <2>3. Entered(log, head, head, items[q], group, Rest(items[q], Len(group)))
    BY <1>1, <1>2, <2>1, <2>2, EnteredCut
  <2>4. Entered(log, head, head, items[q], First(items[q], 1), <<>>)
    <3>1. Entered(log, head, head, items[q], First(items[q], 1), Rest(items[q], 1))
      BY <1>1, <1>2, <2>1, EnteredCut
    <3>2. First(items[q], 1) \in Seq(Msg) /\ Rest(items[q], 1) \in Seq(Msg)
      BY <1>1, <2>1, FirstProperties, RestProperties
    <3> QED  BY <1>1, <3>1, <3>2, EnteredAlone
  <2>5. \/ Round(q).batch = First(items[q], 1) /\ Round(q).groups = <<>>
        \/ Round(q).batch = group /\ Round(q).groups = Rest(items[q], Len(group))
    BY <1>4 DEF Round
  <2> HIDE DEF group
  <2> QED  BY <2>3, <2>4, <2>5
<1> QED  BY <1>3, <1>4

\* A message is queued, and d of them make room.
LEMMA EnteredAppend ==
  ASSUME NEW log \in Seq(Msg), NEW from \in Nat, NEW head \in Nat, NEW its \in Seq(Msg),
         NEW bat \in Seq(Msg), NEW grp \in Seq(Msg), Entered(log, from, head, its, bat, grp),
         NEW m \in Msg, NEW d \in 0 .. Len(its)
  PROVE  /\ head + d \in Nat
         /\ Entered(Append(log, m), from, head + d, Append(Rest(its, d), m), bat, grp)
<1>1. /\ Len(log) \in Nat /\ Len(its) \in Nat /\ Len(bat) \in Nat /\ Len(grp) \in Nat
      /\ 1 <= from /\ from <= head /\ head <= Len(log) + 1
      /\ Len(its) = Len(log) + 1 - head
      /\ from + Len(bat) + Len(grp) <= Len(log) + 1
  BY EnteredParts
<1> DEFINE l == Append(log, m)
           r == Rest(its, d)
           t == Append(r, m)
           h == head + d
<1>2. r \in Seq(Msg) /\ Len(r) = Len(its) - d /\ \A i \in 1 .. Len(its) - d : r[i] = its[d + i]
  BY RestProperties
<1>3. Len(l) = Len(log) + 1 /\ l[Len(log) + 1] = m /\ \A i \in 1 .. Len(log) : l[i] = log[i]
  OBVIOUS
<1>4. Len(t) = Len(r) + 1 /\ t[Len(r) + 1] = m /\ \A i \in 1 .. Len(r) : t[i] = r[i]
  <2> HIDE DEF r
  <2> QED  BY <1>2
<1>5. \A i \in 1 .. Len(its) : its[i] = log[head + i - 1]
  BY DEF Entered
<1>6. h \in Nat /\ from <= h /\ h <= Len(l) + 1 /\ Len(t) = Len(l) + 1 - h /\ Len(r) \in Nat
  <2> HIDE DEF l, r, t
  <2> QED  BY <1>1, <1>2, <1>3, <1>4
<1> HIDE DEF l, r, t
<1>7. ASSUME NEW i \in 1 .. Len(t)  PROVE t[i] = l[h + i - 1]
  <2>1. CASE i = Len(r) + 1
    <3>1. h + i - 1 = Len(log) + 1
      BY <1>1, <1>2, <2>1
    <3> QED  BY <1>3, <1>4, <2>1, <3>1
  <2>2. CASE i # Len(r) + 1
    <3>1. i \in 1 .. Len(r) /\ i \in 1 .. Len(its) - d /\ d + i \in 1 .. Len(its)
          /\ head + (d + i) - 1 = h + i - 1 /\ h + i - 1 \in 1 .. Len(log)
      <4>0. Len(t) = Len(r) + 1 /\ Len(r) \in Nat
        BY <1>4, <1>6
      <4>1. i \in 1 .. Len(r) /\ d \in Nat /\ d <= Len(its)
        BY <1>1, <2>2, <4>0
      <4>2. Len(r) = Len(its) - d
        BY <1>2
      <4>3. i \in 1 .. Len(its) - d /\ d + i \in 1 .. Len(its)
        BY <1>1, <4>1, <4>2
      <4> QED  BY <1>1, <4>1, <4>2, <4>3
    <3> HIDE DEF h
    <3>2. t[i] = its[d + i]
      BY <1>2, <1>4, <3>1
    <3>3. its[d + i] = log[head + (d + i) - 1]
      BY <1>5, <3>1
    <3> QED  BY <1>3, <3>1, <3>2, <3>3
  <2> QED  BY <2>1, <2>2
<1> HIDE DEF h
<1>8. ASSUME NEW i \in 1 .. Len(bat)  PROVE bat[i] = l[from + i - 1]
  <2>1. bat[i] = log[from + i - 1]
    BY DEF Entered
  <2>2. from + i - 1 \in 1 .. Len(log)
    BY <1>1
  <2> QED  BY <1>3, <2>1, <2>2
<1>9. ASSUME NEW i \in 1 .. Len(grp)  PROVE grp[i] = l[from + Len(bat) + i - 1]
  <2>1. grp[i] = log[from + Len(bat) + i - 1]
    BY DEF Entered
  <2>2. from + Len(bat) + i - 1 \in 1 .. Len(log)
    BY <1>1
  <2> QED  BY <1>3, <2>1, <2>2
<1>10. from + Len(bat) + Len(grp) <= Len(l) + 1
  BY <1>1, <1>3
<1>11. Entered(l, from, h, t, bat, grp)
  BY <1>1, <1>6, <1>7, <1>8, <1>9, <1>10 DEF Entered
<1> QED  BY <1>6, <1>11 DEF l, r, t, h

\* The queue is cleared, whatever its drain has under way.
LEMMA EnteredClear ==
  ASSUME NEW log \in Seq(Msg), NEW from \in Nat, NEW head \in Nat, NEW its \in Seq(Msg),
         NEW bat \in Seq(Msg), NEW grp \in Seq(Msg), Entered(log, from, head, its, bat, grp)
  PROVE  Len(log) + 1 \in Nat /\ Entered(log, from, Len(log) + 1, <<>>, bat, grp)
<1>1. /\ Len(log) \in Nat /\ Len(bat) \in Nat /\ Len(grp) \in Nat
      /\ 1 <= from /\ from <= head /\ head <= Len(log) + 1
      /\ from + Len(bat) + Len(grp) <= Len(log) + 1
  BY EnteredParts
<1> DEFINE h == Len(log) + 1
<1>2. h \in Nat /\ from <= h /\ h <= Len(log) + 1 /\ Len(<<>>) = Len(log) + 1 - h
  BY <1>1
<1> HIDE DEF h
<1>3. Entered(log, from, h, <<>>, bat, grp)
  BY <1>1, <1>2 DEF Entered
<1> QED  BY <1>2, <1>3 DEF h

-----------------------------------------------------------------------------
(* Every step keeps the count *)

LEMMA DistinctRest ==
  ASSUME Distinct, Held, NEW q \in Queues, NEW n \in Nat
  PROVE  Once(Rest(items[q], n))
<1>1. items[q] \in Seq(Msg) /\ Len(items[q]) \in Nat
  BY DEF Held
<1> DEFINE t == Rest(items[q], n)
<1>2. CASE n <= Len(items[q])
  <2>0. n \in 0 .. Len(items[q])
    BY <1>1, <1>2
  <2>1. /\ t \in Seq(Msg) /\ Len(t) = Len(items[q]) - n
        /\ \A i \in 1 .. Len(items[q]) - n : t[i] = items[q][n + i]
    BY <1>1, <2>0, RestProperties
  <2> HIDE DEF t
  <2>2. ASSUME NEW i \in DOMAIN t
        PROVE  n + i \in DOMAIN items[q] /\ t[i] = items[q][n + i] /\ i \in Nat
    <3>1. DOMAIN t = 1 .. Len(items[q]) - n
      BY <2>1
    <3>2. i \in 1 .. Len(items[q]) - n
      BY <3>1
    <3>3. n + i \in 1 .. Len(items[q])
      BY <1>1, <3>2
    <3> QED  BY <1>1, <2>1, <3>2, <3>3
  <2>3. ASSUME NEW i \in DOMAIN t, NEW j \in DOMAIN t, t[i] = t[j]  PROVE i = j
    <3>1. n + i = n + j
      BY <2>2, <2>3 DEF Distinct, Once
    <3> QED  BY <2>2, <3>1
  <2> QED  BY <2>3 DEF Once, t
<1>3. CASE ~(n <= Len(items[q]))
  <2>1. t = <<>> /\ DOMAIN <<>> = {}
    BY <1>1, <1>3 DEF Rest
  <2> HIDE DEF t
  <2>2. \A i, j \in DOMAIN t : t[i] = t[j] => i = j
    BY <2>1
  <2> QED  BY <2>2 DEF Once, t
<1> QED  BY <1>2, <1>3

\* A drain whose run goes on, or that has none.
LEMMA GivenKept ==
  ASSUME TypeOK, TypeOK', NEW q \in Queues, batch'[q] = batch[q], prompt'[q] = prompt[q],
         drain[q] # "off" => drain'[q] = drain[q]
  PROVE  Given(q) <= Given(q)'
<1>1. CASE drain[q] = "off"
  <2>1. Given(q) = 0
    BY <1>1 DEF Given
  <2> QED  BY <2>1, GivenTypeNext
<1>2. CASE drain[q] # "off"
  <2>1. Given(q)' = Given(q)
    BY <1>2 DEF Given
  <2> QED  BY <2>1, GivenType
<1> QED  BY <1>1, <1>2

\* The marks and the log of an object, which are numbers and a sequence.
LEMMA BookedParts ==
  ASSUME TypeOK, NEW log \in Logs, NEW from \in Marks, NEW head \in Marks,
         Booked(log, from, head), NEW q \in Queues
  PROVE  /\ log[q] \in Seq(Msg) /\ from[q] \in Nat /\ head[q] \in Nat
         /\ items[q] \in Seq(Msg) /\ batch[q] \in Seq(Msg) /\ groups[q] \in Seq(Msg)
         /\ Entered(log[q], from[q], head[q], items[q], batch[q], groups[q])
<1>1. Entered(log[q], from[q], head[q], items[q], batch[q], groups[q])
  BY DEF Booked
<1> QED  BY <1>1 DEF Logs, Marks, TypeOK

\* A step of which the queues notice nothing.
LEMMA CountingSame ==
  ASSUME TypeOK, TypeOK', Counting, UNCHANGED <<items, batch, groups, prompt, recent, runs>>,
         \A q \in Queues : drain[q] # "off" => drain'[q] = drain[q]
  PROVE  Counting'
<1>1. PICK log \in Logs, from \in Marks, head \in Marks : Booked(log, from, head)
  BY DEF Counting
<1>2. ASSUME NEW q \in Queues
      PROVE  /\ Entered(log[q], from[q], head[q], items'[q], batch'[q], groups'[q])
             /\ from[q] + Given(q) <= from[q] + Given(q)'
  <2>1. Given(q) <= Given(q)'
    BY GivenKept
  <2>2. from[q] \in Nat
    BY DEF Marks
  <2> QED  BY <1>1, <2>1, <2>2, BookedParts, GivenType, GivenTypeNext
<1>3. Booked(log, from, head)'
  BY <1>1, <1>2, Later
<1>4. Distinct'
  BY DEF Counting, Distinct
<1> QED  BY <1>3, <1>4 DEF Counting

\* A drain gives up its round before a run of it began.
LEMMA CountingForget ==
  ASSUME TypeOK, TypeOK', Counting, NEW q \in Queues, drain[q] # "running",
         ForgetRound(q), EndDrain(q, items, dropped), UNCHANGED <<items, recent, runs>>
  PROVE  Counting'
<1>0. Map /\ Drains
  BY TypeParts
<1>1. PICK log \in Logs, from \in Marks, head \in Marks : Booked(log, from, head)
  BY DEF Counting
<1>2. /\ batch'[q] = <<>> /\ groups'[q] = <<>>
      /\ \A p \in Queues : p # q => /\ batch'[p] = batch[p] /\ groups'[p] = groups[p]
                                    /\ prompt'[p] = prompt[p]
      /\ \A p \in Queues : p # q /\ drain[p] # "off" => drain'[p] = drain[p]
  BY <1>0, EndDrainFrame DEF ForgetRound, Drains
<1>3. ASSUME NEW p \in Queues
      PROVE  /\ Entered(log[p], from[p], head[p], items'[p], batch'[p], groups'[p])
             /\ from[p] + Given(p) <= from[p] + Given(p)'
  <2>0. from[p] \in Nat
    BY DEF Marks
  <2>1. CASE p = q
    <3>1. Given(p) = 0
      BY <2>1 DEF Given
    <3>2. Entered(log[p], from[p], head[p], items[p], <<>>, <<>>)
      BY <1>1, BookedParts, EnteredForget
    <3> QED  BY <1>2, <2>0, <2>1, <3>1, <3>2, GivenTypeNext
  <2>2. CASE p # q
    <3>1. Given(p) <= Given(p)'
      BY <1>2, <2>2, GivenKept
    <3>2. Entered(log[p], from[p], head[p], items[p], batch[p], groups[p])
      BY <1>1, BookedParts
    <3> QED  BY <1>2, <2>0, <2>2, <3>1, <3>2, GivenType, GivenTypeNext
  <2> QED  BY <2>1, <2>2
<1>4. Booked(log, from, head)'
  BY <1>1, <1>3, Later
<1>5. Distinct'
  BY DEF Counting, Distinct
<1> QED  BY <1>4, <1>5 DEF Counting

LEMMA WakeCounting ==
  ASSUME TypeOK, TypeOK', Counting, NEW q \in Queues, Wake(q)
  PROVE  Counting'
<1>0. Map /\ Held /\ Drains
  BY TypeParts
<1>1. drain[q] = "debounce" /\ UNCHANGED <<items, recent, runs>>
  BY DEF Wake, arrival, history
<1>2. CASE Round(q).prompt = "none"
  <2>1. EndDrain(q, items, dropped) /\ ForgetRound(q)
    BY <1>2 DEF Wake
  <2> QED  BY <1>1, <2>1, CountingForget
<1>3. CASE Round(q).prompt # "none"
  <2>1. PICK log \in Logs, from \in Marks, head \in Marks : Booked(log, from, head)
    BY DEF Counting
  <2> DEFINE from2 == [from EXCEPT ![q] = head[q]]
  <2>2. from2 \in Marks /\ from2[q] = head[q] /\ \A p \in Queues : p # q => from2[p] = from[p]
    BY DEF Marks
  <2> HIDE DEF from2
  <2>3. /\ batch'[q] = Round(q).batch /\ groups'[q] = Round(q).groups
        /\ \A p \in Queues : p # q => /\ batch'[p] = batch[p] /\ groups'[p] = groups[p]
                                      /\ prompt'[p] = prompt[p] /\ drain'[p] = drain[p]
    BY <1>0, <1>3 DEF Wake, Drains
  <2>4. ASSUME NEW p \in Queues
        PROVE  /\ Entered(log[p], from2[p], head[p], items'[p], batch'[p], groups'[p])
               /\ from[p] + Given(p) <= from2[p] + Given(p)'
    <3>0. from[p] \in Nat /\ from2[p] \in Nat
      BY <2>2 DEF Marks
    <3>1. Entered(log[p], from[p], head[p], items[p], batch[p], groups[p])
      BY <2>1, BookedParts
    <3>2. CASE p = q
      <4>1. Given(p) = 0 /\ from[p] <= head[p]
        BY <1>1, <3>1, <3>2 DEF Given, Entered
      <4>2. Entered(log[q], head[q], head[q], items[q], Round(q).batch, Round(q).groups)
        BY <1>0, <1>3, <2>1, BookedParts, EnteredRound
      <4>3. head[p] \in Nat /\ Given(p)' \in Nat
        BY GivenTypeNext DEF Marks
      <4>4. from[p] + Given(p) <= from2[p] + Given(p)'
        BY <2>2, <3>0, <3>2, <4>1, <4>3
      <4> QED  BY <1>1, <2>2, <2>3, <3>2, <4>2, <4>4
    <3>3. CASE p # q
      <4>1. Given(p) <= Given(p)'
        BY <2>3, <3>3, GivenKept
      <4> QED  BY <1>1, <2>2, <2>3, <3>0, <3>1, <3>3, <4>1, GivenType, GivenTypeNext
    <3> QED  BY <3>2, <3>3
  <2>5. Booked(log, from2, head)'
    BY <1>1, <2>1, <2>2, <2>4, Later
  <2>6. Distinct'
    BY <1>1 DEF Counting, Distinct
  <2> QED  BY <2>2, <2>5, <2>6 DEF Counting
<1> QED  BY <1>2, <1>3

LEMMA RunStartsCounting ==
  ASSUME TypeOK, TypeOK', Counting, NEW q \in Queues, RunStarts(q)
  PROVE  Counting'
<1>1. drain[q] = "starting" /\ UNCHANGED <<items, recent>>
  BY DEF RunStarts, arrival
<1>2. CASE op # None
  <2>1. EndDrain(q, items, dropped) /\ ForgetRound(q) /\ UNCHANGED runs
    BY <1>2 DEF RunStarts
  <2> QED  BY <1>1, <2>1, CountingForget
<1>3. CASE op = None
  <2>1. /\ drain' = [drain EXCEPT ![q] = "running"]
        /\ runs' = [m \in Msg |-> runs[m] - (IF m \in Prompted(q) THEN 1 ELSE 0)]
        /\ UNCHANGED <<batch, groups, prompt>>
    BY <1>3 DEF RunStarts
  <2>2. PICK log \in Logs, from \in Marks, head \in Marks : Booked(log, from, head)
    BY DEF Counting
  <2>3. Booked(log, from, head)'
    BY <1>1, <2>1, <2>2, Granted
  <2>4. Distinct'
    BY <1>1 DEF Counting, Distinct
  <2> QED  BY <2>3, <2>4 DEF Counting
<1> QED  BY <1>2, <1>3

LEMMA RunThrowsCounting ==
  ASSUME TypeOK, TypeOK', Counting, NEW q \in Queues, RunThrows(q)
  PROVE  Counting'
<1>0. Map /\ Drains
  BY TypeParts
<1>1. /\ drain[q] = "running" /\ UNCHANGED <<items, recent>>
      /\ runs' = [m \in Msg |-> runs[m] + (IF m \in Prompted(q) THEN 1 ELSE 0)]
      /\ EndDrain(q, items, dropped) /\ ForgetRound(q)
  BY DEF RunThrows, arrival
<1>2. PICK log \in Logs, from \in Marks, head \in Marks : Booked(log, from, head)
  BY DEF Counting
<1>3. /\ batch'[q] = <<>> /\ groups'[q] = <<>> /\ drain'[q] # "running"
      /\ \A p \in Queues : p # q => /\ batch'[p] = batch[p] /\ groups'[p] = groups[p]
                                    /\ prompt'[p] = prompt[p]
      /\ \A p \in Queues : p # q /\ drain[p] # "off" => drain'[p] = drain[p]
  BY <1>0, <1>1, EndDrainFrame DEF ForgetRound, Drains
<1>4. ASSUME NEW p \in Queues
      PROVE  /\ batch'[p] = IF p = q THEN <<>> ELSE batch[p]
             /\ groups'[p] = IF p = q THEN <<>> ELSE groups[p]
             /\ p # q => Given(p) <= Given(p)'
  <2>1. p # q => Given(p) <= Given(p)'
    BY <1>3, GivenKept
  <2> QED  BY <1>3, <2>1
<1>5. Given(q)' = 0
  BY <1>3 DEF Given
<1> DEFINE back == [from EXCEPT ![q] = head[q]]
<1>6. Booked(log, back, head)'
  BY <1>1, <1>2, <1>4, <1>5, GivenBack DEF Counting
<1>7. back \in Marks
  BY DEF Marks
<1> HIDE DEF back
<1>8. Distinct'
  BY <1>1 DEF Counting, Distinct
<1> QED  BY <1>6, <1>7, <1>8 DEF Counting

LEMMA DistinctNext ==
  ASSUME Distinct, NEW q \in Queues,
         Once(items'[q]),
         \A p \in Queues : p # q => items'[p] = items[p]
  PROVE  Distinct'
<1> SUFFICES ASSUME NEW p \in Queues
             PROVE  Once(items'[p])
  BY DEF Distinct
<1>1. CASE p = q
  BY <1>1
<1>2. CASE p # q
  BY <1>2 DEF Distinct
<1> QED  BY <1>1, <1>2

\* The run is over: its messages have passed, and no chance comes back.
LEMMA RunEndsCounting ==
  ASSUME TypeOK, TypeOK', Counting, NEW q \in Queues, RunEnds(q)
  PROVE  Counting'
<1>0. Map /\ Held /\ Drains
  BY TypeParts
<1>1. /\ drain[q] = "running" /\ UNCHANGED <<recent, runs>>
      /\ items'[q] = Rest(items[q], Len(batch[q]))
      /\ \A p \in Queues : p # q => items'[p] = items[p]
  BY <1>0 DEF RunEnds, arrival, Held
<1>2. PICK log \in Logs, from \in Marks, head \in Marks : Booked(log, from, head)
  BY DEF Counting
<1>3. /\ log[q] \in Seq(Msg) /\ from[q] \in Nat /\ head[q] \in Nat
      /\ items[q] \in Seq(Msg) /\ batch[q] \in Seq(Msg) /\ groups[q] \in Seq(Msg)
      /\ Len(batch[q]) \in Nat
  BY <1>2, BookedParts
<1>4. PICK h \in Nat :
        Entered(log[q], from[q] + Len(batch[q]), h, items'[q], <<>>, groups[q])
  <2>1. Entered(log[q], from[q], head[q], items[q], batch[q], groups[q])
    BY <1>2, BookedParts
  <2>2. \E h \in Nat : Entered(log[q], from[q] + Len(batch[q]), h,
                              Rest(items[q], Len(batch[q])), <<>>, groups[q])
    BY <1>3, <2>1, EnteredRest
  <2> QED  BY <1>1, <2>2
<1>5. PICK from2 \in Marks, head2 \in Marks :
        /\ from2[q] = from[q] + Len(batch[q]) /\ head2[q] = h
        /\ \A p \in Queues : p # q => from2[p] = from[p] /\ head2[p] = head[p]
  <2> DEFINE f == [from EXCEPT ![q] = from[q] + Len(batch[q])]
             g == [head EXCEPT ![q] = h]
  <2>1. /\ f \in Marks /\ f[q] = from[q] + Len(batch[q]) /\ g \in Marks /\ g[q] = h
        /\ \A p \in Queues : p # q => f[p] = from[p] /\ g[p] = head[p]
    BY <1>3 DEF Marks
  <2> HIDE DEF f, g
  <2> QED  BY <2>1
<1>6. /\ Entered(log[q], from2[q], h, items'[q], batch'[q], groups'[q])
      /\ \A p \in Queues : p # q => /\ batch'[p] = batch[p] /\ groups'[p] = groups[p]
                                    /\ prompt'[p] = prompt[p]
                                    /\ drain[p] # "off" => drain'[p] = drain[p]
  <2>1. CASE groups[q] # <<>>
    <3> DEFINE n == GroupLength(groups[q])
    <3>1. n \in 0 .. Len(groups[q])
      BY <1>3, <2>1, GroupLengthType
    <3> HIDE DEF n
    <3>2. /\ batch'[q] = First(groups[q], n) /\ groups'[q] = Rest(groups[q], n)
          /\ \A p \in Queues : p # q => /\ batch'[p] = batch[p] /\ groups'[p] = groups[p]
                                        /\ prompt'[p] = prompt[p] /\ drain'[p] = drain[p]
      BY <1>0, <2>1 DEF RunEnds, Drains, n
    <3>3. from2[q] \in Nat /\ items'[q] \in Seq(Msg)
      <4>1. Rest(items[q], Len(batch[q])) \in Seq(Msg)
        BY <1>3, RestType
      <4>2. from2[q] \in Nat
        BY <1>5 DEF Marks
      <4> QED  BY <1>1, <4>1, <4>2
    <3>4. Entered(log[q], from2[q], h, items'[q], First(groups[q], n), Rest(groups[q], n))
      BY <1>3, <1>4, <1>5, <3>1, <3>3, EnteredCut
    <3> QED  BY <3>2, <3>4
  <2>2. CASE groups[q] = <<>>
    <3>1. ForgetRound(q)
      BY <2>2 DEF RunEnds
    <3>2. /\ batch'[q] = <<>> /\ groups'[q] = groups[q]
          /\ \A p \in Queues : p # q => /\ batch'[p] = batch[p] /\ groups'[p] = groups[p]
                                        /\ prompt'[p] = prompt[p]
      BY <1>0, <2>2, <3>1 DEF ForgetRound, Drains
    <3>3. \A p \in Queues : p # q /\ drain[p] # "off" => drain'[p] = drain[p]
      <4>1. CASE EndDrain(q, items', dropped')
        BY <1>0, <4>1, EndDrainFrame
      <4>2. CASE drain' = [drain EXCEPT ![q] = "debounce"]
        BY <1>0, <4>2 DEF Drains
      <4> QED  BY <2>2, <4>1, <4>2 DEF RunEnds
    <3> QED  BY <1>4, <1>5, <3>2, <3>3
  <2> QED  BY <2>1, <2>2
<1>7. ASSUME NEW p \in Queues
      PROVE  /\ Entered(log[p], from2[p], head2[p], items'[p], batch'[p], groups'[p])
             /\ from[p] + Given(p) <= from2[p] + Given(p)'
  <2>1. CASE p = q
    <3>1. Given(q) <= Len(batch[q])
      BY <1>3 DEF Given
    <3>2. Given(q) \in Nat /\ Given(q)' \in Nat
      BY GivenType, GivenTypeNext
    <3>3. from[q] + Given(q) <= from2[q] + Given(q)'
      BY <1>3, <1>5, <3>1, <3>2
    <3> QED  BY <1>5, <1>6, <2>1, <3>3
  <2>2. CASE p # q
    <3>1. Given(p) <= Given(p)'
      BY <1>6, <2>2, GivenKept
    <3>2. Entered(log[p], from[p], head[p], items[p], batch[p], groups[p]) /\ from[p] \in Nat
      BY <1>2, BookedParts
    <3>3. Given(p) \in Nat /\ Given(p)' \in Nat
      BY GivenType, GivenTypeNext
    <3>4. from2[p] = from[p] /\ head2[p] = head[p]
      BY <1>5, <2>2
    <3>5. from[p] + Given(p) <= from2[p] + Given(p)'
      BY <3>1, <3>2, <3>3, <3>4
    <3> QED  BY <1>1, <1>6, <2>2, <3>2, <3>4, <3>5
  <2> QED  BY <2>1, <2>2
<1>8. Booked(log, from2, head2)'
  <2>1. recent' = recent /\ runs' = runs
    BY <1>1
  <2> QED  BY <1>2, <1>7, <2>1, Later
<1>9. Distinct'
  <2>1. Once(items'[q])
    BY <1>0, <1>1, <1>3, DistinctRest DEF Counting
  <2> QED  BY <1>1, <2>1, DistinctNext DEF Counting
<1> QED  BY <1>5, <1>8, <1>9 DEF Counting

\* clearSessionQueues: the messages lose their chance.
LEMMA ClearCounting ==
  ASSUME TypeOK, TypeOK', Counting, Clear
  PROVE  Counting'
<1>0. Map /\ Held /\ Drains
  BY TypeParts
<1>1. PICK q \in Queues : q = current
  BY <1>0, CurrentIsQueue DEF Clear
<1>2. /\ items'[q] = <<>> /\ \A p \in Queues : p # q => items'[p] = items[p]
      /\ UNCHANGED <<drain, batch, groups, prompt, recent, runs>>
  BY <1>0, <1>1 DEF Clear, arrival, draining, Held
<1>3. PICK log \in Logs, from \in Marks, head \in Marks : Booked(log, from, head)
  BY DEF Counting
<1>4. /\ Len(log[q]) + 1 \in Nat
      /\ Entered(log[q], from[q], Len(log[q]) + 1, <<>>, batch[q], groups[q])
  BY <1>3, BookedParts, EnteredClear
<1> DEFINE head2 == [head EXCEPT ![q] = Len(log[q]) + 1]
<1>5. /\ head2 \in Marks /\ head2[q] = Len(log[q]) + 1
      /\ \A p \in Queues : p # q => head2[p] = head[p]
  BY <1>4 DEF Marks
<1> HIDE DEF head2
<1>6. ASSUME NEW p \in Queues
      PROVE  /\ Entered(log[p], from[p], head2[p], items'[p], batch'[p], groups'[p])
             /\ from[p] + Given(p) <= from[p] + Given(p)'
  <2>1. Given(p)' = Given(p) /\ Given(p) \in Nat
    BY <1>2, GivenType DEF Given
  <2>2. Entered(log[p], from[p], head[p], items[p], batch[p], groups[p]) /\ from[p] \in Nat
    BY <1>3, BookedParts
  <2>3. from[p] + Given(p) <= from[p] + Given(p)'
    BY <2>1, <2>2
  <2> QED  BY <1>2, <1>4, <1>5, <2>2, <2>3
<1>7. Booked(log, from, head2)'
  BY <1>2, <1>3, <1>5, <1>6, Later
<1>8. Distinct'
  <2>1. Once(<<>>)
    BY DEF Once
  <2> QED  BY <1>2, <2>1, DistinctNext DEF Counting
<1> QED  BY <1>5, <1>7, <1>8 DEF Counting

\* A mark expires: the message may be queued once more.
LEMMA ExpireCounting ==
  ASSUME TypeOK, TypeOK', Counting, NEW m \in Msg, Expire(m)
  PROVE  Counting'
<1>1. /\ recent' = recent \ {m} /\ runs' = [runs EXCEPT ![m] = @ + 1]
      /\ UNCHANGED <<items, drain, batch, groups, prompt>>
  BY DEF Expire, queue, draining
<1>2. PICK log \in Logs, from \in Marks, head \in Marks : Booked(log, from, head)
  BY DEF Counting
<1>3. Begins(from)' = Begins(from)
  BY <1>1 DEF Begins, Given
<1>4. ASSUME NEW x \in Msg
      PROVE  /\ IsFiniteSet(Chances(log, Begins(from)', recent', x))
             /\ Cardinality(Chances(log, Begins(from)', recent', x)) <= runs'[x]
  <2> DEFINE S == Chances(log, Begins(from), recent, x)
             T == Chances(log, Begins(from)', recent', x)
  <2>1. IsFiniteSet(S) /\ Cardinality(S) <= runs[x] /\ runs[x] \in Int
    BY <1>2 DEF Booked, TypeOK
  <2>2. CASE x = m
    <3>1. T \subseteq S \cup {<<0, 0>>}
      BY <1>3 DEF Chances
    <3>2. runs'[x] = runs[x] + 1
      BY <1>1, <2>2 DEF TypeOK
    <3> HIDE DEF S, T
    <3>3. IsFiniteSet(T) /\ Cardinality(T) <= runs[x] + 1
      BY <2>1, <3>1, OneMore
    <3> QED  BY <3>2, <3>3 DEF T
  <2>3. CASE x # m
    <3>1. T = S
      BY <1>1, <1>3, <2>3 DEF Chances
    <3>2. runs'[x] = runs[x]
      BY <1>1, <2>3 DEF TypeOK
    <3> HIDE DEF S, T
    <3>3. IsFiniteSet(T) /\ Cardinality(T) <= runs'[x]
      BY <2>1, <3>1, <3>2
    <3> QED  BY <3>3 DEF T
  <2> QED  BY <2>2, <2>3
<1>5. Booked(log, from, head)'
  BY <1>1, <1>2, <1>4 DEF Booked
<1>6. Distinct'
  BY <1>1 DEF Counting, Distinct
<1> QED  BY <1>5, <1>6 DEF Counting

\* enqueueFollowupRun: the chance of the message is its place in the queue now.
LEMMA EnqueueCounting ==
  ASSUME TypeOK, TypeOK', Counting, NEW m \in Msg, NEW q \in Queues, Enqueue(m, q),
         UNCHANGED <<drain, batch, groups, prompt>>
  PROVE  Counting'
<1>0. Map /\ Held /\ Drains
  BY TypeParts
<1>1. CASE UNCHANGED <<recent, items, runs>>
  BY <1>1, CountingSame
<1>2. CASE /\ m \notin recent \cup ToSet(items[q])
           /\ items' = [items EXCEPT ![q] = Append(Roomy(q), m)]
           /\ recent' = recent \cup {m} /\ UNCHANGED runs
  <2>1. items[q] \in Seq(Msg) /\ Len(items[q]) \in Nat
    BY <1>0 DEF Held
  <2> DEFINE d == IF Len(items[q]) < Cap THEN 0 ELSE Len(items[q]) - Cap + 1
  <2>2. d \in 0 .. Len(items[q]) /\ Roomy(q) = Rest(items[q], d)
    BY <2>1, CapType DEF Roomy
  <2> HIDE DEF d
  <2>3. /\ items'[q] = Append(Rest(items[q], d), m)
        /\ \A p \in Queues : p # q => items'[p] = items[p]
    BY <1>0, <1>2, <2>2 DEF Held
  <2>4. PICK log \in Logs, from \in Marks, head \in Marks : Booked(log, from, head)
    BY DEF Counting
  <2>5. /\ log[q] \in Seq(Msg) /\ from[q] \in Nat /\ head[q] \in Nat
        /\ batch[q] \in Seq(Msg) /\ groups[q] \in Seq(Msg) /\ Len(log[q]) \in Nat
        /\ Entered(log[q], from[q], head[q], items[q], batch[q], groups[q])
    BY <2>4, BookedParts
  <2>6. /\ head[q] + d \in Nat
        /\ Entered(Append(log[q], m), from[q], head[q] + d, items'[q], batch[q], groups[q])
    <3>1. d \in 0 .. Len(items[q])
      BY <2>2
    <3>2. /\ head[q] + d \in Nat
          /\ Entered(Append(log[q], m), from[q], head[q] + d, Append(Rest(items[q], d), m),
                     batch[q], groups[q])
      BY <2>1, <2>5, <3>1, EnteredAppend
    <3> QED  BY <2>3, <3>2
  <2> DEFINE n == Len(log[q]) + 1
             t == <<q, n>>
  <2>7. PICK log2 \in Logs, head2 \in Marks :
          /\ log2[q] = Append(log[q], m) /\ head2[q] = head[q] + d
          /\ \A p \in Queues : p # q => log2[p] = log[p] /\ head2[p] = head[p]
    <3> DEFINE f == [log EXCEPT ![q] = Append(log[q], m)]
               g == [head EXCEPT ![q] = head[q] + d]
    <3>1. /\ f \in Logs /\ f[q] = Append(log[q], m) /\ g \in Marks /\ g[q] = head[q] + d
          /\ \A p \in Queues : p # q => f[p] = log[p] /\ g[p] = head[p]
      BY <2>5, <2>6 DEF Logs, Marks
    <3> HIDE DEF f, g
    <3> QED  BY <3>1
  <2>8. Len(log2[q]) = n /\ log2[q][n] = m /\ \A i \in 1 .. Len(log[q]) : log2[q][i] = log[q][i]
    BY <2>5, <2>7
  <2>9. n \in Nat /\ n = Len(log[q]) + 1
    BY <2>5
  <2> HIDE DEF n
  <2>10. ASSUME NEW p \in Queues
         PROVE  Entered(log2[p], from[p], head2[p], items'[p], batch'[p], groups'[p])
    <3>1. CASE p = q
      BY <2>6, <2>7, <3>1
    <3>2. CASE p # q
      BY <2>3, <2>4, <2>7, <3>2, BookedParts
    <3> QED  BY <3>1, <3>2
  <2>11. Begins(from)' = Begins(from)
    BY DEF Begins, Given
  <2>12. ASSUME NEW p \in Queues  PROVE Begins(from)[p] \in Nat /\ 1 <= Begins(from)[p]
    <3>1. from[p] \in Nat /\ 1 <= from[p] /\ Given(p) \in Nat
      BY <2>4, BookedParts, GivenType DEF Entered
    <3> QED  BY <3>1 DEF Begins
  <2>13. ASSUME NEW x
         PROVE  Places(log2, Begins(from), x)
                  \subseteq Places(log, Begins(from), x) \cup (IF x = m THEN {t} ELSE {})
    <3> SUFFICES ASSUME NEW u \in Places(log2, Begins(from), x), ~(x = m /\ u = t)
                 PROVE  u \in Places(log, Begins(from), x)
      OBVIOUS
    <3>1. PICK p \in Queues, k \in Nat : u = <<p, k>>
      BY DEF Places
    <3>2. Begins(from)[p] <= k /\ k <= Len(log2[p]) /\ log2[p][k] = x
      BY <3>1 DEF Places
    <3>3. CASE p # q
      BY <2>7, <3>1, <3>2, <3>3 DEF Places
    <3>4. CASE p = q
      <4>1. k # n
        BY <2>8, <3>1, <3>2, <3>4
      <4>2. 1 <= k /\ k <= n
        BY <2>8, <2>12, <3>2, <3>4
      <4>3. k \in 1 .. Len(log[q])
        BY <2>5, <2>9, <4>1, <4>2
      <4>4. log[q][k] = x
        BY <2>8, <3>2, <3>4, <4>3
      <4> QED  BY <3>1, <3>2, <3>4, <4>3, <4>4 DEF Places
    <3> QED  BY <3>3, <3>4
  <2>14. ASSUME NEW x \in Msg
         PROVE  /\ IsFiniteSet(Chances(log2, Begins(from)', recent', x))
                /\ Cardinality(Chances(log2, Begins(from)', recent', x)) <= runs'[x]
    <3> DEFINE S == Chances(log, Begins(from), recent, x)
               T == Chances(log2, Begins(from)', recent', x)
               R == S \ {<<0, 0>>}
    <3>1. IsFiniteSet(S) /\ Cardinality(S) <= runs[x] /\ runs[x] \in Int
      BY <2>4 DEF Booked, TypeOK
    <3>2. runs'[x] = runs[x]
      BY <1>2
    <3>3. CASE x # m
      <4>1. T \subseteq S
        BY <1>2, <2>11, <2>13, <3>3 DEF Chances
      <4> HIDE DEF S, T
      <4>2. IsFiniteSet(T) /\ Cardinality(T) <= runs[x]
        BY <3>1, <4>1, Fewer
      <4> QED  BY <3>2, <4>2 DEF T
    <3>4. CASE x = m
      <4>1. <<0, 0>> \in S
        BY <1>2, <3>4 DEF Chances
      <4>2. \A u \in Places(log, Begins(from), x) : u # <<0, 0>>
        BY DEF Places, Queues
      <4>3. T = Places(log2, Begins(from), x)
        BY <1>2, <2>11, <3>4 DEF Chances
      <4>4. T \subseteq R \cup {t}
        BY <2>13, <3>4, <4>2, <4>3 DEF Chances
      <4> HIDE DEF S, T, t
      <4>5. IsFiniteSet(R) /\ Cardinality(R) = Cardinality(S) - 1 /\ Cardinality(S) \in Nat
        BY <3>1, <4>1, FS_RemoveElement, FS_CardinalityType
      <4> HIDE DEF R
      <4> DEFINE left == runs[x] - 1
      <4>6. Cardinality(R) <= left /\ left \in Int /\ left + 1 = runs[x]
        BY <3>1, <4>5
      <4> HIDE DEF left
      <4>7. IsFiniteSet(T) /\ Cardinality(T) <= left + 1
        BY <4>4, <4>5, <4>6, OneMore
      <4> QED  BY <3>2, <4>6, <4>7 DEF T
    <3> QED  BY <3>3, <3>4
  <2>15. Booked(log2, from, head2)'
    BY <2>10, <2>14 DEF Booked
  <2>16. Distinct'
    <3> DEFINE r == Rest(items[q], d)
    <3>1. r \in Seq(Msg) /\ Len(r) = Len(items[q]) - d
          /\ \A i \in 1 .. Len(items[q]) - d : r[i] = items[q][d + i]
      BY <2>1, <2>2, RestProperties
    <3>2. Once(r)
      <4>1. d \in Nat
        BY <2>1, <2>2
      <4> QED  BY <1>0, <4>1, DistinctRest DEF Counting
    <3> HIDE DEF r
    <3>3. Len(r) \in Nat /\ DOMAIN r = 1 .. Len(r)
      BY <3>1
    <3>4. ASSUME NEW i \in 1 .. Len(r)  PROVE r[i] # m
      <4>1. Len(r) = Len(items[q]) - d
        BY <3>1
      <4>2. i \in 1 .. Len(items[q]) - d /\ d + i \in 1 .. Len(items[q])
        BY <2>1, <2>2, <4>1
      <4>3. items[q][d + i] \in ToSet(items[q])
        BY <2>1, <4>2 DEF ToSet
      <4> QED  BY <1>2, <3>1, <4>2, <4>3
    <3>5. Once(Append(r, m))
      <4> DEFINE a == Append(r, m)
      <4>1. /\ DOMAIN a = 1 .. Len(r) + 1 /\ a[Len(r) + 1] = m
            /\ \A i \in 1 .. Len(r) : a[i] = r[i]
        BY <3>1
      <4> HIDE DEF a
      <4>2. \A i \in DOMAIN a : i = Len(r) + 1 \/ i \in 1 .. Len(r)
        BY <3>3, <4>1
      <4>3. \A i, j \in DOMAIN a : a[i] = a[j] => i = j
        BY <3>2, <3>3, <3>4, <4>1, <4>2 DEF Once
      <4> QED  BY <4>3 DEF Once, a
    <3>6. items'[q] = Append(r, m)
      BY <2>3 DEF r
    <3>7. Once(items'[q])
      BY <3>5, <3>6
    <3> QED  BY <2>3, <3>7, DistinctNext DEF Counting
  <2> QED  BY <2>7, <2>15, <2>16 DEF Counting
<1> QED  BY <1>1, <1>2 DEF Enqueue

LEMMA ArriveCounting ==
  ASSUME TypeOK, TypeOK', Counting, NEW m \in Msg, Arrive(m)
  PROVE  Counting'
<1>1. UNCHANGED <<drain, batch, groups, prompt>>
  BY DEF Arrive, draining
<1>2. CASE UNCHANGED <<recent, items, runs>>
  BY <1>1, <1>2, CountingSame
<1>3. CASE current # 0 /\ Enqueue(m, current)
  BY <1>1, <1>3, EnqueueCounting, CurrentIsQueue, TypeParts
<1>4. CASE made < MaxQueues /\ Enqueue(m, made + 1)
  <2>1. made + 1 \in Queues
    BY <1>4, MaxQueuesType DEF TypeOK, Queues
  <2> QED  BY <1>1, <1>4, <2>1, EnqueueCounting
<1> QED  BY <1>2, <1>3, <1>4 DEF Arrive, queue

LEMMA CountingStep == TypeOK /\ TypeOK' /\ Counting /\ [Next]_vars => Counting'
<1> SUFFICES ASSUME TypeOK, TypeOK', Counting, [Next]_vars  PROVE Counting'
  OBVIOUS
<1> USE DEF arrival, queue, draining, history
<1>1. CASE UNCHANGED vars
  BY <1>1, CountingSame DEF vars
<1>2. ASSUME NEW m \in Msg, Begin(m)  PROVE Counting'
  BY <1>2, CountingSame DEF Begin
<1>3. CASE OtherBegins \/ OtherEnds
  BY <1>3, CountingSame DEF OtherBegins, OtherEnds
<1>4. CASE DirectEnds
  <2>1. /\ UNCHANGED <<items, batch, groups, prompt, recent, runs>>
        /\ Schedule(drain, items, dropped)
    BY <1>4 DEF DirectEnds
  <2>2. \A q \in Queues : drain[q] # "off" => drain'[q] = drain[q]
    BY <2>1, ScheduleFrame, TypeParts
  <2> QED  BY <2>1, <2>2, CountingSame
<1>5. ASSUME NEW m \in Msg, Arrive(m)  PROVE Counting'
  BY <1>5, ArriveCounting
<1>6. ASSUME NEW m \in Msg, Expire(m)  PROVE Counting'
  BY <1>6, ExpireCounting
<1>7. CASE Clear
  BY <1>7, ClearCounting
<1>8. ASSUME NEW q \in Queues, DrainStep(q)  PROVE Counting'
  BY <1>8, WakeCounting, RunStartsCounting, RunEndsCounting DEF DrainStep
<1>9. ASSUME NEW q \in Queues, RunThrows(q)  PROVE Counting'
  BY <1>9, RunThrowsCounting
<1> QED  BY <1>1, <1>2, <1>3, <1>4, <1>5, <1>6, <1>7, <1>8, <1>9 DEF Next

\* A drain gives the text of a message to a run once, and again only for a run
\* that threw or a delivery after its mark expired (items.splice after the run,
\* RECENT_QUEUE_MESSAGE_IDS and the look at the queue in enqueueFollowupRun),
\* through clears, the cap and drains that start over: the messages a run can
\* still be given are places in the order they came, and each of them is passed
\* once.
THEOREM MessagesRunOnce == Spec => []RunOnce
<1>1. Init => TypeOK /\ Counting
  BY TypeInit, CountingInit
<1>2. TypeOK /\ Counting /\ [Next]_vars => (TypeOK /\ Counting)'
  BY TypeStep, CountingStep
<1>3. TypeOK /\ Counting => RunOnce
  <2> SUFFICES ASSUME TypeOK, Counting, NEW m \in Msg  PROVE runs[m] >= 0
    BY DEF RunOnce
  <2>1. PICK log \in Logs, from \in Marks, head \in Marks : Booked(log, from, head)
    BY DEF Counting
  <2> DEFINE S == Chances(log, Begins(from), recent, m)
  <2>2. IsFiniteSet(S) /\ Cardinality(S) <= runs[m] /\ runs[m] \in Int
    BY <2>1 DEF Booked, TypeOK
  <2> HIDE DEF S
  <2>3. Cardinality(S) \in Nat
    BY <2>2, FS_CardinalityType
  <2> QED  BY <2>2, <2>3
<1> QED  BY <1>1, <1>2, <1>3, PTL DEF Spec

=============================================================================
