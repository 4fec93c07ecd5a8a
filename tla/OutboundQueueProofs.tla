------------------------- MODULE OutboundQueueProofs -------------------------
(***************************************************************************)
(* No delivery is lost, repeated without a cause, or tried without end:    *)
(* theorems about OutboundQueue for every set of entries and every number  *)
(* of retries, scans, crashes and other faults.                            *)
(***************************************************************************)
EXTENDS OutboundQueue, FiniteSetTheorems, WellFoundedInduction, NaturalsInduction, TLAPS

\* What the proof needs to know of the types.
Shape ==
  /\ order \in Seq(Entries)
  /\ at \in [Jobs -> Awaits]
  /\ todo = [s \in Scans |-> todo[s]]

\* A job acknowledges an entry only after its message was shown, or given up.
AckEarned ==
  \A j \in Jobs :
    /\ at[j] = "answered" => On(j) \in shown
    /\ at[j] \in {"acking", "unlinking"} => On(j) \in shown \cup waived

Kept == Shape /\ AckEarned /\ NothingLost

LEMMA JobKinds == /\ Live \subseteq Jobs /\ Defer \subseteq Jobs /\ Scans \subseteq Jobs
                  /\ \A j \in Jobs : j \in Live \cup Defer \cup Scans
BY DEF Jobs

LEMMA KeptInit == Init => Kept
BY DEF Init, Kept, Shape, AckEarned, NothingLost, ToSet, Awaits

\* A job moves on to an await where it owes nothing, and history only grows.
LEMMA GoesTo ==
  ASSUME Shape, AckEarned, NEW j \in Jobs, NEW a \in Awaits \ {"answered", "acking", "unlinking"},
         GoTo(j, a), order' = order, shown' = shown, waived' = waived
  PROVE  Shape' /\ AckEarned'
BY DEF Shape, AckEarned, GoTo, On

\* So it does when it is through with its entry.
LEMMA Finishes ==
  ASSUME Shape, AckEarned, NEW j \in Jobs,
         Finish(j), order' = order, shown' = shown, waived' = waived
  PROVE  Shape' /\ AckEarned'
BY DEF Shape, AckEarned, Finish, On, Awaits

\* Where an entry is kept does not change, or the message was seen off.
LEMMA StillKept ==
  ASSUME NothingLost, order' = order,
         queued \cup failed \cup waived \cup shown
           \subseteq queued' \cup failed' \cup waived' \cup shown'
  PROVE  NothingLost'
BY DEF NothingLost

\* The steps of a job on its entry.
LEMMA KeptByStep ==
  ASSUME Kept, NEW j \in Jobs, Step(j)
  PROVE  Kept'
<1> USE DEF Kept
<1>1. CASE Transmit(j)
  <2>1. Shape' /\ AckEarned'
    BY <1>1 DEF Transmit, GoTo, Shape, AckEarned, On, Awaits, disk
  <2> QED  BY <1>1, <2>1, StillKept DEF Transmit, disk
<1>2. CASE Answered(j)
  <2>1. Shape' /\ AckEarned'
    BY <1>2 DEF Answered, GoTo, Shape, AckEarned, On, Awaits, disk, history
  <2> QED  BY <1>2, <2>1, StillKept DEF Answered, disk, history
<1>3. CASE AnswerLost(j) \/ SendFails(j)
  <2>1. PICK a \in {"failRead", "moving"} : GoTo(j, a)
    BY <1>3 DEF AnswerLost, SendFails, AfterError
  <2>2. UNCHANGED <<disk, shown, waived>>
    BY <1>3 DEF AnswerLost, SendFails, history
  <2> QED  BY <2>1, <2>2, GoesTo, StillKept DEF disk, Awaits
<1>4. CASE Swallowed(j) \/ Aborted(j)
  <2>1. Shape' /\ AckEarned'
    BY <1>4 DEF Swallowed, Aborted, GoTo, Shape, AckEarned, On, Awaits, disk
  <2> QED  BY <1>4, <2>1, StillKept DEF Swallowed, Aborted, disk
<1>5. CASE AckRename(j)
  <2>1. On(j) \in shown \cup waived
    BY <1>5 DEF AckRename, AckEarned
  <2>2. UNCHANGED <<order, failed, shown, waived>> /\ queued \subseteq queued' \cup {On(j)}
    BY <1>5 DEF AckRename, history
  <2>3. CASE On(j) \in queued
    <3>1. Shape' /\ AckEarned'
      BY <1>5, <2>1, <2>2, <2>3 DEF AckRename, GoTo, Shape, AckEarned, On, Awaits
    <3> QED  BY <2>1, <2>2, <3>1, StillKept
  <2>4. CASE On(j) \notin queued
    BY <1>5, <2>1, <2>2, <2>4, Finishes, StillKept DEF AckRename
  <2> QED  BY <2>3, <2>4
<1>6. CASE AckUnlink(j)
  BY <1>6, Finishes, StillKept DEF AckUnlink, history
<1>7. CASE AckThrows(j)
  BY <1>7, Finishes, GoesTo, StillKept DEF AckThrows, disk, Awaits
<1>8. CASE FailRead(j)
  BY <1>8, Finishes, GoesTo, StillKept DEF FailRead, disk, history, Awaits
<1>9. CASE FailWrite(j)
  <2>1. UNCHANGED <<order, failed, shown, waived>> /\ queued \subseteq queued'
    BY <1>9 DEF FailWrite
  <2> QED  BY <1>9, <2>1, Finishes, StillKept DEF FailWrite
<1>10. CASE FailThrows(j)
  BY <1>10, Finishes, StillKept DEF FailThrows, disk
<1>11. CASE MoveToFailed(j)
  <2>1. UNCHANGED <<order, shown, waived>> /\ queued \cup failed \subseteq queued' \cup failed'
    BY <1>11 DEF MoveToFailed, history
  <2> QED  BY <1>11, <2>1, Finishes, StillKept DEF MoveToFailed
<1>12. CASE MoveThrows(j)
  <2>1. UNCHANGED <<disk, shown, waived>>
    BY <1>12 DEF MoveThrows
  <2>2. CASE j = Drain /\ at[j] = "pruning"
    <3>1. Shape' /\ AckEarned'
      BY <1>12, <2>1, <2>2 DEF MoveThrows, Shape, AckEarned, On, Awaits, disk
    <3> QED  BY <2>1, <3>1, StillKept DEF disk
  <2>3. CASE ~(j = Drain /\ at[j] = "pruning")
    BY <1>12, <2>1, <2>3, Finishes, StillKept DEF MoveThrows, disk
  <2> QED  BY <2>2, <2>3
<1> QED
  BY <1>1, <1>2, <1>3, <1>4, <1>5, <1>6, <1>7, <1>8, <1>9, <1>10, <1>11, <1>12 DEF Step

\* The steps of a scan between two entries.
LEMMA KeptByScan ==
  ASSUME Kept, NEW s \in Scans, Load(s) \/ Claim(s) \/ ScanEnds(s) \/ Reread(s)
  PROVE  Kept'
<1> USE DEF Kept
<1>1. s \in Jobs
  BY JobKinds
<1>2. CASE Load(s)
  <2>1. Shape' /\ AckEarned'
    BY <1>1, <1>2 DEF Load, Shape, AckEarned, On, Awaits, history
  <2> QED  BY <1>2, <2>1, StillKept DEF Load, history
<1>3. CASE Claim(s)
  <2>1. Shape' /\ AckEarned'
    BY <1>1, <1>3 DEF Claim, Shape, AckEarned, On, Awaits, disk, history
  <2> QED  BY <1>3, <2>1, StillKept DEF Claim, disk, history
<1>4. CASE ScanEnds(s)
  <2>1. Shape' /\ AckEarned'
    BY <1>1, <1>4 DEF ScanEnds, Shape, AckEarned, On, Awaits, disk, history
  <2> QED  BY <1>4, <2>1, StillKept DEF ScanEnds, disk, history
<1>5. CASE Reread(s)
  <2>1. Finish(s) \/ GoTo(s, "pruning") \/ GoTo(s, "sending")
    BY <1>5 DEF Reread, Begin
  <2>2. UNCHANGED <<disk, shown, waived>>
    BY <1>5 DEF Reread
  <2> QED  BY <1>1, <2>1, <2>2, Finishes, GoesTo, StillKept DEF disk, Awaits
<1> QED  BY <1>2, <1>3, <1>4, <1>5

LEMMA KeptStep == Kept /\ [Next]_vars => Kept'
<1> SUFFICES ASSUME Kept, [Next]_vars  PROVE Kept'
  OBVIOUS
<1> USE DEF Kept
<1>1. ASSUME NEW e \in Entries, Enqueue(e)  PROVE Kept'
  <2>1. <<"live", e>> \in Jobs
    BY DEF Live, Jobs
  <2>2. Shape'
    BY <1>1, <2>1 DEF Enqueue, GoTo, Shape, Awaits
  <2>3. AckEarned'
    BY <1>1, <2>1 DEF Enqueue, GoTo, Shape, AckEarned, On
  <2>4. ASSUME NEW x \in ToSet(order')  PROVE x \in ToSet(order) \cup {e}
    <3>1. order \in Seq(Entries) /\ order' = Append(order, e)
      BY <1>1 DEF Enqueue, Shape
    <3>2. PICK i \in DOMAIN order' : x = order'[i]
      BY <2>4 DEF ToSet
    <3>3. CASE i \in DOMAIN order
      BY <3>1, <3>2, <3>3 DEF ToSet
    <3>4. CASE i \notin DOMAIN order
      BY <3>1, <3>2, <3>4
    <3> QED  BY <3>3, <3>4
  <2>5. NothingLost'
    BY <1>1, <2>4 DEF Enqueue, NothingLost
  <2> QED  BY <2>2, <2>3, <2>5
<1>2. ASSUME NEW e \in Entries, EnqueueFails(e)  PROVE Kept'
  <2>1. <<"live", e>> \in Jobs
    BY DEF Live, Jobs
  <2> QED  BY <1>2, <2>1, GoesTo, StillKept DEF EnqueueFails, disk, history, Awaits
<1>3. CASE OverBudget
  <2>1. Shape' /\ AckEarned'
    BY <1>3 DEF OverBudget, Shape, AckEarned, On, Awaits, disk, history, Scans, Startup, Drain
  <2> QED  BY <1>3, <2>1, StillKept DEF OverBudget, disk, history
<1>4. CASE Crash
  <2>1. Shape' /\ AckEarned'
    BY <1>4 DEF Crash, Shape, AckEarned, Awaits, disk
  <2> QED  BY <1>4, <2>1, StillKept DEF Crash, disk
<1>5. CASE UNCHANGED vars
  BY <1>5 DEF vars, disk, memory, history, Shape, AckEarned, NothingLost, On
<1> QED  BY <1>1, <1>2, <1>3, <1>4, <1>5, KeptByStep, KeptByScan DEF Next

\* Once it is on disk, a delivery stays in the queue or in failed/ until its
\* message was shown or its caller gave it up, whatever crashes, fails or runs
\* beside it (ackDelivery, failDelivery, moveToFailed).
THEOREM NoDeliveryLost == Spec => []NothingLost
<1>1. Init => Kept
  BY KeptInit
<1>2. Kept /\ [Next]_vars => Kept'
  BY KeptStep
<1>3. Kept => NothingLost
  BY DEF Kept
<1> QED  BY <1>1, <1>2, <1>3, PTL DEF Spec

-----------------------------------------------------------------------------
(* Induction, and what a scan selects *)

\* A set of numbers that is not empty has a least element.
LEMMA LeastElement ==
  ASSUME NEW T \in SUBSET Nat, T # {}
  PROVE  \E n \in T : \A k \in T : n <= k
<1>1. \E n \in T : \A k \in T : ~(<<k, n>> \in OpToRel(<, Nat))
  BY NatLessThanWellFounded, WFMin
<1>2. PICK n \in T : \A k \in T : ~(<<k, n>> \in OpToRel(<, Nat))
  BY <1>1
<1>3. \A k \in T : ~(k < n)
  BY <1>2 DEF OpToRel
<1> QED  BY <1>3

\* Induction, for a set.
LEMMA Induction ==
  ASSUME NEW T, NEW N \in Nat, 0 \in T, \A n \in 1 .. N : n - 1 \in T => n \in T
  PROVE  \A n \in 0 .. N : n \in T
<1> SUFFICES ASSUME NEW m \in 0 .. N, m \notin T  PROVE FALSE
  OBVIOUS
<1> DEFINE U == {n \in 0 .. N : n \notin T}
<1>1. U \in SUBSET Nat /\ U # {}
  OBVIOUS
<1>2. PICK n \in U : \A k \in U : n <= k
  BY <1>1, LeastElement
<1>3. n \in 1 .. N /\ n - 1 \in 0 .. N /\ ~(n <= n - 1)
  BY <1>2
<1>4. n - 1 \notin U
  BY <1>2, <1>3
<1> QED  BY <1>2, <1>3, <1>4

\* f is the function Among is the last value of.
Keeps(s, S, n, f) ==
  f = [i \in 0 .. n |->
        IF i = 0 THEN <<>>
        ELSE IF s[i] \in S THEN Append(f[i - 1], s[i]) ELSE f[i - 1]]

\* There is one: the recursion is well founded.
LEMMA KeepsExists ==
  ASSUME NEW s, NEW S, NEW N \in Nat
  PROVE  \E f : Keeps(s, S, N, f)
<1> DEFINE T == {n \in 0 .. N : \E f : Keeps(s, S, n, f)}
<1>1. 0 \in T
  <2>1. Keeps(s, S, 0, [i \in 0 .. 0 |-> <<>>])
    BY DEF Keeps
  <2> QED  BY <2>1
<1>2. ASSUME NEW n \in 1 .. N, n - 1 \in T  PROVE n \in T
  <2>1. PICK f : Keeps(s, S, n - 1, f)
    BY <1>2
  <2> DEFINE x == IF s[n] \in S THEN Append(f[n - 1], s[n]) ELSE f[n - 1]
             g == [i \in 0 .. n |-> IF i = n THEN x ELSE f[i]]
  <2>2. \A i \in 0 .. n - 1 : g[i] = f[i]
    OBVIOUS
  <2>3. g[n] = IF s[n] \in S THEN Append(g[n - 1], s[n]) ELSE g[n - 1]
    OBVIOUS
  <2>4. DOMAIN g = 0 .. n /\ g = [i \in 0 .. n |-> g[i]]
    OBVIOUS
  <2> HIDE DEF g, x
  <2>5. \A i \in 0 .. n - 1 : f[i] = IF i = 0 THEN <<>>
               ELSE IF s[i] \in S THEN Append(f[i - 1], s[i]) ELSE f[i - 1]
    BY <2>1 DEF Keeps
  <2>6. \A i \in 1 .. n - 1 : i - 1 \in 0 .. n - 1
    OBVIOUS
  <2>7. \A i \in 0 .. n : g[i] = IF i = 0 THEN <<>>
               ELSE IF s[i] \in S THEN Append(g[i - 1], s[i]) ELSE g[i - 1]
    <3> SUFFICES ASSUME NEW i \in 0 .. n, i # n
                 PROVE  g[i] = IF i = 0 THEN <<>>
                          ELSE IF s[i] \in S THEN Append(g[i - 1], s[i]) ELSE g[i - 1]
      BY <2>3
    <3>1. i \in 0 .. n - 1 /\ (i # 0 => i - 1 \in 0 .. n - 1)
      OBVIOUS
    <3> QED  BY <2>2, <2>5, <3>1
  <2>8. Keeps(s, S, n, g)
    BY <2>4, <2>7 DEF Keeps
  <2> QED  BY <2>8
<1> HIDE DEF T
<1>3. N \in T
  BY <1>1, <1>2, Induction
<1> QED  BY <1>3 DEF T

LEMMA AmongIs ==
  ASSUME NEW s, NEW S, Len(s) \in Nat
  PROVE  \E f : Keeps(s, S, Len(s), f) /\ Among(s, S) = f[Len(s)]
<1>1. \E f : Keeps(s, S, Len(s), f)
  BY KeepsExists
<1> DEFINE F == CHOOSE f : Keeps(s, S, Len(s), f)
<1>2. Keeps(s, S, Len(s), F)
  BY <1>1
<1>3. Among(s, S) = F[Len(s)]
  BY DEF Among, Keeps
<1> QED  BY <1>2, <1>3

LEMMA ToSetAppend ==
  ASSUME NEW V, NEW s \in Seq(V), NEW x \in V
  PROVE  Append(s, x) \in Seq(V) /\ ToSet(Append(s, x)) = ToSet(s) \cup {x}
<1> DEFINE t == Append(s, x)
<1>1. Len(s) \in Nat /\ DOMAIN s = 1 .. Len(s) /\ t \in Seq(V) /\ DOMAIN t = 1 .. Len(s) + 1
  OBVIOUS
<1>2. t[Len(s) + 1] = x /\ \A i \in 1 .. Len(s) : t[i] = s[i]
  OBVIOUS
<1> HIDE DEF t
<1>3. ToSet(t) = ToSet(s) \cup {x}
  <2>1. ToSet(s) \cup {x} \subseteq ToSet(t)
    BY <1>1, <1>2 DEF ToSet
  <2>2. \A i \in 1 .. Len(s) + 1 : i \in 1 .. Len(s) \/ i = Len(s) + 1
    BY <1>1
  <2>3. ToSet(t) \subseteq ToSet(s) \cup {x}
    BY <1>1, <1>2, <2>2 DEF ToSet
  <2> QED  BY <2>1, <2>3
<1> QED  BY <1>1, <1>3 DEF t

\* What is among S is there, and nothing else is.
LEMMA AmongProperties ==
  ASSUME NEW V, NEW s \in Seq(V), NEW S
  PROVE  Among(s, S) \in Seq(V) /\ ToSet(Among(s, S)) = ToSet(s) \cap S
<1> DEFINE N == Len(s)
<1>1. N \in Nat /\ DOMAIN s = 1 .. N /\ \A i \in 1 .. N : s[i] \in V
  OBVIOUS
<1>2. PICK f : Keeps(s, S, N, f) /\ Among(s, S) = f[N]
  BY <1>1, AmongIs
<1> DEFINE Begun(n) == {s[i] : i \in 1 .. n}
           T == {n \in 0 .. N : f[n] \in Seq(V) /\ ToSet(f[n]) = Begun(n) \cap S}
<1> HIDE DEF N
<1>3. /\ f[0] = <<>>
      /\ \A n \in 1 .. N : f[n] = IF s[n] \in S THEN Append(f[n - 1], s[n]) ELSE f[n - 1]
  <2>1. \A i \in 0 .. N : f[i] = IF i = 0 THEN <<>>
              ELSE IF s[i] \in S THEN Append(f[i - 1], s[i]) ELSE f[i - 1]
    BY <1>2, Zenon DEF Keeps
  <2>2. 0 \in 0 .. N /\ \A n \in 1 .. N : n \in 0 .. N /\ n # 0
    BY <1>1
  <2>3. f[0] = <<>>
    BY <2>1, <2>2
  <2>4. \A n \in 1 .. N : f[n] = IF s[n] \in S THEN Append(f[n - 1], s[n]) ELSE f[n - 1]
    BY <2>1, <2>2
  <2> QED  BY <2>3, <2>4
<1>4. 0 \in T
  <2>1. ToSet(<<>>) = {} /\ Begun(0) = {} /\ <<>> \in Seq(V)
    BY DEF ToSet
  <2>2. f[0] \in Seq(V) /\ ToSet(f[0]) = Begun(0) \cap S
    BY <1>3, <2>1
  <2>3. 0 \in 0 .. N
    BY <1>1
  <2> QED  BY <2>2, <2>3
<1>5. ASSUME NEW n \in 1 .. N, n - 1 \in T  PROVE n \in T
  <2>1. f[n - 1] \in Seq(V) /\ ToSet(f[n - 1]) = Begun(n - 1) \cap S
    BY <1>5
  <2>2. Begun(n) = Begun(n - 1) \cup {s[n]}
    BY <1>1
  <2>3. CASE s[n] \notin S
    BY <1>3, <2>1, <2>2, <2>3
  <2>4. CASE s[n] \in S
    <3>1. f[n] = Append(f[n - 1], s[n]) /\ s[n] \in V
      BY <1>1, <1>3, <2>4
    <3>2. f[n] \in Seq(V) /\ ToSet(f[n]) = ToSet(f[n - 1]) \cup {s[n]}
      BY <2>1, <3>1, ToSetAppend
    <3> HIDE DEF Begun
    <3> QED  BY <2>1, <2>2, <2>4, <3>2
  <2> QED  BY <2>3, <2>4
<1> HIDE DEF T
<1>6. N \in T
  BY <1>1, <1>4, <1>5, Induction
<1>7. Begun(N) = ToSet(s)
  BY <1>1 DEF ToSet
<1> QED  BY <1>2, <1>6, <1>7 DEF T

-----------------------------------------------------------------------------
(* Jobs *)

LEMMA JobFacts ==
  /\ \A e \in Entries : <<"live", e>> \in Live /\ <<"defer", e>> \in Defer
  /\ \A j \in Live : j[2] \in Entries /\ j = <<"live", j[2]>> /\ j \notin Defer /\ j \notin Scans
  /\ \A j \in Defer : j[2] \in Entries /\ j = <<"defer", j[2]>> /\ j \notin Live /\ j \notin Scans
  /\ Startup \in Scans /\ Drain \in Scans /\ Startup # Drain
  /\ \A s \in Scans : s = Startup \/ s = Drain
<1>1. Startup # Drain
  BY DEF Startup, Drain
<1>2. \A j \in Live : j[2] \in Entries /\ j = <<"live", j[2]>>
  BY DEF Live
<1>3. \A j \in Defer : j[2] \in Entries /\ j = <<"defer", j[2]>>
  BY DEF Defer
<1>4. \A e, x : <<"live", e>> # <<"defer", x>>
  OBVIOUS
<1>5. \A e : <<"live", e>> \notin Scans /\ <<"defer", e>> \notin Scans
  BY DEF Scans, Startup, Drain
<1> QED  BY <1>1, <1>2, <1>3, <1>4, <1>5 DEF Live, Defer, Scans

\* A job that is in the middle of its work on an entry.
Busy(j) == at[j] \notin {"idle", "next", "done"}

\* A deferral only calls failDelivery.
DeferAwaits == \A d \in Defer : at[d] \in {"idle", "failRead", "failWrite"}

\* A scan that works on an entry holds the claim on it.
Claimed == \A s \in Scans : Busy(s) => todo[s] # <<>> /\ On(s) \in claims

\* No two scans work on one entry.
Exclusive == Busy(Startup) /\ Busy(Drain) => On(Startup) # On(Drain)

Files == /\ queued \subseteq Entries /\ noListener \subseteq Entries
         /\ markers \subseteq Entries /\ failed \subseteq Entries
         /\ order \in Seq(Entries) /\ retryCount \in [Entries -> Nat]
Work == /\ at \in [Jobs -> Awaits] /\ read \in [Jobs -> Nat]
        /\ todo \in [Scans -> Seq(Entries)] /\ claims \subseteq Entries
Counts == scans \in 0 .. MaxScans /\ faults \in 0 .. MaxFaults
Told == /\ shown \subseteq Entries /\ waived \subseteq Entries
        /\ sends \in [Entries -> Int] /\ tries \in [Entries -> Int]

LEMMA TypeParts == TypeOK <=> Files /\ Work /\ Counts /\ Told
BY DEF TypeOK, Files, Work, Counts, Told

LEMMA TypePartsNext == TypeOK' <=> Files' /\ Work' /\ Counts' /\ Told'
BY DEF TypeOK, Files, Work, Counts, Told

\* The entry a busy job works on.
LEMMA OnEntry ==
  ASSUME Work, Claimed, NEW j \in Jobs, Busy(j)
  PROVE  On(j) \in Entries
<1>1. CASE j \in Scans
  <2>1. todo[j] \in Seq(Entries) /\ todo[j] # <<>>
    BY <1>1 DEF Work, Claimed
  <2> QED  BY <1>1, <2>1 DEF On
<1>2. CASE j \notin Scans
  BY <1>2, JobFacts DEF On, Jobs
<1> QED  BY <1>1, <1>2

LEMMA TailElements ==
  ASSUME NEW V, NEW s \in Seq(V), s # <<>>
  PROVE  Tail(s) \in Seq(V) /\ ToSet(Tail(s)) \subseteq ToSet(s)
<1> DEFINE t == Tail(s)
<1>1. t \in Seq(V) /\ Len(s) \in Nat /\ Len(t) = Len(s) - 1
  OBVIOUS
<1>2. \A i \in 1 .. Len(t) : t[i] = s[i + 1] /\ i + 1 \in 1 .. Len(s)
  OBVIOUS
<1>3. DOMAIN t = 1 .. Len(t) /\ DOMAIN s = 1 .. Len(s)
  OBVIOUS
<1> HIDE DEF t
<1>4. ToSet(t) \subseteq ToSet(s)
  BY <1>2, <1>3 DEF ToSet
<1> QED  BY <1>1, <1>4 DEF t

\* What a job's step does to the jobs: it goes on with its entry,
Moved(j, a) ==
  /\ at' \in [Jobs -> Awaits] /\ todo' = todo /\ claims' = claims
  /\ at'[j] = a /\ \A i \in Jobs : i # j => at'[i] = at[i]
  /\ \A i \in Jobs : On(i)' = On(i)

\* or it is through with it.
Released(j) ==
  /\ at' \in [Jobs -> Awaits] /\ todo' \in [Scans -> Seq(Entries)]
  /\ claims' = IF j \in Scans THEN claims \ {On(j)} ELSE claims
  /\ at'[j] \in {"done", "idle", "next"} /\ \A i \in Jobs : i # j => at'[i] = at[i]
  /\ j \in Defer => at'[j] = "idle"
  /\ j \in Live => at'[j] = "done"
  /\ \A i \in Jobs : i # j => On(i)' = On(i)
  /\ \A s \in Scans : ToSet(todo'[s]) \subseteq ToSet(todo[s])
  /\ \A s \in Scans : s # j => todo'[s] = todo[s]

LEMMA GoesOn ==
  ASSUME Work, NEW j \in Jobs, NEW a \in Awaits, GoTo(j, a)
  PROVE  Moved(j, a)
<1>1. at' = [at EXCEPT ![j] = a] /\ todo' = todo /\ claims' = claims
  BY DEF GoTo
<1>2. at' \in [Jobs -> Awaits] /\ at'[j] = a /\ \A i \in Jobs : i # j => at'[i] = at[i]
  BY <1>1 DEF Work
<1> QED  BY <1>1, <1>2 DEF On, Moved

LEMMA GetsThrough ==
  ASSUME Work, NEW j \in Jobs, j \in Scans => todo[j] # <<>>, Finish(j)
  PROVE  Released(j)
<1> DEFINE a == IF j \in Live THEN "done" ELSE IF j \in Defer THEN "idle" ELSE "next"
<1>1. at' = [at EXCEPT ![j] = a]
  BY DEF Finish
<1>2. a \in {"done", "idle", "next"} /\ a \in Awaits
  BY DEF Awaits
<1>3. (j \in Defer => a = "idle") /\ (j \in Live => a = "done")
  BY JobFacts
<1> HIDE DEF a
<1>4. /\ at' \in [Jobs -> Awaits] /\ at'[j] = a /\ \A i \in Jobs : i # j => at'[i] = at[i]
  BY <1>1, <1>2 DEF Work
<1>5. claims' = IF j \in Scans THEN claims \ {On(j)} ELSE claims
  BY DEF Finish
<1>6. CASE j \in Scans
  <2>1. todo' = [todo EXCEPT ![j] = Tail(todo[j])] /\ todo[j] \in Seq(Entries) /\ todo[j] # <<>>
    BY <1>6 DEF Finish, Work
  <2> DEFINE t == Tail(todo[j])
  <2>2. t \in Seq(Entries) /\ ToSet(t) \subseteq ToSet(todo[j])
    BY <2>1, TailElements
  <2>3. todo' = [todo EXCEPT ![j] = t]
    BY <2>1
  <2> HIDE DEF t
  <2>4. /\ todo' \in [Scans -> Seq(Entries)] /\ todo'[j] = t
        /\ \A s \in Scans : s # j => todo'[s] = todo[s]
    BY <1>6, <2>2, <2>3 DEF Work
  <2>5. \A i \in Jobs : i # j => On(i)' = On(i)
    BY <2>4 DEF On
  <2>6. \A s \in Scans : ToSet(todo'[s]) \subseteq ToSet(todo[s])
    BY <2>2, <2>4
  <2> QED  BY <1>2, <1>3, <1>4, <1>5, <2>4, <2>5, <2>6 DEF Released
<1>7. CASE j \notin Scans
  <2>1. todo' = todo
    BY <1>7 DEF Finish
  <2> QED  BY <1>2, <1>3, <1>4, <1>5, <2>1 DEF On, Work, Released
<1> QED  BY <1>6, <1>7

Claiming == DeferAwaits /\ Claimed /\ Exclusive

\* The drain gives up its list.
LEMMA GivesUp ==
  ASSUME Work, todo[Drain] # <<>>, at' = [at EXCEPT ![Drain] = "idle"],
         claims' = claims \ {On(Drain)}, todo' = [todo EXCEPT ![Drain] = <<>>]
  PROVE  Released(Drain)
<1>1. Drain \in Scans /\ Drain \in Jobs /\ Drain \notin Defer /\ Drain \notin Live
  BY JobFacts DEF Jobs
<1>2. <<>> \in Seq(Entries) /\ ToSet(<<>>) = {}
  BY DEF ToSet
<1>3. /\ todo' \in [Scans -> Seq(Entries)] /\ todo'[Drain] = <<>>
      /\ \A s \in Scans : s # Drain => todo'[s] = todo[s]
  BY <1>1, <1>2 DEF Work
<1>4. /\ at' \in [Jobs -> Awaits] /\ at'[Drain] = "idle"
      /\ \A i \in Jobs : i # Drain => at'[i] = at[i]
  BY <1>1 DEF Work, Awaits
<1>5. \A i \in Jobs : i # Drain => On(i)' = On(i)
  BY <1>3 DEF On
<1>6. \A s \in Scans : ToSet(todo'[s]) \subseteq ToSet(todo[s])
  BY <1>2, <1>3
<1> QED  BY <1>1, <1>3, <1>4, <1>5, <1>6 DEF Released

\* The awaits of a job at work.
AtWork == Awaits \ {"idle", "next", "done"}

\* Every step of a job is one of the two.
LEMMA StepShape ==
  ASSUME Work, Claiming, NEW j \in Jobs, Step(j)
  PROVE  /\ Busy(j)
         /\ \/ Released(j)
            \/ \E a \in AtWork : Moved(j, a) /\ (j \in Defer => a = "failWrite")
<1>1. Busy(j)
  BY DEF Step, Busy, Transmit, Answered, AnswerLost, SendFails, Swallowed, Aborted, AckRename,
         AckUnlink, AckThrows, FailRead, FailWrite, FailThrows, MoveToFailed, MoveThrows
<1>2. j \in Scans => todo[j] # <<>>
  BY <1>1 DEF Claiming, Claimed
<1>3. j \in Defer => at[j] \in {"failRead", "failWrite"}
  BY <1>1 DEF Claiming, DeferAwaits, Busy
<1>4. Finish(j) => Released(j)
  BY <1>2, GetsThrough
<1>5. \A a \in AtWork : GoTo(j, a) => Moved(j, a)
  BY GoesOn DEF AtWork
<1>6. CASE FailRead(j)
  BY <1>1, <1>4, <1>5, <1>6 DEF FailRead, AtWork, Awaits
<1>7. CASE FailWrite(j) \/ FailThrows(j)
  BY <1>1, <1>4, <1>7 DEF FailWrite, FailThrows
<1>8. ASSUME j \notin Defer, Finish(j) \/ \E a \in AtWork : GoTo(j, a)
      PROVE  Released(j) \/ \E a \in AtWork : Moved(j, a) /\ (j \in Defer => a = "failWrite")
  BY <1>4, <1>5, <1>8
<1>9. CASE ~(FailRead(j) \/ FailWrite(j) \/ FailThrows(j))
  <2>1. j \notin Defer
    BY <1>3, <1>9 DEF Step, Transmit, Answered, AnswerLost, SendFails, Swallowed, Aborted,
         AckRename, AckUnlink, AckThrows, MoveToFailed, MoveThrows
  <2> USE DEF AtWork, Awaits
  <2>2. CASE Transmit(j) \/ Answered(j)
    BY <1>1, <1>8, <2>1, <2>2 DEF Transmit, Answered
  <2>3. CASE AnswerLost(j) \/ SendFails(j)
    BY <1>1, <1>8, <2>1, <2>3 DEF AnswerLost, SendFails, AfterError
  <2>4. CASE Swallowed(j) \/ Aborted(j)
    BY <1>1, <1>8, <2>1, <2>4 DEF Swallowed, Aborted
  <2>5. CASE AckRename(j) \/ AckUnlink(j) \/ AckThrows(j)
    BY <1>1, <1>8, <2>1, <2>5 DEF AckRename, AckUnlink, AckThrows
  <2>6. CASE MoveToFailed(j)
    BY <1>1, <1>8, <2>1, <2>6 DEF MoveToFailed
  <2>7. CASE MoveThrows(j)
    <3>1. CASE j = Drain /\ at[j] = "pruning"
      BY <1>1, <1>2, <2>7, <3>1, GivesUp, JobFacts DEF MoveThrows
    <3>2. CASE ~(j = Drain /\ at[j] = "pruning")
      BY <1>1, <1>8, <2>1, <2>7, <3>2 DEF MoveThrows
    <3> QED  BY <3>1, <3>2
  <2> QED  BY <1>9, <2>2, <2>3, <2>4, <2>5, <2>6, <2>7 DEF Step
<1> QED  BY <1>6, <1>7, <1>9

LEMMA MovedClaiming ==
  ASSUME Work, Claiming, NEW j \in Jobs, Busy(j), NEW a \in AtWork, Moved(j, a),
         j \in Defer => a = "failWrite"
  PROVE  Claiming'
<1>1. \A i \in Jobs : Busy(i)' <=> Busy(i)
  BY DEF Moved, Busy, AtWork
<1>2. DeferAwaits'
  BY JobKinds DEF Moved, Claiming, DeferAwaits
<1>3. Claimed'
  BY <1>1, JobKinds DEF Moved, Claiming, Claimed
<1>4. Exclusive'
  BY <1>1, JobKinds, JobFacts DEF Moved, Claiming, Exclusive
<1> QED  BY <1>2, <1>3, <1>4 DEF Claiming

LEMMA ReleasedClaiming ==
  ASSUME Work, Claiming, NEW j \in Jobs, Busy(j), Released(j)
  PROVE  Claiming'
<1>1. \A i \in Jobs : Busy(i)' <=> Busy(i) /\ i # j
  BY DEF Released, Busy
<1>2. DeferAwaits'
  BY JobKinds DEF Released, Claiming, DeferAwaits
<1>3. Exclusive'
  BY <1>1, JobKinds, JobFacts DEF Released, Claiming, Exclusive
<1>4. Claimed'
  <2> SUFFICES ASSUME NEW s \in Scans, Busy(s)'  PROVE todo'[s] # <<>> /\ On(s)' \in claims'
    BY DEF Claimed
  <2>1. s \in Jobs /\ s # j /\ Busy(s) /\ todo[s] # <<>> /\ On(s) \in claims /\ On(s)' = On(s)
    BY <1>1, JobKinds DEF Released, Claiming, Claimed
  <2>2. todo'[s] = todo[s]
    BY <2>1 DEF Released
  <2>3. j \in Scans => On(j) # On(s)
    BY <2>1, JobFacts DEF Claiming, Exclusive
  <2> QED  BY <2>1, <2>2, <2>3 DEF Released
<1> QED  BY <1>2, <1>3, <1>4 DEF Claiming

-----------------------------------------------------------------------------
(* The types *)

LEMMA CountType ==
  ASSUME NEW f \in [Entries -> Int], NEW e \in Entries
  PROVE  More(f, e) \in [Entries -> Int] /\ Less(f, e) \in [Entries -> Int]
BY DEF More, Less

LEMMA FaultType ==
  ASSUME Counts, UNCHANGED bounds \/ (Fault /\ scans' = scans)
  PROVE  Counts'
BY MaxFaultsType DEF Counts, Fault, bounds

LEMMA StepWork ==
  ASSUME Files, Work, Claiming, NEW j \in Jobs, Step(j)
  PROVE  Work' /\ Claiming' /\ Busy(j) /\ On(j) \in Entries
<1>1. Busy(j) /\ On(j) \in Entries
  BY StepShape, OnEntry DEF Claiming
<1>2. read' \in [Jobs -> Nat]
  <2>1. CASE read' = read
    BY <2>1 DEF Work
  <2>2. CASE read' = [read EXCEPT ![j] = 0]
    BY <2>2 DEF Work
  <2>3. CASE read' = [read EXCEPT ![j] = retryCount[On(j)]] /\ FailRead(j)
    BY <1>1, <2>3 DEF Files, Work
  <2> QED
    BY <2>1, <2>2, <2>3
       DEF Step, Transmit, Answered, AnswerLost, SendFails, Swallowed, Aborted, AckRename,
           AckUnlink, AckThrows, FailRead, FailWrite, FailThrows, MoveToFailed, MoveThrows
<1>3. CASE Released(j)
  BY <1>1, <1>2, <1>3, ReleasedClaiming DEF Released, Work
<1>4. ASSUME NEW a \in AtWork, Moved(j, a), j \in Defer => a = "failWrite"
      PROVE  Work' /\ Claiming'
  BY <1>1, <1>2, <1>4, MovedClaiming DEF Moved, Work
<1> QED  BY <1>1, <1>3, <1>4, StepShape

LEMMA StepType ==
  ASSUME TypeOK, Claiming, NEW j \in Jobs, Step(j)
  PROVE  TypeOK'
<1>0. Files /\ Work /\ Counts /\ Told
  BY TypeParts
<1> USE <1>0
<1>1. Work' /\ On(j) \in Entries
  BY StepWork
<1> SUFFICES Files' /\ Counts' /\ Told'
  BY <1>1, TypePartsNext
<1> DEFINE e == On(j)
<1>2. /\ More(sends, e) \in [Entries -> Int] /\ Less(sends, e) \in [Entries -> Int]
      /\ More(tries, e) \in [Entries -> Int]
  BY <1>1, CountType DEF Told
<1>3. CASE Transmit(j) \/ Answered(j) \/ AnswerLost(j) \/ SendFails(j)
  <2>1. Files' /\ Told'
    BY <1>1, <1>2, <1>3
       DEF Transmit, Answered, AnswerLost, SendFails, disk, history, Files, Told
  <2>2. Counts'
    BY <1>3, FaultType DEF Transmit, Answered, AnswerLost, SendFails
  <2> QED  BY <2>1, <2>2
<1>4. CASE Swallowed(j) \/ Aborted(j)
  BY <1>1, <1>4, FaultType DEF Swallowed, Aborted, disk, Files, Told
<1>5. CASE AckRename(j) \/ AckUnlink(j)
  BY <1>1, <1>5, FaultType DEF AckRename, AckUnlink, history, Files, Told
<1>6. CASE AckThrows(j)
  BY <1>1, <1>2, <1>6, FaultType DEF AckThrows, disk, Files, Told
<1>7. CASE FailRead(j)
  BY <1>7, FaultType DEF FailRead, disk, history, Files, Told
<1>8. CASE FailWrite(j)
  <2>1. retryCount' = [retryCount EXCEPT ![e] = read[j] + 1] /\ read[j] \in Nat
    BY <1>8 DEF FailWrite, Work
  <2>2. retryCount' \in [Entries -> Nat]
    <3>1. read[j] + 1 \in Nat
      BY <2>1
    <3> QED  BY <2>1, <3>1 DEF Files
  <2>3. /\ queued' = queued \cup {e} /\ noListener' \subseteq noListener \cup {e}
        /\ UNCHANGED <<markers, failed, order, bounds, shown, waived>>
    BY <1>8 DEF FailWrite
  <2>4. Files'
    BY <1>1, <2>2, <2>3 DEF Files
  <2>5. sends' \in [Entries -> Int]
    BY <1>2, <1>8 DEF FailWrite, Told
  <2>6. tries' \in [Entries -> Int]
    <3>1. retryCount[e] - read[j] \in Int
      BY <1>1, <2>1 DEF Files
    <3>2. [tries EXCEPT ![e] = @ + (retryCount[e] - read[j])] \in [Entries -> Int]
      BY <1>1, <3>1 DEF Told
    <3> QED  BY <1>8, <3>2 DEF FailWrite, Told
  <2> QED  BY <2>3, <2>4, <2>5, <2>6, FaultType DEF Told
<1>9. CASE FailThrows(j)
  <2>1. Files' /\ Told'
    BY <1>2, <1>9 DEF FailThrows, disk, Files, Told
  <2> QED  BY <1>9, <2>1, FaultType DEF FailThrows
<1>10. CASE MoveToFailed(j)
  BY <1>1, <1>10, FaultType DEF MoveToFailed, history, Files, Told
<1>11. CASE MoveThrows(j)
  <2>1. Files' /\ Told'
    BY <1>2, <1>11 DEF MoveThrows, disk, Files, Told
  <2> QED  BY <1>11, <2>1, FaultType DEF MoveThrows
<1> QED
  BY <1>3, <1>4, <1>5, <1>6, <1>7, <1>8, <1>9, <1>10, <1>11 DEF Step

\* The steps of a scan between two entries, or with none.
LEMMA LoadType ==
  ASSUME TypeOK, Claiming, NEW s \in Scans, Load(s)
  PROVE  /\ TypeOK' /\ Claiming'
         /\ ToSet(todo'[s]) \subseteq queued /\ \A r \in Scans : r # s => todo'[r] = todo[r]
<1>0. Files /\ Work /\ Counts /\ Told
  BY TypeParts
<1> USE <1>0
<1>1. s \in Jobs
  BY JobKinds
<1> DEFINE S == IF s = Drain THEN queued \cap noListener ELSE queued
           t == Among(order, S)
<1>2. t \in Seq(Entries) /\ ToSet(t) = ToSet(order) \cap S
  BY AmongProperties DEF Files
<1>3. ToSet(t) \subseteq queued
  BY <1>2
<1>4. todo' = [todo EXCEPT ![s] = t]
  BY DEF Load
<1> HIDE DEF t, S
<1>5. /\ todo' \in [Scans -> Seq(Entries)] /\ todo'[s] = t
      /\ \A r \in Scans : r # s => todo'[r] = todo[r]
  BY <1>2, <1>4 DEF Work
<1>6. /\ at' \in [Jobs -> Awaits] /\ at'[s] = "next" /\ \A i \in Jobs : i # s => at'[i] = at[i]
  BY <1>1 DEF Load, Work, Awaits
<1>7. Work'
  BY <1>5, <1>6 DEF Load, Work
<1>8. Files' /\ Told'
  BY DEF Load, Files, Told, history
<1>9. Counts'
  BY MaxScansType DEF Load, Counts
<1>10. \A r \in Scans : Busy(r)' => r # s /\ Busy(r) /\ On(r)' = On(r)
  BY <1>5, <1>6, JobKinds DEF Busy, On
<1>11. DeferAwaits'
  BY <1>6, JobKinds, JobFacts DEF Claiming, DeferAwaits
<1>12. Claimed'
  BY <1>5, <1>10 DEF Claiming, Claimed, Load
<1>13. Exclusive'
  BY <1>10, JobFacts DEF Claiming, Exclusive
<1> QED
  BY <1>3, <1>5, <1>7, <1>8, <1>9, <1>11, <1>12, <1>13, TypePartsNext DEF Claiming

\* A scan picks an entry or passes over it; whoever is at work goes on.
Picked ==
  /\ \A r \in Scans : ToSet(todo'[r]) \subseteq ToSet(todo[r])
  /\ \A r \in Scans : \/ at'[r] = at[r] /\ (Busy(r) => On(r)' = On(r))
                      \/ at[r] = "next" /\ at'[r] = "reread"
  /\ \A j \in Jobs : j \notin Scans => at'[j] = at[j]

LEMMA ClaimType ==
  ASSUME TypeOK, Claiming, NEW s \in Scans, Claim(s)
  PROVE  TypeOK' /\ Claiming' /\ Picked
<1>0. Files /\ Work /\ Counts /\ Told
  BY TypeParts
<1> USE <1>0
<1>1. s \in Jobs /\ at[s] = "next" /\ todo[s] # <<>> /\ todo[s] \in Seq(Entries)
  BY JobKinds DEF Claim, Work
<1>2. Files' /\ Told' /\ Counts' /\ read' = read
  BY DEF Claim, Files, Told, Counts, disk, history, bounds
<1>3. ASSUME On(s) \notin claims, claims' = claims \cup {On(s)},
             at' = [at EXCEPT ![s] = "reread"], todo' = todo
      PROVE  TypeOK' /\ Claiming' /\ Picked
  <2>1. /\ at' \in [Jobs -> Awaits] /\ at'[s] = "reread" /\ \A i \in Jobs : i # s => at'[i] = at[i]
    BY <1>1, <1>3 DEF Work, Awaits
  <2>2. On(s) \in Entries
    BY <1>1 DEF On
  <2>3. Work'
    BY <1>2, <1>3, <2>1, <2>2 DEF Work
  <2>4. \A r \in Scans : On(r)' = On(r)
    BY <1>3 DEF On
  <2>5. \A r \in Scans : Busy(r)' => r = s \/ Busy(r)
    BY <2>1, JobKinds DEF Busy
  <2>6. DeferAwaits'
    BY <2>1, JobKinds, JobFacts DEF Claiming, DeferAwaits
  <2>7. Claimed'
    BY <1>1, <1>3, <2>4, <2>5 DEF Claiming, Claimed
  <2>8. Exclusive'
    BY <1>3, <2>4, <2>5, JobFacts DEF Claiming, Claimed, Exclusive
  <2>9. Picked
    BY <1>1, <1>3, <2>1, <2>4, JobKinds DEF Picked
  <2> QED  BY <1>2, <1>3, <2>3, <2>6, <2>7, <2>8, <2>9, TypePartsNext DEF Claiming
<1>4. ASSUME todo' = [todo EXCEPT ![s] = Tail(todo[s])], UNCHANGED <<at, claims>>
      PROVE  TypeOK' /\ Claiming' /\ Picked
  <2> DEFINE t == Tail(todo[s])
  <2>1. t \in Seq(Entries) /\ ToSet(t) \subseteq ToSet(todo[s])
    BY <1>1, TailElements
  <2>2. todo' = [todo EXCEPT ![s] = t]
    BY <1>4
  <2> HIDE DEF t
  <2>3. /\ todo' \in [Scans -> Seq(Entries)] /\ todo'[s] = t
        /\ \A r \in Scans : r # s => todo'[r] = todo[r]
    BY <2>1, <2>2 DEF Work
  <2>4. Work'
    BY <1>2, <1>4, <2>3 DEF Work
  <2>5. \A r \in Scans : Busy(r) => r # s /\ todo'[r] = todo[r] /\ On(r)' = On(r)
    BY <1>1, <2>3 DEF Busy, On
  <2>6. \A r \in Scans : Busy(r)' <=> Busy(r)
    BY <1>4 DEF Busy
  <2>7. DeferAwaits'
    BY <1>4 DEF Claiming, DeferAwaits
  <2>8. Claimed'
    BY <1>4, <2>5, <2>6 DEF Claiming, Claimed
  <2>9. Exclusive'
    BY <2>5, <2>6, JobFacts DEF Claiming, Exclusive
  <2>10. \A r \in Scans : ToSet(todo'[r]) \subseteq ToSet(todo[r])
    BY <2>1, <2>3
  <2> QED  BY <1>2, <1>4, <2>4, <2>5, <2>7, <2>8, <2>9, <2>10, TypePartsNext DEF Claiming, Picked
<1> QED  BY <1>3, <1>4 DEF Claim

LEMMA RereadType ==
  ASSUME TypeOK, Claiming, NEW s \in Scans, Reread(s)
  PROVE  /\ TypeOK' /\ Claiming' /\ Busy(s) /\ On(s) \in Entries
         /\ Released(s) \/ Moved(s, "pruning") \/ Moved(s, "sending")
<1>0. Files /\ Work /\ Counts /\ Told
  BY TypeParts
<1> USE <1>0
<1>1. s \in Jobs /\ Busy(s) /\ s \notin Defer
  BY JobKinds, JobFacts DEF Reread, Busy
<1>2. On(s) \in Entries /\ todo[s] # <<>>
  BY <1>1, OnEntry DEF Claiming, Claimed
<1>3. Finish(s) \/ GoTo(s, "pruning") \/ GoTo(s, "sending")
  BY DEF Reread, Begin
<1>4. Released(s) \/ Moved(s, "pruning") \/ Moved(s, "sending")
  BY <1>1, <1>2, <1>3, GetsThrough, GoesOn DEF Awaits
<1>5. Claiming'
  BY <1>1, <1>4, MovedClaiming, ReleasedClaiming DEF AtWork, Awaits
<1>6. read' = read /\ Files' /\ Counts'
  BY DEF Reread, disk, bounds, Files, Counts
<1>7. Work'
  BY <1>4, <1>6 DEF Released, Moved, Work
<1>8. Told'
  <2>1. /\ sends' = sends \/ sends' = More(sends, On(s))
        /\ tries' = tries \/ tries' = Less(tries, On(s))
        /\ UNCHANGED <<shown, waived>>
    BY DEF Reread, Begin
  <2>2. sends \in [Entries -> Int] /\ tries \in [Entries -> Int]
    BY DEF Told
  <2>3. More(sends, On(s)) \in [Entries -> Int] /\ Less(tries, On(s)) \in [Entries -> Int]
    BY <1>2, <2>2, CountType
  <2>4. sends' \in [Entries -> Int] /\ tries' \in [Entries -> Int]
    BY <2>1, <2>2, <2>3
  <2> QED  BY <2>1, <2>4 DEF Told
<1> QED  BY <1>1, <1>2, <1>4, <1>5, <1>6, <1>7, <1>8, TypePartsNext

LEMMA ScanEndsType ==
  ASSUME TypeOK, Claiming, NEW s \in Scans, ScanEnds(s)
  PROVE  TypeOK' /\ Claiming'
<1>0. Files /\ Work /\ Counts /\ Told
  BY TypeParts
<1> USE <1>0
<1>1. s \in Jobs /\ s \notin Defer
  BY JobKinds, JobFacts
<1>2. /\ at' \in [Jobs -> Awaits] /\ at'[s] = "idle" /\ \A i \in Jobs : i # s => at'[i] = at[i]
  BY <1>1 DEF ScanEnds, Work, Awaits
<1>3. TypeOK'
  BY <1>2, TypePartsNext
     DEF ScanEnds, Files, Work, Counts, Told, disk, bounds, history
<1>4. \A r \in Scans : Busy(r)' => Busy(r)
  BY <1>2, JobKinds DEF Busy
<1>5. UNCHANGED <<todo, claims>> /\ \A r \in Scans : On(r)' = On(r)
  BY DEF ScanEnds, On
<1>6. DeferAwaits' /\ Claimed'
  BY <1>1, <1>2, <1>4, <1>5, JobKinds DEF Claiming, DeferAwaits, Claimed
<1>7. Exclusive'
  BY <1>4, <1>5, JobFacts DEF Claiming, Exclusive
<1> QED  BY <1>3, <1>6, <1>7 DEF Claiming

\* A live delivery begins, or gives up before it began.
LEMMA BeginsType ==
  ASSUME TypeOK, Claiming, NEW e \in Entries, Enqueue(e) \/ EnqueueFails(e)
  PROVE  /\ TypeOK' /\ Claiming' /\ UNCHANGED <<todo, claims>>
         /\ at'[<<"live", e>>] \in {"sending", "done"}
         /\ \A i \in Jobs : i # <<"live", e>> => at'[i] = at[i]
<1>0. Files /\ Work /\ Counts /\ Told
  BY TypeParts
<1> USE <1>0
<1> DEFINE j == <<"live", e>>
<1>1. j \in Jobs /\ j \notin Defer /\ j \notin Scans
  BY JobFacts, JobKinds
<1>2. PICK a \in {"sending", "done"} : GoTo(j, a)
  BY DEF Enqueue, EnqueueFails
<1> HIDE DEF j
<1>3. Moved(j, a)
  BY <1>1, <1>2, GoesOn DEF Awaits
<1>4. Files'
  <2>1. CASE Enqueue(e)
    BY <2>1 DEF Enqueue, Files
  <2>2. CASE EnqueueFails(e)
    BY <2>2 DEF EnqueueFails, Files, disk
  <2> QED  BY <2>1, <2>2
<1>5. Work'
  BY <1>3 DEF Enqueue, EnqueueFails, Moved, Work
<1>6. Told'
  <2>1. UNCHANGED <<shown, waived, sends>> /\ (tries' = tries \/ tries' = Less(tries, e))
    BY DEF Enqueue, EnqueueFails, history
  <2>2. Less(tries, e) \in [Entries -> Int]
    BY CountType DEF Told
  <2> QED  BY <2>1, <2>2 DEF Told
<1>7. Counts'
  BY FaultType DEF Enqueue, EnqueueFails
<1>8. \A r \in Scans : (Busy(r)' <=> Busy(r)) /\ On(r)' = On(r)
  BY <1>1, <1>3, JobKinds DEF Busy, Moved
<1>9. DeferAwaits' /\ Claimed'
  BY <1>1, <1>3, <1>8, JobKinds DEF Claiming, DeferAwaits, Claimed, Moved
<1>10. Exclusive'
  BY <1>8, JobFacts DEF Claiming, Exclusive
<1> QED
  BY <1>3, <1>4, <1>5, <1>6, <1>7, <1>9, <1>10, TypePartsNext DEF Claiming, Moved, j

LEMMA OverBudgetType ==
  ASSUME TypeOK, Claiming, OverBudget
  PROVE  /\ TypeOK' /\ Claiming'
         /\ at'[Startup] = "idle" /\ at'[Drain] = at[Drain] /\ todo'[Drain] = todo[Drain]
         /\ todo'[Startup] = <<>>
         /\ \A j \in Live : at'[j] = at[j]
         /\ \A j \in Defer : at'[j] = at[j] \/ j[2] \in ToSet(todo[Startup])
<1>0. Files /\ Work /\ Counts /\ Told
  BY TypeParts
<1> USE <1>0
<1>1. at' = [j \in Jobs |->
              IF j = Startup THEN "idle"
              ELSE IF j \in Defer /\ j[2] \in ToSet(todo[Startup]) THEN "failRead" ELSE at[j]]
  BY DEF OverBudget
<1>2. at' \in [Jobs -> Awaits]
  BY <1>1 DEF Work, Awaits
<1>3. /\ at'[Startup] = "idle" /\ at'[Drain] = at[Drain] /\ \A j \in Live : at'[j] = at[j]
  BY <1>1, JobFacts, JobKinds
<1>4. \A j \in Defer : \/ at'[j] = at[j]
                       \/ at'[j] = "failRead" /\ j[2] \in ToSet(todo[Startup])
  BY <1>1, JobFacts, JobKinds
<1>5. /\ todo' \in [Scans -> Seq(Entries)] /\ todo'[Startup] = <<>> /\ todo'[Drain] = todo[Drain]
  <2>1. <<>> \in Seq(Entries)
    OBVIOUS
  <2> QED  BY <2>1, JobFacts DEF OverBudget, Work
<1>6. TypeOK'
  BY <1>2, <1>5, TypePartsNext
     DEF OverBudget, Files, Work, Counts, Told, disk, bounds, history
<1>7. ~Busy(Startup)' /\ (Busy(Drain)' <=> Busy(Drain)) /\ On(Drain)' = On(Drain)
  BY <1>3, <1>5, JobFacts DEF Busy, On
<1>8. Claimed' /\ Exclusive'
  BY <1>5, <1>7, JobFacts DEF Claiming, Claimed, Exclusive, OverBudget
<1>9. DeferAwaits'
  BY <1>4 DEF Claiming, DeferAwaits
<1> QED  BY <1>3, <1>4, <1>5, <1>6, <1>8, <1>9 DEF Claiming

LEMMA SomeJobs ==
  ASSUME NEW e, NEW A
  PROVE  /\ Cardinality({s \in Scans : at[s] \in A /\ On(s) = e}) \in Nat
         /\ (\E s \in Scans : at[s] \in A /\ On(s) = e) =>
              Cardinality({s \in Scans : at[s] \in A /\ On(s) = e}) >= 1
<1> DEFINE C == {s \in Scans : at[s] \in A /\ On(s) = e}
<1>1. IsFiniteSet(Scans)
  <2>1. IsFiniteSet({Startup})
    BY FS_Singleton
  <2>2. IsFiniteSet({Startup} \cup {Drain})
    BY <2>1, FS_AddElement
  <2>3. Scans = {Startup} \cup {Drain}
    BY DEF Scans
  <2> QED  BY <2>2, <2>3
<1>2. IsFiniteSet(C)
  BY <1>1, FS_Subset
<1>3. Cardinality(C) \in Nat /\ (C # {} => Cardinality(C) # 0)
  BY <1>2, FS_CardinalityType, FS_EmptySet
<1> QED  BY <1>3

LEMMA FewJobs ==
  ASSUME NEW e
  PROVE  IsFiniteSet({j \in Unacknowledged(e) : at[j] # "sending"})
<1> DEFINE C == {<<"live", e>>, Startup, Drain}
<1>1. IsFiniteSet(C)
  <2>1. IsFiniteSet({Startup})
    BY FS_Singleton
  <2>2. IsFiniteSet({Startup} \cup {Drain})
    BY <2>1, FS_AddElement
  <2>3. IsFiniteSet(({Startup} \cup {Drain}) \cup {<<"live", e>>})
    BY <2>2, FS_AddElement
  <2>4. C = ({Startup} \cup {Drain}) \cup {<<"live", e>>}
    OBVIOUS
  <2> QED  BY <2>3, <2>4
<1>2. \A j \in Unacknowledged(e) : j \in C
  <2> SUFFICES ASSUME NEW j \in Unacknowledged(e)  PROVE j \in C
    OBVIOUS
  <2>1. j \in Jobs /\ j \notin Defer /\ On(j) = e
    BY DEF Unacknowledged
  <2>2. CASE j \in Live
    BY <2>1, <2>2, JobFacts DEF On
  <2>3. CASE j \in Scans
    BY <2>3, JobFacts
  <2> QED  BY <2>1, <2>2, <2>3, JobKinds
<1> HIDE DEF C
<1> QED  BY <1>1, <1>2, FS_Subset

LEMMA CrashType ==
  ASSUME TypeOK, Claiming, Crash
  PROVE  /\ TypeOK' /\ Claiming'
         /\ \A s \in Scans : at'[s] = "idle" /\ todo'[s] = <<>>
         /\ \A j \in Defer : at'[j] = "idle"
         /\ \A j \in Live : at'[j] = IF at[j] = "idle" THEN "idle" ELSE "done"
<1>0. Files /\ Work /\ Counts /\ Told
  BY TypeParts
<1> USE <1>0
<1>1. at' = [j \in Jobs |-> IF j \in Live /\ at[j] # "idle" THEN "done" ELSE "idle"]
  BY DEF Crash
<1>2. /\ at' \in [Jobs -> Awaits]
      /\ \A s \in Scans : at'[s] = "idle"
      /\ \A j \in Defer : at'[j] = "idle"
      /\ \A j \in Live : at'[j] = IF at[j] = "idle" THEN "idle" ELSE "done"
  BY <1>1, JobFacts, JobKinds DEF Awaits
<1>3. todo' \in [Scans -> Seq(Entries)] /\ \A s \in Scans : todo'[s] = <<>>
  <2>1. <<>> \in Seq(Entries)
    OBVIOUS
  <2> QED  BY <2>1 DEF Crash
<1>4. Work'
  BY <1>2, <1>3 DEF Crash, Work
<1>5. Files' /\ Counts'
  BY FaultType DEF Crash, disk, Files
<1>6. \A e \in Entries : /\ sends'[e] \in Int /\ tries'[e] \in Int
  <2> SUFFICES ASSUME NEW e \in Entries  PROVE sends'[e] \in Int /\ tries'[e] \in Int
    OBVIOUS
  <2>1. Cardinality({j \in Unacknowledged(e) : at[j] # "sending"}) \in Nat
    BY FewJobs, FS_CardinalityType
  <2>2. Cardinality({s \in Scans : Attempting(s) /\ On(s) = e}) \in Nat
    BY SomeJobs DEF Attempting
  <2> QED  BY <2>1, <2>2 DEF Crash, Told
<1>7. Told'
  BY <1>6 DEF Crash, Told
<1>8. Claiming'
  BY <1>2, JobFacts DEF Claiming, DeferAwaits, Claimed, Exclusive, Busy
<1> QED  BY <1>2, <1>3, <1>4, <1>5, <1>7, <1>8, TypePartsNext

LEMMA TypingInit == Init => TypeOK /\ Claiming
<1> SUFFICES ASSUME Init  PROVE Files /\ Work /\ Counts /\ Told /\ Claiming
  BY TypeParts
<1>1. Files /\ Counts
  BY MaxScansType, MaxFaultsType DEF Init, Files, Counts
<1>2. Work
  BY DEF Init, Work, Awaits
<1>3. 1 + MaxRetries \in Int
  BY MaxRetriesType
<1>4. Told
  BY <1>3 DEF Init, Told
<1>5. Claiming
  BY JobFacts, JobKinds DEF Init, Claiming, DeferAwaits, Claimed, Exclusive, Busy
<1> QED  BY <1>1, <1>2, <1>4, <1>5

LEMMA TypingStep == TypeOK /\ Claiming /\ [Next]_vars => TypeOK' /\ Claiming'
<1> SUFFICES ASSUME TypeOK, Claiming, [Next]_vars  PROVE TypeOK' /\ Claiming'
  OBVIOUS
<1>1. CASE UNCHANGED vars
  BY <1>1 DEF vars, disk, memory, bounds, history, TypeOK, Claiming, DeferAwaits, Claimed,
              Exclusive, Busy, On
<1>2. ASSUME NEW j \in Jobs, Step(j)  PROVE TypeOK' /\ Claiming'
  BY <1>2, StepType, StepWork, TypeParts
<1>3. ASSUME NEW s \in Scans, Load(s) \/ Claim(s) \/ ScanEnds(s) \/ Reread(s)
      PROVE  TypeOK' /\ Claiming'
  BY <1>3, LoadType, ClaimType, ScanEndsType, RereadType
<1>4. ASSUME NEW e \in Entries, Enqueue(e) \/ EnqueueFails(e)  PROVE TypeOK' /\ Claiming'
  BY <1>4, BeginsType
<1>5. CASE OverBudget \/ Crash
  BY <1>5, OverBudgetType, CrashType
<1> QED  BY <1>1, <1>2, <1>3, <1>4, <1>5 DEF Next

\* The state keeps its shape: every job at work has an entry to work on, which
\* is why a scan may take the first of its list without looking.
THEOREM TypeCorrect == Spec => []TypeOK
<1>1. TypeOK /\ Claiming /\ [Next]_vars => (TypeOK /\ Claiming)'
  BY TypingStep
<1> QED  BY TypingInit, <1>1, PTL DEF Spec

-----------------------------------------------------------------------------
(* Who works on an entry *)

LiveIn(e, A) == at[<<"live", e>>] \in A
ScanIn(e, A) == \E s \in Scans : at[s] \in A /\ On(s) = e

LEMMA HereIn ==
  ASSUME Work, Claiming, NEW j \in Jobs, Busy(j), NEW A \in SUBSET AtWork
  PROVE  /\ j \in Live => (LiveIn(On(j), A) <=> at[j] \in A)
         /\ j \in Scans => (ScanIn(On(j), A) <=> at[j] \in A)
<1>1. CASE j \in Live
  <2>1. j = <<"live", On(j)>> /\ j \notin Scans
    BY <1>1, JobFacts DEF On
  <2> QED  BY <2>1 DEF LiveIn
<1>2. CASE j \in Scans
  <2>1. \A r \in Scans : at[r] \in A => Busy(r)
    BY DEF Busy, AtWork
  <2>2. \A r \in Scans : Busy(r) /\ r # j => On(r) # On(j)
    BY <1>2, JobFacts DEF Claiming, Exclusive
  <2> QED  BY <1>2, <2>1, <2>2, JobFacts DEF ScanIn
<1> QED  BY <1>1, <1>2

\* The one job that moves, seen from an entry.
LEMMA MovedIn ==
  ASSUME Work, Claiming, NEW j \in Jobs, Busy(j), NEW a \in AtWork, Moved(j, a),
         NEW e \in Entries, NEW A \in SUBSET AtWork
  PROVE  /\ LiveIn(e, A)' <=> IF j = <<"live", e>> THEN a \in A ELSE LiveIn(e, A)
         /\ ScanIn(e, A)' <=> IF j \in Scans /\ On(j) = e THEN a \in A ELSE ScanIn(e, A)
<1>1. <<"live", e>> \in Jobs
  BY JobFacts, JobKinds
<1>2. LiveIn(e, A)' <=> IF j = <<"live", e>> THEN a \in A ELSE LiveIn(e, A)
  BY <1>1 DEF Moved, LiveIn
<1>3. \A r \in Scans : r \in Jobs /\ On(r)' = On(r) /\ at'[r] = IF r = j THEN a ELSE at[r]
  BY JobKinds DEF Moved
<1>4. ScanIn(e, A)' <=> \E r \in Scans : (IF r = j THEN a ELSE at[r]) \in A /\ On(r) = e
  BY <1>3 DEF ScanIn
<1>5. CASE j \in Scans /\ On(j) = e
  <2>1. \A r \in Scans : at[r] \in A /\ r # j => On(r) # e
    BY <1>5, JobFacts DEF Claiming, Exclusive, Busy, AtWork
  <2> QED  BY <1>2, <1>4, <1>5, <2>1
<1>6. CASE ~(j \in Scans /\ On(j) = e)
  BY <1>2, <1>4, <1>6 DEF ScanIn
<1> QED  BY <1>5, <1>6

LEMMA ReleasedIn ==
  ASSUME Work, Claiming, NEW j \in Jobs, Busy(j), Released(j),
         NEW e \in Entries, NEW A \in SUBSET AtWork
  PROVE  /\ LiveIn(e, A)' <=> j # <<"live", e>> /\ LiveIn(e, A)
         /\ ScanIn(e, A)' <=> ~(j \in Scans /\ On(j) = e) /\ ScanIn(e, A)
<1>1. <<"live", e>> \in Jobs
  BY JobFacts, JobKinds
<1>2. at'[j] \notin A
  BY DEF Released, AtWork
<1>3. LiveIn(e, A)' <=> j # <<"live", e>> /\ LiveIn(e, A)
  BY <1>1, <1>2 DEF Released, LiveIn
<1>4. \A r \in Scans : r \in Jobs /\ (r # j => On(r)' = On(r) /\ at'[r] = at[r])
  BY JobKinds DEF Released
<1>5. ScanIn(e, A)' <=> \E r \in Scans : r # j /\ at[r] \in A /\ On(r) = e
  BY <1>2, <1>4 DEF ScanIn
<1>6. CASE j \in Scans /\ On(j) = e
  <2>1. \A r \in Scans : at[r] \in A /\ r # j => On(r) # e
    BY <1>6, JobFacts DEF Claiming, Exclusive, Busy, AtWork
  <2> QED  BY <1>3, <1>5, <1>6, <2>1
<1>7. CASE ~(j \in Scans /\ On(j) = e)
  BY <1>3, <1>5, <1>7 DEF ScanIn
<1> QED  BY <1>6, <1>7

Sending == {"sending"}
Unacked == {"sending", "answered", "acking"}
Trying  == {"sending", "answered", "acking", "failRead", "failWrite", "moving"}

LEMMA SubsetsAtWork == {Sending, Unacked, Trying} \subseteq SUBSET AtWork
BY DEF Sending, Unacked, Trying, AtWork, Awaits

\* What a step of j on entry e looks like, when it leads to a ("done" when j is
\* through with e).
SeenIn(e, j, a, A) ==
  /\ j \in Live => /\ LiveIn(e, A) <=> at[j] \in A
                   /\ LiveIn(e, A)' <=> a \in A
                   /\ ScanIn(e, A)' <=> ScanIn(e, A)
  /\ j \in Scans => /\ ScanIn(e, A) <=> at[j] \in A
                    /\ ScanIn(e, A)' <=> a \in A
                    /\ LiveIn(e, A)' <=> LiveIn(e, A)
  /\ j \in Defer => /\ LiveIn(e, A)' <=> LiveIn(e, A)
                    /\ ScanIn(e, A)' <=> ScanIn(e, A)
Seen(e, j, a) == SeenIn(e, j, a, Sending) /\ SeenIn(e, j, a, Unacked) /\ SeenIn(e, j, a, Trying)

LEMMA StepSeen ==
  ASSUME Work, Claiming, NEW j \in Jobs, Busy(j), NEW e \in Entries, e = On(j), NEW a,
         \/ a \in AtWork /\ Moved(j, a)
         \/ a = "done" /\ Released(j)
  PROVE  Seen(e, j, a)
<1>1. ASSUME NEW A \in SUBSET AtWork  PROVE SeenIn(e, j, a, A)
  <2>1. /\ j \in Live => (LiveIn(e, A) <=> at[j] \in A)
        /\ j \in Scans => (ScanIn(e, A) <=> at[j] \in A)
    BY HereIn
  <2>2. /\ j \in Live => j \notin Scans /\ j = <<"live", e>> /\ j \notin Defer
        /\ j \in Defer => j \notin Scans /\ j # <<"live", e>>
        /\ j \in Scans => j # <<"live", e>>
    BY JobFacts DEF On
  <2>3. CASE a \in AtWork /\ Moved(j, a)
    <3>1. /\ LiveIn(e, A)' <=> IF j = <<"live", e>> THEN a \in A ELSE LiveIn(e, A)
          /\ ScanIn(e, A)' <=> IF j \in Scans /\ On(j) = e THEN a \in A ELSE ScanIn(e, A)
      BY <2>3, MovedIn
    <3> QED  BY <2>1, <2>2, <3>1 DEF SeenIn
  <2>4. CASE a = "done" /\ Released(j)
    <3>1. /\ LiveIn(e, A)' <=> j # <<"live", e>> /\ LiveIn(e, A)
          /\ ScanIn(e, A)' <=> ~(j \in Scans /\ On(j) = e) /\ ScanIn(e, A)
      BY <2>4, ReleasedIn
    <3>2. a \notin A
      BY <2>4 DEF AtWork
    <3> QED  BY <2>1, <2>2, <3>1, <3>2 DEF SeenIn
  <2> QED  BY <2>3, <2>4
<1> QED  BY <1>1, SubsetsAtWork DEF Seen

-----------------------------------------------------------------------------
(* What may still be shown, and what may still be tried *)

\* A message may still be shown once for each send under way, and once when it
\* is queued and nobody is about to acknowledge it.
Spare(e) ==
  /\ sends[e] >= 0
  /\ LiveIn(e, Sending) \/ ScanIn(e, Sending) => sends[e] >= 1
  /\ LiveIn(e, Sending) /\ ScanIn(e, Sending) => sends[e] >= 2
  /\ e \in queued /\ ~LiveIn(e, Unacked) /\ ~ScanIn(e, Unacked) => sends[e] >= 1

\* The retries that are left and those that were counted are all there are, but
\* for the one a scan is at.
Left(e) ==
  /\ tries[e] >= 0
  /\ tries[e] + retryCount[e] >= MaxRetries - 1
  /\ e \in queued /\ ~ScanIn(e, Trying) => tries[e] + retryCount[e] >= MaxRetries

\* Before its live delivery has begun nobody knows an entry.
Unknown(e) ==
  /\ e \notin queued /\ at[<<"defer", e>>] = "idle"
  /\ \A s \in Scans : e \notin ToSet(todo[s])
Fresh(e) ==
  at[<<"live", e>>] = "idle" => Unknown(e) /\ sends[e] >= 1 /\ tries[e] >= 1 + MaxRetries

Numbers(e) == sends[e] \in Int /\ tries[e] \in Int /\ retryCount[e] \in Nat

Accounts == \A e \in Entries : Spare(e) /\ Left(e) /\ Fresh(e)

\* A step changes nothing that the accounts of e depend on.
Apart(e) ==
  /\ sends'[e] = sends[e] /\ tries'[e] = tries[e] /\ retryCount'[e] = retryCount[e]
  /\ e \in queued' <=> e \in queued
  /\ LiveIn(e, Sending)' <=> LiveIn(e, Sending)
  /\ ScanIn(e, Sending)' <=> ScanIn(e, Sending)
  /\ LiveIn(e, Unacked)' <=> LiveIn(e, Unacked)
  /\ ScanIn(e, Unacked)' <=> ScanIn(e, Unacked)
  /\ ScanIn(e, Trying)' <=> ScanIn(e, Trying)

LEMMA ApartKeeps ==
  ASSUME NEW e \in Entries, Spare(e), Left(e), Apart(e)
  PROVE  Spare(e)' /\ Left(e)'
BY DEF Apart, Spare, Left

LEMMA ApartFresh ==
  ASSUME NEW e \in Entries, Fresh(e), Apart(e),
         at'[<<"live", e>>] = "idle" => at[<<"live", e>>] = "idle",
         at[<<"defer", e>>] = "idle" => at'[<<"defer", e>>] = "idle",
         \A s \in Scans : e \notin ToSet(todo[s]) => e \notin ToSet(todo'[s])
  PROVE  Fresh(e)'
BY DEF Apart, Fresh, Unknown

\* Whoever is at work on an entry found it after its live delivery had begun.
LEMMA Known ==
  ASSUME Work, Claiming, Accounts, NEW j \in Jobs, Busy(j)
  PROVE  at[<<"live", On(j)>>] # "idle"
<1>1. On(j) \in Entries /\ Fresh(On(j))
  BY OnEntry DEF Claiming, Accounts
<1>2. CASE j \in Scans
  <2>1. todo[j] \in Seq(Entries) /\ todo[j] # <<>> /\ On(j) = Head(todo[j])
    BY <1>2 DEF Work, Claiming, Claimed, On
  <2>2. On(j) \in ToSet(todo[j])
    <3>1. 1 \in DOMAIN todo[j] /\ Head(todo[j]) = todo[j][1]
      BY <2>1
    <3> QED  BY <2>1, <3>1 DEF ToSet
  <2> QED  BY <1>1, <1>2, <2>2 DEF Fresh, Unknown
<1>3. CASE j \in Live
  <2>1. j = <<"live", On(j)>>
    BY <1>3, JobFacts DEF On
  <2> QED  BY <2>1 DEF Busy
<1>4. CASE j \in Defer
  <2>1. j = <<"defer", On(j)>>
    BY <1>4, JobFacts DEF On
  <2> QED  BY <1>1, <2>1 DEF Busy, Fresh, Unknown
<1> QED  BY <1>2, <1>3, <1>4, JobKinds

\* No step of a job makes an entry unknown, or known to somebody new.
LEMMA StepFresh ==
  ASSUME TypeOK, Claiming, Accounts, NEW j \in Jobs, Step(j), NEW e \in Entries,
         e # On(j) => Apart(e)
  PROVE  Fresh(e)'
<1>0. Work /\ Busy(j)
  BY TypeParts, StepShape
<1>1. <<"live", e>> \in Jobs /\ <<"defer", e>> \in Jobs
  BY JobFacts, JobKinds
<1>2. \A i \in Jobs : i # j => at'[i] = at[i]
  BY <1>0, StepShape DEF Moved, Released
<1>3. j \in Live => at'[j] # "idle"
  BY <1>0, StepShape DEF Moved, Released, AtWork
<1>4. CASE e = On(j)
  <2>1. at[<<"live", e>>] # "idle"
    BY <1>0, <1>4, Known
  <2>2. at'[<<"live", e>>] # "idle"
    BY <1>1, <1>2, <1>3, <2>1, JobFacts
  <2> QED  BY <2>2 DEF Fresh
<1>5. CASE e # On(j)
  <2>1. j # <<"live", e>> /\ j # <<"defer", e>>
    BY <1>5, JobFacts DEF On
  <2>2. at'[<<"live", e>>] = at[<<"live", e>>] /\ at'[<<"defer", e>>] = at[<<"defer", e>>]
    BY <1>1, <1>2, <2>1
  <2>3. \A s \in Scans : ToSet(todo'[s]) \subseteq ToSet(todo[s])
    BY <1>0, StepShape DEF Moved, Released
  <2>4. Fresh(e)
    BY DEF Accounts
  <2> QED  BY <1>5, <2>2, <2>3, <2>4, ApartFresh
<1> QED  BY <1>4, <1>5

\* The jobs on entry e are where they were.
SameJobs(e) ==
  /\ LiveIn(e, Sending)' <=> LiveIn(e, Sending)
  /\ ScanIn(e, Sending)' <=> ScanIn(e, Sending)
  /\ LiveIn(e, Unacked)' <=> LiveIn(e, Unacked)
  /\ ScanIn(e, Unacked)' <=> ScanIn(e, Unacked)
  /\ ScanIn(e, Trying)' <=> ScanIn(e, Trying)

LEMMA OtherJobs ==
  ASSUME Work, Claiming, NEW j \in Jobs, Busy(j), NEW e \in Entries, e # On(j),
         Released(j) \/ \E a \in AtWork : Moved(j, a)
  PROVE  SameJobs(e)
<1>1. ASSUME NEW A \in SUBSET AtWork
      PROVE  (LiveIn(e, A)' <=> LiveIn(e, A)) /\ (ScanIn(e, A)' <=> ScanIn(e, A))
  <2>1. j # <<"live", e>>
    BY JobFacts DEF On
  <2>2. CASE Released(j)
    BY <2>1, <2>2, ReleasedIn
  <2>3. ASSUME NEW a \in AtWork, Moved(j, a)
        PROVE  (LiveIn(e, A)' <=> LiveIn(e, A)) /\ (ScanIn(e, A)' <=> ScanIn(e, A))
    BY <2>1, <2>3, MovedIn
  <2> QED  BY <2>2, <2>3
<1> QED  BY <1>1, SubsetsAtWork DEF SameJobs

\* A step of a job is of no concern to the other entries.
LEMMA StepApart ==
  ASSUME TypeOK, Claiming, NEW j \in Jobs, Step(j), NEW e \in Entries, e # On(j)
  PROVE  Apart(e)
<1>0. Files /\ Work /\ Told /\ Busy(j) /\ On(j) \in Entries
  BY TypeParts, StepShape, StepWork
<1>1. SameJobs(e)
  BY <1>0, StepShape, OtherJobs
<1>2. \A f \in [Entries -> Int] : More(f, On(j))[e] = f[e] /\ Less(f, On(j))[e] = f[e]
  BY <1>0 DEF More, Less
<1>3. /\ sends'[e] = sends[e] /\ tries'[e] = tries[e] /\ retryCount'[e] = retryCount[e]
      /\ e \in queued' <=> e \in queued
  <2> USE <1>0, <1>2 DEF Told, Files
  <2>1. CASE Transmit(j) \/ Answered(j) \/ AnswerLost(j) \/ SendFails(j)
    BY <2>1 DEF Transmit, Answered, AnswerLost, SendFails, disk, history
  <2>2. CASE Swallowed(j) \/ Aborted(j)
    BY <2>2 DEF Swallowed, Aborted, disk
  <2>3. CASE AckRename(j) \/ AckUnlink(j)
    BY <2>3 DEF AckRename, AckUnlink, history
  <2>4. CASE AckThrows(j)
    BY <2>4 DEF AckThrows, disk
  <2>5. CASE FailRead(j)
    BY <2>5 DEF FailRead, disk, history
  <2>6. CASE FailWrite(j)
    <3>1. /\ retryCount' = [retryCount EXCEPT ![On(j)] = read[j] + 1]
          /\ queued' = queued \cup {On(j)}
          /\ sends' = sends \/ sends' = More(sends, On(j))
          /\ \/ tries' = tries
             \/ tries' = [tries EXCEPT ![On(j)] = @ + (retryCount[On(j)] - read[j])]
      BY <2>6 DEF FailWrite
    <3> QED  BY <3>1
  <2>7. CASE FailThrows(j)
    BY <2>7 DEF FailThrows, disk
  <2>8. CASE MoveToFailed(j)
    BY <2>8 DEF MoveToFailed, history
  <2>9. CASE MoveThrows(j)
    BY <2>9 DEF MoveThrows, disk
  <2> QED  BY <2>1, <2>2, <2>3, <2>4, <2>5, <2>6, <2>7, <2>8, <2>9 DEF Step
<1> QED  BY <1>1, <1>3 DEF Apart, SameJobs

\* The ways in which a step keeps the accounts of its own entry.  It begins no
\* send:
NoNewSend(e) ==
  /\ LiveIn(e, Sending)' => LiveIn(e, Sending)
  /\ ScanIn(e, Sending)' => ScanIn(e, Sending)
\* and it gives no claim to an acknowledgement up.
NoneGivenUp(e) ==
  /\ LiveIn(e, Unacked) => LiveIn(e, Unacked)'
  /\ ScanIn(e, Unacked) => ScanIn(e, Unacked)'

LEMMA SpareKept ==
  ASSUME NEW e \in Entries, Numbers(e), Spare(e), NoNewSend(e),
         \/ sends'[e] = sends[e] + 1
         \/ sends'[e] = sends[e] /\ e \notin queued'
         \/ sends'[e] = sends[e] /\ (e \in queued' => e \in queued) /\ NoneGivenUp(e)
  PROVE  Spare(e)'
<1> USE DEF Numbers, Spare, NoNewSend
<1>1. CASE sends'[e] = sends[e] + 1
  BY <1>1
<1>2. CASE sends'[e] = sends[e] /\ e \notin queued'
  BY <1>2
<1>3. CASE sends'[e] = sends[e] /\ (e \in queued' => e \in queued) /\ NoneGivenUp(e)
  BY <1>3 DEF NoneGivenUp
<1> QED  BY <1>1, <1>2, <1>3

LEMMA LeftKept ==
  ASSUME NEW e \in Entries, Numbers(e), Left(e),
         \/ /\ tries'[e] = tries[e] /\ retryCount'[e] = retryCount[e]
            /\ \/ e \notin queued'
               \/ (e \in queued' => e \in queued) /\ (ScanIn(e, Trying) => ScanIn(e, Trying)')
         \/ /\ tries'[e] \in Int /\ retryCount'[e] \in Int
            /\ tries'[e] >= tries[e]
            /\ tries'[e] + retryCount'[e] >= tries[e] + retryCount[e] + 1
  PROVE  Left(e)'
<1> USE MaxRetriesType DEF Numbers, Left
<1>1. CASE tries'[e] = tries[e] /\ retryCount'[e] = retryCount[e] /\ e \notin queued'
  BY <1>1
<1>2. CASE /\ tries'[e] = tries[e] /\ retryCount'[e] = retryCount[e]
           /\ (e \in queued' => e \in queued) /\ (ScanIn(e, Trying) => ScanIn(e, Trying)')
  BY <1>2
<1>3. CASE /\ tries'[e] \in Int /\ retryCount'[e] \in Int
           /\ tries'[e] >= tries[e]
           /\ tries'[e] + retryCount'[e] >= tries[e] + retryCount[e] + 1
  BY <1>3
<1> QED  BY <1>1, <1>2, <1>3

\* The send.
LEMMA SendSteps ==
  ASSUME TypeOK, Claiming, NEW j \in Jobs, NEW e \in Entries, e = On(j), Spare(e), Left(e),
         Transmit(j) \/ Answered(j) \/ AnswerLost(j) \/ SendFails(j) \/ Swallowed(j) \/ Aborted(j)
  PROVE  Spare(e)' /\ Left(e)'
<1>0. Files /\ Work /\ Told /\ Numbers(e)
  BY TypeParts DEF Files, Told, Numbers
<1>1. Busy(j) /\ at[j] \in {"sending", "answered"}
  BY DEF Busy, Transmit, Answered, AnswerLost, SendFails, Swallowed, Aborted
<1>2. j \in Live \/ j \in Scans
  BY <1>1, JobKinds DEF Claiming, DeferAwaits
<1>3. PICK a \in {"answered", "acking", "failRead", "moving"} :
        GoTo(j, a) /\ (a = "moving" => j \in Scans)
  BY DEF Transmit, Answered, AnswerLost, SendFails, Swallowed, Aborted, AfterError
<1>4. a \in AtWork /\ Moved(j, a)
  BY <1>0, <1>3, GoesOn DEF AtWork, Awaits
<1>5. Seen(e, j, a)
  BY <1>0, <1>1, <1>4, StepSeen
<1>6. NoNewSend(e)
  BY <1>2, <1>3, <1>5 DEF Seen, SeenIn, Sending, NoNewSend
<1>7. a \in Unacked => NoneGivenUp(e)
  BY <1>2, <1>5 DEF Seen, SeenIn, NoneGivenUp
<1>8. ScanIn(e, Trying) => ScanIn(e, Trying)'
  BY <1>2, <1>3, <1>5 DEF Seen, SeenIn, Trying
<1>9. queued' = queued /\ retryCount' = retryCount /\ tries' = tries
  BY DEF Transmit, Answered, AnswerLost, SendFails, Swallowed, Aborted, disk, history
<1>10. Left(e)'
  BY <1>0, <1>8, <1>9, LeftKept
<1>11. Spare(e)'
  <2>1. CASE Transmit(j)
    <3>1. sends'[e] = sends[e] - 1
      BY <1>0, <2>1 DEF Transmit, Less, Told
    <3>2. at[j] = "sending" /\ a = "answered"
      BY <1>0, <1>3, <1>4, <2>1 DEF Transmit, GoTo, Work, Moved
    <3> QED
      BY <1>0, <1>2, <1>5, <1>9, <3>1, <3>2
         DEF Seen, SeenIn, Spare, Numbers, Sending, Unacked
  <2>2. CASE AnswerLost(j)
    <3>1. sends'[e] = sends[e] + 1
      BY <1>0, <2>2 DEF AnswerLost, More, Told
    <3> QED  BY <1>0, <1>6, <3>1, SpareKept
  <2>3. CASE SendFails(j)
    <3>1. sends' = sends /\ at[j] = "sending"
      BY <2>3 DEF SendFails, history
    <3>2. a # "answered" /\ a # "acking"
      BY <1>0, <1>4, <2>3 DEF SendFails, AfterError, GoTo, Work, Moved
    <3> QED
      BY <1>0, <1>2, <1>3, <1>5, <1>9, <3>1, <3>2
         DEF Seen, SeenIn, Spare, Numbers, Sending, Unacked
  <2>4. CASE Answered(j) \/ Swallowed(j) \/ Aborted(j)
    <3>1. sends' = sends
      BY <2>4 DEF Answered, Swallowed, Aborted, history
    <3>2. at'[j] = "acking" /\ at'[j] = a
      BY <1>0, <1>4, <2>4 DEF Answered, Swallowed, Aborted, GoTo, Work, Moved
    <3> QED  BY <1>0, <1>6, <1>7, <1>9, <3>1, <3>2, SpareKept DEF Unacked
  <2> QED  BY <2>1, <2>2, <2>3, <2>4
<1> QED  BY <1>10, <1>11

\* The acknowledgement.
LEMMA AckSteps ==
  ASSUME TypeOK, Claiming, NEW j \in Jobs, NEW e \in Entries, e = On(j), Spare(e), Left(e),
         AckRename(j) \/ AckUnlink(j) \/ AckThrows(j)
  PROVE  Spare(e)' /\ Left(e)'
<1>0. Files /\ Work /\ Told /\ Numbers(e)
  BY TypeParts DEF Files, Told, Numbers
<1>1. Busy(j) /\ at[j] \in {"acking", "unlinking"}
  BY DEF Busy, AckRename, AckUnlink, AckThrows
<1>2. j \in Live \/ j \in Scans
  BY <1>1, JobKinds DEF Claiming, DeferAwaits
<1>3. Finish(j) => Released(j)
  BY <1>0, <1>1, GetsThrough DEF Claiming, Claimed
<1>4. PICK a \in {"unlinking", "failRead", "done"} :
        /\ \/ a \in AtWork /\ Moved(j, a)
           \/ a = "done" /\ Released(j)
        /\ AckThrows(j) => j \in Live \/ a = "failRead"
  <2>1. \A a \in {"unlinking", "failRead"} : a \in AtWork /\ (GoTo(j, a) => Moved(j, a))
    BY <1>0, GoesOn DEF AtWork, Awaits
  <2>2. CASE AckThrows(j)
    BY <1>3, <2>1, <2>2 DEF AckThrows
  <2>3. CASE ~AckThrows(j)
    BY <1>3, <2>1, <2>3 DEF AckRename, AckUnlink
  <2> QED  BY <2>2, <2>3
<1>5. Seen(e, j, a)
  BY <1>0, <1>1, <1>4, StepSeen
<1>6. NoNewSend(e)
  BY <1>2, <1>4, <1>5 DEF Seen, SeenIn, Sending, NoNewSend
<1>7. retryCount' = retryCount /\ tries' = tries
  BY DEF AckRename, AckUnlink, AckThrows, disk, history
<1>8. CASE AckRename(j)
  <2>1. sends' = sends /\ e \notin queued'
    BY <1>8 DEF AckRename, history
  <2> QED  BY <1>0, <1>6, <1>7, <2>1, SpareKept, LeftKept
<1>9. CASE AckUnlink(j)
  <2>1. sends' = sends /\ queued' = queued /\ at[j] = "unlinking"
    BY <1>9 DEF AckUnlink, history
  <2>2. NoneGivenUp(e) /\ (ScanIn(e, Trying) => ScanIn(e, Trying)')
    BY <1>2, <1>5, <2>1 DEF Seen, SeenIn, NoneGivenUp, Unacked, Trying
  <2> QED  BY <1>0, <1>6, <1>7, <2>1, <2>2, SpareKept, LeftKept
<1>10. CASE AckThrows(j)
  <2>1. sends'[e] = sends[e] + 1 /\ queued' = queued
    BY <1>0, <1>10 DEF AckThrows, disk, More, Told
  <2>2. ScanIn(e, Trying) => ScanIn(e, Trying)'
    BY <1>2, <1>4, <1>5, <1>10 DEF Seen, SeenIn, Trying
  <2> QED  BY <1>0, <1>6, <1>7, <2>1, <2>2, SpareKept, LeftKept
<1> QED  BY <1>8, <1>9, <1>10

\* failDelivery.  What a stale write takes from the count it gives back to tries.
LEMMA FailSteps ==
  ASSUME TypeOK, Claiming, NEW j \in Jobs, NEW e \in Entries, e = On(j), Spare(e), Left(e),
         FailRead(j) \/ FailWrite(j) \/ FailThrows(j)
  PROVE  Spare(e)' /\ Left(e)'
<1>0. Files /\ Work /\ Told /\ Numbers(e)
  BY TypeParts DEF Files, Told, Numbers
<1>1. Busy(j) /\ at[j] \in {"failRead", "failWrite"}
  BY DEF Busy, FailRead, FailWrite, FailThrows
<1>2. j \in Live \/ j \in Scans \/ j \in Defer
  BY JobKinds
<1>3. Finish(j) => Released(j)
  BY <1>0, <1>1, GetsThrough DEF Claiming, Claimed
<1>4. PICK a \in {"failWrite", "done"} :
        /\ \/ a \in AtWork /\ Moved(j, a)
           \/ a = "done" /\ Released(j)
        /\ FailRead(j) => a = "failWrite" \/ On(j) \notin queued
  <2>1. "failWrite" \in AtWork /\ (GoTo(j, "failWrite") => Moved(j, "failWrite"))
    BY <1>0, GoesOn DEF AtWork, Awaits
  <2>2. CASE FailRead(j)
    BY <1>3, <2>1, <2>2 DEF FailRead
  <2>3. CASE ~FailRead(j)
    BY <1>3, <2>3 DEF FailWrite, FailThrows
  <2> QED  BY <2>2, <2>3
<1>5. Seen(e, j, a)
  BY <1>0, <1>1, <1>4, StepSeen
<1>6. NoNewSend(e) /\ NoneGivenUp(e)
  BY <1>1, <1>2, <1>4, <1>5 DEF Seen, SeenIn, Sending, Unacked, NoNewSend, NoneGivenUp
<1>7. CASE FailRead(j)
  <2>1. UNCHANGED <<queued, retryCount, sends, tries>>
    BY <1>7 DEF FailRead, disk, history
  <2>2. e \notin queued' \/ (ScanIn(e, Trying) => ScanIn(e, Trying)')
    BY <1>2, <1>4, <1>5, <1>7, <2>1 DEF Seen, SeenIn, Trying
  <2> QED  BY <1>0, <1>6, <2>1, <2>2, SpareKept, LeftKept
<1>8. CASE FailWrite(j)
  <2>1. /\ retryCount' = [retryCount EXCEPT ![e] = read[j] + 1]
        /\ sends' = IF e \in queued THEN sends ELSE More(sends, e)
        /\ tries' = IF retryCount[e] <= read[j] THEN tries
                    ELSE [tries EXCEPT ![e] = @ + (retryCount[e] - read[j])]
    BY <1>8 DEF FailWrite
  <2>2. Spare(e)'
    <3>1. CASE e \in queued
      BY <1>0, <1>6, <2>1, <3>1, SpareKept
    <3>2. CASE e \notin queued
      <4>1. sends'[e] = sends[e] + 1
        BY <1>0, <2>1, <3>2 DEF More, Told
      <4> QED  BY <1>0, <1>6, <4>1, SpareKept
    <3> QED  BY <3>1, <3>2
  <2>3. read[j] \in Nat /\ retryCount'[e] = read[j] + 1
    BY <1>0, <2>1 DEF Work, Files
  <2>4. tries'[e] = IF retryCount[e] <= read[j] THEN tries[e]
                    ELSE tries[e] + (retryCount[e] - read[j])
    BY <1>0, <2>1 DEF Told
  <2>5. /\ tries'[e] \in Int /\ retryCount'[e] \in Int
        /\ tries'[e] >= tries[e]
        /\ tries'[e] + retryCount'[e] >= tries[e] + retryCount[e] + 1
    BY <1>0, <2>3, <2>4 DEF Numbers
  <2> QED  BY <1>0, <2>2, <2>5, LeftKept
<1>9. CASE FailThrows(j)
  <2>1. /\ UNCHANGED <<queued, retryCount, sends>>
        /\ tries' = IF j \in Scans THEN More(tries, e) ELSE tries
    BY <1>9 DEF FailThrows, disk
  <2>2. Spare(e)'
    BY <1>0, <1>6, <2>1, SpareKept
  <2>3. CASE j \in Scans
    <3>1. tries'[e] = tries[e] + 1
      BY <1>0, <2>1, <2>3 DEF More, Told
    <3> QED  BY <1>0, <2>1, <2>2, <3>1, LeftKept DEF Numbers
  <2>4. CASE j \notin Scans
    BY <1>0, <1>2, <1>5, <2>1, <2>2, <2>4, LeftKept DEF Seen, SeenIn
  <2> QED  BY <2>3, <2>4
<1> QED  BY <1>7, <1>8, <1>9

\* moveToFailed.
LEMMA MoveSteps ==
  ASSUME TypeOK, Claiming, NEW j \in Jobs, NEW e \in Entries, e = On(j), Spare(e), Left(e),
         MoveToFailed(j) \/ MoveThrows(j)
  PROVE  Spare(e)' /\ Left(e)'
<1>0. Files /\ Work /\ Told /\ Numbers(e)
  BY TypeParts DEF Files, Told, Numbers
<1>1. Busy(j) /\ at[j] \in {"pruning", "moving"}
  BY DEF Busy, MoveToFailed, MoveThrows
<1>2. j \in Live \/ j \in Scans \/ j \in Defer
  BY JobKinds
<1>3. Released(j)
  <2>1. j \in Scans => todo[j] # <<>>
    BY <1>1 DEF Claiming, Claimed
  <2>2. CASE j = Drain /\ at[j] = "pruning" /\ MoveThrows(j)
    BY <1>0, <2>1, <2>2, GivesUp, JobFacts DEF MoveThrows
  <2>3. CASE ~(j = Drain /\ at[j] = "pruning" /\ MoveThrows(j))
    BY <1>0, <2>1, <2>3, GetsThrough DEF MoveThrows, MoveToFailed
  <2> QED  BY <2>2, <2>3
<1>4. Seen(e, j, "done")
  BY <1>0, <1>1, <1>3, StepSeen
<1>5. NoNewSend(e) /\ NoneGivenUp(e)
  BY <1>1, <1>2, <1>4 DEF Seen, SeenIn, Sending, Unacked, NoNewSend, NoneGivenUp
<1>6. CASE MoveToFailed(j)
  <2>1. UNCHANGED <<retryCount, sends, tries>> /\ e \notin queued'
    BY <1>6 DEF MoveToFailed, history
  <2> QED  BY <1>0, <1>5, <2>1, SpareKept, LeftKept
<1>7. CASE MoveThrows(j)
  <2>1. /\ UNCHANGED <<queued, retryCount, sends>>
        /\ tries' = IF at[j] = "pruning" THEN tries ELSE More(tries, e)
    BY <1>7 DEF MoveThrows, disk
  <2>2. Spare(e)'
    BY <1>0, <1>5, <2>1, SpareKept
  <2>3. CASE at[j] = "pruning"
    BY <1>0, <1>2, <1>4, <2>1, <2>2, <2>3, LeftKept DEF Seen, SeenIn, Trying
  <2>4. CASE at[j] # "pruning"
    <3>1. tries'[e] = tries[e] + 1
      BY <1>0, <2>1, <2>4 DEF More, Told
    <3> QED  BY <1>0, <2>1, <2>2, <3>1, LeftKept DEF Numbers
  <2> QED  BY <2>3, <2>4
<1> QED  BY <1>6, <1>7

LEMMA StepAccounts ==
  ASSUME TypeOK, Claiming, Accounts, NEW j \in Jobs, Step(j)
  PROVE  Accounts'
<1> SUFFICES ASSUME NEW e \in Entries  PROVE Spare(e)' /\ Left(e)' /\ Fresh(e)'
  BY DEF Accounts
<1>1. Spare(e) /\ Left(e)
  BY DEF Accounts
<1>2. Fresh(e)'
  BY StepFresh, StepApart
<1>3. CASE e # On(j)
  BY <1>1, <1>2, <1>3, StepApart, ApartKeeps
<1>4. CASE e = On(j)
  BY <1>1, <1>2, <1>4, SendSteps, AckSteps, FailSteps, MoveSteps DEF Step
<1> QED  BY <1>3, <1>4

-----------------------------------------------------------------------------
(* Scans between two entries *)

\* No job begins, ends or counts a send.
LEMMA AsideJobs ==
  ASSUME NEW e \in Entries, at'[<<"live", e>>] = at[<<"live", e>>],
         \A r \in Scans : \/ at'[r] = at[r] /\ On(r)' = On(r)
                          \/ at[r] \notin Trying /\ at'[r] \notin Trying
  PROVE  SameJobs(e)
<1>1. Sending \subseteq Trying /\ Unacked \subseteq Trying
  BY DEF Sending, Unacked, Trying
<1>2. ASSUME NEW A \in SUBSET Trying
      PROVE  (LiveIn(e, A)' <=> LiveIn(e, A)) /\ (ScanIn(e, A)' <=> ScanIn(e, A))
  BY DEF LiveIn, ScanIn
<1> QED  BY <1>1, <1>2 DEF SameJobs

LEMMA Aside ==
  ASSUME Accounts, NEW e \in Entries, UNCHANGED <<queued, retryCount, sends, tries>>,
         at'[<<"live", e>>] = at[<<"live", e>>],
         \A r \in Scans : \/ at'[r] = at[r] /\ On(r)' = On(r)
                          \/ at[r] \notin Trying /\ at'[r] \notin Trying,
         Unknown(e) => Unknown(e)'
  PROVE  Spare(e)' /\ Left(e)' /\ Fresh(e)'
<1>1. Spare(e) /\ Left(e) /\ Fresh(e)
  BY DEF Accounts
<1>2. Apart(e)
  BY AsideJobs DEF Apart, SameJobs
<1>3. Fresh(e)'
  BY <1>1 DEF Fresh
<1> QED  BY <1>1, <1>2, <1>3, ApartKeeps

LEMMA ScanAccounts ==
  ASSUME TypeOK, Claiming, Accounts, NEW s \in Scans, Load(s) \/ Claim(s) \/ ScanEnds(s)
  PROVE  Accounts'
<1> SUFFICES ASSUME NEW e \in Entries  PROVE Spare(e)' /\ Left(e)' /\ Fresh(e)'
  BY DEF Accounts
<1>0. Files /\ Work /\ s \in Jobs
  BY TypeParts, JobKinds
<1>1. UNCHANGED <<queued, retryCount, sends, tries>>
  BY DEF Load, Claim, ScanEnds, disk, history
<1>2. /\ <<"live", e>> \in Jobs /\ <<"defer", e>> \in Jobs
      /\ <<"live", e>> \notin Scans /\ <<"defer", e>> \notin Scans
  BY JobFacts, JobKinds
<1>3. CASE Load(s)
  <2>1. at' = [at EXCEPT ![s] = "next"] /\ at[s] = "idle"
    BY <1>3 DEF Load
  <2>2. at'[s] = "next" /\ \A i \in Jobs : i # s => at'[i] = at[i]
    BY <1>0, <2>1 DEF Work
  <2>3. ToSet(todo'[s]) \subseteq queued /\ \A r \in Scans : r # s => todo'[r] = todo[r]
    BY <1>3, LoadType
  <2>4. \A r \in Scans : r # s => at'[r] = at[r] /\ On(r)' = On(r)
    BY <2>2, <2>3, JobKinds DEF On
  <2>5. at[s] \notin Trying /\ at'[s] \notin Trying
    BY <2>1, <2>2 DEF Trying
  <2>6. Unknown(e) => Unknown(e)'
    BY <1>1, <1>2, <2>2, <2>3 DEF Unknown
  <2> QED  BY <1>1, <1>2, <2>2, <2>4, <2>5, <2>6, Aside
<1>4. CASE Claim(s)
  <2>1. Picked
    BY <1>4, ClaimType
  <2>2. \A r \in Scans : ~Busy(r) => at[r] \notin Trying
    BY DEF Busy, Trying
  <2>3. \A r \in Scans : \/ at'[r] = at[r] /\ On(r)' = On(r)
                         \/ at[r] \notin Trying /\ at'[r] \notin Trying
    BY <2>1, <2>2 DEF Picked, Trying
  <2>4. Unknown(e) => Unknown(e)'
    BY <1>1, <1>2, <2>1 DEF Unknown, Picked
  <2> QED  BY <1>1, <1>2, <2>1, <2>3, <2>4, Aside DEF Picked
<1>5. CASE ScanEnds(s)
  <2>1. at' = [at EXCEPT ![s] = "idle"] /\ at[s] = "next" /\ todo' = todo
    BY <1>5 DEF ScanEnds
  <2>2. at'[s] = "idle" /\ \A i \in Jobs : i # s => at'[i] = at[i]
    BY <1>0, <2>1 DEF Work
  <2>3. \A r \in Scans : r # s => at'[r] = at[r] /\ On(r)' = On(r)
    BY <2>1, <2>2, JobKinds DEF On
  <2>4. at[s] \notin Trying /\ at'[s] \notin Trying
    BY <2>1, <2>2 DEF Trying
  <2>5. Unknown(e) => Unknown(e)'
    BY <1>1, <1>2, <2>1, <2>2 DEF Unknown
  <2> QED  BY <1>1, <1>2, <2>2, <2>3, <2>4, <2>5, Aside
<1> QED  BY <1>3, <1>4, <1>5

LEMMA OverBudgetAccounts ==
  ASSUME TypeOK, Claiming, Accounts, OverBudget
  PROVE  Accounts'
<1> SUFFICES ASSUME NEW e \in Entries  PROVE Spare(e)' /\ Left(e)' /\ Fresh(e)'
  BY DEF Accounts
<1>1. UNCHANGED <<queued, retryCount, sends, tries>>
  BY DEF OverBudget, disk, history
<1>2. /\ at'[Startup] = "idle" /\ at[Startup] = "next"
      /\ at'[Drain] = at[Drain] /\ On(Drain)' = On(Drain)
  BY OverBudgetType, JobFacts DEF OverBudget, On
<1>3. \A r \in Scans : \/ at'[r] = at[r] /\ On(r)' = On(r)
                       \/ at[r] \notin Trying /\ at'[r] \notin Trying
  BY <1>2, JobFacts DEF Trying
<1>4. /\ <<"live", e>> \in Live /\ <<"defer", e>> \in Defer /\ <<"defer", e>>[2] = e
  BY JobFacts
<1>5. at'[<<"live", e>>] = at[<<"live", e>>]
  BY <1>4, OverBudgetType
<1>6. at'[<<"defer", e>>] = at[<<"defer", e>>] \/ e \in ToSet(todo[Startup])
  BY <1>4, OverBudgetType
<1>7. \A s \in Scans : ToSet(todo'[s]) \subseteq ToSet(todo[s])
  <2>1. ToSet(<<>>) = {}
    BY DEF ToSet
  <2> QED  BY <2>1, OverBudgetType, JobFacts
<1>8. Unknown(e) => Unknown(e)'
  BY <1>1, <1>6, <1>7, JobFacts DEF Unknown
<1> QED  BY <1>1, <1>3, <1>5, <1>8, Aside

\* The condition of Begin: a live delivery that is not acknowledged yet.
LEMMA LiveUnacknowledged ==
  ASSUME NEW e \in Entries
  PROVE  Unacknowledged(e) \cap Live = {} <=> ~LiveIn(e, Unacked)
<1>1. <<"live", e>> \in Live /\ <<"live", e>> \in Jobs \ Defer /\ On(<<"live", e>>) = e
  BY JobFacts, JobKinds DEF On
<1>2. \A j \in Live : On(j) = e => j = <<"live", e>>
  BY JobFacts DEF On
<1> QED  BY <1>1, <1>2 DEF Unacknowledged, LiveIn, Unacked

\* A scan begins a send only under its claim, of an entry on disk with retries
\* left: one send and one try are there for it.
LEMMA RereadAccounts ==
  ASSUME TypeOK, Claiming, Accounts, NEW s \in Scans, Reread(s)
  PROVE  Accounts'
<1> SUFFICES ASSUME NEW e \in Entries  PROVE Spare(e)' /\ Left(e)' /\ Fresh(e)'
  BY DEF Accounts
<1>0. Files /\ Work /\ Told /\ s \in Jobs /\ Busy(s) /\ On(s) \in Entries /\ at[s] = "reread"
  BY TypeParts, JobKinds, RereadType DEF Reread
<1>1. Spare(e) /\ Left(e) /\ Fresh(e) /\ Numbers(e)
  BY <1>0 DEF Accounts, Numbers, Files, Told
<1>2. Released(s) \/ \E a \in AtWork : Moved(s, a)
  BY RereadType DEF AtWork, Awaits
<1>3. UNCHANGED <<queued, retryCount>>
  BY DEF Reread, disk
<1>4. /\ \A i \in Jobs : i # s => at'[i] = at[i]
      /\ \A r \in Scans : ToSet(todo'[r]) \subseteq ToSet(todo[r])
  BY <1>2 DEF Released, Moved
<1>5. /\ <<"live", e>> \in Jobs /\ <<"live", e>> # s
      /\ <<"defer", e>> \in Jobs /\ <<"defer", e>> # s
  BY JobFacts, JobKinds
<1>6. at'[<<"live", e>>] = at[<<"live", e>>] /\ at'[<<"defer", e>>] = at[<<"defer", e>>]
  BY <1>4, <1>5
<1>7. CASE e # On(s)
  <2>1. SameJobs(e)
    BY <1>0, <1>2, <1>7, OtherJobs
  <2>2. /\ sends' = sends \/ sends' = More(sends, On(s))
        /\ tries' = tries \/ tries' = Less(tries, On(s))
    BY DEF Reread, Begin
  <2>3. sends'[e] = sends[e] /\ tries'[e] = tries[e]
    BY <1>0, <1>7, <2>2 DEF More, Less, Told
  <2>4. Apart(e)
    BY <1>3, <2>1, <2>3 DEF Apart, SameJobs
  <2> QED  BY <1>1, <1>4, <1>6, <2>4, ApartKeeps, ApartFresh
<1>8. CASE e = On(s)
  <2>1. Fresh(e)'
    BY <1>0, <1>6, <1>8, Known DEF Fresh
  <2>2. /\ ~ScanIn(e, Sending) /\ ~ScanIn(e, Unacked) /\ ~ScanIn(e, Trying)
    <3>1. Seen(e, s, "done") \/ \E a \in AtWork : Seen(e, s, a)
      BY <1>0, <1>2, <1>8, StepSeen
    <3> QED  BY <1>0, <3>1 DEF Seen, SeenIn, Sending, Unacked, Trying
  <2>3. ASSUME sends' = sends, tries' = tries, NEW a \in {"done", "pruning"},
               \/ a \in AtWork /\ Moved(s, a)
               \/ a = "done" /\ Released(s)
        PROVE  Spare(e)' /\ Left(e)'
    <3>1. Seen(e, s, a)
      BY <1>0, <1>8, <2>3, StepSeen
    <3>2. NoNewSend(e) /\ NoneGivenUp(e)
      BY <2>2, <2>3, <3>1 DEF Seen, SeenIn, Sending, NoNewSend, NoneGivenUp
    <3> QED  BY <1>1, <1>3, <2>2, <2>3, <3>2, SpareKept, LeftKept
  <2>4. ASSUME On(s) \in queued, retryCount[On(s)] < MaxRetries, Begin(s)
        PROVE  Spare(e)' /\ Left(e)'
    <3>1. "sending" \in AtWork /\ Moved(s, "sending")
      BY <1>0, <2>4, GoesOn DEF Begin, AtWork, Awaits
    <3>2. Seen(e, s, "sending")
      BY <1>0, <1>8, <3>1, StepSeen
    <3>3. tries'[e] = tries[e] - 1
      BY <1>0, <1>8, <2>4 DEF Begin, Less, Told
    <3>4. sends'[e] = IF LiveIn(e, Unacked) THEN sends[e] + 1 ELSE sends[e]
      BY <1>0, <1>8, <2>4, LiveUnacknowledged DEF Begin, More, Told
    <3>5. LiveIn(e, Sending) => LiveIn(e, Unacked)
      BY DEF LiveIn, Sending, Unacked
    <3>6. /\ LiveIn(e, Sending)' <=> LiveIn(e, Sending)
          /\ LiveIn(e, Unacked)' <=> LiveIn(e, Unacked)
          /\ ScanIn(e, Sending)' /\ ScanIn(e, Unacked)' /\ ScanIn(e, Trying)'
      BY <3>2 DEF Seen, SeenIn, Sending, Unacked, Trying
    <3>7. Spare(e)'
      BY <1>1, <1>3, <1>8, <2>2, <2>4, <3>4, <3>5, <3>6 DEF Spare, Numbers
    <3>8. Left(e)'
      BY <1>1, <1>3, <1>8, <2>2, <2>4, <3>3, <3>6, MaxRetriesType DEF Left, Numbers
    <3> QED  BY <3>7, <3>8
  <2>5. Finish(s) => Released(s)
    BY <1>0, GetsThrough DEF Claiming, Claimed
  <2>6. "pruning" \in AtWork /\ (GoTo(s, "pruning") => Moved(s, "pruning"))
    BY <1>0, GoesOn DEF AtWork, Awaits
  <2>7. Spare(e)' /\ Left(e)'
    BY <2>3, <2>4, <2>5, <2>6 DEF Reread
  <2> QED  BY <2>1, <2>7
<1> QED  BY <1>7, <1>8

-----------------------------------------------------------------------------
(* The live delivery begins; the process dies *)

LEMMA BeginsAccounts ==
  ASSUME TypeOK, Claiming, Accounts, NEW x \in Entries, Enqueue(x) \/ EnqueueFails(x)
  PROVE  Accounts'
<1> SUFFICES ASSUME NEW e \in Entries  PROVE Spare(e)' /\ Left(e)' /\ Fresh(e)'
  BY DEF Accounts
<1>0. Files /\ Work /\ Told
  BY TypeParts
<1>1. Spare(e) /\ Left(e) /\ Fresh(e) /\ Numbers(e)
  BY <1>0 DEF Accounts, Numbers, Files, Told
<1>2. /\ UNCHANGED <<todo, retryCount, sends>> /\ at[<<"live", x>>] = "idle"
      /\ queued' \in {queued, queued \cup {x}}
      /\ tries' \in {tries, Less(tries, x)}
  BY BeginsType DEF Enqueue, EnqueueFails, disk, history
<1>3. /\ at'[<<"live", x>>] \in {"sending", "done"}
      /\ \A i \in Jobs : i # <<"live", x>> => at'[i] = at[i]
  BY BeginsType
<1>4. /\ <<"live", e>> \in Jobs /\ <<"defer", e>> \in Jobs /\ <<"defer", e>> # <<"live", x>>
      /\ \A r \in Scans : r \in Jobs /\ r # <<"live", x>>
  BY JobFacts, JobKinds
<1>5. \A r \in Scans : at'[r] = at[r] /\ On(r)' = On(r)
  BY <1>2, <1>3, <1>4 DEF On
<1>6. CASE e # x
  <2>1. at'[<<"live", e>>] = at[<<"live", e>>] /\ at'[<<"defer", e>>] = at[<<"defer", e>>]
    BY <1>3, <1>4, <1>6
  <2>2. SameJobs(e)
    BY <1>5, <2>1, AsideJobs
  <2>3. tries'[e] = tries[e] /\ (e \in queued' <=> e \in queued)
    BY <1>0, <1>2, <1>6 DEF Less, Told
  <2>4. Apart(e)
    BY <1>2, <2>2, <2>3 DEF Apart, SameJobs
  <2> QED  BY <1>1, <1>2, <2>1, <2>4, ApartKeeps, ApartFresh
<1>7. CASE e = x
  <2>1. Unknown(e) /\ sends[e] >= 1 /\ tries[e] >= 1 + MaxRetries
    BY <1>1, <1>2, <1>7 DEF Fresh
  <2>2. tries'[e] = tries[e] \/ tries'[e] = tries[e] - 1
    BY <1>0, <1>2, <1>7 DEF Less, Told
  <2>3. \A r \in Scans : Busy(r) => On(r) # e
    <3> SUFFICES ASSUME NEW r \in Scans, Busy(r), On(r) = e  PROVE FALSE
      OBVIOUS
    <3>1. at[<<"live", e>>] # "idle"
      BY <1>0, <1>4, Known
    <3> QED  BY <1>2, <1>7, <3>1
  <2>4. ~ScanIn(e, Sending)'
    BY <1>5, <2>3 DEF ScanIn, Sending, Busy
  <2>5. Spare(e)'
    BY <1>1, <1>2, <2>1, <2>4 DEF Spare, Numbers
  <2>6. Left(e)'
    BY <1>1, <1>2, <2>1, <2>2, MaxRetriesType DEF Left, Numbers
  <2>7. Fresh(e)'
    BY <1>3, <1>7 DEF Fresh
  <2> QED  BY <2>5, <2>6, <2>7
<1> QED  BY <1>6, <1>7

\* What a crash cuts off is made up for: a send whose acknowledgement is lost,
\* and a try whose count is.
LEMMA CrashAccounts ==
  ASSUME TypeOK, Claiming, Accounts, Crash
  PROVE  Accounts'
<1> SUFFICES ASSUME NEW e \in Entries  PROVE Spare(e)' /\ Left(e)' /\ Fresh(e)'
  BY DEF Accounts
<1>0. Files /\ Work /\ Told
  BY TypeParts
<1>1. Spare(e) /\ Left(e) /\ Fresh(e) /\ Numbers(e)
  BY <1>0 DEF Accounts, Numbers, Files, Told
<1>2. /\ <<"live", e>> \in Live /\ <<"live", e>> \in Jobs \ Defer /\ On(<<"live", e>>) = e
      /\ <<"defer", e>> \in Defer /\ \A s \in Scans : s \in Jobs \ Defer
  BY JobFacts, JobKinds DEF On
<1>3. /\ at'[<<"live", e>>] = IF at[<<"live", e>>] = "idle" THEN "idle" ELSE "done"
      /\ at'[<<"defer", e>>] = "idle"
      /\ \A s \in Scans : at'[s] = "idle" /\ todo'[s] = <<>>
  BY <1>2, CrashType
<1>4. /\ ~LiveIn(e, Sending)' /\ ~ScanIn(e, Sending)'
  BY <1>3 DEF LiveIn, ScanIn, Sending
<1>5. UNCHANGED <<queued, retryCount>>
  BY DEF Crash, disk
<1> DEFINE C == {j \in Unacknowledged(e) : at[j] # "sending"}
           D == {s \in Scans : at[s] \in Trying /\ On(s) = e}
<1>6. sends'[e] = sends[e] + Cardinality(C) /\ tries'[e] = tries[e] + Cardinality(D)
  BY DEF Crash, Attempting, Trying
<1>7. Cardinality(C) \in Nat /\ (C # {} => Cardinality(C) >= 1)
  <2>1. IsFiniteSet(C)
    BY FewJobs
  <2>2. Cardinality(C) \in Nat /\ (C # {} => Cardinality(C) # 0)
    BY <2>1, FS_CardinalityType, FS_EmptySet
  <2> QED  BY <2>2
<1>8. Cardinality(D) \in Nat /\ (ScanIn(e, Trying) => Cardinality(D) >= 1)
  BY SomeJobs DEF ScanIn
<1>9. C = {} /\ ~LiveIn(e, Sending) /\ ~ScanIn(e, Sending)
        => ~LiveIn(e, Unacked) /\ ~ScanIn(e, Unacked)
  BY <1>2 DEF Unacknowledged, LiveIn, ScanIn, Sending, Unacked
<1> HIDE DEF C, D
<1>10. Spare(e)'
  BY <1>1, <1>4, <1>5, <1>6, <1>7, <1>9 DEF Spare, Numbers
<1>11. Left(e)'
  BY <1>1, <1>5, <1>6, <1>8, MaxRetriesType DEF Left, Numbers
<1>12. Fresh(e)'
  <2>1. ToSet(<<>>) = {}
    BY DEF ToSet
  <2>2. Unknown(e) => Unknown(e)'
    BY <1>3, <1>5, <2>1 DEF Unknown
  <2>3. sends'[e] >= sends[e] /\ tries'[e] >= tries[e]
    BY <1>1, <1>6, <1>7, <1>8 DEF Numbers
  <2>4. sends'[e] \in Int /\ tries'[e] \in Int
    BY <1>1, <1>6, <1>7, <1>8 DEF Numbers
  <2> QED  BY <1>1, <1>3, <2>2, <2>3, <2>4, MaxRetriesType DEF Fresh, Numbers
<1> QED  BY <1>10, <1>11, <1>12

Bounded == TypeOK /\ Claiming /\ Accounts

LEMMA BoundedInit == Init => Bounded
<1> SUFFICES ASSUME Init  PROVE Accounts
  BY TypingInit DEF Bounded
<1> SUFFICES ASSUME NEW e \in Entries  PROVE Spare(e) /\ Left(e) /\ Fresh(e)
  BY DEF Accounts
<1>1. <<"live", e>> \in Jobs /\ <<"defer", e>> \in Jobs /\ Scans \subseteq Jobs
  BY JobFacts, JobKinds
<1>2. /\ queued = {} /\ sends[e] = 1 /\ tries[e] = 1 + MaxRetries /\ retryCount[e] = 0
      /\ at[<<"live", e>>] = "idle" /\ at[<<"defer", e>>] = "idle"
      /\ \A s \in Scans : at[s] = "idle" /\ todo[s] = <<>>
  BY <1>1 DEF Init
<1>3. ~LiveIn(e, Sending) /\ ~ScanIn(e, Sending)
  BY <1>2 DEF LiveIn, ScanIn, Sending
<1>4. Spare(e) /\ Left(e)
  BY <1>2, <1>3, MaxRetriesType DEF Spare, Left
<1>5. Fresh(e)
  <2>1. ToSet(<<>>) = {}
    BY DEF ToSet
  <2> QED  BY <1>2, <2>1, MaxRetriesType DEF Fresh, Unknown
<1> QED  BY <1>4, <1>5

LEMMA BoundedStep == Bounded /\ [Next]_vars => Bounded'
<1> SUFFICES ASSUME Bounded, [Next]_vars  PROVE Accounts'
  BY TypingStep DEF Bounded
<1>0. TypeOK /\ Claiming /\ Accounts
  BY DEF Bounded
<1>1. CASE UNCHANGED vars
  BY <1>0, <1>1 DEF vars, disk, memory, history, Accounts, Spare, Left, Fresh, Unknown, LiveIn,
                    ScanIn, On
<1>2. ASSUME NEW j \in Jobs, Step(j)  PROVE Accounts'
  BY <1>0, <1>2, StepAccounts
<1>3. ASSUME NEW s \in Scans, Load(s) \/ Claim(s) \/ ScanEnds(s) \/ Reread(s)  PROVE Accounts'
  BY <1>0, <1>3, ScanAccounts, RereadAccounts
<1>4. ASSUME NEW e \in Entries, Enqueue(e) \/ EnqueueFails(e)  PROVE Accounts'
  BY <1>0, <1>4, BeginsAccounts
<1>5. CASE OverBudget \/ Crash
  BY <1>0, <1>5, OverBudgetAccounts, CrashAccounts
<1> QED  BY <1>1, <1>2, <1>3, <1>4, <1>5 DEF Next

\* A message is shown again only for a cause that the history records: a lost
\* result, a failed or cut-off acknowledgement, a scan beside the live delivery,
\* or a failure written over an acknowledged entry.  Two scans never send one
\* entry both (entriesInProgress), and an entry whose file is renamed is not
\* replayed (ackDelivery).
THEOREM RepeatsAreCaused == Spec => []RepeatsHaveCauses
<1>1. Bounded => RepeatsHaveCauses
  BY DEF Bounded, Accounts, Spare, RepeatsHaveCauses
<1> QED  BY BoundedInit, BoundedStep, <1>1, PTL DEF Spec

\* MAX_RETRIES bounds the sends: there is one live send, and a retry for each
\* count, and one more only for each count that a crash, an error or a stale
\* failDelivery lost.
THEOREM AttemptsAreBounded == Spec => []AttemptsBounded
<1>1. Bounded => AttemptsBounded
  BY DEF Bounded, Accounts, Left, AttemptsBounded
<1> QED  BY BoundedInit, BoundedStep, <1>1, PTL DEF Spec

=============================================================================
