---------------------------- MODULE OutboundQueue ----------------------------
(***************************************************************************)
(* The write-ahead queue of outbound deliveries of the legacy gateway      *)
(* (src/infra/outbound): deliverOutboundPayloads, the files of             *)
(* delivery-queue/, the recovery scan at startup and the drain after a     *)
(* reconnect, through failed sends, lost results, failed file operations   *)
(* and crashes.                                                            *)
(*                                                                         *)
(* A job is one asynchronous activity on one entry: the live delivery that *)
(* created it, a scan (which walks over its todo list), or the deferral of *)
(* an entry by a scan that is over its time budget.  Every await is a      *)
(* step.  The clock is left out: an entry that has been tried before may   *)
(* or may not still be in its backoff.                                     *)
(***************************************************************************)
EXTENDS Integers, Sequences, SequencesExt, FiniteSets

CONSTANTS
  Entries,     \* the deliveries, by id
  BestEffort,  \* those with bestEffort: an error of a payload is not thrown
  MaxRetries,  \* MAX_RETRIES: 5
  MaxScans,    \* bound of the model: how often a scan is started
  MaxFaults    \* bound of the model: crashes, lost results, failed file operations

ASSUME BestEffortType == BestEffort \subseteq Entries
ASSUME MaxRetriesType == MaxRetries \in Nat \ {0}
ASSUME MaxScansType == MaxScans \in Nat
ASSUME MaxFaultsType == MaxFaults \in Nat

Live  == {"live"} \X Entries    \* deliverOutboundPayloads
Defer == {"defer"} \X Entries   \* failDelivery by deferRemainingEntriesForBudget
Startup == <<"startup">>        \* recoverPendingDeliveries
Drain   == <<"drain">>          \* drainPendingDeliveries of one drainKey
Scans == {Startup, Drain}
Jobs  == Live \cup Defer \cup Scans

VARIABLES
  queued,      \* the entries with an <id>.json in delivery-queue/
  retryCount,  \* the retryCount in that file
  noListener,  \* the entries whose lastError says that nobody listened
  markers,     \* the entries with an <id>.delivered marker
  failed,      \* the entries in delivery-queue/failed/
  order,       \* the entries by enqueuedAt
  at,          \* at[j]: the await that job j is in
  read,        \* read[j]: the retryCount that failDelivery has read
  todo,        \* todo[s]: the entries scan s still has to do, the current one first
  claims,      \* entriesInProgress
  scans,       \* how many scans were started
  faults,      \* how many faults there have been
  shown,       \* the entries whose message the channel has shown, or part of it
  waived,      \* acknowledged though not shown: aborted, or best effort
  sends,       \* sends[e]: how often it may still be shown: once, and once more
               \* for each cause of a repetition
  tries        \* tries[e]: how many sends may still begin: the live one, the
               \* retries, and one for each retry that retryCount lost

disk    == <<queued, retryCount, noListener, markers, failed, order>>
memory  == <<at, read, todo, claims>>
bounds  == <<scans, faults>>
history == <<shown, waived, sends, tries>>
vars == <<disk, memory, bounds, history>>

Awaits == {"idle", "next", "reread", "pruning", "sending", "answered",
           "acking", "unlinking", "failRead", "failWrite", "moving", "done"}

\* The entry a job is working on.
On(j) == IF j \in Scans THEN Head(todo[j]) ELSE j[2]

Init ==
  /\ queued = {} /\ noListener = {} /\ markers = {} /\ failed = {} /\ order = <<>>
  /\ retryCount = [e \in Entries |-> 0]
  /\ at = [j \in Jobs |-> "idle"]
  /\ read = [j \in Jobs |-> 0]
  /\ todo = [s \in Scans |-> <<>>]
  /\ claims = {} /\ scans = 0 /\ faults = 0 /\ waived = {}
  /\ shown = {}
  /\ sends = [e \in Entries |-> 1]
  /\ tries = [e \in Entries |-> 1 + MaxRetries]

Fault == /\ faults < MaxFaults
         /\ faults' = faults + 1

More(f, e) == [f EXCEPT ![e] = @ + 1]
Less(f, e) == [f EXCEPT ![e] = @ - 1]

\* Job j is through with its entry: a live delivery returns, a deferral ends,
\* a scan releases its claim and goes on to the next entry.
Finish(j) ==
  /\ at' = [at EXCEPT ![j] = IF j \in Live THEN "done"
                             ELSE IF j \in Defer THEN "idle" ELSE "next"]
  /\ claims' = IF j \in Scans THEN claims \ {On(j)} ELSE claims
  /\ todo' = IF j \in Scans THEN [todo EXCEPT ![j] = Tail(@)] ELSE todo

GoTo(j, a) == /\ at' = [at EXCEPT ![j] = a]
              /\ UNCHANGED <<claims, todo>>

-----------------------------------------------------------------------------
(* deliverOutboundPayloads: the write-ahead entry *)

\* The entry is on disk before anything is sent.
Enqueue(e) ==
  /\ at[<<"live", e>>] = "idle"
  /\ queued' = queued \cup {e}
  /\ order' = Append(order, e)
  /\ tries' = Less(tries, e)
  /\ GoTo(<<"live", e>>, "sending")
  /\ UNCHANGED <<retryCount, noListener, markers, failed, read, bounds,
                 shown, waived, sends>>

\* The entry cannot be written: the delivery is made without one.
EnqueueFails(e) ==
  /\ at[<<"live", e>>] = "idle"
  /\ Fault
  /\ GoTo(<<"live", e>>, "done")
  /\ UNCHANGED <<disk, read, scans, history>>

-----------------------------------------------------------------------------
(* The send, of a live delivery or of a scan *)

\* Where the error of a send leads: failDelivery, or for a scan and a permanent
\* error moveToFailed.
AfterError(j) == IF j \in Scans THEN {"failRead", "moving"} ELSE {"failRead"}

\* The channel shows the message.
Transmit(j) ==
  /\ at[j] = "sending"
  /\ shown' = shown \cup {On(j)}
  /\ sends' = Less(sends, On(j))
  /\ GoTo(j, "answered")
  /\ UNCHANGED <<disk, read, bounds, waived, tries>>

Answered(j) ==
  /\ at[j] = "answered"
  /\ GoTo(j, "acking")
  /\ UNCHANGED <<disk, read, bounds, history>>

\* The message was shown, or a part of it, and the send fails all the same.
AnswerLost(j) ==
  /\ at[j] = "answered"
  /\ Fault
  /\ \E a \in AfterError(j) : GoTo(j, a)
  /\ sends' = More(sends, On(j))
  /\ UNCHANGED <<disk, read, scans, shown, waived, tries>>

SendFails(j) ==
  /\ at[j] = "sending"
  /\ \E a \in AfterError(j) : GoTo(j, a)
  /\ UNCHANGED <<disk, read, bounds, history>>

\* With bestEffort and no onError, which a scan never passes, a failed payload
\* is not reported and the send looks like a success.
Swallowed(j) ==
  /\ at[j] = "sending" /\ On(j) \in BestEffort
  /\ waived' = waived \cup {On(j)}
  /\ GoTo(j, "acking")
  /\ UNCHANGED <<disk, read, bounds, shown, sends, tries>>

\* The caller of a live delivery aborts it.
Aborted(j) ==
  /\ j \in Live /\ at[j] \in {"sending", "answered"}
  /\ waived' = waived \cup {On(j)}
  /\ GoTo(j, "acking")
  /\ UNCHANGED <<disk, read, bounds, shown, sends, tries>>

-----------------------------------------------------------------------------
(* ackDelivery *)

\* Mutation of AckRename: the marker is written beside the entry.
AckCopies(j) ==
  /\ at[j] = "acking"
  /\ markers' = markers \cup {On(j)}
  /\ GoTo(j, "unlinking")
  /\ UNCHANGED <<queued, retryCount, noListener, failed, order, read, bounds, history>>

\* Phase 1: <id>.json is renamed to <id>.delivered; when it is gone already, a
\* marker left behind is removed.
AckRename(j) ==
  /\ at[j] = "acking"
  /\ \/ /\ On(j) \in queued
        /\ queued' = queued \ {On(j)}
        /\ markers' = markers \cup {On(j)}
        /\ GoTo(j, "unlinking")
     \/ /\ On(j) \notin queued
        /\ markers' = markers \ {On(j)}
        /\ Finish(j)
        /\ UNCHANGED queued
  /\ UNCHANGED <<retryCount, noListener, failed, order, read, bounds, history>>

\* Phase 2: the marker is removed, or stays when that fails.
AckUnlink(j) ==
  /\ at[j] = "unlinking"
  /\ markers' \in {markers, markers \ {On(j)}}
  /\ Finish(j)
  /\ UNCHANGED <<queued, retryCount, noListener, failed, order, read, bounds, history>>

\* The rename fails for another reason: a live delivery leaves the entry where
\* it is, a scan takes it for a failed send.
AckThrows(j) ==
  /\ at[j] = "acking" /\ On(j) \in queued
  /\ Fault
  /\ sends' = More(sends, On(j))
  /\ IF j \in Live THEN Finish(j) ELSE GoTo(j, "failRead")
  /\ UNCHANGED <<disk, read, scans, shown, waived, tries>>

-----------------------------------------------------------------------------
(* failDelivery and moveToFailed *)

FailRead(j) ==
  /\ at[j] = "failRead"
  /\ \/ /\ On(j) \in queued
        /\ read' = [read EXCEPT ![j] = retryCount[On(j)]]
        /\ GoTo(j, "failWrite")
     \/ /\ On(j) \notin queued
        /\ Finish(j)
        /\ UNCHANGED read
  /\ UNCHANGED <<disk, bounds, history>>

\* What was read is written back with the count raised.  An entry acknowledged
\* in between exists again, and a count raised in between is lost.
FailWrite(j) ==
  /\ at[j] = "failWrite"
  /\ LET e == On(j)
     IN  /\ retryCount' = [retryCount EXCEPT ![e] = read[j] + 1]
         /\ queued' = queued \cup {e}
         /\ noListener' \in IF j \in Defer THEN {noListener \ {e}}
                            ELSE {noListener \cup {e}, noListener \ {e}}
         /\ sends' = IF e \in queued THEN sends ELSE More(sends, e)
         /\ tries' = IF retryCount[e] <= read[j] THEN tries
                     ELSE [tries EXCEPT ![e] = @ + (retryCount[e] - read[j])]
  /\ read' = [read EXCEPT ![j] = 0]
  /\ Finish(j)
  /\ UNCHANGED <<markers, failed, order, bounds, shown, waived>>

\* The file cannot be read or written; every caller goes on.
FailThrows(j) ==
  /\ at[j] \in {"failRead", "failWrite"}
  /\ Fault
  /\ tries' = IF j \in Scans THEN More(tries, On(j)) ELSE tries
  /\ read' = [read EXCEPT ![j] = 0]
  /\ Finish(j)
  /\ UNCHANGED <<disk, scans, shown, waived, sends>>

\* Mutation of MoveToFailed: the entry is deleted.
MoveDeletes(j) ==
  /\ at[j] \in {"pruning", "moving"}
  /\ queued' = queued \ {On(j)}
  /\ Finish(j)
  /\ UNCHANGED <<failed, retryCount, noListener, markers, order, read, bounds, history>>

MoveToFailed(j) ==
  /\ at[j] \in {"pruning", "moving"}
  /\ failed' = IF On(j) \in queued THEN failed \cup {On(j)} ELSE failed
  /\ queued' = queued \ {On(j)}
  /\ Finish(j)
  /\ UNCHANGED <<retryCount, noListener, markers, order, read, bounds, history>>

\* The move fails: a scan goes on, except that the drain gives up when it was
\* removing an entry that had used up its retries.
MoveThrows(j) ==
  /\ at[j] \in {"pruning", "moving"}
  /\ Fault
  /\ tries' = IF at[j] = "pruning" THEN tries ELSE More(tries, On(j))
  /\ IF j = Drain /\ at[j] = "pruning"
     THEN /\ at' = [at EXCEPT ![j] = "idle"]
          /\ claims' = claims \ {On(j)}
          /\ todo' = [todo EXCEPT ![j] = <<>>]
     ELSE Finish(j)
  /\ UNCHANGED <<disk, read, scans, shown, waived, sends>>

-----------------------------------------------------------------------------
(* recoverPendingDeliveries and drainPendingDeliveries *)

\* The part of list in S, in its order.
Among(list, S) ==
  LET kept[i \in 0 .. Len(list)] ==
        IF i = 0 THEN <<>>
        ELSE IF list[i] \in S THEN Append(kept[i - 1], list[i]) ELSE kept[i - 1]
  IN  kept[Len(list)]

\* The directory is read: markers go, and what the scan selects is its todo
\* list by age.  The startup scan waits for its own deferrals before it ends;
\* a reconnect drain takes the entries nobody listened for.
Load(s) ==
  /\ at[s] = "idle" /\ scans < MaxScans
  /\ s = Startup => \A d \in Defer : at[d] = "idle"
  /\ scans' = scans + 1
  /\ markers' = {}
  /\ todo' = [todo EXCEPT ![s] = Among(order, IF s = Drain THEN queued \cap noListener
                                               ELSE queued)]
  /\ at' = [at EXCEPT ![s] = "next"]
  /\ UNCHANGED <<queued, retryCount, noListener, failed, order, read, claims, faults, history>>

\* claimRecoveryEntry: an entry another scan works on is passed over.
Claim(s) ==
  /\ at[s] = "next" /\ todo[s] # <<>>
  /\ \/ /\ On(s) \notin claims
        /\ claims' = claims \cup {On(s)}
        /\ at' = [at EXCEPT ![s] = "reread"]
        /\ UNCHANGED todo
     \/ /\ On(s) \in claims
        /\ todo' = [todo EXCEPT ![s] = Tail(@)]
        /\ UNCHANGED <<at, claims>>
  /\ UNCHANGED <<disk, read, bounds, history>>

ScanEnds(s) ==
  /\ at[s] = "next" /\ todo[s] = <<>>
  /\ at' = [at EXCEPT ![s] = "idle"]
  /\ UNCHANGED <<disk, read, todo, claims, bounds, history>>

\* The startup scan is over its budget: the rest counts as failed, all at once
\* and without a claim.
OverBudget ==
  /\ at[Startup] = "next" /\ todo[Startup] # <<>>
  /\ at' = [j \in Jobs |->
              IF j = Startup THEN "idle"
              ELSE IF j \in Defer /\ j[2] \in ToSet(todo[Startup]) THEN "failRead" ELSE at[j]]
  /\ todo' = [todo EXCEPT ![Startup] = <<>>]
  /\ UNCHANGED <<disk, read, claims, bounds, history>>

\* Jobs that may have sent the entry and have not acknowledged it.
Unacknowledged(e) == {j \in Jobs \ Defer : at[j] \in {"sending", "answered", "acking"} /\ On(j) = e}

\* A scan has begun a send that neither succeeded nor was counted yet.
Attempting(s) == at[s] \in {"sending", "answered", "acking", "failRead", "failWrite", "moving"}

\* A send begins beside a live delivery of the same entry, which holds no claim.
Begin(s) ==
  /\ tries' = Less(tries, On(s))
  /\ sends' = IF Unacknowledged(On(s)) \cap Live = {} THEN sends ELSE More(sends, On(s))
  /\ GoTo(s, "sending")

\* isEntryEligibleForRecoveryRetry: after a failure the backoff may still last;
\* the drain of a reconnect passes over it.
MayBackOff(s) == s = Startup /\ retryCount[On(s)] > 0

\* Mutation of Reread: one retry too many.
RereadOffByOne(s) ==
  /\ at[s] = "reread"
  /\ \/ On(s) \notin queued /\ Finish(s) /\ UNCHANGED <<tries, sends>>
     \/ /\ On(s) \in queued /\ retryCount[On(s)] > MaxRetries
        /\ GoTo(s, "pruning") /\ UNCHANGED <<tries, sends>>
     \/ /\ On(s) \in queued /\ retryCount[On(s)] <= MaxRetries
        /\ Begin(s)
  /\ UNCHANGED <<disk, read, bounds, shown, waived>>

\* Under the claim the file is read again: gone, out of retries, in its backoff,
\* or sent.
Reread(s) ==
  /\ at[s] = "reread"
  /\ \/ /\ On(s) \notin queued
        /\ Finish(s) /\ UNCHANGED <<tries, sends>>
     \/ /\ On(s) \in queued /\ retryCount[On(s)] >= MaxRetries
        /\ GoTo(s, "pruning") /\ UNCHANGED <<tries, sends>>
     \/ /\ On(s) \in queued /\ retryCount[On(s)] < MaxRetries /\ MayBackOff(s)
        /\ Finish(s) /\ UNCHANGED <<tries, sends>>
     \/ /\ On(s) \in queued /\ retryCount[On(s)] < MaxRetries
        /\ Begin(s)
  /\ UNCHANGED <<disk, read, bounds, shown, waived>>

\* The process dies and comes back: the files stay, the jobs and the claims do
\* not.
Crash ==
  /\ Fault
  /\ at' = [j \in Jobs |-> IF j \in Live /\ at[j] # "idle" THEN "done" ELSE "idle"]
  /\ read' = [j \in Jobs |-> 0]
  /\ todo' = [s \in Scans |-> <<>>]
  /\ claims' = {}
  /\ sends' = [e \in Entries |-> sends[e] +
                  Cardinality({j \in Unacknowledged(e) : at[j] # "sending"})]
  /\ tries' = [e \in Entries |-> tries[e] +
                  Cardinality({s \in Scans : Attempting(s) /\ On(s) = e})]
  /\ UNCHANGED <<disk, scans, shown, waived>>

Step(j) ==
  \/ Transmit(j) \/ Answered(j) \/ AnswerLost(j) \/ SendFails(j) \/ Swallowed(j) \/ Aborted(j)
  \/ AckRename(j) \/ AckUnlink(j) \/ AckThrows(j)
  \/ FailRead(j) \/ FailWrite(j) \/ FailThrows(j) \/ MoveToFailed(j) \/ MoveThrows(j)

Next ==
  \/ \E e \in Entries : Enqueue(e) \/ EnqueueFails(e)
  \/ \E j \in Jobs : Step(j)
  \/ \E s \in Scans : Load(s) \/ Claim(s) \/ ScanEnds(s) \/ Reread(s)
  \/ OverBudget \/ Crash

Spec == Init /\ [][Next]_vars

-----------------------------------------------------------------------------
(* Properties *)

TypeOK ==
  /\ queued \subseteq Entries /\ noListener \subseteq Entries
  /\ markers \subseteq Entries /\ failed \subseteq Entries
  /\ order \in Seq(Entries)
  /\ retryCount \in [Entries -> Nat]
  /\ at \in [Jobs -> Awaits]
  /\ read \in [Jobs -> Nat]
  /\ todo \in [Scans -> Seq(Entries)]
  /\ claims \subseteq Entries /\ waived \subseteq Entries
  /\ scans \in 0 .. MaxScans /\ faults \in 0 .. MaxFaults
  /\ shown \subseteq Entries /\ sends \in [Entries -> Int] /\ tries \in [Entries -> Int]

\* Once written, an entry is in the queue or in failed/ until its message has
\* been shown, or its caller gave it up: no crash and no race of a live
\* delivery, a scan and a deferral loses it (ackDelivery, moveToFailed).
NothingLost ==
  \A e \in Entries :
    e \in ToSet(order)
      => e \in queued \cup failed \cup waived \cup shown

\* A message is shown again only for a cause: a result or an acknowledgement
\* that was lost, a scan that ran beside the live delivery, a deferral or a
\* failure that wrote back an entry acknowledged meanwhile.  In particular two
\* scans never send one entry both, and an entry whose rename is done is not
\* replayed after a crash (claimRecoveryEntry, loadPendingDelivery after the
\* claim, the two phases of ackDelivery).
RepeatsHaveCauses == \A e \in Entries : sends[e] >= 0

\* MAX_RETRIES bounds the sends: beyond the live one and the retries, each
\* further one makes up for a retry that the count in the file has lost, cut off
\* by a crash or an error before it was counted, or overwritten by a failDelivery
\* that had read an older count.
AttemptsBounded == \A e \in Entries : tries[e] >= 0

=============================================================================
