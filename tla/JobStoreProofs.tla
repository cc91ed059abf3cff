--------------------------- MODULE JobStoreProofs ---------------------------
(***************************************************************************)
(* What SqliteJobStore guarantees to any caller, for every set of jobs,    *)
(* tenants, keys and specs and every value of the limits: the type         *)
(* invariant and the safety invariants of JobStore as theorems.            *)
(***************************************************************************)
EXTENDS JobStore, SequenceTheorems, FiniteSetTheorems, TLAPS

-----------------------------------------------------------------------------
(* What the row and event operators return.                                  *)

\* The row submit inserts is well formed.
LEMMA NewRowType ==
    ASSUME NEW t \in Tenants, NEW k \in Keys, NEW spec \in Specs
    PROVE  NewRow(t, k, spec) \in Row
BY StoreAssumption DEF NewRow, Row, JobPhase

\* The terminal update of finish and of the recoveries keeps a row well formed.
LEMMA CompletedType ==
    ASSUME NEW row \in Row, NEW phase \in TerminalPhases, NEW hasOutput \in BOOLEAN
    PROVE  Completed(row, phase, hasOutput) \in Row
<1>1. (IF Cancelled(row) THEN "canceled" ELSE phase) \in JobPhase
    BY DEF JobPhase, TerminalPhases
<1>2. row.generation \in Nat /\ row.revision + 1 \in Nat
    BY DEF Row
<1>3. QED
    BY <1>1, <1>2 DEF Completed, Row

\* A row the recoveries declare lost is well formed.
LEMMA LostType ==
    ASSUME NEW row \in Row
    PROVE  Lost(row) \in Row
<1>1. row.output \in BOOLEAN /\ "executor_lost" \in TerminalPhases
    BY DEF Row, TerminalPhases
<1>2. QED
    BY <1>1, CompletedType DEF Lost

\* request_cancel keeps a row well formed.
LEMMA CancelledRowType ==
    ASSUME NEW row \in Row
    PROVE  CancelledRow(row) \in Row
<1> DEFINE spec == [row.spec EXCEPT !.desired_state = "cancelled"]
           intent == [row EXCEPT !.spec = spec, !.generation = @ + 1, !.revision = @ + 1]
<1>1. spec \in JobSpec
    BY DEF Row, JobSpec, DesiredStates
<1>2. row.generation + 1 \in Nat /\ row.revision + 1 \in Nat
    BY DEF Row
<1> HIDE DEF spec
<1>3. intent \in Row
    BY <1>1, <1>2 DEF Row
<1> HIDE DEF intent
<1>4. [intent EXCEPT !.phase = "canceled", !.observed = intent.generation] \in Row
    BY <1>3 DEF Row, JobPhase, TerminalPhases
<1>5. CancelledRow(row) = IF row.phase = "queued"
         THEN [intent EXCEPT !.phase = "canceled", !.observed = intent.generation]
         ELSE intent
    BY DEF CancelledRow, intent, spec
<1>6. QED
    BY <1>3, <1>4, <1>5

\* The other updates of a row, one lemma each for the provers' sake.
LEMMA ClaimedRowType ==
    ASSUME NEW row \in Row, NEW owner \in Nat
    PROVE  Assigned(row, owner) \in Row
<1>1. row.attempt + 1 \in Nat /\ row.revision + 1 \in Nat /\ "assigned" \in JobPhase
    BY DEF Row, JobPhase, OwnedPhases
<1>2. QED
    BY <1>1 DEF Assigned, Row

\* mark_running's update.
LEMMA RunningRowType ==
    ASSUME NEW row \in Row
    PROVE  Running(row) \in Row
<1>1. row.revision + 1 \in Nat /\ "running" \in JobPhase
    BY DEF Row, JobPhase, OwnedPhases
<1>2. QED
    BY <1>1 DEF Running, Row

\* renew_lease's update, and the clock's.
LEMMA TimedRowTypes ==
    ASSUME NEW row \in Row
    PROVE  /\ WithLease(row, "held") \in Row
           /\ WithLease(row, "expired") \in Row
           /\ Aged(row) \in Row
BY DEF WithLease, Aged, Row

\* The updates of an event by the dispatcher and by the clock.
LEMMA EventUpdateTypes ==
    ASSUME NEW event \in OutboxRow
    PROVE  /\ Delivered(event) \in OutboxRow
           /\ Due(event) \in OutboxRow
           /\ \A permanent \in BOOLEAN : Retried(event, permanent) \in OutboxRow
<1>1. event.attempts + 1 \in Nat
    BY DEF OutboxRow
<1>2. \A permanent \in BOOLEAN : (IF permanent THEN "dead" ELSE "pending") \in OutboxStates
    BY DEF OutboxStates
<1>3. "delivered" \in OutboxStates
    BY DEF OutboxStates
<1>4. QED
    BY <1>1, <1>2, <1>3 DEF Delivered, Due, Retried, OutboxRow

\* A notification intent joins a job's events at the end.
LEMMA OutboxAfterType ==
    ASSUME NEW row \in Row, NEW events \in Seq(OutboxRow)
    PROVE  OutboxAfter(row, events) \in Seq(OutboxRow)
<1>1. NewEvent \in OutboxRow
    BY DEF NewEvent, OutboxRow, OutboxStates
<1>2. Append(events, NewEvent) \in Seq(OutboxRow)
    BY <1>1
<1>3. QED
    BY <1>2 DEF OutboxAfter

\* A job's events, each replaced by another event.
LEMMA MappedEvents ==
    ASSUME NEW events \in Seq(OutboxRow), NEW mapped \in [DOMAIN events -> OutboxRow]
    PROVE  mapped \in Seq(OutboxRow) /\ DOMAIN mapped = DOMAIN events
<1>1. DOMAIN events = 1..Len(events) /\ Len(events) \in Nat
    OBVIOUS
<1>2. QED
    BY <1>1

-----------------------------------------------------------------------------
(* Type correctness.                                                         *)

\* A live row is a Row.
LEMMA LiveRow ==
    ASSUME StoreTypeOK, NEW j \in JobIds, jobs[j] # NoRow
    PROVE  jobs[j] \in Row
BY DEF StoreTypeOK

\* What retention leaves of the tables is well formed.
LEMMA PruneTypes ==
    ASSUME StoreTypeOK
    PROVE  /\ JobsAfterPrune \in [JobIds -> Row \cup {NoRow}]
           /\ OutboxAfterPrune \in [JobIds -> Seq(OutboxRow)]
           /\ ManifestsAfterPrune \subseteq JobIds
BY DEF StoreTypeOK, JobsAfterPrune, OutboxAfterPrune, ManifestsAfterPrune, Prunable

\* Removing output directories leaves one of the three states each.
LEMMA PruneFilesTypes ==
    ASSUME StoreTypeOK, NEW failing, PruneFiles(failing)
    PROVE  deletions' \subseteq JobIds /\ files' \in [JobIds -> OutputDirs]
BY PruneTypes DEF StoreTypeOK, PruneFiles, OutputDirs

\* The terminal transaction of the recoveries.
LEMMA LoseJobsType ==
    ASSUME StoreTypeOK, NEW lost, lost \subseteq Live(jobs), LoseJobs(lost)
    PROVE  jobs' \in [JobIds -> Row \cup {NoRow}]
<1>1. \A j \in lost : Lost(jobs[j]) \in Row
    BY LiveRow, LostType DEF Live
<1>2. QED
    BY <1>1 DEF StoreTypeOK, LoseJobs

\* Every call, and the clock, keeps the tables well formed.
LEMMA TypePreserved ==
    ASSUME StoreTypeOK, [StoreNext]_storeVars
    PROVE  StoreTypeOK'
<1> USE DEF StoreTypeOK
<1>1. ASSUME NEW j \in JobIds, NEW t \in Tenants, NEW k \in Keys, NEW spec \in Specs,
             NEW failing, Submit(j, t, k, spec, failing)
      PROVE  StoreTypeOK'
    <2>1. [JobsAfterPrune EXCEPT ![j] = NewRow(t, k, spec)] \in [JobIds -> Row \cup {NoRow}]
        BY PruneTypes, NewRowType
    <2>2. PruneFiles(failing)
        BY <1>1 DEF Submit
    <2>3. deletions' \subseteq JobIds /\ files' \in [JobIds -> OutputDirs]
        BY <2>2, PruneFilesTypes
    <2>4. QED
        BY <1>1, <2>1, <2>3, PruneTypes DEF Submit
<1>2. ASSUME NEW j \in JobIds, NEW owner \in Owners, ClaimNext(j, owner)
      PROVE  StoreTypeOK'
    <2>1. jobs[j] \in Row
        BY <1>2, LiveRow DEF ClaimNext, InPhase, Live
    <2>2. Assigned(jobs[j], owner) \in Row
        BY <2>1, StoreAssumption, ClaimedRowType
    <2>3. QED
        BY <1>2, <2>2 DEF ClaimNext
<1>3. ASSUME NEW j \in JobIds, NEW attempt, NEW owner, MarkRunning(j, attempt, owner)
      PROVE  StoreTypeOK'
    <2>1. jobs[j] \in Row
        BY <1>3, LiveRow DEF MarkRunning, OwnedRow
    <2>2. Running(jobs[j]) \in Row
        BY <2>1, RunningRowType
    <2>3. QED
        BY <1>3, <2>2 DEF MarkRunning
<1>4. ASSUME NEW j \in JobIds, NEW attempt, NEW owner, NEW phase \in Results,
             NEW hasOutput \in BOOLEAN, Finish(j, attempt, owner, phase, hasOutput)
      PROVE  StoreTypeOK'
    <2>1. jobs[j] \in Row
        BY <1>4, LiveRow DEF Finish, OwnedRow
    <2>2. Completed(jobs[j], phase, hasOutput) \in Row
        BY <2>1, CompletedType, StoreAssumption
    <2>3. OutboxAfter(jobs[j], outbox[j]) \in Seq(OutboxRow)
        BY <2>1, OutboxAfterType
    <2>4. QED
        BY <1>4, <2>2, <2>3 DEF Finish
<1>5. ASSUME NEW j \in JobIds, RequestCancel(j)
      PROVE  StoreTypeOK'
    <2>1. jobs[j] \in Row
        BY <1>5, LiveRow DEF RequestCancel
    <2>2. CancelledRow(jobs[j]) \in Row
        BY <2>1, CancelledRowType
    <2>3. OutboxAfter(jobs[j], outbox[j]) \in Seq(OutboxRow)
        BY <2>1, OutboxAfterType
    <2>4. QED
        BY <1>5, <2>2, <2>3 DEF RequestCancel
<1>6. ASSUME RecoverInterrupted
      PROVE  StoreTypeOK'
    <2>1. jobs' \in [JobIds -> Row \cup {NoRow}]
        BY <1>6, LoseJobsType DEF RecoverInterrupted, InPhase
    <2>2. ASSUME NEW event \in OutboxRow
          PROVE  Resumed(event) \in OutboxRow
        BY DEF Resumed, OutboxRow, OutboxStates
    <2>3. ASSUME NEW j \in JobIds
          PROVE  outbox'[j] \in Seq(OutboxRow)
        <3> DEFINE resumed == [i \in DOMAIN outbox[j] |-> Resumed(outbox[j][i])]
        <3>1. outbox[j] \in Seq(OutboxRow)
            OBVIOUS
        <3>2. \A i \in DOMAIN outbox[j] : outbox[j][i] \in OutboxRow
            BY <3>1
        <3>3. resumed \in [DOMAIN outbox[j] -> OutboxRow]
            BY <2>2, <3>2
        <3>4. resumed \in Seq(OutboxRow)
            BY <3>1, <3>3, MappedEvents
        <3> HIDE DEF resumed
        <3>5. j \in InPhase(jobs, OwnedPhases) => jobs[j] \in Row
            BY LiveRow DEF InPhase, Live
        <3>6. outbox'[j] = IF j \in InPhase(jobs, OwnedPhases)
                           THEN OutboxAfter(jobs[j], resumed) ELSE resumed
            BY <1>6 DEF RecoverInterrupted, resumed
        <3>7. QED
            BY <3>4, <3>5, <3>6, OutboxAfterType
    <2>4. DOMAIN outbox' = JobIds /\ outbox' = [j \in JobIds |-> outbox'[j]]
        BY <1>6 DEF RecoverInterrupted
    <2>5. QED
        BY <1>6, <2>1, <2>3, <2>4 DEF RecoverInterrupted
<1>7. ASSUME NEW excluded, RecoverExpiredLeases(excluded)
      PROVE  StoreTypeOK'
    <2>1. jobs' \in [JobIds -> Row \cup {NoRow}]
        BY <1>7, LoseJobsType DEF RecoverExpiredLeases, ExpiredLeases, InPhase
    <2>2. \A j \in ExpiredLeases(excluded) : jobs[j] \in Row
        BY LiveRow DEF ExpiredLeases, InPhase, Live
    <2>3. \A j \in ExpiredLeases(excluded) :
              OutboxAfter(jobs[j], outbox[j]) \in Seq(OutboxRow)
        BY <2>2, OutboxAfterType DEF ExpiredLeases, InPhase, Live
    <2>4. QED
        BY <1>7, <2>1, <2>3 DEF RecoverExpiredLeases
<1>8. ASSUME NEW held, NEW owner, RenewLeases(held, owner)
      PROVE  StoreTypeOK'
    <2>1. \A j \in InPhase(jobs, OwnedPhases) : jobs[j] \in Row
        BY LiveRow DEF InPhase, Live
    <2>2. \A j \in InPhase(jobs, OwnedPhases) : WithLease(jobs[j], "held") \in Row
        BY <2>1, TimedRowTypes
    <2>3. QED
        BY <1>8, <2>2 DEF RenewLeases
<1>9. ASSUME NEW failing, PruneExpired(failing)
      PROVE  StoreTypeOK'
    <2>1. deletions' \subseteq JobIds /\ files' \in [JobIds -> OutputDirs]
        BY <1>9, PruneFilesTypes DEF PruneExpired
    <2>2. QED
        BY <1>9, <2>1, PruneTypes DEF PruneExpired
<1>10. ASSUME NEW cleaned, NEW forgotten, PruneInterrupted(cleaned, forgotten)
       PROVE  StoreTypeOK'
    BY <1>10, PruneTypes DEF PruneInterrupted, FinalizePartly, OutputDirs
<1>11. ASSUME NEW claimed, ClaimOutboxDue(claimed)
       PROVE  StoreTypeOK'
    <2>1. deliveries + 1 \in Nat
        OBVIOUS
    <2>2. ASSUME NEW event \in OutboxRow
          PROVE  /\ [event EXCEPT !.state = "delivering", !.due = FALSE,
                                  !.delivery = deliveries + 1] \in OutboxRow
                 /\ [event EXCEPT !.state = "pending", !.delivery = 0] \in OutboxRow
        BY <2>1 DEF OutboxRow, OutboxStates
    <2>3. ASSUME NEW j \in JobIds
          PROVE  outbox'[j] \in Seq(OutboxRow)
        <3> DEFINE mapped == [i \in DOMAIN outbox[j] |->
                     ClaimedEvent(outbox[j][i], <<j, i>> \in claimed, deliveries + 1)]
        <3>1. outbox[j] \in Seq(OutboxRow)
            OBVIOUS
        <3>2. \A i \in DOMAIN outbox[j] : outbox[j][i] \in OutboxRow
            BY <3>1
        <3>3. mapped \in [DOMAIN outbox[j] -> OutboxRow]
            BY <2>2, <3>2 DEF ClaimedEvent
        <3>4. mapped \in Seq(OutboxRow)
            BY <3>1, <3>3, MappedEvents
        <3>5. outbox'[j] = mapped
            BY <1>11 DEF ClaimOutboxDue
        <3>6. QED
            BY <3>4, <3>5
    <2>4. DOMAIN outbox' = JobIds /\ outbox' = [j \in JobIds |-> outbox'[j]]
        BY <1>11 DEF ClaimOutboxDue
    <2>5. QED
        BY <1>11, <2>1, <2>3, <2>4 DEF ClaimOutboxDue
<1>12. ASSUME NEW j \in JobIds, NEW i \in DOMAIN outbox[j], NEW event \in OutboxRow,
              outbox' = [outbox EXCEPT ![j][i] = event],
              UNCHANGED <<jobs, minted, deliveries, deletions, files>>
       PROVE  StoreTypeOK'
    <2>1. outbox[j] \in Seq(OutboxRow) /\ i \in 1..Len(outbox[j])
        OBVIOUS
    <2>2. [outbox[j] EXCEPT ![i] = event] \in Seq(OutboxRow)
        BY <2>1, ExceptSeq
    <2>3. QED
        BY <1>12, <2>2
<1>13. ASSUME NEW j \in JobIds, NEW i \in DOMAIN outbox[j], NEW d, NEW permanent \in BOOLEAN,
              OutboxDelivered(j, i, d) \/ OutboxFailed(j, i, d, permanent) \/ BecomesDue(j, i)
       PROVE  StoreTypeOK'
    <2>1. outbox[j][i] \in OutboxRow
        OBVIOUS
    <2>2. /\ Delivered(outbox[j][i]) \in OutboxRow
          /\ Due(outbox[j][i]) \in OutboxRow
          /\ Retried(outbox[j][i], permanent) \in OutboxRow
        BY <2>1, EventUpdateTypes
    <2>3. QED
        BY <1>12, <1>13, <2>2 DEF OutboxDelivered, OutboxFailed, BecomesDue
<1>14. ASSUME NEW j \in JobIds, LeaseExpires(j) \/ RetentionPasses(j)
       PROVE  StoreTypeOK'
    <2>1. jobs[j] \in Row
        BY <1>14, LiveRow DEF LeaseExpires, RetentionPasses, Terminal
    <2>2. WithLease(jobs[j], "expired") \in Row /\ Aged(jobs[j]) \in Row
        BY <2>1, TimedRowTypes
    <2>3. QED
        BY <1>14, <2>2 DEF LeaseExpires, RetentionPasses
<1>15. CASE OutputCall
    BY <1>15 DEF OutputCall, OutputNext, StageOutput, PublishOutput, RemoveOutput, Reconcile,
                 OutputDirs
<1>16. CASE UNCHANGED storeVars
    BY <1>16 DEF storeVars
<1> HIDE DEF StoreTypeOK
<1>17. CASE \E j \in JobIds : JobCall(j)
    BY <1>1, <1>2, <1>3, <1>4, <1>5, <1>17 DEF JobCall
<1>18. CASE Recovery
    BY <1>6, <1>7, <1>8, <1>9, <1>10, <1>18 DEF Recovery
<1>19. CASE OutboxCall
    BY <1>11, <1>13, <1>19 DEF OutboxCall
<1>20. CASE Clock
    BY <1>13, <1>14, <1>20 DEF Clock
<1>21. QED
    BY <1>15, <1>16, <1>17, <1>18, <1>19, <1>20 DEF StoreNext

\* The tables of the store are well formed in every reachable state.
THEOREM StoreTypeCorrect == StoreSpec => []StoreTypeOK
<1>1. StoreInit => StoreTypeOK
    BY DEF StoreInit, StoreTypeOK, OutputInit, OutputDirs
<1>2. StoreTypeOK /\ [StoreNext]_storeVars => StoreTypeOK'
    BY TypePreserved
<1>3. QED
    BY <1>1, <1>2, PTL DEF StoreSpec

-----------------------------------------------------------------------------
(* What one step does to one job.  Every safety property of the store is     *)
(* about a job's row and its events together, so each action is analysed     *)
(* once, into one of four effects, and the properties follow from those.     *)

\* A row that has ended has observed its intent, and a cancelled one is canceled.
Settled(row) ==
    row.phase \in TerminalPhases => /\ row.observed = row.generation
                                    /\ Cancelled(row) => row.phase = "canceled"

\* An update keeps what identifies the job, never puts it back into the queue
\* and keeps it settled.
RowUpdated(row, new) ==
    /\ new \in Row
    /\ new.tenant = row.tenant /\ new.key = row.key
    /\ new.spec.callback = row.spec.callback
    /\ new.phase = "queued" => row.phase = "queued"
    /\ Settled(row) => Settled(new)

Ends(row, new) == row.phase \notin TerminalPhases /\ new.phase \in TerminalPhases

\* Events are never dropped, and a settled one never changes.
EventsKept(j) ==
    /\ DOMAIN outbox[j] \subseteq DOMAIN outbox'[j]
    /\ \A i \in DOMAIN outbox[j] :
          ~Unsettled(outbox[j][i]) => outbox'[j][i] = outbox[j][i]

Unaffected(j) ==
    /\ jobs'[j] = jobs[j]
    /\ EventsKept(j) /\ Len(outbox'[j]) = Len(outbox[j])

Updated(j) ==
    /\ jobs[j] \in Row /\ RowUpdated(jobs[j], jobs'[j])
    /\ EventsKept(j)
    /\ Len(outbox'[j]) = IF Ends(jobs[j], jobs'[j]) /\ jobs[j].spec.callback
                         THEN Len(outbox[j]) + 1 ELSE Len(outbox[j])

Removed(j) ==
    /\ j \in Prunable
    /\ jobs'[j] = NoRow /\ outbox'[j] = <<>>
    /\ jobs[j].output => j \in deletions' \/ files'[j] = "none"

Inserted(j) ==
    /\ jobs[j] = NoRow /\ j \notin minted /\ j \in minted'
    /\ EventsKept(j) /\ Len(outbox'[j]) = Len(outbox[j])
    /\ \E t \in Tenants, k \in Keys, spec \in Specs :
          /\ jobs' = [JobsAfterPrune EXCEPT ![j] = NewRow(t, k, spec)]
          /\ SameKey(JobsAfterPrune, t, k) = {}
          /\ ~AdmissionFull(JobsAfterPrune, t)

Effect(j) == Unaffected(j) \/ Updated(j) \/ Removed(j) \/ Inserted(j)

\* The ids of the rows have all been minted: an id is never inserted twice.
RowsMinted == Live(jobs) \subseteq minted

\* The terminal update ends a job with what it has observed.
LEMMA CompletedUpdates ==
    ASSUME NEW row \in Row, NEW phase \in TerminalPhases, NEW hasOutput \in BOOLEAN
    PROVE  /\ RowUpdated(row, Completed(row, phase, hasOutput))
           /\ Completed(row, phase, hasOutput).phase \in TerminalPhases
<1> DEFINE new == Completed(row, phase, hasOutput)
<1>1. new \in Row
    BY CompletedType
<1>2. /\ new.tenant = row.tenant /\ new.key = row.key /\ new.spec = row.spec
      /\ new.observed = row.generation /\ new.generation = row.generation
      /\ new.phase = IF Cancelled(row) THEN "canceled" ELSE phase
    BY DEF Completed, Row
<1>3. new.phase \in TerminalPhases /\ new.phase # "queued"
    BY <1>2 DEF TerminalPhases
<1>4. Settled(new)
    BY <1>2 DEF Settled, Cancelled
<1>5. QED
    BY <1>1, <1>2, <1>3, <1>4 DEF RowUpdated

\* A cancel ends a queued job and only changes the intent of an owned one.
LEMMA CancelUpdates ==
    ASSUME NEW row \in Row, row.phase \notin TerminalPhases
    PROVE  /\ RowUpdated(row, CancelledRow(row))
           /\ Ends(row, CancelledRow(row)) <=> row.phase = "queued"
<1> DEFINE new == CancelledRow(row)
<1>1. new \in Row
    BY CancelledRowType
<1>2. /\ new.tenant = row.tenant /\ new.key = row.key
      /\ new.spec.callback = row.spec.callback
    BY DEF CancelledRow, Row, JobSpec
<1>3. CASE row.phase = "queued"
    <2>1. new.phase = "canceled" /\ new.observed = new.generation
        BY <1>3 DEF CancelledRow, Row
    <2>2. QED
        BY <1>1, <1>2, <1>3, <2>1 DEF RowUpdated, Settled, Ends, TerminalPhases
<1>4. CASE row.phase # "queued"
    <2>1. new.phase = row.phase
        BY <1>4 DEF CancelledRow, Row
    <2>2. QED
        BY <1>1, <1>2, <1>4, <2>1 DEF RowUpdated, Settled, Ends
<1>5. QED
    BY <1>3, <1>4

\* The updates that keep a job going.
LEMMA OngoingUpdates ==
    ASSUME NEW row \in Row, NEW owner \in Nat
    PROVE  /\ RowUpdated(row, Assigned(row, owner)) /\ ~Ends(row, Assigned(row, owner))
           /\ RowUpdated(row, Running(row)) /\ ~Ends(row, Running(row))
<1>1. Assigned(row, owner) \in Row /\ Running(row) \in Row
    BY ClaimedRowType, RunningRowType
<1>2. \A new \in {Assigned(row, owner), Running(row)} :
          /\ new.tenant = row.tenant /\ new.key = row.key /\ new.spec = row.spec
          /\ new.phase \in {"assigned", "running"}
    BY DEF Assigned, Running, Row
<1>3. \A new \in {Assigned(row, owner), Running(row)} :
          new.phase # "queued" /\ new.phase \notin TerminalPhases
    BY <1>2 DEF TerminalPhases
<1>4. QED
    BY <1>1, <1>2, <1>3 DEF RowUpdated, Settled, Ends

\* The updates of leases and of the clock.
LEMMA TimedUpdates ==
    ASSUME NEW row \in Row
    PROVE  \A new \in {WithLease(row, "held"), WithLease(row, "expired"), Aged(row)} :
              RowUpdated(row, new) /\ ~Ends(row, new)
<1> DEFINE Same(new) ==
              /\ new.tenant = row.tenant /\ new.key = row.key /\ new.spec = row.spec
              /\ new.phase = row.phase /\ new.observed = row.observed
              /\ new.generation = row.generation
<1>1. \A lease : Same(WithLease(row, lease))
    BY DEF WithLease, Row
<1>2. Same(Aged(row))
    BY DEF Aged, Row
<1>3. ASSUME NEW new \in Row, Same(new)
      PROVE  RowUpdated(row, new) /\ ~Ends(row, new)
    BY <1>3 DEF RowUpdated, Settled, Ends, Cancelled
<1>4. QED
    BY <1>1, <1>2, <1>3, TimedRowTypes

\* A new event comes after the others.
LEMMA OutboxAfterKeeps ==
    ASSUME NEW row \in Row, NEW events \in Seq(OutboxRow)
    PROVE  /\ DOMAIN events \subseteq DOMAIN OutboxAfter(row, events)
           /\ \A i \in DOMAIN events : OutboxAfter(row, events)[i] = events[i]
           /\ Len(OutboxAfter(row, events)) =
                 IF row.spec.callback THEN Len(events) + 1 ELSE Len(events)
<1>1. NewEvent \in OutboxRow
    BY DEF NewEvent, OutboxRow, OutboxStates
<1>2. QED
    BY <1>1 DEF OutboxAfter

\* A job whose row and events a step leaves alone.
LEMMA LeftAlone ==
    ASSUME NEW j, jobs'[j] = jobs[j], outbox'[j] = outbox[j]
    PROVE  Unaffected(j)
BY DEF Unaffected, EventsKept

\* A job whose row is updated while its events stay as they are.
LEMMA RowOnly ==
    ASSUME NEW j, jobs[j] \in Row, outbox'[j] = outbox[j],
           RowUpdated(jobs[j], jobs'[j]), ~Ends(jobs[j], jobs'[j])
    PROVE  Updated(j)
BY DEF Updated, EventsKept

\* A job that ends, with its notification intent.
LEMMA EndedWithEvent ==
    ASSUME NEW j, jobs[j] \in Row, NEW events \in Seq(OutboxRow),
           outbox[j] \in Seq(OutboxRow), Len(events) = Len(outbox[j]),
           \A i \in DOMAIN outbox[j] : ~Unsettled(outbox[j][i]) => events[i] = outbox[j][i],
           outbox'[j] = OutboxAfter(jobs[j], events),
           RowUpdated(jobs[j], jobs'[j]), Ends(jobs[j], jobs'[j])
    PROVE  Updated(j)
<1>1. DOMAIN events = DOMAIN outbox[j]
    OBVIOUS
<1>2. QED
    BY <1>1, OutboxAfterKeeps DEF Updated, EventsKept

\* A job retention removes, and one it does not.
LEMMA PruneEffect ==
    ASSUME StoreTypeOK, NEW j \in JobIds,
           jobs'[j] = JobsAfterPrune[j], outbox'[j] = OutboxAfterPrune[j],
           j \in ManifestsAfterPrune => j \in deletions' \/ files'[j] = "none"
    PROVE  Effect(j)
<1>1. CASE j \in Prunable
    BY <1>1 DEF Effect, Removed, JobsAfterPrune, OutboxAfterPrune, ManifestsAfterPrune
<1>2. CASE j \notin Prunable
    BY <1>2, LeftAlone DEF Effect, JobsAfterPrune, OutboxAfterPrune
<1>3. QED
    BY <1>1, <1>2

\* The output of a job retention removes stays on a manifest or is gone.
LEMMA PruneFilesKeeps ==
    ASSUME NEW failing, PruneFiles(failing), NEW j \in JobIds, j \in ManifestsAfterPrune
    PROVE  j \in deletions' \/ files'[j] = "none"
BY DEF PruneFiles

\* The recoveries end every job they find and keep its events.
LEMMA LostUpdates ==
    ASSUME StoreTypeOK, NEW j \in InPhase(jobs, OwnedPhases)
    PROVE  /\ jobs[j] \in Row
           /\ RowUpdated(jobs[j], Lost(jobs[j])) /\ Ends(jobs[j], Lost(jobs[j]))
<1>1. jobs[j] \in Row
    BY LiveRow DEF InPhase, Live
<1>2. jobs[j].output \in BOOLEAN /\ "executor_lost" \in TerminalPhases
    BY <1>1 DEF Row, TerminalPhases
<1>3. jobs[j].phase \notin TerminalPhases
    BY DEF InPhase, OwnedPhases, TerminalPhases
<1>4. QED
    BY <1>1, <1>2, <1>3, CompletedUpdates DEF Lost, Ends

\* Every step has one of the four effects on every job.
LEMMA StepEffect ==
    ASSUME StoreTypeOK, RowsMinted, StoreNext, NEW j \in JobIds
    PROVE  Effect(j)
<1>0. outbox[j] \in Seq(OutboxRow)
    BY DEF StoreTypeOK
<1>1. ASSUME NEW h \in JobIds, NEW t \in Tenants, NEW k \in Keys, NEW spec \in Specs,
             NEW failing, Submit(h, t, k, spec, failing)
      PROVE  Effect(j)
    <2>1. /\ j \in ManifestsAfterPrune => j \in deletions' \/ files'[j] = "none"
          /\ outbox'[j] = OutboxAfterPrune[j]
        BY <1>1, PruneFilesKeeps DEF Submit
    <2>2. CASE jobs' = JobsAfterPrune
        BY <2>1, <2>2, PruneEffect
    <2>3. CASE /\ SameKey(JobsAfterPrune, t, k) = {}
               /\ ~AdmissionFull(JobsAfterPrune, t)
               /\ minted' = minted \cup {h}
               /\ jobs' = [JobsAfterPrune EXCEPT ![h] = NewRow(t, k, spec)]
        <3>1. CASE j # h
            <4>1. jobs'[j] = JobsAfterPrune[j]
                BY <2>3, <3>1 DEF JobsAfterPrune
            <4>2. QED
                BY <2>1, <4>1, PruneEffect
        <3>2. CASE j = h
            <4>1. jobs[j] = NoRow /\ j \notin Prunable /\ j \notin minted
                BY <1>1, <3>2 DEF Submit, RowsMinted, Live, Prunable, Terminal
            <4>2. outbox'[j] = outbox[j]
                BY <2>1, <4>1 DEF OutboxAfterPrune
            <4>3. QED
                BY <2>3, <3>2, <4>1, <4>2 DEF Effect, Inserted, EventsKept
        <3>3. QED
            BY <3>1, <3>2
    <2>4. QED
        BY <1>1, <2>2, <2>3 DEF Submit
<1>2. ASSUME NEW h \in JobIds, NEW owner \in Owners, ClaimNext(h, owner)
      PROVE  Effect(j)
    <2>1. jobs[h] \in Row /\ owner \in Nat
        BY <1>2, LiveRow, StoreAssumption DEF ClaimNext, InPhase, Live
    <2>2. jobs' = [jobs EXCEPT ![h] = Assigned(jobs[h], owner)] /\ outbox' = outbox
        BY <1>2 DEF ClaimNext
    <2>3. QED
        BY <2>1, <2>2, OngoingUpdates, LeftAlone, RowOnly DEF Effect, StoreTypeOK
<1>3. ASSUME NEW h \in JobIds, NEW attempt, NEW owner, MarkRunning(h, attempt, owner)
      PROVE  Effect(j)
    <2>1. jobs[h] \in Row
        BY <1>3, LiveRow DEF MarkRunning, OwnedRow
    <2>2. jobs' = [jobs EXCEPT ![h] = Running(jobs[h])] /\ outbox' = outbox
        BY <1>3 DEF MarkRunning
    <2>3. RowUpdated(jobs[h], Running(jobs[h])) /\ ~Ends(jobs[h], Running(jobs[h]))
        BY <2>1, OngoingUpdates
    <2>4. QED
        BY <2>1, <2>2, <2>3, LeftAlone, RowOnly DEF Effect, StoreTypeOK
<1>4. ASSUME NEW h \in JobIds, NEW attempt, NEW owner, NEW phase \in Results,
             NEW hasOutput \in BOOLEAN, Finish(h, attempt, owner, phase, hasOutput)
      PROVE  Effect(j)
    <2>1. CASE UNCHANGED <<jobs, outbox>>
        BY <2>1, LeftAlone DEF Effect
    <2>2. CASE /\ jobs[h].phase \in OwnedPhases
               /\ jobs' = [jobs EXCEPT ![h] = Completed(jobs[h], phase, hasOutput)]
               /\ outbox' = [outbox EXCEPT ![h] = OutboxAfter(jobs[h], outbox[h])]
        <3>1. jobs[h] \in Row /\ phase \in TerminalPhases
            BY <1>4, LiveRow, StoreAssumption DEF Finish, OwnedRow
        <3>2. jobs[h].phase \notin TerminalPhases
            BY <2>2 DEF OwnedPhases, TerminalPhases
        <3>3. LET new == Completed(jobs[h], phase, hasOutput)
              IN  RowUpdated(jobs[h], new) /\ Ends(jobs[h], new)
            BY <3>1, <3>2, CompletedUpdates DEF Ends
        <3>4. CASE j = h
            <4>1. /\ jobs'[j] = Completed(jobs[j], phase, hasOutput)
                  /\ outbox'[j] = OutboxAfter(jobs[j], outbox[j])
                BY <2>2, <3>4 DEF StoreTypeOK
            <4>2. QED
                BY <1>0, <3>1, <3>3, <3>4, <4>1, EndedWithEvent DEF Effect
        <3>5. CASE j # h
            <4>1. jobs'[j] = jobs[j] /\ outbox'[j] = outbox[j]
                BY <2>2, <3>5 DEF StoreTypeOK
            <4>2. QED
                BY <4>1, LeftAlone DEF Effect
        <3>6. QED
            BY <3>4, <3>5
    <2>3. QED
        BY <1>4, <2>1, <2>2 DEF Finish
<1>5. ASSUME NEW h \in JobIds, RequestCancel(h)
      PROVE  Effect(j)
    <2>1. CASE UNCHANGED <<jobs, outbox>>
        BY <2>1, LeftAlone DEF Effect
    <2>2. CASE /\ ~Terminal(h)
               /\ jobs' = [jobs EXCEPT ![h] = CancelledRow(jobs[h])]
               /\ outbox' = [outbox EXCEPT ![h] = IF jobs[h].phase = "queued"
                                THEN OutboxAfter(jobs[h], outbox[h]) ELSE outbox[h]]
        <3>1. jobs[h] \in Row /\ jobs[h].phase \notin TerminalPhases
            BY <1>5, <2>2, LiveRow DEF RequestCancel, Terminal
        <3>2. /\ RowUpdated(jobs[h], CancelledRow(jobs[h]))
              /\ Ends(jobs[h], CancelledRow(jobs[h])) <=> jobs[h].phase = "queued"
            BY <3>1, CancelUpdates
        <3>3. CASE j = h
            <4>1. /\ jobs'[j] = CancelledRow(jobs[j])
                  /\ outbox'[j] = IF jobs[j].phase = "queued"
                                  THEN OutboxAfter(jobs[j], outbox[j]) ELSE outbox[j]
                BY <2>2, <3>3 DEF StoreTypeOK
            <4>2. QED
                BY <1>0, <3>1, <3>2, <3>3, <4>1, EndedWithEvent, RowOnly DEF Effect
        <3>4. CASE j # h
            <4>1. jobs'[j] = jobs[j] /\ outbox'[j] = outbox[j]
                BY <2>2, <3>4 DEF StoreTypeOK
            <4>2. QED
                BY <4>1, LeftAlone DEF Effect
        <3>5. QED
            BY <3>3, <3>4
    <2>3. QED
        BY <1>5, <2>1, <2>2 DEF RequestCancel
<1>6. ASSUME RecoverInterrupted
      PROVE  Effect(j)
    <2> DEFINE resumed == [i \in DOMAIN outbox[j] |-> Resumed(outbox[j][i])]
    <2>1. \A i \in DOMAIN outbox[j] : outbox[j][i] \in OutboxRow
        BY <1>0
    <2>2. \A event \in OutboxRow : /\ Resumed(event) \in OutboxRow
                                   /\ ~Unsettled(event) => Resumed(event) = event
        BY DEF Resumed, OutboxRow, OutboxStates, Unsettled
    <2>3. resumed \in [DOMAIN outbox[j] -> OutboxRow]
        BY <2>1, <2>2
    <2>4. resumed \in Seq(OutboxRow) /\ DOMAIN resumed = DOMAIN outbox[j]
        BY <1>0, <2>3, MappedEvents
    <2>5. Len(resumed) = Len(outbox[j])
        BY <1>0, <2>4
    <2>6. \A i \in DOMAIN outbox[j] : ~Unsettled(outbox[j][i]) => resumed[i] = outbox[j][i]
        BY <2>1, <2>2
    <2>7. /\ jobs'[j] = IF j \in InPhase(jobs, OwnedPhases) THEN Lost(jobs[j]) ELSE jobs[j]
          /\ outbox'[j] = IF j \in InPhase(jobs, OwnedPhases)
                          THEN OutboxAfter(jobs[j], resumed) ELSE resumed
        BY <1>6 DEF RecoverInterrupted, LoseJobs
    <2> HIDE DEF resumed
    <2>8. CASE j \in InPhase(jobs, OwnedPhases)
        BY <1>0, <2>4, <2>5, <2>6, <2>7, <2>8, LostUpdates, EndedWithEvent DEF Effect
    <2>9. CASE j \notin InPhase(jobs, OwnedPhases)
        BY <2>4, <2>5, <2>6, <2>7, <2>9 DEF Effect, Unaffected, EventsKept
    <2>10. QED
        BY <2>8, <2>9
<1>7. ASSUME NEW excluded, RecoverExpiredLeases(excluded)
      PROVE  Effect(j)
    <2>1. /\ jobs'[j] = IF j \in ExpiredLeases(excluded) THEN Lost(jobs[j]) ELSE jobs[j]
          /\ outbox'[j] = IF j \in ExpiredLeases(excluded)
                          THEN OutboxAfter(jobs[j], outbox[j]) ELSE outbox[j]
        BY <1>7 DEF RecoverExpiredLeases, LoseJobs
    <2>2. j \in ExpiredLeases(excluded) => j \in InPhase(jobs, OwnedPhases)
        BY DEF ExpiredLeases
    <2>3. QED
        BY <1>0, <2>1, <2>2, LostUpdates, EndedWithEvent, LeftAlone DEF Effect
<1>8. ASSUME NEW held, NEW owner, RenewLeases(held, owner)
      PROVE  Effect(j)
    <2>1. /\ \/ jobs'[j] = jobs[j]
             \/ jobs[j] # NoRow /\ jobs'[j] = WithLease(jobs[j], "held")
          /\ outbox'[j] = outbox[j]
        BY <1>8 DEF RenewLeases, InPhase, Live
    <2>2. QED
        BY <2>1, LiveRow, TimedUpdates, RowOnly, LeftAlone DEF Effect
<1>9. ASSUME NEW failing, PruneExpired(failing)
      PROVE  Effect(j)
    BY <1>9, PruneEffect, PruneFilesKeeps DEF PruneExpired
<1>10. ASSUME NEW cleaned, NEW forgotten, PruneInterrupted(cleaned, forgotten)
       PROVE  Effect(j)
    <2>1. CASE UNCHANGED <<jobs, outbox>>
        BY <2>1, LeftAlone DEF Effect
    <2>2. CASE /\ jobs' = JobsAfterPrune /\ outbox' = OutboxAfterPrune
               /\ FinalizePartly(ManifestsAfterPrune, cleaned, forgotten)
        BY <2>2, PruneEffect DEF FinalizePartly
    <2>3. QED
        BY <1>10, <2>1, <2>2 DEF PruneInterrupted
<1>11. ASSUME NEW claimed, ClaimOutboxDue(claimed)
       PROVE  Effect(j)
    <2>1. jobs'[j] = jobs[j] /\ claimed \subseteq DueEvents
        BY <1>11 DEF ClaimOutboxDue
    <2>2. \A i \in DOMAIN outbox[j] : <<j, i>> \in claimed => Unsettled(outbox[j][i])
        BY <2>1 DEF DueEvents
    <2>3. outbox'[j] = [i \in DOMAIN outbox[j] |->
                     ClaimedEvent(outbox[j][i], <<j, i>> \in claimed, deliveries + 1)]
        BY <1>11 DEF ClaimOutboxDue
    <2>4. DOMAIN outbox'[j] = DOMAIN outbox[j]
        BY <2>3
    <2>5. \A i \in DOMAIN outbox[j] :
              ~Unsettled(outbox[j][i]) => outbox'[j][i] = outbox[j][i]
        BY <2>2, <2>3 DEF ClaimedEvent, Unsettled
    <2>6. outbox'[j] \in Seq(OutboxRow)
        BY TypePreserved DEF StoreTypeOK
    <2>7. Len(outbox'[j]) = Len(outbox[j])
        BY <1>0, <2>4, <2>6
    <2>8. QED
        BY <2>1, <2>4, <2>5, <2>7 DEF Effect, Unaffected, EventsKept
<1>12. ASSUME NEW h \in JobIds, NEW i \in DOMAIN outbox[h], NEW event,
              Unsettled(outbox[h][i]), outbox' = [outbox EXCEPT ![h][i] = event], jobs' = jobs
       PROVE  Effect(j)
    <2>1. outbox'[j] = IF j = h THEN [outbox[j] EXCEPT ![i] = event] ELSE outbox[j]
        BY <1>12 DEF StoreTypeOK
    <2>2. DOMAIN outbox'[j] = DOMAIN outbox[j]
        BY <2>1
    <2>3. \A n \in DOMAIN outbox[j] :
              ~Unsettled(outbox[j][n]) => outbox'[j][n] = outbox[j][n]
        BY <1>12, <2>1
    <2>4. outbox'[j] \in Seq(OutboxRow)
        BY TypePreserved DEF StoreTypeOK
    <2>5. Len(outbox'[j]) = Len(outbox[j])
        BY <1>0, <2>2, <2>4
    <2>6. QED
        BY <1>12, <2>2, <2>3, <2>5 DEF Effect, Unaffected, EventsKept
<1>13. ASSUME NEW h \in JobIds, NEW i \in DOMAIN outbox[h], NEW d, NEW permanent,
              OutboxDelivered(h, i, d) \/ OutboxFailed(h, i, d, permanent) \/ BecomesDue(h, i)
       PROVE  Effect(j)
    <2>1. Unsettled(outbox[h][i]) /\ jobs' = jobs
        BY <1>13 DEF OutboxDelivered, OutboxFailed, BecomesDue, Fenced, Unsettled
    <2>2. QED
        BY <1>12, <1>13, <2>1 DEF OutboxDelivered, OutboxFailed, BecomesDue
<1>14. ASSUME NEW h \in JobIds, LeaseExpires(h) \/ RetentionPasses(h)
       PROVE  Effect(j)
    <2>1. jobs[h] \in Row
        BY <1>14, LiveRow DEF LeaseExpires, RetentionPasses, Terminal
    <2>2. /\ outbox' = outbox
          /\ \/ jobs' = [jobs EXCEPT ![h] = WithLease(jobs[h], "expired")]
             \/ jobs' = [jobs EXCEPT ![h] = Aged(jobs[h])]
        BY <1>14 DEF LeaseExpires, RetentionPasses
    <2>3. QED
        BY <2>1, <2>2, TimedUpdates, RowOnly, LeftAlone DEF Effect, StoreTypeOK
<1>15. CASE OutputCall
    BY <1>15, LeftAlone DEF OutputCall, Effect
<1>16. CASE \E h \in JobIds : JobCall(h)
    BY <1>1, <1>2, <1>3, <1>4, <1>5, <1>16 DEF JobCall
<1>17. CASE Recovery
    BY <1>6, <1>7, <1>8, <1>9, <1>10, <1>17 DEF Recovery
<1>18. CASE OutboxCall
    BY <1>11, <1>13, <1>18 DEF OutboxCall
<1>19. CASE Clock
    BY <1>13, <1>14, <1>19 DEF Clock
<1>20. QED
    BY <1>15, <1>16, <1>17, <1>18, <1>19 DEF StoreNext

-----------------------------------------------------------------------------
(* The safety invariants.                                                    *)

FiniteRows == IsFiniteSet(Live(jobs))

RowsSettled == \A j \in Live(jobs) : Settled(jobs[j])

\* The inductive invariant.
StoreInv ==
    /\ StoreTypeOK
    /\ RowsMinted
    /\ RowsSettled
    /\ NotificationCommitted
    /\ UniqueKeys
    /\ FiniteRows /\ AdmissionBounds

\* An id, once minted, stays minted.
LEMMA MintedGrows ==
    ASSUME StoreNext
    PROVE  minted \subseteq minted'
BY DEF StoreNext, JobCall, Recovery, OutboxCall, OutputCall, Clock, Submit, ClaimNext,
       MarkRunning, Finish, RequestCancel, RecoverInterrupted, RecoverExpiredLeases,
       RenewLeases, PruneExpired, PruneInterrupted, ClaimOutboxDue, OutboxDelivered,
       OutboxFailed, LeaseExpires, RetentionPasses, BecomesDue

\* What a step that inserts a job writes, and what it leaves of the others.
LEMMA BesidesInserted ==
    ASSUME StoreTypeOK, NEW j \in JobIds, Inserted(j)
    PROVE  \E t \in Tenants, k \in Keys :
              /\ jobs'[j] # NoRow /\ JobsAfterPrune[j] = NoRow
              /\ jobs'[j].tenant = t /\ jobs'[j].key = k /\ jobs'[j].phase = "queued"
              /\ \A i \in JobIds \ {j} : jobs'[i] = JobsAfterPrune[i]
              /\ SameKey(JobsAfterPrune, t, k) = {}
              /\ ~AdmissionFull(JobsAfterPrune, t)
<1>1. PICK t \in Tenants, k \in Keys, spec \in Specs :
          /\ jobs' = [JobsAfterPrune EXCEPT ![j] = NewRow(t, k, spec)]
          /\ SameKey(JobsAfterPrune, t, k) = {}
          /\ ~AdmissionFull(JobsAfterPrune, t)
    BY DEF Inserted
<1>2. jobs'[j] = NewRow(t, k, spec) /\ \A i \in JobIds \ {j} : jobs'[i] = JobsAfterPrune[i]
    BY <1>1 DEF JobsAfterPrune
<1>3. JobsAfterPrune[j] = NoRow
    BY DEF Inserted, JobsAfterPrune
<1>4. NewRow(t, k, spec) # NoRow
    BY NewRowType, StoreAssumption
<1>5. /\ NewRow(t, k, spec).tenant = t /\ NewRow(t, k, spec).key = k
      /\ NewRow(t, k, spec).phase = "queued"
    BY DEF NewRow
<1>6. QED
    BY <1>1, <1>2, <1>3, <1>4, <1>5

\* Only minted ids have rows, after every step too.
LEMMA RowsMintedPreserved ==
    ASSUME StoreTypeOK, RowsMinted, StoreNext
    PROVE  RowsMinted'
<1> SUFFICES ASSUME NEW j \in JobIds, jobs'[j] # NoRow
             PROVE  j \in minted'
    BY DEF RowsMinted, Live
<1>1. CASE Inserted(j)
    BY <1>1 DEF Inserted
<1>2. CASE ~Inserted(j)
    <2>1. jobs[j] # NoRow
        BY <1>2, StepEffect, StoreAssumption DEF Effect, Unaffected, Updated, Removed
    <2>2. QED
        BY <2>1, MintedGrows DEF RowsMinted, Live
<1>3. QED
    BY <1>1, <1>2

\* No step unsettles a row.
LEMMA SettledPreserved ==
    ASSUME StoreTypeOK, RowsMinted, RowsSettled, StoreNext
    PROVE  RowsSettled'
<1> SUFFICES ASSUME NEW j \in JobIds, jobs'[j] # NoRow
             PROVE  Settled(jobs'[j])
    BY DEF RowsSettled, Live, Settled, Cancelled
<1>1. CASE Inserted(j)
    <2>1. jobs'[j].phase = "queued"
        BY <1>1, BesidesInserted
    <2>2. QED
        BY <2>1 DEF Settled, TerminalPhases
<1>2. CASE ~Inserted(j)
    BY <1>2, StepEffect, StoreAssumption
    DEF Effect, Unaffected, Updated, Removed, RowUpdated, RowsSettled, Live
<1>3. QED
    BY <1>1, <1>2

\* A notification intent comes with the end of a job, and goes with its row.
LEMMA NotificationPreserved ==
    ASSUME StoreTypeOK, RowsMinted, NotificationCommitted, StoreNext
    PROVE  NotificationCommitted'
<1> SUFFICES ASSUME NEW j \in JobIds
             PROVE  /\ (Terminal(j))' /\ jobs'[j].spec.callback => outbox'[j] # <<>>
                    /\ outbox'[j] # <<>> => jobs'[j] # NoRow /\ jobs'[j].spec.callback
    BY DEF NotificationCommitted
<1>1. outbox[j] \in Seq(OutboxRow) /\ outbox'[j] \in Seq(OutboxRow)
    BY TypePreserved DEF StoreTypeOK
<1>2. /\ outbox[j] = <<>> <=> Len(outbox[j]) = 0
      /\ outbox'[j] = <<>> <=> Len(outbox'[j]) = 0
      /\ Len(outbox[j]) \in Nat
    BY <1>1, EmptySeq
<1>3. /\ Terminal(j) /\ jobs[j].spec.callback => outbox[j] # <<>>
      /\ outbox[j] # <<>> => jobs[j] # NoRow /\ jobs[j].spec.callback
    BY DEF NotificationCommitted
<1>4. CASE Unaffected(j)
    BY <1>2, <1>3, <1>4 DEF Unaffected, Terminal
<1>5. CASE Updated(j)
    <2>1. jobs[j] # NoRow /\ jobs'[j] # NoRow /\ jobs'[j].spec.callback = jobs[j].spec.callback
        BY <1>5, StoreAssumption DEF Updated, RowUpdated
    <2>2. QED
        BY <1>2, <1>3, <1>5, <2>1 DEF Updated, Terminal, Ends
<1>6. CASE Removed(j)
    BY <1>6 DEF Removed, Terminal
<1>7. CASE Inserted(j)
    <2>1. outbox'[j] = <<>>
        BY <1>2, <1>3, <1>7 DEF Inserted
    <2>2. jobs'[j].phase = "queued"
        BY <1>7, BesidesInserted
    <2>3. QED
        BY <2>1, <2>2 DEF Terminal, TerminalPhases
<1>8. QED
    BY <1>4, <1>5, <1>6, <1>7, StepEffect DEF Effect

\* A job that is not inserted keeps its tenant, key and place outside the queue.
LEMMA NotInserted ==
    ASSUME StoreTypeOK, RowsMinted, StoreNext, NEW j \in JobIds, ~Inserted(j),
           jobs'[j] # NoRow
    PROVE  /\ jobs[j] # NoRow
           /\ jobs'[j].tenant = jobs[j].tenant /\ jobs'[j].key = jobs[j].key
           /\ jobs'[j].phase = "queued" => jobs[j].phase = "queued"
BY StepEffect, StoreAssumption DEF Effect, Unaffected, Updated, Removed, RowUpdated

\* No two rows come to share a tenant and key.
LEMMA UniqueKeysPreserved ==
    ASSUME StoreTypeOK, RowsMinted, UniqueKeys, StoreNext
    PROVE  UniqueKeys'
<1>1. ASSUME NEW i \in JobIds, NEW j \in JobIds, jobs'[i] # NoRow, jobs'[j] # NoRow,
             jobs'[i].tenant = jobs'[j].tenant, jobs'[i].key = jobs'[j].key, Inserted(j)
      PROVE  i = j
    <2>1. PICK t \in Tenants, k \in Keys :
              /\ jobs'[j].tenant = t /\ jobs'[j].key = k
              /\ \A h \in JobIds \ {j} : jobs'[h] = JobsAfterPrune[h]
              /\ SameKey(JobsAfterPrune, t, k) = {}
        BY <1>1, BesidesInserted
    <2>2. QED
        BY <1>1, <2>1 DEF SameKey, Live
<1>2. ASSUME NEW i \in JobIds, NEW j \in JobIds, jobs'[i] # NoRow, jobs'[j] # NoRow,
             jobs'[i].tenant = jobs'[j].tenant, jobs'[i].key = jobs'[j].key,
             ~Inserted(i), ~Inserted(j)
      PROVE  i = j
    BY <1>2, NotInserted DEF UniqueKeys, Live
<1>3. ASSUME NEW i \in JobIds, NEW j \in JobIds, jobs'[i] # NoRow, jobs'[j] # NoRow,
             jobs'[i].tenant = jobs'[j].tenant, jobs'[i].key = jobs'[j].key
      PROVE  i = j
    BY <1>1, <1>2, <1>3
<1>4. QED
    BY <1>3 DEF UniqueKeys, Live

\* One more element in a finite set that was below its limit.
LEMMA OneMore ==
    ASSUME NEW S, NEW T, NEW x, IsFiniteSet(S), T \subseteq S \cup {x},
           NEW limit \in Nat, ~(Cardinality(S) >= limit)
    PROVE  IsFiniteSet(T) /\ Cardinality(T) <= limit
<1>1. /\ IsFiniteSet(S \cup {x})
      /\ Cardinality(S \cup {x}) = IF x \in S THEN Cardinality(S) ELSE Cardinality(S) + 1
    BY FS_AddElement
<1>2. IsFiniteSet(T) /\ Cardinality(T) <= Cardinality(S \cup {x})
    BY <1>1, FS_Subset
<1>3. Cardinality(S) \in Nat /\ Cardinality(T) \in Nat
    BY <1>2, FS_CardinalityType
<1>4. QED
    BY <1>1, <1>2, <1>3

\* A part of a finite set that is within its limit.
LEMMA NoMore ==
    ASSUME NEW S, NEW T, IsFiniteSet(S), T \subseteq S,
           NEW limit \in Nat, Cardinality(S) <= limit
    PROVE  IsFiniteSet(T) /\ Cardinality(T) <= limit
<1>1. IsFiniteSet(T) /\ Cardinality(T) <= Cardinality(S)
    BY FS_Subset
<1>2. Cardinality(S) \in Nat /\ Cardinality(T) \in Nat
    BY <1>1, FS_CardinalityType
<1>3. QED
    BY <1>1, <1>2

Queued(rows) == InPhase(rows, {"queued"})
QueuedOf(rows, t) == {j \in InPhase(rows, {"queued"}) : rows[j].tenant = t}

\* Admission stays within the three limits.
LEMMA BoundsPreserved ==
    ASSUME StoreTypeOK, RowsMinted, FiniteRows, AdmissionBounds, StoreNext
    PROVE  (FiniteRows /\ AdmissionBounds)'
<1> DEFINE After == JobsAfterPrune
<1>1. /\ IsFiniteSet(Live(jobs)) /\ Cardinality(Live(jobs)) <= MaxJobs
      /\ Cardinality(Queued(jobs)) <= MaxQueued
      /\ \A t \in Tenants : Cardinality(QueuedOf(jobs, t)) <= MaxQueuedPerTenant
    BY DEF FiniteRows, AdmissionBounds, Queued, QueuedOf
<1>2. MaxJobs \in Nat /\ MaxQueued \in Nat /\ MaxQueuedPerTenant \in Nat
    BY StoreAssumption
<1>3. /\ Live(After) \subseteq Live(jobs)
      /\ \A t : QueuedOf(After, t) \subseteq QueuedOf(jobs, t)
      /\ Queued(After) \subseteq Live(After) /\ Queued(jobs) \subseteq Live(jobs)
      /\ \A t : /\ QueuedOf(After, t) \subseteq Live(After)
                /\ QueuedOf(jobs, t) \subseteq Live(jobs)
    BY DEF JobsAfterPrune, Live, InPhase, Queued, QueuedOf
<1>4. /\ IsFiniteSet(Live(After)) /\ IsFiniteSet(Queued(After))
      /\ IsFiniteSet(Queued(jobs))
      /\ \A t : IsFiniteSet(QueuedOf(After, t)) /\ IsFiniteSet(QueuedOf(jobs, t))
    BY <1>1, <1>3, FS_Subset
<1>5. CASE \E j \in JobIds : Inserted(j)
    <2>1. PICK j \in JobIds, t \in Tenants :
              /\ jobs'[j].tenant = t
              /\ \A i \in JobIds \ {j} : jobs'[i] = After[i]
              /\ ~AdmissionFull(After, t)
        BY <1>5, BesidesInserted
    <2>2. /\ Live(jobs') \subseteq Live(After) \cup {j}
          /\ Queued(jobs') \subseteq Queued(After) \cup {j}
          /\ QueuedOf(jobs', t) \subseteq QueuedOf(After, t) \cup {j}
          /\ \A u \in Tenants \ {t} : QueuedOf(jobs', u) \subseteq QueuedOf(After, u)
        BY <2>1 DEF Live, InPhase, Queued, QueuedOf
    <2>3. /\ ~(Cardinality(Live(After)) >= MaxJobs)
          /\ ~(Cardinality(Queued(After)) >= MaxQueued)
          /\ ~(Cardinality(QueuedOf(After, t)) >= MaxQueuedPerTenant)
        BY <2>1 DEF AdmissionFull, Queued, QueuedOf
    <2>4. IsFiniteSet(Live(jobs')) /\ Cardinality(Live(jobs')) <= MaxJobs
        BY <1>2, <1>4, <2>2, <2>3, OneMore
    <2>5. Cardinality(Queued(jobs')) <= MaxQueued
        BY <1>2, <1>4, <2>2, <2>3, OneMore
    <2>6. Cardinality(QueuedOf(jobs', t)) <= MaxQueuedPerTenant
        BY <1>2, <1>4, <2>2, <2>3, OneMore
    <2>7. ASSUME NEW u \in Tenants \ {t}
          PROVE  Cardinality(QueuedOf(jobs', u)) <= MaxQueuedPerTenant
        <3>1. QueuedOf(jobs', u) \subseteq QueuedOf(jobs, u)
            BY <1>3, <2>2
        <3>2. QED
            BY <1>1, <1>2, <1>4, <3>1, NoMore
    <2>8. \A u \in Tenants : Cardinality(QueuedOf(jobs', u)) <= MaxQueuedPerTenant
        BY <2>6, <2>7
    <2>9. QED
        BY <2>4, <2>5, <2>8 DEF FiniteRows, AdmissionBounds, Live, InPhase, Queued, QueuedOf
<1>6. CASE \A j \in JobIds : ~Inserted(j)
    <2>1. /\ Live(jobs') \subseteq Live(jobs)
          /\ Queued(jobs') \subseteq Queued(jobs)
          /\ \A u \in Tenants : QueuedOf(jobs', u) \subseteq QueuedOf(jobs, u)
        BY <1>6, NotInserted DEF Live, InPhase, Queued, QueuedOf
    <2>2. IsFiniteSet(Live(jobs')) /\ Cardinality(Live(jobs')) <= MaxJobs
        BY <1>1, <1>2, <2>1, NoMore
    <2>3. Cardinality(Queued(jobs')) <= MaxQueued
        BY <1>1, <1>2, <1>4, <2>1, NoMore
    <2>4. ASSUME NEW u \in Tenants
          PROVE  Cardinality(QueuedOf(jobs', u)) <= MaxQueuedPerTenant
        BY <1>1, <1>2, <1>4, <2>1, NoMore
    <2>5. QED
        BY <2>2, <2>3, <2>4 DEF FiniteRows, AdmissionBounds, Live, InPhase, Queued, QueuedOf
<1>7. QED
    BY <1>5, <1>6

\* The inductive invariant holds initially ...
LEMMA StoreInvInit == StoreInit => StoreInv
<1> SUFFICES ASSUME StoreInit
             PROVE  StoreInv
    OBVIOUS
<1>1. StoreTypeOK
    BY DEF StoreInit, StoreTypeOK, OutputInit, OutputDirs
<1>2. Live(jobs) = {} /\ InPhase(jobs, {"queued"}) = {}
    BY DEF StoreInit, Live, InPhase
<1>3. IsFiniteSet({}) /\ Cardinality({}) = 0
    BY FS_EmptySet
<1>4. \A t \in Tenants : {j \in InPhase(jobs, {"queued"}) : jobs[j].tenant = t} = {}
    BY <1>2
<1>5. FiniteRows /\ AdmissionBounds
    BY <1>2, <1>3, <1>4, StoreAssumption DEF FiniteRows, AdmissionBounds
<1>6. RowsMinted /\ RowsSettled /\ UniqueKeys
    BY <1>2 DEF RowsMinted, RowsSettled, UniqueKeys
<1>7. NotificationCommitted
    BY DEF StoreInit, NotificationCommitted, Terminal
<1>8. QED
    BY <1>1, <1>5, <1>6, <1>7 DEF StoreInv

\* ... and every step preserves it.
LEMMA StoreInvNext == StoreInv /\ [StoreNext]_storeVars => StoreInv'
<1> SUFFICES ASSUME StoreInv, [StoreNext]_storeVars
             PROVE  StoreInv'
    OBVIOUS
<1>1. CASE StoreNext
    BY <1>1, TypePreserved, RowsMintedPreserved, SettledPreserved, NotificationPreserved,
       UniqueKeysPreserved, BoundsPreserved DEF StoreInv
<1>2. CASE UNCHANGED storeVars
    BY <1>2 DEF storeVars, StoreInv, StoreTypeOK, RowsMinted, RowsSettled,
       NotificationCommitted, UniqueKeys, FiniteRows, AdmissionBounds, Live, InPhase, Terminal
<1>3. QED
    BY <1>1, <1>2

\* The inductive invariant is an invariant.
THEOREM StoreInvariant == StoreSpec => []StoreInv
BY StoreInvInit, StoreInvNext, PTL DEF StoreSpec

\* Every job that has ended has observed its last intent (finish, request_cancel
\* and both recoveries).
THEOREM TerminalObservedHolds == StoreSpec => []TerminalObserved
<1>1. StoreInv => TerminalObserved
    BY DEF StoreInv, RowsSettled, Settled, TerminalObserved, Terminal, Live
<1>2. QED
    BY <1>1, StoreInvariant, PTL

\* A job whose intent is cancelled ends in no other phase than canceled.
THEOREM CancelWinsHolds == StoreSpec => []CancelWins
<1>1. StoreInv => CancelWins
    BY DEF StoreInv, RowsSettled, Settled, CancelWins, Terminal, Live
<1>2. QED
    BY <1>1, StoreInvariant, PTL

\* The end of a job with a callback is committed with its notification intent.
THEOREM NotificationCommittedHolds == StoreSpec => []NotificationCommitted
<1>1. StoreInv => NotificationCommitted
    BY DEF StoreInv
<1>2. QED
    BY <1>1, StoreInvariant, PTL

\* Idempotency: one row for each tenant and key.
THEOREM UniqueKeysHold == StoreSpec => []UniqueKeys
<1>1. StoreInv => UniqueKeys
    BY DEF StoreInv
<1>2. QED
    BY <1>1, StoreInvariant, PTL

\* max_jobs, max_queued_jobs and max_queued_jobs_per_tenant are never exceeded.
THEOREM AdmissionBoundsHold == StoreSpec => []AdmissionBounds
<1>1. StoreInv => AdmissionBounds
    BY DEF StoreInv
<1>2. QED
    BY <1>1, StoreInvariant, PTL

\* No step drops a notification that is still to be delivered, or changes one
\* that is settled.
THEOREM NoNotificationLostHolds == StoreSpec => NoNotificationLost
<1> DEFINE Kept == \A j \in JobIds : \A i \in DOMAIN outbox[j] :
          /\ Unsettled(outbox[j][i]) => i \in DOMAIN outbox'[j]
          /\ ~Unsettled(outbox[j][i]) /\ i \in DOMAIN outbox'[j]
                => outbox'[j][i] = outbox[j][i]
<1>1. StoreInv /\ [StoreNext]_storeVars => [Kept]_storeVars
    <2> SUFFICES ASSUME StoreInv, StoreNext, NEW j \in JobIds, NEW i \in DOMAIN outbox[j]
                 PROVE  /\ Unsettled(outbox[j][i]) => i \in DOMAIN outbox'[j]
                        /\ ~Unsettled(outbox[j][i]) /\ i \in DOMAIN outbox'[j]
                              => outbox'[j][i] = outbox[j][i]
        OBVIOUS
    <2>1. Effect(j)
        BY StepEffect DEF StoreInv
    <2>2. CASE Removed(j)
        <3>1. ~Unsettled(outbox[j][i]) /\ DOMAIN outbox'[j] = {}
            BY <2>2 DEF Removed, Prunable
        <3>2. QED
            BY <3>1
    <2>3. CASE EventsKept(j)
        BY <2>3 DEF EventsKept
    <2>4. QED
        BY <2>1, <2>2, <2>3 DEF Effect, Unaffected, Updated, Inserted
<1>2. QED
    BY <1>1, StoreInvariant, PTL DEF StoreSpec, NoNotificationLost

\* No step forgets output: a row that goes leaves a manifest, or no files.
THEOREM OutputNeverForgottenHolds == StoreSpec => OutputNeverForgotten
<1> DEFINE Remembered == \A j \in JobIds :
          jobs[j] # NoRow /\ jobs[j].output /\ jobs'[j] = NoRow
             => j \in deletions' \/ files'[j] = "none"
<1>1. StoreInv /\ [StoreNext]_storeVars => [Remembered]_storeVars
    <2> SUFFICES ASSUME StoreInv, StoreNext, NEW j \in JobIds,
                        jobs[j] # NoRow, jobs[j].output, jobs'[j] = NoRow
                 PROVE  j \in deletions' \/ files'[j] = "none"
        OBVIOUS
    <2>1. Effect(j)
        BY StepEffect DEF StoreInv
    <2>2. ~Updated(j) /\ ~Unaffected(j) /\ ~Inserted(j)
        BY StoreAssumption DEF Updated, Unaffected, Inserted, RowUpdated
    <2>3. QED
        BY <2>1, <2>2 DEF Effect, Removed
<1>2. QED
    BY <1>1, StoreInvariant, PTL DEF StoreSpec, OutputNeverForgotten

=============================================================================
