-------------------------- MODULE JobServiceProofs --------------------------
(***************************************************************************)
(* What JobService guarantees for every number of controllers, workers,    *)
(* jobs, faults and restarts: its calls are calls the store's own theorems *)
(* speak about, its state is well formed, no job starts twice, and no more *)
(* jobs are claimed than the pool has threads.                             *)
(***************************************************************************)
EXTENDS JobService, JobStoreProofs

-----------------------------------------------------------------------------
(* The inductive invariant of the service's calls on the store.              *)

\* A controller's place in its loop and its locals.
CtlState == [pc : CtlPcs, job : JobIds \cup {0}, capacity : Int, excluded : SUBSET JobIds]

\* The part of the type invariant that is not the store's.
ServiceTypeOK ==
    /\ svc \in {"down", "open", "up", "stopping", "draining"}
    /\ restarts \in 0..MaxRestarts
    /\ faults \in 0..MaxFaults
    /\ ctl \in [Controllers -> CtlState]
    /\ inflight \subseteq JobIds /\ detached \subseteq JobIds /\ signals \subseteq JobIds
    /\ active \in [JobIds -> {"none", "starting", "session"}]
    /\ ex \in [JobIds -> [pc : ExecPcs, attempt : Nat]]
    /\ sess \in [JobIds -> SessionStates]
    /\ starts \in [JobIds -> Nat]

\* A delivery in progress carries an id the store has issued.
DeliveriesIssued ==
    \A j \in JobIds : \A i \in DOMAIN outbox[j] :
        outbox[j][i].state = "delivering" => outbox[j][i].delivery \in 1..deliveries

\* Output is written, and a result reported, for a session that has ended.
ResultKnown ==
    \A j \in JobIds : ex[j].pc \in {"staging", "finish"} => sess[j] \in SessionResults

\* Whom _schedule_lock admits, what it holds, and that it is a job.
Scheduler ==
    /\ \A b, c \in Scheduling : b = c
    /\ \A c \in Controllers : ctl[c].pc \in {"claimed", "submit"} => ctl[c].job \in JobIds

\* Nobody works on the store's rows while the service is down or being opened.
QuietWhenDown ==
    svc \in {"down", "open"} =>
        /\ \A c \in Controllers : ctl[c].pc = "idle"
        /\ \A j \in JobIds : ex[j] = IdleExec /\ active[j] = "none"
        /\ inflight = {} /\ detached = {} /\ signals = {}

\* _inflight is finite: its length is what capacity is computed from.
InflightFinite == IsFiniteSet(inflight)

\* A graceful stop is begun within the bound on restarts.
StopBounded == Stopping => restarts < MaxRestarts

ServiceInv ==
    /\ StoreInv
    /\ ServiceTypeOK
    /\ DeliveriesIssued
    /\ ResultKnown
    /\ Scheduler
    /\ QuietWhenDown
    /\ StopBounded
    /\ InflightFinite

\* An id that was never inserted, or a job that still waits to be claimed.
Fresh(j) == j \notin minted \/ j \in InPhase(jobs, {"queued"})

Held(c, j) == ctl[c].pc \in {"claimed", "submit"} /\ ctl[c].job = j

Early == {"pool", "precancel", "register"}

\* A job is started by the one executor its one claim leads to.
StartInv ==
    /\ \A j \in JobIds : Fresh(j) \/ (\E c \in Controllers : Held(c, j)) =>
          ex[j].pc = "none" /\ starts[j] = 0
    /\ \A c \in Controllers, j \in JobIds : Held(c, j) => ~Fresh(j)
    /\ \A j \in JobIds : ex[j].pc \in Early => starts[j] = 0
    /\ \A j \in JobIds : starts[j] <= 1

\* Who holds a thread of the pool or is about to.
Claimed == {ctl[c].job : c \in {b \in Controllers : ctl[b].pc = "claimed"}}

CapacityInv ==
    /\ {j \in JobIds : ex[j].attempt # 0} \subseteq inflight \cup Claimed
    /\ Cardinality(inflight) <= Workers
    /\ \A c \in Scheduling :
          /\ ctl[c].capacity >= 0
          /\ IF ctl[c].pc = "claimed"
             THEN ctl[c].capacity + Cardinality(inflight) < Workers
             ELSE ctl[c].capacity + Cardinality(inflight) <= Workers

-----------------------------------------------------------------------------
(* Every step of the service is a call of the store, or leaves it alone.     *)

\* finish, as the executor calls it: with the attempt and owner of the row.
LEMMA FinishCall ==
    ASSUME NEW j \in JobIds, NEW phase \in Results, NEW hasOutput \in BOOLEAN,
           Finish(j, ex[j].attempt, worker_id, phase, hasOutput)
    PROVE  StoreNext
<1>1. ex[j].attempt = jobs[j].attempt /\ worker_id = jobs[j].owner
    BY DEF Finish, OwnedRow
<1>2. Finish(j, jobs[j].attempt, jobs[j].owner, phase, hasOutput)
    BY <1>1
<1>3. QED
    BY <1>2 DEF StoreNext, JobCall

\* mark_running, as the executor calls it.
LEMMA MarkRunningCall ==
    ASSUME NEW j \in JobIds, MarkRunning(j, ex[j].attempt, worker_id)
    PROVE  StoreNext
<1>1. ex[j].attempt = jobs[j].attempt /\ worker_id = jobs[j].owner
    BY DEF MarkRunning, OwnedRow
<1>2. MarkRunning(j, jobs[j].attempt, jobs[j].owner)
    BY <1>1
<1>3. QED
    BY <1>2 DEF StoreNext, JobCall

\* The leases of any set of <<job, attempt>> pairs: only pairs that name the
\* row's attempt count, and those are the pairs of live rows.
LEMMA RenewCall ==
    ASSUME NEW held, NEW owner \in Owners, RenewLeases(held, owner)
    PROVE  StoreNext
<1> DEFINE mine == {j \in Live(jobs) : <<j, jobs[j].attempt>> \in held}
           pairs == {<<j, jobs[j].attempt>> : j \in mine}
<1>1. \A j \in Live(jobs) : <<j, jobs[j].attempt>> \in held <=> <<j, jobs[j].attempt>> \in pairs
    OBVIOUS
<1>2. \A j \in InPhase(jobs, OwnedPhases) : j \in Live(jobs)
    BY DEF InPhase
<1> HIDE DEF pairs
<1>3. RenewLeases(pairs, owner)
    BY <1>1, <1>2 DEF RenewLeases
<1>4. mine \in SUBSET Live(jobs)
    OBVIOUS
<1>5. QED
    BY <1>3, <1>4 DEF StoreNext, Recovery, pairs

\* A report of the dispatcher carries the id the event was claimed with.
LEMMA ReportCall ==
    ASSUME DeliveriesIssued, NEW j \in JobIds, NEW i \in DOMAIN outbox[j],
           NEW permanent \in BOOLEAN,
           \/ OutboxDelivered(j, i, outbox[j][i].delivery)
           \/ OutboxFailed(j, i, outbox[j][i].delivery, permanent)
    PROVE  StoreNext
<1>1. outbox[j][i].state = "delivering"
    BY DEF OutboxDelivered, OutboxFailed, Fenced
<1>2. outbox[j][i].delivery \in 1..deliveries
    BY <1>1 DEF DeliveriesIssued
<1>3. QED
    BY <1>2 DEF StoreNext, OutboxCall

\* The calls of an executor thread.
LEMMA ExecCalls ==
    ASSUME ServiceInv, NEW j \in JobIds, ExecStep(j)
    PROVE  StoreNext \/ UNCHANGED storeVars
<1>1. {"succeeded", "failed", "timed_out", "canceled", "executor_lost"} \subseteq Results
    BY ServiceAssumption
<1>2. CASE ExecRefuse(j) \/ ExecPreCancel(j) \/ ExecFail(j) \/ ExecInterrupted(j)
    BY <1>1, <1>2, FinishCall
    DEF ExecRefuse, ExecPreCancel, ExecFail, ExecInterrupted, Commits, Raises, CommitsAndRaises
<1>3. CASE ExecFinish(j)
    <2>1. sess[j] \in Results
        BY <1>1, <1>3 DEF ServiceInv, ResultKnown, ExecFinish, At, SessionResults
    <2>2. QED
        BY <1>3, <2>1, FinishCall DEF ExecFinish, Commits, Raises, CommitsAndRaises
<1>4. CASE ExecMarkRunning(j)
    BY <1>4, MarkRunningCall DEF ExecMarkRunning, Raises
<1>5. CASE ExecStageOutput(j) \/ ExecPublishOutput(j) \/ ExecDiscardOutput(j)
    <2>1. UNCHANGED <<jobs, minted, outbox, deliveries, deletions>>
        BY <1>5 DEF ExecStageOutput, ExecPublishOutput, ExecDiscardOutput
    <2>2. StageOutput(j) \/ PublishOutput(j) \/ RemoveOutput(j) \/ UNCHANGED files
        BY <1>5 DEF ExecStageOutput, ExecPublishOutput, ExecDiscardOutput
    <2>3. QED
        BY <2>1, <2>2 DEF StoreNext, OutputCall, OutputNext, storeVars
<1>6. CASE \/ ExecReadIntent(j) \/ ExecRegister(j) \/ ExecRecheckStop(j) \/ ExecStart(j)
           \/ ExecCancelIfAsked(j) \/ ExecDispose(j) \/ ExecCleanup(j) \/ ExecDone(j)
    BY <1>6 DEF ExecReadIntent, ExecRegister, ExecRecheckStop, ExecStart, ExecCancelIfAsked,
                ExecDispose, ExecCleanup, ExecDone
<1>7. QED
    BY <1>2, <1>3, <1>4, <1>5, <1>6 DEF ExecStep

\* prune_expired, interrupted.
LEMMA PruneFailsCall ==
    ASSUME PruneFails
    PROVE  StoreNext
BY DEF PruneFails, StoreNext, Recovery

\* The calls of a controller thread.
LEMMA CtlCalls ==
    ASSUME ServiceInv, NEW c \in Controllers, CtlStep(c)
    PROVE  StoreNext \/ UNCHANGED storeVars
<1>1. worker_id \in Owners
    BY ServiceAssumption DEF ServiceInv, ServiceTypeOK, worker_id
<1>2. ManifestsAfterPrune \subseteq JobIds
    BY PruneTypes DEF ServiceInv, StoreInv
<1>3. CASE \E j \in JobIds : CtlClaim(c, j)
    BY <1>1, <1>3 DEF CtlClaim, StoreNext, JobCall
<1>4. CASE CtlRenew(c)
    BY <1>1, <1>4, RenewCall DEF CtlRenew
<1>5. CASE CtlRecover(c)
    <2>1. ctl[c].excluded \in SUBSET JobIds
        BY DEF ServiceInv, ServiceTypeOK, CtlState
    <2>2. QED
        BY <1>5, <2>1 DEF CtlRecover, StoreNext, Recovery
<1>6. CASE CtlPrune(c)
    <2>1. CASE PruneFails
        BY <2>1, PruneFailsCall
    <2>2. CASE \E failing \in SUBSET ManifestsAfterPrune : PruneExpired(failing)
        BY <1>2, <2>2 DEF StoreNext, Recovery
    <2>3. QED
        BY <1>6, <2>1, <2>2 DEF CtlPrune
<1>7. CASE \/ CtlBegin(c) \/ CtlClaimDone(c) \/ CtlAddInflight(c) \/ CtlSubmit(c)
           \/ CtlSnapshot(c) \/ CtlNotDue(c)
    BY <1>7 DEF CtlBegin, CtlClaimDone, CtlAddInflight, CtlSubmit, CtlSnapshot, CtlNotDue
<1>8. QED
    BY <1>3, <1>4, <1>5, <1>6, <1>7 DEF CtlStep

\* The calls of the API.
LEMMA ClientCalls ==
    ASSUME ServiceInv, NEW j \in JobIds,
           ClientSubmit(j) \/ ClientCancel(j) \/ SignalRun(j) \/ SessionEnds(j)
              \/ SessionCancelled(j)
    PROVE  StoreNext \/ UNCHANGED storeVars
<1>1. ManifestsAfterPrune \subseteq JobIds
    BY PruneTypes DEF ServiceInv, StoreInv
<1>2. CASE ClientSubmit(j)
    <2>1. CASE PruneFails
        BY <2>1, PruneFailsCall
    <2>2. CASE \E t \in Tenants, k \in Keys, spec \in Specs,
                  failing \in SUBSET ManifestsAfterPrune : Submit(j, t, k, spec, failing)
        BY <1>1, <2>2 DEF StoreNext, JobCall
    <2>3. QED
        BY <1>2, <2>1, <2>2 DEF ClientSubmit
<1>3. CASE ClientCancel(j)
    BY <1>3 DEF ClientCancel, StoreNext, JobCall
<1>4. CASE SignalRun(j) \/ SessionEnds(j) \/ SessionCancelled(j)
    BY <1>4 DEF SignalRun, SessionEnds, SessionCancelled
<1>5. QED
    BY <1>2, <1>3, <1>4

\* Every step of the service is a call the store's specification allows.
LEMMA StoreCalls ==
    ASSUME ServiceInv, Next
    PROVE  StoreNext \/ UNCHANGED storeVars
<1>1. CASE \E j \in JobIds : JobStep(j)
    BY <1>1, ExecCalls, ClientCalls DEF JobStep
<1>2. CASE \E c \in Controllers : CtlStep(c)
    BY <1>2, CtlCalls
<1>3. CASE Dispatch
    <2>1. CASE \E claimed \in SUBSET DueEvents : ClaimOutboxDue(claimed)
        BY <2>1 DEF StoreNext, OutboxCall
    <2>2. CASE \E j \in JobIds : \E i \in DOMAIN outbox[j] :
             \/ OutboxDelivered(j, i, outbox[j][i].delivery)
             \/ \E permanent \in BOOLEAN :
                   OutboxFailed(j, i, outbox[j][i].delivery, permanent)
        BY <2>2, ReportCall DEF ServiceInv
    <2>3. QED
        BY <1>3, <2>1, <2>2 DEF Dispatch
<1>4. CASE Time
    BY <1>4 DEF Time, StoreNext
<1>5. CASE Open
    <2>1. Referenced \in SUBSET JobIds
        BY DEF Referenced, Live, ServiceInv, StoreInv, StoreTypeOK
    <2>2. QED
        BY <1>5, <2>1 DEF Open, StoreNext, OutputCall, OutputNext
<1>6. CASE Start
    BY <1>6 DEF Start, StoreNext, Recovery
<1>7. CASE CloseStop \/ CloseSignal \/ CloseDone \/ Crash
    BY <1>7 DEF CloseStop, CloseSignal, CloseDone, Crash
<1>8. QED
    BY <1>1, <1>2, <1>3, <1>4, <1>5, <1>6, <1>7 DEF Next, ServiceStep

-----------------------------------------------------------------------------
(* Delivery ids.                                                             *)

Issued(events, n) ==
    \A i \in DOMAIN events : events[i].state = "delivering" => events[i].delivery \in 1..n

\* A notification intent is not a delivery.
LEMMA IssuedAfter ==
    ASSUME NEW events \in Seq(OutboxRow), NEW n, Issued(events, n), NEW row \in Row
    PROVE  Issued(OutboxAfter(row, events), n)
<1>1. NewEvent.state = "pending"
    BY DEF NewEvent
<1>2. CASE row.spec.callback
    <2>1. OutboxAfter(row, events) = Append(events, NewEvent)
        BY <1>2 DEF OutboxAfter
    <2>2. /\ DOMAIN Append(events, NewEvent) = 1..(Len(events) + 1)
          /\ \A i \in 1..Len(events) : Append(events, NewEvent)[i] = events[i]
          /\ Append(events, NewEvent)[Len(events) + 1] = NewEvent
        OBVIOUS
    <2>3. QED
        BY <1>1, <2>1, <2>2 DEF Issued
<1>3. CASE ~row.spec.callback
    BY <1>3 DEF OutboxAfter
<1>4. QED
    BY <1>2, <1>3

\* The store issues delivery ids in order and forgets those of the deliveries
\* it takes back or settles.
LEMMA DeliveriesIssuedPreserved ==
    ASSUME StoreInv, DeliveriesIssued, StoreNext
    PROVE  DeliveriesIssued'
<1> SUFFICES ASSUME NEW j \in JobIds
             PROVE  Issued(outbox'[j], deliveries')
    BY DEF DeliveriesIssued, Issued
<1>1. /\ Issued(outbox[j], deliveries) /\ Issued(<<>>, deliveries)
      /\ outbox[j] \in Seq(OutboxRow) /\ deliveries \in Nat
      /\ outbox \in [JobIds -> Seq(OutboxRow)]
    BY DEF DeliveriesIssued, Issued, StoreInv, StoreTypeOK
<1>2. jobs[j] # NoRow => Issued(OutboxAfter(jobs[j], outbox[j]), deliveries)
    BY <1>1, IssuedAfter, LiveRow DEF StoreInv
<1>3. Issued(OutboxAfterPrune[j], deliveries)
    BY <1>1 DEF OutboxAfterPrune
<1>4. CASE \E h \in JobIds : JobCall(h)
    <2>1. PICK h \in JobIds : JobCall(h)
        BY <1>4
    <2>2. CASE \E t \in Tenants, k \in Keys, spec \in Specs, failing \in SUBSET JobIds :
                  Submit(h, t, k, spec, failing)
        BY <1>3, <2>2 DEF Submit
    <2>3. CASE \/ \E owner \in Owners : ClaimNext(h, owner)
               \/ MarkRunning(h, jobs[h].attempt, jobs[h].owner)
        BY <1>1, <2>3 DEF ClaimNext, MarkRunning
    <2>4. ASSUME NEW phase \in Results, NEW hasOutput \in BOOLEAN,
                 Finish(h, jobs[h].attempt, jobs[h].owner, phase, hasOutput)
          PROVE  Issued(outbox'[j], deliveries')
        <3>1. /\ jobs[h] # NoRow /\ deliveries' = deliveries
              /\ outbox' = outbox \/ outbox' = [outbox EXCEPT ![h] = OutboxAfter(jobs[h], outbox[h])]
            BY <2>4 DEF Finish, OwnedRow
        <3>2. QED
            BY <1>1, <1>2, <3>1
    <2>5. CASE RequestCancel(h)
        <3>1. /\ jobs[h] # NoRow /\ deliveries' = deliveries
              /\ \/ outbox' = outbox
                 \/ outbox' = [outbox EXCEPT ![h] = OutboxAfter(jobs[h], outbox[h])]
                 \/ outbox' = [outbox EXCEPT ![h] = outbox[h]]
            BY <2>5 DEF RequestCancel
        <3>2. QED
            BY <1>1, <1>2, <3>1
    <2>6. QED
        BY <2>1, <2>2, <2>3, <2>4, <2>5 DEF JobCall
<1>5. CASE RecoverInterrupted
    <2> DEFINE resumed == [i \in DOMAIN outbox[j] |-> Resumed(outbox[j][i])]
    <2>1. \A i \in DOMAIN outbox[j] : outbox[j][i] \in OutboxRow
        BY <1>1
    <2>2. \A event \in OutboxRow : Resumed(event) \in OutboxRow /\ Resumed(event).state # "delivering"
        BY DEF Resumed, OutboxRow, OutboxStates
    <2>3. resumed \in [DOMAIN outbox[j] -> OutboxRow]
        BY <2>1, <2>2
    <2>4. resumed \in Seq(OutboxRow)
        BY <1>1, <2>3, MappedEvents
    <2>5. Issued(resumed, deliveries)
        BY <2>1, <2>2 DEF Issued
    <2>6. /\ deliveries' = deliveries
          /\ outbox'[j] = IF j \in InPhase(jobs, OwnedPhases)
                          THEN OutboxAfter(jobs[j], resumed) ELSE resumed
        BY <1>5 DEF RecoverInterrupted
    <2> HIDE DEF resumed
    <2>7. j \in InPhase(jobs, OwnedPhases) => jobs[j] \in Row
        BY LiveRow DEF InPhase, Live, StoreInv
    <2>8. QED
        BY <2>4, <2>5, <2>6, <2>7, IssuedAfter
<1>6. CASE \E excluded \in SUBSET JobIds : RecoverExpiredLeases(excluded)
    BY <1>1, <1>2, <1>6 DEF RecoverExpiredLeases, ExpiredLeases, InPhase, Live
<1>7. CASE Recovery
    BY <1>1, <1>3, <1>5, <1>6, <1>7 DEF Recovery, RenewLeases, PruneExpired, PruneInterrupted
<1>8. ASSUME NEW claimed, ClaimOutboxDue(claimed)
      PROVE  Issued(outbox'[j], deliveries')
    <2>1. /\ deliveries' = deliveries + 1
          /\ outbox'[j] = [i \in DOMAIN outbox[j] |->
                  ClaimedEvent(outbox[j][i], <<j, i>> \in claimed, deliveries + 1)]
        BY <1>8 DEF ClaimOutboxDue
    <2>2. ASSUME NEW i \in DOMAIN outbox[j], outbox'[j][i].state = "delivering"
          PROVE  outbox'[j][i].delivery \in 1..(deliveries + 1)
        <3>1. outbox[j][i] \in OutboxRow
            BY <1>1
        <3>2. CASE <<j, i>> \in claimed
            <4>1. outbox'[j][i] = [outbox[j][i] EXCEPT !.state = "delivering", !.due = FALSE,
                                                       !.delivery = deliveries + 1]
                BY <2>1, <3>2 DEF ClaimedEvent
            <4>2. outbox'[j][i].delivery = deliveries + 1
                BY <3>1, <4>1 DEF OutboxRow
            <4>3. QED
                BY <1>1, <4>2
        <3>3. CASE <<j, i>> \notin claimed
            <4>0. outbox'[j][i] = IF outbox[j][i].state = "delivering" /\ outbox[j][i].due
                     THEN [outbox[j][i] EXCEPT !.state = "pending", !.delivery = 0]
                     ELSE outbox[j][i]
                BY <2>1, <3>3 DEF ClaimedEvent
            <4>1. outbox'[j][i] = outbox[j][i]
                BY <2>2, <3>1, <4>0 DEF OutboxRow
            <4>2. outbox[j][i].delivery \in 1..deliveries
                BY <1>1, <2>2, <4>1 DEF Issued
            <4>3. QED
                BY <1>1, <4>1, <4>2
        <3>4. QED
            BY <3>2, <3>3
    <2>3. DOMAIN outbox'[j] = DOMAIN outbox[j]
        BY <2>1
    <2>4. QED
        BY <2>1, <2>2, <2>3 DEF Issued
<1>9. ASSUME NEW h \in JobIds, NEW i \in DOMAIN outbox[h], NEW event \in OutboxRow,
             outbox' = [outbox EXCEPT ![h][i] = event], deliveries' = deliveries,
             event.state = "delivering" => event = Due(outbox[h][i])
      PROVE  Issued(outbox'[j], deliveries')
    <2>1. outbox[h][i] \in OutboxRow
        BY <1>1
    <2>2. event.state = "delivering" =>
              outbox[h][i].state = "delivering" /\ event.delivery = outbox[h][i].delivery
        BY <1>9, <2>1 DEF Due, OutboxRow
    <2>3. CASE j = h
        BY <1>1, <1>9, <2>2, <2>3 DEF Issued
    <2>4. CASE j # h
        BY <1>1, <1>9, <2>4
    <2>5. QED
        BY <2>3, <2>4
<1>10. ASSUME NEW h \in JobIds, NEW i \in DOMAIN outbox[h], NEW d, NEW permanent \in BOOLEAN,
              OutboxDelivered(h, i, d) \/ OutboxFailed(h, i, d, permanent) \/ BecomesDue(h, i)
       PROVE  Issued(outbox'[j], deliveries')
    <2>1. outbox[h][i] \in OutboxRow
        BY <1>1
    <2>2. /\ Delivered(outbox[h][i]) \in OutboxRow /\ Retried(outbox[h][i], permanent) \in OutboxRow
          /\ Due(outbox[h][i]) \in OutboxRow
        BY <2>1, EventUpdateTypes
    <2>3. /\ Delivered(outbox[h][i]).state # "delivering"
          /\ Retried(outbox[h][i], permanent).state # "delivering"
        BY <2>1 DEF Delivered, Retried, OutboxRow
    <2>4. QED
        BY <1>9, <1>10, <2>2, <2>3 DEF OutboxDelivered, OutboxFailed, BecomesDue
<1>11. CASE OutboxCall
    BY <1>8, <1>10, <1>11 DEF OutboxCall
<1>12. CASE OutputCall
    BY <1>1, <1>12 DEF OutputCall
<1>13. CASE Clock
    BY <1>1, <1>10, <1>13 DEF Clock, LeaseExpires, RetentionPasses
<1>14. QED
    BY <1>4, <1>7, <1>11, <1>12, <1>13 DEF StoreNext

-----------------------------------------------------------------------------
(* What the steps of the threads do to the state outside the store.          *)

\* _execute_job goes on to another of its steps: the edges of its control flow
\* that the invariants tell apart.
Advances(j, to) ==
    /\ ex[j].pc \notin {"none", "done"} /\ to \in ExecPcs \ {"none", "pool"}
    /\ ex' = [ex EXCEPT ![j].pc = to]
    /\ to \in Early => ex[j].pc = "pool"
    /\ to \in Executing => ex[j].pc \in Executing
    /\ to = "staging" => ex[j].pc = "waiting" /\ sess[j] \in SessionResults
    /\ to = "finish" => ex[j].pc = "staging"
    /\ to = "discard" => ex[j].pc = "finish"
    /\ ex[j].pc \in {"waiting", "staging"} => sess' = sess
    /\ inflight' = inflight
    /\ starts' = IF ex[j].pc = "register" THEN [starts EXCEPT ![j] = @ + 1] ELSE starts

\* The done callback.
Retires(j) ==
    /\ ex[j].pc = "done"
    /\ ex' = [ex EXCEPT ![j] = IdleExec]
    /\ inflight' = IF j \in detached THEN inflight ELSE inflight \ {j}
    /\ UNCHANGED <<active, sess, starts>>

\* Types of what an executor changes besides its own place.
ExecTypes ==
    /\ active' \in [JobIds -> {"none", "starting", "session"}]
    /\ sess' \in [JobIds -> SessionStates]
    /\ faults' \in 0..MaxFaults

\* A call that fails is counted, within the bound.
LEMMA FaultCounted ==
    ASSUME ServiceTypeOK, UNCHANGED faults \/ \E kind : Fault(kind)
    PROVE  faults' \in 0..MaxFaults
<1>1. faults \in 0..MaxFaults /\ MaxFaults \in Nat
    BY ServiceAssumption DEF ServiceTypeOK
<1>2. CASE UNCHANGED faults
    BY <1>1, <1>2
<1>3. CASE \E kind : Fault(kind)
    BY <1>1, <1>3 DEF Fault
<1>4. QED
    BY <1>2, <1>3

\* The executor's step changes its own place and what goes with it; it leaves
\* the controllers, the other jobs and the life of the service alone.
LEMMA ExecShape ==
    ASSUME ServiceTypeOK, NEW j \in JobIds, ExecStep(j)
    PROVE  /\ Serving /\ UNCHANGED <<ctl, detached, signals, svc, restarts>>
           /\ (\E to : Advances(j, to)) \/ Retires(j)
           /\ \A i \in JobIds \ {j} : sess'[i] = sess[i] /\ active'[i] = active[i]
           /\ ExecTypes
<1> DEFINE Shape == /\ Serving /\ UNCHANGED <<ctl, detached, signals, svc, restarts>>
                    /\ (\E to : Advances(j, to)) \/ Retires(j)
                    /\ \A i \in JobIds \ {j} : sess'[i] = sess[i] /\ active'[i] = active[i]
                    /\ ExecTypes
<1>1. faults' \in 0..MaxFaults
    <2>1. UNCHANGED faults \/ \E kind : Fault(kind)
        BY DEF ExecStep, ExecRefuse, ExecReadIntent, ExecPreCancel, ExecRegister,
           ExecRecheckStop, ExecStart, ExecMarkRunning, ExecCancelIfAsked, ExecStageOutput,
           ExecPublishOutput, ExecFinish, ExecDispose, ExecDiscardOutput, ExecFail,
           ExecInterrupted, ExecCleanup, ExecDone, Commits, Raises, CommitsAndRaises
    <2>2. QED
        BY <2>1, FaultCounted
<1>2. ASSUME NEW to \in ExecPcs, Goto(j, to), UNCHANGED <<active, sess>>
      PROVE  /\ ex' = [ex EXCEPT ![j].pc = to] /\ ExecTypes
             /\ \A i \in JobIds \ {j} : sess'[i] = sess[i] /\ active'[i] = active[i]
    BY <1>1, <1>2 DEF Goto, ExecTypes, ServiceTypeOK
<1>3. CASE ExecRefuse(j) \/ ExecReadIntent(j) \/ ExecPreCancel(j)
    <2>1. /\ Serving /\ UNCHANGED <<schedVars, active, sess, signals, starts, svc, restarts>>
          /\ ex[j].pc \in {"pool", "precancel"}
        BY <1>3 DEF ExecRefuse, ExecReadIntent, ExecPreCancel, At
    <2>2. \E to \in {"cleanup", "failing", "precancel", "register"} :
             Goto(j, to) /\ (to \in Early => ex[j].pc = "pool")
        BY <1>3 DEF ExecRefuse, ExecReadIntent, ExecPreCancel, Early, At
    <2>3. QED
        BY <1>2, <2>1, <2>2 DEF schedVars, Advances, ExecPcs, Early, Executing
<1>4. CASE ExecRegister(j) \/ ExecRecheckStop(j) \/ ExecStart(j)
    <2>1. CASE ExecRegister(j)
        BY <1>1, <2>1 DEF ExecRegister, At, Goto, Advances, ExecPcs, Early, Executing, ExecTypes,
                     ServiceTypeOK, schedVars, SessionStates
    <2>2. CASE ExecRecheckStop(j)
        BY <1>1, <2>2 DEF ExecRecheckStop, At, Goto, Advances, ExecPcs, Early, Executing, ExecTypes,
                     ServiceTypeOK, schedVars, SessionStates
    <2>3. CASE ExecStart(j)
        BY <1>1, <2>3 DEF ExecStart, At, Goto, Advances, ExecPcs, Early, Executing, ExecTypes,
                     ServiceTypeOK, schedVars, SessionStates
    <2>4. QED
        BY <1>4, <2>1, <2>2, <2>3
<1>5. CASE ExecMarkRunning(j)
    <2>1. /\ Serving /\ UNCHANGED <<schedVars, sess, signals, starts, svc, restarts>>
          /\ ex[j].pc = "started" /\ active' = [active EXCEPT ![j] = "session"]
        BY <1>5 DEF ExecMarkRunning, At
    <2>2. \E to \in {"marked", "markedCancel", "failing"} : Goto(j, to)
        BY <1>5 DEF ExecMarkRunning
    <2>3. QED
        BY <1>1, <2>1, <2>2 DEF schedVars, Advances, ExecPcs, Early, Executing, ExecTypes,
                                ServiceTypeOK, Goto
<1>6. CASE ExecCancelIfAsked(j)
    <2>1. /\ Serving /\ UNCHANGED <<schedVars, active, signals, starts, svc, restarts>>
          /\ ex[j].pc \in {"marked", "markedCancel"}
        BY <1>6 DEF ExecCancelIfAsked, At
    <2>2. \E to \in {"waiting", "failing"} : Goto(j, to)
        BY <1>6 DEF ExecCancelIfAsked
    <2>3. CancelSession(j) \/ UNCHANGED sess
        BY <1>6 DEF ExecCancelIfAsked
    <2>4. QED
        BY <1>1, <2>1, <2>2, <2>3 DEF schedVars, Advances, ExecPcs, Early, Executing, ExecTypes,
                                ServiceTypeOK, Goto, CancelSession, SessionStates
<1>7. CASE ExecStageOutput(j) \/ ExecPublishOutput(j) \/ ExecFinish(j) \/ ExecDispose(j)
    <2>1. /\ Serving /\ UNCHANGED <<schedVars, active, sess, signals, starts, svc, restarts>>
          /\ ex[j].pc \in {"waiting", "staging", "finish", "dispose"}
          /\ ex[j].pc = "waiting" => sess[j] \in SessionResults
        BY <1>7 DEF ExecStageOutput, ExecPublishOutput, ExecFinish, ExecDispose, At
    <2>2. \E to \in {"staging", "failing", "finish", "dispose", "discard", "cleanup"} :
             /\ Goto(j, to)
             /\ to = "staging" => ex[j].pc = "waiting"
             /\ to = "finish" => ex[j].pc = "staging"
             /\ to = "discard" => ex[j].pc = "finish"
        BY <1>7 DEF ExecStageOutput, ExecPublishOutput, ExecFinish, ExecDispose, At
    <2>3. QED
        BY <1>2, <2>1, <2>2 DEF schedVars, Advances, ExecPcs, Early, Executing
<1>8. CASE ExecDiscardOutput(j) \/ ExecFail(j) \/ ExecInterrupted(j)
    <2>1. /\ Serving /\ UNCHANGED <<schedVars, active, sess, signals, starts, svc, restarts>>
          /\ ex[j].pc \in {"discard", "failing", "interrupted"}
          /\ Goto(j, "failing") \/ Goto(j, "cleanup")
        BY <1>8 DEF ExecDiscardOutput, ExecFail, ExecInterrupted, At
    <2>2. QED
        BY <1>2, <2>1 DEF schedVars, Advances, ExecPcs, Early, Executing
<1>9. CASE ExecCleanup(j)
    BY <1>1, <1>9 DEF ExecCleanup, At, Goto, Advances, ExecPcs, Early, Executing, ExecTypes,
                      ServiceTypeOK, schedVars, SessionStates
<1>10. CASE ExecDone(j)
    BY <1>1, <1>10 DEF ExecDone, At, Retires, ExecTypes, ServiceTypeOK
<1>11. Shape
    BY <1>3, <1>4, <1>5, <1>6, <1>7, <1>8, <1>9, <1>10 DEF ExecStep
<1>12. QED
    BY <1>11

\* The steps of everybody else but the controllers: sessions, the API, the
\* dispatcher, the clock, and the ones that open, start and begin to stop.
AsideStep ==
    \/ \E j \in JobIds : \/ SessionEnds(j) \/ SessionCancelled(j)
                         \/ ClientSubmit(j) \/ ClientCancel(j) \/ SignalRun(j)
    \/ Dispatch \/ Time \/ CloseStop \/ CloseSignal \/ Open \/ Start

\* They leave the threads and their jobs where they are.
LEMMA AsideShape ==
    ASSUME ServiceTypeOK, AsideStep
    PROVE  /\ UNCHANGED <<ctl, inflight, detached, active, ex, starts, restarts>>
           /\ \A i \in JobIds : sess[i] \in SessionResults => sess'[i] = sess[i]
           /\ svc' \in {"down", "open", "up", "stopping", "draining"}
           /\ svc' \in {"down", "open"} => svc \in {"down", "open"} /\ signals' = signals
           /\ Stopping' => Stopping \/ restarts < MaxRestarts
           /\ signals' \subseteq JobIds
           /\ sess' \in [JobIds -> SessionStates]
           /\ faults' \in 0..MaxFaults
<1>1. faults' \in 0..MaxFaults
    <2>1. UNCHANGED faults \/ \E kind : Fault(kind)
        BY DEF AsideStep, SessionEnds, SessionCancelled, ClientSubmit, ClientCancel, SignalRun,
           Dispatch, Time, CloseStop, CloseSignal, Open, Start, PruneFails
    <2>2. QED
        BY <2>1, FaultCounted
<1>2. ASSUME NEW j \in JobIds, SessionEnds(j) \/ SessionCancelled(j) \/ SignalRun(j)
      PROVE  /\ UNCHANGED <<ctl, inflight, detached, active, ex, starts, svc, restarts>>
             /\ \A i \in JobIds : sess[i] \in SessionResults => sess'[i] = sess[i]
             /\ Serving
             /\ signals' \subseteq JobIds
             /\ sess' \in [JobIds -> SessionStates]
    <2>1. CASE SessionEnds(j)
        BY <2>1 DEF SessionEnds, schedVars, ServiceTypeOK, SessionStates, SessionResults
    <2>2. CASE SessionCancelled(j)
        BY <2>2 DEF SessionCancelled, schedVars, ServiceTypeOK, SessionStates, SessionResults
    <2>3. CASE SignalRun(j)
        BY <2>3 DEF SignalRun, schedVars, ServiceTypeOK, SessionStates, SessionResults,
                    CancelSession
    <2>4. QED
        BY <1>2, <2>1, <2>2, <2>3
<1>3. ASSUME NEW j \in JobIds, ClientSubmit(j) \/ ClientCancel(j)
      PROVE  /\ UNCHANGED <<ctl, inflight, detached, active, ex, starts, svc, restarts, sess>>
             /\ svc = "up"
             /\ signals' \subseteq JobIds
    BY <1>3 DEF ClientSubmit, ClientCancel, schedVars, execVars, ServiceTypeOK
<1>4. CASE Dispatch \/ Time
    BY <1>1, <1>4 DEF Dispatch, Time, schedVars, execVars, ServiceTypeOK, Stopping
<1>5. CASE CloseStop \/ CloseSignal \/ Open \/ Start
    BY <1>1, <1>5 DEF CloseStop, CloseSignal, Open, Start, schedVars, execVars, ServiceTypeOK,
       Stopping
<1>6. CASE \E j \in JobIds : SessionEnds(j) \/ SessionCancelled(j) \/ SignalRun(j)
    BY <1>1, <1>2, <1>6 DEF Serving, Stopping, ServiceTypeOK
<1>7. CASE \E j \in JobIds : ClientSubmit(j) \/ ClientCancel(j)
    BY <1>1, <1>3, <1>7 DEF ServiceTypeOK, Stopping
<1>8. QED
    BY <1>4, <1>5, <1>6, <1>7 DEF AsideStep

\* A crash, or the end of a graceful stop, forgets everything but the store.
LEMMA ResetShape ==
    ASSUME ServiceTypeOK, StopBounded, CloseDone \/ Crash
    PROVE  /\ ResetVolatile /\ svc' = "down" /\ restarts' \in 0..MaxRestarts
           /\ UNCHANGED <<storeVars, starts, faults>>
<1>1. ResetVolatile /\ svc' = "down" /\ UNCHANGED <<storeVars, starts, faults>>
    BY DEF CloseDone, Crash
<1>2. restarts < MaxRestarts /\ restarts' = restarts + 1
    BY DEF CloseDone, Crash, StopBounded, Stopping
<1>3. QED
    BY <1>1, <1>2, ServiceAssumption DEF ServiceTypeOK

\* Types of what a controller changes.
CtlTypes ==
    /\ ctl' \in [Controllers -> CtlState]
    /\ inflight' \subseteq JobIds /\ detached' \subseteq JobIds
    /\ ex' \in [JobIds -> [pc : ExecPcs, attempt : Nat]]
    /\ faults' \in 0..MaxFaults

\* The updates of a controller's locals: each leaves them well formed.
LEMMA CtlPlaces ==
    ASSUME NEW r \in CtlState
    PROVE  /\ \A pc \in CtlPcs : [r EXCEPT !.pc = pc] \in CtlState
           /\ \A n \in Int : [r EXCEPT !.pc = "claim", !.capacity = n] \in CtlState
           /\ \A j \in JobIds :
                 [r EXCEPT !.pc = "claimed", !.job = j, !.capacity = r.capacity - 1] \in CtlState
           /\ [r EXCEPT !.pc = "claim", !.job = 0] \in CtlState
           /\ \A ids \in SUBSET JobIds :
                 [r EXCEPT !.pc = "recover", !.excluded = ids] \in CtlState
           /\ [r EXCEPT !.pc = "prune", !.excluded = {}] \in CtlState
<1>1. r.capacity - 1 \in Int /\ 0 \in JobIds \cup {0} /\ {} \in SUBSET JobIds
    BY DEF CtlState
<1>2. {"claim", "claimed", "recover", "prune"} \subseteq CtlPcs
    BY DEF CtlPcs
<1>3. QED
    BY <1>1, <1>2 DEF CtlState

\* The top of the loop.
LEMMA IdleControllerType == IdleController \in CtlState
<1>1. "idle" \in CtlPcs /\ 0 \in JobIds \cup {0} /\ 0 \in Int /\ {} \in SUBSET JobIds
    BY DEF CtlPcs
<1>2. QED
    BY <1>1 DEF CtlState, IdleController

\* What each kind of controller step does outside the store.
LEMMA CtlShape ==
    ASSUME StoreInv, ServiceTypeOK, Scheduler, InflightFinite, NEW c \in Controllers, CtlStep(c)
    PROVE  /\ Serving /\ UNCHANGED <<active, sess, signals, starts, svc, restarts>>
           /\ CtlTypes
<1>1. Serving /\ UNCHANGED <<active, sess, signals, starts, svc, restarts>>
    BY DEF CtlStep, CtlBegin, CtlClaim, CtlClaimDone, CtlAddInflight, CtlSubmit, CtlRenew,
       CtlSnapshot, CtlNotDue, CtlRecover, CtlPrune, CtlAt, execVars
<1>2. faults' \in 0..MaxFaults
    <2>1. UNCHANGED faults \/ \E kind : Fault(kind)
        BY DEF CtlStep, CtlBegin, CtlClaim, CtlClaimDone, CtlAddInflight, CtlSubmit, CtlRenew,
           CtlSnapshot, CtlNotDue, CtlRecover, CtlPrune, CtlAbort, PruneFails
    <2>2. QED
        BY <2>1, FaultCounted
<1>3. /\ ctl \in [Controllers -> CtlState] /\ ctl[c] \in CtlState
      /\ inflight \subseteq JobIds /\ detached \subseteq JobIds
      /\ ex \in [JobIds -> [pc : ExecPcs, attempt : Nat]]
    BY DEF ServiceTypeOK
<1>4. \A r \in CtlState : [ctl EXCEPT ![c] = r] \in [Controllers -> CtlState]
    BY <1>3
<1>5. CASE CtlBegin(c)
    <2>1. Workers - Cardinality(inflight) \in Int
        BY ServiceAssumption, FS_CardinalityType DEF InflightFinite
    <2>2. [ctl[c] EXCEPT !.pc = "claim", !.capacity = Workers - Cardinality(inflight)] \in CtlState
        BY <1>3, <2>1, CtlPlaces
    <2>3. /\ ctl' = [ctl EXCEPT ![c] = [ctl[c] EXCEPT !.pc = "claim",
                                   !.capacity = Workers - Cardinality(inflight)]]
          /\ UNCHANGED <<inflight, detached, ex>>
        BY <1>3, <1>5 DEF CtlBegin, execVars
    <2>4. ctl' \in [Controllers -> CtlState]
        BY <1>4, <2>2, <2>3
    <2>5. QED
        BY <1>1, <1>2, <1>3, <2>3, <2>4 DEF CtlTypes
<1>6. ASSUME NEW j \in JobIds, CtlClaim(c, j)
      PROVE  CtlTypes
    <2>1. [ctl[c] EXCEPT !.pc = "claimed", !.job = j, !.capacity = ctl[c].capacity - 1]
             \in CtlState
        BY <1>3, CtlPlaces
    <2>2. jobs'[j].attempt \in Nat
        <3>1. jobs[j] \in Row
            BY <1>6, LiveRow DEF CtlClaim, ClaimNext, InPhase, Live, StoreInv
        <3>2. jobs'[j] = Assigned(jobs[j], worker_id)
            BY <1>6 DEF CtlClaim, ClaimNext, StoreInv, StoreTypeOK
        <3>3. jobs'[j].attempt = jobs[j].attempt + 1
            BY <3>1, <3>2 DEF Assigned, Row
        <3>4. QED
            BY <3>1, <3>3 DEF Row
    <2>3. ctl' = [ctl EXCEPT ![c] = [ctl[c] EXCEPT !.pc = "claimed", !.job = j,
                                                   !.capacity = ctl[c].capacity - 1]]
        BY <1>6 DEF CtlClaim
    <2>7. /\ ex' = [ex EXCEPT ![j].attempt = jobs'[j].attempt]
          /\ UNCHANGED <<inflight, detached>>
        BY <1>6 DEF CtlClaim
    <2>4. ctl' \in [Controllers -> CtlState]
        BY <1>4, <2>1, <2>3
    <2>5. ex' \in [JobIds -> [pc : ExecPcs, attempt : Nat]]
        BY <1>3, <2>2, <2>7
    <2>6. QED
        BY <1>2, <1>3, <2>4, <2>5, <2>7 DEF CtlTypes
<1>7. CASE CtlSubmit(c)
    <2>1. ctl[c].job \in JobIds
        BY <1>7 DEF Scheduler, CtlSubmit, CtlAt
    <2>2. [ctl[c] EXCEPT !.pc = "claim", !.job = 0] \in CtlState
        BY <1>3, CtlPlaces
    <2>3. /\ ex' = [ex EXCEPT ![ctl[c].job].pc = "pool"]
          /\ inflight' = inflight /\ (detached' = detached \/ detached' = detached \cup {ctl[c].job})
          /\ \/ ctl' = [ctl EXCEPT ![c] = [ctl[c] EXCEPT !.pc = "claim", !.job = 0]]
             \/ ctl' = [ctl EXCEPT ![c] = IdleController]
        BY <1>3, <1>7 DEF CtlSubmit
    <2>4. ctl' \in [Controllers -> CtlState]
        BY <1>4, <2>2, <2>3, IdleControllerType
    <2>5. ex' \in [JobIds -> [pc : ExecPcs, attempt : Nat]]
        BY <1>3, <2>1, <2>3 DEF ExecPcs
    <2>6. QED
        BY <1>1, <1>2, <1>3, <2>1, <2>3, <2>4, <2>5 DEF CtlTypes
<1>8. CASE CtlAddInflight(c)
    <2>1. ctl[c].job \in JobIds
        BY <1>8 DEF Scheduler, CtlAddInflight, CtlAt
    <2>2. [ctl[c] EXCEPT !.pc = "submit"] \in CtlState
        BY <1>3, CtlPlaces DEF CtlPcs
    <2>3. /\ ctl' = [ctl EXCEPT ![c] = [ctl[c] EXCEPT !.pc = "submit"]]
          /\ inflight' = inflight \cup {ctl[c].job}
          /\ UNCHANGED <<detached, ex>>
        BY <1>3, <1>8 DEF CtlAddInflight, CtlGoto, execVars
    <2>4. ctl' \in [Controllers -> CtlState]
        BY <1>4, <2>2, <2>3
    <2>5. QED
        BY <1>1, <1>2, <1>3, <2>1, <2>3, <2>4 DEF CtlTypes
<1>9. CASE CtlSnapshot(c) \/ CtlRecover(c)
    <2>1. /\ [ctl[c] EXCEPT !.pc = "recover", !.excluded = inflight] \in CtlState
          /\ [ctl[c] EXCEPT !.pc = "prune", !.excluded = {}] \in CtlState
        BY <1>3, CtlPlaces
    <2>2. /\ \/ ctl' = [ctl EXCEPT ![c] = [ctl[c] EXCEPT !.pc = "recover", !.excluded = inflight]]
             \/ ctl' = [ctl EXCEPT ![c] = [ctl[c] EXCEPT !.pc = "prune", !.excluded = {}]]
             \/ ctl' = [ctl EXCEPT ![c] = IdleController]
          /\ UNCHANGED <<inflight, detached, ex>>
        BY <1>3, <1>9 DEF CtlSnapshot, CtlRecover, CtlAbort, execVars
    <2>3. ctl' \in [Controllers -> CtlState]
        BY <1>4, <2>1, <2>2, IdleControllerType
    <2>4. QED
        BY <1>1, <1>2, <1>3, <2>2, <2>3 DEF CtlTypes
<1>10. CASE CtlClaimDone(c) \/ CtlRenew(c) \/ CtlNotDue(c) \/ CtlPrune(c)
    <2>1. /\ [ctl[c] EXCEPT !.pc = "renew"] \in CtlState
          /\ [ctl[c] EXCEPT !.pc = "snapshot"] \in CtlState
        BY <1>3, CtlPlaces DEF CtlPcs
    <2>2. \/ ctl' = [ctl EXCEPT ![c] = [ctl[c] EXCEPT !.pc = "renew"]]
          \/ ctl' = [ctl EXCEPT ![c] = [ctl[c] EXCEPT !.pc = "snapshot"]]
          \/ ctl' = [ctl EXCEPT ![c] = IdleController]
        BY <1>3, <1>10 DEF CtlClaimDone, CtlRenew, CtlNotDue, CtlPrune, CtlAbort, CtlGoto
    <2>3. UNCHANGED <<inflight, detached, ex>>
        BY <1>10 DEF CtlClaimDone, CtlRenew, CtlNotDue, CtlPrune, execVars
    <2>4. ctl' \in [Controllers -> CtlState]
        BY <1>4, <2>1, <2>2, IdleControllerType
    <2>5. QED
        BY <1>1, <1>2, <1>3, <2>3, <2>4 DEF CtlTypes
<1>11. QED
    BY <1>1, <1>5, <1>6, <1>7, <1>8, <1>9, <1>10 DEF CtlStep

\* What a controller's step does to its own place: it takes the lock and
\* computes the capacity, claims, adds to _inflight, submits, copies _inflight,
\* or goes on without holding the lock.
Begins(c) ==
    /\ ctl[c].pc = "idle" /\ Scheduling = {}
    /\ ctl'[c].pc = "claim" /\ ctl'[c].capacity = Workers - Cardinality(inflight)
    /\ UNCHANGED <<inflight, detached, ex>>

Claims(c, j) ==
    /\ ctl[c].pc = "claim" /\ ctl[c].capacity > 0
    /\ ClaimNext(j, worker_id)
    /\ ctl'[c].pc = "claimed" /\ ctl'[c].job = j
    /\ ctl'[c].capacity = ctl[c].capacity - 1
    /\ ex' = [ex EXCEPT ![j].attempt = jobs'[j].attempt]
    /\ UNCHANGED <<inflight, detached>>

Adds(c) ==
    /\ ctl[c].pc = "claimed"
    /\ ctl'[c].pc = "submit" /\ ctl'[c].job = ctl[c].job
    /\ ctl'[c].capacity = ctl[c].capacity
    /\ inflight' = inflight \cup {ctl[c].job}
    /\ UNCHANGED <<detached, ex>>

Submits(c) ==
    /\ ctl[c].pc = "submit"
    /\ ctl'[c].pc = "idle" \/ (ctl'[c].pc = "claim" /\ ctl'[c].capacity = ctl[c].capacity)
    /\ ex' = [ex EXCEPT ![ctl[c].job].pc = "pool"]
    /\ UNCHANGED inflight

Copies(c) ==
    /\ ctl[c].pc = "snapshot"
    /\ ctl'[c].pc = "recover" /\ ctl'[c].excluded = inflight
    /\ UNCHANGED <<inflight, detached, ex>>

GoesOn(c) ==
    /\ ctl[c].pc \in {"claim", "renew", "snapshot", "recover", "prune"}
    /\ ctl'[c].pc \in {"renew", "snapshot", "prune", "idle"}
    /\ UNCHANGED <<inflight, detached, ex>>

\* Every step of a controller is one of these.
LEMMA CtlEffects ==
    ASSUME ServiceTypeOK, NEW c \in Controllers, CtlStep(c)
    PROVE  /\ \A b \in Controllers \ {c} : ctl'[b] = ctl[b]
           /\ \/ Begins(c) \/ (\E j \in JobIds : Claims(c, j)) \/ Adds(c) \/ Submits(c)
              \/ Copies(c) \/ GoesOn(c)
<1>0. IdleController.pc = "idle"
    BY DEF IdleController
<1>1. ctl \in [Controllers -> CtlState] /\ ctl[c] \in CtlState
    BY DEF ServiceTypeOK
<1>2. CASE CtlBegin(c)
    BY <1>1, <1>2 DEF CtlBegin, CtlAt, Begins, execVars, CtlState
<1>3. ASSUME NEW j \in JobIds, CtlClaim(c, j)
      PROVE  Claims(c, j) /\ \A b \in Controllers \ {c} : ctl'[b] = ctl[b]
    <2>1. ctl' = [ctl EXCEPT ![c] = [ctl[c] EXCEPT !.pc = "claimed", !.job = j,
                                                   !.capacity = ctl[c].capacity - 1]]
        BY <1>3 DEF CtlClaim
    <2>2. /\ ctl'[c].pc = "claimed" /\ ctl'[c].job = j
          /\ ctl'[c].capacity = ctl[c].capacity - 1
          /\ \A b \in Controllers \ {c} : ctl'[b] = ctl[b]
        BY <1>1, <2>1 DEF CtlState
    <2>3. QED
        BY <1>3, <2>2 DEF CtlClaim, CtlAt, Claims
<1>4. CASE CtlAddInflight(c)
    <2>1. ctl' = [ctl EXCEPT ![c].pc = "submit"]
        BY <1>4 DEF CtlAddInflight, CtlGoto
    <2>2. /\ ctl'[c].pc = "submit" /\ ctl'[c].job = ctl[c].job
          /\ ctl'[c].capacity = ctl[c].capacity
          /\ \A b \in Controllers \ {c} : ctl'[b] = ctl[b]
        BY <1>1, <2>1 DEF CtlState
    <2>3. QED
        BY <1>4, <2>2 DEF CtlAddInflight, CtlAt, Adds, execVars
<1>5. CASE CtlSubmit(c)
    <2>1. \/ ctl' = [ctl EXCEPT ![c] = [ctl[c] EXCEPT !.pc = "claim", !.job = 0]]
          \/ ctl' = [ctl EXCEPT ![c] = IdleController]
        BY <1>5 DEF CtlSubmit
    <2>2. /\ ctl'[c].pc = "idle" \/ (ctl'[c].pc = "claim" /\ ctl'[c].capacity = ctl[c].capacity)
          /\ \A b \in Controllers \ {c} : ctl'[b] = ctl[b]
        BY <1>1, <1>0, <2>1 DEF CtlState
    <2>3. QED
        BY <1>5, <2>2 DEF CtlSubmit, CtlAt, Submits
<1>6. CASE CtlSnapshot(c)
    BY <1>1, <1>6 DEF CtlSnapshot, CtlAt, Copies, execVars, CtlState
<1>7. CASE CtlClaimDone(c) \/ CtlRenew(c) \/ CtlNotDue(c) \/ CtlRecover(c) \/ CtlPrune(c)
    <2>1. /\ ctl[c].pc \in {"claim", "renew", "snapshot", "recover", "prune"}
          /\ UNCHANGED <<inflight, detached, ex>>
        BY <1>7 DEF CtlClaimDone, CtlRenew, CtlNotDue, CtlRecover, CtlPrune, CtlAt, execVars
    <2>2. \/ ctl' = [ctl EXCEPT ![c].pc = "renew"] \/ ctl' = [ctl EXCEPT ![c].pc = "snapshot"]
          \/ ctl' = [ctl EXCEPT ![c] = [ctl[c] EXCEPT !.pc = "prune", !.excluded = {}]]
          \/ ctl' = [ctl EXCEPT ![c] = IdleController]
        <3>1. CASE CtlClaimDone(c) \/ CtlRenew(c)
            BY <3>1 DEF CtlClaimDone, CtlRenew, CtlAbort, CtlGoto
        <3>2. CASE CtlNotDue(c) \/ CtlRecover(c) \/ CtlPrune(c)
            BY <3>2 DEF CtlNotDue, CtlRecover, CtlPrune, CtlAbort
        <3>3. QED
            BY <1>7, <3>1, <3>2
    <2>3. /\ ctl'[c].pc \in {"renew", "snapshot", "prune", "idle"}
          /\ \A b \in Controllers \ {c} : ctl'[b] = ctl[b]
        BY <1>0, <1>1, <2>2 DEF CtlState
    <2>4. QED
        BY <2>1, <2>3 DEF GoesOn
<1>8. QED
    BY <1>2, <1>3, <1>4, <1>5, <1>6, <1>7 DEF CtlStep

\* The four kinds of steps.
LEMMA NextCases ==
    ASSUME Next
    PROVE  \/ \E j \in JobIds : ExecStep(j)
           \/ \E c \in Controllers : CtlStep(c)
           \/ AsideStep
           \/ CloseDone \/ Crash
BY DEF Next, JobStep, ServiceStep, AsideStep

-----------------------------------------------------------------------------
(* The invariant is inductive.                                               *)

\* A step of an executor keeps everything outside the store in order.
LEMMA ServiceExec ==
    ASSUME ServiceInv, NEW j \in JobIds, ExecStep(j)
    PROVE  /\ ServiceTypeOK' /\ ResultKnown' /\ Scheduler' /\ QuietWhenDown'
           /\ StopBounded' /\ InflightFinite'
<1>1. /\ Serving /\ UNCHANGED <<ctl, detached, signals, svc, restarts>>
      /\ (\E to : Advances(j, to)) \/ Retires(j)
      /\ \A i \in JobIds \ {j} : sess'[i] = sess[i] /\ active'[i] = active[i]
      /\ ExecTypes
    BY ExecShape DEF ServiceInv
<1>2. /\ ServiceTypeOK /\ ResultKnown /\ Scheduler /\ InflightFinite /\ StopBounded
    BY DEF ServiceInv
<1>3. /\ ex \in [JobIds -> [pc : ExecPcs, attempt : Nat]]
      /\ starts \in [JobIds -> Nat] /\ inflight \subseteq JobIds
    BY <1>2 DEF ServiceTypeOK
<1>4. svc \notin {"down", "open"}
    BY <1>1 DEF Serving, Stopping
<1>5. Scheduler' /\ QuietWhenDown' /\ StopBounded'
    BY <1>1, <1>2, <1>4 DEF Scheduler, Scheduling, QuietWhenDown, StopBounded, Stopping
<1>6. CASE Retires(j)
    <2>1. ex' \in [JobIds -> [pc : ExecPcs, attempt : Nat]]
        BY <1>3, <1>6 DEF Retires, IdleExec, ExecPcs
    <2>2. inflight' \subseteq JobIds /\ InflightFinite'
        BY <1>2, <1>3, <1>6, FS_Subset DEF Retires, InflightFinite
    <2>3. starts' \in [JobIds -> Nat]
        BY <1>3, <1>6 DEF Retires
    <2>4. ServiceTypeOK'
        BY <1>1, <1>2, <2>1, <2>2, <2>3 DEF ServiceTypeOK, ExecTypes
    <2>5. \A i \in JobIds : ex'[i] = IF i = j THEN IdleExec ELSE ex[i]
        BY <1>3, <1>6 DEF Retires
    <2>6. ResultKnown'
        BY <1>2, <1>6, <2>5 DEF Retires, ResultKnown, IdleExec
    <2>7. QED
        BY <1>5, <2>2, <2>4, <2>6
<1>7. ASSUME NEW to, Advances(j, to)
      PROVE  ServiceTypeOK' /\ ResultKnown' /\ InflightFinite'
    <2>1. ex' \in [JobIds -> [pc : ExecPcs, attempt : Nat]]
        BY <1>3, <1>7 DEF Advances
    <2>2. inflight' = inflight /\ starts' \in [JobIds -> Nat]
        BY <1>3, <1>7 DEF Advances
    <2>3. ServiceTypeOK' /\ InflightFinite'
        BY <1>1, <1>2, <2>1, <2>2 DEF ServiceTypeOK, ExecTypes, InflightFinite
    <2>4. \A i \in JobIds : ex'[i].pc = IF i = j THEN to ELSE ex[i].pc
        BY <1>3, <1>7 DEF Advances
    <2>5. ResultKnown'
        BY <1>1, <1>2, <1>7, <2>4 DEF Advances, ResultKnown
    <2>6. QED
        BY <2>3, <2>5
<1>8. QED
    BY <1>1, <1>5, <1>6, <1>7

\* So does a step of a controller ...
LEMMA ServiceCtl ==
    ASSUME ServiceInv, NEW c \in Controllers, CtlStep(c)
    PROVE  /\ ServiceTypeOK' /\ ResultKnown' /\ Scheduler' /\ QuietWhenDown'
           /\ StopBounded' /\ InflightFinite'
<1>1. /\ StoreInv /\ ServiceTypeOK /\ ResultKnown /\ Scheduler /\ InflightFinite /\ StopBounded
    BY DEF ServiceInv
<1>2. /\ Serving /\ UNCHANGED <<active, sess, signals, starts, svc, restarts>>
      /\ CtlTypes
    BY <1>1, CtlShape
<1>3. /\ \A b \in Controllers \ {c} : ctl'[b] = ctl[b]
      /\ \/ Begins(c) \/ (\E j \in JobIds : Claims(c, j)) \/ Adds(c) \/ Submits(c)
         \/ Copies(c) \/ GoesOn(c)
    BY <1>1, CtlEffects
<1>4. ServiceTypeOK'
    BY <1>1, <1>2 DEF ServiceTypeOK, CtlTypes
<1>5. QuietWhenDown' /\ StopBounded'
    BY <1>1, <1>2 DEF QuietWhenDown, StopBounded, Serving, Stopping
<1>6. InflightFinite'
    <2>1. inflight' = inflight \/ inflight' = inflight \cup {ctl[c].job}
        BY <1>3 DEF Begins, Claims, Adds, Submits, Copies, GoesOn
    <2>2. QED
        BY <1>1, <2>1, FS_AddElement DEF InflightFinite
<1>7. ResultKnown'
    <2>1. \A i \in JobIds : ex'[i].pc \in {"staging", "finish"} => ex'[i].pc = ex[i].pc
        BY <1>1, <1>3
        DEF Begins, Claims, Adds, Submits, Copies, GoesOn, ServiceTypeOK
    <2>2. QED
        BY <1>1, <1>2, <2>1 DEF ResultKnown
<1>8. \A b, d \in Scheduling' : b = d
    <2>1. \A b \in Controllers \ {c} : b \in Scheduling' <=> b \in Scheduling
        BY <1>3 DEF Scheduling
    <2>2. c \in Scheduling' => c \in Scheduling \/ Scheduling = {}
        BY <1>3 DEF Begins, Claims, Adds, Submits, Copies, GoesOn, Scheduling
    <2>3. Scheduling' \subseteq Controllers
        BY DEF Scheduling
    <2>4. QED
        BY <1>1, <2>1, <2>2, <2>3 DEF Scheduler
<1>9. \A b \in Controllers : ctl'[b].pc \in {"claimed", "submit"} => ctl'[b].job \in JobIds
    BY <1>1, <1>3 DEF Begins, Claims, Adds, Submits, Copies, GoesOn, Scheduler
<1>10. QED
    BY <1>4, <1>5, <1>6, <1>7, <1>8, <1>9 DEF Scheduler, Scheduling

\* ... everybody else ...
LEMMA ServiceAside ==
    ASSUME ServiceInv, AsideStep
    PROVE  /\ ServiceTypeOK' /\ ResultKnown' /\ Scheduler' /\ QuietWhenDown'
           /\ StopBounded' /\ InflightFinite'
<1>1. /\ ServiceTypeOK /\ ResultKnown /\ Scheduler /\ QuietWhenDown /\ InflightFinite
      /\ StopBounded
    BY DEF ServiceInv
<1>2. /\ UNCHANGED <<ctl, inflight, detached, active, ex, starts, restarts>>
      /\ \A i \in JobIds : sess[i] \in SessionResults => sess'[i] = sess[i]
      /\ svc' \in {"down", "open", "up", "stopping", "draining"}
      /\ svc' \in {"down", "open"} => svc \in {"down", "open"} /\ signals' = signals
      /\ Stopping' => Stopping \/ restarts < MaxRestarts
      /\ signals' \subseteq JobIds
      /\ sess' \in [JobIds -> SessionStates]
      /\ faults' \in 0..MaxFaults
    BY <1>1, AsideShape
<1>3. ServiceTypeOK'
    BY <1>1, <1>2 DEF ServiceTypeOK
<1>4. ResultKnown'
    BY <1>1, <1>2 DEF ResultKnown
<1>5. Scheduler' /\ InflightFinite'
    BY <1>1, <1>2 DEF Scheduler, Scheduling, InflightFinite
<1>6. QuietWhenDown'
    BY <1>1, <1>2 DEF QuietWhenDown
<1>7. StopBounded'
    BY <1>1, <1>2 DEF StopBounded
<1>8. QED
    BY <1>3, <1>4, <1>5, <1>6, <1>7

\* ... and the end of an incarnation.
LEMMA ServiceReset ==
    ASSUME ServiceInv, CloseDone \/ Crash
    PROVE  /\ ServiceTypeOK' /\ ResultKnown' /\ Scheduler' /\ QuietWhenDown'
           /\ StopBounded' /\ InflightFinite'
<1>1. ServiceTypeOK /\ StopBounded
    BY DEF ServiceInv
<1>2. /\ ResetVolatile /\ svc' = "down" /\ restarts' \in 0..MaxRestarts
      /\ UNCHANGED <<storeVars, starts, faults>>
    BY <1>1, ResetShape
<1>3. /\ \A c \in Controllers : ctl'[c] = IdleController
      /\ \A j \in JobIds : ex'[j] = IdleExec /\ active'[j] = "none" /\ sess'[j] = "none"
      /\ inflight' = {} /\ detached' = {} /\ signals' = {}
      /\ IdleController.pc = "idle" /\ IdleExec.pc = "none"
    BY <1>2 DEF ResetVolatile, IdleController, IdleExec
<1>4. ServiceTypeOK'
    <2>1. ctl' \in [Controllers -> CtlState]
        BY <1>2, IdleControllerType DEF ResetVolatile
    <2>2. ex' \in [JobIds -> [pc : ExecPcs, attempt : Nat]]
        BY <1>2 DEF ResetVolatile, IdleExec, ExecPcs
    <2>3. sess' \in [JobIds -> SessionStates] /\ active' \in [JobIds -> {"none", "starting", "session"}]
        BY <1>2 DEF ResetVolatile, SessionStates
    <2>4. QED
        BY <1>1, <1>2, <1>3, <2>1, <2>2, <2>3 DEF ServiceTypeOK
<1>5. ResultKnown' /\ QuietWhenDown' /\ StopBounded'
    BY <1>2, <1>3 DEF ResultKnown, QuietWhenDown, StopBounded, Stopping
<1>6. Scheduler' /\ InflightFinite'
    BY <1>3, FS_EmptySet DEF Scheduler, Scheduling, InflightFinite
<1>7. QED
    BY <1>4, <1>5, <1>6

\* The invariant holds initially ...
LEMMA ServiceInvInit == Init => ServiceInv
<1> SUFFICES ASSUME Init
             PROVE  ServiceInv
    OBVIOUS
<1>1. StoreInv
    BY StoreInvInit DEF Init
<1>2. ServiceTypeOK
    <2>1. ctl \in [Controllers -> CtlState]
        BY IdleControllerType DEF Init
    <2>2. ex \in [JobIds -> [pc : ExecPcs, attempt : Nat]]
        BY DEF Init, IdleExec, ExecPcs
    <2>3. restarts \in 0..MaxRestarts /\ faults \in 0..MaxFaults
        BY ServiceAssumption DEF Init
    <2>4. QED
        BY <2>1, <2>2, <2>3 DEF Init, ServiceTypeOK, SessionStates
<1>3. DeliveriesIssued
    BY DEF Init, StoreInit, DeliveriesIssued
<1>4. (\A c \in Controllers : ctl[c].pc = "idle") /\ \A j \in JobIds : ex[j] = IdleExec
    BY DEF Init, IdleController
<1>5. Scheduler /\ QuietWhenDown /\ ResultKnown
    BY <1>4 DEF Init, Scheduler, Scheduling, QuietWhenDown, ResultKnown, IdleExec
<1>6. StopBounded /\ InflightFinite
    BY FS_EmptySet DEF Init, StopBounded, Stopping, InflightFinite
<1>7. QED
    BY <1>1, <1>2, <1>3, <1>5, <1>6 DEF ServiceInv

\* ... and every step preserves it.
LEMMA ServiceInvNext == ServiceInv /\ [Next]_vars => ServiceInv'
<1> SUFFICES ASSUME ServiceInv, [Next]_vars
             PROVE  ServiceInv'
    OBVIOUS
<1>1. CASE Next
    <2>1. StoreNext \/ UNCHANGED storeVars
        BY <1>1, StoreCalls
    <2>2. StoreInv'
        BY <2>1, StoreInvNext DEF ServiceInv
    <2>3. DeliveriesIssued'
        BY <2>1, DeliveriesIssuedPreserved DEF ServiceInv, DeliveriesIssued, storeVars
    <2>4. /\ ServiceTypeOK' /\ ResultKnown' /\ Scheduler' /\ QuietWhenDown'
          /\ StopBounded' /\ InflightFinite'
        BY <1>1, NextCases, ServiceExec, ServiceCtl, ServiceAside, ServiceReset
    <2>5. QED
        BY <2>2, <2>3, <2>4 DEF ServiceInv
<1>2. CASE UNCHANGED vars
    <2>1. StoreInv'
        BY <1>2, StoreInvNext DEF ServiceInv, vars
    <2>2. QED
        BY <1>2, <2>1 DEF vars, storeVars, schedVars, execVars, ServiceInv, ServiceTypeOK,
           DeliveriesIssued, ResultKnown, Scheduler, Scheduling, QuietWhenDown, StopBounded,
           Stopping, InflightFinite
<1>3. QED
    BY <1>1, <1>2

\* The inductive invariant of the service is an invariant.
THEOREM ServiceInvariant == Spec => []ServiceInv
BY ServiceInvInit, ServiceInvNext, PTL DEF Spec

\* The tables, the threads' places and locals, and the bounded counters are well
\* formed in every reachable state of the service.
THEOREM ServiceTypeCorrect == Spec => []TypeOK
<1>1. ServiceInv => TypeOK
    BY DEF ServiceInv, StoreInv, ServiceTypeOK, CtlState, TypeOK
<1>2. QED
    BY <1>1, ServiceInvariant, PTL

\* JobService implements the store's specification under any caller: whatever
\* its threads, crashes and failing calls do, every step is one store call made
\* with tokens the store has issued, or none.  The theorems about the store hold
\* of the running service.
THEOREM ServiceRefinesStore == Spec => StoreSpec
<1>1. Init => StoreInit
    BY DEF Init
<1>2. ServiceInv /\ [Next]_vars => [StoreNext]_storeVars
    BY StoreCalls DEF vars
<1>3. QED
    BY <1>1, <1>2, ServiceInvariant, PTL DEF Spec, StoreSpec

-----------------------------------------------------------------------------
(* No job starts twice.                                                      *)

\* The store never returns an id to the queue: it mints an id once, and no
\* update of a row leads back to queued.
LEMMA FreshShrinks ==
    ASSUME StoreInv, StoreNext, NEW j \in JobIds, Fresh(j)'
    PROVE  Fresh(j)
<1>1. Effect(j) /\ minted \subseteq minted'
    BY StepEffect, MintedGrows DEF StoreInv
<1>2. CASE j \notin minted'
    BY <1>1, <1>2 DEF Fresh
<1>3. CASE jobs'[j] # NoRow /\ jobs'[j].phase = "queued"
    <2>1. CASE Unaffected(j)
        BY <1>3, <2>1 DEF Unaffected, Fresh, InPhase, Live
    <2>2. CASE Updated(j)
        <3>1. jobs[j] # NoRow /\ jobs[j].phase = "queued"
            BY <1>3, <2>2, StoreAssumption DEF Updated, RowUpdated
        <3>2. QED
            BY <3>1 DEF Fresh, InPhase, Live
    <2>3. CASE Removed(j)
        BY <1>3, <2>3 DEF Removed
    <2>4. CASE Inserted(j)
        BY <2>4 DEF Inserted, Fresh
    <2>5. QED
        BY <1>1, <2>1, <2>2, <2>3, <2>4 DEF Effect
<1>4. QED
    BY <1>2, <1>3 DEF Fresh, InPhase, Live

\* A claim takes the job out of the queue for good.
LEMMA ClaimUsesUp ==
    ASSUME StoreInv, NEW j \in JobIds, NEW owner, ClaimNext(j, owner)
    PROVE  Fresh(j) /\ ~Fresh(j)'
<1>1. j \in InPhase(jobs, {"queued"}) /\ jobs[j] \in Row /\ jobs[j] # NoRow
    BY LiveRow DEF ClaimNext, InPhase, Live, StoreInv
<1>2. jobs'[j] = Assigned(jobs[j], owner) /\ minted' = minted
    BY DEF ClaimNext, StoreInv, StoreTypeOK
<1>3. jobs'[j].phase = "assigned"
    BY <1>1, <1>2 DEF Assigned, Row
<1>4. j \in minted
    BY <1>1 DEF StoreInv, RowsMinted, Live
<1>5. QED
    BY <1>1, <1>2, <1>3, <1>4 DEF Fresh, InPhase, Live

\* With the lock held by one controller at most, the job it holds is its own.
LEMMA HeldOnce ==
    ASSUME Scheduler, NEW b \in Controllers, NEW c \in Controllers, NEW i, NEW j,
           Held(b, i), ctl[c].pc \in {"claim", "claimed", "submit"}
    PROVE  b = c
BY DEF Scheduler, Scheduling, Held

\* Initially nothing has started ...
LEMMA StartInvInit == Init => StartInv
BY DEF Init, StartInv, Held, IdleController, IdleExec, Early

\* ... and no step starts a job that has been started, or lets it be claimed again.
LEMMA StartInvNext == ServiceInv /\ StartInv /\ [Next]_vars => StartInv'
<1> SUFFICES ASSUME ServiceInv, StartInv, [Next]_vars
             PROVE  StartInv'
    OBVIOUS
<1>1. /\ StoreInv /\ ServiceTypeOK /\ Scheduler /\ InflightFinite /\ StopBounded
      /\ ex \in [JobIds -> [pc : ExecPcs, attempt : Nat]]
      /\ starts \in [JobIds -> Nat]
    BY DEF ServiceInv, ServiceTypeOK
<1>2. \A j \in JobIds : Fresh(j)' => Fresh(j)
    <2>1. CASE StoreNext
        BY <1>1, <2>1, FreshShrinks
    <2>2. CASE UNCHANGED storeVars
        BY <2>2 DEF storeVars, Fresh, InPhase, Live
    <2>3. QED
        BY <2>1, <2>2, StoreCalls DEF vars
<1>3. ASSUME NEW j \in JobIds, ExecStep(j)
      PROVE  StartInv'
    <2>1. /\ UNCHANGED ctl
          /\ (\E to : Advances(j, to)) \/ Retires(j)
        BY <1>1, <1>3, ExecShape
    <2>2. \A c \in Controllers, i \in JobIds : Held(c, i)' <=> Held(c, i)
        BY <2>1 DEF Held
    <2>3. ~Fresh(j) /\ ~(\E c \in Controllers : Held(c, j))
        BY <2>1 DEF StartInv, Advances, Retires
    <2>4. CASE Retires(j)
        <3>1. \A i \in JobIds : /\ ex'[i].pc = IF i = j THEN "none" ELSE ex[i].pc
                                /\ starts'[i] = starts[i]
            BY <1>1, <2>4 DEF Retires, IdleExec
        <3>2. QED
            BY <1>2, <2>2, <2>3, <3>1 DEF StartInv, Early
    <2>5. ASSUME NEW to, Advances(j, to)
          PROVE  StartInv'
        <3>1. /\ \A i \in JobIds : ex'[i].pc = IF i = j THEN to ELSE ex[i].pc
              /\ \A i \in JobIds : starts'[i] = IF i = j /\ ex[j].pc = "register"
                                                THEN starts[i] + 1 ELSE starts[i]
              /\ to \in Early => ex[j].pc = "pool"
            BY <1>1, <2>5 DEF Advances
        <3>2. ex[j].pc = "register" => starts[j] = 0
            BY DEF StartInv, Early
        <3>3. QED
            BY <1>2, <2>2, <2>3, <3>1, <3>2 DEF StartInv, Early
    <2>6. QED
        BY <2>1, <2>4, <2>5
<1>4. ASSUME NEW c \in Controllers, CtlStep(c)
      PROVE  StartInv'
    <2>1. starts' = starts
        BY <1>1, <1>4, CtlShape
    <2>2. /\ \A b \in Controllers \ {c} : ctl'[b] = ctl[b]
          /\ \/ Begins(c) \/ (\E j \in JobIds : Claims(c, j)) \/ Adds(c) \/ Submits(c)
             \/ Copies(c) \/ GoesOn(c)
        BY <1>1, <1>4, CtlEffects
    <2>3. CASE Begins(c) \/ Copies(c) \/ GoesOn(c) \/ Adds(c)
        <3>1. ex' = ex
            BY <2>3 DEF Begins, Copies, GoesOn, Adds
        <3>2. \A b \in Controllers, i \in JobIds : Held(b, i)' => Held(b, i)
            BY <2>2, <2>3 DEF Begins, Copies, GoesOn, Adds, Held
        <3>3. QED
            BY <1>2, <2>1, <3>1, <3>2 DEF StartInv
    <2>4. ASSUME NEW j \in JobIds, Claims(c, j)
          PROVE  StartInv'
        <3>1. Fresh(j) /\ ~Fresh(j)'
            BY <1>1, <2>4, ClaimUsesUp DEF Claims
        <3>2. \A i \in JobIds : ex'[i].pc = ex[i].pc
            BY <1>1, <2>4 DEF Claims
        <3>3. \A b \in Controllers, i \in JobIds : Held(b, i)' => b = c /\ i = j
            BY <1>1, <2>2, <2>4, HeldOnce DEF Claims, Held
        <3>4. QED
            BY <1>2, <2>1, <3>1, <3>2, <3>3 DEF StartInv
    <2>5. CASE Submits(c)
        <3>1. ctl[c].job \in JobIds /\ Held(c, ctl[c].job)
            BY <1>1, <2>5 DEF Submits, Scheduler, Held
        <3>2. \A i \in JobIds : ex'[i].pc = IF i = ctl[c].job THEN "pool" ELSE ex[i].pc
            BY <1>1, <2>5, <3>1 DEF Submits
        <3>3. \A b \in Controllers, i \in JobIds : ~Held(b, i)'
            BY <1>1, <2>2, <2>5, HeldOnce DEF Submits, Held
        <3>4. ~Fresh(ctl[c].job) /\ starts[ctl[c].job] = 0
            BY <3>1 DEF StartInv
        <3>5. QED
            BY <1>2, <2>1, <3>2, <3>3, <3>4 DEF StartInv
    <2>6. QED
        BY <2>2, <2>3, <2>4, <2>5
<1>5. CASE AsideStep
    <2>1. UNCHANGED <<ctl, ex, starts>>
        BY <1>1, <1>5, AsideShape
    <2>2. QED
        BY <1>2, <2>1 DEF StartInv, Held
<1>6. CASE CloseDone \/ Crash
    <2>1. ResetVolatile /\ UNCHANGED starts
        BY <1>1, <1>6, ResetShape
    <2>2. /\ \A c \in Controllers : ctl'[c].pc = "idle"
          /\ \A j \in JobIds : ex'[j].pc = "none"
        BY <2>1 DEF ResetVolatile, IdleController, IdleExec
    <2>3. QED
        BY <1>2, <2>1, <2>2 DEF StartInv, Held, Early
<1>7. CASE UNCHANGED vars
    BY <1>2, <1>7 DEF vars, schedVars, execVars, StartInv, Held
<1>8. QED
    BY <1>3, <1>4, <1>5, <1>6, <1>7, NextCases

\* No job ever starts twice: for any number of controllers and restarts, and
\* whichever calls fail.
THEOREM AtMostOneStartHolds == Spec => []AtMostOneStart
<1>1. StartInv => AtMostOneStart
    BY DEF StartInv, AtMostOneStart
<1>2. QED
    BY <1>1, ServiceInvariant, StartInvInit, StartInvNext, PTL DEF Spec

-----------------------------------------------------------------------------
(* No more claims than threads.                                              *)

\* Who has been claimed and not been given up: CapacityRespected counts them.
Working == {j \in JobIds : ex[j].attempt # 0}

\* One more element counts at most one more, a subset no more.
LEMMA CountMore ==
    ASSUME NEW S, IsFiniteSet(S), NEW x
    PROVE  /\ IsFiniteSet(S \cup {x}) /\ Cardinality(S) \in Nat
           /\ Cardinality(S \cup {x}) \in Nat
           /\ Cardinality(S \cup {x}) <= Cardinality(S) + 1
           /\ \A T \in SUBSET S : IsFiniteSet(T) /\ Cardinality(T) \in Nat
                                     /\ Cardinality(T) <= Cardinality(S)
<1>1. IsFiniteSet(S \cup {x}) /\ Cardinality(S) \in Nat /\ Cardinality(S \cup {x}) \in Nat
    BY FS_AddElement, FS_CardinalityType
<1>2. Cardinality(S \cup {x}) <= Cardinality(S) + 1
    BY <1>1, FS_AddElement
<1>3. ASSUME NEW T \in SUBSET S
      PROVE  IsFiniteSet(T) /\ Cardinality(T) \in Nat /\ Cardinality(T) <= Cardinality(S)
    BY FS_Subset, FS_CardinalityType
<1>4. QED
    BY <1>1, <1>2, <1>3

\* While a controller holds the lock, nobody else's claim is pending.
LEMMA ClaimedOnce ==
    ASSUME Scheduler, NEW c \in Controllers, ctl[c].pc \in {"claim", "claimed", "submit"}
    PROVE  Claimed = IF ctl[c].pc = "claimed" THEN {ctl[c].job} ELSE {}
<1>1. \A b \in Controllers : ctl[b].pc = "claimed" => b = c
    BY DEF Scheduler, Scheduling
<1>2. QED
    BY <1>1 DEF Claimed

\* Capacity is what is left of the pool, whoever finishes meanwhile.
LEMMA CapacityInvNext == ServiceInv /\ ServiceInv' /\ CapacityInv /\ [Next]_vars => CapacityInv'
<1> SUFFICES ASSUME ServiceInv, ServiceInv', CapacityInv, [Next]_vars
             PROVE  CapacityInv'
    OBVIOUS
<1>1. /\ StoreInv /\ ServiceTypeOK /\ Scheduler /\ IsFiniteSet(inflight) /\ StopBounded
      /\ InflightFinite
      /\ ex \in [JobIds -> [pc : ExecPcs, attempt : Nat]] /\ Workers \in Nat
      /\ \A c \in Controllers : ctl[c].capacity \in Int /\ ctl'[c].capacity \in Int
      /\ Cardinality(inflight) \in Nat
    BY ServiceAssumption, FS_CardinalityType
    DEF ServiceInv, ServiceTypeOK, CtlState, InflightFinite
<1>2. /\ Working \subseteq inflight \cup Claimed /\ Cardinality(inflight) <= Workers
      /\ \A c \in Scheduling :
            /\ ctl[c].capacity >= 0
            /\ IF ctl[c].pc = "claimed"
               THEN ctl[c].capacity + Cardinality(inflight) < Workers
               ELSE ctl[c].capacity + Cardinality(inflight) <= Workers
    BY DEF CapacityInv, Working
<1>3. ASSUME ctl' = ctl, inflight' \subseteq inflight, Working' \subseteq inflight' \cup Claimed
      PROVE  CapacityInv'
    <2>1. Claimed' = Claimed /\ Scheduling' = Scheduling
        BY <1>3 DEF Claimed, Scheduling
    <2>2. Cardinality(inflight') \in Nat /\ Cardinality(inflight') <= Cardinality(inflight)
        BY <1>1, <1>3, CountMore
    <2>3. Working' \subseteq inflight' \cup Claimed'
        BY <1>3, <2>1
    <2>4. Cardinality(inflight') <= Workers
        BY <1>1, <1>2, <2>2
    <2>5. ASSUME NEW c \in Scheduling'
          PROVE  /\ ctl'[c].capacity >= 0
                 /\ IF ctl'[c].pc = "claimed"
                    THEN ctl'[c].capacity + Cardinality(inflight') < Workers
                    ELSE ctl'[c].capacity + Cardinality(inflight') <= Workers
        <3>1. c \in Controllers /\ c \in Scheduling /\ ctl'[c] = ctl[c]
            BY <1>3, <2>1 DEF Scheduling
        <3>2. QED
            BY <1>1, <1>2, <2>2, <3>1
    <2>6. QED
        BY <2>3, <2>4, <2>5 DEF CapacityInv, Working
<1>4. ASSUME NEW j \in JobIds, ExecStep(j)
      PROVE  CapacityInv'
    <2>1. /\ UNCHANGED ctl
          /\ (\E to : Advances(j, to)) \/ Retires(j)
        BY <1>1, <1>4, ExecShape
    <2>2. CASE Retires(j)
        <3>1. \A i \in JobIds : ex'[i].attempt = IF i = j THEN 0 ELSE ex[i].attempt
            BY <1>1, <2>2 DEF Retires, IdleExec
        <3>2. inflight' = inflight \/ inflight' = inflight \ {j}
            BY <2>2 DEF Retires
        <3>3. Working' = Working \ {j}
            BY <3>1 DEF Working
        <3>4. Working' \subseteq inflight' \cup Claimed
            BY <1>2, <3>2, <3>3
        <3>5. QED
            BY <1>3, <2>1, <3>2, <3>4
    <2>3. ASSUME NEW to, Advances(j, to)
          PROVE  CapacityInv'
        <3>1. inflight' = inflight /\ \A i \in JobIds : ex'[i].attempt = ex[i].attempt
            BY <1>1, <2>3 DEF Advances
        <3>2. Working' = Working
            BY <3>1 DEF Working
        <3>3. QED
            BY <1>2, <1>3, <2>1, <3>1, <3>2
    <2>4. QED
        BY <2>1, <2>2, <2>3
<1>5. ASSUME NEW c \in Controllers, CtlStep(c)
      PROVE  CapacityInv'
    <2>1. Scheduler'
        BY DEF ServiceInv
    <2>2. /\ \A b \in Controllers \ {c} : ctl'[b] = ctl[b]
          /\ \/ Begins(c) \/ (\E j \in JobIds : Claims(c, j)) \/ Adds(c) \/ Submits(c)
             \/ Copies(c) \/ GoesOn(c)
        BY <1>1, <1>5, CtlEffects
    <2>3. ASSUME NEW b \in Scheduling', ctl[c].pc \in {"claim", "claimed", "submit"} \/ Scheduling = {}
          PROVE  b = c
        BY <1>1, <2>2, <2>3 DEF Scheduler, Scheduling
    <2>4. CASE Begins(c)
        <3>1. /\ inflight' = inflight /\ ex' = ex /\ Scheduling = {}
              /\ ctl'[c].pc = "claim" /\ ctl'[c].capacity = Workers - Cardinality(inflight)
            BY <2>4 DEF Begins
        <3>2. Claimed = {}
            BY <3>1 DEF Claimed, Scheduling
        <3>3. Working' \subseteq inflight'
            BY <1>2, <3>1, <3>2 DEF Working
        <3>4. ctl'[c].capacity >= 0 /\ ctl'[c].capacity + Cardinality(inflight') <= Workers
            BY <1>1, <1>2, <3>1
        <3>5. QED
            BY <1>2, <2>3, <3>1, <3>3, <3>4 DEF CapacityInv, Working
    <2>5. ASSUME NEW j \in JobIds, Claims(c, j)
          PROVE  CapacityInv'
        <3>1. /\ inflight' = inflight /\ ctl[c].pc = "claim" /\ ctl[c].capacity > 0
              /\ ctl'[c].pc = "claimed" /\ ctl'[c].job = j
              /\ ctl'[c].capacity = ctl[c].capacity - 1
              /\ \A i \in JobIds \ {j} : ex'[i].attempt = ex[i].attempt
            BY <1>1, <2>5 DEF Claims
        <3>2. Claimed = {} /\ Claimed' = {j}
            <4>1. Claimed = {}
                BY <1>1, <3>1, ClaimedOnce
            <4>2. \A b \in Controllers : ctl'[b].pc = "claimed" => b = c
                BY <1>1, <2>2, <3>1 DEF Scheduler, Scheduling
            <4>3. Claimed' = {j}
                BY <3>1, <4>2 DEF Claimed
            <4>4. QED
                BY <4>1, <4>3
        <3>3. Working' \subseteq inflight' \cup Claimed'
            BY <1>2, <3>1, <3>2 DEF Working
        <3>4. c \in Scheduling
            BY <3>1 DEF Scheduling
        <3>5. ctl'[c].capacity >= 0 /\ ctl'[c].capacity + Cardinality(inflight') < Workers
            BY <1>1, <1>2, <3>1, <3>4
        <3>6. QED
            BY <1>2, <2>3, <3>1, <3>3, <3>5 DEF CapacityInv, Working
    <2>6. CASE Adds(c)
        <3>1. /\ inflight' = inflight \cup {ctl[c].job} /\ ctl[c].pc = "claimed"
              /\ ctl'[c].pc = "submit" /\ ctl'[c].capacity = ctl[c].capacity /\ ex' = ex
            BY <2>6 DEF Adds
        <3>2. Claimed = {ctl[c].job}
            BY <1>1, <3>1, ClaimedOnce
        <3>3. Working' \subseteq inflight'
            BY <1>2, <3>1, <3>2 DEF Working
        <3>4. /\ Cardinality(inflight') \in Nat
              /\ Cardinality(inflight') <= Cardinality(inflight) + 1
            BY <1>1, <3>1, CountMore
        <3>5. c \in Scheduling
            BY <3>1 DEF Scheduling
        <3>6. ctl[c].capacity >= 0 /\ ctl[c].capacity + Cardinality(inflight) < Workers
            BY <1>2, <3>1, <3>5
        <3>7. /\ ctl'[c].capacity >= 0 /\ ctl'[c].capacity + Cardinality(inflight') <= Workers
              /\ Cardinality(inflight') <= Workers
            BY <1>1, <3>1, <3>4, <3>6
        <3>8. QED
            BY <2>3, <3>1, <3>3, <3>7 DEF CapacityInv, Working
    <2>7. CASE Submits(c) \/ Copies(c) \/ GoesOn(c)
        <3>1. inflight' = inflight /\ \A i \in JobIds : ex'[i].attempt = ex[i].attempt
            <4>1. CASE Submits(c)
                <5>1. ctl[c].job \in JobIds
                    BY <1>1, <4>1 DEF Submits, Scheduler
                <5>2. QED
                    BY <1>1, <4>1, <5>1 DEF Submits
            <4>2. CASE Copies(c) \/ GoesOn(c)
                BY <4>2 DEF Copies, GoesOn
            <4>3. QED
                BY <2>7, <4>1, <4>2
        <3>2. /\ ctl[c].pc # "claimed" /\ ctl'[c].pc # "claimed"
              /\ c \in Scheduling' => c \in Scheduling /\ ctl'[c].capacity = ctl[c].capacity
            BY <2>7 DEF Submits, Copies, GoesOn, Scheduling
        <3>3. Claimed' = Claimed
            BY <2>2, <3>2 DEF Claimed
        <3>4. Working' \subseteq inflight' \cup Claimed'
            BY <1>2, <3>1, <3>3 DEF Working
        <3>5. ASSUME NEW b \in Scheduling'
              PROVE  /\ ctl'[b].capacity >= 0
                     /\ IF ctl'[b].pc = "claimed"
                        THEN ctl'[b].capacity + Cardinality(inflight') < Workers
                        ELSE ctl'[b].capacity + Cardinality(inflight') <= Workers
            <4>1. CASE b = c
                BY <1>2, <3>1, <3>2, <4>1
            <4>2. CASE b # c
                BY <1>2, <2>2, <3>1, <4>2 DEF Scheduling
            <4>3. QED
                BY <4>1, <4>2
        <3>6. QED
            BY <1>2, <3>1, <3>4, <3>5 DEF CapacityInv, Working
    <2>8. QED
        BY <2>2, <2>4, <2>5, <2>6, <2>7
<1>6. CASE AsideStep
    <2>1. UNCHANGED <<ctl, inflight, ex>>
        BY <1>1, <1>6, AsideShape
    <2>2. QED
        BY <1>2, <1>3, <2>1 DEF Working
<1>7. CASE CloseDone \/ Crash
    <2>1. ResetVolatile
        BY <1>1, <1>7, ResetShape
    <2>2. /\ \A c \in Controllers : ctl'[c].pc = "idle"
          /\ \A j \in JobIds : ex'[j].attempt = 0
          /\ inflight' = {}
        BY <2>1 DEF ResetVolatile, IdleController, IdleExec
    <2>3. Cardinality({}) = 0
        BY FS_EmptySet
    <2>4. QED
        BY <1>1, <2>2, <2>3 DEF CapacityInv, Scheduling
<1>8. CASE UNCHANGED vars
    BY <1>2, <1>3, <1>8 DEF vars, schedVars, execVars, Working
<1>9. QED
    BY <1>4, <1>5, <1>6, <1>7, <1>8, NextCases

\* Initially the pool is empty.
LEMMA CapacityInvInit == Init => CapacityInv
<1> SUFFICES ASSUME Init
             PROVE  CapacityInv
    OBVIOUS
<1>1. /\ \A c \in Controllers : ctl[c].pc = "idle"
      /\ \A j \in JobIds : ex[j].attempt = 0
      /\ inflight = {} /\ Cardinality({}) = 0
    BY FS_EmptySet DEF Init, IdleController, IdleExec
<1>2. QED
    BY <1>1, ServiceAssumption DEF CapacityInv, Scheduling

\* No more jobs are claimed or executing than the pool has threads: for any
\* number of controllers, restarts and failing calls.
THEOREM CapacityRespectedHolds == Spec => []CapacityRespected
<1>1. ASSUME ServiceInv, CapacityInv
      PROVE  CapacityRespected
    <2>1. /\ Scheduler /\ IsFiniteSet(inflight) /\ Workers \in Nat
          /\ \A c \in Controllers : ctl[c].capacity \in Int
          /\ Cardinality(inflight) \in Nat
        BY <1>1, ServiceAssumption, FS_CardinalityType
        DEF ServiceInv, ServiceTypeOK, CtlState, InflightFinite
    <2>2. Working \subseteq inflight \cup Claimed /\ Cardinality(inflight) <= Workers
        BY <1>1 DEF CapacityInv, Working
    <2>3. CASE Claimed = {}
        <3>1. Working \in SUBSET inflight
            BY <2>2, <2>3
        <3>2. Cardinality(Working) \in Nat /\ Cardinality(Working) <= Cardinality(inflight)
            BY <2>1, <3>1, CountMore
        <3>3. QED
            BY <2>1, <2>2, <3>2 DEF CapacityRespected, Working
    <2>4. CASE Claimed # {}
        <3>1. PICK c \in Controllers : ctl[c].pc = "claimed"
            BY <2>4 DEF Claimed
        <3>2. Claimed = {ctl[c].job}
            BY <2>1, <3>1, ClaimedOnce
        <3>3. ctl[c].capacity >= 0 /\ ctl[c].capacity + Cardinality(inflight) < Workers
            BY <1>1, <3>1 DEF CapacityInv, Scheduling
        <3>4. /\ Cardinality(inflight \cup Claimed) \in Nat /\ IsFiniteSet(inflight \cup Claimed)
              /\ Cardinality(inflight \cup Claimed) <= Cardinality(inflight) + 1
            BY <2>1, <3>2, CountMore
        <3>5. /\ Cardinality(Working) \in Nat
              /\ Cardinality(Working) <= Cardinality(inflight \cup Claimed)
            BY <2>2, <3>4, CountMore
        <3>6. Cardinality(Working) <= Workers
            BY <2>1, <3>1, <3>3, <3>4, <3>5
        <3>7. QED
            BY <3>6 DEF CapacityRespected, Working
    <2>5. QED
        BY <2>3, <2>4
<1>2. QED
    BY <1>1, ServiceInvariant, CapacityInvInit, CapacityInvNext, PTL DEF Spec

=============================================================================
