-------------------------- MODULE JobOutcomeProofs --------------------------
(***************************************************************************)
(* What JobService guarantees about the outcome and the output of a job.   *)
(* Lease reconciliation is safe with one controller thread (with two, the  *)
(* run lease_expiry shows how a job is lost under its executor); output a  *)
(* row refers to exists unless an error follows a commit (the run          *)
(* readback_failure).  These hypotheses are part of the statements.        *)
(***************************************************************************)
EXTENDS JobServiceProofs

OneController == \E c : Controllers = {c}

InClaim(j) == ex[j].pc \in Executing \/ \E c \in Controllers : Held(c, j)

\* Whoever has a result to report, or is about to be submitted, owns its row;
\* its job is in _inflight, and a pass that has copied _inflight excludes it.
ClaimsKept ==
    /\ \A j \in JobIds : InClaim(j) => Owned(j) /\ jobs[j].phase \in OwnedPhases
    /\ \A j \in JobIds : ex[j].pc \in Executing => j \in inflight
    /\ \A c \in Controllers : ctl[c].pc = "submit" => ctl[c].job \in inflight
    /\ \A c \in Controllers : ctl[c].pc = "recover" =>
          \A j \in JobIds : ex[j].pc \in Executing => j \in ctl[c].excluded

\* Output columns are set by the result alone, and manifests belong to jobs
\* whose rows are gone.
OutputInv ==
    /\ \A j \in deletions : jobs[j] = NoRow /\ j \in minted
    /\ \A j \in Live(jobs) : jobs[j].output => jobs[j].phase \in TerminalPhases
    /\ \A j \in JobIds : InClaim(j) =>
          j \in minted /\ j \notin deletions /\ (jobs[j] # NoRow => ~jobs[j].output)
    /\ \A j \in JobIds : /\ ex[j].pc = "staging" => files[j] = "staged"
                         /\ ex[j].pc = "finish" => files[j] = "published"

CommittedInv ==
    /\ CommittedOutputExists
    /\ \A j \in JobIds : ex[j].pc = "discard" =>
          j \notin deletions /\ (jobs[j] # NoRow => ~jobs[j].output)

AccountedInv ==
    \A j \in JobIds :
        /\ svc # "down" /\ files[j] # "none"
        /\ ex[j].pc \notin {"staging", "finish", "discard"}
        => j \in Referenced

-----------------------------------------------------------------------------
(* What one step of the service does to one row: for each update, who makes  *)
(* it and when.                                                              *)

\* The clock, or a renewal of an owned job's lease.
RowTimed(j) ==
    /\ jobs[j] # NoRow
    /\ \/ jobs'[j] = WithLease(jobs[j], "held") /\ jobs[j].phase \in OwnedPhases
       \/ jobs'[j] = WithLease(jobs[j], "expired") /\ jobs[j].lease = "held"
       \/ jobs'[j] = Aged(jobs[j]) /\ Terminal(j)

\* request_cancel.
RowIntended(j) ==
    jobs[j] # NoRow /\ ~Terminal(j) /\ jobs'[j] = CancelledRow(jobs[j])

\* claim_next, by a controller that holds the schedule lock.
RowClaimed(j) ==
    /\ jobs[j] # NoRow /\ jobs[j].phase = "queued"
    /\ jobs'[j] = Assigned(jobs[j], worker_id)
    /\ \E c \in Controllers : CtlClaim(c, j)

\* mark_running, by the job's executor.
RowRunning(j) ==
    /\ Owned(j) /\ ex[j].pc = "started"
    /\ jobs'[j] = Running(jobs[j])

\* finish, by the job's executor, which then has no result to report any more.
\* Output is named only with a result, whose executor is told so unless an
\* error follows the commit.
RowFinished(j) ==
    /\ Owned(j) /\ jobs[j].phase \in OwnedPhases
    /\ \E phase \in TerminalPhases, hasOutput \in BOOLEAN :
          /\ jobs'[j] = Completed(jobs[j], phase, hasOutput)
          /\ hasOutput => /\ ex[j].pc = "finish"
                          /\ ex'[j].pc = "dispose" \/ "readback" \in FaultKinds
    /\ ex[j].pc \notin {"none", "discard"}
    /\ ex'[j].pc \in {"cleanup", "failing", "dispose", "discard"}
    /\ UNCHANGED files

\* recover_interrupted on start, or recover_expired_leases by a controller.
RowLost(j) ==
    /\ jobs[j] # NoRow /\ jobs[j].phase \in OwnedPhases
    /\ jobs'[j] = Lost(jobs[j])
    /\ \/ svc = "open"
       \/ \E c \in Controllers :
             ctl[c].pc = "recover" /\ j \notin ctl[c].excluded /\ UNCHANGED ex

\* prune_expired.
RowRemoved(j) == j \in Prunable /\ jobs'[j] = NoRow

\* submit.
RowInserted(j) ==
    /\ j \notin minted /\ jobs[j] = NoRow
    /\ jobs'[j] \in Row /\ jobs'[j].phase = "queued" /\ ~jobs'[j].output
    /\ jobs'[j].lease = "none"
    /\ j \in minted'

RowEffect(j) ==
    \/ jobs'[j] = jobs[j]
    \/ RowTimed(j) \/ RowIntended(j) \/ RowClaimed(j) \/ RowRunning(j) \/ RowFinished(j)
    \/ RowLost(j) \/ RowRemoved(j) \/ RowInserted(j)

\* finish as the executor of j calls it: the row of j changes, or none.
LEMMA FinishRow ==
    ASSUME ServiceInv, NEW i \in JobIds, NEW j \in JobIds, NEW phase \in Results,
           NEW hasOutput \in BOOLEAN, NEW to,
           Finish(i, ex[i].attempt, worker_id, phase, hasOutput),
           Goto(i, to), to \in {"cleanup", "failing", "dispose", "discard"},
           ex[i].pc \notin {"none", "discard"},
           hasOutput => ex[i].pc = "finish" /\ (to = "dispose" \/ "readback" \in FaultKinds)
    PROVE  RowEffect(j)
<1>1. /\ jobs \in [JobIds -> Row \cup {NoRow}]
      /\ ex \in [JobIds -> [pc : ExecPcs, attempt : Nat]]
      /\ phase \in TerminalPhases
    BY StoreAssumption DEF ServiceInv, StoreInv, StoreTypeOK, ServiceTypeOK
<1>2. CASE UNCHANGED jobs
    BY <1>2 DEF RowEffect
<1>3. CASE /\ jobs[i].phase \in OwnedPhases
           /\ jobs' = [jobs EXCEPT ![i] = Completed(jobs[i], phase, hasOutput)]
    <2>1. CASE j # i
        BY <1>1, <1>3, <2>1 DEF RowEffect
    <2>2. CASE j = i
        <3>1. jobs'[j] = Completed(jobs[j], phase, hasOutput) /\ ex'[j].pc = to
            BY <1>1, <1>3, <2>2 DEF Goto
        <3>2. Owned(j) /\ UNCHANGED files
            BY <2>2 DEF Finish, Owned
        <3>3. QED
            BY <1>1, <1>3, <2>2, <3>1, <3>2 DEF RowEffect, RowFinished
    <2>3. QED
        BY <2>1, <2>2
<1>4. QED
    BY <1>2, <1>3 DEF Finish

\* The steps of an executor.
LEMMA ExecRow ==
    ASSUME ServiceInv, NEW i \in JobIds, ExecStep(i), NEW j \in JobIds
    PROVE  RowEffect(j)
<1>1. {"succeeded", "failed", "timed_out", "canceled", "executor_lost"} \subseteq Results
    BY ServiceAssumption
<1>2. UNCHANGED storeVars => RowEffect(j)
    BY DEF storeVars, RowEffect
<1>3. CASE ExecRefuse(i)
    BY <1>1, <1>2, <1>3, FinishRow DEF ExecRefuse, At, Commits, Raises, CommitsAndRaises
<1>4. CASE ExecPreCancel(i)
    BY <1>1, <1>2, <1>4, FinishRow DEF ExecPreCancel, At, Commits, Raises, CommitsAndRaises
<1>5. CASE ExecFail(i) \/ ExecInterrupted(i)
    BY <1>1, <1>2, <1>5, FinishRow
    DEF ExecFail, ExecInterrupted, At, Commits, Raises, CommitsAndRaises
<1>6. CASE ExecFinish(i)
    <2>1. sess[i] \in Results
        BY <1>1, <1>6 DEF ServiceInv, ResultKnown, ExecFinish, At, SessionResults
    <2>2. CASE Commits(i, sess[i], TRUE) /\ Goto(i, "dispose")
        BY <1>6, <2>1, <2>2, FinishRow DEF ExecFinish, At, Commits
    <2>3. CASE CommitsAndRaises(i, sess[i], TRUE) /\ Goto(i, "discard")
        BY <1>6, <2>1, <2>3, FinishRow DEF ExecFinish, At, CommitsAndRaises, Fault
    <2>4. QED
        BY <1>2, <1>6, <2>2, <2>3 DEF ExecFinish, Raises
<1>7. CASE ExecMarkRunning(i)
    <2>1. CASE MarkRunning(i, ex[i].attempt, worker_id)
        <3>1. /\ jobs' = [jobs EXCEPT ![i] = Running(jobs[i])]
              /\ ex[i].pc = "started" /\ Owned(i)
            BY <1>7, <2>1 DEF ExecMarkRunning, At, MarkRunning, Owned
        <3>2. QED
            BY <3>1 DEF RowEffect, RowRunning, ServiceInv, StoreInv, StoreTypeOK
    <2>2. QED
        BY <1>2, <1>7, <2>1 DEF ExecMarkRunning, Raises
<1>8. CASE ExecStageOutput(i) \/ ExecPublishOutput(i) \/ ExecDiscardOutput(i)
    BY <1>8 DEF ExecStageOutput, ExecPublishOutput, ExecDiscardOutput, RowEffect
<1>9. CASE \/ ExecReadIntent(i) \/ ExecRegister(i) \/ ExecRecheckStop(i) \/ ExecStart(i)
           \/ ExecCancelIfAsked(i) \/ ExecDispose(i) \/ ExecCleanup(i) \/ ExecDone(i)
    BY <1>2, <1>9 DEF ExecReadIntent, ExecRegister, ExecRecheckStop, ExecStart,
                ExecCancelIfAsked, ExecDispose, ExecCleanup, ExecDone
<1>10. QED
    BY <1>3, <1>4, <1>5, <1>6, <1>7, <1>8, <1>9 DEF ExecStep

\* Retention, of a job and of the others.
LEMMA PruneRow ==
    ASSUME NEW j \in JobIds, jobs' = JobsAfterPrune \/ UNCHANGED jobs
    PROVE  RowEffect(j)
BY DEF JobsAfterPrune, RowEffect, RowRemoved

\* The steps of a controller.
LEMMA CtlRow ==
    ASSUME ServiceInv, NEW c \in Controllers, CtlStep(c), NEW j \in JobIds
    PROVE  RowEffect(j)
<1>1. jobs \in [JobIds -> Row \cup {NoRow}]
    BY DEF ServiceInv, StoreInv, StoreTypeOK
<1>2. UNCHANGED storeVars => RowEffect(j)
    BY DEF storeVars, RowEffect
<1>3. ASSUME NEW i \in JobIds, CtlClaim(c, i)
      PROVE  RowEffect(j)
    <2>1. /\ jobs[i] # NoRow /\ jobs[i].phase = "queued"
          /\ jobs' = [jobs EXCEPT ![i] = Assigned(jobs[i], worker_id)]
        BY <1>3 DEF CtlClaim, ClaimNext, InPhase, Live
    <2>2. CASE j = i
        BY <1>1, <1>3, <2>1, <2>2 DEF RowEffect, RowClaimed
    <2>3. CASE j # i
        BY <1>1, <2>1, <2>3 DEF RowEffect
    <2>4. QED
        BY <2>2, <2>3
<1>4. CASE CtlRenew(c)
    <2>1. ASSUME NEW held, RenewLeases(held, worker_id)
          PROVE  RowEffect(j)
        BY <2>1 DEF RenewLeases, InPhase, Live, RowEffect, RowTimed
    <2>2. QED
        BY <1>2, <1>4, <2>1 DEF CtlRenew
<1>5. CASE CtlRecover(c)
    <2>1. CASE RecoverExpiredLeases(ctl[c].excluded)
        <3>1. /\ ctl[c].pc = "recover" /\ UNCHANGED ex
              /\ jobs'[j] = IF j \in ExpiredLeases(ctl[c].excluded) THEN Lost(jobs[j]) ELSE jobs[j]
            BY <1>5, <2>1 DEF CtlRecover, CtlAt, RecoverExpiredLeases, LoseJobs, execVars
        <3>2. QED
            BY <3>1 DEF RowEffect, RowLost, ExpiredLeases, InPhase, Live
    <2>2. QED
        BY <1>2, <1>5, <2>1 DEF CtlRecover
<1>6. CASE CtlPrune(c)
    BY <1>6, PruneRow DEF CtlPrune, PruneExpired, PruneFails, PruneInterrupted
<1>7. CASE \/ CtlBegin(c) \/ CtlClaimDone(c) \/ CtlAddInflight(c) \/ CtlSubmit(c)
           \/ CtlSnapshot(c) \/ CtlNotDue(c)
    BY <1>2, <1>7
    DEF CtlBegin, CtlClaimDone, CtlAddInflight, CtlSubmit, CtlSnapshot, CtlNotDue
<1>8. QED
    BY <1>3, <1>4, <1>5, <1>6, <1>7 DEF CtlStep

\* The steps of everybody else.
LEMMA AsideRow ==
    ASSUME ServiceInv, AsideStep, NEW j \in JobIds
    PROVE  RowEffect(j)
<1>1. jobs \in [JobIds -> Row \cup {NoRow}] /\ RowsMinted
    BY DEF ServiceInv, StoreInv, StoreTypeOK
<1>2. UNCHANGED storeVars => RowEffect(j)
    BY DEF storeVars, RowEffect
<1>3. ASSUME NEW i \in JobIds, ClientSubmit(i)
      PROVE  RowEffect(j)
    <2>1. ASSUME NEW t \in Tenants, NEW k \in Keys, NEW spec \in Specs, NEW failing,
                 Submit(i, t, k, spec, failing)
          PROVE  RowEffect(j)
        <3>1. CASE jobs' = JobsAfterPrune
            BY <3>1, PruneRow
        <3>2. CASE /\ jobs' = [JobsAfterPrune EXCEPT ![i] = NewRow(t, k, spec)]
                   /\ minted' = minted \cup {i}
            <4>1. CASE j # i
                BY <3>2, <4>1 DEF JobsAfterPrune, RowEffect, RowRemoved
            <4>2. CASE j = i
                <5>1. jobs'[j] = NewRow(t, k, spec) /\ j \notin minted /\ j \in minted'
                    BY <2>1, <3>2, <4>2 DEF JobsAfterPrune, Submit
                <5>2. jobs[j] = NoRow
                    BY <1>1, <5>1 DEF RowsMinted, Live
                <5>3. NewRow(t, k, spec) \in Row
                    BY NewRowType
                <5>4. /\ NewRow(t, k, spec).phase = "queued" /\ ~NewRow(t, k, spec).output
                      /\ NewRow(t, k, spec).lease = "none"
                    BY DEF NewRow
                <5>5. QED
                    BY <5>1, <5>2, <5>3, <5>4 DEF RowEffect, RowInserted
            <4>3. QED
                BY <4>1, <4>2
        <3>3. QED
            BY <2>1, <3>1, <3>2 DEF Submit
    <2>2. CASE PruneFails
        BY <2>2, PruneRow DEF PruneFails, PruneInterrupted
    <2>3. QED
        BY <1>3, <2>1, <2>2 DEF ClientSubmit
<1>4. ASSUME NEW i \in JobIds, ClientCancel(i)
      PROVE  RowEffect(j)
    <2>1. \/ jobs' = jobs
          \/ /\ jobs[i] # NoRow /\ ~Terminal(i)
             /\ jobs' = [jobs EXCEPT ![i] = CancelledRow(jobs[i])]
        BY <1>4 DEF ClientCancel, RequestCancel
    <2>2. QED
        BY <1>1, <2>1 DEF RowEffect, RowIntended
<1>5. CASE Time
    <2>1. PICK i \in JobIds : \/ LeaseExpires(i) \/ RetentionPasses(i)
                              \/ \E n \in DOMAIN outbox[i] : BecomesDue(i, n)
        BY <1>5 DEF Time, Clock
    <2>2. \/ jobs' = jobs
          \/ /\ jobs[i] # NoRow /\ jobs[i].lease = "held"
             /\ jobs' = [jobs EXCEPT ![i] = WithLease(jobs[i], "expired")]
          \/ /\ Terminal(i) /\ jobs' = [jobs EXCEPT ![i] = Aged(jobs[i])]
        BY <2>1 DEF LeaseExpires, RetentionPasses, BecomesDue
    <2>3. QED
        BY <1>1, <2>2 DEF RowEffect, RowTimed, Terminal
<1>6. CASE Start
    <2>1. CASE RecoverInterrupted
        BY <1>6, <2>1 DEF Start, RecoverInterrupted, LoseJobs, InPhase, Live, RowEffect, RowLost
    <2>2. QED
        BY <1>2, <1>6, <2>1 DEF Start
<1>7. CASE Dispatch
    BY <1>7 DEF Dispatch, ClaimOutboxDue, OutboxDelivered, OutboxFailed, RowEffect
<1>8. CASE Open
    BY <1>8 DEF Open, RowEffect
<1>9. CASE \/ CloseStop \/ CloseSignal
           \/ \E i \in JobIds : SessionEnds(i) \/ SessionCancelled(i) \/ SignalRun(i)
    BY <1>2, <1>9 DEF CloseStop, CloseSignal, SessionEnds, SessionCancelled, SignalRun
<1>10. QED
    BY <1>3, <1>4, <1>5, <1>6, <1>7, <1>8, <1>9 DEF AsideStep

\* Every step has one of these effects on every row.
LEMMA RowStep ==
    ASSUME ServiceInv, [Next]_vars, NEW j \in JobIds
    PROVE  RowEffect(j)
<1>1. CASE CloseDone \/ Crash
    BY <1>1 DEF CloseDone, Crash, storeVars, RowEffect
<1>2. CASE UNCHANGED vars
    BY <1>2 DEF vars, storeVars, RowEffect
<1>3. QED
    BY <1>1, <1>2, NextCases, ExecRow, CtlRow, AsideRow

\* What each update keeps of a row.
LEMMA RowUpdatesKeep ==
    ASSUME NEW row \in Row
    PROVE  /\ \A new \in {WithLease(row, "held"), WithLease(row, "expired"), Aged(row)} :
                 /\ new \in Row /\ new.attempt = row.attempt /\ new.owner = row.owner
                 /\ new.output = row.output /\ new.phase = row.phase
           /\ /\ Running(row) \in Row /\ Running(row).attempt = row.attempt
              /\ Running(row).owner = row.owner /\ Running(row).output = row.output
              /\ Running(row).phase = "running" /\ Running(row).lease = row.lease
           /\ /\ CancelledRow(row) \in Row /\ CancelledRow(row).attempt = row.attempt
              /\ CancelledRow(row).owner = row.owner /\ CancelledRow(row).output = row.output
              /\ CancelledRow(row).lease = row.lease
              /\ CancelledRow(row).phase = IF row.phase = "queued" THEN "canceled" ELSE row.phase
           /\ Aged(row).lease = row.lease
<1>1. \A new \in {WithLease(row, "held"), WithLease(row, "expired"), Aged(row)} : new \in Row
    BY TimedRowTypes
<1>2. Running(row) \in Row /\ CancelledRow(row) \in Row
    BY RunningRowType, CancelledRowType
<1>3. \A lease : LET new == WithLease(row, lease)
                 IN  /\ new.attempt = row.attempt /\ new.owner = row.owner
                     /\ new.output = row.output /\ new.phase = row.phase
    BY DEF WithLease, Row
<1>4. LET new == Aged(row)
      IN  /\ new.attempt = row.attempt /\ new.owner = row.owner
          /\ new.output = row.output /\ new.phase = row.phase /\ new.lease = row.lease
    BY DEF Aged, Row
<1>5. LET new == Running(row)
      IN  /\ new.attempt = row.attempt /\ new.owner = row.owner
          /\ new.output = row.output /\ new.phase = "running" /\ new.lease = row.lease
    BY DEF Running, Row
<1>6. LET new == CancelledRow(row)
      IN  /\ new.attempt = row.attempt /\ new.owner = row.owner
          /\ new.output = row.output /\ new.lease = row.lease
          /\ new.phase = IF row.phase = "queued" THEN "canceled" ELSE row.phase
    BY DEF CancelledRow, Row
<1>7. QED
    BY <1>1, <1>2, <1>3, <1>4, <1>5, <1>6

\* What a claim and the terminal update make of a row.
LEMMA RowClaimsAndEnds ==
    ASSUME NEW row \in Row
    PROVE  /\ \A owner \in Nat :
                 /\ Assigned(row, owner) \in Row
                 /\ Assigned(row, owner).phase = "assigned" /\ Assigned(row, owner).owner = owner
                 /\ Assigned(row, owner).output = row.output
           /\ \A phase \in TerminalPhases, hasOutput \in BOOLEAN :
                 /\ Completed(row, phase, hasOutput) \in Row
                 /\ Completed(row, phase, hasOutput).phase \in TerminalPhases
                 /\ Completed(row, phase, hasOutput).output = hasOutput
                 /\ Completed(row, phase, hasOutput).lease = "none"
           /\ Lost(row) \in Row /\ Lost(row).phase \in TerminalPhases
           /\ Lost(row).output = row.output /\ Lost(row).lease = "none"
<1>1. ASSUME NEW owner \in Nat
      PROVE  /\ Assigned(row, owner) \in Row
             /\ Assigned(row, owner).phase = "assigned" /\ Assigned(row, owner).owner = owner
             /\ Assigned(row, owner).output = row.output
    BY ClaimedRowType DEF Assigned, Row
<1>2. ASSUME NEW phase \in TerminalPhases, NEW hasOutput \in BOOLEAN
      PROVE  /\ Completed(row, phase, hasOutput) \in Row
             /\ Completed(row, phase, hasOutput).phase \in TerminalPhases
             /\ Completed(row, phase, hasOutput).output = hasOutput
             /\ Completed(row, phase, hasOutput).lease = "none"
    <2>1. Completed(row, phase, hasOutput) \in Row
        BY CompletedType
    <2>2. Completed(row, phase, hasOutput).phase \in TerminalPhases
        BY CompletedUpdates
    <2>3. /\ Completed(row, phase, hasOutput).output = hasOutput
          /\ Completed(row, phase, hasOutput).lease = "none"
        BY DEF Completed, Row
    <2>4. QED
        BY <2>1, <2>2, <2>3
<1>3. row.output \in BOOLEAN /\ "executor_lost" \in TerminalPhases
    BY DEF Row, TerminalPhases
<1>4. QED
    BY <1>1, <1>2, <1>3 DEF Lost

-----------------------------------------------------------------------------
(* Claims.                                                                   *)

\* A lease is granted to an owned job only, and ends with it.
LeaseInv == \A j \in JobIds : jobs[j] # NoRow /\ jobs[j].lease # "none" =>
                                  jobs[j].phase \in OwnedPhases

\* Initially there are no rows ...
LEMMA LeaseInvInit == Init => LeaseInv
BY DEF Init, StoreInit, LeaseInv

\* ... and every update of a row keeps its lease in step with its phase.
LEMMA LeaseInvNext == ServiceInv /\ LeaseInv /\ [Next]_vars => LeaseInv'
<1> SUFFICES ASSUME ServiceInv, LeaseInv, [Next]_vars, NEW j \in JobIds,
                    jobs'[j] # NoRow, jobs'[j].lease # "none"
             PROVE  jobs'[j].phase \in OwnedPhases
    BY DEF LeaseInv
<1>1. RowEffect(j)
    BY RowStep
<1>2. jobs[j] # NoRow => jobs[j] \in Row
    BY LiveRow DEF ServiceInv, StoreInv, Live
<1>3. jobs[j] # NoRow /\ jobs[j].lease # "none" => jobs[j].phase \in OwnedPhases
    BY DEF LeaseInv
<1>4. "assigned" \in OwnedPhases /\ "running" \in OwnedPhases /\ "queued" \notin OwnedPhases
    BY DEF OwnedPhases
<1>5. CASE jobs'[j] = jobs[j]
    BY <1>3, <1>5
<1>6. CASE RowTimed(j)
    BY <1>2, <1>3, <1>6, RowUpdatesKeep DEF RowTimed
<1>7. CASE RowIntended(j)
    BY <1>2, <1>3, <1>4, <1>7, RowUpdatesKeep DEF RowIntended
<1>8. CASE RowClaimed(j)
    BY <1>2, <1>4, <1>8 DEF RowClaimed, Assigned, Row
<1>9. CASE RowRunning(j)
    BY <1>2, <1>4, <1>9, RowUpdatesKeep DEF RowRunning, Owned, OwnedRow
<1>10. CASE RowFinished(j)
    <2>1. PICK phase \in TerminalPhases, hasOutput \in BOOLEAN :
              jobs'[j] = Completed(jobs[j], phase, hasOutput)
        BY <1>10 DEF RowFinished
    <2>2. jobs[j] \in Row
        BY <1>2, <1>10 DEF RowFinished, Owned, OwnedRow
    <2>3. jobs'[j].lease = "none"
        BY <2>1, <2>2, RowClaimsAndEnds
    <2>4. QED
        BY <2>3
<1>11. CASE RowLost(j) \/ RowRemoved(j) \/ RowInserted(j)
    BY <1>2, <1>11, RowClaimsAndEnds DEF RowLost, RowRemoved, RowInserted
<1>12. QED
    BY <1>1, <1>5, <1>6, <1>7, <1>8, <1>9, <1>10, <1>11 DEF RowEffect

\* A claim goes on, with its attempt, or begins.
LEMMA ClaimStep ==
    ASSUME ServiceInv, StartInv, [Next]_vars, NEW j \in JobIds, InClaim(j)'
    PROVE  /\ restarts' = restarts
           /\ \/ InClaim(j) /\ ex'[j].attempt = ex[j].attempt
              \/ \E c \in Controllers : Claims(c, j)
<1>1. /\ StoreInv /\ ServiceTypeOK /\ Scheduler /\ InflightFinite /\ StopBounded
      /\ ex \in [JobIds -> [pc : ExecPcs, attempt : Nat]]
    BY DEF ServiceInv, ServiceTypeOK
<1>2. ASSUME NEW i \in JobIds, ExecStep(i)
      PROVE  restarts' = restarts /\ InClaim(j) /\ ex'[j].attempt = ex[j].attempt
    <2>1. /\ UNCHANGED <<ctl, restarts>>
          /\ (\E to : Advances(i, to)) \/ Retires(i)
        BY <1>1, <1>2, ExecShape
    <2>2. ~(\E c \in Controllers : Held(c, i))
        BY <2>1 DEF StartInv, Advances, Retires
    <2>3. \A c \in Controllers : Held(c, j)' <=> Held(c, j)
        BY <2>1 DEF Held
    <2>4. CASE Retires(i)
        BY <1>1, <2>1, <2>2, <2>3, <2>4 DEF Retires, IdleExec, InClaim, Executing
    <2>5. ASSUME NEW to, Advances(i, to)
          PROVE  InClaim(j) /\ ex'[j].attempt = ex[j].attempt
        <3>1. /\ ex'[j].attempt = ex[j].attempt
              /\ ex'[j].pc = IF j = i THEN to ELSE ex[j].pc
              /\ to \in Executing => ex[i].pc \in Executing
            BY <1>1, <2>5 DEF Advances
        <3>2. QED
            BY <2>3, <3>1 DEF InClaim
    <2>6. QED
        BY <2>1, <2>4, <2>5
<1>3. ASSUME NEW c \in Controllers, CtlStep(c)
      PROVE  /\ restarts' = restarts
             /\ \/ InClaim(j) /\ ex'[j].attempt = ex[j].attempt
                \/ Claims(c, j)
    <2>1. restarts' = restarts
        BY <1>1, <1>3, CtlShape
    <2>2. /\ \A b \in Controllers \ {c} : ctl'[b] = ctl[b]
          /\ \/ Begins(c) \/ (\E i \in JobIds : Claims(c, i)) \/ Adds(c) \/ Submits(c)
             \/ Copies(c) \/ GoesOn(c)
        BY <1>1, <1>3, CtlEffects
    <2>3. CASE Begins(c) \/ Copies(c) \/ GoesOn(c) \/ Adds(c)
        <3>1. ex' = ex
            BY <2>3 DEF Begins, Copies, GoesOn, Adds
        <3>2. \A b \in Controllers : Held(b, j)' => Held(b, j)
            BY <2>2, <2>3 DEF Begins, Copies, GoesOn, Adds, Held
        <3>3. QED
            BY <2>1, <3>1, <3>2 DEF InClaim
    <2>4. ASSUME NEW i \in JobIds, Claims(c, i), i # j
          PROVE  InClaim(j) /\ ex'[j].attempt = ex[j].attempt
        <3>1. ex'[j] = ex[j]
            BY <1>1, <2>4 DEF Claims
        <3>2. \A b \in Controllers : Held(b, j)' => Held(b, j)
            BY <2>2, <2>4 DEF Claims, Held
        <3>3. QED
            BY <3>1, <3>2 DEF InClaim
    <2>5. CASE Submits(c)
        <3>1. ctl[c].job \in JobIds /\ Held(c, ctl[c].job)
            BY <1>1, <2>5 DEF Submits, Scheduler, Held
        <3>2. /\ ex'[j].pc = IF j = ctl[c].job THEN "pool" ELSE ex[j].pc
              /\ ex'[j].attempt = ex[j].attempt
            BY <1>1, <2>5, <3>1 DEF Submits
        <3>3. \A b \in Controllers : Held(b, j)' => Held(b, j)
            BY <2>2, <2>5 DEF Submits, Held
        <3>4. QED
            BY <2>1, <3>1, <3>2, <3>3 DEF InClaim
    <2>6. QED
        BY <2>1, <2>2, <2>3, <2>4, <2>5
<1>4. CASE AsideStep
    <2>1. UNCHANGED <<ctl, ex, restarts>>
        BY <1>1, <1>4, AsideShape
    <2>2. QED
        BY <2>1 DEF InClaim, Held
<1>5. CASE CloseDone \/ Crash
    <2>1. ResetVolatile
        BY <1>1, <1>5, ResetShape
    <2>2. /\ \A c \in Controllers : ctl'[c].pc = "idle"
          /\ ex'[j].pc = "none"
        BY <2>1 DEF ResetVolatile, IdleController, IdleExec
    <2>3. QED
        BY <2>2 DEF InClaim, Held, Executing
<1>6. CASE UNCHANGED vars
    BY <1>6 DEF vars, schedVars, execVars, InClaim, Held
<1>7. QED
    BY <1>2, <1>3, <1>4, <1>5, <1>6, NextCases

\* A row in a claim that goes on stays owned, by the attempt that claimed it.
LEMMA ClaimedRowKept ==
    ASSUME ServiceInv, StartInv, StartInv', OneController, ClaimsKept, [Next]_vars,
           NEW j \in JobIds, InClaim(j), InClaim(j)'
    PROVE  /\ jobs'[j] # NoRow /\ jobs'[j].phase \in OwnedPhases
           /\ jobs'[j].attempt = jobs[j].attempt /\ jobs'[j].owner = jobs[j].owner
<1>1. /\ jobs[j] # NoRow /\ jobs[j].phase \in OwnedPhases /\ Owned(j)
    BY DEF ClaimsKept, Owned, OwnedRow
<1>2. jobs[j] \in Row /\ NoRow \notin Row
    BY <1>1, LiveRow, StoreAssumption DEF ServiceInv, StoreInv, Live
<1>3. /\ jobs[j].phase # "queued" /\ jobs[j].phase \notin TerminalPhases
      /\ "running" \in OwnedPhases
    BY <1>1 DEF OwnedPhases, TerminalPhases
<1>4. RowEffect(j)
    BY RowStep
<1>5. CASE jobs'[j] = jobs[j]
    BY <1>1, <1>5
<1>6. CASE RowTimed(j)
    BY <1>1, <1>2, <1>6, RowUpdatesKeep DEF RowTimed
<1>7. CASE RowIntended(j)
    BY <1>1, <1>2, <1>3, <1>7, RowUpdatesKeep DEF RowIntended
<1>8. CASE RowRunning(j)
    BY <1>2, <1>3, <1>8, RowUpdatesKeep DEF RowRunning
<1>9. CASE RowFinished(j)
    <2>1. ex'[j].pc \notin Executing /\ ex'[j].pc # "none"
        BY <1>9 DEF RowFinished, Executing
    <2>2. ~(\E c \in Controllers : Held(c, j)')
        BY <2>1 DEF StartInv
    <2>3. QED
        BY <2>1, <2>2 DEF InClaim
<1>10. CASE RowLost(j)
    <2>1. CASE svc = "open"
        BY <2>1 DEF ServiceInv, QuietWhenDown, InClaim, Held, Executing, IdleExec
    <2>2. ASSUME NEW c \in Controllers, ctl[c].pc = "recover", j \notin ctl[c].excluded
          PROVE  FALSE
        <3>1. ex[j].pc \notin Executing
            BY <2>2 DEF ClaimsKept
        <3>2. PICK b \in Controllers : Held(b, j)
            BY <3>1 DEF InClaim
        <3>3. b = c
            BY DEF OneController
        <3>4. QED
            BY <2>2, <3>2, <3>3 DEF Held
    <2>3. QED
        BY <1>10, <2>1, <2>2 DEF RowLost
<1>11. CASE RowClaimed(j) \/ RowRemoved(j) \/ RowInserted(j)
    BY <1>1, <1>3, <1>11 DEF RowClaimed, RowRemoved, RowInserted, Prunable, Terminal
<1>12. QED
    BY <1>4, <1>5, <1>6, <1>7, <1>8, <1>9, <1>10, <1>11 DEF RowEffect

\* No step takes a job from whoever has a result to report for it.
LEMMA ClaimedRowsOwned ==
    ASSUME ServiceInv, StartInv, StartInv', OneController, ClaimsKept, [Next]_vars,
           NEW j \in JobIds, InClaim(j)'
    PROVE  Owned(j)' /\ jobs'[j].phase \in OwnedPhases
<1>1. /\ restarts' = restarts
      /\ \/ InClaim(j) /\ ex'[j].attempt = ex[j].attempt
         \/ \E c \in Controllers : Claims(c, j)
    BY ClaimStep
<1>2. CASE InClaim(j) /\ ex'[j].attempt = ex[j].attempt
    <2>1. Owned(j)
        BY <1>2 DEF ClaimsKept
    <2>2. QED
        BY <1>1, <1>2, <2>1, ClaimedRowKept DEF Owned, OwnedRow, worker_id
<1>3. ASSUME NEW c \in Controllers, Claims(c, j)
      PROVE  Owned(j)' /\ jobs'[j].phase \in OwnedPhases
    <2>1. jobs[j] # NoRow /\ jobs[j] \in Row /\ NoRow \notin Row
        BY <1>3, LiveRow, StoreAssumption DEF Claims, ClaimNext, InPhase, Live, ServiceInv, StoreInv
    <2>2. jobs'[j] = Assigned(jobs[j], worker_id)
        BY <1>3 DEF Claims, ClaimNext, ServiceInv, StoreInv, StoreTypeOK
    <2>3. worker_id \in Nat /\ worker_id' = worker_id
        BY <1>1, ServiceAssumption DEF worker_id, ServiceInv, ServiceTypeOK
    <2>4. /\ jobs'[j] # NoRow /\ jobs'[j].phase = "assigned"
          /\ jobs'[j].owner = worker_id
        BY <2>1, <2>2, <2>3, RowClaimsAndEnds
    <2>5. ex'[j].attempt = jobs'[j].attempt
        BY <1>3 DEF Claims, ServiceInv, ServiceTypeOK
    <2>6. QED
        BY <2>3, <2>4, <2>5 DEF Owned, OwnedRow, OwnedPhases
<1>4. QED
    BY <1>1, <1>2, <1>3

\* Initially nobody has claimed anything ...
LEMMA ClaimsKeptInit == Init => ClaimsKept
BY DEF Init, ClaimsKept, InClaim, Held, Executing, IdleExec, IdleController

\* ... and a job enters _inflight before it is submitted and leaves it after its
\* executor, so that the copy a reconciling pass makes covers every executor.
LEMMA ClaimsKeptNext ==
    ASSUME OneController
    PROVE  ServiceInv /\ StartInv /\ ClaimsKept /\ [Next]_vars => ClaimsKept'
<1> SUFFICES ASSUME ServiceInv, StartInv, ClaimsKept, [Next]_vars
             PROVE  ClaimsKept'
    OBVIOUS
<1> DEFINE Tracked ==
        /\ \A j \in JobIds : ex[j].pc \in Executing => j \in inflight
        /\ \A c \in Controllers : ctl[c].pc = "submit" => ctl[c].job \in inflight
        /\ \A c \in Controllers : ctl[c].pc = "recover" =>
              \A j \in JobIds : ex[j].pc \in Executing => j \in ctl[c].excluded
<1>1. /\ StoreInv /\ ServiceTypeOK /\ Scheduler /\ InflightFinite /\ StopBounded
      /\ ex \in [JobIds -> [pc : ExecPcs, attempt : Nat]]
    BY DEF ServiceInv, ServiceTypeOK
<1>2. StartInv' /\ Tracked
    BY StartInvNext DEF ClaimsKept
<1>3. \A j \in JobIds : InClaim(j)' => Owned(j)' /\ jobs'[j].phase \in OwnedPhases
    BY <1>2, ClaimedRowsOwned
<1>4. SUFFICES Tracked'
    BY <1>3 DEF ClaimsKept
<1>5. ASSUME NEW j \in JobIds, ExecStep(j)
      PROVE  Tracked'
    <2>1. /\ UNCHANGED ctl
          /\ (\E to : Advances(j, to)) \/ Retires(j)
        BY <1>1, <1>5, ExecShape
    <2>2. CASE Retires(j)
        <3>1. /\ ex[j].pc = "done"
              /\ \A i \in JobIds : ex'[i].pc = IF i = j THEN "none" ELSE ex[i].pc
            BY <1>1, <2>2 DEF Retires, IdleExec
        <3>2. \A c \in Controllers : ctl[c].pc = "submit" => ctl[c].job # j
            BY <3>1 DEF StartInv, Held
        <3>3. "none" \notin Executing /\ inflight \ {j} \subseteq inflight'
            BY <2>2 DEF Executing, Retires
        <3>4. QED
            BY <1>2, <2>1, <3>1, <3>2, <3>3
    <2>3. ASSUME NEW to, Advances(j, to)
          PROVE  Tracked'
        <3>1. /\ \A i \in JobIds : ex'[i].pc = IF i = j THEN to ELSE ex[i].pc
              /\ to \in Executing => ex[j].pc \in Executing
              /\ inflight' = inflight
            BY <1>1, <2>3 DEF Advances
        <3>2. QED
            BY <1>2, <2>1, <3>1
    <2>4. QED
        BY <2>1, <2>2, <2>3
<1>6. ASSUME NEW c \in Controllers, CtlStep(c)
      PROVE  Tracked'
    <2>1. Controllers = {c}
        BY DEF OneController
    <2>2. \/ Begins(c) \/ (\E j \in JobIds : Claims(c, j)) \/ Adds(c) \/ Submits(c)
          \/ Copies(c) \/ GoesOn(c)
        BY <1>1, <1>6, CtlEffects
    <2>3. CASE Begins(c) \/ Copies(c) \/ GoesOn(c) \/ Adds(c)
        <3>1. /\ ex' = ex /\ inflight \subseteq inflight'
              /\ ctl'[c].pc = "submit" => ctl'[c].job \in inflight'
              /\ ctl'[c].pc = "recover" => ctl'[c].excluded = inflight
            BY <2>3 DEF Begins, Copies, GoesOn, Adds
        <3>2. QED
            BY <1>2, <2>1, <3>1
    <2>4. ASSUME NEW j \in JobIds, Claims(c, j)
          PROVE  Tracked'
        <3>1. /\ \A i \in JobIds : ex'[i].pc = ex[i].pc
              /\ ctl'[c].pc = "claimed" /\ inflight' = inflight
            BY <1>1, <2>4 DEF Claims
        <3>2. QED
            BY <1>2, <2>1, <3>1
    <2>5. CASE Submits(c)
        <3>1. ctl[c].job \in JobIds /\ ctl[c].job \in inflight
            BY <1>1, <1>2, <2>5 DEF Submits, Scheduler
        <3>2. /\ \A i \in JobIds : ex'[i].pc = IF i = ctl[c].job THEN "pool" ELSE ex[i].pc
              /\ ctl'[c].pc \in {"idle", "claim"} /\ inflight' = inflight
            BY <1>1, <2>5, <3>1 DEF Submits
        <3>3. QED
            BY <1>2, <2>1, <3>1, <3>2
    <2>6. QED
        BY <2>2, <2>3, <2>4, <2>5
<1>7. CASE AsideStep
    <2>1. UNCHANGED <<ctl, ex, inflight>>
        BY <1>1, <1>7, AsideShape
    <2>2. QED
        BY <1>2, <2>1
<1>8. CASE CloseDone \/ Crash
    <2>1. ResetVolatile
        BY <1>1, <1>8, ResetShape
    <2>2. /\ \A c \in Controllers : ctl'[c].pc = "idle"
          /\ \A j \in JobIds : ex'[j].pc = "none"
        BY <2>1 DEF ResetVolatile, IdleController, IdleExec
    <2>3. QED
        BY <2>2 DEF Executing
<1>9. CASE UNCHANGED vars
    BY <1>2, <1>9 DEF vars, schedVars, execVars
<1>10. QED
    BY <1>5, <1>6, <1>7, <1>8, <1>9, NextCases

\* The invariants about claims together.
OutcomeInv == ServiceInv /\ StartInv /\ ClaimsKept /\ LeaseInv

\* With one controller thread they hold, whatever fails and however often the
\* service restarts.
LEMMA OutcomeInvariant ==
    ASSUME OneController
    PROVE  Spec => []OutcomeInv
<1>1. Init => OutcomeInv
    BY ServiceInvInit, StartInvInit, ClaimsKeptInit, LeaseInvInit DEF OutcomeInv
<1>2. OutcomeInv /\ [Next]_vars => OutcomeInv'
    BY ServiceInvNext, StartInvNext, ClaimsKeptNext, LeaseInvNext DEF OutcomeInv
<1>3. QED
    BY <1>1, <1>2, PTL DEF Spec

\* With one controller thread, lease reconciliation never declares a job lost
\* under a live executor: the pass excludes every executor's job, because a job
\* is in _inflight as long as its executor lives and the pass itself is the only
\* one that submits.
THEOREM NoFalseLossHolds ==
    ASSUME OneController
    PROVE  Spec => []NoFalseLoss
<1>1. OutcomeInv => NoFalseLoss
    BY DEF OutcomeInv, ClaimsKept, InClaim, NoFalseLoss
<1>2. QED
    BY <1>1, OutcomeInvariant, PTL

-----------------------------------------------------------------------------
(* The end of a job.                                                         *)

\* Only retention's clock touches a row that has ended.
LEMMA TerminalStays ==
    ASSUME OutcomeInv, [Next]_vars, NEW j \in JobIds, Terminal(j), jobs'[j] # NoRow
    PROVE  jobs'[j] = jobs[j] \/ jobs'[j] = Aged(jobs[j])
<1>1. RowEffect(j)
    BY RowStep DEF OutcomeInv
<1>2. /\ jobs[j] # NoRow /\ jobs[j].phase \notin OwnedPhases /\ jobs[j].phase # "queued"
    BY DEF Terminal, TerminalPhases, OwnedPhases
<1>3. jobs[j].lease = "none"
    BY <1>2 DEF OutcomeInv, LeaseInv
<1>4. ex[j].pc # "started"
    BY <1>2 DEF OutcomeInv, ClaimsKept, InClaim, Executing
<1>5. QED
    BY <1>1, <1>2, <1>3, <1>4
    DEF RowEffect, RowTimed, RowIntended, RowClaimed, RowRunning, RowFinished, RowLost,
        RowRemoved, RowInserted

\* With one controller thread, the outcome of a job is immutable: no late
\* result, cancel, lease recovery or restart changes a row that has ended.
THEOREM TerminalImmutableHolds ==
    ASSUME OneController
    PROVE  Spec => TerminalImmutable
<1> DEFINE Kept == \A j \in JobIds :
        Terminal(j) /\ jobs'[j] # NoRow
           => [jobs'[j] EXCEPT !.aged = FALSE] = [jobs[j] EXCEPT !.aged = FALSE]
<1>1. ASSUME OutcomeInv, [Next]_vars
      PROVE  Kept
    <2> SUFFICES ASSUME NEW j \in JobIds, Terminal(j), jobs'[j] # NoRow
                 PROVE  [jobs'[j] EXCEPT !.aged = FALSE] = [jobs[j] EXCEPT !.aged = FALSE]
        OBVIOUS
    <2>1. jobs[j] \in Row
        BY <1>1, LiveRow DEF Terminal, Live, OutcomeInv, ServiceInv, StoreInv
    <2>2. [Aged(jobs[j]) EXCEPT !.aged = FALSE] = [jobs[j] EXCEPT !.aged = FALSE]
        BY <2>1 DEF Aged, Row
    <2>3. QED
        BY <1>1, <2>2, TerminalStays
<1>2. OutcomeInv /\ [Next]_vars => [Kept]_vars
    BY <1>1
<1>3. QED
    BY <1>2, OutcomeInvariant, PTL DEF Spec, TerminalImmutable

\* Initially there is no event ...
LEMMA OneNotificationInit == Init => OneNotification
<1> SUFFICES ASSUME Init, NEW j \in JobIds
             PROVE  Len(outbox[j]) = IF Terminal(j) /\ jobs[j].spec.callback THEN 1 ELSE 0
    BY DEF OneNotification
<1>1. outbox[j] = <<>> /\ ~Terminal(j)
    BY DEF Init, StoreInit, Terminal
<1>2. Len(<<>>) = 0
    OBVIOUS
<1>3. QED
    BY <1>1, <1>2

\* ... and the step that ends a job, and no other, adds its event.
LEMMA OneNotificationNext == OutcomeInv /\ OneNotification /\ [Next]_vars => OneNotification'
<1> SUFFICES ASSUME OutcomeInv, OneNotification, [Next]_vars, NEW j \in JobIds
             PROVE  Len(outbox'[j]) =
                        IF Terminal(j)' /\ jobs'[j].spec.callback THEN 1 ELSE 0
    BY DEF OneNotification
<1>1. Len(outbox[j]) = IF Terminal(j) /\ jobs[j].spec.callback THEN 1 ELSE 0
    BY DEF OneNotification
<1>2. CASE UNCHANGED storeVars
    BY <1>1, <1>2 DEF storeVars, Terminal
<1>3. CASE StoreNext
    <2>1. Effect(j)
        BY <1>3, StepEffect DEF OutcomeInv, ServiceInv, StoreInv
    <2>2. CASE Unaffected(j)
        BY <1>1, <2>2 DEF Unaffected, Terminal
    <2>3. CASE Updated(j)
        <3>1. /\ jobs[j] \in Row /\ jobs'[j] \in Row /\ NoRow \notin Row
              /\ jobs'[j].spec.callback = jobs[j].spec.callback
              /\ Len(outbox'[j]) = IF Ends(jobs[j], jobs'[j]) /\ jobs[j].spec.callback
                                   THEN Len(outbox[j]) + 1 ELSE Len(outbox[j])
            BY <2>3, StoreAssumption DEF Updated, RowUpdated
        <3>2. Aged(jobs[j]).phase = jobs[j].phase
            BY <3>1, RowUpdatesKeep
        <3>3. Terminal(j) => Terminal(j)'
            BY <3>1, <3>2, TerminalStays DEF Terminal
        <3>4. Ends(jobs[j], jobs'[j]) <=> ~Terminal(j) /\ Terminal(j)'
            BY <3>1 DEF Ends, Terminal
        <3>5. QED
            BY <1>1, <3>1, <3>3, <3>4
    <2>4. CASE Removed(j)
        BY <2>4 DEF Removed, Terminal
    <2>5. CASE Inserted(j)
        <3>1. ~Terminal(j) /\ Len(outbox'[j]) = Len(outbox[j])
            BY <2>5 DEF Inserted, Terminal
        <3>2. PICK t \in Tenants, k \in Keys, spec \in Specs :
                  jobs' = [JobsAfterPrune EXCEPT ![j] = NewRow(t, k, spec)]
            BY <2>5 DEF Inserted
        <3>3. jobs'[j] = NewRow(t, k, spec)
            BY <3>2 DEF JobsAfterPrune
        <3>4. ~Terminal(j)'
            BY <3>3 DEF NewRow, Terminal, TerminalPhases
        <3>5. QED
            BY <1>1, <3>1, <3>4
    <2>6. QED
        BY <2>1, <2>2, <2>3, <2>4, <2>5 DEF Effect
<1>4. QED
    BY <1>2, <1>3, StoreCalls DEF OutcomeInv, vars

\* With one controller thread, a terminal job with a callback has exactly one
\* notification and no other job has any, whichever of its result, a cancel, an
\* expired lease and a restart ends it.
THEOREM OneNotificationHolds ==
    ASSUME OneController
    PROVE  Spec => []OneNotification
<1>1. QED
    BY OneNotificationInit, OneNotificationNext, OutcomeInvariant, PTL DEF Spec

-----------------------------------------------------------------------------
(* What one step does to the output of one job.                              *)

\* It is left alone: an executor that goes on without touching its output has
\* committed a result that names it, is about to discard it, or met an error.
FilesKept(j) ==
    /\ files'[j] = files[j] /\ (j \in deletions' <=> j \in deletions)
    /\ svc' # "down" => svc # "down"
    /\ ex'[j].pc \in {"staging", "finish"} => ex'[j].pc = ex[j].pc
    /\ ex[j].pc \in {"staging", "discard"} =>
          ex'[j].pc = ex[j].pc \/ svc' = "down" \/ "output" \in FaultKinds
    /\ ex[j].pc = "finish" =>
          \/ ex'[j].pc \in {"finish", "discard"} \/ svc' = "down"
          \/ Terminal(j)
          \/ jobs'[j] # NoRow /\ jobs'[j].output

\* Retention: a manifest is there already, or replaces the row.
FilesPruned(j) ==
    /\ UNCHANGED ex
    /\ j \in deletions \/ (j \in Prunable /\ jobs[j].output /\ jobs'[j] = NoRow)
    /\ j \in deletions' \/ files'[j] = "none"

\* write_job, by the job's executor.
FilesWritten(j) ==
    /\ UNCHANGED <<jobs, deletions>>
    /\ \/ ex[j].pc = "waiting" /\ ex'[j].pc = "staging" /\ files'[j] = "staged"
       \/ ex[j].pc = "staging" /\ ex'[j].pc = "finish" /\ files'[j] = "published"
       \/ ex[j].pc = "staging" /\ ex'[j].pc = "failing" /\ "output" \in FaultKinds

\* _discard_uncommitted_output, by the job's executor.
FilesDiscarded(j) ==
    /\ UNCHANGED <<jobs, deletions>>
    /\ ex[j].pc = "discard" /\ ex'[j].pc = "failing" /\ files'[j] = "none"

\* reconcile, when the service opens.
FilesReconciled(j) ==
    /\ svc = "down" /\ UNCHANGED <<ex, jobs, deletions>>
    /\ files'[j] = IF files[j] = "published" /\ j \in Referenced THEN "published" ELSE "none"

FileEffect(j) ==
    \/ FilesKept(j) \/ FilesPruned(j) \/ FilesWritten(j) \/ FilesDiscarded(j)
    \/ FilesReconciled(j)

\* The steps of an executor.
LEMMA ExecFiles ==
    ASSUME ServiceInv, NEW i \in JobIds, ExecStep(i), NEW j \in JobIds
    PROVE  FileEffect(j)
<1>1. /\ files \in [JobIds -> OutputDirs] /\ jobs \in [JobIds -> Row \cup {NoRow}]
      /\ ex \in [JobIds -> [pc : ExecPcs, attempt : Nat]]
      /\ ServiceTypeOK
    BY DEF ServiceInv, StoreInv, StoreTypeOK, ServiceTypeOK
<1>2. /\ UNCHANGED <<svc, deletions>>
      /\ (\E to : Advances(i, to)) \/ Retires(i)
    <2>1. UNCHANGED svc /\ ((\E to : Advances(i, to)) \/ Retires(i))
        BY <1>1, ExecShape
    <2>2. UNCHANGED deletions
        BY DEF ExecStep, ExecRefuse, ExecReadIntent, ExecPreCancel, ExecRegister, ExecRecheckStop,
           ExecStart, ExecMarkRunning, ExecCancelIfAsked, ExecStageOutput, ExecPublishOutput,
           ExecFinish, ExecDispose, ExecDiscardOutput, ExecFail, ExecInterrupted, ExecCleanup,
           ExecDone, storeVars, Commits, Raises, CommitsAndRaises, Finish, MarkRunning
    <2>3. QED
        BY <2>1, <2>2
<1>3. \A h \in JobIds \ {i} : ex'[h] = ex[h]
    BY <1>1, <1>2 DEF Advances, Retires
<1>4. \/ UNCHANGED files
      \/ ExecStageOutput(i) \/ ExecPublishOutput(i) \/ ExecDiscardOutput(i)
    BY DEF ExecStep, ExecRefuse, ExecReadIntent, ExecPreCancel, ExecRegister, ExecRecheckStop,
       ExecStart, ExecMarkRunning, ExecCancelIfAsked,
       ExecFinish, ExecDispose, ExecFail, ExecInterrupted, ExecCleanup,
       ExecDone, storeVars, Commits, Raises, CommitsAndRaises, Finish, MarkRunning
<1>5. CASE j # i
    <2>1. files'[j] = files[j]
        BY <1>1, <1>4, <1>5 DEF ExecStageOutput, ExecPublishOutput, ExecDiscardOutput,
           StageOutput, PublishOutput, RemoveOutput
    <2>2. QED
        BY <1>2, <1>3, <1>5, <2>1 DEF FileEffect, FilesKept
<1>6. CASE j = i
    <2>1. CASE ExecStageOutput(i)
        <3>1. /\ ex[i].pc = "waiting" /\ UNCHANGED <<jobs, deletions>>
              /\ \/ files' = [files EXCEPT ![i] = "staged"] /\ Goto(i, "staging")
                 \/ UNCHANGED files /\ Goto(i, "failing")
            BY <2>1 DEF ExecStageOutput, At, StageOutput
        <3>2. QED
            BY <1>1, <1>2, <1>6, <3>1 DEF FileEffect, FilesWritten, FilesKept, Goto
    <2>2. CASE ExecPublishOutput(i)
        <3>1. /\ ex[i].pc = "staging" /\ UNCHANGED <<jobs, deletions>>
              /\ \/ files' = [files EXCEPT ![i] = "published"] /\ Goto(i, "finish")
                 \/ "output" \in FaultKinds /\ Goto(i, "failing")
            BY <2>2 DEF ExecPublishOutput, At, PublishOutput, Fault
        <3>2. QED
            BY <1>1, <1>6, <3>1 DEF FileEffect, FilesWritten, Goto
    <2>3. CASE ExecDiscardOutput(i)
        <3>1. /\ ex[i].pc = "discard" /\ UNCHANGED <<jobs, deletions>> /\ Goto(i, "failing")
              /\ \/ files' = [files EXCEPT ![i] = "none"]
                 \/ "output" \in FaultKinds /\ UNCHANGED files
            BY <2>3 DEF ExecDiscardOutput, At, RemoveOutput, Fault
        <3>2. QED
            BY <1>1, <1>2, <1>6, <3>1 DEF FileEffect, FilesDiscarded, FilesKept, Goto
    <2>4. CASE ExecFinish(i)
        <3>1. ex[i].pc = "finish" /\ UNCHANGED files
            BY <2>4 DEF ExecFinish, At, Commits, Raises, CommitsAndRaises, Finish, storeVars
        <3>2. CASE Goto(i, "discard")
            BY <1>1, <1>2, <1>6, <3>1, <3>2 DEF FileEffect, FilesKept, Goto
        <3>3. CASE Commits(i, sess[i], TRUE) /\ Goto(i, "dispose")
            <4>1. \/ Terminal(i)
                  \/ jobs[i] # NoRow /\ jobs' = [jobs EXCEPT ![i] = Completed(jobs[i], sess[i], TRUE)]
                BY <3>3 DEF Commits, Finish, OwnedRow
            <4>2. jobs[i] # NoRow => jobs[i] \in Row
                BY <1>1
            <4>3. sess[i] \in TerminalPhases /\ NoRow \notin Row
                BY <3>1, StoreAssumption DEF ServiceInv, ResultKnown, SessionResults, TerminalPhases
            <4>4. Terminal(i) \/ (jobs'[i] # NoRow /\ jobs'[i].output)
                <5>1. CASE /\ jobs[i] # NoRow
                           /\ jobs' = [jobs EXCEPT ![i] = Completed(jobs[i], sess[i], TRUE)]
                    <6>1. jobs'[i] = Completed(jobs[i], sess[i], TRUE) /\ TRUE \in BOOLEAN
                        BY <1>1, <5>1
                    <6>2. jobs[i] \in Row
                        BY <4>2, <5>1
                    <6>3. /\ Completed(jobs[i], sess[i], TRUE) \in Row
                          /\ Completed(jobs[i], sess[i], TRUE).output = TRUE
                        BY <4>3, <6>1, <6>2, RowClaimsAndEnds
                    <6>4. QED
                        BY <4>3, <6>1, <6>3
                <5>2. QED
                    BY <4>1, <5>1
            <4>5. ex'[i].pc = "dispose"
                BY <1>1, <3>3 DEF Goto
            <4>6. QED
                BY <1>2, <1>6, <3>1, <4>4, <4>5 DEF FileEffect, FilesKept
        <3>4. QED
            BY <2>4, <3>2, <3>3 DEF ExecFinish
    <2>5. CASE /\ ~ExecStageOutput(i) /\ ~ExecPublishOutput(i) /\ ~ExecDiscardOutput(i)
               /\ ~ExecFinish(i)
        <3>1. /\ ex[i].pc \notin {"staging", "finish", "discard"}
              /\ ex'[i].pc \notin {"staging", "finish"}
            <4>1. ex[i].pc \notin {"waiting", "staging", "finish", "discard"}
                BY <2>5 DEF ExecStep, ExecRefuse, ExecReadIntent, ExecPreCancel, ExecRegister,
                   ExecRecheckStop, ExecStart, ExecMarkRunning, ExecCancelIfAsked, ExecDispose,
                   ExecFail, ExecInterrupted, ExecCleanup, ExecDone, At
            <4>2. QED
                BY <1>1, <1>2, <4>1 DEF Advances, Retires, IdleExec
        <3>2. UNCHANGED files
            BY <1>4, <2>5
        <3>3. QED
            BY <1>2, <1>6, <3>1, <3>2 DEF FileEffect, FilesKept
    <2>6. QED
        BY <2>1, <2>2, <2>3, <2>4, <2>5
<1>7. QED
    BY <1>5, <1>6

\* Retention, in all the ways it ends.
LEMMA PruneFileEffect ==
    ASSUME NEW j \in JobIds, UNCHANGED <<ex, svc>>,
           \/ \E failing : PruneFiles(failing)
           \/ \E cleaned, forgotten : FinalizePartly(ManifestsAfterPrune, cleaned, forgotten),
           j \in Prunable => jobs'[j] = NoRow
    PROVE  FileEffect(j)
<1>1. CASE j \in ManifestsAfterPrune
    BY <1>1 DEF FileEffect, FilesPruned, PruneFiles, FinalizePartly, ManifestsAfterPrune
<1>2. CASE j \notin ManifestsAfterPrune
    <2>1. j \notin deletions
        BY <1>2 DEF ManifestsAfterPrune
    <2>2. files'[j] = files[j] /\ j \notin deletions'
        BY <1>2 DEF PruneFiles, FinalizePartly
    <2>3. QED
        BY <2>1, <2>2 DEF FileEffect, FilesKept
<1>3. QED
    BY <1>1, <1>2

\* A store error in retention.
LEMMA PruneFailsFiles ==
    ASSUME NEW j \in JobIds, UNCHANGED <<ex, svc>>, PruneFails
    PROVE  FileEffect(j)
<1>1. PICK cleaned, forgotten : PruneInterrupted(cleaned, forgotten)
    BY DEF PruneFails
<1>2. CASE jobs' = JobsAfterPrune /\ FinalizePartly(ManifestsAfterPrune, cleaned, forgotten)
    BY <1>2, PruneFileEffect DEF JobsAfterPrune
<1>3. CASE FinalizePartly(deletions, cleaned, forgotten)
    BY <1>3 DEF FinalizePartly, FileEffect, FilesPruned, FilesKept
<1>4. QED
    BY <1>1, <1>2, <1>3 DEF PruneInterrupted

\* The steps of a controller.
LEMMA CtlFiles ==
    ASSUME ServiceInv, StartInv, NEW c \in Controllers, CtlStep(c), NEW j \in JobIds
    PROVE  FileEffect(j)
<1>1. /\ UNCHANGED svc
      /\ ex \in [JobIds -> [pc : ExecPcs, attempt : Nat]]
    BY CtlShape DEF ServiceInv, ServiceTypeOK
<1>2. CASE CtlPrune(c)
    <2>1. UNCHANGED <<ex, svc>>
        BY <1>2 DEF CtlPrune, execVars
    <2>2. ASSUME NEW failing, PruneExpired(failing)
          PROVE  FileEffect(j)
        BY <2>1, <2>2, PruneFileEffect DEF PruneExpired, JobsAfterPrune
    <2>3. CASE PruneFails
        BY <2>1, <2>3, PruneFailsFiles
    <2>4. QED
        BY <1>2, <2>2, <2>3 DEF CtlPrune
<1>3. CASE ~CtlPrune(c)
    <2>1. UNCHANGED <<files, deletions>>
        BY <1>3 DEF CtlStep, CtlBegin, CtlClaim, CtlClaimDone, CtlAddInflight, CtlSubmit, CtlRenew,
           CtlSnapshot, CtlNotDue, CtlRecover, storeVars, ClaimNext, RenewLeases,
           RecoverExpiredLeases
    <2>2. ex'[j].pc = ex[j].pc \/ (ex'[j].pc = "pool" /\ Held(c, j))
        <3>1. \/ Begins(c) \/ (\E i \in JobIds : Claims(c, i)) \/ Adds(c) \/ Submits(c)
              \/ Copies(c) \/ GoesOn(c)
            BY CtlEffects DEF ServiceInv
        <3>2. QED
            BY <1>1, <3>1 DEF Begins, Claims, Adds, Submits, Copies, GoesOn, Held
    <2>3. Held(c, j) => ex[j].pc = "none"
        BY DEF StartInv
    <2>4. QED
        BY <1>1, <2>1, <2>2, <2>3 DEF FileEffect, FilesKept
<1>4. QED
    BY <1>2, <1>3

\* The steps of everybody else.
LEMMA AsideFiles ==
    ASSUME ServiceInv, AsideStep, NEW j \in JobIds
    PROVE  FileEffect(j)
<1>1. UNCHANGED ex
    BY AsideShape DEF ServiceInv
<1>2. ASSUME NEW i \in JobIds, ClientSubmit(i)
      PROVE  FileEffect(j)
    <2>1. UNCHANGED <<ex, svc>>
        BY <1>2 DEF ClientSubmit, execVars
    <2>2. ASSUME NEW t \in Tenants, NEW k \in Keys, NEW spec \in Specs, NEW failing,
                 Submit(i, t, k, spec, failing)
          PROVE  FileEffect(j)
        <3>1. j \in Prunable => j # i
            BY <2>2 DEF Submit, Prunable, Terminal, ServiceInv, StoreInv, RowsMinted, Live
        <3>2. j \in Prunable => jobs'[j] = NoRow
            BY <2>2, <3>1 DEF Submit, JobsAfterPrune
        <3>3. PruneFiles(failing)
            BY <2>2 DEF Submit
        <3>4. QED
            BY <2>1, <3>2, <3>3, PruneFileEffect
    <2>3. CASE PruneFails
        BY <2>1, <2>3, PruneFailsFiles
    <2>4. QED
        BY <1>2, <2>2, <2>3 DEF ClientSubmit
<1>3. CASE Open
    BY <1>1, <1>3 DEF Open, Reconcile, FileEffect, FilesReconciled
<1>4. CASE \/ CloseStop \/ CloseSignal \/ Start \/ Dispatch \/ Time
           \/ \E i \in JobIds : \/ SessionEnds(i) \/ SessionCancelled(i) \/ SignalRun(i)
                              \/ ClientCancel(i)
    <2>1. UNCHANGED <<files, deletions>>
        BY <1>4 DEF CloseStop, CloseSignal, Start, Dispatch, Time, SessionEnds, SessionCancelled,
           SignalRun, ClientCancel, RecoverInterrupted, ClaimOutboxDue, OutboxDelivered,
           OutboxFailed, Clock, LeaseExpires, RetentionPasses, BecomesDue, RequestCancel, storeVars
    <2>2. svc' # "down" => svc # "down"
        BY <1>4 DEF CloseStop, CloseSignal, Start, Dispatch, Time, SessionEnds, SessionCancelled,
           SignalRun, ClientCancel
    <2>3. QED
        BY <1>1, <2>1, <2>2 DEF FileEffect, FilesKept
<1>5. QED
    BY <1>2, <1>3, <1>4 DEF AsideStep

\* Every step has one of these effects on the output of every job.
LEMMA FileStep ==
    ASSUME ServiceInv, StartInv, [Next]_vars, NEW j \in JobIds
    PROVE  FileEffect(j)
<1>1. CASE CloseDone \/ Crash
    <2>1. ResetVolatile /\ svc' = "down" /\ UNCHANGED storeVars
        BY <1>1, ResetShape DEF ServiceInv
    <2>2. ex'[j].pc = "none"
        BY <2>1 DEF ResetVolatile, IdleExec
    <2>3. QED
        BY <2>1, <2>2 DEF storeVars, FileEffect, FilesKept
<1>2. CASE UNCHANGED vars
    BY <1>2 DEF vars, storeVars, execVars, FileEffect, FilesKept
<1>3. QED
    BY <1>1, <1>2, NextCases, ExecFiles, CtlFiles, AsideFiles

-----------------------------------------------------------------------------
(* Output.                                                                   *)

\* What becomes of the output columns of a row, and of its presence.
LEMMA OutputColumns ==
    ASSUME ServiceInv, StartInv, OutputInv, [Next]_vars, NEW j \in JobIds
    PROVE  /\ jobs[j] = NoRow /\ j \in minted => jobs'[j] = NoRow
           /\ j \in minted => j \in minted'
           /\ jobs'[j] # NoRow => j \in minted'
           /\ jobs'[j] # NoRow /\ jobs'[j].output =>
                 /\ jobs'[j].phase \in TerminalPhases
                 /\ jobs[j] # NoRow
                 /\ \/ jobs[j].output
                    \/ /\ RowFinished(j) /\ ex[j].pc = "finish"
                       /\ ex'[j].pc = "dispose" \/ "readback" \in FaultKinds
           /\ jobs[j] # NoRow /\ jobs[j].output => jobs'[j] = NoRow \/ jobs'[j].output
<1>1. RowEffect(j)
    BY RowStep
<1>2. /\ jobs[j] # NoRow => jobs[j] \in Row /\ jobs[j].output \in BOOLEAN /\ j \in minted
      /\ NoRow \notin Row /\ worker_id \in Nat
    BY LiveRow, StoreAssumption, ServiceAssumption
    DEF ServiceInv, StoreInv, Live, RowsMinted, Row, worker_id, ServiceTypeOK
<1>3. j \in minted => j \in minted'
    BY StoreCalls, MintedGrows DEF vars, storeVars, ServiceInv, StoreInv
<1>4. /\ jobs[j] # NoRow /\ jobs[j].output => jobs[j].phase \in TerminalPhases
      /\ ex[j].pc = "started" /\ jobs[j] # NoRow => ~jobs[j].output
    BY DEF OutputInv, Live, InClaim, Executing
<1>5. \A phase \in TerminalPhases : phase \notin OwnedPhases /\ phase # "queued"
    BY DEF TerminalPhases, OwnedPhases
<1>6. CASE jobs'[j] = jobs[j]
    BY <1>2, <1>3, <1>4, <1>6
<1>7. CASE RowTimed(j)
    <2>1. /\ jobs[j] # NoRow /\ jobs'[j] \in Row
          /\ jobs'[j].output = jobs[j].output /\ jobs'[j].phase = jobs[j].phase
        BY <1>2, <1>7, RowUpdatesKeep DEF RowTimed
    <2>2. QED
        BY <1>2, <1>3, <1>4, <2>1
<1>8. CASE RowIntended(j)
    <2>1. /\ jobs[j] # NoRow /\ ~Terminal(j)
          /\ jobs'[j] \in Row /\ jobs'[j].output = jobs[j].output
        BY <1>2, <1>8, RowUpdatesKeep DEF RowIntended
    <2>2. ~jobs[j].output
        BY <1>4, <2>1 DEF Terminal
    <2>3. QED
        BY <1>2, <1>3, <2>1, <2>2
<1>9. CASE RowClaimed(j)
    <2>1. /\ jobs[j] # NoRow /\ jobs[j].phase = "queued"
          /\ jobs'[j] \in Row /\ jobs'[j].output = jobs[j].output
        <3>1. /\ jobs[j] # NoRow /\ jobs[j].phase = "queued"
              /\ jobs'[j] = Assigned(jobs[j], worker_id)
            BY <1>9 DEF RowClaimed
        <3>2. QED
            BY <1>2, <3>1, RowClaimsAndEnds
    <2>2. ~jobs[j].output
        BY <1>4, <1>5, <2>1
    <2>3. QED
        BY <1>2, <1>3, <2>1, <2>2
<1>10. CASE RowRunning(j)
    <2>1. /\ jobs[j] # NoRow /\ ex[j].pc = "started"
          /\ jobs'[j] = Running(jobs[j])
        BY <1>10 DEF RowRunning, Owned, OwnedRow
    <2>2. jobs'[j] \in Row /\ jobs'[j].output = jobs[j].output
        BY <1>2, <2>1, RowUpdatesKeep
    <2>3. QED
        BY <1>2, <1>3, <1>4, <2>1, <2>2
<1>11. CASE RowFinished(j)
    <2>1. jobs[j] # NoRow /\ jobs[j] \in Row /\ jobs[j].phase \in OwnedPhases
        BY <1>2, <1>11 DEF RowFinished, Owned, OwnedRow
    <2>2. PICK phase \in TerminalPhases, hasOutput \in BOOLEAN :
              /\ jobs'[j] = Completed(jobs[j], phase, hasOutput)
              /\ hasOutput => /\ ex[j].pc = "finish"
                              /\ ex'[j].pc = "dispose" \/ "readback" \in FaultKinds
        BY <1>11 DEF RowFinished
    <2>3. LET new == Completed(jobs[j], phase, hasOutput)
          IN  new \in Row /\ new.phase \in TerminalPhases /\ new.output = hasOutput
        <3>1. Completed(jobs[j], phase, hasOutput) \in Row
            BY <2>1, RowClaimsAndEnds
        <3>2. Completed(jobs[j], phase, hasOutput).phase \in TerminalPhases
            BY <2>1, RowClaimsAndEnds
        <3>3. Completed(jobs[j], phase, hasOutput).output = hasOutput
            BY <2>1 DEF Completed, Row
        <3>4. QED
            BY <3>1, <3>2, <3>3
    <2>4. ~jobs[j].output
        BY <1>4, <1>5, <2>1
    <2>5. QED
        BY <1>2, <1>3, <1>11, <2>1, <2>2, <2>3, <2>4
<1>12. CASE RowLost(j)
    <2>1. /\ jobs[j] # NoRow /\ jobs[j].phase \in OwnedPhases
          /\ jobs'[j] \in Row /\ jobs'[j].output = jobs[j].output
        BY <1>2, <1>12, RowClaimsAndEnds DEF RowLost
    <2>2. ~jobs[j].output
        BY <1>4, <1>5, <2>1
    <2>3. QED
        BY <1>2, <1>3, <2>1, <2>2
<1>13. CASE RowRemoved(j)
    BY <1>3, <1>13 DEF RowRemoved
<1>14. CASE RowInserted(j)
    BY <1>3, <1>14 DEF RowInserted
<1>15. QED
    BY <1>1, <1>6, <1>7, <1>8, <1>9, <1>10, <1>11, <1>12, <1>13, <1>14 DEF RowEffect

\* Initially there is no output ...
LEMMA OutputInvInit == Init => OutputInv
BY DEF Init, StoreInit, OutputInv, InClaim, Held, Executing, IdleExec, IdleController, Live

\* ... and output is written for a claimed job, which has no output columns and
\* no manifest, so that retention and reconcile leave it alone.
LEMMA OutputInvNext ==
    ServiceInv /\ StartInv /\ OutputInv /\ [Next]_vars => OutputInv'
<1> SUFFICES ASSUME ServiceInv, StartInv, OutputInv, [Next]_vars
             PROVE  OutputInv'
    OBVIOUS
<1> SUFFICES ASSUME NEW j \in JobIds
             PROVE  /\ j \in deletions' => jobs'[j] = NoRow /\ j \in minted'
                    /\ jobs'[j] # NoRow /\ jobs'[j].output => jobs'[j].phase \in TerminalPhases
                    /\ InClaim(j)' => /\ j \in minted' /\ j \notin deletions'
                                      /\ jobs'[j] # NoRow => ~jobs'[j].output
                    /\ ex'[j].pc = "staging" => files'[j] = "staged"
                    /\ ex'[j].pc = "finish" => files'[j] = "published"
    <2>1. deletions' \subseteq JobIds
        <3>1. ServiceInv'
            BY ServiceInvNext
        <3>2. QED
            BY <3>1 DEF ServiceInv, StoreInv, StoreTypeOK
    <2>2. QED
        BY <2>1 DEF OutputInv, Live
<1>1. FileEffect(j) /\ StartInv'
    BY FileStep, StartInvNext
<1>2. /\ jobs[j] # NoRow => j \in minted
      /\ j \in deletions => jobs[j] = NoRow /\ j \in minted
      /\ InClaim(j) => j \in minted /\ j \notin deletions /\ (jobs[j] # NoRow => ~jobs[j].output)
      /\ ex[j].pc = "staging" => files[j] = "staged"
      /\ ex[j].pc = "finish" => files[j] = "published"
    BY DEF OutputInv, ServiceInv, StoreInv, RowsMinted, Live
<1>3. \A pc \in {"staging", "finish"} : pc \in Executing
    BY DEF Executing
<1>4. InClaim(j) => ~FilesPruned(j)
    BY <1>2 DEF FilesPruned, Prunable, Terminal
<1>5. j \in deletions' => jobs'[j] = NoRow /\ j \in minted'
    <2>1. CASE FilesPruned(j)
        BY <1>2, <2>1, OutputColumns DEF FilesPruned, Prunable, Terminal
    <2>2. CASE ~FilesPruned(j)
        <3>1. j \in deletions' => j \in deletions
            BY <1>1, <2>2 DEF FileEffect, FilesKept, FilesWritten, FilesDiscarded, FilesReconciled
        <3>2. QED
            BY <1>2, <3>1, OutputColumns
    <2>3. QED
        BY <2>1, <2>2
<1>6. ASSUME InClaim(j)'
      PROVE  j \in minted' /\ j \notin deletions' /\ (jobs'[j] # NoRow => ~jobs'[j].output)
    <2>1. CASE InClaim(j)
        <3>1. j \notin deletions'
            BY <1>1, <1>2, <1>4, <2>1
            DEF FileEffect, FilesKept, FilesWritten, FilesDiscarded, FilesReconciled
        <3>2. ~RowFinished(j)
            <4>1. ASSUME RowFinished(j)
                  PROVE  FALSE
                <5>1. ex'[j].pc \notin Executing /\ ex'[j].pc # "none"
                    BY <4>1 DEF RowFinished, Executing
                <5>2. ~(\E c \in Controllers : Held(c, j)')
                    BY <1>1, <5>1 DEF StartInv
                <5>3. QED
                    BY <1>6, <5>1, <5>2 DEF InClaim
            <4>2. QED
                BY <4>1
        <3>3. QED
            BY <1>2, <2>1, <3>1, <3>2, OutputColumns
    <2>2. ASSUME NEW c \in Controllers, Claims(c, j)
          PROVE  j \in minted' /\ j \notin deletions' /\ (jobs'[j] # NoRow => ~jobs'[j].output)
        <3>1. /\ jobs[j] # NoRow /\ jobs[j].phase = "queued"
              /\ minted' = minted /\ deletions' = deletions
            BY <2>2 DEF Claims, ClaimNext, InPhase, Live
        <3>2. jobs'[j] = Assigned(jobs[j], worker_id) /\ jobs[j] \in Row
            BY <2>2, <3>1, LiveRow
            DEF Claims, ClaimNext, ServiceInv, StoreInv, StoreTypeOK, Live
        <3>3. jobs'[j].phase \notin TerminalPhases
            BY <3>2 DEF Assigned, Row, TerminalPhases
        <3>4. QED
            BY <1>2, <3>1, <3>3, OutputColumns
    <2>3. QED
        BY <1>6, <2>1, <2>2, ClaimStep
<1>7. /\ ex'[j].pc = "staging" => files'[j] = "staged"
      /\ ex'[j].pc = "finish" => files'[j] = "published"
    <2>1. CASE FilesKept(j)
        BY <1>2, <2>1 DEF FilesKept
    <2>2. CASE FilesPruned(j)
        <3>1. ~InClaim(j) /\ ex' = ex
            BY <1>4, <2>2 DEF FilesPruned
        <3>2. QED
            BY <1>3, <3>1 DEF InClaim
    <2>3. CASE FilesWritten(j) \/ FilesDiscarded(j)
        BY <2>3 DEF FilesWritten, FilesDiscarded
    <2>4. CASE FilesReconciled(j)
        BY <2>4 DEF FilesReconciled, ServiceInv, QuietWhenDown, IdleExec
    <2>5. QED
        BY <1>1, <2>1, <2>2, <2>3, <2>4 DEF FileEffect
<1>8. QED
    BY <1>5, <1>6, <1>7, OutputColumns

\* An executor discards output whose result it could not commit.
LEMMA DiscardsAfterFinish ==
    ASSUME ServiceInv, [Next]_vars, NEW j \in JobIds, ex'[j].pc = "discard"
    PROVE  ex[j].pc \in {"finish", "discard"}
<1>1. /\ StoreInv /\ ServiceTypeOK /\ Scheduler /\ InflightFinite /\ StopBounded
      /\ ex \in [JobIds -> [pc : ExecPcs, attempt : Nat]]
    BY DEF ServiceInv, ServiceTypeOK
<1>2. ASSUME NEW i \in JobIds, ExecStep(i)
      PROVE  ex[j].pc \in {"finish", "discard"}
    <2>1. (\E to : Advances(i, to)) \/ Retires(i)
        BY <1>1, <1>2, ExecShape
    <2>2. QED
        BY <1>1, <2>1 DEF Advances, Retires, IdleExec
<1>3. ASSUME NEW c \in Controllers, CtlStep(c)
      PROVE  ex[j].pc \in {"finish", "discard"}
    <2>1. \/ Begins(c) \/ (\E i \in JobIds : Claims(c, i)) \/ Adds(c) \/ Submits(c)
          \/ Copies(c) \/ GoesOn(c)
        BY <1>1, <1>3, CtlEffects
    <2>2. QED
        BY <1>1, <2>1 DEF Begins, Claims, Adds, Submits, Copies, GoesOn
<1>4. CASE AsideStep
    BY <1>1, <1>4, AsideShape
<1>5. CASE CloseDone \/ Crash
    <2>1. ResetVolatile
        BY <1>1, <1>5, ResetShape
    <2>2. QED
        BY <2>1 DEF ResetVolatile, IdleExec
<1>6. CASE UNCHANGED vars
    BY <1>6 DEF vars, execVars
<1>7. QED
    BY <1>2, <1>3, <1>4, <1>5, <1>6, NextCases

\* Initially no row names output ...
LEMMA CommittedInvInit == Init => CommittedInv
BY DEF Init, StoreInit, CommittedInv, CommittedOutputExists, Live, IdleExec

\* ... the result that names output is committed after the rename, and output is
\* discarded only when nothing was committed.
LEMMA CommittedInvNext ==
    ASSUME "readback" \notin FaultKinds
    PROVE  ServiceInv /\ StartInv /\ OutputInv /\ CommittedInv /\ [Next]_vars => CommittedInv'
<1> SUFFICES ASSUME ServiceInv, StartInv, OutputInv, CommittedInv, [Next]_vars,
                    NEW j \in JobIds
             PROVE  /\ jobs'[j] # NoRow /\ jobs'[j].output => files'[j] = "published"
                    /\ ex'[j].pc = "discard" =>
                          j \notin deletions' /\ (jobs'[j] # NoRow => ~jobs'[j].output)
    BY DEF CommittedInv, CommittedOutputExists, Live
<1>1. FileEffect(j)
    BY FileStep
<1>2. /\ jobs[j] # NoRow /\ jobs[j].output => files[j] = "published"
      /\ ex[j].pc = "discard" => j \notin deletions /\ (jobs[j] # NoRow => ~jobs[j].output)
      /\ j \in deletions => jobs[j] = NoRow
      /\ ex[j].pc \in Executing => j \notin deletions /\ (jobs[j] # NoRow => ~jobs[j].output)
      /\ ex[j].pc = "finish" => files[j] = "published"
    BY DEF CommittedInv, CommittedOutputExists, OutputInv, Live, InClaim
<1>3. {"waiting", "staging", "finish"} \subseteq Executing
    BY DEF Executing
<1>4. ASSUME jobs'[j] # NoRow, jobs'[j].output
      PROVE  files'[j] = "published"
    <2>1. CASE jobs[j] # NoRow /\ jobs[j].output
        <3>1. ~FilesPruned(j) /\ ~FilesWritten(j) /\ ~FilesDiscarded(j)
            BY <1>2, <1>3, <1>4, <2>1 DEF FilesPruned, FilesWritten, FilesDiscarded
        <3>2. CASE FilesReconciled(j)
            BY <1>2, <2>1, <3>2 DEF FilesReconciled, Referenced, Live
        <3>3. QED
            BY <1>1, <1>2, <2>1, <3>1, <3>2 DEF FileEffect, FilesKept
    <2>2. CASE RowFinished(j) /\ ex[j].pc = "finish"
        BY <1>2, <2>2 DEF RowFinished
    <2>3. QED
        BY <1>4, <2>1, <2>2, OutputColumns
<1>5. ASSUME ex'[j].pc = "discard"
      PROVE  j \notin deletions' /\ (jobs'[j] # NoRow => ~jobs'[j].output)
    <2>1. j \notin deletions /\ (jobs[j] # NoRow => ~jobs[j].output)
        BY <1>2, <1>3, <1>5, DiscardsAfterFinish
    <2>2. ~FilesPruned(j)
        BY <2>1 DEF FilesPruned, Prunable, Terminal
    <2>3. j \notin deletions'
        BY <1>1, <2>1, <2>2
        DEF FileEffect, FilesKept, FilesWritten, FilesDiscarded, FilesReconciled
    <2>4. QED
        BY <1>5, <2>1, <2>3, OutputColumns
<1>6. QED
    BY <1>4, <1>5

\* "Output loss is never silent": whatever fails and however often the service
\* crashes, output a row refers to is there to read, provided no error follows a
\* commit that succeeded (with one, the executor discards what it committed: the
\* run readback_failure).
THEOREM CommittedOutputExistsHolds ==
    ASSUME "readback" \notin FaultKinds
    PROVE  Spec => []CommittedOutputExists
<1> DEFINE Inv == ServiceInv /\ StartInv /\ OutputInv /\ CommittedInv
<1>1. Init => Inv
    BY ServiceInvInit, StartInvInit, OutputInvInit, CommittedInvInit
<1>2. Inv /\ [Next]_vars => Inv'
    BY ServiceInvNext, StartInvNext, OutputInvNext, CommittedInvNext
<1>3. Inv => CommittedOutputExists
    BY DEF CommittedInv
<1>4. QED
    BY <1>1, <1>2, <1>3, PTL DEF Spec

\* Initially there are no files ...
LEMMA AccountedInvInit == Init => AccountedInv
BY DEF Init, AccountedInv

\* ... and an executor leaves its output to the row or removes it, retention
\* leaves it to a manifest or removes it, and opening the service removes what
\* a crash left behind.
LEMMA AccountedInvNext ==
    ASSUME "output" \notin FaultKinds
    PROVE  OutcomeInv /\ OutputInv /\ AccountedInv /\ [Next]_vars => AccountedInv'
<1> SUFFICES ASSUME OutcomeInv, OutputInv, AccountedInv, [Next]_vars, NEW j \in JobIds,
                    svc' # "down", files'[j] # "none",
                    ex'[j].pc \notin {"staging", "finish", "discard"}
             PROVE  j \in deletions' \/ (jobs'[j] # NoRow /\ jobs'[j].output)
    BY DEF AccountedInv, Referenced, Live
<1>1. FileEffect(j) /\ ServiceInv /\ StartInv
    BY FileStep DEF OutcomeInv
<1>2. CASE FilesKept(j)
    <2>1. svc # "down" /\ files[j] # "none" /\ (j \in deletions' <=> j \in deletions)
        BY <1>2 DEF FilesKept
    <2>2. CASE ex[j].pc \in {"staging", "discard"}
        BY <1>2, <2>2 DEF FilesKept
    <2>3. CASE ex[j].pc = "finish"
        <3>1. ~Terminal(j)
            BY <2>3 DEF OutcomeInv, ClaimsKept, InClaim, Executing, Terminal, TerminalPhases,
               OwnedPhases
        <3>2. QED
            BY <1>2, <2>3, <3>1 DEF FilesKept
    <2>4. CASE ex[j].pc \notin {"staging", "finish", "discard"}
        <3>1. j \in deletions \/ (jobs[j] # NoRow /\ jobs[j].output)
            BY <2>1, <2>4 DEF AccountedInv, Referenced, Live
        <3>2. CASE j \in deletions
            BY <2>1, <3>2
        <3>3. CASE jobs[j] # NoRow /\ jobs[j].output
            <4>1. CASE jobs'[j] = NoRow
                <5>1. CASE UNCHANGED storeVars
                    BY <3>3, <4>1, <5>1 DEF storeVars
                <5>2. CASE StoreNext
                    <6>1. Effect(j)
                        BY <1>1, <5>2, StepEffect DEF ServiceInv, StoreInv
                    <6>2. Removed(j)
                        BY <3>3, <4>1, <6>1, StoreAssumption
                        DEF Effect, Unaffected, Updated, RowUpdated, Inserted
                    <6>3. QED
                        BY <3>3, <6>2 DEF Removed
                <5>3. QED
                    BY <1>1, <5>1, <5>2, StoreCalls DEF vars
            <4>2. QED
                BY <1>1, <3>3, <4>1, OutputColumns
        <3>4. QED
            BY <3>1, <3>2, <3>3
    <2>5. QED
        BY <2>2, <2>3, <2>4
<1>3. CASE FilesPruned(j) \/ FilesWritten(j) \/ FilesDiscarded(j)
    BY <1>3 DEF FilesPruned, FilesWritten, FilesDiscarded
<1>4. CASE FilesReconciled(j)
    BY <1>4 DEF FilesReconciled, Referenced, Live
<1>5. QED
    BY <1>1, <1>2, <1>3, <1>4 DEF FileEffect

\* With one controller thread and executors whose own writes, renames and discards
\* succeed, nothing stays in the output store that no row and no manifest accounts
\* for, once the executor is done: also after crashes between any two steps, and
\* when retention's deletes fail.
THEOREM OutputAccountedHolds ==
    ASSUME OneController, "output" \notin FaultKinds
    PROVE  Spec => []OutputAccounted
<1>1. Init => OutputInv /\ AccountedInv
    BY OutputInvInit, AccountedInvInit
<1>2. OutcomeInv /\ OutputInv /\ AccountedInv /\ [Next]_vars => (OutputInv /\ AccountedInv)'
    BY OutputInvNext, AccountedInvNext DEF OutcomeInv
<1>3. AccountedInv => OutputAccounted
    BY DEF AccountedInv, OutputAccounted
<1>4. QED
    BY <1>1, <1>2, <1>3, OutcomeInvariant, PTL DEF Spec

=============================================================================
