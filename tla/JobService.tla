----------------------------- MODULE JobService -----------------------------
(***************************************************************************)
(* JobService (service/server.py): controller threads that claim jobs and  *)
(* reconcile leases, executor threads that run one job each (_execute_job),*)
(* the cancel API, graceful close, and crash and restart, over JobStore    *)
(* and OutputStore.  An action ends where another thread can get in: at a  *)
(* store transaction, a lock release or an await.                          *)
(*                                                                         *)
(* A SessionManager run appears as sess[j] (module-external here): its     *)
(* start, its result and its cancellation.  The callback dispatcher        *)
(* appears as the outbox calls it makes.                                   *)
(***************************************************************************)
EXTENDS JobStore

CONSTANTS
    Controllers,    \* the controller threads
    Workers,        \* executor.workers
    FaultKinds,     \* which calls may fail: see Fault
    MaxFaults,      \* bound on failing calls
    MaxRestarts,    \* bound on crashes and graceful stops
    MaxDeliveries   \* bound on outbox claims

ASSUME ServiceAssumption ==
    /\ Workers \in Nat \ {0}
    /\ FaultKinds \subseteq {"store", "readback", "output", "cleaner", "session", "signal",
                         "submit"}
    /\ MaxFaults \in Nat /\ MaxRestarts \in Nat /\ MaxDeliveries \in Nat
    /\ Owners = 1 .. (MaxRestarts + 1)
    /\ {"succeeded", "failed", "timed_out", "canceled", "executor_lost"} \subseteq Results

VARIABLES
    svc,        \* down, open (constructed), up, stopping (_stop set), draining
    restarts,   \* crashes and stops so far; each incarnation has its own worker id
    ctl,        \* per controller thread: where it is, and its locals
    inflight,   \* _inflight
    detached,   \* queued in the pool by a submit() that raised: no done callback
    active,     \* _active: no entry, an entry without session id, or with one
    ex,         \* per job, where its _execute_job is, and the claimed attempt id
    sess,       \* per job, the session its SessionManager runs
    signals,    \* cancel() or close() looked the active run up and will signal it
    starts,     \* how often manager.start has been called for the job (history)
    faults      \* failed calls so far

schedVars == <<ctl, inflight, detached>>
execVars == <<active, ex, sess, signals, starts>>
vars == <<storeVars, schedVars, execVars, svc, restarts, faults>>

worker_id == restarts + 1
Stopping == svc \in {"stopping", "draining"}
Serving == svc = "up" \/ Stopping

SessionResults == {"succeeded", "failed", "timed_out", "canceled"}
SessionStates ==
    {"none", "starting", "startCancelled", "live", "cancelling"} \cup SessionResults

ExecPcs ==
    {"none", "pool", "precancel", "register", "registered", "starting", "started",
     "marked", "markedCancel", "waiting", "staging", "finish", "dispose", "discard",
     "failing", "interrupted", "cleanup", "done"}

CtlPcs == {"idle", "claim", "claimed", "submit", "renew", "snapshot", "recover", "prune"}

IdleExec == [pc |-> "none", attempt |-> 0]
IdleController == [pc |-> "idle", job |-> 0, capacity |-> 0, excluded |-> {}]

\* A call of the given kind raises:
\*   store     an SQLite transaction or read (rolled back), its retries included
\*   readback  the transaction commits, what follows it raises (finish, mark_running)
\*   output    a write, rename, fsync or delete of the output store
\*   cleaner   delete_job called by retention
\*   session   a SessionManager call of the executor thread
\*   signal    the cancel API after its commit, or manager.cancel called by
\*             cancel() or close(), whose error is only logged
\*   submit    ThreadPoolExecutor.submit, after queueing the work item
Fault(kind) ==
    /\ kind \in FaultKinds
    /\ faults < MaxFaults
    /\ faults' = faults + 1

-----------------------------------------------------------------------------
(* Executor threads: _execute_job, one per claimed job.                      *)

At(j, pc) == Serving /\ ex[j].pc = pc
Goto(j, pc) == ex' = [ex EXCEPT ![j].pc = pc]

Owned(j) == OwnedRow(j, ex[j].attempt, worker_id)

\* The outcomes of store.finish and of _finish_with_retries: it commits; it
\* raises with nothing committed; the commit is durable and it raises.
Commits(j, phase, hasOutput) ==
    /\ Finish(j, ex[j].attempt, worker_id, phase, hasOutput)
    /\ UNCHANGED faults

Raises(j) ==
    /\ IF Owned(j) THEN Fault("store") ELSE UNCHANGED faults
    /\ UNCHANGED storeVars

CommitsAndRaises(j, phase, hasOutput) ==
    /\ ~Terminal(j)
    /\ Finish(j, ex[j].attempt, worker_id, phase, hasOutput)
    /\ Fault("readback")

\* _stop is set before the thread got to run.
ExecRefuse(j) ==
    /\ At(j, "pool") /\ Stopping
    /\ \/ Commits(j, "executor_lost", FALSE) /\ Goto(j, "cleanup")
       \/ Raises(j) /\ Goto(j, "failing")
       \/ CommitsAndRaises(j, "executor_lost", FALSE) /\ Goto(j, "failing")
    /\ UNCHANGED <<schedVars, active, sess, signals, starts, svc, restarts>>

\* The first look at the intent, before anything is registered.
ExecReadIntent(j) ==
    /\ At(j, "pool") /\ ~Stopping
    /\ \/ /\ jobs[j] # NoRow
          /\ Goto(j, IF Cancelled(jobs[j]) THEN "precancel" ELSE "register")
          /\ UNCHANGED faults
       \/ /\ IF jobs[j] = NoRow THEN UNCHANGED faults ELSE Fault("store")
          /\ Goto(j, "failing")
    /\ UNCHANGED <<storeVars, schedVars, active, sess, signals, starts, svc, restarts>>

ExecPreCancel(j) ==
    /\ At(j, "precancel")
    /\ \/ Commits(j, "canceled", FALSE) /\ Goto(j, "cleanup")
       \/ Raises(j) /\ Goto(j, "failing")
       \/ CommitsAndRaises(j, "canceled", FALSE) /\ Goto(j, "failing")
    /\ UNCHANGED <<schedVars, active, sess, signals, starts, svc, restarts>>

\* The start task exists and the run is registered in _active.
ExecRegister(j) ==
    /\ At(j, "register")
    /\ active' = [active EXCEPT ![j] = "starting"]
    /\ sess' = [sess EXCEPT ![j] = "starting"]
    /\ starts' = [starts EXCEPT ![j] = @ + 1]
    /\ Goto(j, "registered")
    /\ UNCHANGED <<storeVars, schedVars, signals, svc, restarts, faults>>

\* The second look at _stop, now that close() can see the run.
ExecRecheckStop(j) ==
    /\ At(j, "registered")
    /\ sess' = [sess EXCEPT ![j] = IF Stopping THEN "startCancelled" ELSE @]
    /\ Goto(j, "starting")
    /\ UNCHANGED <<storeVars, schedVars, active, signals, starts, svc, restarts, faults>>

\* run_until_complete(start_task): the session starts, the start fails (policy,
\* executable, resources), or the task was cancelled first.
ExecStart(j) ==
    /\ At(j, "starting")
    /\ \/ /\ sess[j] = "starting"
          /\ sess' = [sess EXCEPT ![j] = "live"]
          /\ Goto(j, "started")
       \/ /\ sess[j] = "starting"
          /\ sess' = [sess EXCEPT ![j] = "none"]
          /\ Goto(j, "failing")
       \/ /\ sess[j] = "startCancelled"
          /\ sess' = [sess EXCEPT ![j] = "none"]
          /\ Goto(j, "interrupted")
    /\ UNCHANGED <<storeVars, schedVars, active, signals, starts, svc, restarts, faults>>

\* Mutant: the intent is not read again once the session has started.
ExecMarkRunningBlindly(j) ==
    /\ At(j, "started")
    /\ active' = [active EXCEPT ![j] = "session"]
    /\ \/ /\ MarkRunning(j, ex[j].attempt, worker_id)
          /\ Goto(j, "marked")
          /\ UNCHANGED faults
       \/ /\ Raises(j)
          /\ Goto(j, "failing")
    /\ UNCHANGED <<schedVars, sess, signals, starts, svc, restarts>>

\* Under _active_lock, which cancel() takes too: publish the session id, read
\* the intent and mark the job running.
ExecMarkRunning(j) ==
    /\ At(j, "started")
    /\ active' = [active EXCEPT ![j] = "session"]
    /\ \/ /\ MarkRunning(j, ex[j].attempt, worker_id)
          /\ Goto(j, IF Cancelled(jobs[j]) THEN "markedCancel" ELSE "marked")
          /\ UNCHANGED faults
       \/ /\ Raises(j)
          /\ Goto(j, "failing")
       \/ /\ MarkRunning(j, ex[j].attempt, worker_id)
          /\ Fault("readback")
          /\ Goto(j, "failing")
    /\ UNCHANGED <<schedVars, sess, signals, starts, svc, restarts>>

\* manager.cancel on a session: nothing happens to one that has ended.
CancelSession(j) ==
    sess' = [sess EXCEPT ![j] = IF @ = "live" THEN "cancelling" ELSE @]

\* Mutant: _stop is not looked at once the session has started.
ExecCancelIfIntended(j) ==
    /\ At(j, "marked") \/ At(j, "markedCancel")
    /\ IF ex[j].pc = "markedCancel" THEN CancelSession(j) ELSE UNCHANGED sess
    /\ Goto(j, "waiting")
    /\ UNCHANGED <<storeVars, schedVars, active, signals, starts, svc, restarts, faults>>

\* The third look at _stop, and the intent read under the lock.
ExecCancelIfAsked(j) ==
    /\ At(j, "marked") \/ At(j, "markedCancel")
    /\ LET asked == Stopping \/ ex[j].pc = "markedCancel"
       IN  \/ /\ IF asked THEN CancelSession(j) ELSE UNCHANGED sess
              /\ Goto(j, "waiting")
              /\ UNCHANGED faults
           \/ /\ asked /\ Fault("session")
              /\ Goto(j, "failing")
              /\ UNCHANGED sess
    /\ UNCHANGED <<storeVars, schedVars, active, signals, starts, svc, restarts>>

\* manager.wait returns and write_job fills a staging directory; wait may raise,
\* and so may write_job, on its quota or in the file system.
ExecStageOutput(j) ==
    /\ At(j, "waiting") /\ sess[j] \in SessionResults
    /\ \/ StageOutput(j) /\ Goto(j, "staging") /\ UNCHANGED faults
       \/ /\ \E kind \in {"session", "output"} : Fault(kind)
          /\ Goto(j, "failing") /\ UNCHANGED files
    /\ UNCHANGED <<jobs, minted, outbox, deliveries, deletions>>
    /\ UNCHANGED <<schedVars, active, sess, signals, starts, svc, restarts>>

\* write_job renames; it may fail before the rename, or after it in the fsync of
\* the root, when the job directory stays behind and no path is returned.
ExecPublishOutput(j) ==
    /\ At(j, "staging")
    /\ \/ PublishOutput(j) /\ Goto(j, "finish") /\ UNCHANGED faults
       \/ RemoveOutput(j) /\ Goto(j, "failing") /\ Fault("output")
       \/ PublishOutput(j) /\ Goto(j, "failing") /\ Fault("output")
    /\ UNCHANGED <<jobs, minted, outbox, deliveries, deletions>>
    /\ UNCHANGED <<schedVars, active, sess, signals, starts, svc, restarts>>

\* Mutant: output whose result could not be committed is not discarded.
ExecFinishKeeping(j) ==
    /\ At(j, "finish")
    /\ \/ Commits(j, sess[j], TRUE) /\ Goto(j, "dispose")
       \/ Raises(j) /\ Goto(j, "failing")
    /\ UNCHANGED <<schedVars, active, sess, signals, starts, svc, restarts>>

\* _finish_with_retries with the result and the output paths.
ExecFinish(j) ==
    /\ At(j, "finish")
    /\ \/ Commits(j, sess[j], TRUE) /\ Goto(j, "dispose")
       \/ Raises(j) /\ Goto(j, "discard")
       \/ CommitsAndRaises(j, sess[j], TRUE) /\ Goto(j, "discard")
    /\ UNCHANGED <<schedVars, active, sess, signals, starts, svc, restarts>>

\* Mutant: output_paths is not cleared after the commit, so a failing dispose
\* discards the output.
ExecDisposeUncleared(j) ==
    /\ At(j, "dispose")
    /\ \/ Goto(j, "cleanup") /\ UNCHANGED faults
       \/ Goto(j, "discard") /\ Fault("session")
    /\ UNCHANGED <<storeVars, schedVars, active, sess, signals, starts, svc, restarts>>

ExecDispose(j) ==
    /\ At(j, "dispose")
    /\ \/ Goto(j, "cleanup") /\ UNCHANGED faults
       \/ Goto(j, "failing") /\ Fault("session")
    /\ UNCHANGED <<storeVars, schedVars, active, sess, signals, starts, svc, restarts>>

\* _discard_uncommitted_output; an OSError is only logged.
ExecDiscardOutput(j) ==
    /\ At(j, "discard")
    /\ \/ RemoveOutput(j) /\ UNCHANGED faults
       \/ Fault("output") /\ UNCHANGED files
    /\ Goto(j, "failing")
    /\ UNCHANGED <<jobs, minted, outbox, deliveries, deletions>>
    /\ UNCHANGED <<schedVars, active, sess, signals, starts, svc, restarts>>

\* except Exception: persist the failure; failing again is only logged.
ExecFail(j) ==
    /\ At(j, "failing")
    /\ Commits(j, "failed", FALSE) \/ Raises(j) \/ CommitsAndRaises(j, "failed", FALSE)
    /\ Goto(j, "cleanup")
    /\ UNCHANGED <<schedVars, active, sess, signals, starts, svc, restarts>>

\* except CancelledError: the intent tells a cancel from a shutdown, and finish
\* reads it again in its transaction.
ExecInterrupted(j) ==
    /\ At(j, "interrupted")
    /\ \/ Commits(j, "executor_lost", FALSE)
       \/ Raises(j)
       \/ CommitsAndRaises(j, "executor_lost", FALSE)
    /\ Goto(j, "cleanup")
    /\ UNCHANGED <<schedVars, active, sess, signals, starts, svc, restarts>>

\* finally: leave _active, shut the session manager down.
ExecCleanup(j) ==
    /\ At(j, "cleanup")
    /\ active' = [active EXCEPT ![j] = "none"]
    /\ sess' = [sess EXCEPT ![j] = "none"]
    /\ Goto(j, "done")
    /\ UNCHANGED <<storeVars, schedVars, signals, starts, svc, restarts, faults>>

\* Mutant: the done callback leaves the job in _inflight.
ExecDoneLeaking(j) ==
    /\ At(j, "done")
    /\ ex' = [ex EXCEPT ![j] = IdleExec]
    /\ UNCHANGED <<storeVars, schedVars, active, sess, signals, starts, svc, restarts,
                   faults>>

\* The future's done callback, _execution_done.
ExecDone(j) ==
    /\ At(j, "done")
    /\ inflight' = IF j \in detached THEN inflight ELSE inflight \ {j}
    /\ ex' = [ex EXCEPT ![j] = IdleExec]
    /\ UNCHANGED <<storeVars, ctl, detached, active, sess, signals, starts, svc,
                   restarts, faults>>

ExecStep(j) ==
    \/ ExecRefuse(j) \/ ExecReadIntent(j) \/ ExecPreCancel(j) \/ ExecRegister(j)
    \/ ExecRecheckStop(j) \/ ExecStart(j) \/ ExecMarkRunning(j) \/ ExecCancelIfAsked(j)
    \/ ExecStageOutput(j) \/ ExecPublishOutput(j) \/ ExecFinish(j) \/ ExecDispose(j)
    \/ ExecDiscardOutput(j) \/ ExecFail(j) \/ ExecInterrupted(j) \/ ExecCleanup(j)
    \/ ExecDone(j)

\* The command ends by itself or by its deadline.
SessionEnds(j) ==
    /\ Serving /\ sess[j] = "live"
    /\ \E r \in SessionResults \ {"canceled"} : sess' = [sess EXCEPT ![j] = r]
    /\ UNCHANGED <<storeVars, schedVars, active, ex, signals, starts, svc, restarts, faults>>

\* A cancelled command ends; its own exit may have come first.
SessionCancelled(j) ==
    /\ Serving /\ sess[j] = "cancelling"
    /\ \E r \in SessionResults : sess' = [sess EXCEPT ![j] = r]
    /\ UNCHANGED <<storeVars, schedVars, active, ex, signals, starts, svc, restarts, faults>>

-----------------------------------------------------------------------------
(* Controller threads: _controller_loop.                                     *)

CtlAt(c, pc) == Serving /\ ctl[c].pc = pc
CtlGoto(c, pc) == ctl' = [ctl EXCEPT ![c].pc = pc]

\* An exception anywhere in the loop body is logged and the body starts over.
CtlAbort(c) ==
    /\ Fault("store")
    /\ ctl' = [ctl EXCEPT ![c] = IdleController]

\* Mutant: claiming is not serialised.
SchedulingUnlocked == {}

\* _schedule_lock is held from the capacity computation to the last submit.
Scheduling == {c \in Controllers : ctl[c].pc \in {"claim", "claimed", "submit"}}

CtlBegin(c) ==
    /\ CtlAt(c, "idle") /\ ~Stopping
    /\ Scheduling = {}
    /\ ctl' = [ctl EXCEPT ![c] = [@ EXCEPT !.pc = "claim",
                                           !.capacity = Workers - Cardinality(inflight)]]
    /\ UNCHANGED <<storeVars, inflight, detached, execVars, svc, restarts, faults>>

CtlClaim(c, j) ==
    /\ CtlAt(c, "claim") /\ ctl[c].capacity > 0
    /\ ClaimNext(j, worker_id)
    /\ ctl' = [ctl EXCEPT ![c] = [@ EXCEPT !.pc = "claimed", !.job = j,
                                           !.capacity = ctl[c].capacity - 1]]
    /\ ex' = [ex EXCEPT ![j].attempt = jobs'[j].attempt]
    /\ UNCHANGED <<inflight, detached, active, sess, signals, starts, svc, restarts, faults>>

CtlClaimDone(c) ==
    /\ CtlAt(c, "claim")
    /\ \/ /\ ctl[c].capacity <= 0 \/ InPhase(jobs, {"queued"}) = {}
          /\ CtlGoto(c, "renew")
          /\ UNCHANGED faults
       \/ /\ ctl[c].capacity > 0
          /\ CtlAbort(c)
    /\ UNCHANGED <<storeVars, inflight, detached, execVars, svc, restarts>>

CtlAddInflight(c) ==
    /\ CtlAt(c, "claimed")
    /\ inflight' = inflight \cup {ctl[c].job}
    /\ CtlGoto(c, "submit")
    /\ UNCHANGED <<storeVars, detached, execVars, svc, restarts, faults>>

\* submit() queues the work item before it starts a thread: when that raises,
\* the item is still executed but nobody attached the done callback.
CtlSubmit(c) ==
    /\ CtlAt(c, "submit")
    /\ ex' = [ex EXCEPT ![ctl[c].job].pc = "pool"]
    /\ \/ /\ ctl' = [ctl EXCEPT ![c] = [@ EXCEPT !.pc = "claim", !.job = 0]]
          /\ UNCHANGED <<detached, faults>>
       \/ /\ Fault("submit")
          /\ detached' = detached \cup {ctl[c].job}
          /\ ctl' = [ctl EXCEPT ![c] = IdleController]
    /\ UNCHANGED <<storeVars, inflight, active, sess, signals, starts, svc, restarts>>

\* _renew_active_leases, when a heartbeat is due: one transaction for each run, so
\* an error leaves some of them renewed.
ActiveRuns == {<<j, ex[j].attempt>> : j \in {i \in JobIds : active[i] # "none"}}

CtlRenew(c) ==
    /\ CtlAt(c, "renew")
    /\ \/ /\ RenewLeases(ActiveRuns, worker_id)
          /\ CtlGoto(c, "snapshot")
          /\ UNCHANGED faults
       \/ /\ CtlGoto(c, "snapshot")
          /\ UNCHANGED <<storeVars, faults>>
       \/ /\ \E renewed \in SUBSET ActiveRuns : RenewLeases(renewed, worker_id)
          /\ CtlAbort(c)
    /\ UNCHANGED <<inflight, detached, execVars, svc, restarts>>

\* Mutant: only registered runs are protected from lease recovery.
CtlSnapshotActive(c) ==
    /\ CtlAt(c, "snapshot")
    /\ ctl' = [ctl EXCEPT ![c] = [@ EXCEPT !.pc = "recover",
                                           !.excluded = {j \in JobIds : active[j] # "none"}]]
    /\ UNCHANGED <<storeVars, inflight, detached, execVars, svc, restarts, faults>>

\* When a reconcile is due: copy _inflight under the lock, then release it.
CtlSnapshot(c) ==
    /\ CtlAt(c, "snapshot")
    /\ ctl' = [ctl EXCEPT ![c] = [@ EXCEPT !.pc = "recover", !.excluded = inflight]]
    /\ UNCHANGED <<storeVars, inflight, detached, execVars, svc, restarts, faults>>

CtlNotDue(c) ==
    /\ CtlAt(c, "snapshot")
    /\ ctl' = [ctl EXCEPT ![c] = IdleController]
    /\ UNCHANGED <<storeVars, inflight, detached, execVars, svc, restarts, faults>>

CtlRecover(c) ==
    /\ CtlAt(c, "recover")
    /\ \/ /\ RecoverExpiredLeases(ctl[c].excluded)
          /\ ctl' = [ctl EXCEPT ![c] = [@ EXCEPT !.pc = "prune", !.excluded = {}]]
          /\ UNCHANGED faults
       \/ /\ CtlAbort(c)
          /\ UNCHANGED storeVars
    /\ UNCHANGED <<inflight, detached, execVars, svc, restarts>>

\* prune_expired ends in a store error, wherever it is.
PruneFails ==
    /\ \E cleaned \in SUBSET ManifestsAfterPrune : \E forgotten \in SUBSET cleaned :
          PruneInterrupted(cleaned, forgotten)
    /\ Fault("store")

\* The cleaner's OSErrors are survived; a store error ends the pass.
CtlPrune(c) ==
    /\ CtlAt(c, "prune")
    /\ \/ PruneExpired({}) /\ UNCHANGED faults
       \/ \E failing \in SUBSET ManifestsAfterPrune \ {{}} :
             PruneExpired(failing) /\ Fault("cleaner")
       \/ PruneFails
    /\ ctl' = [ctl EXCEPT ![c] = IdleController]
    /\ UNCHANGED <<inflight, detached, execVars, svc, restarts>>

CtlStep(c) ==
    \/ CtlBegin(c) \/ (\E j \in JobIds : CtlClaim(c, j)) \/ CtlClaimDone(c)
    \/ CtlAddInflight(c) \/ CtlSubmit(c) \/ CtlRenew(c) \/ CtlSnapshot(c) \/ CtlNotDue(c)
    \/ CtlRecover(c) \/ CtlPrune(c)

-----------------------------------------------------------------------------
(* The API and the dispatcher.                                               *)

ClientSubmit(j) ==
    /\ svc = "up"
    /\ \/ \E t \in Tenants, k \in Keys, spec \in Specs :
             \/ Submit(j, t, k, spec, {}) /\ UNCHANGED faults
             \/ \E failing \in SUBSET ManifestsAfterPrune \ {{}} :
                   Submit(j, t, k, spec, failing) /\ Fault("cleaner")
       \/ PruneFails
    /\ UNCHANGED <<schedVars, execVars, svc, restarts>>

\* cancel(): the intent is committed and the run looked up under _active_lock;
\* the signal itself is sent after the lock is released.  request_cancel reads
\* the row back after its commit, and an error there skips the signal.
ClientCancel(j) ==
    /\ svc = "up"
    /\ RequestCancel(j)
    /\ \/ /\ signals' = IF active[j] # "none" /\ Cancelled(jobs'[j])
                        THEN signals \cup {j} ELSE signals
          /\ UNCHANGED faults
       \/ /\ Fault("signal")
          /\ UNCHANGED signals
    /\ UNCHANGED <<schedVars, active, ex, sess, starts, svc, restarts>>

\* The signal: cancel the start task while there is no session id, else cancel
\* the session.  A start that has just succeeded is not touched by the former,
\* and an error is only logged.
SignalRun(j) ==
    /\ Serving /\ j \in signals
    /\ signals' = signals \ {j}
    /\ \/ /\ \/ /\ active[j] = "starting"
                /\ sess' = [sess EXCEPT ![j] = IF @ = "starting" THEN "startCancelled" ELSE @]
             \/ /\ active[j] # "starting"
                /\ CancelSession(j)
          /\ UNCHANGED faults
       \/ /\ Fault("signal")
          /\ UNCHANGED sess
    /\ UNCHANGED <<storeVars, schedVars, active, ex, starts, svc, restarts>>

\* The callback dispatcher's calls on the store: claim a batch, report a result.
Dispatch ==
    /\ svc = "up"
    /\ \/ /\ deliveries < MaxDeliveries
          /\ \E claimed \in SUBSET DueEvents \ {{}} : ClaimOutboxDue(claimed)
       \/ \E j \in JobIds : \E i \in DOMAIN outbox[j] :
             \/ OutboxDelivered(j, i, outbox[j][i].delivery)
             \/ \E permanent \in BOOLEAN :
                   OutboxFailed(j, i, outbox[j][i].delivery, permanent)
    /\ UNCHANGED <<schedVars, execVars, svc, restarts, faults>>

Time ==
    /\ Clock
    /\ UNCHANGED <<schedVars, execVars, svc, restarts, faults>>

-----------------------------------------------------------------------------
(* Stopping, crashing, and starting again.                                   *)

ResetVolatile ==
    /\ ctl' = [c \in Controllers |-> IdleController]
    /\ inflight' = {}
    /\ detached' = {}
    /\ active' = [j \in JobIds |-> "none"]
    /\ ex' = [j \in JobIds |-> IdleExec]
    /\ sess' = [j \in JobIds |-> "none"]
    /\ signals' = {}

\* close(): set _stop ...
CloseStop ==
    /\ svc = "up" /\ restarts < MaxRestarts
    /\ svc' = "stopping"
    /\ UNCHANGED <<storeVars, schedVars, execVars, restarts, faults>>

\* ... signal every run registered by now ...
CloseSignal ==
    /\ svc = "stopping"
    /\ svc' = "draining"
    /\ signals' = signals \cup {j \in JobIds : active[j] # "none"}
    /\ UNCHANGED <<storeVars, schedVars, active, ex, sess, starts, restarts, faults>>

\* ... join the threads, drain the pool and close the store.
CloseDone ==
    /\ svc = "draining"
    /\ signals = {}
    /\ \A c \in Controllers : ctl[c].pc = "idle"
    /\ \A j \in JobIds : ex[j].pc = "none"
    /\ svc' = "down"
    /\ restarts' = restarts + 1
    /\ ResetVolatile
    /\ UNCHANGED <<storeVars, starts, faults>>

\* The worker process dies; its master kills the owned process groups.
Crash ==
    /\ svc # "down" /\ restarts < MaxRestarts
    /\ svc' = "down"
    /\ restarts' = restarts + 1
    /\ ResetVolatile
    /\ UNCHANGED <<storeVars, starts, faults>>

\* The constructor: open the stores and reconcile the output directories.
Open ==
    /\ svc = "down"
    /\ Reconcile(Referenced)
    /\ svc' = "open"
    /\ UNCHANGED <<jobs, minted, outbox, deliveries, deletions, schedVars, execVars,
                   restarts, faults>>

\* Mutant: start() marks the interrupted jobs itself, without their notifications.
StartSilently ==
    /\ svc = "open"
    /\ LoseJobs(InPhase(jobs, OwnedPhases))
    /\ svc' = "up"
    /\ UNCHANGED <<minted, outbox, deliveries, deletions, files, schedVars, execVars,
                   restarts, faults>>

\* start(): recover what the last incarnation left, then start the threads.
Start ==
    /\ svc = "open"
    /\ \/ /\ RecoverInterrupted
          /\ svc' = "up"
          /\ UNCHANGED faults
       \/ /\ Fault("store")
          /\ svc' = "down"
          /\ UNCHANGED storeVars
    /\ UNCHANGED <<schedVars, execVars, restarts>>

-----------------------------------------------------------------------------

Init ==
    /\ StoreInit
    /\ svc = "down" /\ restarts = 0 /\ faults = 0
    /\ ctl = [c \in Controllers |-> IdleController]
    /\ inflight = {} /\ detached = {} /\ signals = {}
    /\ active = [j \in JobIds |-> "none"]
    /\ ex = [j \in JobIds |-> IdleExec]
    /\ sess = [j \in JobIds |-> "none"]
    /\ starts = [j \in JobIds |-> 0]

JobStep(j) ==
    \/ ExecStep(j) \/ SessionEnds(j) \/ SessionCancelled(j)
    \/ ClientSubmit(j) \/ ClientCancel(j) \/ SignalRun(j)

ServiceStep == CloseStop \/ CloseSignal \/ CloseDone \/ Crash \/ Open \/ Start

Next ==
    \/ \E j \in JobIds : JobStep(j)
    \/ \E c \in Controllers : CtlStep(c)
    \/ Dispatch
    \/ Time
    \/ ServiceStep

Spec == Init /\ [][Next]_vars

\* Fairness: every thread the service starts keeps running, a reconcile comes
\* due on every heartbeat (CtlSnapshot), leases run out, the master restarts a
\* dead worker.  A command need not end by itself; a cancelled one does (the
\* session manager kills its tree).
Fairness ==
    /\ \A j \in JobIds : /\ WF_vars(ExecStep(j))
                         /\ WF_vars(SignalRun(j))
                         /\ WF_vars(SessionCancelled(j))
                         /\ WF_vars(LeaseExpires(j) /\ Time)
    /\ \A c \in Controllers : WF_vars(CtlStep(c)) /\ SF_vars(CtlSnapshot(c))
    /\ WF_vars(CloseSignal) /\ WF_vars(CloseDone) /\ WF_vars(Open) /\ WF_vars(Start)

LiveSpec == Spec /\ Fairness

-----------------------------------------------------------------------------
(* Properties.                                                               *)

TypeOK ==
    /\ StoreTypeOK
    /\ svc \in {"down", "open", "up", "stopping", "draining"}
    /\ restarts \in 0..MaxRestarts
    /\ faults \in 0..MaxFaults
    /\ ctl \in [Controllers -> [pc : CtlPcs, job : JobIds \cup {0}, capacity : Int,
                                excluded : SUBSET JobIds]]
    /\ inflight \subseteq JobIds /\ detached \subseteq JobIds /\ signals \subseteq JobIds
    /\ active \in [JobIds -> {"none", "starting", "session"}]
    /\ ex \in [JobIds -> [pc : ExecPcs, attempt : Nat]]
    /\ sess \in [JobIds -> SessionStates]
    /\ starts \in [JobIds -> Nat]

\* "Terminal job outcomes are immutable" (docs/ASYNC_JOBS.md): once a row is
\* terminal no thread of any incarnation changes its outcome; retention may
\* delete it.
TerminalImmutable ==
    [][\A j \in JobIds :
          Terminal(j) /\ jobs'[j] # NoRow
             => [jobs'[j] EXCEPT !.aged = FALSE] = [jobs[j] EXCEPT !.aged = FALSE]]_vars

\* Where _execute_job has still to report a result.
Executing ==
    {"pool", "precancel", "register", "registered", "starting", "started", "marked",
     "markedCancel", "waiting", "staging", "finish"}

\* Lease reconciliation never declares a job lost while its executor is alive:
\* however late renewals are, whoever still has a result to report owns a row
\* that accepts it.
NoFalseLoss ==
    \A j \in JobIds :
        ex[j].pc \in Executing => Owned(j) /\ jobs[j].phase \in OwnedPhases

\* Exactly one notification per terminal job with a callback, none before: also
\* when the result, a cancel, an expired lease and a restart compete to end it.
OneNotification ==
    \A j \in JobIds :
        Len(outbox[j]) = IF Terminal(j) /\ jobs[j].spec.callback THEN 1 ELSE 0

\* "Silently rerunning a command that may have side effects" never happens: no
\* crash, restart, lease expiry or failed write makes a job start twice.
AtMostOneStart == \A j \in JobIds : starts[j] <= 1

\* No more jobs are claimed or executing than the pool has threads, although
\* capacity is computed once per pass and several controllers schedule.
CapacityRespected ==
    Cardinality({j \in JobIds : ex[j].attempt # 0}) <= Workers

\* "Output loss is never silent": output a job row refers to is there to read.
CommittedOutputExists ==
    \A j \in Live(jobs) : jobs[j].output => files[j] = "published"

\* Nothing is left in the output store that no row and no manifest accounts
\* for, once the job's executor is done: crash leftovers included.
OutputAccounted ==
    \A j \in JobIds :
        svc = "up" /\ files[j] # "none" /\ ex[j].pc = "none" => j \in Referenced

\* Every accepted job ends, unless its command is still running: whatever
\* write failed and wherever the service crashed or was stopped.
JobSettles ==
    \A j \in JobIds : (jobs[j] # NoRow) ~> (jobs[j] = NoRow \/ Terminal(j) \/ sess[j] = "live")

\* A cancel is never lost: a job whose intent is cancelled ends even if its
\* command would run forever, wherever in registration and start it caught it.
CancelSettles ==
    \A j \in JobIds :
        (jobs[j] # NoRow /\ Cancelled(jobs[j])) ~> (jobs[j] = NoRow \/ Terminal(j))

\* close() returns: no run escapes both its own looks at _stop and the signal.
CloseCompletes == Stopping ~> svc = "down"

=============================================================================
