------------------------------ MODULE JobStore ------------------------------
(***************************************************************************)
(* SqliteJobStore (service/store.py): the tables jobs, callback_outbox and *)
(* job_deletions, and the file output directories the store's cleaner      *)
(* (FileOutputStore.delete_job) removes.  Every public method is one       *)
(* BEGIN IMMEDIATE transaction and is one action here; a transaction that  *)
(* raises is rolled back and changes nothing, so its caller (JobService)   *)
(* models the failure and the store itself stutters.                       *)
(*                                                                         *)
(* Time is abstracted to what the SQL compares with the clock: a lease is  *)
(* held or expired, a completed row is aged past the retention cutoff or   *)
(* not, an outbox row is due or not.                                       *)
(***************************************************************************)
EXTENDS OutputStore, Integers, Sequences, FiniteSets

CONSTANTS
    Tenants, Keys,        \* tenant ids and idempotency keys
    Specs,                \* the specs clients submit
    Owners,               \* worker ids, one per service incarnation
    Results,              \* the terminal phases executors report to finish
    NoRow,                \* the absence of a row
    MaxJobs,              \* max_jobs
    MaxQueued,            \* max_queued_jobs
    MaxQueuedPerTenant    \* max_queued_jobs_per_tenant

DesiredStates == {"active", "cancelled"}

\* What the service tells apart in a JobSpec; the command stands for all the
\* execution fields the request hash covers.
JobSpec == [command : Nat, callback : BOOLEAN, desired_state : DesiredStates]

TerminalPhases ==
    {"succeeded", "failed", "timed_out", "canceled", "executor_lost", "expired"}
OwnedPhases == {"assigned", "running"}
JobPhase == {"queued"} \cup OwnedPhases \cup TerminalPhases

\* attempt stands for attempt_id (a fresh uuid per claim, so the lease epoch
\* identifies it; 0 is NULL), owner for lease_owner (0 is NULL), output for
\* "stdout_path and stderr_path are not NULL", aged for completed_at < cutoff.
Row == [tenant : Tenants, key : Keys, hash : JobSpec, spec : JobSpec,
        phase : JobPhase, generation : Nat, observed : Nat, revision : Nat,
        attempt : Nat, owner : Nat, lease : {"none", "held", "expired"},
        output : BOOLEAN, aged : BOOLEAN]

OutboxStates == {"pending", "delivering", "delivered", "dead"}

\* due stands for next_attempt_at <= now: for a pending row the retry time has
\* come, for a delivering row its delivery lease has run out.  delivery is the
\* delivery_attempt_id (0 is NULL).
OutboxRow == [state : OutboxStates, attempts : Nat, due : BOOLEAN, delivery : Nat]

ASSUME StoreAssumption ==
    /\ JobIds \subseteq Nat
    /\ Specs \subseteq JobSpec
    /\ Owners \subseteq Nat
    /\ Results \subseteq TerminalPhases
    /\ NoRow \notin Row
    /\ MaxJobs \in Nat /\ MaxQueued \in Nat /\ MaxQueuedPerTenant \in Nat

VARIABLES
    jobs,         \* the table jobs: a row or NoRow for each id
    minted,       \* ids that have been inserted once; uuid4 never repeats one
    outbox,       \* callback_outbox, per job, in insertion order; <<j, i>> is the event id
    deliveries,   \* how many delivery_attempt_ids have been issued
    deletions     \* job_deletions: manifests of output still to be removed

storeVars == <<jobs, minted, outbox, deliveries, deletions, files>>

-----------------------------------------------------------------------------
(* Rows and selections.                                                      *)

Live(rows) == {j \in JobIds : rows[j] # NoRow}
InPhase(rows, phases) == {j \in Live(rows) : rows[j].phase \in phases}
Terminal(j) == jobs[j] # NoRow /\ jobs[j].phase \in TerminalPhases
Cancelled(row) == row.spec.desired_state = "cancelled"

NewRow(t, k, spec) ==
    [tenant |-> t, key |-> k, hash |-> spec, spec |-> spec, phase |-> "queued",
     generation |-> 1, observed |-> 1, revision |-> 1, attempt |-> 0, owner |-> 0,
     lease |-> "none", output |-> FALSE, aged |-> FALSE]

NewEvent == [state |-> "pending", attempts |-> 0, due |-> TRUE, delivery |-> 0]

Unsettled(event) == event.state \in {"pending", "delivering"}

\* _insert_outbox: only a job that names a callback endpoint gets an event.
OutboxAfter(row, events) ==
    IF row.spec.callback THEN Append(events, NewEvent) ELSE events

\* _owned_row: the attempt and owner must match; the phase is not looked at.
OwnedRow(j, attempt, owner) ==
    /\ jobs[j] # NoRow
    /\ jobs[j].attempt = attempt
    /\ jobs[j].owner = owner

\* Mutant: the result is recorded without the generation it acted on.
CompletedUnobserved(row, phase, hasOutput) ==
    [row EXCEPT !.phase = IF Cancelled(row) THEN "canceled" ELSE phase,
                !.revision = @ + 1,
                !.lease = "none",
                !.output = hasOutput]

\* Mutant: the reported phase is stored without looking at the intent again.
CompletedAsReported(row, phase, hasOutput) ==
    [row EXCEPT !.phase = phase,
                !.observed = row.generation,
                !.revision = @ + 1,
                !.lease = "none",
                !.output = hasOutput]

\* The terminal update that finish and the two recoveries share.
Completed(row, phase, hasOutput) ==
    [row EXCEPT !.phase = IF Cancelled(row) THEN "canceled" ELSE phase,
                !.observed = row.generation,
                !.revision = @ + 1,
                !.lease = "none",
                !.output = hasOutput]

\* Mutant: recovery puts the interrupted job back into the queue.
Requeued(row) ==
    [row EXCEPT !.phase = "queued", !.owner = 0, !.lease = "none", !.revision = @ + 1]

\* recover_interrupted and recover_expired_leases leave the output columns alone.
Lost(row) == Completed(row, "executor_lost", row.output)

-----------------------------------------------------------------------------
(* Retention: prune_expired and _finalize_output_deletions.                  *)

\* Mutant: retention looks at the age alone.
PrunableByAge == {j \in JobIds : Terminal(j) /\ jobs[j].aged}

\* Expired terminal jobs none of whose callbacks is still to be delivered.
Prunable ==
    {j \in JobIds : /\ Terminal(j)
                    /\ jobs[j].aged
                    /\ \A i \in DOMAIN outbox[j] : ~Unsettled(outbox[j][i])}

JobsAfterPrune == [j \in JobIds |-> IF j \in Prunable THEN NoRow ELSE jobs[j]]
OutboxAfterPrune == [j \in JobIds |-> IF j \in Prunable THEN <<>> ELSE outbox[j]]
\* Mutant: prune_expired deletes rows without recording their output.
ManifestsNotRecorded == deletions

ManifestsAfterPrune == deletions \cup {j \in Prunable : jobs[j].output}

\* prune_expired as its caller sees it: finalize, delete the rows with their
\* manifests, finalize again.  failing is the set of jobs whose cleaner raises
\* OSError; their manifests stay for a later pass.
PruneFiles(failing) ==
    /\ deletions' = ManifestsAfterPrune \cap failing
    /\ files' = [j \in JobIds |->
                    IF j \in ManifestsAfterPrune \ failing THEN "none" ELSE files[j]]

PruneExpired(failing) ==
    /\ jobs' = JobsAfterPrune
    /\ outbox' = OutboxAfterPrune
    /\ PruneFiles(failing)
    /\ UNCHANGED <<minted, deliveries>>

\* A finalize pass that ends early: the cleaner has removed the directories of
\* cleaned, and the manifests of forgotten are deleted.
FinalizePartly(manifests, cleaned, forgotten) ==
    /\ forgotten \subseteq cleaned /\ cleaned \subseteq manifests
    /\ deletions' = manifests \ forgotten
    /\ files' = [j \in JobIds |-> IF j \in cleaned THEN "none" ELSE files[j]]

\* prune_expired ended by a store error or a crash: in its first finalize pass,
\* with no row deleted, or after its own commit in the second.
PruneInterrupted(cleaned, forgotten) ==
    /\ \/ /\ UNCHANGED <<jobs, outbox>>
          /\ FinalizePartly(deletions, cleaned, forgotten)
       \/ /\ jobs' = JobsAfterPrune
          /\ outbox' = OutboxAfterPrune
          /\ FinalizePartly(ManifestsAfterPrune, cleaned, forgotten)
    /\ UNCHANGED <<minted, deliveries>>

\* referenced_output_job_ids: output a row or a manifest names is committed.
Referenced == {j \in Live(jobs) : jobs[j].output} \cup deletions

-----------------------------------------------------------------------------
(* Admission.                                                                *)

\* Mutant: only jobs that have not ended are looked up.
SameKeyUnfinished(rows, t, k) ==
    {j \in Live(rows) : /\ rows[j].tenant = t /\ rows[j].key = k
                        /\ rows[j].phase \notin TerminalPhases}

SameKey(rows, t, k) == {j \in Live(rows) : rows[j].tenant = t /\ rows[j].key = k}

\* Mutant: each limit admits one more.
AdmissionFullLate(rows, t) ==
    \/ Cardinality(Live(rows)) > MaxJobs
    \/ Cardinality(InPhase(rows, {"queued"})) > MaxQueued
    \/ Cardinality({j \in InPhase(rows, {"queued"}) : rows[j].tenant = t})
          > MaxQueuedPerTenant

AdmissionFull(rows, t) ==
    \/ Cardinality(Live(rows)) >= MaxJobs
    \/ Cardinality(InPhase(rows, {"queued"})) >= MaxQueued
    \/ Cardinality({j \in InPhase(rows, {"queued"}) : rows[j].tenant = t})
          >= MaxQueuedPerTenant

\* submit: prune, then look the key up, then the limits, then insert.  A replay
\* returns the existing row and a conflicting hash or a full store raises: in
\* those cases only the pruning is left behind.
Submit(j, t, k, spec, failing) ==
    /\ j \notin minted
    /\ outbox' = OutboxAfterPrune
    /\ PruneFiles(failing)
    /\ UNCHANGED deliveries
    /\ \/ /\ SameKey(JobsAfterPrune, t, k) # {} \/ AdmissionFull(JobsAfterPrune, t)
          /\ jobs' = JobsAfterPrune
          /\ UNCHANGED minted
       \/ /\ SameKey(JobsAfterPrune, t, k) = {}
          /\ ~AdmissionFull(JobsAfterPrune, t)
          /\ jobs' = [JobsAfterPrune EXCEPT ![j] = NewRow(t, k, spec)]
          /\ minted' = minted \cup {j}

-----------------------------------------------------------------------------
(* Claims, leases and results.                                               *)

\* The row updates of claim_next, mark_running, renew_lease and the clock.
Assigned(row, owner) ==
    [row EXCEPT !.phase = "assigned", !.attempt = @ + 1, !.owner = owner,
                !.lease = "held", !.revision = @ + 1]
Running(row) == [row EXCEPT !.phase = "running", !.revision = @ + 1]
WithLease(row, lease) == [row EXCEPT !.lease = lease]
Aged(row) == [row EXCEPT !.aged = TRUE]

\* claim_next: the oldest queued job gets a new attempt and lease.
ClaimNext(j, owner) ==
    /\ j \in InPhase(jobs, {"queued"})
    /\ \A i \in InPhase(jobs, {"queued"}) : j <= i
    /\ jobs' = [jobs EXCEPT ![j] = Assigned(@, owner)]
    /\ UNCHANGED <<minted, outbox, deliveries, deletions, files>>

\* mark_running: ownership is checked, the phase is not.
MarkRunning(j, attempt, owner) ==
    /\ OwnedRow(j, attempt, owner)
    /\ jobs' = [jobs EXCEPT ![j] = Running(@)]
    /\ UNCHANGED <<minted, outbox, deliveries, deletions, files>>

\* renew_lease, for each <<job, attempt>> of held (_renew_active_leases).
RenewLeases(held, owner) ==
    /\ jobs' = [j \in JobIds |->
                   IF /\ j \in InPhase(jobs, OwnedPhases)
                      /\ <<j, jobs[j].attempt>> \in held
                      /\ jobs[j].owner = owner
                   THEN WithLease(jobs[j], "held")
                   ELSE jobs[j]]
    /\ UNCHANGED <<minted, outbox, deliveries, deletions, files>>

\* Mutant: finish does not look whether the row is terminal already.
FinishAgain(j, attempt, owner, phase, hasOutput) ==
    /\ OwnedRow(j, attempt, owner)
    /\ jobs' = [jobs EXCEPT ![j] = Completed(@, phase, hasOutput)]
    /\ outbox' = [outbox EXCEPT ![j] = OutboxAfter(jobs[j], @)]
    /\ UNCHANGED <<minted, deliveries, deletions, files>>

\* finish: a no-op on a terminal row; otherwise the result, the observed
\* generation and the notification intent in one transaction.
Finish(j, attempt, owner, phase, hasOutput) ==
    /\ OwnedRow(j, attempt, owner)
    /\ \/ /\ Terminal(j)
          /\ UNCHANGED <<jobs, outbox>>
       \/ /\ jobs[j].phase \in OwnedPhases
          /\ jobs' = [jobs EXCEPT ![j] = Completed(@, phase, hasOutput)]
          /\ outbox' = [outbox EXCEPT ![j] = OutboxAfter(jobs[j], @)]
    /\ UNCHANGED <<minted, deliveries, deletions, files>>

\* Mutant: the desired state's spelling is written into the phase column.
CancelledRowMisspelt(row) ==
    LET intent == [row EXCEPT !.spec = [@ EXCEPT !.desired_state = "cancelled"],
                              !.generation = @ + 1,
                              !.revision = @ + 1]
    IN  IF row.phase = "queued"
        THEN [intent EXCEPT !.phase = "cancelled", !.observed = intent.generation]
        ELSE intent

\* request_cancel: a no-op on a terminal or already cancelled row; a queued job
\* becomes canceled at once, an owned one only records the new intent.
CancelledRow(row) ==
    LET intent == [row EXCEPT !.spec = [@ EXCEPT !.desired_state = "cancelled"],
                              !.generation = @ + 1,
                              !.revision = @ + 1]
    IN  IF row.phase = "queued"
        THEN [intent EXCEPT !.phase = "canceled", !.observed = intent.generation]
        ELSE intent

\* Mutant: a cancel in the queue ends the job without a notification.
RequestCancelSilently(j) ==
    /\ jobs[j] # NoRow
    /\ \/ /\ Terminal(j) \/ Cancelled(jobs[j])
          /\ UNCHANGED jobs
       \/ /\ ~Terminal(j) /\ ~Cancelled(jobs[j])
          /\ jobs' = [jobs EXCEPT ![j] = CancelledRow(@)]
    /\ UNCHANGED <<outbox, minted, deliveries, deletions, files>>

\* Mutant: a late cancel also changes a job that has ended.
RequestCancelLate(j) ==
    /\ jobs[j] # NoRow
    /\ \/ /\ Cancelled(jobs[j])
          /\ UNCHANGED <<jobs, outbox>>
       \/ /\ ~Cancelled(jobs[j])
          /\ jobs' = [jobs EXCEPT ![j] = CancelledRow(@)]
          /\ outbox' = [outbox EXCEPT ![j] =
                            IF jobs[j].phase = "queued"
                            THEN OutboxAfter(jobs[j], @) ELSE @]
    /\ UNCHANGED <<minted, deliveries, deletions, files>>

RequestCancel(j) ==
    /\ jobs[j] # NoRow
    /\ \/ /\ Terminal(j) \/ Cancelled(jobs[j])
          /\ UNCHANGED <<jobs, outbox>>
       \/ /\ ~Terminal(j) /\ ~Cancelled(jobs[j])
          /\ jobs' = [jobs EXCEPT ![j] = CancelledRow(@)]
          /\ outbox' = [outbox EXCEPT ![j] =
                            IF jobs[j].phase = "queued"
                            THEN OutboxAfter(jobs[j], @) ELSE @]
    /\ UNCHANGED <<minted, deliveries, deletions, files>>

\* The terminal transaction of both recoveries, over the rows of lost.
LoseJobs(lost) ==
    jobs' = [j \in JobIds |-> IF j \in lost THEN Lost(jobs[j]) ELSE jobs[j]]

\* recover_interrupted: on start no delivery is in progress and nobody runs an
\* owned job, so deliveries go back to pending and owned jobs are lost.
Resumed(event) ==
    IF event.state = "delivering"
    THEN [event EXCEPT !.state = "pending", !.due = TRUE, !.delivery = 0]
    ELSE event

RecoverInterrupted ==
    /\ LoseJobs(InPhase(jobs, OwnedPhases))
    /\ outbox' = [j \in JobIds |->
                     LET resumed == [i \in DOMAIN outbox[j] |-> Resumed(outbox[j][i])]
                     IN  IF j \in InPhase(jobs, OwnedPhases)
                         THEN OutboxAfter(jobs[j], resumed) ELSE resumed]
    /\ UNCHANGED <<minted, deliveries, deletions, files>>

\* Mutant: every owned job that is not excluded counts as expired.
OwnedNotExcluded(excluded) == InPhase(jobs, OwnedPhases) \ excluded

\* recover_expired_leases(exclude_job_ids=excluded).
ExpiredLeases(excluded) ==
    {j \in InPhase(jobs, OwnedPhases) : jobs[j].lease = "expired"} \ excluded

RecoverExpiredLeases(excluded) ==
    /\ LoseJobs(ExpiredLeases(excluded))
    /\ outbox' = [j \in JobIds |-> IF j \in ExpiredLeases(excluded)
                                   THEN OutboxAfter(jobs[j], outbox[j])
                                   ELSE outbox[j]]
    /\ UNCHANGED <<minted, deliveries, deletions, files>>

-----------------------------------------------------------------------------
(* The outbox.                                                               *)

\* Events a claim may reserve: due pending rows, and deliveries whose lease ran out.
DueEvents ==
    UNION {{<<j, i>> : i \in {n \in DOMAIN outbox[j] :
                                 Unsettled(outbox[j][n]) /\ outbox[j][n].due}} :
           j \in JobIds}

\* claim_outbox_due: every delivery whose lease ran out is pending again, with
\* no attempt counted, and the rows of claimed get a new delivery id (unique
\* per event, so one number serves the batch).
ClaimedEvent(event, claimed, delivery) ==
    IF claimed
    THEN [event EXCEPT !.state = "delivering", !.due = FALSE, !.delivery = delivery]
    ELSE IF event.state = "delivering" /\ event.due
         THEN [event EXCEPT !.state = "pending", !.delivery = 0]
         ELSE event

ClaimOutboxDue(claimed) ==
    /\ claimed \subseteq DueEvents
    /\ deliveries' = deliveries + 1
    /\ outbox' = [j \in JobIds |-> [i \in DOMAIN outbox[j] |->
                     ClaimedEvent(outbox[j][i], <<j, i>> \in claimed, deliveries + 1)]]
    /\ UNCHANGED <<jobs, minted, deletions, files>>

\* The WHERE clause of outbox_delivered and outbox_failed.
Fenced(j, i, delivery) ==
    /\ i \in DOMAIN outbox[j]
    /\ outbox[j][i].state = "delivering"
    /\ outbox[j][i].delivery = delivery

Delivered(event) == [event EXCEPT !.state = "delivered", !.delivery = 0]
Retried(event, permanent) ==
    [event EXCEPT !.state = IF permanent THEN "dead" ELSE "pending",
                  !.attempts = @ + 1,
                  !.due = FALSE,
                  !.delivery = 0]
Due(event) == [event EXCEPT !.due = TRUE]

OutboxDelivered(j, i, delivery) ==
    /\ Fenced(j, i, delivery)
    /\ outbox' = [outbox EXCEPT ![j][i] = Delivered(@)]
    /\ UNCHANGED <<jobs, minted, deliveries, deletions, files>>

OutboxFailed(j, i, delivery, permanent) ==
    /\ Fenced(j, i, delivery)
    /\ outbox' = [outbox EXCEPT ![j][i] = Retried(@, permanent)]
    /\ UNCHANGED <<jobs, minted, deliveries, deletions, files>>

-----------------------------------------------------------------------------
(* The clock, as far as the SQL compares with it.                            *)

LeaseExpires(j) ==
    /\ jobs[j] # NoRow
    /\ jobs[j].lease = "held"
    /\ jobs' = [jobs EXCEPT ![j] = WithLease(@, "expired")]
    /\ UNCHANGED <<minted, outbox, deliveries, deletions, files>>

RetentionPasses(j) ==
    /\ Terminal(j)
    /\ ~jobs[j].aged
    /\ jobs' = [jobs EXCEPT ![j] = Aged(@)]
    /\ UNCHANGED <<minted, outbox, deliveries, deletions, files>>

BecomesDue(j, i) ==
    /\ i \in DOMAIN outbox[j]
    /\ Unsettled(outbox[j][i]) /\ ~outbox[j][i].due
    /\ outbox' = [outbox EXCEPT ![j][i] = Due(@)]
    /\ UNCHANGED <<jobs, minted, deliveries, deletions, files>>

-----------------------------------------------------------------------------
(* The store under any caller: the API's whole surface, every call made with *)
(* tokens the store has issued.  JobService restricts it.                    *)

StoreInit ==
    /\ jobs = [j \in JobIds |-> NoRow]
    /\ minted = {}
    /\ outbox = [j \in JobIds |-> <<>>]
    /\ deliveries = 0
    /\ deletions = {}
    /\ OutputInit

Clock ==
    \E j \in JobIds :
        \/ LeaseExpires(j)
        \/ RetentionPasses(j)
        \/ \E i \in DOMAIN outbox[j] : BecomesDue(j, i)

JobCall(j) ==
    \/ \E t \in Tenants, k \in Keys, spec \in Specs, failing \in SUBSET JobIds :
           Submit(j, t, k, spec, failing)
    \/ \E owner \in Owners : ClaimNext(j, owner)
    \/ MarkRunning(j, jobs[j].attempt, jobs[j].owner)
    \/ \E phase \in Results, hasOutput \in BOOLEAN :
           Finish(j, jobs[j].attempt, jobs[j].owner, phase, hasOutput)
    \/ RequestCancel(j)

Recovery ==
    \/ RecoverInterrupted
    \/ \E excluded \in SUBSET JobIds : RecoverExpiredLeases(excluded)
    \/ \E held \in SUBSET Live(jobs), owner \in Owners :
           RenewLeases({<<j, jobs[j].attempt>> : j \in held}, owner)
    \/ \E failing \in SUBSET JobIds : PruneExpired(failing)
    \/ \E cleaned \in SUBSET ManifestsAfterPrune : \E forgotten \in SUBSET cleaned :
           PruneInterrupted(cleaned, forgotten)

OutboxCall ==
    \/ \E claimed \in SUBSET DueEvents : ClaimOutboxDue(claimed)
    \/ \E j \in JobIds : \E i \in DOMAIN outbox[j] : \E d \in 1..deliveries :
           \/ OutboxDelivered(j, i, d)
           \/ \E permanent \in BOOLEAN : OutboxFailed(j, i, d, permanent)

OutputCall ==
    /\ OutputNext
    /\ UNCHANGED <<jobs, minted, outbox, deliveries, deletions>>

StoreNext ==
    \/ \E j \in JobIds : JobCall(j)
    \/ Recovery
    \/ OutboxCall
    \/ OutputCall
    \/ Clock

StoreSpec == StoreInit /\ [][StoreNext]_storeVars

-----------------------------------------------------------------------------
(* Properties.                                                               *)

StoreTypeOK ==
    /\ jobs \in [JobIds -> Row \cup {NoRow}]
    /\ minted \subseteq JobIds
    /\ outbox \in [JobIds -> Seq(OutboxRow)]
    /\ deliveries \in Nat
    /\ deletions \subseteq JobIds
    /\ files \in [JobIds -> OutputDirs]

\* "Duplicate submissions with the same idempotency key do not create duplicate
\* jobs" (docs/ASYNC_JOBS.md): submit looks the key up after pruning and inserts
\* in the same transaction, so no two rows ever share a tenant and key.
UniqueKeys ==
    \A i, j \in Live(jobs) :
        jobs[i].tenant = jobs[j].tenant /\ jobs[i].key = jobs[j].key => i = j

\* The three admission limits hold whatever happens after admission: nothing but
\* submit adds a row or returns one to the queue.
AdmissionBounds ==
    /\ Cardinality(Live(jobs)) <= MaxJobs
    /\ Cardinality(InPhase(jobs, {"queued"})) <= MaxQueued
    /\ \A t \in Tenants :
          Cardinality({j \in InPhase(jobs, {"queued"}) : jobs[j].tenant = t})
             <= MaxQueuedPerTenant

\* "A controller has acted on the current intent only when observed_generation
\* == generation" (docs/ASYNC_JOBS.md): every terminal row has observed its last
\* intent, a cancel that raced the completion included.
TerminalObserved ==
    \A j \in JobIds : Terminal(j) => jobs[j].observed = jobs[j].generation

\* Cancellation wins: a job whose intent is cancelled never ends in any other
\* terminal phase, whichever of finish, request_cancel and the two recoveries
\* ends it.
CancelWins ==
    \A j \in JobIds : Terminal(j) /\ Cancelled(jobs[j]) => jobs[j].phase = "canceled"

\* "The terminal result and notification intent are committed atomically": a
\* terminal job with a callback has its event, a job without one has none.
NotificationCommitted ==
    \A j \in JobIds :
        /\ Terminal(j) /\ jobs[j].spec.callback => outbox[j] # <<>>
        /\ outbox[j] # <<>> => jobs[j] # NoRow /\ jobs[j].spec.callback

\* A notification still to be delivered is never dropped: not by retention (the
\* cascade of a pruned job), not by restart recovery, not by a stale delivery.
\* A delivered or dead event never changes again.
NoNotificationLost ==
    [][\A j \in JobIds : \A i \in DOMAIN outbox[j] :
          /\ Unsettled(outbox[j][i]) => i \in DOMAIN outbox'[j]
          /\ ~Unsettled(outbox[j][i]) /\ i \in DOMAIN outbox'[j]
                => outbox'[j][i] = outbox[j][i]]_storeVars

\* Retention never forgets output: a row that disappears while it references
\* output leaves a deletion manifest, or its files are already gone.
OutputNeverForgotten ==
    [][\A j \in JobIds :
          jobs[j] # NoRow /\ jobs[j].output /\ jobs'[j] = NoRow
             => j \in deletions' \/ files'[j] = "none"]_storeVars

-----------------------------------------------------------------------------
=============================================================================
