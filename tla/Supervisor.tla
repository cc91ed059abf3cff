----------------------------- MODULE Supervisor -----------------------------
(***************************************************************************)
(* ControlMaster (service/master.py) and the worker it supervises: the     *)
(* worker's callback dispatcher (Notifier), which decides with its health  *)
(* whether the master sees progress, and the process trees its sessions    *)
(* start (Ownership), which the master must clean up after every worker.   *)
(*                                                                         *)
(* The worker's controllers are reduced to what the heartbeat shows of     *)
(* them: like the dispatcher they fall behind while the store is away.     *)
(* Faults are the steps no healthy system takes; MaxFaults bounds them.    *)
(***************************************************************************)
EXTENDS Notifier, Ownership

CONSTANTS
    RestartLimit,   \* control.worker_restart_limit
    MaxFaults       \* how many faults a behaviour contains

ASSUME SupervisorAssumption == RestartLimit \in Nat /\ MaxFaults \in Nat

VARIABLES
    master,      \* where ControlMaster.run is
    worker,      \* the worker process of this generation
    heartbeat,   \* the worker's heartbeat thread runs
    stop,        \* ControlMaster._stop
    failures,    \* failures within the restart window
    code,        \* what run returned
    faults       \* faults so far

control == <<master, worker, heartbeat, stop, failures, code>>
vars == <<notifierVars, ownershipVars, control, faults>>

MasterPcs ==
    {"spawn", "watch", "drain", "join", "final", "cleanup", "backoff", "exited", "dead"}
WorkerStates == {"none", "opening", "serving", "draining", "hung", "dead"}

WorkerAlive == worker \in {"opening", "serving", "draining", "hung"}
Returned == master \in {"exited", "dead"}

\* JobService.health()["ready"], and the heartbeat that carries it.  A delivery
\* that does not end is older than the request timeout and its margin.
Ready ==
    /\ worker = "serving" /\ heartbeat
    /\ ~stale
    /\ \A d \in deliveries : d.pc # "hung"

-----------------------------------------------------------------------------
(* The master.                                                               *)

\* The head of run's loop: pipes, an empty registry, and a new worker process.
StartWorker ==
    /\ master = "spawn" /\ ~stop
    /\ master' = "watch"
    /\ worker' = "opening"
    /\ UNCHANGED <<notifierVars, ownershipVars, heartbeat, stop, failures, code, faults>>

\* _service_ownership_messages while the worker lives, or in the call that was
\* in progress when it died.
Serve ==
    /\ master \in {"watch", "drain"}
    /\ ServeMessage(WorkerAlive)
    /\ UNCHANGED <<notifierVars, control, faults>>

\* A worker that dies takes its threads and its end of the channel with it.
Dies ==
    /\ worker' = "dead" /\ heartbeat' = FALSE
    /\ FreshDispatcher
    /\ AbandonHandles
    /\ UNCHANGED <<outbox, storeUp, posts, cuts, group, requests, owned, exposed, cleaning>>

\* worker.terminate(): SIGTERM ends a worker that has no handler yet, asks one
\* that serves to close, and does nothing to one that hangs.
Terminate ==
    IF worker = "opening"
    THEN Dies
    ELSE /\ worker' = IF worker = "serving" THEN "draining" ELSE worker
         /\ UNCHANGED <<heartbeat, notifierVars, ownershipVars>>

\* Mutant: only a worker that does not answer at all is replaced.
StalledIfSilent == worker = "hung"

\* No ready heartbeat came within the progress limit.
Stalled == worker = "hung" \/ (worker = "serving" /\ ~Ready)

\* The watch loop ends with a live worker.
BeginDrain ==
    /\ master = "watch" /\ WorkerAlive
    /\ stop \/ Stalled
    /\ Terminate
    /\ master' = "drain"
    /\ UNCHANGED <<stop, failures, code, faults>>

\* The watch loop ends because the worker is gone.
NoticeExit ==
    /\ master = "watch" /\ worker = "dead"
    /\ master' = IF stop THEN "final" ELSE "join"
    /\ UNCHANGED <<notifierVars, ownershipVars, worker, heartbeat, stop, failures, code, faults>>

\* _terminate_worker returns: the worker closed in time, or is killed.
EndDrain ==
    /\ master = "drain"
    /\ master' = "final"
    /\ IF WorkerAlive THEN Dies ELSE UNCHANGED <<worker, heartbeat, notifierVars, ownershipVars>>
    /\ UNCHANGED <<stop, failures, code, faults>>

\* A look at the channel of a dead worker, after join and again in
\* _finish_ownership_generation: the answer to the first message cannot be sent,
\* so at most that one is applied.
LastMessages ==
    /\ master \in {"join", "final"}
    /\ IF requests = <<>> THEN UNCHANGED ownershipVars ELSE ServeMessage(FALSE)
    /\ master' = IF master = "join" THEN "final" ELSE "cleanup"
    /\ UNCHANGED <<notifierVars, worker, heartbeat, stop, failures, code, faults>>

\* _cleanup_orphan_processes, over the records that are left.
CleanupOrphans ==
    /\ master = "cleanup"
    /\ KillOrphan \/ \E p \in Procs : CheckOrphan(p)
    /\ UNCHANGED <<notifierVars, control, faults>>

\* The end of a generation, with its channel: return on request, give up, or try
\* again.  n counts the failures still in the window, this one included.
EndGeneration ==
    /\ master = "cleanup" /\ owned = {} /\ target = NoProc
    /\ requests' = <<>>
    /\ worker' = "none"
    /\ IF stop
       THEN master' = "exited" /\ code' = 0 /\ UNCHANGED failures
       ELSE \E n \in 1..failures + 1 :
               /\ failures' = n
               /\ IF n > RestartLimit THEN master' = "exited" /\ code' = 70
                                      ELSE master' = "backoff" /\ UNCHANGED code
    /\ UNCHANGED <<notifierVars, group, handle, calling, acks, owned, exposed, cleaning,
                   heartbeat, stop, faults>>

\* The restart delay ends, early when stop is requested.
EndBackoff ==
    /\ master = "backoff"
    /\ master' = "spawn"
    /\ UNCHANGED <<notifierVars, ownershipVars, worker, heartbeat, stop, failures, code, faults>>

\* The head of run's loop with the stop flag set.
ReturnStopped ==
    /\ master = "spawn" /\ stop
    /\ master' = "exited" /\ code' = 0
    /\ UNCHANGED <<notifierVars, ownershipVars, worker, heartbeat, stop, failures, faults>>

\* ControlMaster.stop, from a signal handler.
RequestStop ==
    /\ ~stop /\ ~Returned
    /\ stop' = TRUE
    /\ UNCHANGED <<notifierVars, ownershipVars, master, worker, heartbeat, failures, code, faults>>

MasterStep ==
    \/ StartWorker \/ Serve \/ BeginDrain \/ NoticeExit \/ EndDrain
    \/ LastMessages \/ CleanupOrphans \/ EndGeneration \/ EndBackoff \/ ReturnStopped

-----------------------------------------------------------------------------
(* The worker.                                                               *)

\* run_worker: the service is constructed and started, the heartbeat begins.
Open ==
    /\ worker = "opening" /\ storeUp
    /\ worker' = "serving" /\ heartbeat' = TRUE
    /\ Resume
    /\ UNCHANGED <<dispatcher, storeUp, posts, ownershipVars, master, stop, failures, code, faults>>

\* The store cannot be opened: run_worker raises.
OpenFails ==
    /\ worker = "opening" /\ ~storeUp
    /\ Dies
    /\ UNCHANGED <<master, stop, failures, code, faults>>

\* health() reads the store; what it raises ends the heartbeat thread.
HeartbeatEnds ==
    /\ worker = "serving" /\ heartbeat /\ ~storeUp
    /\ heartbeat' = FALSE
    /\ UNCHANGED <<notifierVars, ownershipVars, master, worker, stop, failures, code, faults>>

\* _stop ends the loop; deliveries that were begun are completed.
DispatcherStep ==
    /\ \/ worker = "serving" /\ NotificationLoop
       \/ worker \in {"serving", "draining"} /\ \E d \in deliveries : DeliveryStep(d)
    /\ UNCHANGED <<ownershipVars, control, faults>>

\* A request waits for an answer as long as the master is there to give one.
SessionsStep ==
    /\ worker \in {"serving", "draining"}
    /\ \E p \in Procs :
          Spawn(p) \/ SessionStep(p) \/ (master = "dead" /\ RequestFails(p))
    /\ UNCHANGED <<notifierVars, control, faults>>

\* JobService.close has joined every thread.
Close ==
    /\ worker = "draining" /\ Busy = {} /\ deliveries = {}
    /\ Dies
    /\ UNCHANGED <<master, stop, failures, code, faults>>

\* The parent watch: a worker whose master is gone sends itself SIGTERM.
ParentGone ==
    /\ master = "dead" /\ worker \in {"opening", "serving"}
    /\ Terminate
    /\ UNCHANGED <<master, stop, failures, code, faults>>

WorkerStep ==
    Open \/ OpenFails \/ HeartbeatEnds \/ DispatcherStep \/ SessionsStep \/ Close \/ ParentGone

-----------------------------------------------------------------------------
(* Time, the operating system, and faults.                                   *)

Environment ==
    /\ \/ /\ (\E e \in Events : BecomesDue(e)) \/ StoreRecovers
          /\ UNCHANGED ownershipVars
       \/ /\ worker = "serving" /\ GrowsStale
          /\ UNCHANGED ownershipVars
       \/ /\ \E p \in Procs : LeaderExits(p) \/ GroupEmpties(p) \/ NumberReused(p)
          /\ UNCHANGED notifierVars
    /\ UNCHANGED <<control, faults>>

\* The worker crashes, hangs or does not finish opening, the master is killed.
ProcessFault ==
    \/ /\ WorkerAlive /\ Dies
       /\ UNCHANGED <<master, stop, failures, code>>
    \/ /\ worker \in {"opening", "serving", "draining"} /\ worker' = "hung"
       /\ UNCHANGED <<notifierVars, ownershipVars, master, heartbeat, stop, failures, code>>
    \/ /\ ~Returned /\ master' = "dead"
       /\ UNCHANGED <<notifierVars, ownershipVars, worker, heartbeat, stop, failures, code>>

\* The database goes away, a delivery outlives its lease or never ends, the
\* thread pool refuses a record.
DispatcherFault ==
    /\ \/ StoreFails
       \/ worker \in {"serving", "draining"} /\ \E d \in deliveries : DeliveryHangs(d)
       \/ \E e \in Events : LeaseLapses(e)
       \/ worker = "serving" /\ SchedulingFails
    /\ UNCHANGED <<ownershipVars, control>>

\* The master does not answer in time, a tree survives its kill.
SessionFault ==
    /\ worker \in {"serving", "draining"}
    /\ \E p \in Procs : RequestFails(p) \/ KillTreeFails(p)
    /\ UNCHANGED <<notifierVars, control>>

\* The master may not signal a group it has to clean up.
CleanupFault ==
    /\ master = "cleanup" /\ KillOrphanFails
    /\ UNCHANGED <<notifierVars, control>>

Fault ==
    /\ faults < MaxFaults
    /\ faults' = faults + 1
    /\ ProcessFault \/ DispatcherFault \/ SessionFault \/ CleanupFault

SupervisorInit(unsettled, starters) ==
    /\ NotifierInit(unsettled)
    /\ OwnershipInit(starters)
    /\ master = "spawn" /\ worker = "none" /\ heartbeat = FALSE
    /\ stop = FALSE /\ failures = 0 /\ code = 0 /\ faults = 0

Init == SupervisorInit(Events, Procs)

Next == MasterStep \/ WorkerStep \/ RequestStop \/ Environment \/ Fault

\* The master's loop, a worker that serves and its threads run; a retry time
\* comes and an outage ends.
Fairness ==
    /\ WF_vars(MasterStep)
    /\ WF_vars(Open) /\ WF_vars(OpenFails) /\ WF_vars(Close) /\ WF_vars(ParentGone)
    /\ WF_vars(SessionsStep)
    /\ WF_vars(worker = "serving" /\ NotificationLoop /\ UNCHANGED <<ownershipVars, control, faults>>)
    /\ WF_vars(/\ worker \in {"serving", "draining"}
               /\ \E d \in deliveries : DeliveryStep(d)
               /\ UNCHANGED <<ownershipVars, control, faults>>)
    /\ \A e \in Events :
          WF_vars(BecomesDue(e) /\ UNCHANGED <<ownershipVars, control, faults>>)
    /\ WF_vars(StoreRecovers /\ UNCHANGED <<ownershipVars, control, faults>>)
    /\ WF_vars(worker = "serving" /\ GrowsStale /\ UNCHANGED <<ownershipVars, control, faults>>)

Spec == Init /\ [][Next]_vars /\ Fairness

-----------------------------------------------------------------------------
(* Properties.                                                               *)

\* Every variable keeps its shape, and every permit of _notification_slots is
\* free or held by one delivery thread: none leaks, none is given back twice.
SupervisorTypeOK ==
    /\ outbox \in [Events -> Event]
    /\ deliveries \subseteq Delivery
    /\ slots \in Nat
    /\ slots + Cardinality({d \in deliveries : d.pc # "unscheduled"}) = MaxDeliveries
    /\ unpersisted \subseteq Events
    /\ stale \in BOOLEAN /\ storeUp \in BOOLEAN
    /\ posts \in [Events -> Nat] /\ cuts \in [Events -> Nat]
    /\ group \in [Procs -> Groups] /\ handle \in [Procs -> Handles]
    /\ calling \in Procs \cup {NoProc}
    /\ owned \subseteq Procs /\ exposed \subseteq Procs
    /\ target \in Procs \cup {NoProc} /\ survived \subseteq Procs
    /\ master \in MasterPcs /\ worker \in WorkerStates
    /\ heartbeat \in BOOLEAN /\ stop \in BOOLEAN
    /\ failures \in 0..RestartLimit + 1 /\ code \in {0, 70} /\ faults \in 0..MaxFaults

\* A process tree whose registration was acknowledged to the worker is gone
\* before the next worker starts and before the master returns, however the
\* worker ended and whatever was still in the channel, unless the master was
\* refused the kill (ControlMaster._finish_ownership_generation).
ExposedTreesDie ==
    master \in {"backoff", "spawn", "exited"} => \A p \in exposed \ survived : ~Alive(p)

\* The records make PID reuse fail closed (docs/ASYNC_JOBS.md): neither a session's
\* kill_tree nor the cleanup ends a group whose leader runs and which only has the
\* number of the group that was recorded.
StrangersSpared ==
    [][\A p \in owned : group[p] = "stranger" => group'[p] \in {"stranger", "strangers"}]_vars

\* An event is sent at most once per address and claim, and every claim is paid
\* for: by a recorded attempt, by a lease or a worker that ended without an
\* outcome, or by the delivery in progress (claim_outbox_due, _deliver).
PostsAccounted ==
    \A e \in Events :
        posts[e] <= Addresses * (outbox[e].attempts + cuts[e]
                                 + IF outbox[e].state \in {"delivering", "delivered"} THEN 1 ELSE 0)

\* A worker that is not ready becomes ready, or is replaced until one is, or the
\* master returns (ControlMaster.run).
Recovers == []<>(Ready \/ stop \/ Returned)

\* Every event is delivered or given up, across outages, lost outcomes and
\* worker restarts, unless the service is stopped (_notification_loop).
EventSettles == \A e \in Events : <>(Settled(e) \/ stop \/ Returned)

=============================================================================
