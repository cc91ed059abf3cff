------------------------------ MODULE Session ------------------------------
(***************************************************************************)
(* SessionManager (runtime/sessions.py) over an execution backend          *)
(* (runtime/backends.py): start and its abandonment, the monitor task of   *)
(* each session, cancel's escalation, dispose, shutdown and pruning.  All  *)
(* of it runs on one event loop, so an action ends at an await.            *)
(*                                                                         *)
(* Every bounded wait may time out while what it waits for is missing.  A  *)
(* backend call that raises, or that hangs into its deadline, is a fault;  *)
(* MaxFaults bounds them.                                                  *)
(***************************************************************************)
EXTENDS Naturals, FiniteSets

CONSTANTS
    Sessions,
    Calls,          \* client calls, each made once
    Op,             \* the operation of a call
    Target,         \* the session it names
    Deadlines,      \* which of timeout_ms and idle_timeout_ms the session has
    ExitCodes,      \* how a command may end by itself
    MaxActive,      \* max_active_sessions
    MaxCompleted,   \* max_completed_sessions
    MaxFaults,      \* bound on failing backend and ownership calls
    NoCall

ASSUME SessionAssumption ==
    /\ Op \in [Calls -> {"cancel", "dispose", "shutdown", "run", "io"}]
    /\ Target \in [Calls -> Sessions]
    /\ Deadlines \subseteq {"timeout", "idle_timeout"}
    /\ ExitCodes \subseteq {"zero", "nonzero", "xcpu"}
    /\ MaxActive \in Nat \ {0} /\ MaxCompleted \in Nat \ {0} /\ MaxFaults \in Nat
    /\ NoCall \notin Calls

VARIABLES
    starting,   \* _starting_sessions
    inmap,      \* the keys of _sessions
    gone,       \* _disposed_session_ids
    start,      \* per session, where its start() is
    proc,       \* the root process: none, running, or its exit status
    tree,       \* the process group or job has a living member
    owned,      \* registered with the master
    st,         \* lifecycle state
    mon,        \* where its monitor task is
    err,        \* the monitor's monitor_error
    reason,     \* completion_reason
    steps,      \* cancellation_steps
    drained,    \* the reader tasks have seen EOF
    result,     \* the reason in session.result
    ended,      \* completed_at_monotonic, as a rank: 0 while it is None
    disposed,   \* handle._disposed
    dtask,      \* dispose_task
    cpc,        \* where cancel_process, run for the lock holder, is
    lock,       \* operation_lock: the call that holds it
    call,       \* where each call is
    faults

startVars == <<starting, inmap, start>>
osVars == <<proc, tree, owned, drained>>
monVars == <<mon, err, result, ended>>
stopVars == <<reason, steps>>
opVars == <<cpc, lock, call>>
dispVars == <<disposed, dtask>>
vars == <<startVars, osVars, monVars, stopVars, opVars, dispVars, gone, st, faults>>

----------------------------------------------------------------------------
(* Lifecycle: core/lifecycle.py *)

States == {"created", "accepted", "starting", "running", "exiting", "cancelling",
           "draining", "completed", "failed", "disposed"}

_TRANSITIONS ==
    [x \in States |->
        CASE x = "created"    -> {"accepted", "running", "failed"}
          [] x = "accepted"   -> {"starting", "failed"}
          [] x = "starting"   -> {"running", "failed"}
          [] x = "running"    -> {"exiting", "cancelling", "draining", "completed", "failed"}
          [] x \in {"exiting", "cancelling"} -> {"draining", "failed"}
          [] x = "draining"   -> {"completed", "failed"}
          [] x \in {"completed", "failed"} -> {"disposed"}
          [] x = "disposed"   -> {}]

\* transition(): the conjunct is false where the code raises InvalidTransition.
transition(s, target) ==
    /\ target \in _TRANSITIONS[st[s]]
    /\ st' = [st EXCEPT ![s] = target]

Active == {s \in inmap : st[s] \notin {"completed", "failed", "disposed"}}
returncode(s) == proc[s] \notin {"none", "running"}

----------------------------------------------------------------------------
(* The backend.  kill_tree either ends every member of the tree, whose root
   is then reaped later, or fails and changes nothing.  interrupt and
   terminate only ask, and may fail.                                        *)

CanFail == faults < MaxFaults
Fails == CanFail /\ faults' = faults + 1
Works == UNCHANGED faults

kill_tree(s) == Works /\ tree' = [tree EXCEPT ![s] = FALSE]
kill_tree_fails(s) == Fails /\ tree[s] /\ UNCHANGED tree

\* The operating system: the root ends by itself or because it was killed,
\* descendants end, and the pipes reach EOF once no member holds them.
Exit(s) ==
    /\ proc[s] = "running"
    /\ \E c \in ExitCodes \cup {"nonzero"} :
        /\ tree[s] \/ c = "nonzero"
        /\ proc' = [proc EXCEPT ![s] = c]
    /\ \/ tree' = [tree EXCEPT ![s] = FALSE]
       \/ UNCHANGED tree
    /\ UNCHANGED <<startVars, owned, drained, monVars, stopVars, opVars, dispVars,
                   gone, st, faults>>

TreeEnds(s) ==
    /\ tree[s] /\ returncode(s)
    /\ tree' = [tree EXCEPT ![s] = FALSE]
    /\ UNCHANGED <<startVars, proc, owned, drained, monVars, stopVars, opVars, dispVars,
                   gone, st, faults>>

ReadersEOF(s) ==
    /\ mon[s] \notin {"none", "done"}
    /\ returncode(s) /\ ~drained[s]
    /\ drained' = [drained EXCEPT ![s] = TRUE]
    /\ UNCHANGED <<startVars, proc, tree, owned, monVars, stopVars, opVars, dispVars,
                   gone, st, faults>>

----------------------------------------------------------------------------
(* Pruning: called first by start, get, stats and list_sessions, and last by
   the monitor.                                                             *)

Prunable == {s \in inmap : st[s] \in {"completed", "failed"} /\ ended[s] > 0}

\* The oldest completed sessions beyond the limit.
Overflow(R) ==
    {s \in R : Cardinality({r \in R : ended[r] > ended[s]}) >= MaxCompleted}

_prune_completed_sessions(E) ==
    LET out == E \cup Overflow(Prunable \ E) IN
    /\ st' = [s \in Sessions |-> IF s \in out THEN "disposed" ELSE st[s]]
    /\ inmap' = inmap \ out

\* Whatever call prunes, at any time: the sessions E have outlived their TTL.
Sweep ==
    /\ \E E \in SUBSET Prunable :
        /\ E \cup Overflow(Prunable \ E) # {}
        /\ _prune_completed_sessions(E)
    /\ UNCHANGED <<starting, start, osVars, monVars, stopVars, opVars, dispVars, gone,
                   faults>>

\* get() has pruned before it looks the session up.
get(s) == Overflow(Prunable) = {} /\ s \in inmap

----------------------------------------------------------------------------
(* start(): admission and the reservation are one step (no await between). *)

\* Beyond the limit start() raises RESOURCE_LIMITED and leaves nothing behind.
Admit(s) ==
    /\ start[s] = "idle"
    /\ Overflow(Prunable) = {}
    /\ Cardinality(Active) + starting < MaxActive
    /\ starting' = starting + 1
    /\ start' = [start EXCEPT ![s] = "spawning"]
    /\ UNCHANGED <<inmap, osVars, monVars, stopVars, opVars, dispVars, gone, st, faults>>

\* backend.start runs as a task of its own: the process exists before start()
\* is resumed, or while a cancelled start() waits for the task to settle.
Spawn(s) ==
    /\ start[s] \in {"spawning", "settling"} /\ proc[s] = "none"
    /\ proc' = [proc EXCEPT ![s] = "running"]
    /\ tree' = [tree EXCEPT ![s] = TRUE]
    /\ UNCHANGED <<startVars, owned, drained, monVars, stopVars, opVars, dispVars, gone,
                   st, faults>>

\* Mutant: a start that fails keeps its slot.
StartFailedLeaking(s) ==
    /\ start[s] \in {"spawning", "settling"} /\ proc[s] = "none"
    /\ start' = [start EXCEPT ![s] = "failed"]
    /\ UNCHANGED <<starting, inmap, osVars, monVars, stopVars, opVars, dispVars, gone, st, faults>>

\* FileNotFoundError or OSError, or a settle deadline that cancels the task.
StartFailed(s) ==
    /\ start[s] \in {"spawning", "settling"} /\ proc[s] = "none"
    /\ starting' = starting - 1
    /\ start' = [start EXCEPT ![s] = "failed"]
    /\ UNCHANGED <<inmap, osVars, monVars, stopVars, opVars, dispVars, gone, st, faults>>

\* The process is registered with the master, the session enters the map and
\* takes over the reserved slot.
Register(s) ==
    /\ start[s] = "spawning" /\ proc[s] # "none"
    /\ owned' = [owned EXCEPT ![s] = TRUE]
    /\ inmap' = inmap \cup {s}
    /\ starting' = starting - 1
    /\ transition(s, "accepted")
    /\ start' = [start EXCEPT ![s] = "accepted"]
    /\ UNCHANGED <<proc, tree, drained, monVars, stopVars, opVars, dispVars, gone, faults>>

\* The registration is refused, or its acknowledgement never comes.
RegisterFails(s) ==
    /\ start[s] = "spawning" /\ proc[s] # "none"
    /\ Fails
    /\ \E late \in BOOLEAN : owned' = [owned EXCEPT ![s] = late]
    /\ starting' = starting - 1
    /\ start' = [start EXCEPT ![s] = "cleanup"]
    /\ UNCHANGED <<inmap, proc, tree, drained, monVars, stopVars, opVars, dispVars, gone, st>>

Announce(s) ==
    /\ start[s] = "accepted"
    /\ "starting" \in _TRANSITIONS[st[s]] /\ "running" \in _TRANSITIONS["starting"]
    /\ st' = [st EXCEPT ![s] = "running"]
    /\ start' = [start EXCEPT ![s] = "announced"]
    /\ UNCHANGED <<starting, inmap, osVars, monVars, stopVars, opVars, dispVars, gone, faults>>

\* The monitor task is created and start() returns the session.
Return(s) ==
    /\ start[s] = "announced"
    /\ mon' = [mon EXCEPT ![s] = "wait"]
    /\ start' = [start EXCEPT ![s] = "returned"]
    /\ UNCHANGED <<starting, inmap, osVars, err, result, ended, stopVars, opVars, dispVars,
                   gone, st, faults>>

\* The request that owns start() is cancelled at one of its awaits.
CancelStart(s) ==
    \/ /\ start[s] = "spawning"
       /\ start' = [start EXCEPT ![s] = "settling"]
       /\ UNCHANGED <<starting, inmap, osVars, monVars, stopVars, opVars, dispVars, gone,
                      st, faults>>
    \/ /\ start[s] \in {"accepted", "announced"}
       /\ inmap' = inmap \ {s}
       /\ start' = [start EXCEPT ![s] = "cleanup"]
       /\ UNCHANGED <<starting, osVars, monVars, stopVars, opVars, dispVars, gone, st,
                      faults>>

\* Mutant: the slot is released by the handler and again by the cleanup.
AbandonStartReleasing(s) ==
    /\ start[s] = "cleanup" \/ (start[s] = "settling" /\ proc[s] # "none")
    /\ starting' = starting - 1
    /\ start' = [start EXCEPT ![s] = "aborted"]
    /\ kill_tree(s)
    /\ disposed' = [disposed EXCEPT ![s] = TRUE]
    /\ owned' = [owned EXCEPT ![s] = FALSE]
    /\ UNCHANGED <<inmap, proc, drained, monVars, stopVars, opVars, dtask, gone, st>>

\* _cleanup_abandoned_start: kill, reap, dispose, give the ownership back.  A
\* start cancelled before registration holds its slot until here.
AbandonStart(s) ==
    /\ \/ start[s] = "settling" /\ proc[s] # "none" /\ starting' = starting - 1
       \/ start[s] = "cleanup" /\ UNCHANGED starting
    /\ start' = [start EXCEPT ![s] = "aborted"]
    /\ \/ /\ kill_tree(s)
          /\ disposed' = [disposed EXCEPT ![s] = TRUE]
          /\ owned' = [owned EXCEPT ![s] = FALSE]
       \/ /\ kill_tree_fails(s)
          /\ UNCHANGED <<disposed, owned>>
    /\ UNCHANGED <<inmap, proc, drained, monVars, stopVars, opVars, dtask, gone, st>>

----------------------------------------------------------------------------
(* _monitor *)

Goto(s, m) == mon' = [mon EXCEPT ![s] = m]
SetError(s, e) == err' = [err EXCEPT ![s] = e]

\* The root is seen to have exited, before or after a deadline killed it:
\* running -> exiting -> draining, or cancelling -> draining.
MonitorExited(s) ==
    /\ mon[s] \in {"wait", "reap"}
    /\ returncode(s)
    /\ \/ "draining" \in _TRANSITIONS[st[s]]
       \/ st[s] = "running" /\ "draining" \in _TRANSITIONS["exiting"]
    /\ st' = [st EXCEPT ![s] = "draining"]
    /\ Goto(s, "drain")
    /\ UNCHANGED <<startVars, osVars, err, result, ended, stopVars, opVars, dispVars, gone,
                   faults>>

\* _wait_reason returns a deadline: it overwrites completion_reason, and the
\* step is recorded before the event is awaited.
MonitorDeadline(s) ==
    /\ mon[s] = "wait"
    /\ \E d \in Deadlines : reason' = [reason EXCEPT ![s] = d]
    /\ steps' = [steps EXCEPT ![s] = @ \cup {"kill_tree"}]
    /\ Goto(s, "kill")
    /\ UNCHANGED <<startVars, osVars, err, result, ended, opVars, dispVars, gone, st, faults>>

\* Mutant: an error of kill_tree ends the monitor task.
MonitorKillRaises(s) ==
    /\ mon[s] = "kill"
    /\ \/ kill_tree(s) /\ Goto(s, "reap")
       \/ kill_tree_fails(s) /\ Goto(s, "done")
    /\ UNCHANGED <<startVars, proc, owned, drained, err, result, ended, stopVars, opVars,
                   dispVars, gone, st>>

MonitorKill(s) ==
    /\ mon[s] = "kill"
    /\ \/ kill_tree(s) /\ Goto(s, "reap") /\ UNCHANGED err
       \/ kill_tree_fails(s) /\ Goto(s, "dispose") /\ SetError(s, "INTERNAL_ERROR")
    /\ UNCHANGED <<startVars, proc, owned, drained, result, ended, stopVars, opVars,
                   dispVars, gone, st>>

MonitorReapTimeout(s) ==
    /\ mon[s] = "reap" /\ proc[s] = "running"
    /\ SetError(s, "TERMINATION_FAILED")
    /\ Goto(s, "dispose")
    /\ UNCHANGED <<startVars, osVars, result, ended, stopVars, opVars, dispVars, gone, st,
                   faults>>

MonitorDrained(s) ==
    /\ mon[s] = "drain" /\ drained[s]
    /\ Goto(s, "dispose")
    /\ UNCHANGED <<startVars, osVars, err, result, ended, stopVars, opVars, dispVars, gone,
                   st, faults>>

\* A descendant keeps the pipes open past the drain timeout.
MonitorDrainTimeout(s) ==
    /\ mon[s] = "drain" /\ ~drained[s]
    /\ steps' = [steps EXCEPT ![s] = @ \cup {"kill_tree"}]
    /\ Goto(s, "drainkill")
    /\ UNCHANGED <<startVars, osVars, err, result, ended, reason, opVars, dispVars, gone,
                   st, faults>>

MonitorDrainKill(s) ==
    /\ mon[s] = "drainkill"
    /\ \/ kill_tree(s) /\ SetError(s, "DRAIN_TIMEOUT")
       \/ kill_tree_fails(s) /\ SetError(s, "INTERNAL_ERROR")
    /\ Goto(s, "dispose")
    /\ UNCHANGED <<startVars, proc, owned, drained, result, ended, stopVars, opVars,
                   dispVars, gone, st>>

\* _dispose_session_backend up to its await: nothing left to do, or the one
\* dispose task of the session is created and joined.  A task that failed
\* stays and fails every later join.
DisposeReleased(s) == disposed[s] /\ ~owned[s]
DisposeJoin(s) == dtask' = [dtask EXCEPT ![s] = IF @ = "none" THEN "run" ELSE @]

\* Mutant: a session whose output is drained is not disposed of before its end.
MonitorDisposeLater(s) ==
    /\ mon[s] = "dispose" /\ Goto(s, "finish")
    /\ UNCHANGED <<startVars, osVars, err, result, ended, stopVars, opVars, dispVars, gone,
                   st, faults>>

MonitorDispose(s) ==
    /\ mon[s] = "dispose"
    /\ \/ DisposeReleased(s) /\ Goto(s, "finish") /\ UNCHANGED dtask
       \/ ~DisposeReleased(s) /\ DisposeJoin(s) /\ Goto(s, "join")
    /\ UNCHANGED <<startVars, osVars, err, result, ended, stopVars, opVars, disposed, gone,
                   st, faults>>

\* The task ended well, or it failed, or the deadline passed; an error that
\* is already set is kept.  The readers are cancelled in every case.
MonitorJoined(s) ==
    /\ mon[s] = "join"
    /\ \E e \in {"none", "INTERNAL_ERROR", "TERMINATION_FAILED"} :
        /\ e = "none" => dtask[s] = "done"
        /\ e = "INTERNAL_ERROR" => dtask[s] = "failed"
        /\ e = "TERMINATION_FAILED" => dtask[s] \in {"run", "unregister"}
        /\ err' = [err EXCEPT ![s] = IF @ = "none" THEN e ELSE @]
    /\ Goto(s, "finish")
    /\ UNCHANGED <<startVars, osVars, result, ended, stopVars, opVars, dispVars, gone, st,
                   faults>>

\* The OS says the CPU limit killed the command: an event, then an error.
MonitorInferLimit(s) ==
    /\ mon[s] = "finish" /\ err[s] = "none" /\ proc[s] = "xcpu"
    /\ SetError(s, "RESOURCE_LIMITED")
    /\ UNCHANGED <<startVars, osVars, mon, result, ended, stopVars, opVars, dispVars, gone,
                   st, faults>>

Rank == Cardinality({s \in Sessions : ended[s] > 0}) + 1

\* Mutant: the exit code decides before completion_reason is looked at.
MonitorCompleteByExit(s) ==
    /\ mon[s] = "finish" /\ err[s] = "none" /\ proc[s] # "xcpu"
    /\ result' = [result EXCEPT ![s] =
         IF proc[s] = "zero" THEN "success"
         ELSE IF reason[s] # "none" THEN reason[s] ELSE "failed"]
    /\ transition(s, "completed")
    /\ ended' = [ended EXCEPT ![s] = Rank]
    /\ Goto(s, "completing")
    /\ UNCHANGED <<startVars, osVars, err, stopVars, opVars, dispVars, gone, faults>>

\* Without an error the result and the state completed are set in one step.
MonitorComplete(s) ==
    /\ mon[s] = "finish" /\ err[s] = "none" /\ proc[s] # "xcpu"
    /\ result' = [result EXCEPT ![s] =
         IF reason[s] # "none" THEN reason[s]
         ELSE IF proc[s] = "zero" THEN "success" ELSE "failed"]
    /\ transition(s, "completed")
    /\ ended' = [ended EXCEPT ![s] = Rank]
    /\ Goto(s, "completing")
    /\ UNCHANGED <<startVars, osVars, err, stopVars, opVars, dispVars, gone, faults>>

\* With one, failed is visible while session_error is awaited ...
MonitorFail(s) ==
    /\ mon[s] = "finish" /\ err[s] # "none"
    /\ transition(s, "failed")
    /\ Goto(s, "failing")
    /\ UNCHANGED <<startVars, osVars, err, result, ended, stopVars, opVars, dispVars, gone,
                   faults>>

\* ... and only then the result is assigned.
MonitorReport(s) ==
    /\ mon[s] = "failing"
    /\ result' = [result EXCEPT ![s] =
         IF err[s] \in {"DRAIN_TIMEOUT", "RESOURCE_LIMITED"} THEN "resource_limited"
         ELSE "failed"]
    /\ ended' = [ended EXCEPT ![s] = Rank]
    /\ Goto(s, "completing")
    /\ UNCHANGED <<startVars, osVars, err, stopVars, opVars, dispVars, gone, st, faults>>

MonitorDone(s) ==
    /\ mon[s] = "completing"
    /\ Goto(s, "done")
    /\ _prune_completed_sessions({})
    /\ UNCHANGED <<starting, start, osVars, err, result, ended, stopVars, opVars, dispVars,
                   gone, faults>>

\* Mutant: the ownership is given back although the tree was not killed.
DisposeTaskFinally(s) ==
    /\ dtask[s] = "run"
    /\ \/ kill_tree(s) \/ kill_tree_fails(s)
    /\ disposed' = [disposed EXCEPT ![s] = TRUE]
    /\ owned' = [owned EXCEPT ![s] = FALSE]
    /\ dtask' = [dtask EXCEPT ![s] = "done"]
    /\ UNCHANGED <<startVars, proc, drained, monVars, stopVars, opVars, gone, st>>

\* The dispose task: backend.dispose, then the ownership is given back, but
\* only for a handle that was disposed.
DisposeTask(s) ==
    \/ /\ dtask[s] = "run"
       /\ \/ /\ kill_tree(s)
             /\ disposed' = [disposed EXCEPT ![s] = TRUE]
             /\ dtask' = [dtask EXCEPT ![s] = IF owned[s] THEN "unregister" ELSE "done"]
          \/ /\ kill_tree_fails(s)
             /\ dtask' = [dtask EXCEPT ![s] = "failed"]
             /\ UNCHANGED disposed
       /\ UNCHANGED <<startVars, proc, owned, drained, monVars, stopVars, opVars, gone, st>>
    \/ /\ dtask[s] = "unregister"
       /\ \/ /\ Works
             /\ owned' = [owned EXCEPT ![s] = FALSE]
             /\ dtask' = [dtask EXCEPT ![s] = "done"]
          \/ /\ Fails
             /\ dtask' = [dtask EXCEPT ![s] = "failed"]
             /\ UNCHANGED owned
       /\ UNCHANGED <<startVars, proc, tree, drained, monVars, stopVars, opVars, disposed,
                      gone, st>>

----------------------------------------------------------------------------
(* Client calls.  cancel, dispose and the input operations serialise on the
   session's operation_lock; dispose cancels first, and shutdown disposes
   every session in the map and may give a dispose up at its own deadline.
   run is CommandRunner (runtime/executor.py): it waits for the session it
   started and disposes of it, or shuts the manager down when its caller is
   cancelled.                                                               *)

IsDispose(c) == Op[c] \in {"dispose", "shutdown", "run"}
Step(c, pc) == call' = [call EXCEPT ![c] = pc]

\* dispose of a session that has ended skips cancel and wait.
Begin(c) ==
    LET s == Target[c] IN
    /\ call[c] = "idle" /\ Op[c] # "run"
    /\ get(s)
    /\ IsDispose(c) => s \notin gone
    /\ IF IsDispose(c) /\ st[s] \in {"completed", "failed", "disposed"}
       THEN Step(c, "dispose")
       ELSE Step(c, "lock")
    /\ UNCHANGED <<startVars, osVars, monVars, stopVars, cpc, lock, dispVars, gone, st,
                   faults>>

\* run_events: wait() without a timeout, then dispose, or shutdown.
Run(c) ==
    LET s == Target[c] IN
    /\ \/ call[c] = "idle" /\ Op[c] = "run" /\ start[s] = "returned" /\ Step(c, "running")
       \/ call[c] = "running" /\ mon[s] = "done" /\ Step(c, "dispose")
    /\ UNCHANGED <<startVars, osVars, monVars, stopVars, cpc, lock, dispVars, gone, st,
                   faults>>

RunCancelled(c) ==
    /\ call[c] = "running"
    /\ Step(c, IF Target[c] \in Active THEN "lock" ELSE "dispose")
    /\ UNCHANGED <<startVars, osVars, monVars, stopVars, cpc, lock, dispVars, gone, st,
                   faults>>

\* What a call does once cancel has returned or raised.
AfterCancel(c) == IF IsDispose(c) THEN "wait" ELSE "done"

_require_active(s) == s \in inmap /\ st[s] \in {"running", "cancelling"}

\* write, close_stdin, resize and interrupt: a bounded backend call under the
\* lock, whose own effect is not followed here.
Input(c) ==
    LET s == Target[c] IN
    \/ /\ call[c] = "lock" /\ Op[c] = "io" /\ lock[s] = NoCall
       /\ IF _require_active(s)
          THEN Step(c, "held") /\ lock' = [lock EXCEPT ![s] = c]
          ELSE Step(c, "raised") /\ UNCHANGED lock
       /\ UNCHANGED <<startVars, osVars, monVars, stopVars, cpc, dispVars, gone, st, faults>>
    \/ /\ call[c] = "held"
       /\ Step(c, "done")
       /\ lock' = [lock EXCEPT ![s] = NoCall]
       /\ UNCHANGED <<startVars, osVars, monVars, stopVars, cpc, dispVars, gone, st, faults>>

\* _cancel_locked up to cancel_process: a session that is being stopped or
\* has ended is left alone, one that is not active raises.
CancelDeclined(c) ==
    LET s == Target[c] IN
    /\ call[c] = "lock" /\ Op[c] # "io" /\ lock[s] = NoCall
    /\ steps[s] # {} \/ st[s] \in {"completed", "failed"} \/ ~_require_active(s)
    /\ Step(c, AfterCancel(c))
    /\ UNCHANGED <<startVars, osVars, monVars, stopVars, cpc, lock, dispVars, gone, st,
                   faults>>

CancelAccepted(c) ==
    LET s == Target[c] IN
    /\ call[c] = "lock" /\ Op[c] # "io" /\ lock[s] = NoCall
    /\ steps[s] = {} /\ _require_active(s)
    /\ st' = [st EXCEPT ![s] = "cancelling"]
    /\ reason' = [reason EXCEPT ![s] = "cancelled"]
    /\ lock' = [lock EXCEPT ![s] = c]
    /\ cpc' = [cpc EXCEPT ![s] =
         IF returncode(s) THEN "kill" ELSE IF IsDispose(c) THEN "terminate" ELSE "interrupt"]
    /\ Step(c, "cancelling")
    /\ UNCHANGED <<startVars, osVars, monVars, steps, dispVars, gone, faults>>

----------------------------------------------------------------------------
(* cancel_process: interrupt, terminate, kill_tree, each with its grace *)

CancelStep(s, name) == steps' = [steps EXCEPT ![s] = @ \cup {name}]
Escalate(s, pc) == cpc' = [cpc EXCEPT ![s] = pc]

CancelSignal(s) ==
    /\ \/ /\ cpc[s] = "interrupt" /\ CancelStep(s, "interrupt")
          /\ \/ Works /\ Escalate(s, "interruptGrace")
             \/ Fails /\ Escalate(s, "cleanup")
       \/ /\ cpc[s] = "terminate" /\ CancelStep(s, "terminate")
          /\ \/ Works /\ Escalate(s, "terminateGrace")
             \/ Fails /\ Escalate(s, "cleanup")
    /\ UNCHANGED <<startVars, osVars, monVars, reason, lock, call, dispVars, gone, st>>

\* The root exited within the grace: the tree is still killed.  Otherwise the
\* next step is taken.
CancelGrace(s) ==
    /\ \/ cpc[s] \in {"interruptGrace", "terminateGrace"} /\ returncode(s) /\ Escalate(s, "kill")
       \/ cpc[s] = "interruptGrace" /\ ~returncode(s) /\ Escalate(s, "terminate")
       \/ cpc[s] = "terminateGrace" /\ ~returncode(s) /\ Escalate(s, "kill")
       \/ cpc[s] = "killGrace" /\ ~returncode(s) /\ Escalate(s, "cleanup")
    /\ UNCHANGED <<startVars, osVars, monVars, stopVars, lock, call, dispVars, gone, st,
                   faults>>

CancelKill(s) ==
    /\ cpc[s] \in {"kill", "cleanup"}
    /\ CancelStep(s, "kill_tree")
    /\ \/ kill_tree(s) /\ Escalate(s, IF cpc[s] = "kill" THEN "killGrace" ELSE "reap")
       \/ kill_tree_fails(s) /\ Escalate(s, IF cpc[s] = "kill" THEN "cleanup" ELSE "reap")
    /\ UNCHANGED <<startVars, proc, owned, drained, monVars, reason, lock, call, dispVars,
                   gone, st>>

\* Mutant: cancel leaves without releasing operation_lock.
CancelEndHolding(s) ==
    /\ \/ cpc[s] = "killGrace" /\ returncode(s)
       \/ cpc[s] = "reap"
    /\ Escalate(s, "none")
    /\ Step(lock[s], AfterCancel(lock[s]))
    /\ UNCHANGED <<startVars, osVars, monVars, stopVars, lock, dispVars, gone, st, faults>>

\* cancel returns the steps, or raises TERMINATION_FAILED after its cleanup.
CancelEnd(s) ==
    /\ \/ cpc[s] = "killGrace" /\ returncode(s)
       \/ cpc[s] = "reap"
    /\ Escalate(s, "none")
    /\ Step(lock[s], AfterCancel(lock[s]))
    /\ lock' = [lock EXCEPT ![s] = NoCall]
    /\ UNCHANGED <<startVars, osVars, monVars, stopVars, dispVars, gone, st, faults>>

----------------------------------------------------------------------------
(* The rest of dispose *)

\* wait() looks the session up once more, then waits for the monitor, if
\* there is one, for a bounded time.
DisposeWait(c) ==
    /\ \/ /\ call[c] = "wait" /\ Overflow(Prunable) = {}
          /\ Step(c, IF Target[c] \in inmap THEN "await" ELSE "raised")
       \/ call[c] = "await" /\ Step(c, "dispose")
    /\ UNCHANGED <<startVars, osVars, monVars, stopVars, cpc, lock, dispVars, gone, st,
                   faults>>

DisposeBackend(c) ==
    LET s == Target[c] IN
    /\ \/ call[c] = "dispose" /\ DisposeReleased(s) /\ Step(c, "forget") /\ UNCHANGED dtask
       \/ call[c] = "dispose" /\ ~DisposeReleased(s) /\ DisposeJoin(s) /\ Step(c, "join")
       \/ call[c] = "join" /\ dtask[s] = "done" /\ Step(c, "forget") /\ UNCHANGED dtask
       \/ call[c] = "join" /\ dtask[s] # "done" /\ Step(c, "raised") /\ UNCHANGED dtask
    /\ UNCHANGED <<startVars, osVars, monVars, stopVars, cpc, lock, disposed, gone, st,
                   faults>>

\* A session that has not ended by now cannot become disposed: transition
\* raises and the session stays in the map.
DisposeForget(c) ==
    LET s == Target[c] IN
    /\ call[c] = "forget"
    /\ \/ /\ \/ transition(s, "disposed")
             \/ st[s] = "disposed" /\ UNCHANGED st
          /\ inmap' = inmap \ {s}
          /\ gone' = gone \cup {s}
          /\ Step(c, "done")
       \/ /\ st[s] # "disposed" /\ "disposed" \notin _TRANSITIONS[st[s]]
          /\ Step(c, "raised")
          /\ UNCHANGED <<st, inmap, gone>>
    /\ UNCHANGED <<starting, start, osVars, monVars, stopVars, cpc, lock, dispVars, faults>>

\* shutdown()'s deadline cancels the dispose tasks that are left.
ShutdownGivesUp(c) ==
    /\ Op[c] \in {"shutdown", "run"}
    /\ call[c] \in {"lock", "wait", "await", "join"}
    /\ Step(c, "raised")
    /\ UNCHANGED <<startVars, osVars, monVars, stopVars, cpc, lock, dispVars, gone, st,
                   faults>>

----------------------------------------------------------------------------
(* The specification *)

Init ==
    /\ starting = 0 /\ inmap = {} /\ gone = {} /\ faults = 0
    /\ start = [s \in Sessions |-> "idle"]
    /\ proc = [s \in Sessions |-> "none"]
    /\ tree = [s \in Sessions |-> FALSE]
    /\ owned = [s \in Sessions |-> FALSE]
    /\ st = [s \in Sessions |-> "created"]
    /\ mon = [s \in Sessions |-> "none"]
    /\ err = [s \in Sessions |-> "none"]
    /\ reason = [s \in Sessions |-> "none"]
    /\ steps = [s \in Sessions |-> {}]
    /\ drained = [s \in Sessions |-> FALSE]
    /\ result = [s \in Sessions |-> "none"]
    /\ ended = [s \in Sessions |-> 0]
    /\ disposed = [s \in Sessions |-> FALSE]
    /\ dtask = [s \in Sessions |-> "none"]
    /\ cpc = [s \in Sessions |-> "none"]
    /\ lock = [s \in Sessions |-> NoCall]
    /\ call = [c \in Calls |-> "idle"]

OS(s) == Exit(s) \/ TreeEnds(s) \/ ReadersEOF(s)

StartStep(s) ==
    \/ Admit(s) \/ Spawn(s) \/ StartFailed(s) \/ Register(s) \/ RegisterFails(s)
    \/ Announce(s) \/ Return(s) \/ CancelStart(s) \/ AbandonStart(s)

MonitorStep(s) ==
    \/ MonitorExited(s) \/ MonitorKill(s) \/ MonitorReapTimeout(s)
    \/ MonitorDrained(s) \/ MonitorDrainTimeout(s) \/ MonitorDrainKill(s)
    \/ MonitorDispose(s) \/ MonitorJoined(s) \/ MonitorInferLimit(s) \/ MonitorComplete(s)
    \/ MonitorFail(s) \/ MonitorReport(s) \/ MonitorDone(s)

CancelProcess(s) == CancelSignal(s) \/ CancelGrace(s) \/ CancelKill(s) \/ CancelEnd(s)

CallStep(c) ==
    \/ Run(c) \/ Input(c) \/ CancelDeclined(c) \/ CancelAccepted(c) \/ DisposeWait(c)
    \/ DisposeBackend(c) \/ DisposeForget(c) \/ ShutdownGivesUp(c)

Next ==
    \/ \E s \in Sessions :
        OS(s) \/ StartStep(s) \/ MonitorStep(s) \/ MonitorDeadline(s) \/ DisposeTask(s)
        \/ CancelProcess(s)
    \/ \E c \in Calls : Begin(c) \/ CallStep(c) \/ RunCancelled(c)
    \/ Sweep

\* The event loop runs every ready task and fires every timer; the kernel
\* reaps a killed process.  Commands need not exit, clients need not call,
\* deadlines need not be set.
Fairness ==
    /\ \A s \in Sessions :
        /\ WF_vars(MonitorStep(s)) /\ WF_vars(DisposeTask(s)) /\ WF_vars(CancelProcess(s))
        /\ WF_vars(~tree[s] /\ Exit(s))
    /\ \A c \in Calls : WF_vars(CallStep(c))

Spec == Init /\ [][Next]_vars /\ Fairness

----------------------------------------------------------------------------
(* Properties *)

\* Every variable keeps its shape.
TypeOK ==
    /\ starting \in Nat /\ inmap \subseteq Sessions /\ gone \subseteq Sessions
    /\ start \in [Sessions -> {"idle", "spawning", "settling", "failed", "accepted",
                               "announced", "returned", "cleanup", "aborted"}]
    /\ proc \in [Sessions -> {"none", "running"} \cup ExitCodes \cup {"nonzero"}]
    /\ tree \in [Sessions -> BOOLEAN] /\ owned \in [Sessions -> BOOLEAN]
    /\ drained \in [Sessions -> BOOLEAN] /\ disposed \in [Sessions -> BOOLEAN]
    /\ st \in [Sessions -> States]
    /\ mon \in [Sessions -> {"none", "wait", "kill", "reap", "drain", "drainkill", "dispose",
                             "join", "finish", "failing", "completing", "done"}]
    /\ err \in [Sessions -> {"none", "INTERNAL_ERROR", "TERMINATION_FAILED",
                             "DRAIN_TIMEOUT", "RESOURCE_LIMITED"}]
    /\ reason \in [Sessions -> {"none", "cancelled"} \cup Deadlines]
    /\ steps \in [Sessions -> SUBSET {"interrupt", "terminate", "kill_tree"}]
    /\ result \in [Sessions -> {"none", "success", "failed", "cancelled", "timeout",
                                "idle_timeout", "resource_limited"}]
    /\ ended \in [Sessions -> Nat]
    /\ dtask \in [Sessions -> {"none", "run", "unregister", "done", "failed"}]
    /\ cpc \in [Sessions -> {"none", "interrupt", "interruptGrace", "terminate",
                             "terminateGrace", "kill", "killGrace", "cleanup", "reap"}]
    /\ lock \in [Sessions -> Calls \cup {NoCall}]
    /\ call \in [Calls -> {"idle", "running", "lock", "held", "cancelling", "wait", "await", "dispose",
                           "join", "forget", "done", "raised"}]
    /\ faults \in 0 .. MaxFaults

\* The master keeps a session's process tree until the tree is dead, whichever
\* of monitor, dispose and abandoned start disposes of it and whatever fails:
\* "unregisters only after native cleanup reports a fully disposed tree".  And
\* a start that was abandoned leaves no tree behind unless a kill failed.
OwnedUntilDead ==
    \A s \in Sessions :
        /\ start[s] \in {"accepted", "announced", "returned"} /\ tree[s] => owned[s]
        /\ start[s] \in {"failed", "aborted"} /\ tree[s] => faults > 0

\* Every path out of start() gives its reserved slot back exactly once, and
\* admission never exceeds max_active_sessions, however starts, cancelled
\* starts and completions interleave.
SlotAccounting ==
    /\ starting = Cardinality({s \in Sessions : start[s] \in {"spawning", "settling"}})
    /\ Cardinality(Active) + starting <= MaxActive

\* A session that was cancelled or ran into a deadline never tells a waiter
\* that its command ended by itself, and what stopped it does not change once
\* it has been reported, though calls still queue on the lock.
StopReasonReported ==
    \A s \in Sessions :
        result[s] # "none" /\ reason[s] # "none" /\ err[s] = "none" => result[s] = reason[s]

\* What the manager tells of a session refines SessionContract: one end, one
\* result, a clean result only for a dead tree, and only an ended session is
\* disposed, though dispose gives up waiting for a monitor that is draining
\* and failed becomes visible before the result.
Life(s) ==
    CASE st[s] = "created" \/ start[s] \in {"cleanup", "aborted"} -> "absent"
      [] st[s] \in {"completed", "failed"} -> "ended"
      [] st[s] = "disposed" -> "gone"
      [] OTHER -> "active"

Contract ==
    INSTANCE SessionContract WITH
        life <- [s \in Sessions |-> Life(s)], report <- result, alive <- tree

RefinesContract == Contract!Spec

\* A deadline always ends the session with a result, even when the tree cannot
\* be killed; an accepted cancel ends it unless a backend call fails.
StoppedSessionEnds ==
    \A s \in Sessions :
        (start[s] = "returned" /\ reason[s] # "none")
            ~> (result[s] # "none" \/ (reason[s] = "cancelled" /\ faults > 0))

\* Every client call returns or raises: no wait on the lock, the monitor or
\* the dispose task is for ever, whatever fails.  Only run waits for as long as
\* its command takes.
CallsEnd == []<>(\A c \in Calls : call[c] \in {"idle", "running", "done", "raised"})

=============================================================================
