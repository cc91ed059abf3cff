----------------------------- MODULE Ownership ------------------------------
(***************************************************************************)
(* The ownership protocol between a worker and the control master, on      *)
(* POSIX: ProcessOwnershipClient (service/ownership.py), the master's side *)
(* of the channel and its cleanup of a worker's process groups             *)
(* (service/master.py).  The channel is a duplex pipe: two FIFO queues.    *)
(* The client holds its lock over a request and its answer, so at most one *)
(* request is outstanding; one that timed out leaves a late answer behind. *)
(*                                                                         *)
(* A process group is named by the process that leads it.  Its number may  *)
(* be reused once the group is empty.                                      *)
(***************************************************************************)
EXTENDS Naturals, Sequences, FiniteSets

CONSTANTS
    Procs,        \* the process groups the sessions of all workers start
    NoProc,       \* nobody holds the client's lock, no record is being cleaned up
    MaxRecords    \* executor.workers: the registry's capacity

ASSUME OwnershipAssumption == NoProc \notin Procs /\ MaxRecords \in Nat \ {0}

VARIABLES
    group,      \* what the operating system runs under the group's number
    handle,     \* where the worker's session is with its ProcessHandle
    calling,    \* the process whose request holds the client's lock
    requests,   \* worker to master: <<operation, process>>
    acks,       \* master to worker: <<operation, process, accepted>>
    owned,      \* _owned_processes: the records the master holds
    exposed,    \* processes whose registration the worker saw acknowledged
    target,     \* the cleanup has checked the record of this process
    survived    \* history: processes the cleanup could not kill

channel == <<calling, requests, acks>>
cleaning == <<target, survived>>
ownershipVars == <<group, handle, channel, owned, exposed, cleaning>>

\* leaderless: the leader has exited and descendants keep the group; stranger:
\* the number was reused by a group whose leader lives, or has exited.
Groups == {"none", "running", "leaderless", "empty", "stranger", "strangers"}
Handles == {"idle", "spawned", "registering", "running", "killing", "discarding",
            "killed", "unregistering", "stuck", "released", "lost"}

Alive(p) == group[p] \in {"running", "leaderless"}

\* Sessions that hold one of the worker's executor threads.
Busy == {p \in Procs : handle[p] \notin {"idle", "stuck", "released", "lost"}}

-----------------------------------------------------------------------------
(* The worker: SessionManager's use of the client.                           *)

Spawn(p) ==
    /\ handle[p] = "idle"
    /\ Cardinality(Busy) < MaxRecords
    /\ handle' = [handle EXCEPT ![p] = "spawned"]
    /\ group' = [group EXCEPT ![p] = "running"]
    /\ UNCHANGED <<channel, owned, exposed, cleaning>>

\* register refuses a handle without a birth identity before it sends anything.
RegisterRefused(p) ==
    /\ handle[p] = "spawned"
    /\ handle' = [handle EXCEPT ![p] = "discarding"]
    /\ UNCHANGED <<group, channel, owned, exposed, cleaning>>

\* _request: the lock is taken and the message sent.
Send(operation, p) ==
    /\ calling = NoProc
    /\ calling' = p
    /\ requests' = Append(requests, <<operation, p>>)

Register(p) ==
    /\ handle[p] = "spawned"
    /\ Send("register", p)
    /\ handle' = [handle EXCEPT ![p] = "registering"]
    /\ UNCHANGED <<group, acks, owned, exposed, cleaning>>

Unregister(p) ==
    /\ handle[p] = "killed"
    /\ Send("unregister", p)
    /\ handle' = [handle EXCEPT ![p] = "unregistering"]
    /\ UNCHANGED <<group, acks, owned, exposed, cleaning>>

Operation(p) == IF handle[p] = "registering" THEN "register" ELSE "unregister"

\* The session after its request: a start goes on or kills what it spawned, a
\* disposal ends or leaves its record behind (the failed task is kept).
Answered(p, accepted) ==
    IF handle[p] = "registering"
    THEN /\ handle' = [handle EXCEPT ![p] = IF accepted THEN "running" ELSE "killing"]
         /\ exposed' = IF accepted THEN exposed \cup {p} ELSE exposed
    ELSE /\ handle' = [handle EXCEPT ![p] = IF accepted THEN "released" ELSE "stuck"]
         /\ UNCHANGED exposed

\* recv in _request: answers with another request id are dropped.
Receive(p) ==
    /\ calling = p /\ acks # <<>>
    /\ acks' = Tail(acks)
    /\ IF Head(acks)[1] = Operation(p) /\ Head(acks)[2] = p
       THEN calling' = NoProc /\ Answered(p, Head(acks)[3])
       ELSE UNCHANGED <<calling, handle, exposed>>
    /\ UNCHANGED <<group, requests, owned, cleaning>>

\* No answer within the timeout, or the pipe is broken: _request raises.
RequestFails(p) ==
    /\ calling = p
    /\ calling' = NoProc
    /\ Answered(p, FALSE)
    /\ UNCHANGED <<group, requests, acks, owned, cleaning>>

\* A session is done with its command: it exited, or is to be stopped.
Dispose(p) ==
    /\ handle[p] = "running"
    /\ handle' = [handle EXCEPT ![p] = "killing"]
    /\ UNCHANGED <<group, channel, owned, exposed, cleaning>>

\* kill_tree succeeds: os.killpg on the number of the leader, whatever group has
\* it now; that there is none is no error.
KillTree(p) ==
    /\ handle[p] \in {"killing", "discarding"}
    /\ group' = [group EXCEPT ![p] = "empty"]
    /\ handle' = [handle EXCEPT ![p] = IF @ = "killing" THEN "killed" ELSE "released"]
    /\ UNCHANGED <<channel, owned, exposed, cleaning>>

\* killpg is refused: the disposal fails and nothing is unregistered.
KillTreeFails(p) ==
    /\ handle[p] \in {"killing", "discarding"} /\ group[p] # "empty"
    /\ handle' = [handle EXCEPT ![p] = "stuck"]
    /\ UNCHANGED <<group, channel, owned, exposed, cleaning>>

SessionStep(p) ==
    \/ RegisterRefused(p) \/ Register(p) \/ Unregister(p) \/ Receive(p)
    \/ Dispose(p) \/ KillTree(p)

\* The worker process is gone, with its threads and its end of the pipe.
AbandonHandles ==
    /\ handle' = [p \in Procs |-> IF handle[p] = "idle" THEN "idle" ELSE "lost"]
    /\ calling' = NoProc
    /\ acks' = <<>>

-----------------------------------------------------------------------------
(* The operating system.                                                     *)

LeaderExits(p) ==
    /\ group[p] = "running"
    /\ group' = [group EXCEPT ![p] = "leaderless"]
    /\ UNCHANGED <<handle, channel, owned, exposed, cleaning>>

GroupEmpties(p) ==
    /\ Alive(p)
    /\ group' = [group EXCEPT ![p] = "empty"]
    /\ UNCHANGED <<handle, channel, owned, exposed, cleaning>>

\* The number is given to a new group, whose leader may exit before the others.
\* Only a kill can tell, so it is as well to wait until a session is to kill, or
\* until the worker is gone.
NumberReused(p) ==
    /\ handle[p] \in {"killing", "discarding"} \/ (handle[p] = "lost" /\ p \in owned)
    /\ group[p] \in {"empty", "stranger"}
    /\ group' = [group EXCEPT ![p] = IF @ = "empty" THEN "stranger" ELSE "strangers"]
    /\ UNCHANGED <<handle, channel, owned, exposed, cleaning>>

-----------------------------------------------------------------------------
(* The master.                                                               *)

\* _registered_process_is_current: the leader exists (as a zombie, perhaps),
\* has the recorded birth identity and leads its group.
RegisteredProcessIsCurrent(p) == group[p] = "running"

\* A record that is there is acknowledged again.
Accept(p) ==
    \/ p \in owned
    \/ Cardinality(owned) < MaxRecords /\ RegisteredProcessIsCurrent(p)

\* _service_ownership_messages, one message.  The answer is lost when the
\* worker's end of the pipe is closed.
ServeMessage(workerAlive) ==
    /\ requests # <<>>
    /\ LET operation == Head(requests)[1]
           p         == Head(requests)[2]
           accepted  == operation = "unregister" \/ Accept(p)
       IN /\ owned' = CASE operation = "unregister" -> owned \ {p}
                        [] accepted                 -> owned \cup {p}
                        [] OTHER                    -> owned
          /\ acks' = IF workerAlive THEN Append(acks, <<operation, p, accepted>>) ELSE acks
    /\ requests' = Tail(requests)
    /\ UNCHANGED <<group, handle, calling, exposed, cleaning>>

\* Mutant: a group without its leader is taken to be gone.
LeaderIsCurrent(p) == group[p] = "running"

\* _owned_process_group_is_current: a leader must have the recorded identity; a
\* group without a leader only has to exist.
OwnedProcessGroupIsCurrent(p) == group[p] \in {"running", "leaderless", "strangers"}

\* _cleanup_orphan_processes, one record: it is checked, and skipped when nothing
\* that may be the worker's is there.
CheckOrphan(p) ==
    /\ target = NoProc /\ p \in owned
    /\ IF OwnedProcessGroupIsCurrent(p)
       THEN target' = p /\ UNCHANGED owned
       ELSE owned' = owned \ {p} /\ UNCHANGED target
    /\ UNCHANGED <<group, handle, channel, exposed, survived>>

\* killpg, on whatever has the number of the checked record by now.
KillOrphan ==
    /\ target # NoProc
    /\ group' = [group EXCEPT ![target] = "empty"]
    /\ owned' = owned \ {target} /\ target' = NoProc
    /\ UNCHANGED <<handle, channel, exposed, survived>>

\* killpg is refused; the OSError is swallowed, and the record dropped with the rest.
KillOrphanFails ==
    /\ target # NoProc /\ group[target] # "empty"
    /\ survived' = survived \cup {target}
    /\ owned' = owned \ {target} /\ target' = NoProc
    /\ UNCHANGED <<group, handle, channel, exposed>>

\* The processes of starters will be spawned.
OwnershipInit(starters) ==
    /\ group = [p \in Procs |-> "none"]
    /\ handle = [p \in Procs |-> IF p \in starters THEN "idle" ELSE "released"]
    /\ calling = NoProc
    /\ requests = <<>> /\ acks = <<>>
    /\ owned = {} /\ exposed = {}
    /\ target = NoProc /\ survived = {}

=============================================================================
