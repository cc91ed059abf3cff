-------------------------- MODULE SupervisorProofs --------------------------
(***************************************************************************)
(* What the control master and its worker guarantee for any number of      *)
(* events, processes, workers and faults: the permits of the dispatcher,   *)
(* the sends of an event, and the process trees left behind.               *)
(***************************************************************************)
EXTENDS Supervisor, FiniteSetTheorems, TLAPS

Operations == {"register", "unregister"}

RowTypes ==
    /\ outbox \in [Events -> Event]
    /\ posts \in [Events -> Nat] /\ cuts \in [Events -> Nat]

\* A master that is still running has not passed the restart limit.
ControlTypes ==
    /\ unpersisted \subseteq Events
    /\ stale \in BOOLEAN /\ storeUp \in BOOLEAN
    /\ master \in MasterPcs /\ worker \in WorkerStates
    /\ heartbeat \in BOOLEAN /\ stop \in BOOLEAN
    /\ failures \in 0..RestartLimit + 1 /\ code \in {0, 70} /\ faults \in 0..MaxFaults
    /\ master \notin {"exited", "dead"} => failures <= RestartLimit

OwnershipTypes ==
    /\ group \in [Procs -> Groups] /\ handle \in [Procs -> Handles]
    /\ calling \in Procs \cup {NoProc}
    /\ requests \in Seq(Operations \X Procs)
    /\ acks \in Seq(Operations \X Procs \X BOOLEAN)
    /\ owned \subseteq Procs /\ exposed \subseteq Procs
    /\ target \in Procs \cup {NoProc} /\ survived \subseteq Procs

-----------------------------------------------------------------------------
(* Deliveries.                                                               *)

Scheduled(ds) == {d \in ds : d.pc # "unscheduled"}
Posting(ds, e) == {d \in ds : d.event = e /\ d.pc = "posting"}

\* Deliveries are told apart by their delivery_attempt_id, which the store minted.
Distinct ==
    /\ IsFiniteSet(deliveries) /\ deliveries \subseteq Delivery
    /\ \A d \in deliveries : d.id <= outbox[d.event].issued
    /\ \A c, d \in deliveries : c.event = d.event /\ c.id = d.id => c = d

\* Every permit is free or held by one delivery thread.
PermitsKept == slots \in Nat /\ slots + Cardinality(Scheduled(deliveries)) = MaxDeliveries

\* A claim is paid for by an attempt, a cut or the delivery in progress, and an
\* event was sent at most once per address for the claims that are not posting.
InProgress(e) == IF outbox[e].state \in {"delivering", "delivered"} THEN 1 ELSE 0

ClaimsPaid ==
    \A e \in Events : outbox[e].issued <= outbox[e].attempts + cuts[e] + InProgress(e)

PostsBounded ==
    \A e \in Events :
        posts[e] + Addresses * Cardinality(Posting(deliveries, e)) <= Addresses * outbox[e].issued

DispatcherInv == RowTypes /\ Distinct /\ PermitsKept /\ ClaimsPaid /\ PostsBounded

-----------------------------------------------------------------------------
(* Process trees.                                                            *)

\* A process that is not started has no group, no message and no record.
IdleUnknown ==
    \A p \in Procs : handle[p] = "idle" =>
        /\ group[p] = "none" /\ p \notin exposed /\ p # target
        /\ \A i \in 1..Len(requests) : requests[i][2] # p
        /\ \A i \in 1..Len(acks) : acks[i][2] # p

\* A record is given up only for a tree that was killed.
KilledFirst ==
    /\ \A p \in Procs : handle[p] \in {"killed", "unregistering"} => ~Alive(p)
    /\ \A i \in 1..Len(requests) : requests[i][1] = "unregister" => ~Alive(requests[i][2])

\* A live tree whose registration was accepted, and perhaps already read by the
\* worker, has a record, or the master was refused its kill.
Recorded ==
    /\ \A p \in exposed : Alive(p) => p \in owned \cup survived
    /\ \A i \in 1..Len(acks) :
          acks[i][1] = "register" /\ acks[i][3] /\ Alive(acks[i][2])
              => acks[i][2] \in owned \cup survived

\* Between two workers the registry is empty.
NoRecords == master \in {"backoff", "spawn", "exited"} => owned = {}

TreesInv == OwnershipTypes /\ IdleUnknown /\ KilledFirst /\ Recorded

-----------------------------------------------------------------------------
(* The steps of the ownership protocol keep TreesInv.                        *)

\* Appending to or taking the head of a channel keeps its messages and their order.
LEMMA Channel ==
    ASSUME NEW S, NEW q \in Seq(S)
    PROVE  /\ \A m \in S : /\ Append(q, m) \in Seq(S) /\ Len(Append(q, m)) = Len(q) + 1
                           /\ Append(q, m)[Len(q) + 1] = m
                           /\ \A i \in 1..Len(q) : Append(q, m)[i] = q[i]
           /\ Len(q) \in Nat
           /\ q # <<>> => /\ Tail(q) \in Seq(S) /\ Len(q) > 0 /\ Len(Tail(q)) = Len(q) - 1
                          /\ Head(q) = q[1]
                          /\ \A i \in 1..Len(Tail(q)) : Tail(q)[i] = q[i + 1]
<1>1. Len(q) \in Nat
    OBVIOUS
<1>2. q # <<>> => Len(q) > 0
    OBVIOUS
<1>3. QED
    BY <1>1, <1>2

\* A step that sends and receives nothing keeps the invariant when no tree comes to
\* life that is not started here, and none is taken for killed that lives.
LEMMA QuietStep ==
    ASSUME TreesInv, UNCHANGED <<channel, owned, exposed, cleaning>>,
           group' \in [Procs -> Groups], handle' \in [Procs -> Handles],
           \A p \in Procs : handle'[p] = "idle" => handle[p] = "idle" /\ group'[p] = group[p],
           \A p \in Procs : Alive(p)' => Alive(p) \/ handle[p] = "idle",
           \A p \in Procs : handle'[p] \in {"killed", "unregistering"} =>
                                ~Alive(p)' \/ (handle'[p] = handle[p] /\ handle[p] # "idle")
    PROVE  TreesInv'
<1>1. UNCHANGED <<calling, requests, acks, owned, exposed, target, survived>>
    BY DEF channel, cleaning
<1>2. OwnershipTypes'
    BY <1>1 DEF TreesInv, OwnershipTypes
<1>3. IdleUnknown'
    BY <1>1 DEF TreesInv, IdleUnknown
<1>4. \A i \in 1..Len(requests) : requests[i][2] \in Procs
    BY DEF TreesInv, OwnershipTypes
<1>5. \A i \in 1..Len(acks) : acks[i][2] \in Procs
    BY DEF TreesInv, OwnershipTypes
<1>6. KilledFirst'
    BY <1>1, <1>4 DEF TreesInv, KilledFirst, IdleUnknown
<1>7. Recorded'
    BY <1>1, <1>5 DEF TreesInv, Recorded, IdleUnknown, OwnershipTypes
<1>8. QED
    BY <1>2, <1>3, <1>6, <1>7 DEF TreesInv

\* A session starts, gives up its request or kills its tree.
LEMMA SessionQuiet ==
    ASSUME TreesInv, NEW p \in Procs,
           \/ Spawn(p) \/ RegisterRefused(p) \/ Dispose(p) \/ KillTree(p) \/ KillTreeFails(p)
    PROVE  TreesInv'
<1>0. /\ group \in [Procs -> Groups] /\ handle \in [Procs -> Handles]
      /\ UNCHANGED <<channel, owned, exposed, cleaning>>
    BY DEF TreesInv, OwnershipTypes, Spawn, RegisterRefused, Dispose, KillTree, KillTreeFails
<1>1. CASE Spawn(p)
    <2>1. /\ handle[p] = "idle" /\ handle' = [handle EXCEPT ![p] = "spawned"]
          /\ group' = [group EXCEPT ![p] = "running"]
        BY <1>1 DEF Spawn
    <2>2. group' \in [Procs -> Groups] /\ handle' \in [Procs -> Handles]
        BY <1>0, <2>1 DEF Groups, Handles
    <2>3. QED
        BY <1>0, <2>1, <2>2, QuietStep DEF Alive
<1>2. CASE RegisterRefused(p) \/ Dispose(p) \/ KillTreeFails(p)
    <2>1. /\ group' = group /\ handle[p] # "idle"
          /\ \E h \in {"discarding", "killing", "stuck"} : handle' = [handle EXCEPT ![p] = h]
        BY <1>2 DEF RegisterRefused, Dispose, KillTreeFails
    <2>2. group' \in [Procs -> Groups] /\ handle' \in [Procs -> Handles]
        BY <1>0, <2>1 DEF Handles
    <2>3. QED
        BY <1>0, <2>1, <2>2, QuietStep DEF Alive
<1>3. CASE KillTree(p)
    <2>1. /\ handle[p] \in {"killing", "discarding"}
          /\ group' = [group EXCEPT ![p] = "empty"]
          /\ \E h \in {"killed", "released"} : handle' = [handle EXCEPT ![p] = h]
        BY <1>3 DEF KillTree
    <2>2. group' \in [Procs -> Groups] /\ handle' \in [Procs -> Handles]
        BY <1>0, <2>1 DEF Groups, Handles
    <2>3. ~Alive(p)'
        BY <1>0, <2>1 DEF Alive
    <2>4. QED
        BY <1>0, <2>1, <2>2, <2>3, QuietStep DEF Alive
<1>4. QED
    BY <1>1, <1>2, <1>3

\* The operating system ends groups and gives their numbers away.
LEMMA SystemQuiet ==
    ASSUME TreesInv, NEW p \in Procs, LeaderExits(p) \/ GroupEmpties(p) \/ NumberReused(p)
    PROVE  TreesInv'
<1>0. /\ group \in [Procs -> Groups] /\ handle \in [Procs -> Handles]
      /\ UNCHANGED <<handle, channel, owned, exposed, cleaning>>
    BY DEF TreesInv, OwnershipTypes, LeaderExits, GroupEmpties, NumberReused
<1>1. /\ group[p] # "none"
      /\ \E g \in Groups \ {"none", "running"} :
            /\ group' = [group EXCEPT ![p] = g]
            /\ g = "leaderless" => Alive(p)
    BY DEF LeaderExits, GroupEmpties, NumberReused, Groups, Alive
<1>2. handle[p] # "idle"
    BY <1>1 DEF TreesInv, IdleUnknown
<1>3. group' \in [Procs -> Groups]
    BY <1>0, <1>1
<1>4. QED
    BY <1>0, <1>1, <1>2, <1>3, QuietStep DEF Alive

\* A request is sent; an unregistration only for a tree that was killed.
LEMMA RequestSent ==
    ASSUME TreesInv, NEW p \in Procs, Register(p) \/ Unregister(p)
    PROVE  TreesInv'
<1>1. /\ UNCHANGED <<group, acks, owned, exposed, target, survived>> /\ calling' = p
      /\ \E operation \in Operations :
            /\ requests' = Append(requests, <<operation, p>>)
            /\ operation = "unregister" => handle[p] = "killed"
      /\ handle[p] \in {"spawned", "killed"}
      /\ \E h \in {"registering", "unregistering"} :
            /\ handle' = [handle EXCEPT ![p] = h]
            /\ h = "unregistering" => handle[p] = "killed"
    BY DEF Register, Unregister, Send, Operations, cleaning
<1>2. PICK operation \in Operations :
            /\ requests' = Append(requests, <<operation, p>>)
            /\ operation = "unregister" => handle[p] = "killed"
    BY <1>1
<1>3. PICK h \in {"registering", "unregistering"} :
            /\ handle' = [handle EXCEPT ![p] = h]
            /\ h = "unregistering" => handle[p] = "killed"
    BY <1>1
<1>4. <<operation, p>> \in Operations \X Procs /\ requests \in Seq(Operations \X Procs)
    BY DEF TreesInv, OwnershipTypes
<1>5. /\ requests' \in Seq(Operations \X Procs) /\ Len(requests') = Len(requests) + 1
      /\ Len(requests) \in Nat
      /\ requests'[Len(requests) + 1] = <<operation, p>>
      /\ \A i \in 1..Len(requests) : requests'[i] = requests[i]
    BY <1>2, <1>4, Channel
<1>6. \A i \in 1..Len(requests') :
          \/ i \in 1..Len(requests) /\ requests'[i] = requests[i]
          \/ requests'[i] = <<operation, p>>
    BY <1>5
<1>7. handle \in [Procs -> Handles] /\ handle' \in [Procs -> Handles]
    BY <1>3 DEF TreesInv, OwnershipTypes, Handles
<1>8. OwnershipTypes'
    BY <1>1, <1>5, <1>7 DEF TreesInv, OwnershipTypes
<1>9. IdleUnknown'
    <2>1. SUFFICES ASSUME NEW q \in Procs, handle'[q] = "idle"
                   PROVE  /\ group'[q] = "none" /\ q \notin exposed' /\ q # target'
                          /\ \A i \in 1..Len(requests') : requests'[i][2] # q
                          /\ \A i \in 1..Len(acks') : acks'[i][2] # q
        BY DEF IdleUnknown
    <2>2. q # p /\ handle[q] = "idle"
        BY <2>1, <1>3, <1>7
    <2>3. QED
        BY <2>2, <1>1, <1>6 DEF TreesInv, IdleUnknown
<1>10. KilledFirst'
    <2>1. handle[p] = "killed" => ~Alive(p)
        BY DEF TreesInv, KilledFirst
    <2>2. \A q \in Procs : handle'[q] \in {"killed", "unregistering"} => ~Alive(q)
        BY <2>1, <1>3, <1>7 DEF TreesInv, KilledFirst
    <2>3. \A i \in 1..Len(requests') : requests'[i][1] = "unregister" => ~Alive(requests'[i][2])
        BY <2>1, <1>2, <1>6 DEF TreesInv, KilledFirst
    <2>4. QED
        BY <2>2, <2>3, <1>1 DEF KilledFirst, Alive
<1>11. Recorded'
    BY <1>1 DEF TreesInv, Recorded, Alive
<1>12. QED
    BY <1>8, <1>9, <1>10, <1>11 DEF TreesInv

\* The worker reads answers, or gives up on one: what it exposes has a record.
LEMMA AnswerRead ==
    ASSUME TreesInv, NEW p \in Procs, Receive(p) \/ RequestFails(p)
    PROVE  TreesInv'
<1>1. /\ UNCHANGED <<group, requests, owned, target, survived>>
      /\ calling' \in {calling, NoProc}
      /\ acks' = acks \/ (acks # <<>> /\ acks' = Tail(acks))
    BY DEF Receive, RequestFails, cleaning
<1>2. acks \in Seq(Operations \X Procs \X BOOLEAN) /\ handle \in [Procs -> Handles]
    BY DEF TreesInv, OwnershipTypes
<1>3. /\ acks' \in Seq(Operations \X Procs \X BOOLEAN)
      /\ \A i \in 1..Len(acks') : \E j \in 1..Len(acks) : acks'[i] = acks[j]
    <2>1. CASE acks' = acks
        BY <2>1, <1>2
    <2>2. CASE acks # <<>> /\ acks' = Tail(acks)
        <3>1. /\ acks' \in Seq(Operations \X Procs \X BOOLEAN) /\ Len(acks) \in Nat
              /\ Len(acks) > 0 /\ Len(acks') = Len(acks) - 1
              /\ \A i \in 1..Len(acks') : acks'[i] = acks[i + 1]
            BY <2>2, <1>2, Channel
        <3>2. \A i \in 1..Len(acks') : i + 1 \in 1..Len(acks)
            BY <3>1
        <3>3. QED
            BY <3>1, <3>2
    <2>3. QED
        BY <1>1, <2>1, <2>2
<1>4. \/ UNCHANGED <<handle, exposed>>
      \/ /\ \E h \in {"running", "killing", "released", "stuck"} :
               handle' = [handle EXCEPT ![p] = h]
         /\ \/ exposed' = exposed
            \/ /\ exposed' = exposed \cup {p} /\ acks # <<>> /\ handle[p] = "registering"
               /\ Head(acks)[1] = "register" /\ Head(acks)[2] = p /\ Head(acks)[3]
    BY DEF Receive, RequestFails, Answered, Operation
<1>5. handle' \in [Procs -> Handles]
    BY <1>2, <1>4 DEF Handles
<1>6. exposed' = exposed \/ /\ exposed' = exposed \cup {p} /\ handle[p] # "idle"
                            /\ Alive(p) => p \in owned \cup survived
    <2>1. CASE exposed' = exposed
        BY <2>1
    <2>2. CASE exposed' # exposed
        <3>1. /\ exposed' = exposed \cup {p} /\ acks # <<>> /\ handle[p] = "registering"
              /\ Head(acks)[1] = "register" /\ Head(acks)[2] = p /\ Head(acks)[3]
            BY <2>2, <1>4
        <3>2. Head(acks) = acks[1] /\ 1 \in 1..Len(acks)
            BY <3>1, <1>2, Channel
        <3>3. QED
            BY <3>1, <3>2 DEF TreesInv, Recorded
    <2>3. QED
        BY <2>1, <2>2
<1>7. \A q \in Procs : /\ handle'[q] = "idle" => handle[q] = "idle" 
                       /\ handle'[q] \in {"killed", "unregistering"} =>
                             handle[q] \in {"killed", "unregistering"}
    BY <1>2, <1>4
<1>8. OwnershipTypes'
    BY <1>1, <1>3, <1>5, <1>6 DEF TreesInv, OwnershipTypes
<1>9. IdleUnknown'
    BY <1>1, <1>3, <1>6, <1>7 DEF TreesInv, IdleUnknown
<1>10. KilledFirst'
    BY <1>1, <1>7 DEF TreesInv, KilledFirst, Alive
<1>11. Recorded'
    BY <1>1, <1>3, <1>6 DEF TreesInv, Recorded, Alive
<1>12. QED
    BY <1>8, <1>9, <1>10, <1>11 DEF TreesInv

\* The master applies a message: no record of a live tree is dropped, and only a
\* tree that has one is acknowledged.
LEMMA MessageServed ==
    ASSUME TreesInv, NEW b, ServeMessage(b)
    PROVE  TreesInv'
<1> DEFINE operation == Head(requests)[1]
           p == Head(requests)[2]
           accepted == operation = "unregister" \/ Accept(p)
<1>1. /\ UNCHANGED <<group, handle, calling, exposed, target, survived>>
      /\ requests # <<>> /\ requests' = Tail(requests)
      /\ owned' = CASE operation = "unregister" -> owned \ {p}
                    [] accepted                 -> owned \cup {p}
                    [] OTHER                    -> owned
      /\ acks' = acks \/ acks' = Append(acks, <<operation, p, accepted>>)
    BY DEF ServeMessage, cleaning
<1>2. /\ requests \in Seq(Operations \X Procs) /\ owned \subseteq Procs
      /\ acks \in Seq(Operations \X Procs \X BOOLEAN)
    BY DEF TreesInv, OwnershipTypes
<1>3. /\ requests' \in Seq(Operations \X Procs) /\ Head(requests) = requests[1]
      /\ Len(requests) \in Nat /\ Len(requests) > 0 /\ Len(requests') = Len(requests) - 1
      /\ \A i \in 1..Len(requests') : requests'[i] = requests[i + 1]
    BY <1>1, <1>2, Channel
<1>4. /\ 1 \in 1..Len(requests)
      /\ \A i \in 1..Len(requests') : i + 1 \in 1..Len(requests)
    BY <1>3
<1>5. Head(requests) \in Operations \X Procs
    BY <1>2, <1>3, <1>4
<1>6. operation \in Operations /\ p \in Procs
    BY <1>5
<1>7. operation = "unregister" => ~Alive(p)
    BY <1>3, <1>4 DEF TreesInv, KilledFirst
<1>8. accepted \in BOOLEAN
    BY Zenon DEF Accept
<1>9. /\ owned' \subseteq Procs
      /\ \A q \in owned : q \in owned' \/ (q = p /\ operation = "unregister")
      /\ operation = "register" /\ accepted => p \in owned'
    BY <1>1, <1>2, <1>6 DEF Operations
<1> HIDE DEF accepted, operation, p
<1>10. /\ acks' \in Seq(Operations \X Procs \X BOOLEAN)
       /\ \A i \in 1..Len(acks') :
              (i \in 1..Len(acks) /\ acks'[i] = acks[i]) \/ acks'[i] = <<operation, p, accepted>>
    <2>1. CASE acks' = acks
        BY <2>1, <1>2
    <2>2. CASE acks' = Append(acks, <<operation, p, accepted>>)
        <3>1. <<operation, p, accepted>> \in Operations \X Procs \X BOOLEAN
            BY <1>6, <1>8
        <3>2. /\ acks' \in Seq(Operations \X Procs \X BOOLEAN) /\ Len(acks') = Len(acks) + 1
              /\ Len(acks) \in Nat
              /\ acks'[Len(acks) + 1] = <<operation, p, accepted>>
              /\ \A i \in 1..Len(acks) : acks'[i] = acks[i]
            BY <2>2, <3>1, <1>2, Channel
        <3>3. QED
            BY <3>2
    <2>3. QED
        BY <1>1, <2>1, <2>2
<1>11. OwnershipTypes'
    BY <1>1, <1>3, <1>9, <1>10 DEF TreesInv, OwnershipTypes
<1>12. IdleUnknown'
    <2>1. SUFFICES ASSUME NEW q \in Procs, handle'[q] = "idle"
                   PROVE  /\ group'[q] = "none" /\ q \notin exposed' /\ q # target'
                          /\ \A i \in 1..Len(requests') : requests'[i][2] # q
                          /\ \A i \in 1..Len(acks') : acks'[i][2] # q
        BY DEF IdleUnknown
    <2>2. /\ group[q] = "none" /\ q \notin exposed /\ q # target
          /\ \A i \in 1..Len(requests) : requests[i][2] # q
          /\ \A i \in 1..Len(acks) : acks[i][2] # q
        BY <2>1, <1>1 DEF TreesInv, IdleUnknown
    <2>3. p # q
        BY <2>2, <1>3, <1>4 DEF p
    <2>4. \A i \in 1..Len(requests') : requests'[i][2] # q
        BY <2>2, <1>3, <1>4
    <2>5. \A i \in 1..Len(acks') : acks'[i][2] # q
        BY <2>2, <2>3, <1>10
    <2>6. QED
        BY <2>2, <2>4, <2>5, <1>1
<1>13. KilledFirst'
    BY <1>1, <1>3, <1>4 DEF TreesInv, KilledFirst, Alive
<1>14. Recorded'
    <2>1. \A q \in exposed : Alive(q) => q \in owned' \cup survived
        BY <1>7, <1>9 DEF TreesInv, Recorded
    <2>2. \A i \in 1..Len(acks) :
              acks[i][1] = "register" /\ acks[i][3] /\ Alive(acks[i][2])
                  => acks[i][2] \in owned' \cup survived
        BY <1>7, <1>9 DEF TreesInv, Recorded
    <2>3. \A i \in 1..Len(acks') :
              acks'[i][1] = "register" /\ acks'[i][3] /\ Alive(acks'[i][2])
                  => acks'[i][2] \in owned' \cup survived
        BY <2>2, <1>9, <1>10
    <2>4. QED
        BY <2>1, <2>3, <1>1 DEF Recorded, Alive
<1>15. QED
    BY <1>11, <1>12, <1>13, <1>14 DEF TreesInv

\* The worker is gone: its handles are lost, its trees and their records are not.
LEMMA WorkerAbandons ==
    ASSUME TreesInv, AbandonHandles, UNCHANGED <<group, requests, owned, exposed, cleaning>>
    PROVE  TreesInv'
<1>1. /\ handle' = [p \in Procs |-> IF handle[p] = "idle" THEN "idle" ELSE "lost"]
      /\ calling' = NoProc /\ acks' = <<>>
      /\ UNCHANGED <<group, requests, owned, exposed, target, survived>>
    BY DEF AbandonHandles, cleaning
<1>2. Len(acks') = 0
    BY <1>1
<1>3. /\ handle' \in [Procs -> Handles] /\ acks' \in Seq(Operations \X Procs \X BOOLEAN)
      /\ \A p \in Procs : handle'[p] = "idle" => handle[p] = "idle"
      /\ \A p \in Procs : handle'[p] \in {"idle", "lost"}
    BY <1>1 DEF Handles
<1>4. OwnershipTypes'
    BY <1>1, <1>3 DEF TreesInv, OwnershipTypes
<1>5. IdleUnknown'
    BY <1>1, <1>2, <1>3 DEF TreesInv, IdleUnknown
<1>6. KilledFirst'
    BY <1>1, <1>3 DEF TreesInv, KilledFirst, Alive
<1>7. Recorded'
    BY <1>1, <1>2 DEF TreesInv, Recorded, Alive
<1>8. QED
    BY <1>4, <1>5, <1>6, <1>7 DEF TreesInv

\* What the cleanup does with one record: it is kept while it is the target, and
\* given up with a tree that is dead or that could not be killed.
LEMMA OrphansCleaned ==
    ASSUME TreesInv, KillOrphan \/ KillOrphanFails \/ \E p \in Procs : CheckOrphan(p)
    PROVE  TreesInv' /\ owned' \subseteq owned
<1>1. /\ UNCHANGED <<handle, calling, requests, acks, exposed>>
      /\ group \in [Procs -> Groups] /\ owned' \subseteq owned /\ survived \subseteq survived'
    BY DEF KillOrphan, KillOrphanFails, CheckOrphan, channel, TreesInv, OwnershipTypes
<1>2. /\ target' \in Procs \cup {NoProc} /\ survived' \subseteq Procs
      /\ group' \in [Procs -> Groups]
      /\ \A p \in Procs : group'[p] = group[p] \/ (group'[p] = "empty" /\ p = target)
      /\ \A p \in Procs : Alive(p)' => Alive(p)
    BY DEF KillOrphan, KillOrphanFails, CheckOrphan, TreesInv, OwnershipTypes, Groups, Alive
<1>3. \A p \in owned : Alive(p)' => p \in owned' \cup survived'
    <2>1. CASE KillOrphan
        BY <2>1 DEF KillOrphan, TreesInv, OwnershipTypes, Alive
    <2>2. CASE KillOrphanFails
        BY <2>2 DEF KillOrphanFails
    <2>3. CASE \E p \in Procs : CheckOrphan(p)
        BY <2>3, <1>2 DEF CheckOrphan, OwnedProcessGroupIsCurrent, Alive
    <2>4. QED
        BY <2>1, <2>2, <2>3
<1>4. OwnershipTypes'
    BY <1>1, <1>2 DEF TreesInv, OwnershipTypes
<1>5. IdleUnknown'
    <2>1. SUFFICES ASSUME NEW p \in Procs, handle[p] = "idle"
                   PROVE  group'[p] = "none" /\ p # target'
        BY <1>1 DEF TreesInv, IdleUnknown
    <2>2. group[p] = "none" /\ p # target
        BY <2>1 DEF TreesInv, IdleUnknown
    <2>3. p # target'
        BY <2>2, OwnershipAssumption DEF KillOrphan, KillOrphanFails, CheckOrphan,
             OwnedProcessGroupIsCurrent
    <2>4. QED
        BY <1>2, <2>2, <2>3
<1>6. KilledFirst'
    <2>1. \A i \in 1..Len(requests) : requests[i][2] \in Procs
        BY DEF TreesInv, OwnershipTypes
    <2>2. QED
        BY <1>1, <1>2, <2>1 DEF TreesInv, KilledFirst
<1>7. Recorded'
    <2>1. \A i \in 1..Len(acks) : acks[i][2] \in Procs
        BY DEF TreesInv, OwnershipTypes
    <2>2. \A p \in Procs : Alive(p)' /\ p \in owned \cup survived => p \in owned' \cup survived'
        BY <1>1, <1>3
    <2>3. QED
        BY <1>1, <1>2, <2>1, <2>2 DEF TreesInv, OwnershipTypes, Recorded
<1>8. QED
    BY <1>1, <1>4, <1>5, <1>6, <1>7 DEF TreesInv

\* The messages a dead worker left are dropped with its channel.
LEMMA ChannelClosed ==
    ASSUME TreesInv, requests' = <<>>,
           UNCHANGED <<group, handle, calling, acks, owned, exposed, cleaning>>
    PROVE  TreesInv'
<1>1. Len(requests') = 0 /\ requests' \in Seq(Operations \X Procs)
    OBVIOUS
<1>2. UNCHANGED <<group, handle, calling, acks, owned, exposed, target, survived>>
    BY DEF cleaning
<1>3. OwnershipTypes'
    BY <1>1, <1>2 DEF TreesInv, OwnershipTypes
<1>4. IdleUnknown' /\ KilledFirst'
    BY <1>1, <1>2 DEF TreesInv, IdleUnknown, KilledFirst, Alive
<1>5. Recorded'
    BY <1>2 DEF TreesInv, Recorded, Alive
<1>6. QED
    BY <1>3, <1>4, <1>5 DEF TreesInv

\* What a step of the system does to the ownership protocol.
OwnershipEffect ==
    \/ UNCHANGED ownershipVars
    \/ \E b \in BOOLEAN : ServeMessage(b)
    \/ AbandonHandles /\ UNCHANGED <<group, requests, owned, exposed, cleaning>>
    \/ KillOrphan \/ KillOrphanFails \/ \E p \in Procs : CheckOrphan(p)
    \/ requests' = <<>> /\ UNCHANGED <<group, handle, calling, acks, owned, exposed, cleaning>>
    \/ \E p \in Procs : Spawn(p) \/ SessionStep(p) \/ RequestFails(p) \/ KillTreeFails(p)
    \/ \E p \in Procs : LeaderExits(p) \/ GroupEmpties(p) \/ NumberReused(p)

\* Every step of the master, the worker, the system and the faults has one of the
\* effects of the protocol.
LEMMA OwnershipEffects ==
    ASSUME [Next]_vars
    PROVE  OwnershipEffect
<1>1. CASE UNCHANGED vars
    BY <1>1 DEF vars, OwnershipEffect
<1>2. CASE Dies
    BY <1>2 DEF Dies, OwnershipEffect
<1>3. CASE MasterStep
    <2>1. CASE Serve \/ LastMessages
        <3>1. WorkerAlive \in BOOLEAN
            BY DEF WorkerAlive
        <3>2. QED
            BY <2>1, <3>1, Zenon DEF Serve, LastMessages, OwnershipEffect
    <2>2. CASE CleanupOrphans \/ EndGeneration
        BY <2>2 DEF CleanupOrphans, EndGeneration, OwnershipEffect
    <2>3. CASE BeginDrain \/ EndDrain
        BY <2>3, <1>2 DEF BeginDrain, EndDrain, Terminate, OwnershipEffect
    <2>4. CASE StartWorker \/ NoticeExit \/ EndBackoff \/ ReturnStopped
        BY <2>4 DEF StartWorker, NoticeExit, EndBackoff, ReturnStopped, OwnershipEffect
    <2>5. QED
        BY <1>3, <2>1, <2>2, <2>3, <2>4 DEF MasterStep
<1>4. CASE WorkerStep
    <2>1. CASE OpenFails \/ Close \/ ParentGone
        BY <2>1, <1>2 DEF OpenFails, Close, ParentGone, Terminate, OwnershipEffect
    <2>2. CASE Open \/ HeartbeatEnds \/ DispatcherStep
        BY <2>2 DEF Open, HeartbeatEnds, DispatcherStep, OwnershipEffect
    <2>3. CASE SessionsStep
        BY <2>3, Zenon DEF SessionsStep, OwnershipEffect
    <2>4. QED
        BY <1>4, <2>1, <2>2, <2>3 DEF WorkerStep
<1>5. CASE RequestStop
    BY <1>5 DEF RequestStop, OwnershipEffect
<1>6. CASE Environment
    BY <1>6, Zenon DEF Environment, OwnershipEffect
<1>7. CASE Fault
    <2>1. CASE ProcessFault
        BY <2>1, <1>2 DEF ProcessFault, OwnershipEffect
    <2>2. CASE DispatcherFault
        BY <2>2 DEF DispatcherFault, OwnershipEffect
    <2>3. CASE SessionFault
        BY <2>3, Zenon DEF SessionFault, OwnershipEffect
    <2>4. CASE CleanupFault
        BY <2>4 DEF CleanupFault, OwnershipEffect
    <2>5. QED
        BY <1>7, <2>1, <2>2, <2>3, <2>4 DEF Fault
<1>8. QED
    BY <1>1, <1>3, <1>4, <1>5, <1>6, <1>7 DEF Next

\* Every step keeps the invariant of the process trees.
LEMMA TreesStep ==
    ASSUME TreesInv, [Next]_vars
    PROVE  TreesInv'
<1>1. OwnershipEffect
    BY OwnershipEffects
<1>2. CASE UNCHANGED ownershipVars
    <2>1. UNCHANGED <<group, handle, calling, requests, acks, owned, exposed, cleaning>>
        BY <1>2 DEF ownershipVars, channel
    <2>2. OwnershipTypes' /\ IdleUnknown'
        BY <2>1 DEF TreesInv, OwnershipTypes, IdleUnknown, cleaning
    <2>3. KilledFirst' /\ Recorded'
        BY <2>1 DEF TreesInv, KilledFirst, Recorded, Alive, cleaning
    <2>4. QED
        BY <2>2, <2>3 DEF TreesInv
<1>3. CASE \E b \in BOOLEAN : ServeMessage(b)
    BY <1>3, MessageServed
<1>4. CASE AbandonHandles /\ UNCHANGED <<group, requests, owned, exposed, cleaning>>
    BY <1>4, WorkerAbandons
<1>5. CASE \/ KillOrphan \/ KillOrphanFails \/ \E p \in Procs : CheckOrphan(p)
           \/ requests' = <<>> /\ UNCHANGED <<group, handle, calling, acks, owned, exposed, cleaning>>
    BY <1>5, OrphansCleaned, ChannelClosed
<1>6. CASE \E p \in Procs : Spawn(p) \/ SessionStep(p) \/ RequestFails(p) \/ KillTreeFails(p)
    <2>1. PICK p \in Procs : Spawn(p) \/ SessionStep(p) \/ RequestFails(p) \/ KillTreeFails(p)
        BY <1>6
    <2>2. QED
        BY <2>1, SessionQuiet, RequestSent, AnswerRead DEF SessionStep
<1>7. CASE \E p \in Procs : LeaderExits(p) \/ GroupEmpties(p) \/ NumberReused(p)
    BY <1>7, SystemQuiet
<1>8. QED
    BY <1>1, <1>2, <1>3, <1>4, <1>5, <1>6, <1>7 DEF OwnershipEffect

\* The registry is empty from the end of one generation to the next worker.
LEMMA RecordsStep ==
    ASSUME NoRecords, [Next]_vars
    PROVE  NoRecords'
<1>0. SUFFICES ASSUME master' \in {"backoff", "spawn", "exited"}
               PROVE  owned' = {}
    BY DEF NoRecords
<1>1. CASE MasterStep
    <2>1. CASE EndGeneration
        BY <2>1 DEF EndGeneration
    <2>2. CASE EndBackoff \/ ReturnStopped
        BY <2>2 DEF EndBackoff, ReturnStopped, ownershipVars, NoRecords
    <2>3. CASE Serve \/ CleanupOrphans
        BY <1>0, <2>3 DEF Serve, CleanupOrphans, control
    <2>4. CASE StartWorker \/ BeginDrain \/ NoticeExit \/ EndDrain \/ LastMessages
        BY <1>0, <2>4 DEF StartWorker, BeginDrain, NoticeExit, EndDrain, LastMessages
    <2>5. QED
        BY <1>1, <2>1, <2>2, <2>3, <2>4 DEF MasterStep
<1>2. CASE WorkerStep \/ RequestStop \/ Environment \/ UNCHANGED vars
    <2>1. master' = master /\ owned' = owned
        <3>1. CASE WorkerStep
            <4>1. CASE OpenFails \/ Close \/ ParentGone
                BY <4>1 DEF OpenFails, Close, ParentGone, Terminate, Dies, ownershipVars
            <4>2. CASE Open \/ HeartbeatEnds \/ DispatcherStep
                BY <4>2 DEF Open, HeartbeatEnds, DispatcherStep, ownershipVars, control
            <4>3. CASE SessionsStep
                <5>1. master' = master
                    BY <4>3 DEF SessionsStep, control
                <5>2. owned' = owned
                    BY <4>3 DEF SessionsStep, Spawn, SessionStep, RegisterRefused, Register,
                         Unregister, Receive, Dispose, KillTree, RequestFails
                <5>3. QED
                    BY <5>1, <5>2
            <4>4. QED
                BY <3>1, <4>1, <4>2, <4>3 DEF WorkerStep
        <3>2. CASE RequestStop \/ UNCHANGED vars
            BY <3>2 DEF RequestStop, vars, ownershipVars, control
        <3>3. CASE Environment
            BY <3>3 DEF Environment, ownershipVars, control, LeaderExits, GroupEmpties,
                 NumberReused
        <3>4. QED
            BY <1>2, <3>1, <3>2, <3>3
    <2>2. QED
        BY <1>0, <2>1 DEF NoRecords
<1>3. CASE Fault
    <2>1. (master' = master \/ master' = "dead") /\ (owned' = owned \/ master' = "cleanup")
        <3>1. CASE ProcessFault
            BY <3>1 DEF ProcessFault, Dies, ownershipVars
        <3>2. CASE DispatcherFault
            BY <3>2 DEF DispatcherFault, ownershipVars, control
        <3>3. CASE SessionFault
            BY <3>3 DEF SessionFault, RequestFails, KillTreeFails, control
        <3>4. CASE CleanupFault
            BY <3>4 DEF CleanupFault, control
        <3>5. QED
            BY <1>3, <3>1, <3>2, <3>3, <3>4 DEF Fault
    <2>2. QED
        BY <1>0, <2>1 DEF NoRecords
<1>4. QED
    BY <1>1, <1>2, <1>3 DEF Next

\* The invariant of the process trees holds in every reachable state.
THEOREM TreesInvariant == Spec => [](TreesInv /\ NoRecords)
<1>1. Init => TreesInv /\ NoRecords
    <2>1. SUFFICES ASSUME Init PROVE TreesInv /\ NoRecords
        OBVIOUS
    <2>2. /\ group = [p \in Procs |-> "none"] /\ handle \in [Procs -> {"idle", "released"}]
          /\ calling = NoProc /\ requests = <<>> /\ acks = <<>> /\ owned = {} /\ exposed = {}
          /\ target = NoProc /\ survived = {}
        BY <2>1 DEF Init, SupervisorInit, OwnershipInit
    <2>3. Len(requests) = 0 /\ Len(acks) = 0
        BY <2>2
    <2>4. OwnershipTypes
        BY <2>2 DEF OwnershipTypes, Groups, Handles
    <2>5. IdleUnknown /\ KilledFirst /\ Recorded /\ NoRecords
        BY <2>2, <2>3, OwnershipAssumption DEF IdleUnknown, KilledFirst, Recorded, NoRecords, Alive
    <2>6. QED
        BY <2>4, <2>5 DEF TreesInv
<1>2. TreesInv /\ NoRecords /\ [Next]_vars => (TreesInv /\ NoRecords)'
    BY TreesStep, RecordsStep
<1>3. QED
    BY <1>1, <1>2, PTL DEF Spec

\* Process trees that were acknowledged to a worker are gone before the next one
\* starts and before the master returns, whatever was lost or late in the channel
\* and unless the master was refused the kill (_finish_ownership_generation), for any number of processes and faults.
THEOREM ExposedTreesDieHolds == Spec => []ExposedTreesDie
<1>1. TreesInv /\ NoRecords => ExposedTreesDie
    BY DEF TreesInv, Recorded, NoRecords, ExposedTreesDie
<1>2. QED
    BY <1>1, TreesInvariant, PTL

-----------------------------------------------------------------------------
(* The steps of the dispatcher keep DispatcherInv.                           *)

\* The deliveries of an event that have not posted, and those that hold a permit,
\* are finitely many.
LEMMA DeliveriesFinite ==
    ASSUME Distinct
    PROVE  /\ IsFiniteSet(Scheduled(deliveries)) /\ Cardinality(Scheduled(deliveries)) \in Nat
           /\ \A e : /\ IsFiniteSet(Posting(deliveries, e))
                     /\ Cardinality(Posting(deliveries, e)) \in Nat
<1>1. IsFiniteSet(deliveries)
    BY DEF Distinct
<1>2. Scheduled(deliveries) \in SUBSET deliveries
    BY DEF Scheduled
<1>3. \A e : Posting(deliveries, e) \in SUBSET deliveries
    BY DEF Posting
<1>4. IsFiniteSet(Scheduled(deliveries))
    BY <1>1, <1>2, FS_Subset
<1>5. \A e : IsFiniteSet(Posting(deliveries, e))
    BY <1>1, <1>3, FS_Subset
<1>6. QED
    BY <1>4, <1>5, FS_CardinalityType

\* The mint of the store and the bookkeeping on posts survive a step that neither
\* claims nor posts.
LEMMA NoClaim ==
    ASSUME DispatcherInv, RowTypes', UNCHANGED <<posts>>,
           \A e \in Events : outbox'[e].issued = outbox[e].issued,
           deliveries' \subseteq deliveries
    PROVE  Distinct' /\ PostsBounded'
<1>1. /\ IsFiniteSet(deliveries) /\ deliveries \subseteq Delivery
      /\ \A d \in deliveries : d.event \in Events
    BY DEF DispatcherInv, Distinct, Delivery
<1>2. IsFiniteSet(deliveries')
    BY <1>1, FS_Subset
<1>3. Distinct'
    BY <1>1, <1>2 DEF DispatcherInv, Distinct
<1>4. ASSUME NEW e \in Events
      PROVE  posts'[e] + Addresses * Cardinality(Posting(deliveries', e))
                <= Addresses * outbox'[e].issued
    <2>1. Posting(deliveries', e) \in SUBSET Posting(deliveries, e)
        BY DEF Posting
    <2>2. /\ IsFiniteSet(Posting(deliveries, e)) /\ Cardinality(Posting(deliveries, e)) \in Nat
        BY DeliveriesFinite DEF DispatcherInv
    <2>3. /\ Cardinality(Posting(deliveries', e)) \in Nat
          /\ Cardinality(Posting(deliveries', e)) <= Cardinality(Posting(deliveries, e))
        BY <2>1, <2>2, FS_Subset, FS_CardinalityType
    <2>4. Addresses \in Nat /\ posts[e] \in Nat /\ outbox[e].issued \in Nat
        BY NotifierAssumption DEF DispatcherInv, RowTypes, Event
    <2>5. /\ posts'[e] = posts[e] /\ outbox'[e].issued = outbox[e].issued
          /\ posts[e] + Addresses * Cardinality(Posting(deliveries, e))
                <= Addresses * outbox[e].issued
        BY DEF DispatcherInv, PostsBounded
    <2>6. Addresses * Cardinality(Posting(deliveries', e))
              <= Addresses * Cardinality(Posting(deliveries, e))
        BY <2>2, <2>3, <2>4
    <2> HIDE DEF Posting
    <2>7. ASSUME NEW x \in Int, NEW y \in Int, NEW z \in Int, x <= y, posts[e] + y <= z
          PROVE  posts[e] + x <= z
        BY <2>4, <2>7
    <2>8. /\ Addresses * Cardinality(Posting(deliveries', e)) \in Int
          /\ Addresses * Cardinality(Posting(deliveries, e)) \in Int
          /\ Addresses * outbox[e].issued \in Int
        BY <2>2, <2>3, <2>4
    <2>9. QED
        BY <2>5, <2>6, <2>7, <2>8
<1>5. QED
    BY <1>3, <1>4 DEF PostsBounded

\* A thread that moves on keeps its permit and its delivery_attempt_id.
LEMMA Moves ==
    ASSUME DispatcherInv, NEW d \in deliveries, NEW pc \in DeliveryPcs, NEW verdict \in Verdicts,
           moves(d, pc, verdict), d.pc # "unscheduled", pc \notin {"unscheduled", "posting"},
           UNCHANGED <<outbox, slots>>
    PROVE  /\ Distinct' /\ PermitsKept'
           /\ \A e : Posting(deliveries', e) = Posting(deliveries, e) \ {d}
<1> DEFINE m == [d EXCEPT !.pc = pc, !.verdict = verdict]
<1>1. deliveries' = (deliveries \ {d}) \cup {m}
    BY DEF moves
<1>2. IsFiniteSet(deliveries) /\ deliveries \subseteq Delivery /\ d \in Delivery
    BY DEF DispatcherInv, Distinct
<1>3. /\ m \in Delivery /\ m.event = d.event /\ m.id = d.id /\ m.pc = pc
    BY <1>2 DEF Delivery
<1> HIDE DEF m
<1>4. m \notin deliveries \ {d}
    BY <1>3 DEF DispatcherInv, Distinct
<1>5. IsFiniteSet(deliveries')
    BY <1>1, <1>2, FS_RemoveElement, FS_AddElement
<1>6. Distinct'
    <2>1. \A c \in deliveries' : c.id <= outbox'[c.event].issued
        BY <1>1, <1>3 DEF DispatcherInv, Distinct
    <2>2. \A b, c \in deliveries' : b.event = c.event /\ b.id = c.id => b = c
        BY <1>1, <1>3 DEF DispatcherInv, Distinct
    <2>3. QED
        BY <1>1, <1>2, <1>3, <1>5, <2>1, <2>2 DEF Distinct
<1>7. Scheduled(deliveries') = (Scheduled(deliveries) \ {d}) \cup {m}
    BY <1>1, <1>3 DEF Scheduled
<1>8. d \in Scheduled(deliveries) /\ m \notin Scheduled(deliveries) \ {d}
    BY <1>4 DEF Scheduled
<1>9. IsFiniteSet(Scheduled(deliveries)) /\ Cardinality(Scheduled(deliveries)) \in Nat
    BY DeliveriesFinite DEF DispatcherInv
<1>10. /\ IsFiniteSet(Scheduled(deliveries) \ {d})
       /\ Cardinality(Scheduled(deliveries) \ {d}) = Cardinality(Scheduled(deliveries)) - 1
    BY <1>8, <1>9, FS_RemoveElement
<1>11. Cardinality(Scheduled(deliveries')) = Cardinality(Scheduled(deliveries) \ {d}) + 1
    BY <1>7, <1>8, <1>10, FS_AddElement
<1>12. PermitsKept'
    BY <1>9, <1>10, <1>11 DEF DispatcherInv, PermitsKept
<1>13. \A e : Posting(deliveries', e) = Posting(deliveries, e) \ {d}
    BY <1>1, <1>3 DEF Posting
<1>14. QED
    BY <1>6, <1>12, <1>13

\* A thread that ends gives its permit back, once.
LEMMA Leaves ==
    ASSUME DispatcherInv, NEW d \in deliveries, leaves(d)
    PROVE  PermitsKept' /\ deliveries' \subseteq deliveries
<1>1. deliveries' = deliveries \ {d} /\ slots' = IF d.pc = "unscheduled" THEN slots ELSE slots + 1
    BY DEF leaves
<1>2. IsFiniteSet(Scheduled(deliveries)) /\ Cardinality(Scheduled(deliveries)) \in Nat
    BY DeliveriesFinite DEF DispatcherInv
<1>3. Scheduled(deliveries') = Scheduled(deliveries) \ {d}
    BY <1>1 DEF Scheduled
<1>4. d \in Scheduled(deliveries) <=> d.pc # "unscheduled"
    BY DEF Scheduled
<1>5. Cardinality(Scheduled(deliveries')) =
          IF d.pc = "unscheduled" THEN Cardinality(Scheduled(deliveries))
                                  ELSE Cardinality(Scheduled(deliveries)) - 1
    BY <1>2, <1>3, <1>4, FS_RemoveElement
<1>6. QED
    BY <1>1, <1>2, <1>5 DEF DispatcherInv, PermitsKept

\* A thread posts, or hangs: a claim that has not posted pays for the sends.
LEMMA ThreadMoves ==
    ASSUME DispatcherInv, NEW d \in deliveries, Deliver(d) \/ PersistRaises(d) \/ DeliveryHangs(d)
    PROVE  DispatcherInv'
<1>1. d \in Delivery /\ d.event \in Events /\ d.verdict \in Verdicts
    BY DEF DispatcherInv, Distinct, Delivery
<1>2. UNCHANGED <<outbox, slots, cuts>> /\ d.pc # "unscheduled"
    BY DEF Deliver, PersistRaises, DeliveryHangs
<1>3. \E pc \in {"persist", "boundary", "hung"}, verdict \in Verdicts : moves(d, pc, verdict)
    BY <1>1 DEF Deliver, PersistRaises, DeliveryHangs, Verdicts
<1>4. /\ Distinct' /\ PermitsKept'
      /\ \A e : Posting(deliveries', e) = Posting(deliveries, e) \ {d}
    BY <1>2, <1>3, Moves DEF DeliveryPcs
<1>5. \/ posts' = posts
      \/ d.pc = "posting" /\ \E n \in 1..Addresses :
                                posts' = [posts EXCEPT ![d.event] = posts[d.event] + n]
    BY DEF Deliver, PersistRaises, DeliveryHangs
<1>6. Addresses \in Nat /\ posts \in [Events -> Nat]
    BY NotifierAssumption DEF DispatcherInv, RowTypes
<1>7. RowTypes'
    BY <1>1, <1>2, <1>5, <1>6 DEF DispatcherInv, RowTypes
<1>8. ClaimsPaid'
    BY <1>2 DEF DispatcherInv, ClaimsPaid, InProgress
<1>9. ASSUME NEW e \in Events
      PROVE  posts'[e] + Addresses * Cardinality(Posting(deliveries', e))
                <= Addresses * outbox'[e].issued
    <2> DEFINE k == Cardinality(Posting(deliveries, e))
               j == Cardinality(Posting(deliveries', e))
    <2>1. k \in Nat /\ IsFiniteSet(Posting(deliveries, e))
        BY DeliveriesFinite DEF DispatcherInv
    <2>2. j = IF d \in Posting(deliveries, e) THEN k - 1 ELSE k
        BY <1>4, <2>1, FS_RemoveElement
    <2>3. d \in Posting(deliveries, e) => k > 0
        BY <2>1, FS_EmptySet
    <2>4. /\ outbox'[e].issued = outbox[e].issued /\ outbox[e].issued \in Nat
          /\ posts[e] \in Nat /\ posts[e] + Addresses * k <= Addresses * outbox[e].issued
        BY <1>2, <1>6 DEF DispatcherInv, RowTypes, Event, PostsBounded
    <2>5. d \in Posting(deliveries, e) <=> d.event = e /\ d.pc = "posting"
        BY DEF Posting
    <2>6. \/ posts'[e] = posts[e]
          \/ d \in Posting(deliveries, e) /\ \E n \in 1..Addresses : posts'[e] = posts[e] + n
        BY <1>1, <1>5, <1>6, <2>5
    <2> HIDE DEF j, k
    <2>7. CASE d \in Posting(deliveries, e)
        <3>1. j \in Nat /\ k = j + 1
            BY <2>1, <2>2, <2>3, <2>7
        <3>2. Addresses * k = Addresses * j + Addresses /\ Addresses * j \in Nat
            BY <3>1, <1>6
        <3>3. posts'[e] \in Nat /\ posts'[e] <= posts[e] + Addresses
            BY <1>6, <2>4, <2>6
        <3>4. Addresses * outbox[e].issued \in Nat
            BY <1>6, <2>4
        <3>5. ASSUME NEW x \in Nat, NEW y \in Nat, Addresses * k = x + Addresses,
                     posts[e] + Addresses * k <= y
              PROVE  posts'[e] + x <= y
            BY <3>3, <3>5, <1>6, <2>4
        <3>6. QED
            BY <3>2, <3>4, <3>5, <2>4 DEF j
    <2>8. CASE d \notin Posting(deliveries, e)
        BY <2>2, <2>4, <2>6, <2>8 DEF j
    <2>9. QED
        BY <2>7, <2>8
<1>10. QED
    BY <1>4, <1>7, <1>8, <1>9 DEF DispatcherInv, PostsBounded

\* A thread ends: the outcome it may have written pays for its claim.
LEMMA ThreadEnds ==
    ASSUME DispatcherInv, NEW d \in deliveries, Persist(d) \/ Boundary(d) \/ Unpersisted(d)
    PROVE  DispatcherInv'
<1>1. d \in Delivery /\ d.event \in Events /\ d.verdict \in Verdicts
    BY DEF DispatcherInv, Distinct, Delivery
<1>2. leaves(d) /\ UNCHANGED <<posts, cuts>>
    BY DEF Persist, Boundary, Unpersisted
<1>3. PermitsKept' /\ deliveries' \subseteq deliveries
    BY <1>2, Leaves
<1> DEFINE row == outbox[d.event]
<1>4. row \in Event /\ outbox \in [Events -> Event]
    BY <1>1 DEF DispatcherInv, RowTypes
<1>5. \/ outbox' = outbox
      \/ /\ row.state = "delivering"
         /\ \/ outbox' = outbox_delivered(d.event)
            \/ \E permanent \in BOOLEAN : outbox' = outbox_failed(d.event, permanent)
    <2>1. \/ retry_delivery(d) = outbox_failed(d.event, TRUE)
          \/ retry_delivery(d) = outbox_failed(d.event, FALSE)
        BY DEF retry_delivery, outbox_failed
    <2>2. \/ outbox' = outbox
          \/ Current(d) /\ \/ outbox' = outbox_delivered(d.event)
                           \/ outbox' = outbox_failed(d.event, TRUE)
                           \/ outbox' = retry_delivery(d)
        BY <1>1 DEF Persist, Boundary, Unpersisted, Outcome, Verdicts
    <2>3. QED
        BY <2>1, <2>2 DEF Current
<1>6. /\ \A e \in Events : e # d.event => outbox'[e] = outbox[e]
      /\ outbox' \in [Events -> Event]
      /\ outbox'[d.event].issued = row.issued
      /\ \/ outbox' = outbox
         \/ /\ row.state = "delivering" /\ outbox'[d.event].state = "delivered"
            /\ outbox'[d.event].attempts = row.attempts
         \/ /\ row.state = "delivering" /\ outbox'[d.event].state \in {"pending", "dead"}
            /\ outbox'[d.event].attempts = row.attempts + 1
    <2>1. CASE outbox' = outbox
        BY <2>1, <1>4
    <2>2. CASE row.state = "delivering" /\ outbox' = outbox_delivered(d.event)
        BY <2>2, <1>1, <1>4 DEF outbox_delivered, Event
    <2>3. CASE row.state = "delivering" /\ \E permanent \in BOOLEAN :
                                              outbox' = outbox_failed(d.event, permanent)
        BY <2>3, <1>1, <1>4 DEF outbox_failed, Event
    <2>4. QED
        BY <1>5, <2>1, <2>2, <2>3
<1>7. RowTypes'
    BY <1>2, <1>6 DEF DispatcherInv, RowTypes
<1>8. Distinct' /\ PostsBounded'
    BY <1>2, <1>3, <1>6, <1>7, NoClaim
<1>9. ClaimsPaid'
    <2>1. \A e \in Events : /\ outbox[e].issued \in Nat /\ outbox[e].attempts \in Nat
                            /\ cuts[e] \in Nat
        BY DEF DispatcherInv, RowTypes, Event
    <2>2. QED
        BY <1>1, <1>2, <1>6, <2>1 DEF DispatcherInv, ClaimsPaid, InProgress
<1>10. QED
    BY <1>3, <1>7, <1>8, <1>9 DEF DispatcherInv

\* The rows the store writes are rows.
LEMMA RowUpdates ==
    ASSUME NEW r \in Event
    PROVE  /\ [r EXCEPT !.state = "pending", !.due = TRUE, !.delivery = 0] \in Event
           /\ [r EXCEPT !.state = "pending", !.delivery = 0] \in Event
           /\ [r EXCEPT !.state = "delivering", !.due = FALSE, !.delivery = r.issued + 1,
                        !.issued = @ + 1] \in Event
<1>1. ASSUME NEW s \in {"pending", "delivering"}, NEW b \in BOOLEAN, NEW i \in Nat, NEW n \in Nat
      PROVE  /\ [r EXCEPT !.state = s, !.due = b, !.delivery = i, !.issued = n] \in Event
             /\ [r EXCEPT !.state = s, !.due = b, !.delivery = i] \in Event
    BY DEF Event
<1>2. [r EXCEPT !.state = "pending", !.delivery = 0] \in Event
    BY DEF Event
<1>3. r.issued + 1 \in Nat
    BY DEF Event
<1>4. QED
    BY <1>1, <1>2, <1>3

\* A worker opens the store: the attempts of the last one are cut.
LEMMA ResumeKeeps ==
    ASSUME DispatcherInv, Resume, UNCHANGED <<deliveries, slots, posts>>
    PROVE  DispatcherInv'
<1>1. outbox \in [Events -> Event] /\ cuts \in [Events -> Nat]
    BY DEF DispatcherInv, RowTypes
<1>2. \A e \in Events :
          /\ outbox'[e] \in Event /\ cuts'[e] \in Nat
          /\ outbox'[e].issued = outbox[e].issued /\ outbox'[e].attempts = outbox[e].attempts
          /\ \/ outbox'[e].state = outbox[e].state /\ cuts'[e] = cuts[e]
             \/ cuts'[e] = cuts[e] + 1
    <2>1. SUFFICES ASSUME NEW e \in Events
                   PROVE  /\ outbox'[e] \in Event /\ cuts'[e] \in Nat
                          /\ outbox'[e].issued = outbox[e].issued
                          /\ outbox'[e].attempts = outbox[e].attempts
                          /\ \/ outbox'[e].state = outbox[e].state /\ cuts'[e] = cuts[e]
                             \/ cuts'[e] = cuts[e] + 1
        OBVIOUS
    <2>2. outbox[e] \in Event /\ cuts[e] \in Nat
        BY <1>1
    <2>3. CASE outbox[e].state = "delivering"
        <3>1. /\ outbox'[e] = [outbox[e] EXCEPT !.state = "pending", !.due = TRUE, !.delivery = 0]
              /\ cuts'[e] = cuts[e] + 1
            BY <2>3 DEF Resume
        <3>2. outbox'[e] \in Event
            BY <2>2, <3>1, RowUpdates
        <3>3. outbox'[e].issued = outbox[e].issued /\ outbox'[e].attempts = outbox[e].attempts
            BY <2>2, <3>1 DEF Event
        <3>4. QED
            BY <2>2, <3>1, <3>2, <3>3
    <2>4. CASE outbox[e].state # "delivering"
        BY <2>2, <2>4 DEF Resume
    <2>5. QED
        BY <2>3, <2>4
<1>3. RowTypes'
    <2>1. outbox' = [e \in Events |-> outbox'[e]] /\ cuts' = [e \in Events |-> cuts'[e]]
        BY DEF Resume
    <2>2. QED
        BY <1>2, <2>1 DEF DispatcherInv, RowTypes
<1>4. Distinct' /\ PostsBounded'
    BY <1>2, <1>3, NoClaim
<1>5. ClaimsPaid'
    <2>1. \A e \in Events : outbox[e].issued \in Nat /\ outbox[e].attempts \in Nat /\ cuts[e] \in Nat
        BY <1>1 DEF Event
    <2>2. QED
        BY <1>2, <2>1 DEF DispatcherInv, ClaimsPaid, InProgress
<1>6. PermitsKept'
    BY DEF DispatcherInv, PermitsKept
<1>7. QED
    BY <1>3, <1>4, <1>5, <1>6 DEF DispatcherInv

\* A worker that dies takes its deliveries with it; the next one has every permit.
LEMMA FreshKeeps ==
    ASSUME DispatcherInv, FreshDispatcher, UNCHANGED <<outbox, posts, cuts>>
    PROVE  DispatcherInv'
<1>1. deliveries' = {} /\ slots' = MaxDeliveries /\ MaxDeliveries \in Nat
    BY NotifierAssumption DEF FreshDispatcher
<1>2. RowTypes' /\ ClaimsPaid'
    BY DEF DispatcherInv, RowTypes, ClaimsPaid, InProgress
<1>3. Distinct' /\ PostsBounded'
    BY <1>1, <1>2, NoClaim
<1>4. Scheduled(deliveries') = {}
    BY <1>1 DEF Scheduled
<1>5. PermitsKept'
    BY <1>1, <1>4, FS_EmptySet DEF PermitsKept
<1>6. QED
    BY <1>2, <1>3, <1>5 DEF DispatcherInv

\* The clock only makes rows due.
LEMMA DueKeeps ==
    ASSUME DispatcherInv, NEW e \in Events, outbox' = [outbox EXCEPT ![e].due = TRUE],
           UNCHANGED <<deliveries, slots, posts, cuts>>
    PROVE  DispatcherInv'
<1>1. outbox \in [Events -> Event]
    BY DEF DispatcherInv, RowTypes
<1>2. /\ outbox' \in [Events -> Event]
      /\ \A f \in Events : /\ outbox'[f].issued = outbox[f].issued
                           /\ outbox'[f].attempts = outbox[f].attempts
                           /\ outbox'[f].state = outbox[f].state
    BY <1>1 DEF Event
<1>3. RowTypes' /\ ClaimsPaid'
    BY <1>2 DEF DispatcherInv, RowTypes, ClaimsPaid, InProgress
<1>4. Distinct' /\ PostsBounded'
    BY <1>2, <1>3, NoClaim
<1>5. PermitsKept'
    BY DEF DispatcherInv, PermitsKept
<1>6. QED
    BY <1>3, <1>4, <1>5 DEF DispatcherInv

\* The records of one claim are as many as its events.
LEMMA RecordsCounted ==
    ASSUME NEW es \in SUBSET Events, NEW pc
    PROVE  /\ IsFiniteSet({Record(e, pc) : e \in es})
           /\ Cardinality({Record(e, pc) : e \in es}) = Cardinality(es)
<1> DEFINE T == {Record(e, pc) : e \in es}
           f == [e \in es |-> Record(e, pc)]
<1>1. IsFiniteSet(es)
    BY NotifierAssumption, FS_Subset
<1>2. \A e \in es : Record(e, pc).event = e
    BY DEF Record
<1>3. f \in Surjection(es, T)
    BY DEF Surjection
<1>4. f \in Injection(es, T)
    <2>1. f \in [es -> T] /\ \A a \in es : f[a] = Record(a, pc)
        OBVIOUS
    <2>2. \A a, b \in es : f[a] = f[b] => a = b
        BY <1>2, <2>1
    <2> HIDE DEF f, T
    <2>3. QED
        BY <2>1, <2>2 DEF Injection, IsInjective
<1>5. QED
    BY <1>1, <1>3, <1>4, FS_Surjection

\* One pass of the notification loop: every permit it takes and every id it mints
\* is one record.
LEMMA ClaimKeeps ==
    ASSUME DispatcherInv, NEW events, NEW refused, Claim(events, refused)
    PROVE  DispatcherInv'
<1> DEFINE taken == events \ refused
           new == {Record(e, "posting") : e \in taken}
           left == {Record(e, "unscheduled") : e \in refused}
<1>1. /\ outbox \in [Events -> Event] /\ cuts \in [Events -> Nat] /\ posts \in [Events -> Nat]
      /\ slots \in Nat
      /\ posts' = posts /\ refused \subseteq events
      /\ deliveries' = (deliveries \cup new) \cup left
      /\ slots' = slots - Cardinality(taken)
    BY DEF DispatcherInv, RowTypes, PermitsKept, Claim
<1>2. /\ events \subseteq Events
      /\ \A e \in events : outbox[e].state \notin {"delivered", "dead"} /\ outbox[e].due
    BY DEF Claim, kSubset, DueEvents, Settled
<1>3. taken \in SUBSET Events /\ refused \in SUBSET Events
    BY <1>1, <1>2
<1>4. IsFiniteSet(events) /\ Cardinality(events) \in Nat
    BY <1>2, NotifierAssumption, FS_Subset, FS_CardinalityType
<1>5. Cardinality(events) <= slots
    <2>1. DueEvents \in SUBSET Events
        BY DEF DueEvents
    <2>2. Cardinality(DueEvents) \in Nat
        BY <2>1, NotifierAssumption, FS_Subset, FS_CardinalityType
    <2>3. Cardinality(events) = Min({slots, Cardinality(DueEvents)})
        BY DEF Claim, kSubset
    <2>4. \E x \in {slots, Cardinality(DueEvents)} :
              \A y \in {slots, Cardinality(DueEvents)} : x <= y
        BY <1>1, <2>2
    <2>5. QED
        BY <2>3, <2>4 DEF Min
<1>6. /\ IsFiniteSet(taken) /\ Cardinality(taken) \in Nat
      /\ Cardinality(taken) <= Cardinality(events)
    BY <1>4, FS_Subset, FS_CardinalityType
<1>7. /\ IsFiniteSet(new) /\ Cardinality(new) = Cardinality(taken)
      /\ IsFiniteSet(left)
    BY <1>3, RecordsCounted
<1>8. \A e \in Events, pc \in DeliveryPcs :
          /\ Record(e, pc) \in Delivery /\ Record(e, pc).event = e /\ Record(e, pc).pc = pc
          /\ Record(e, pc).id = outbox[e].issued + 1
    BY <1>1 DEF Record, Delivery, Event, Verdicts
<1>9. \A d \in new : /\ d \in Delivery /\ d.event \in taken /\ d.pc = "posting"
                     /\ d.id = outbox[d.event].issued + 1
    BY <1>3, <1>8 DEF DeliveryPcs
<1>10. \A d \in left : /\ d \in Delivery /\ d.event \in refused /\ d.pc = "unscheduled"
                       /\ d.id = outbox[d.event].issued + 1
    BY <1>3, <1>8 DEF DeliveryPcs
<1>11. \A c, d \in new \cup left : c.event = d.event => c = d
    BY <1>3, <1>8, <1>9, <1>10 DEF DeliveryPcs
<1>12. \A d \in deliveries : /\ d \in Delivery /\ d.event \in Events /\ d.id \in Nat
                             /\ d.id <= outbox[d.event].issued
    BY DEF DispatcherInv, Distinct, Delivery
<1>13. \A e \in Events :
          /\ outbox'[e] \in Event /\ cuts'[e] \in Nat
          /\ e \in events => /\ outbox'[e].issued = outbox[e].issued + 1
                             /\ outbox'[e].state = "delivering"
                             /\ outbox'[e].attempts = outbox[e].attempts
          /\ e \notin events => /\ outbox'[e].issued = outbox[e].issued
                                /\ outbox'[e].attempts = outbox[e].attempts
          /\ e \in events => \/ cuts'[e] = cuts[e] /\ outbox[e].state = "pending"
                             \/ cuts'[e] = cuts[e] + 1
          /\ e \notin events => \/ cuts'[e] = cuts[e] /\ outbox'[e].state = outbox[e].state
                                \/ cuts'[e] = cuts[e] + 1
    <2> SUFFICES ASSUME NEW e \in Events
                 PROVE
                     /\ outbox'[e] \in Event /\ cuts'[e] \in Nat
                     /\ e \in events => /\ outbox'[e].issued = outbox[e].issued + 1
                                        /\ outbox'[e].state = "delivering"
                                        /\ outbox'[e].attempts = outbox[e].attempts
                     /\ e \notin events => /\ outbox'[e].issued = outbox[e].issued
                                           /\ outbox'[e].attempts = outbox[e].attempts
                     /\ e \in events => \/ cuts'[e] = cuts[e] /\ outbox[e].state = "pending"
                                        \/ cuts'[e] = cuts[e] + 1
                     /\ e \notin events =>
                            \/ cuts'[e] = cuts[e] /\ outbox'[e].state = outbox[e].state
                            \/ cuts'[e] = cuts[e] + 1
        OBVIOUS
    <2>1. outbox[e] \in Event /\ cuts[e] \in Nat
        BY <1>1
    <2>2. /\ outbox' = Claimed(events)
          /\ cuts'[e] = IF e \in LapsedEvents THEN cuts[e] + 1 ELSE cuts[e]
        BY DEF Claim
    <2>3. CASE e \in events
        <3>1. outbox'[e] = [outbox[e] EXCEPT !.state = "delivering", !.due = FALSE,
                                             !.delivery = outbox[e].issued + 1, !.issued = @ + 1]
            BY <2>2, <2>3 DEF Claimed
        <3>2. outbox'[e] \in Event
            BY <2>1, <3>1, RowUpdates
        <3>3. /\ outbox'[e].issued = outbox[e].issued + 1 /\ outbox'[e].state = "delivering"
              /\ outbox'[e].attempts = outbox[e].attempts
            BY <2>1, <3>1 DEF Event
        <3>4. e \notin LapsedEvents => outbox[e].state = "pending"
            BY <1>2, <2>1, <2>3 DEF LapsedEvents, DueEvents, Settled, Event
        <3>5. QED
            BY <2>1, <2>2, <2>3, <3>2, <3>3, <3>4
    <2>4. CASE e \in LapsedEvents \ events
        <3>1. outbox'[e] = [outbox[e] EXCEPT !.state = "pending", !.delivery = 0]
            BY <2>2, <2>4 DEF Claimed
        <3>2. outbox'[e] \in Event
            BY <2>1, <3>1, RowUpdates
        <3>3. outbox'[e].issued = outbox[e].issued /\ outbox'[e].attempts = outbox[e].attempts
            BY <2>1, <3>1 DEF Event
        <3>4. QED
            BY <2>1, <2>2, <2>4, <3>2, <3>3
    <2>5. CASE e \notin events /\ e \notin LapsedEvents
        <3>1. outbox'[e] = outbox[e]
            BY <2>2, <2>5 DEF Claimed
        <3>2. QED
            BY <2>1, <2>2, <2>5, <3>1
    <2>6. QED
        BY <2>3, <2>4, <2>5
<1>14. RowTypes'
    <2>1. outbox' = [e \in Events |-> outbox'[e]]
        BY DEF Claim, Claimed
    <2>2. cuts' = [e \in Events |-> cuts'[e]]
        BY DEF Claim
    <2>3. QED
        BY <1>1, <1>13, <2>1, <2>2 DEF RowTypes
<1>15. \A e \in Events : /\ outbox[e].issued \in Nat /\ outbox[e].attempts \in Nat
                         /\ cuts[e] \in Nat /\ posts[e] \in Nat
    BY <1>1 DEF Event
<1>16. ClaimsPaid'
    <2>1. \A e \in Events : outbox[e].issued <= outbox[e].attempts + cuts[e] + InProgress(e)
        BY DEF DispatcherInv, ClaimsPaid
    <2>2. QED
        BY <1>13, <1>15, <2>1 DEF ClaimsPaid, InProgress
<1> HIDE DEF new, left, taken
<1>17. Distinct'
    <2>1. IsFiniteSet(deliveries)
        BY DEF DispatcherInv, Distinct
    <2>2. IsFiniteSet(deliveries')
        BY <2>1, <1>1, <1>7, FS_Union
    <2>3. \A d \in deliveries' : /\ d \in Delivery /\ d.id <= outbox'[d.event].issued
        <3>1. \A d \in deliveries : d.id <= outbox'[d.event].issued
            BY <1>12, <1>13, <1>15
        <3>2. \A d \in new \cup left : d.event \in events
            BY <1>1, <1>9, <1>10 DEF taken
        <3>3. \A d \in new \cup left : d.event \in Events /\ d.id = outbox'[d.event].issued
            BY <3>2, <1>2, <1>9, <1>10, <1>13
        <3>4. \A d \in new \cup left : d.id <= outbox'[d.event].issued
            BY <3>3, <1>13, <1>15, <1>9, <1>10
        <3>5. QED
            BY <3>1, <3>4, <1>1, <1>9, <1>10, <1>12
    <2>4. ASSUME NEW c \in deliveries', NEW d \in deliveries', c.event = d.event, c.id = d.id
          PROVE  c = d
        <3>1. ASSUME NEW a \in deliveries, NEW b \in new \cup left, a.event = b.event
              PROVE  a.id # b.id
            BY <3>1, <1>9, <1>10, <1>12, <1>15
        <3>2. CASE c \in deliveries /\ d \in deliveries
            BY <2>4, <3>2 DEF DispatcherInv, Distinct
        <3>3. CASE c \in new \cup left /\ d \in new \cup left
            BY <2>4, <3>3, <1>11
        <3>4. QED
            BY <2>4, <3>1, <3>2, <3>3, <1>1
    <2>5. QED
        BY <2>2, <2>3, <2>4 DEF Distinct
<1>18. PermitsKept'
    <2>1. Scheduled(deliveries') = Scheduled(deliveries) \cup new
        BY <1>1, <1>9, <1>10 DEF Scheduled
    <2>2. Scheduled(deliveries) \cap new = {}
        BY <1>9, <1>12, <1>15 DEF Scheduled
    <2>3. IsFiniteSet(Scheduled(deliveries)) /\ Cardinality(Scheduled(deliveries)) \in Nat
        BY DeliveriesFinite DEF DispatcherInv
    <2>4. Cardinality(Scheduled(deliveries')) =
              Cardinality(Scheduled(deliveries)) + Cardinality(new)
                  - Cardinality(Scheduled(deliveries) \cap new)
        BY <2>1, <2>3, <1>7, FS_Union
    <2>5. Cardinality(Scheduled(deliveries) \cap new) = 0
        BY <2>2, FS_EmptySet
    <2>6. slots + Cardinality(Scheduled(deliveries)) = MaxDeliveries
        BY DEF DispatcherInv, PermitsKept
    <2>7. QED
        BY <2>3, <2>4, <2>5, <2>6, <1>1, <1>4, <1>5, <1>6, <1>7 DEF PermitsKept
<1>19. PostsBounded'
    <2>1. SUFFICES ASSUME NEW e \in Events
                   PROVE  posts'[e] + Addresses * Cardinality(Posting(deliveries', e))
                             <= Addresses * outbox'[e].issued
        BY DEF PostsBounded
    <2> DEFINE k == Cardinality(Posting(deliveries, e))
               j == Cardinality(Posting(deliveries', e))
    <2>2. k \in Nat /\ IsFiniteSet(Posting(deliveries, e))
        BY DeliveriesFinite DEF DispatcherInv
    <2>3. posts[e] + Addresses * k <= Addresses * outbox[e].issued
        BY DEF DispatcherInv, PostsBounded
    <2>4. Addresses \in Nat
        BY NotifierAssumption
    <2>5. CASE e \in taken
        <3>1. e \in events /\ Record(e, "posting") \in new
            BY <2>5 DEF taken, new
        <3>2. Record(e, "posting").event = e /\ Record(e, "posting").pc = "posting"
            BY DEF Record
        <3>3. Posting(deliveries', e) = Posting(deliveries, e) \cup {Record(e, "posting")}
            BY <1>1, <1>9, <1>10, <1>11, <3>1, <3>2 DEF Posting
        <3>4. Record(e, "posting") \notin Posting(deliveries, e)
            BY <1>9, <1>12, <1>15, <3>1 DEF Posting
        <3>5. j = k + 1
            BY <3>3, <3>4, <2>2, FS_AddElement
        <3>6. outbox'[e].issued = outbox[e].issued + 1 /\ posts'[e] = posts[e]
            BY <3>1, <1>1, <1>13
        <3> HIDE DEF j, k
        <3>7. /\ Addresses * (k + 1) = Addresses * k + Addresses
              /\ Addresses * (outbox[e].issued + 1) = Addresses * outbox[e].issued + Addresses
              /\ Addresses * k \in Nat /\ Addresses * outbox[e].issued \in Nat
            BY <2>2, <2>4, <1>15
        <3>8. ASSUME NEW x \in Nat, NEW y \in Nat, posts[e] + x <= y
              PROVE  posts[e] + (x + Addresses) <= y + Addresses
            BY <3>8, <2>4, <1>15
        <3>9. posts[e] + Addresses * j <= Addresses * outbox'[e].issued
            BY <2>3, <3>5, <3>6, <3>7, <3>8
        <3>10. QED
            BY <3>6, <3>9 DEF j
    <2>6. CASE e \notin taken
        <3>1. Posting(deliveries', e) = Posting(deliveries, e)
            BY <2>6, <1>1, <1>9, <1>10 DEF Posting
        <3>2. CASE e \notin events
            BY <3>1, <3>2, <2>3, <1>1, <1>13
        <3>3. CASE e \in events
            <4>1. outbox'[e].issued = outbox[e].issued + 1 /\ posts'[e] = posts[e]
                BY <3>3, <1>1, <1>13
            <4> HIDE DEF k
            <4>2. /\ Addresses * (outbox[e].issued + 1) = Addresses * outbox[e].issued + Addresses
                  /\ Addresses * k \in Nat /\ Addresses * outbox[e].issued \in Nat
                BY <2>2, <2>4, <1>15
            <4>3. ASSUME NEW x \in Nat, NEW y \in Nat, posts[e] + x <= y
                  PROVE  posts[e] + x <= y + Addresses
                BY <4>3, <2>4, <1>15
            <4>4. posts[e] + Addresses * k <= Addresses * outbox'[e].issued
                BY <2>3, <4>1, <4>2, <4>3
            <4>5. QED
                BY <4>1, <4>4, <3>1 DEF k
        <3>4. QED
            BY <3>2, <3>3
    <2>7. QED
        BY <2>5, <2>6
<1>20. QED
    BY <1>14, <1>16, <1>17, <1>18, <1>19 DEF DispatcherInv

\* What a step of the system does to the outbox and its deliveries.
DispatcherEffect ==
    \/ UNCHANGED <<outbox, deliveries, slots, posts, cuts>>
    \/ FreshDispatcher /\ UNCHANGED <<outbox, posts, cuts>>
    \/ Resume /\ UNCHANGED <<deliveries, slots, posts>>
    \/ \E e \in Events : /\ outbox' = [outbox EXCEPT ![e].due = TRUE]
                         /\ UNCHANGED <<deliveries, slots, posts, cuts>>
    \/ \E events, refused : Claim(events, refused)
    \/ \E d \in deliveries : DeliveryStep(d) \/ DeliveryHangs(d)

\* Every step of the master, the worker, the clock and the faults has one of the
\* effects of the dispatcher.
LEMMA DispatcherEffects ==
    ASSUME [Next]_vars
    PROVE  DispatcherEffect
<1>1. CASE UNCHANGED notifierVars
    BY <1>1 DEF notifierVars, dispatcher, DispatcherEffect
<1>2. CASE Dies
    BY <1>2 DEF Dies, DispatcherEffect
<1>3. CASE MasterStep
    BY <1>1, <1>2, <1>3 DEF MasterStep, StartWorker, Serve, BeginDrain, NoticeExit, EndDrain,
         LastMessages, CleanupOrphans, EndGeneration, EndBackoff, ReturnStopped, Terminate
<1>4. CASE WorkerStep
    <2>1. CASE OpenFails \/ Close \/ ParentGone \/ HeartbeatEnds \/ SessionsStep
        BY <2>1, <1>1, <1>2 DEF OpenFails, Close, ParentGone, Terminate, HeartbeatEnds,
             SessionsStep
    <2>2. CASE Open
        BY <2>2 DEF Open, dispatcher, DispatcherEffect
    <2>3. CASE DispatcherStep
        BY <2>3, Zenon DEF DispatcherStep, NotificationLoop, DispatcherEffect
    <2>4. QED
        BY <1>4, <2>1, <2>2, <2>3 DEF WorkerStep
<1>5. CASE RequestStop \/ UNCHANGED vars
    BY <1>5, <1>1 DEF RequestStop, vars
<1>6. CASE Environment
    <2>1. CASE \E e \in Events : BecomesDue(e)
        BY <2>1 DEF BecomesDue, dispatcher, DispatcherEffect
    <2>2. CASE StoreRecovers \/ GrowsStale
        BY <2>2 DEF StoreRecovers, GrowsStale, dispatcher, DispatcherEffect
    <2>3. QED
        BY <1>6, <1>1, <2>1, <2>2 DEF Environment
<1>7. CASE Fault
    <2>1. CASE ProcessFault \/ SessionFault \/ CleanupFault
        BY <2>1, <1>1, <1>2 DEF ProcessFault, SessionFault, CleanupFault
    <2>2. CASE DispatcherFault
        <3>1. CASE StoreFails
            BY <3>1 DEF StoreFails, dispatcher, DispatcherEffect
        <3>2. CASE \E d \in deliveries : DeliveryHangs(d)
            BY <3>2, Zenon DEF DispatcherEffect
        <3>3. CASE \E e \in Events : LeaseLapses(e)
            BY <3>3 DEF LeaseLapses, dispatcher, DispatcherEffect
        <3>4. CASE SchedulingFails
            BY <3>4, Zenon DEF SchedulingFails, DispatcherEffect
        <3>5. QED
            BY <2>2, <3>1, <3>2, <3>3, <3>4 DEF DispatcherFault
    <2>3. QED
        BY <1>7, <2>1, <2>2 DEF Fault
<1>8. QED
    BY <1>3, <1>4, <1>5, <1>6, <1>7 DEF Next

\* Every step keeps the invariant of the dispatcher.
LEMMA DispatcherKept ==
    ASSUME DispatcherInv, [Next]_vars
    PROVE  DispatcherInv'
<1>1. DispatcherEffect
    BY DispatcherEffects
<1>2. CASE UNCHANGED <<outbox, deliveries, slots, posts, cuts>>
    <2>1. RowTypes' /\ PermitsKept'
        BY <1>2 DEF DispatcherInv, RowTypes, PermitsKept
    <2>2. ClaimsPaid' /\ PostsBounded'
        BY <1>2 DEF DispatcherInv, ClaimsPaid, PostsBounded, InProgress
    <2>3. Distinct'
        BY <1>2 DEF DispatcherInv, Distinct
    <2>4. QED
        BY <2>1, <2>2, <2>3 DEF DispatcherInv
<1>3. CASE FreshDispatcher /\ UNCHANGED <<outbox, posts, cuts>>
    BY <1>3, FreshKeeps
<1>4. CASE Resume /\ UNCHANGED <<deliveries, slots, posts>>
    BY <1>4, ResumeKeeps
<1>5. CASE \E e \in Events : /\ outbox' = [outbox EXCEPT ![e].due = TRUE]
                             /\ UNCHANGED <<deliveries, slots, posts, cuts>>
    BY <1>5, DueKeeps
<1>6. CASE \E events, refused : Claim(events, refused)
    BY <1>6, ClaimKeeps
<1>7. CASE \E d \in deliveries : DeliveryStep(d) \/ DeliveryHangs(d)
    BY <1>7, ThreadMoves, ThreadEnds DEF DeliveryStep
<1>8. QED
    BY <1>1, <1>2, <1>3, <1>4, <1>5, <1>6, <1>7 DEF DispatcherEffect

\* The dispatcher's permits, ids and posts stay accounted for in every reachable state.
THEOREM DispatcherInvariant == Spec => []DispatcherInv
<1>1. Init => DispatcherInv
    <2>1. SUFFICES ASSUME Init PROVE DispatcherInv
        OBVIOUS
    <2>2. /\ outbox = [e \in Events |-> [state |-> "pending", attempts |-> 0, due |-> TRUE,
                                         delivery |-> 0, issued |-> 0]]
          /\ deliveries = {} /\ slots = MaxDeliveries /\ MaxDeliveries \in Nat
          /\ posts = [e \in Events |-> 0] /\ cuts = [e \in Events |-> 0]
        BY <2>1, NotifierAssumption DEF Init, SupervisorInit, NotifierInit
    <2>3. RowTypes
        BY <2>2 DEF RowTypes, Event
    <2>4. Distinct
        BY <2>2, FS_EmptySet DEF Distinct
    <2>5. PermitsKept
        <3>1. Scheduled(deliveries) = {}
            BY <2>2 DEF Scheduled
        <3>2. QED
            BY <2>2, <3>1, FS_EmptySet DEF PermitsKept
    <2>6. ClaimsPaid
        BY <2>2 DEF ClaimsPaid, InProgress
    <2>7. PostsBounded
        <3>1. \A e : Posting(deliveries, e) = {}
            BY <2>2 DEF Posting
        <3>2. Addresses \in Nat /\ Cardinality({}) = 0
            BY NotifierAssumption, FS_EmptySet
        <3>3. QED
            BY <2>2, <3>1, <3>2 DEF PostsBounded
    <2>8. QED
        BY <2>3, <2>4, <2>5, <2>6, <2>7 DEF DispatcherInv
<1>2. DispatcherInv /\ [Next]_vars => DispatcherInv'
    BY DispatcherKept
<1>3. QED
    BY <1>1, <1>2, PTL DEF Spec

\* An event is sent at most once per address and claim, and every claim is paid for,
\* for any number of events, deliveries, outages, lapsed leases and worker restarts
\* (claim_outbox_due, _deliver).
THEOREM PostsAccountedHolds == Spec => []PostsAccounted
<1>1. DispatcherInv => PostsAccounted
    <2>1. SUFFICES ASSUME DispatcherInv, NEW e \in Events
                   PROVE  posts[e] <= Addresses * (outbox[e].attempts + cuts[e] + InProgress(e))
        BY DEF PostsAccounted, InProgress
    <2> DEFINE k == Cardinality(Posting(deliveries, e))
               i == outbox[e].issued
               n == outbox[e].attempts + cuts[e] + InProgress(e)
    <2>2. k \in Nat
        BY <2>1, DeliveriesFinite DEF DispatcherInv
    <2>3. posts[e] \in Nat /\ i \in Nat /\ n \in Nat /\ Addresses \in Nat
        BY <2>1, NotifierAssumption DEF DispatcherInv, RowTypes, Event, InProgress
    <2>4. i <= n /\ posts[e] + Addresses * k <= Addresses * i
        BY <2>1 DEF DispatcherInv, ClaimsPaid, PostsBounded
    <2> HIDE DEF k, i, n
    <2>5. Addresses * i <= Addresses * n
        BY <2>3, <2>4
    <2>6. Addresses * k \in Nat /\ Addresses * i \in Nat /\ Addresses * n \in Nat
        BY <2>2, <2>3
    <2>7. ASSUME NEW x \in Nat, NEW y \in Nat, NEW z \in Nat, posts[e] + x <= y, y <= z
          PROVE  posts[e] <= z
        BY <2>3, <2>7
    <2>8. posts[e] <= Addresses * n
        BY <2>4, <2>5, <2>6, <2>7
    <2>9. QED
        BY <2>8 DEF n
<1>2. QED
    BY <1>1, DispatcherInvariant, PTL

-----------------------------------------------------------------------------
(* The types of the whole system.                                            *)

\* The progress bookkeeping names events of the outbox.
LEMMA HealthTypes ==
    ASSUME ControlTypes, DispatcherInv, [Next]_vars
    PROVE  unpersisted' \subseteq Events /\ stale' \in BOOLEAN /\ storeUp' \in BOOLEAN
<1>0. unpersisted \subseteq Events /\ stale \in BOOLEAN /\ storeUp \in BOOLEAN
    BY DEF ControlTypes
<1>1. CASE UNCHANGED notifierVars
    BY <1>0, <1>1 DEF notifierVars, dispatcher
<1>2. CASE Dies
    BY <1>0, <1>2 DEF Dies, FreshDispatcher
<1>3. ASSUME NEW es \in SUBSET Events, notification_succeeded(es) \/ notification_failed(es)
      PROVE  unpersisted' \subseteq Events /\ stale' \in BOOLEAN
    <2>1. CASE notification_succeeded(es)
        <3>1. unpersisted' \subseteq Events
            BY <1>0, <2>1 DEF notification_succeeded
        <3>2. stale' = (stale /\ unpersisted' # {})
            BY <2>1 DEF notification_succeeded
        <3>3. stale' \in BOOLEAN
            BY <3>2, Zenon
        <3>4. QED
            BY <3>1, <3>3
    <2>2. CASE notification_failed(es)
        BY <1>0, <1>3, <2>2 DEF notification_failed
    <2>3. QED
        BY <1>3, <2>1, <2>2
<1>4. CASE MasterStep
    BY <1>1, <1>2, <1>4 DEF MasterStep, StartWorker, Serve, BeginDrain, NoticeExit, EndDrain,
         LastMessages, CleanupOrphans, EndGeneration, EndBackoff, ReturnStopped, Terminate
<1>5. ASSUME NEW d \in deliveries, DeliveryStep(d) \/ DeliveryHangs(d)
      PROVE  unpersisted' \subseteq Events /\ stale' \in BOOLEAN /\ storeUp' \in BOOLEAN
    <2>1. {d.event} \in SUBSET Events
        BY DEF DispatcherInv, Distinct, Delivery
    <2>2. CASE Deliver(d) \/ PersistRaises(d) \/ DeliveryHangs(d)
        BY <1>0, <2>2 DEF Deliver, PersistRaises, DeliveryHangs
    <2>3. CASE Persist(d) \/ Boundary(d) \/ Unpersisted(d)
        <3>1. \/ notification_succeeded({d.event}) \/ notification_failed({d.event})
              \/ UNCHANGED <<unpersisted, stale>>
            BY <2>3 DEF Persist, Boundary, Unpersisted
        <3>2. storeUp' = storeUp
            BY <2>3 DEF Persist, Boundary, Unpersisted
        <3>3. QED
            BY <1>0, <1>3, <2>1, <3>1, <3>2
    <2>4. QED
        BY <1>5, <2>2, <2>3 DEF DeliveryStep
<1>6. CASE WorkerStep
    <2>1. CASE OpenFails \/ Close \/ ParentGone \/ HeartbeatEnds \/ SessionsStep
        BY <2>1, <1>1, <1>2 DEF OpenFails, Close, ParentGone, Terminate, HeartbeatEnds,
             SessionsStep
    <2>2. CASE Open
        BY <2>2, <1>0 DEF Open, dispatcher
    <2>3. CASE DispatcherStep
        <3>1. CASE NotificationLoop
            <4>1. storeUp' = storeUp /\ notification_succeeded({})
                BY <3>1 DEF NotificationLoop, Claim
            <4>2. QED
                BY <4>1, <1>0, <1>3
        <3>2. QED
            BY <2>3, <3>1, <1>5 DEF DispatcherStep
    <2>4. QED
        BY <1>6, <2>1, <2>2, <2>3 DEF WorkerStep
<1>7. CASE RequestStop \/ UNCHANGED vars
    BY <1>7, <1>1 DEF RequestStop, vars
<1>8. CASE Environment
    <2>1. CASE (\E e \in Events : BecomesDue(e)) \/ StoreRecovers \/ GrowsStale
        BY <2>1, <1>0 DEF BecomesDue, StoreRecovers, GrowsStale, dispatcher
    <2>2. QED
        BY <1>8, <1>1, <2>1 DEF Environment
<1>9. CASE Fault
    <2>1. CASE ProcessFault \/ SessionFault \/ CleanupFault
        BY <2>1, <1>1, <1>2 DEF ProcessFault, SessionFault, CleanupFault
    <2>2. CASE DispatcherFault
        <3>1. CASE StoreFails \/ \E e \in Events : LeaseLapses(e)
            BY <3>1, <1>0 DEF StoreFails, LeaseLapses, dispatcher
        <3>2. CASE SchedulingFails
            <4>1. storeUp' = storeUp /\ notification_failed({})
                BY <3>2 DEF SchedulingFails, Claim
            <4>2. QED
                BY <4>1, <1>0, <1>3
        <3>3. QED
            BY <2>2, <3>1, <3>2, <1>5 DEF DispatcherFault
    <2>3. QED
        BY <1>9, <2>1, <2>2 DEF Fault
<1>10. QED
    BY <1>4, <1>6, <1>7, <1>8, <1>9 DEF Next

\* The master and the worker stay in their states, and the restart limit is passed
\* only by a master that returns.
LEMMA ControlStep ==
    ASSUME ControlTypes, DispatcherInv, [Next]_vars
    PROVE  ControlTypes'
<1> DEFINE MasterTypes ==
        /\ master \in MasterPcs /\ worker \in WorkerStates
        /\ heartbeat \in BOOLEAN /\ stop \in BOOLEAN
        /\ failures \in 0..RestartLimit + 1 /\ code \in {0, 70} /\ faults \in 0..MaxFaults
        /\ master \notin {"exited", "dead"} => failures <= RestartLimit
<1>0. MasterTypes /\ RestartLimit \in Nat /\ MaxFaults \in Nat
    BY SupervisorAssumption DEF ControlTypes
<1>1. MasterTypes'
    <2>1. CASE MasterStep
        <3>1. CASE StartWorker \/ Serve \/ NoticeExit \/ LastMessages \/ CleanupOrphans
                   \/ EndBackoff \/ ReturnStopped
            BY <3>1, <1>0 DEF StartWorker, Serve, NoticeExit, LastMessages, CleanupOrphans,
                 EndBackoff, ReturnStopped, control, MasterPcs, WorkerStates
        <3>2. CASE BeginDrain \/ EndDrain
            BY <3>2, <1>0 DEF BeginDrain, EndDrain, Terminate, Dies, MasterPcs, WorkerStates
        <3>3. CASE EndGeneration
            <4>1. /\ UNCHANGED <<heartbeat, stop, faults>> /\ worker' = "none"
                  /\ failures <= RestartLimit
                BY <3>3, <1>0 DEF EndGeneration
            <4>2. CASE stop
                BY <3>3, <4>1, <4>2, <1>0 DEF EndGeneration, MasterPcs, WorkerStates
            <4>3. CASE ~stop
                <5>1. PICK n \in 1..failures + 1 :
                          /\ failures' = n
                          /\ IF n > RestartLimit THEN master' = "exited" /\ code' = 70
                                                 ELSE master' = "backoff" /\ UNCHANGED code
                    BY <3>3, <4>3 DEF EndGeneration
                <5>2. QED
                    BY <4>1, <5>1, <1>0 DEF MasterPcs, WorkerStates
            <4>4. QED
                BY <4>2, <4>3
        <3>4. QED
            BY <2>1, <3>1, <3>2, <3>3 DEF MasterStep
    <2>2. CASE WorkerStep
        BY <2>2, <1>0 DEF WorkerStep, Open, OpenFails, HeartbeatEnds, DispatcherStep,
             SessionsStep, Close, ParentGone, Terminate, Dies, control, WorkerStates
    <2>3. CASE RequestStop \/ Environment \/ UNCHANGED vars
        BY <2>3, <1>0 DEF RequestStop, Environment, vars, control
    <2>4. CASE Fault
        <3>1. faults' \in 0..MaxFaults
            BY <2>4, <1>0 DEF Fault
        <3>2. CASE ProcessFault
            BY <3>1, <3>2, <1>0 DEF ProcessFault, Dies, MasterPcs, WorkerStates
        <3>3. CASE DispatcherFault \/ SessionFault \/ CleanupFault
            BY <3>1, <3>3, <1>0 DEF DispatcherFault, SessionFault, CleanupFault, control
        <3>4. QED
            BY <2>4, <3>2, <3>3 DEF Fault
    <2>5. QED
        BY <2>1, <2>2, <2>3, <2>4 DEF Next
<1>2. QED
    BY <1>1, HealthTypes DEF ControlTypes

\* Every variable keeps its shape and no permit of _notification_slots leaks or is
\* given back twice, for all bounds.
THEOREM SupervisorTypeCorrect == Spec => []SupervisorTypeOK
<1>1. Init => ControlTypes
    <2>1. SUFFICES ASSUME Init PROVE ControlTypes
        OBVIOUS
    <2>2. RestartLimit \in Nat /\ MaxFaults \in Nat
        BY SupervisorAssumption
    <2>3. unpersisted = {} /\ stale = FALSE /\ storeUp = TRUE
        BY <2>1 DEF Init, SupervisorInit, NotifierInit
    <2>4. /\ master = "spawn" /\ worker = "none" /\ heartbeat = FALSE
          /\ stop = FALSE /\ failures = 0 /\ code = 0 /\ faults = 0
        BY <2>1 DEF Init, SupervisorInit
    <2>5. /\ unpersisted \subseteq Events /\ stale \in BOOLEAN /\ storeUp \in BOOLEAN
          /\ heartbeat \in BOOLEAN /\ stop \in BOOLEAN
        BY <2>3, <2>4, Zenon
    <2>6. /\ master \in MasterPcs /\ worker \in WorkerStates
          /\ failures \in 0..RestartLimit + 1 /\ code \in {0, 70} /\ faults \in 0..MaxFaults
          /\ failures <= RestartLimit
        BY <2>2, <2>4 DEF MasterPcs, WorkerStates
    <2>7. QED
        BY <2>5, <2>6 DEF ControlTypes
<1>2. ControlTypes /\ DispatcherInv /\ [Next]_vars => ControlTypes'
    BY ControlStep
<1>3. ControlTypes /\ DispatcherInv /\ TreesInv => SupervisorTypeOK
    <2>1. SUFFICES ASSUME ControlTypes, DispatcherInv, TreesInv PROVE SupervisorTypeOK
        OBVIOUS
    <2>2. /\ deliveries \subseteq Delivery /\ slots \in Nat
          /\ slots + Cardinality({d \in deliveries : d.pc # "unscheduled"}) = MaxDeliveries
        BY <2>1 DEF DispatcherInv, Distinct, PermitsKept, Scheduled
    <2>3. QED
        BY <2>1, <2>2 DEF ControlTypes, DispatcherInv, RowTypes, TreesInv, OwnershipTypes,
             SupervisorTypeOK
<1>4. QED
    BY <1>1, <1>2, <1>3, DispatcherInvariant, TreesInvariant, PTL DEF Spec
=============================================================================
