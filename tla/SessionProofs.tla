--------------------------- MODULE SessionProofs ---------------------------
(***************************************************************************)
(* The session manager for any set of sessions and calls, any limits and   *)
(* any number of failing backend calls: the slots of max_active_sessions,  *)
(* the ownership of living process trees, the reason a stopped session     *)
(* reports, the types, and the refinement of SessionContract.              *)
(***************************************************************************)
EXTENDS Session, FiniteSetTheorems, TLAPS

Ended == {"completed", "failed", "disposed"}
Reserving == {s \in Sessions : start[s] \in {"spawning", "settling"}}

StartPlaces == {"idle", "spawning", "settling", "failed", "accepted", "announced",
                "returned", "cleanup", "aborted"}

SlotType ==
    /\ starting \in Nat /\ inmap \subseteq Sessions
    /\ start \in [Sessions -> StartPlaces]
    /\ st \in [Sessions -> States]

\* The two conjuncts of SlotAccounting with what induction needs besides.
SlotInv ==
    /\ SlotType
    /\ IsFiniteSet(Reserving) /\ starting = Cardinality(Reserving)
    /\ IsFiniteSet(Active) /\ Cardinality(Active) + starting <= MaxActive

slotVars == <<starting, inmap, start, st>>

-----------------------------------------------------------------------------
\* What the table of core/lifecycle.py says of the moves the monitor makes.
LEMMA TransitionFacts ==
    ASSUME NEW x \in States
    PROVE  /\ "starting" \in _TRANSITIONS[x] => x = "accepted"
           /\ "draining" \in _TRANSITIONS[x] => x \notin Ended
           /\ "disposed" \in _TRANSITIONS[x] => x \in {"completed", "failed"}
           /\ "accepted" \in _TRANSITIONS[x] => x = "created"
BY DEF States, _TRANSITIONS, Ended

\* A step that reserves nothing and makes no session active keeps the slots.
LEMMA SlotsShrink ==
    ASSUME SlotInv, SlotType', starting' = starting, Reserving' = Reserving,
           Active' \subseteq Active
    PROVE  SlotInv'
<1>1. IsFiniteSet(Active') /\ Cardinality(Active') <= Cardinality(Active)
    BY FS_Subset DEF SlotInv
<1>2. Cardinality(Active') \in Nat /\ Cardinality(Active) \in Nat
    BY <1>1, FS_CardinalityType DEF SlotInv
<1>3. MaxActive \in Nat
    BY SessionAssumption
<1>4. QED
    BY <1>1, <1>2, <1>3 DEF SlotInv, SlotType

\* Steps of a session that leave the map, the reservations and the states alone.
QuietStep(s) ==
    \/ OS(s) \/ Spawn(s) \/ MonitorDeadline(s) \/ DisposeTask(s) \/ CancelProcess(s)
    \/ MonitorKill(s) \/ MonitorReapTimeout(s) \/ MonitorDrained(s)
    \/ MonitorDrainTimeout(s) \/ MonitorDrainKill(s) \/ MonitorDispose(s)
    \/ MonitorJoined(s) \/ MonitorInferLimit(s) \/ MonitorReport(s)

QuietCall(c) ==
    \/ Begin(c) \/ Run(c) \/ RunCancelled(c) \/ Input(c) \/ CancelDeclined(c)
    \/ DisposeWait(c) \/ DisposeBackend(c) \/ ShutdownGivesUp(c)

\* They leave them alone indeed.
LEMMA QuietSession ==
    ASSUME NEW s \in Sessions, QuietStep(s)
    PROVE  UNCHANGED slotVars
<1>1. CASE OS(s) \/ Spawn(s) \/ MonitorDeadline(s) \/ DisposeTask(s) \/ CancelProcess(s)
    BY <1>1 DEF OS, Exit, TreeEnds, ReadersEOF, Spawn, MonitorDeadline, DisposeTask,
                CancelProcess, CancelSignal, CancelGrace, CancelKill, CancelEnd,
                startVars, slotVars
<1>2. CASE ~(OS(s) \/ Spawn(s) \/ MonitorDeadline(s) \/ DisposeTask(s) \/ CancelProcess(s))
    BY <1>2 DEF QuietStep, MonitorKill, MonitorReapTimeout, MonitorDrained, MonitorDrainTimeout,
                MonitorDrainKill, MonitorDispose, MonitorJoined, MonitorInferLimit,
                MonitorReport, startVars, slotVars
<1>3. QED
    BY <1>1, <1>2

\* And so do the calls that neither cancel nor forget a session.
LEMMA QuietClient ==
    ASSUME NEW c \in Calls, QuietCall(c)
    PROVE  UNCHANGED slotVars
BY DEF QuietCall, Begin, Run, RunCancelled, Input, CancelDeclined, DisposeWait,
       DisposeBackend, ShutdownGivesUp, startVars, slotVars

\* Pruning only takes sessions out of the map.
LEMMA PruneShrinks ==
    ASSUME SlotInv, NEW E \in SUBSET Prunable, _prune_completed_sessions(E)
    PROVE  /\ inmap' \subseteq inmap /\ st' \in [Sessions -> States]
           /\ Active' \subseteq Active
<1> DEFINE out == E \cup Overflow(Prunable \ E)
<1>1. /\ st' = [s \in Sessions |-> IF s \in out THEN "disposed" ELSE st[s]]
      /\ inmap' = inmap \ out
    BY DEF _prune_completed_sessions
<1> HIDE DEF out
<1>2. QED
    BY <1>1 DEF SlotInv, SlotType, Active, States

-----------------------------------------------------------------------------
\* start() up to the session's place in the map, every way out of it included.
LEMMA StartSlots ==
    ASSUME SlotInv, NEW s \in Sessions,
           Admit(s) \/ StartFailed(s) \/ Register(s) \/ RegisterFails(s)
             \/ Announce(s) \/ Return(s) \/ CancelStart(s) \/ AbandonStart(s)
    PROVE  SlotInv'
<1>a. MaxActive \in Nat
    BY SessionAssumption
<1>b. Cardinality(Active) \in Nat /\ Cardinality(Reserving) \in Nat
    BY FS_CardinalityType DEF SlotInv
<1>c. s \in Reserving => starting > 0 /\ starting - 1 \in Nat
    <2>1. ASSUME s \in Reserving PROVE Cardinality(Reserving) # 0
        BY <2>1, FS_EmptySet DEF SlotInv
    <2>2. QED
        BY <2>1, <1>b DEF SlotInv
<1>1. CASE Admit(s)
    <2>1. s \notin Reserving
        BY <1>1 DEF Admit, Reserving
    <2>2. Reserving' = Reserving \cup {s} /\ Active' = Active /\ SlotType'
        BY <1>1 DEF Admit, Reserving, Active, SlotInv, SlotType, StartPlaces
    <2>3. IsFiniteSet(Reserving') /\ Cardinality(Reserving') = Cardinality(Reserving) + 1
        BY <2>1, <2>2, FS_AddElement DEF SlotInv
    <2>4. starting' = starting + 1 /\ Cardinality(Active) + starting < MaxActive
        BY <1>1 DEF Admit
    <2>5. QED
        BY <2>2, <2>3, <2>4, <1>a, <1>b DEF SlotInv, SlotType
<1>2. CASE StartFailed(s) \/ Register(s) \/ RegisterFails(s)
            \/ (AbandonStart(s) /\ start[s] = "settling")
    <2>1. /\ s \in Reserving /\ starting' = starting - 1
          /\ \E p \in {"failed", "accepted", "cleanup", "aborted"} :
               start' = [start EXCEPT ![s] = p]
        BY <1>2 DEF StartFailed, Register, RegisterFails, AbandonStart, Reserving
    <2>2. Reserving' = Reserving \ {s} /\ start' \in [Sessions -> StartPlaces]
        BY <2>1 DEF Reserving, SlotInv, SlotType, StartPlaces
    <2>3. IsFiniteSet(Reserving') /\ Cardinality(Reserving') = Cardinality(Reserving) - 1
        BY <2>1, <2>2, FS_RemoveElement DEF SlotInv
    <2>4. CASE Register(s)
        <3>1. inmap' = inmap \cup {s} /\ st' = [st EXCEPT ![s] = "accepted"]
            BY <2>4 DEF Register, transition
        <3>2. SlotType'
            BY <3>1, <2>1, <2>2, <1>c DEF SlotInv, SlotType, States
        <3>3. Active' = Active \cup {s}
            BY <3>1 DEF Active, SlotInv, SlotType
        <3>4. /\ IsFiniteSet(Active') /\ Cardinality(Active') \in Nat
              /\ Cardinality(Active') <= Cardinality(Active) + 1
            <4>1. /\ IsFiniteSet(Active \cup {s})
                  /\ Cardinality(Active \cup {s}) =
                       IF s \in Active THEN Cardinality(Active) ELSE Cardinality(Active) + 1
                BY FS_AddElement DEF SlotInv
            <4>2. QED
                BY <4>1, <3>3, <1>b
        <3>5. QED
            BY <3>2, <3>4, <2>1, <2>3, <1>a, <1>b, <1>c DEF SlotInv, SlotType
    <2>5. CASE ~Register(s)
        <3>1. UNCHANGED <<inmap, st>>
            BY <1>2, <2>5 DEF StartFailed, RegisterFails, AbandonStart
        <3>2. Active' = Active /\ SlotType'
            BY <3>1, <2>1, <2>2, <1>c DEF Active, SlotInv, SlotType
        <3>3. QED
            BY <3>2, <2>1, <2>3, <1>a, <1>b, <1>c DEF SlotInv, SlotType
    <2>6. QED
        BY <2>4, <2>5
<1>3. CASE Announce(s)
    <2>1. st[s] = "accepted" /\ start[s] = "accepted"
        BY <1>3, TransitionFacts DEF Announce, SlotInv, SlotType
    <2>2. /\ st' = [st EXCEPT ![s] = "running"] /\ UNCHANGED <<starting, inmap>>
          /\ start' = [start EXCEPT ![s] = "announced"]
        BY <1>3 DEF Announce
    <2>3. Reserving' = Reserving /\ Active' = Active /\ SlotType'
        BY <2>1, <2>2 DEF Reserving, Active, SlotInv, SlotType, States, StartPlaces
    <2>4. QED
        BY <2>2, <2>3, SlotsShrink
<1>4. CASE Return(s) \/ CancelStart(s) \/ (AbandonStart(s) /\ start[s] # "settling")
    <2>1. /\ inmap' \subseteq inmap /\ UNCHANGED <<starting, st>>
          /\ \E p \in {"returned", "settling", "cleanup", "aborted"} :
               start' = [start EXCEPT ![s] = p] /\ (start[s] = "spawning" <=> p = "settling")
          /\ start[s] # "settling"
        BY <1>4 DEF Return, CancelStart, AbandonStart
    <2>2. Reserving' = Reserving /\ Active' \subseteq Active /\ SlotType'
        BY <2>1 DEF Reserving, Active, SlotInv, SlotType, StartPlaces
    <2>3. QED
        BY <2>1, <2>2, SlotsShrink
<1>5. QED
    BY <1>1, <1>2, <1>3, <1>4

\* The monitor, cancel, dispose and pruning never make a session active.
LEMMA EndSlots ==
    ASSUME SlotInv,
           \/ \E s \in Sessions : MonitorExited(s) \/ MonitorComplete(s) \/ MonitorFail(s)
                                    \/ MonitorDone(s)
           \/ \E c \in Calls : CancelAccepted(c) \/ DisposeForget(c)
           \/ Sweep
    PROVE  SlotInv'
<1>1. CASE \E s \in Sessions : MonitorExited(s) \/ MonitorComplete(s) \/ MonitorFail(s)
    <2>1. PICK s \in Sessions : MonitorExited(s) \/ MonitorComplete(s) \/ MonitorFail(s)
        BY <1>1
    <2>2. /\ UNCHANGED <<starting, inmap, start>>
          /\ \/ st' = [st EXCEPT ![s] = "draining"] /\ st[s] \notin Ended
             \/ st' = [st EXCEPT ![s] = "completed"]
             \/ st' = [st EXCEPT ![s] = "failed"]
        BY <2>1, TransitionFacts DEF MonitorExited, MonitorComplete, MonitorFail, transition,
             startVars, SlotInv, SlotType, Ended
    <2>3. Reserving' = Reserving /\ Active' \subseteq Active /\ SlotType'
        BY <2>2 DEF Reserving, Active, SlotInv, SlotType, States, Ended
    <2>4. QED
        BY <2>2, <2>3, SlotsShrink
<1>2. CASE Sweep \/ \E s \in Sessions : MonitorDone(s)
    <2>1. /\ UNCHANGED <<starting, start>>
          /\ \E E \in SUBSET Prunable : _prune_completed_sessions(E)
        BY <1>2 DEF Sweep, MonitorDone
    <2>2. inmap' \subseteq inmap /\ st' \in [Sessions -> States] /\ Active' \subseteq Active
        BY <2>1, PruneShrinks
    <2>3. Reserving' = Reserving /\ SlotType'
        BY <2>1, <2>2 DEF Reserving, SlotInv, SlotType
    <2>4. QED
        BY <2>1, <2>2, <2>3, SlotsShrink
<1>3. CASE \E c \in Calls : CancelAccepted(c) \/ DisposeForget(c)
    <2>1. PICK c \in Calls : CancelAccepted(c) \/ DisposeForget(c)
        BY <1>3
    <2> DEFINE s == Target[c]
    <2>2. s \in Sessions
        BY SessionAssumption
    <2>3. /\ UNCHANGED <<starting, start>> /\ inmap' \subseteq inmap
          /\ \/ st' = [st EXCEPT ![s] = "cancelling"] /\ st[s] \notin Ended
             \/ st' = [st EXCEPT ![s] = "disposed"]
             \/ st' = st
        BY <2>1 DEF CancelAccepted, DisposeForget, transition, _require_active, startVars, Ended
    <2> HIDE DEF s
    <2>4. Reserving' = Reserving /\ Active' \subseteq Active /\ SlotType'
        BY <2>2, <2>3 DEF Reserving, Active, SlotInv, SlotType, States, Ended
    <2>5. QED
        BY <2>3, <2>4, SlotsShrink
<1>4. QED
    BY <1>1, <1>2, <1>3

\* Each disjunct of Next is a step of start, of an end, or quiet.
LEMMA NextSlotInv ==
    ASSUME SlotInv, [Next]_vars
    PROVE  SlotInv'
<1>1. CASE UNCHANGED slotVars
    BY <1>1 DEF slotVars, SlotInv, SlotType, Reserving, Active
<1>2. CASE UNCHANGED vars
    BY <1>1, <1>2 DEF vars, startVars, slotVars
<1>3. CASE \E s \in Sessions : StartStep(s)
    BY <1>1, <1>3, StartSlots, QuietSession DEF StartStep, QuietStep
<1>4. CASE \E s \in Sessions : MonitorStep(s)
    BY <1>1, <1>4, EndSlots, QuietSession DEF MonitorStep, QuietStep
<1>5. CASE \E s \in Sessions : OS(s) \/ MonitorDeadline(s) \/ DisposeTask(s) \/ CancelProcess(s)
    BY <1>1, <1>5, QuietSession DEF QuietStep
<1>6. CASE \E c \in Calls : Begin(c) \/ CallStep(c) \/ RunCancelled(c)
    BY <1>1, <1>6, EndSlots, QuietClient DEF CallStep, QuietCall
<1>7. CASE Sweep
    BY <1>7, EndSlots
<1>8. QED
    BY <1>2, <1>3, <1>4, <1>5, <1>6, <1>7 DEF Next

\* A manager starts with every slot free.
LEMMA InitSlotInv ==
    ASSUME Init
    PROVE  SlotInv
<1>1. Reserving = {} /\ Active = {} /\ SlotType
    BY DEF Init, Reserving, Active, SlotType, States, StartPlaces
<1>2. starting = 0 /\ MaxActive \in Nat
    BY SessionAssumption DEF Init
<1>3. QED
    BY <1>1, <1>2, FS_EmptySet DEF SlotInv

\* Every path out of start() gives its slot back exactly once, and no interleaving
\* of starts, cancelled starts and completions exceeds max_active_sessions.
THEOREM SlotAccountingHolds == Spec => []SlotAccounting
<1>1. Init => SlotInv
    BY InitSlotInv
<1>2. SlotInv /\ [Next]_vars => SlotInv'
    BY NextSlotInv
<1>3. SlotInv => SlotAccounting
    BY DEF SlotInv, SlotAccounting, Reserving
<1>4. QED
    BY <1>1, <1>2, <1>3, PTL DEF Spec
-----------------------------------------------------------------------------
(* The ownership of process trees.                                           *)

OwnType ==
    /\ inmap \subseteq Sessions /\ faults \in Nat
    /\ start \in [Sessions -> StartPlaces]
    /\ proc \in [Sessions -> {"none", "running"} \cup ExitCodes \cup {"nonzero"}]
    /\ tree \in [Sessions -> BOOLEAN] /\ owned \in [Sessions -> BOOLEAN]
    /\ mon \in [Sessions -> {"none", "wait", "kill", "reap", "drain", "drainkill", "dispose",
                             "join", "finish", "failing", "completing", "done"}]
    /\ dtask \in [Sessions -> {"none", "run", "unregister", "done", "failed"}]
    /\ call \in [Calls -> {"idle", "running", "lock", "held", "cancelling", "wait", "await",
                           "dispose", "join", "forget", "done", "raised"}]
    /\ lock \in [Sessions -> Calls \cup {NoCall}]

\* Only a session whose process was spawned is registered, watched, called upon or
\* disposed of, so Spawn cannot revive a tree that somebody has seen dead.
Spawned ==
    /\ \A s \in Sessions :
        /\ proc[s] = "none" => ~tree[s]
        /\ start[s] \in {"accepted", "announced", "returned", "cleanup"} => proc[s] # "none"
        /\ s \in inmap => proc[s] # "none"
        /\ mon[s] # "none" => proc[s] # "none"
        /\ dtask[s] # "none" => proc[s] # "none"
    /\ \A s \in Sessions : lock[s] # NoCall => call[lock[s]] # "idle"
    /\ \A c \in Calls : call[c] # "idle" => proc[Target[c]] # "none"

\* The dispose task gives the ownership of a dead tree back.
DeadBeforeUnregister == \A s \in Sessions : dtask[s] = "unregister" => ~tree[s]

OwnInv == OwnType /\ Spawned /\ DeadBeforeUnregister /\ OwnedUntilDead

ownVars == <<inmap, faults, start, proc, tree, owned, mon, dtask, call, lock>>
\* A step that starts no process, gives no ownership away and lets only a spawned
\* session be watched, called upon or disposed of keeps the invariant.
Harmless ==
    /\ UNCHANGED <<start, owned>> /\ inmap' \subseteq inmap /\ faults' >= faults
    /\ \A s \in Sessions :
        /\ proc'[s] = "none" <=> proc[s] = "none"
        /\ tree'[s] => tree[s]
        /\ mon'[s] # "none" => mon[s] # "none"
        /\ dtask'[s] # "none" => dtask[s] # "none" \/ proc[s] # "none"
        /\ dtask'[s] = "unregister" => dtask[s] = "unregister" \/ ~tree'[s]
        /\ lock'[s] # NoCall => call'[lock'[s]] # "idle"
    /\ \A c \in Calls : call'[c] # "idle" => call[c] # "idle" \/ proc[Target[c]] # "none"

\* The invariant holds after a harmless step.
LEMMA HarmlessSteps ==
    ASSUME OwnInv, OwnType', Harmless
    PROVE  OwnInv'
<1>1. Target \in [Calls -> Sessions]
    BY SessionAssumption
<1>2. Spawned'
    BY <1>1 DEF OwnInv, OwnType, Spawned, Harmless
<1>3. DeadBeforeUnregister'
    BY DEF OwnInv, OwnType, DeadBeforeUnregister, Harmless
<1>4. OwnedUntilDead'
    BY DEF OwnInv, OwnType, OwnedUntilDead, Harmless
<1>5. QED
    BY <1>2, <1>3, <1>4 DEF OwnInv

\* Where a tree is killed or ends, no other comes to life.
LEMMA TreeDies ==
    ASSUME OwnType, NEW s \in Sessions,
           tree' = tree \/ tree' = [tree EXCEPT ![s] = FALSE]
    PROVE  /\ tree' \in [Sessions -> BOOLEAN]
           /\ \A r \in Sessions : tree'[r] => tree[r]
           /\ tree' = [tree EXCEPT ![s] = FALSE] => ~tree'[s]
<1>1. tree \in [Sessions -> BOOLEAN]
    BY DEF OwnType
<1>2. CASE tree' = tree
    BY <1>1, <1>2
<1>3. CASE tree' = [tree EXCEPT ![s] = FALSE]
    BY <1>1, <1>3
<1>4. QED
    BY <1>2, <1>3

\* The operating system only ends what runs.
LEMMA OSOwned ==
    ASSUME OwnInv, NEW s \in Sessions, OS(s)
    PROVE  OwnInv'
<1>1. ExitCodes \subseteq {"zero", "nonzero", "xcpu"}
    BY SessionAssumption
<1>2. /\ UNCHANGED <<inmap, faults, start, owned, mon, dtask, call, lock>>
      /\ tree' = tree \/ tree' = [tree EXCEPT ![s] = FALSE]
      /\ \/ proc' = proc
         \/ /\ proc[s] = "running"
            /\ \E x \in ExitCodes \cup {"nonzero"} : proc' = [proc EXCEPT ![s] = x]
    BY DEF OS, Exit, TreeEnds, ReadersEOF, startVars, monVars, opVars, dispVars
<1>3. tree' \in [Sessions -> BOOLEAN] /\ \A r \in Sessions : tree'[r] => tree[r]
    BY <1>2, TreeDies DEF OwnInv
<1>4. OwnType'
    BY <1>2, <1>3 DEF OwnInv, OwnType
<1>5. Harmless
    BY <1>1, <1>2, <1>3 DEF OwnInv, OwnType, Spawned, Harmless
<1>6. QED
    BY <1>4, <1>5, HarmlessSteps

\* The monitor kills, and leaves the ownership to the dispose task.
LEMMA MonitorOwned ==
    ASSUME OwnInv, NEW s \in Sessions, MonitorStep(s) \/ MonitorDeadline(s)
    PROVE  OwnInv'
<1>1. CASE MonitorExited(s) \/ MonitorDeadline(s) \/ MonitorReapTimeout(s) \/ MonitorDrained(s)
           \/ MonitorDrainTimeout(s) \/ MonitorJoined(s) \/ MonitorInferLimit(s)
           \/ MonitorComplete(s) \/ MonitorFail(s) \/ MonitorReport(s)
    <2>1. UNCHANGED <<inmap, faults, start, proc, tree, owned, dtask, call, lock>>
        BY <1>1 DEF MonitorExited, MonitorDeadline, MonitorReapTimeout, MonitorDrained,
             MonitorDrainTimeout, MonitorJoined, MonitorInferLimit, MonitorComplete, MonitorFail,
             MonitorReport, startVars, osVars, opVars, dispVars
    <2>2. /\ mon[s] # "none"
          /\ \E m \in {"drain", "kill", "dispose", "drainkill", "finish", "completing",
                       "failing"} : mon' = [mon EXCEPT ![s] = m] \/ mon' = mon
        BY <1>1 DEF MonitorExited, MonitorDeadline, MonitorReapTimeout, MonitorDrained,
             MonitorDrainTimeout, MonitorJoined, MonitorInferLimit, MonitorComplete, MonitorFail,
             MonitorReport, Goto
    <2>3. OwnType' /\ Harmless
        BY <2>1, <2>2 DEF OwnInv, OwnType, Spawned, Harmless
    <2>4. QED
        BY <2>3, HarmlessSteps
<1>2. CASE MonitorKill(s) \/ MonitorDrainKill(s)
    <2>1. /\ UNCHANGED <<inmap, start, proc, owned, dtask, call, lock>>
          /\ faults' = faults \/ faults' = faults + 1
          /\ tree' = tree \/ tree' = [tree EXCEPT ![s] = FALSE]
        BY <1>2 DEF MonitorKill, MonitorDrainKill, kill_tree, kill_tree_fails, Works, Fails,
             startVars, opVars, dispVars
    <2>2. /\ mon[s] # "none"
          /\ \E m \in {"reap", "dispose"} : mon' = [mon EXCEPT ![s] = m]
        BY <1>2 DEF MonitorKill, MonitorDrainKill, Goto
    <2>3. tree' \in [Sessions -> BOOLEAN] /\ \A r \in Sessions : tree'[r] => tree[r]
        BY <2>1, TreeDies DEF OwnInv
    <2>4. OwnType'
        <3>1. faults' \in Nat
            BY <2>1 DEF OwnInv, OwnType
        <3>2. mon' \in [Sessions -> {"none", "wait", "kill", "reap", "drain", "drainkill",
                            "dispose", "join", "finish", "failing", "completing", "done"}]
            BY <2>2 DEF OwnInv, OwnType
        <3>3. QED
            BY <2>1, <2>3, <3>1, <3>2 DEF OwnInv, OwnType
    <2>5. Harmless
        BY <2>1, <2>2, <2>3 DEF OwnInv, OwnType, Spawned, Harmless
    <2>6. QED
        BY <2>4, <2>5, HarmlessSteps
<1>3. CASE MonitorDispose(s)
    <2>1. /\ UNCHANGED <<inmap, faults, start, proc, tree, owned, call, lock>>
          /\ mon[s] = "dispose"
          /\ \E m \in {"finish", "join"} : mon' = [mon EXCEPT ![s] = m]
          /\ dtask' = dtask \/ (dtask[s] = "none" /\ dtask' = [dtask EXCEPT ![s] = "run"])
             \/ dtask' = [dtask EXCEPT ![s] = dtask[s]]
        BY <1>3 DEF MonitorDispose, Goto, DisposeJoin, startVars, osVars, opVars
    <2>2. OwnType' /\ Harmless
        BY <2>1 DEF OwnInv, OwnType, Spawned, Harmless
    <2>3. QED
        BY <2>2, HarmlessSteps
<1>4. CASE MonitorDone(s)
    <2>1. /\ UNCHANGED <<faults, start, proc, tree, owned, dtask, call, lock>>
          /\ inmap' \subseteq inmap
          /\ mon[s] # "none" /\ mon' = [mon EXCEPT ![s] = "done"]
        BY <1>4 DEF MonitorDone, Goto, _prune_completed_sessions, osVars, opVars, dispVars
    <2>2. OwnType' /\ Harmless
        BY <2>1 DEF OwnInv, OwnType, Spawned, Harmless
    <2>3. QED
        BY <2>2, HarmlessSteps
<1>5. QED
    BY <1>1, <1>2, <1>3, <1>4 DEF MonitorStep

\* cancel_process kills, and gives no ownership back.
LEMMA CancelOwned ==
    ASSUME OwnInv, NEW s \in Sessions, CancelProcess(s)
    PROVE  OwnInv'
<1>1. CASE CancelSignal(s) \/ CancelGrace(s) \/ CancelKill(s)
    <2>1. /\ UNCHANGED <<inmap, start, proc, owned, mon, dtask, call, lock>>
          /\ faults' = faults \/ faults' = faults + 1
          /\ tree' = tree \/ tree' = [tree EXCEPT ![s] = FALSE]
        BY <1>1 DEF CancelSignal, CancelGrace, CancelKill, kill_tree, kill_tree_fails, Works,
             Fails, startVars, osVars, monVars, dispVars
    <2>2. tree' \in [Sessions -> BOOLEAN] /\ \A r \in Sessions : tree'[r] => tree[r]
        BY <2>1, TreeDies DEF OwnInv
    <2>3. OwnType'
        BY <2>1, <2>2 DEF OwnInv, OwnType
    <2>4. Harmless
        BY <2>1, <2>2 DEF OwnInv, OwnType, Spawned, Harmless
    <2>5. QED
        BY <2>3, <2>4, HarmlessSteps
<1>2. CASE CancelEnd(s)
    <2>1. /\ UNCHANGED <<inmap, faults, start, proc, tree, owned, mon, dtask>>
          /\ \E pc \in {"wait", "done"} : call' = [call EXCEPT ![lock[s]] = pc]
          /\ lock' = [lock EXCEPT ![s] = NoCall]
        BY <1>2 DEF CancelEnd, Step, AfterCancel, startVars, osVars, monVars, dispVars
    <2>2. OwnType'
        BY <2>1 DEF OwnInv, OwnType
    <2>3. /\ \A c \in Calls : call'[c] = call[c] \/ (c = lock[s] /\ call'[c] # "idle")
          /\ \A r \in Sessions : lock'[r] # NoCall => lock'[r] = lock[r] /\ lock[r] \in Calls
        BY <2>1 DEF OwnInv, OwnType
    <2>4. \A r \in Sessions : lock'[r] # NoCall => call'[lock'[r]] # "idle"
        BY <2>3 DEF OwnInv, Spawned
    <2>5. \A c \in Calls : call'[c] # "idle" => call[c] # "idle"
        <3>1. SUFFICES ASSUME NEW c \in Calls, c = lock[s] PROVE call[c] # "idle"
            BY <2>3
        <3>2. lock[s] # NoCall
            BY <3>1, SessionAssumption
        <3>3. QED
            BY <3>1, <3>2 DEF OwnInv, Spawned
    <2>6. Harmless
        BY <2>1, <2>4, <2>5 DEF OwnInv, OwnType, Harmless
    <2>7. QED
        BY <2>2, <2>6, HarmlessSteps
<1>3. QED
    BY <1>1, <1>2 DEF CancelProcess

\* A call comes to a session in the map or one whose start has returned.
LEMMA CallOwned ==
    ASSUME OwnInv, NEW c \in Calls, Begin(c) \/ CallStep(c) \/ RunCancelled(c)
    PROVE  OwnInv'
<1> DEFINE s == Target[c]
<1>1. s \in Sessions /\ NoCall \notin Calls
    BY SessionAssumption
<1>2. call[c] # "idle" \/ proc[s] # "none"
    <2>1. CASE call[c] = "idle" /\ Begin(c)
        BY <1>1, <2>1 DEF Begin, get, OwnInv, Spawned
    <2>2. CASE call[c] = "idle" /\ ~Begin(c)
        <3>1. start[s] = "returned"
            BY <2>2 DEF CallStep, RunCancelled, Run, Input, CancelDeclined, CancelAccepted,
                 DisposeWait, DisposeBackend, DisposeForget, ShutdownGivesUp
        <3>2. QED
            BY <3>1, <1>1 DEF OwnInv, Spawned
    <2>3. QED
        BY <2>1, <2>2
<1>3. proc[s] # "none"
    BY <1>2 DEF OwnInv, Spawned
<1>4. /\ UNCHANGED <<faults, start, proc, tree, owned, mon>> /\ inmap' \subseteq inmap
      /\ \E pc \in {"running", "lock", "held", "cancelling", "wait", "await", "dispose",
                    "join", "forget", "done", "raised"} : call' = [call EXCEPT ![c] = pc]
      /\ \/ lock' = lock \/ lock' = [lock EXCEPT ![s] = c]
         \/ lock' = [lock EXCEPT ![s] = NoCall]
      /\ dtask' = dtask \/ (dtask[s] = "none" /\ dtask' = [dtask EXCEPT ![s] = "run"])
             \/ dtask' = [dtask EXCEPT ![s] = dtask[s]]
    <2>1. CASE Begin(c) \/ Run(c) \/ RunCancelled(c) \/ Input(c)
        BY <2>1 DEF Begin, Run, RunCancelled, Input, Step, startVars, osVars, monVars, dispVars
    <2>2. CASE CancelDeclined(c) \/ CancelAccepted(c)
        BY <2>2 DEF CancelDeclined, CancelAccepted, AfterCancel, Step, startVars, osVars, monVars,
             dispVars
    <2>3. CASE DisposeWait(c) \/ DisposeBackend(c)
        BY <2>3 DEF DisposeWait, DisposeBackend, DisposeJoin, Step, startVars, osVars, monVars,
             dispVars
    <2>4. CASE DisposeForget(c) \/ ShutdownGivesUp(c)
        BY <2>4 DEF DisposeForget, ShutdownGivesUp, Step, startVars, osVars, monVars, dispVars
    <2>5. QED
        BY <2>1, <2>2, <2>3, <2>4 DEF CallStep
<1> HIDE DEF s
<1>5. OwnType'
    BY <1>1, <1>4 DEF OwnInv, OwnType
<1>6. c # NoCall
    BY <1>1
<1>7. Harmless
    BY <1>1, <1>3, <1>4, <1>6 DEF OwnInv, OwnType, Spawned, Harmless, s
<1>8. QED
    BY <1>5, <1>7, HarmlessSteps

\* The dispose task kills before it gives the ownership back.
LEMMA DisposeOwned ==
    ASSUME OwnInv, NEW s \in Sessions, DisposeTask(s)
    PROVE  OwnInv'
<1>1. CASE dtask[s] = "run"
    <2>1. /\ UNCHANGED <<inmap, start, proc, owned, mon, call, lock>>
          /\ \/ /\ faults' = faults /\ tree' = [tree EXCEPT ![s] = FALSE]
                /\ \E d \in {"unregister", "done"} : dtask' = [dtask EXCEPT ![s] = d]
             \/ /\ faults' = faults + 1 /\ tree' = tree
                /\ dtask' = [dtask EXCEPT ![s] = "failed"]
        BY <1>1 DEF DisposeTask, kill_tree, kill_tree_fails, Works, Fails, startVars, monVars,
             opVars
    <2>2. /\ tree' \in [Sessions -> BOOLEAN] /\ \A r \in Sessions : tree'[r] => tree[r]
          /\ tree' = [tree EXCEPT ![s] = FALSE] => ~tree'[s]
        BY <2>1, TreeDies DEF OwnInv
    <2>3. OwnType'
        BY <2>1, <2>2 DEF OwnInv, OwnType
    <2>4. Harmless
        BY <1>1, <2>1, <2>2 DEF OwnInv, OwnType, Spawned, Harmless
    <2>5. QED
        BY <2>3, <2>4, HarmlessSteps
<1>2. CASE dtask[s] = "unregister"
    <2>1. ~tree[s]
        BY <1>2 DEF OwnInv, DeadBeforeUnregister
    <2>2. /\ UNCHANGED <<inmap, start, proc, tree, mon, call, lock>>
          /\ faults' = faults \/ faults' = faults + 1
          /\ owned' = owned \/ owned' = [owned EXCEPT ![s] = FALSE]
          /\ \E d \in {"done", "failed"} : dtask' = [dtask EXCEPT ![s] = d]
        BY <1>2 DEF DisposeTask, Works, Fails, startVars, monVars, opVars
    <2>a. owned' \in [Sessions -> BOOLEAN] /\ \A r \in Sessions \ {s} : owned'[r] = owned[r]
        BY <2>2 DEF OwnInv, OwnType
    <2>b. OwnType'
        <3>1. faults' \in Nat
            BY <2>2 DEF OwnInv, OwnType
        <3>2. dtask' \in [Sessions -> {"none", "run", "unregister", "done", "failed"}]
            BY <2>2 DEF OwnInv, OwnType
        <3>3. QED
            BY <2>2, <2>a, <3>1, <3>2 DEF OwnInv, OwnType
    <2>3. OwnType' /\ Spawned' /\ DeadBeforeUnregister'
        BY <1>2, <2>2, <2>b DEF OwnInv, OwnType, Spawned, DeadBeforeUnregister
    <2>4. OwnedUntilDead'
        BY <2>1, <2>2, <2>a DEF OwnInv, OwnType, OwnedUntilDead
    <2>5. QED
        BY <2>3, <2>4 DEF OwnInv
<1>3. QED
    BY <1>1, <1>2 DEF DisposeTask
\* start(): a process is spawned, registered before anything else is done with it,
\* and an abandoned one is killed first.
LEMMA StartOwned ==
    ASSUME OwnInv, NEW s \in Sessions, StartStep(s)
    PROVE  OwnInv'
<1>a. Target \in [Calls -> Sessions]
    BY SessionAssumption
<1>1. CASE Admit(s) \/ StartFailed(s) \/ Announce(s) \/ Return(s) \/ CancelStart(s)
    <2>1. /\ UNCHANGED <<faults, proc, tree, owned, dtask, call, lock>>
          /\ inmap' \subseteq inmap
          /\ mon' = mon \/ (start[s] = "announced" /\ mon' = [mon EXCEPT ![s] = "wait"])
        BY <1>1 DEF Admit, StartFailed, Announce, Return, CancelStart, osVars, monVars, opVars,
             dispVars
    <2>2. \/ start[s] = "idle" /\ start' = [start EXCEPT ![s] = "spawning"]
          \/ proc[s] = "none" /\ start' = [start EXCEPT ![s] = "failed"]
          \/ start[s] = "accepted" /\ start' = [start EXCEPT ![s] = "announced"]
          \/ start[s] = "announced" /\ start' = [start EXCEPT ![s] = "returned"]
          \/ start[s] = "spawning" /\ start' = [start EXCEPT ![s] = "settling"]
          \/ start[s] \in {"accepted", "announced"} /\ start' = [start EXCEPT ![s] = "cleanup"]
        BY <1>1 DEF Admit, StartFailed, Announce, Return, CancelStart
    <2>3. start' \in [Sessions -> StartPlaces]
        BY <2>2 DEF OwnInv, OwnType, StartPlaces
    <2>4. OwnType'
        BY <2>1, <2>3 DEF OwnInv, OwnType
    <2>5. Spawned' /\ DeadBeforeUnregister'
        BY <2>1, <2>2, <1>a DEF OwnInv, OwnType, Spawned, DeadBeforeUnregister
    <2>6. OwnedUntilDead'
        BY <2>1, <2>2 DEF OwnInv, OwnType, Spawned, OwnedUntilDead
    <2>7. QED
        BY <2>4, <2>5, <2>6 DEF OwnInv
<1>2. CASE Spawn(s)
    <2>1. /\ start[s] \in {"spawning", "settling"} /\ proc[s] = "none"
          /\ proc' = [proc EXCEPT ![s] = "running"] /\ tree' = [tree EXCEPT ![s] = TRUE]
          /\ UNCHANGED <<inmap, faults, start, owned, mon, dtask, call, lock>>
        BY <1>2 DEF Spawn, startVars, monVars, opVars, dispVars
    <2>2. dtask[s] = "none"
        BY <2>1 DEF OwnInv, Spawned
    <2>3. /\ tree' \in [Sessions -> BOOLEAN] /\ \A r \in Sessions \ {s} : tree'[r] = tree[r]
        BY <2>1 DEF OwnInv, OwnType
    <2>4. OwnType'
        BY <2>1, <2>3 DEF OwnInv, OwnType
    <2>5. Spawned' /\ DeadBeforeUnregister'
        BY <2>1, <2>2, <2>3, <1>a DEF OwnInv, OwnType, Spawned, DeadBeforeUnregister
    <2>6. OwnedUntilDead'
        BY <2>1, <2>3 DEF OwnInv, OwnType, OwnedUntilDead
    <2>7. QED
        BY <2>4, <2>5, <2>6 DEF OwnInv
<1>3. CASE Register(s) \/ RegisterFails(s)
    <2>1. /\ start[s] = "spawning" /\ proc[s] # "none"
          /\ UNCHANGED <<proc, tree, mon, dtask, call, lock>>
          /\ faults' = faults \/ faults' = faults + 1
          /\ inmap' \subseteq inmap \cup {s}
        BY <1>3 DEF Register, RegisterFails, Fails, monVars, opVars, dispVars
    <2>2. \/ start' = [start EXCEPT ![s] = "accepted"] /\ owned' = [owned EXCEPT ![s] = TRUE]
          \/ /\ start' = [start EXCEPT ![s] = "cleanup"]
             /\ \E late \in BOOLEAN : owned' = [owned EXCEPT ![s] = late]
        BY <1>3 DEF Register, RegisterFails
    <2>3. /\ start' \in [Sessions -> StartPlaces] /\ owned' \in [Sessions -> BOOLEAN]
          /\ \A r \in Sessions \ {s} : owned'[r] = owned[r] /\ start'[r] = start[r]
          /\ start'[s] = "cleanup" \/ (start'[s] = "accepted" /\ owned'[s])
        BY <2>2 DEF OwnInv, OwnType, StartPlaces
    <2>4. faults' \in Nat /\ faults' >= faults
        BY <2>1 DEF OwnInv, OwnType
    <2>5. OwnType'
        BY <2>1, <2>3, <2>4 DEF OwnInv, OwnType
    <2>6. Spawned' /\ DeadBeforeUnregister'
        BY <2>1, <2>3, <1>a DEF OwnInv, OwnType, Spawned, DeadBeforeUnregister
    <2>7. OwnedUntilDead'
        BY <2>1, <2>3, <2>4 DEF OwnInv, OwnType, OwnedUntilDead
    <2>8. QED
        BY <2>5, <2>6, <2>7 DEF OwnInv
<1>4. CASE AbandonStart(s)
    <2>1. /\ start' = [start EXCEPT ![s] = "aborted"]
          /\ UNCHANGED <<inmap, proc, mon, dtask, call, lock>>
          /\ \/ /\ faults' = faults /\ tree' = [tree EXCEPT ![s] = FALSE]
                /\ owned' = [owned EXCEPT ![s] = FALSE]
             \/ faults' = faults + 1 /\ tree' = tree /\ owned' = owned
        BY <1>4 DEF AbandonStart, kill_tree, kill_tree_fails, Works, Fails, monVars, opVars
    <2>2. /\ tree' \in [Sessions -> BOOLEAN] /\ \A r \in Sessions : tree'[r] => tree[r]
          /\ tree' = [tree EXCEPT ![s] = FALSE] => ~tree'[s]
        BY <2>1, TreeDies DEF OwnInv
    <2>3. /\ start' \in [Sessions -> StartPlaces] /\ owned' \in [Sessions -> BOOLEAN]
          /\ \A r \in Sessions \ {s} : owned'[r] = owned[r] /\ start'[r] = start[r]
          /\ start'[s] = "aborted"
        BY <2>1 DEF OwnInv, OwnType, StartPlaces
    <2>4. faults' \in Nat /\ faults' >= faults /\ (~tree'[s] \/ faults' > 0)
        BY <2>1, <2>2 DEF OwnInv, OwnType
    <2>5. OwnType'
        BY <2>1, <2>2, <2>3, <2>4 DEF OwnInv, OwnType
    <2>6. Spawned' /\ DeadBeforeUnregister'
        BY <2>1, <2>2, <2>3, <1>a DEF OwnInv, OwnType, Spawned, DeadBeforeUnregister
    <2>7. OwnedUntilDead'
        BY <2>1, <2>2, <2>3, <2>4 DEF OwnInv, OwnType, OwnedUntilDead
    <2>8. QED
        BY <2>5, <2>6, <2>7 DEF OwnInv
<1>5. QED
    BY <1>1, <1>2, <1>3, <1>4 DEF StartStep

\* Every step keeps the ownership invariant.
LEMMA NextOwnInv ==
    ASSUME OwnInv, [Next]_vars
    PROVE  OwnInv'
<1>1. CASE UNCHANGED ownVars
    BY <1>1 DEF ownVars, OwnInv, OwnType, Spawned, DeadBeforeUnregister, OwnedUntilDead
<1>2. CASE UNCHANGED vars
    BY <1>1, <1>2 DEF vars, startVars, osVars, monVars, opVars, dispVars, ownVars
<1>3. CASE \E s \in Sessions :
        OS(s) \/ StartStep(s) \/ MonitorStep(s) \/ MonitorDeadline(s) \/ DisposeTask(s)
        \/ CancelProcess(s)
    BY <1>3, OSOwned, StartOwned, MonitorOwned, DisposeOwned, CancelOwned
<1>4. CASE \E c \in Calls : Begin(c) \/ CallStep(c) \/ RunCancelled(c)
    BY <1>4, CallOwned
<1>5. CASE Sweep
    <2>1. /\ UNCHANGED <<faults, start, proc, tree, owned, mon, dtask, call, lock>>
          /\ inmap' \subseteq inmap
        BY <1>5 DEF Sweep, _prune_completed_sessions, osVars, monVars, opVars, dispVars
    <2>2. OwnType'
        BY <2>1 DEF OwnInv, OwnType
    <2>3. Harmless
        BY <2>1 DEF OwnInv, OwnType, Spawned, Harmless
    <2>4. QED
        BY <2>2, <2>3, HarmlessSteps
<1>6. QED
    BY <1>2, <1>3, <1>4, <1>5 DEF Next

\* At first there is no tree to own.
LEMMA InitOwnInv ==
    ASSUME Init
    PROVE  OwnInv
<1>1. OwnType
    BY DEF Init, OwnType, StartPlaces
<1>2. Spawned /\ DeadBeforeUnregister /\ OwnedUntilDead
    BY SessionAssumption DEF Init, Spawned, DeadBeforeUnregister, OwnedUntilDead
<1>3. QED
    BY <1>1, <1>2 DEF OwnInv

\* The master keeps a session's tree until it is dead, for any number of sessions,
\* calls and failing backend calls, and an abandoned start leaves none behind unless
\* a backend call failed.
THEOREM OwnedUntilDeadHolds == Spec => []OwnedUntilDead
<1>1. Init => OwnInv
    BY InitOwnInv
<1>2. OwnInv /\ [Next]_vars => OwnInv'
    BY NextOwnInv
<1>3. OwnInv => OwnedUntilDead
    BY DEF OwnInv
<1>4. QED
    BY <1>1, <1>2, <1>3, PTL DEF Spec
-----------------------------------------------------------------------------
(* The reason a stopped session reports.                                     *)

MonitorPlaces == {"none", "wait", "kill", "reap", "drain", "drainkill", "dispose", "join",
                  "finish", "failing", "completing", "done"}

ReasonType ==
    /\ start \in [Sessions -> StartPlaces] /\ mon \in [Sessions -> MonitorPlaces]
    /\ st \in [Sessions -> States]
    /\ err = [s \in Sessions |-> err[s]] /\ reason = [s \in Sessions |-> reason[s]]
    /\ result = [s \in Sessions |-> result[s]]

\* A result exists only behind the last place where a reason can still be written:
\* deadlines belong to a waiting monitor, and cancel is declined once st has ended.
ResultLast ==
    \A s \in Sessions :
        /\ start[s] # "returned" => mon[s] = "none"
        /\ result[s] # "none" => mon[s] \in {"completing", "done"}
        /\ mon[s] \in {"failing", "completing", "done"} => st[s] \in Ended
        /\ mon[s] = "failing" => err[s] # "none"

ReasonInv == ReasonType /\ ResultLast /\ StopReasonReported

reasonVars == <<start, mon, st, err, reason, result>>

\* start() makes the monitor last, so no result precedes it.
LEMMA StartReason ==
    ASSUME ReasonInv, NEW s \in Sessions, StartStep(s), ~Spawn(s)
    PROVE  ReasonInv'
<1>1. /\ UNCHANGED <<err, reason, result>>
      /\ start[s] # "returned"
      /\ \/ mon' = mon /\ \E p \in StartPlaces \ {"returned"} : start' = [start EXCEPT ![s] = p]
         \/ mon' = [mon EXCEPT ![s] = "wait"] /\ start' = [start EXCEPT ![s] = "returned"]
      /\ \/ st' = st \/ st' = [st EXCEPT ![s] = "accepted"] \/ st' = [st EXCEPT ![s] = "running"]
    BY DEF StartStep, Admit, StartFailed, Register, RegisterFails, Announce, Return, CancelStart,
         AbandonStart, transition, StartPlaces, monVars, stopVars
<1>2. mon[s] = "none" /\ result[s] = "none"
    BY <1>1 DEF ReasonInv, ReasonType, ResultLast
<1>3. ReasonType'
    BY <1>1 DEF ReasonInv, ReasonType, StartPlaces, MonitorPlaces, States
<1>4. ResultLast'
    BY <1>1, <1>2 DEF ReasonInv, ReasonType, ResultLast
<1>5. StopReasonReported'
    BY <1>1 DEF ReasonInv, StopReasonReported
<1>6. QED
    BY <1>3, <1>4, <1>5 DEF ReasonInv

\* A monitor that has not finished carries no result yet.
LEMMA MonitorWaits ==
    ASSUME ReasonInv, NEW s \in Sessions,
           \/ MonitorExited(s) \/ MonitorDeadline(s) \/ MonitorKill(s) \/ MonitorReapTimeout(s)
           \/ MonitorDrained(s) \/ MonitorDrainTimeout(s) \/ MonitorDrainKill(s)
           \/ MonitorDispose(s) \/ MonitorJoined(s) \/ MonitorInferLimit(s) \/ MonitorFail(s)
    PROVE  ReasonInv'
<1>1. /\ UNCHANGED <<start, result>>
      /\ mon[s] \in MonitorPlaces \ {"none", "failing", "completing", "done"}
      /\ \E e : err' = err \/ err' = [err EXCEPT ![s] = e]
      /\ \E d : reason' = reason \/ reason' = [reason EXCEPT ![s] = d]
      /\ \/ /\ \E m \in MonitorPlaces \ {"none", "failing", "completing", "done"} :
                  mon' = mon \/ mon' = [mon EXCEPT ![s] = m]
            /\ st' = st \/ st' = [st EXCEPT ![s] = "draining"]
         \/ /\ mon' = [mon EXCEPT ![s] = "failing"] /\ st' = [st EXCEPT ![s] = "failed"]
            /\ err[s] # "none" /\ err' = err
    <2>1. CASE MonitorExited(s) \/ MonitorDeadline(s) \/ MonitorReapTimeout(s) \/ MonitorDrained(s)
               \/ MonitorDrainTimeout(s)
        BY <2>1 DEF MonitorExited, MonitorDeadline, MonitorReapTimeout, MonitorDrained,
             MonitorDrainTimeout, Goto, SetError, MonitorPlaces, startVars, stopVars
    <2>2. CASE MonitorKill(s) \/ MonitorDrainKill(s) \/ MonitorDispose(s)
        BY <2>2 DEF MonitorKill, MonitorDrainKill, MonitorDispose, Goto, SetError, MonitorPlaces,
             startVars, stopVars
    <2>3. CASE MonitorJoined(s)
        <3>1. \E e : err' = [err EXCEPT ![s] = e]
            BY <2>3 DEF MonitorJoined
        <3>2. QED
            BY <2>3, <3>1 DEF MonitorJoined, Goto, MonitorPlaces, startVars, stopVars
    <2>4. CASE MonitorInferLimit(s) \/ MonitorFail(s)
        BY <2>4 DEF MonitorInferLimit, MonitorFail, Goto, SetError, MonitorPlaces, transition,
             startVars, stopVars
    <2>5. QED
        BY <2>1, <2>2, <2>3, <2>4
<1>2. result[s] = "none" /\ start[s] = "returned"
    BY <1>1 DEF ReasonInv, ResultLast, MonitorPlaces
<1>3. ReasonType'
    BY <1>1 DEF ReasonInv, ReasonType, MonitorPlaces, States
<1>4. ResultLast'
    BY <1>1, <1>2 DEF ReasonInv, ReasonType, ResultLast, MonitorPlaces, Ended
<1>5. StopReasonReported'
    BY <1>1, <1>2 DEF ReasonInv, ReasonType, StopReasonReported
<1>6. QED
    BY <1>3, <1>4, <1>5 DEF ReasonInv

\* The result is written from the reason, or beside an error; pruning follows it.
LEMMA MonitorReports ==
    ASSUME ReasonInv, NEW s \in Sessions,
           MonitorComplete(s) \/ MonitorReport(s) \/ MonitorDone(s)
    PROVE  ReasonInv'
<1>1. CASE MonitorComplete(s)
    <2>1. /\ UNCHANGED <<start, err, reason>> /\ mon[s] = "finish" /\ err[s] = "none"
          /\ mon' = [mon EXCEPT ![s] = "completing"] /\ st' = [st EXCEPT ![s] = "completed"]
          /\ \E x : /\ result' = [result EXCEPT ![s] = x]
                    /\ reason[s] # "none" => x = reason[s]
        BY <1>1 DEF MonitorComplete, transition, Goto, startVars, stopVars
    <2>2. ReasonType' /\ ResultLast'
        BY <2>1 DEF ReasonInv, ReasonType, ResultLast, MonitorPlaces, States, Ended
    <2>3. StopReasonReported'
        BY <2>1 DEF ReasonInv, ReasonType, StopReasonReported
    <2>4. QED
        BY <2>2, <2>3 DEF ReasonInv
<1>2. CASE MonitorReport(s)
    <2>1. /\ UNCHANGED <<start, err, reason, st>> /\ mon[s] = "failing"
          /\ mon' = [mon EXCEPT ![s] = "completing"]
          /\ \E x : result' = [result EXCEPT ![s] = x]
        BY <1>2 DEF MonitorReport, Goto, startVars, stopVars
    <2>2. ReasonType' /\ ResultLast'
        BY <2>1 DEF ReasonInv, ReasonType, ResultLast, MonitorPlaces
    <2>3. StopReasonReported'
        BY <2>1 DEF ReasonInv, ReasonType, ResultLast, StopReasonReported
    <2>4. QED
        BY <2>2, <2>3 DEF ReasonInv
<1>3. CASE MonitorDone(s)
    <2>1. /\ UNCHANGED <<start, err, reason, result>> /\ mon[s] = "completing"
          /\ mon' = [mon EXCEPT ![s] = "done"]
          /\ \E out : st' = [r \in Sessions |-> IF r \in out THEN "disposed" ELSE st[r]]
        BY <1>3 DEF MonitorDone, _prune_completed_sessions, Goto, stopVars
    <2>2. ReasonType' /\ ResultLast'
        BY <2>1 DEF ReasonInv, ReasonType, ResultLast, MonitorPlaces, States, Ended
    <2>3. StopReasonReported'
        BY <2>1 DEF ReasonInv, StopReasonReported
    <2>4. QED
        BY <2>2, <2>3 DEF ReasonInv
<1>4. QED
    BY <1>1, <1>2, <1>3

\* cancel writes its reason only while the session is running or cancelling; dispose
\* and pruning only end sessions.
LEMMA StopReason ==
    ASSUME ReasonInv, Sweep \/ \E c \in Calls : CancelAccepted(c) \/ DisposeForget(c)
    PROVE  ReasonInv'
<1>1. CASE \E c \in Calls : CancelAccepted(c)
    <2>1. PICK c \in Calls : CancelAccepted(c)
        BY <1>1
    <2> DEFINE s == Target[c]
    <2>2. s \in Sessions
        BY SessionAssumption
    <2>3. /\ UNCHANGED <<start, mon, err, result>> /\ st[s] \in {"running", "cancelling"}
          /\ st' = [st EXCEPT ![s] = "cancelling"]
          /\ reason' = [reason EXCEPT ![s] = "cancelled"]
        BY <2>1 DEF CancelAccepted, _require_active, startVars, monVars
    <2> HIDE DEF s
    <2>4. mon[s] \notin {"failing", "completing", "done"} /\ result[s] = "none"
        BY <2>2, <2>3 DEF ReasonInv, ReasonType, ResultLast, Ended
    <2>5. ReasonType' /\ ResultLast'
        BY <2>2, <2>3, <2>4 DEF ReasonInv, ReasonType, ResultLast, States, Ended
    <2>6. StopReasonReported'
        BY <2>2, <2>3, <2>4 DEF ReasonInv, ReasonType, StopReasonReported
    <2>7. QED
        BY <2>5, <2>6 DEF ReasonInv
<1>2. CASE Sweep \/ \E c \in Calls : DisposeForget(c)
    <2>1. /\ UNCHANGED <<start, mon, err, reason, result>>
          /\ \/ \E out : st' = [r \in Sessions |-> IF r \in out THEN "disposed" ELSE st[r]]
             \/ st' = st
             \/ \E s : st' = [st EXCEPT ![s] = "disposed"]
        BY <1>2 DEF Sweep, _prune_completed_sessions, DisposeForget, transition, monVars, stopVars
    <2>2. ReasonType' /\ ResultLast'
        BY <2>1 DEF ReasonInv, ReasonType, ResultLast, States, Ended
    <2>3. StopReasonReported'
        BY <2>1 DEF ReasonInv, StopReasonReported
    <2>4. QED
        BY <2>2, <2>3 DEF ReasonInv
<1>3. QED
    BY <1>1, <1>2

\* Every step keeps the reasons and results in line.
LEMMA NextReasonInv ==
    ASSUME ReasonInv, [Next]_vars
    PROVE  ReasonInv'
<1>1. CASE UNCHANGED reasonVars
    BY <1>1 DEF reasonVars, ReasonInv, ReasonType, ResultLast, StopReasonReported
<1>2. CASE UNCHANGED vars
    BY <1>1, <1>2 DEF vars, startVars, monVars, stopVars, reasonVars
<1>3. CASE \E s \in Sessions : OS(s) \/ Spawn(s) \/ DisposeTask(s) \/ CancelProcess(s)
    <2>1. PICK s \in Sessions : OS(s) \/ Spawn(s) \/ DisposeTask(s) \/ CancelProcess(s)
        BY <1>3
    <2>2. CASE OS(s) \/ Spawn(s) \/ DisposeTask(s)
        BY <1>1, <2>2 DEF OS, Exit, TreeEnds, ReadersEOF, Spawn, DisposeTask, startVars, monVars,
             stopVars, reasonVars
    <2>3. CASE CancelProcess(s)
        BY <1>1, <2>3 DEF CancelProcess, CancelSignal, CancelGrace, CancelKill, CancelEnd,
             startVars, monVars, stopVars, reasonVars
    <2>4. QED
        BY <2>1, <2>2, <2>3
<1>4. CASE \E s \in Sessions : StartStep(s) /\ ~Spawn(s)
    BY <1>4, StartReason
<1>5. CASE \E s \in Sessions : MonitorStep(s) \/ MonitorDeadline(s)
    BY <1>5, MonitorWaits, MonitorReports DEF MonitorStep
<1>6. CASE \E c \in Calls : QuietCall(c)
    BY <1>1, <1>6 DEF QuietCall, Begin, Run, RunCancelled, Input, CancelDeclined, DisposeWait,
         DisposeBackend, ShutdownGivesUp, startVars, monVars, stopVars, reasonVars
<1>7. CASE Sweep \/ \E c \in Calls : CancelAccepted(c) \/ DisposeForget(c)
    BY <1>7, StopReason
<1>8. QED
    BY <1>2, <1>3, <1>4, <1>5, <1>6, <1>7 DEF Next, CallStep, QuietCall

\* At first nothing has been stopped or reported.
LEMMA InitReasonInv ==
    ASSUME Init
    PROVE  ReasonInv
BY DEF Init, ReasonInv, ReasonType, ResultLast, StopReasonReported, StartPlaces,
     MonitorPlaces, States, Ended

\* A session stopped by a cancel or a deadline reports that, and what it reported
\* does not change, however cancel, deadlines, dispose and pruning interleave.
THEOREM StopReasonReportedHolds == Spec => []StopReasonReported
<1>1. Init => ReasonInv
    BY InitReasonInv
<1>2. ReasonInv /\ [Next]_vars => ReasonInv'
    BY NextReasonInv
<1>3. ReasonInv => StopReasonReported
    BY DEF ReasonInv
<1>4. QED
    BY <1>1, <1>2, <1>3, PTL DEF Spec
-----------------------------------------------------------------------------
(* Type correctness: what the three invariants say nothing of.               *)

Errors == {"none", "INTERNAL_ERROR", "TERMINATION_FAILED", "DRAIN_TIMEOUT", "RESOURCE_LIMITED"}
Reasons == {"none", "cancelled"} \cup Deadlines
StopSteps == {"interrupt", "terminate", "kill_tree"}
Results == {"none", "success", "failed", "cancelled", "timeout", "idle_timeout",
            "resource_limited"}
CancelPlaces == {"none", "interrupt", "interruptGrace", "terminate", "terminateGrace", "kill",
                 "killGrace", "cleanup", "reap"}

\* The sessions that have a completion time; Rank counts them.
Timed == {s \in Sessions : ended[s] > 0}

RestType ==
    /\ gone \subseteq Sessions /\ faults \in 0 .. MaxFaults
    /\ drained \in [Sessions -> BOOLEAN] /\ disposed \in [Sessions -> BOOLEAN]
    /\ err \in [Sessions -> Errors] /\ reason \in [Sessions -> Reasons]
    /\ steps \in [Sessions -> SUBSET StopSteps] /\ result \in [Sessions -> Results]
    /\ cpc \in [Sessions -> CancelPlaces]

RankInv == ended \in [Sessions -> Nat] /\ IsFiniteSet(Timed)

\* What any step may do to these variables, of one session.
Shape(s) ==
    /\ gone' = gone \/ gone' = gone \cup {s}
    /\ faults' = faults \/ (faults < MaxFaults /\ faults' = faults + 1)
    /\ drained' = drained \/ drained' = [drained EXCEPT ![s] = TRUE]
    /\ disposed' = disposed \/ disposed' = [disposed EXCEPT ![s] = TRUE]
    /\ err' = err \/ \E e \in Errors : err' = [err EXCEPT ![s] = e]
    /\ reason' = reason \/ \E d \in Reasons : reason' = [reason EXCEPT ![s] = d]
    /\ steps' = steps \/ \E x \in StopSteps : steps' = [steps EXCEPT ![s] = steps[s] \cup {x}]
    /\ result' = result \/ \E r \in Results : result' = [result EXCEPT ![s] = r]
    /\ cpc' = cpc \/ \E p \in CancelPlaces : cpc' = [cpc EXCEPT ![s] = p]

\* A step of that shape keeps the types.
LEMMA ShapeKeepsTypes ==
    ASSUME RestType, NEW s \in Sessions, Shape(s)
    PROVE  RestType'
<1>1. MaxFaults \in Nat
    BY SessionAssumption
<1>2. gone' \subseteq Sessions /\ faults' \in 0 .. MaxFaults
    BY <1>1 DEF RestType, Shape
<1>3. drained' \in [Sessions -> BOOLEAN] /\ disposed' \in [Sessions -> BOOLEAN]
    BY DEF RestType, Shape
<1>4. err' \in [Sessions -> Errors] /\ reason' \in [Sessions -> Reasons]
    BY DEF RestType, Shape
<1>5. steps' \in [Sessions -> SUBSET StopSteps]
    BY DEF RestType, Shape
<1>6. result' \in [Sessions -> Results] /\ cpc' \in [Sessions -> CancelPlaces]
    BY DEF RestType, Shape
<1>7. QED
    BY <1>2, <1>3, <1>4, <1>5, <1>6 DEF RestType

\* The operating system, start() and the dispose task.
LEMMA StartShape ==
    ASSUME RestType, NEW s \in Sessions, OS(s) \/ StartStep(s) \/ DisposeTask(s)
    PROVE  Shape(s)
<1>1. CASE OS(s)
    BY <1>1 DEF OS, Exit, TreeEnds, ReadersEOF, monVars, stopVars, opVars, dispVars, Shape
<1>2. CASE Admit(s) \/ Spawn(s) \/ StartFailed(s) \/ Register(s) \/ RegisterFails(s)
    BY <1>2 DEF Admit, Spawn, StartFailed, Register, RegisterFails, Fails, CanFail, osVars,
         monVars, stopVars, opVars, dispVars, Shape
<1>3. CASE Announce(s) \/ Return(s) \/ CancelStart(s)
    BY <1>3 DEF Announce, Return, CancelStart, osVars, monVars, stopVars, opVars, dispVars, Shape
<1>4. CASE AbandonStart(s)
    BY <1>4 DEF AbandonStart, kill_tree, kill_tree_fails, Works, Fails, CanFail, monVars,
         stopVars, opVars, Shape
<1>5. CASE DisposeTask(s)
    BY <1>5 DEF DisposeTask, kill_tree, kill_tree_fails, Works, Fails, CanFail, monVars,
         stopVars, opVars, Shape
<1>6. QED
    BY <1>1, <1>2, <1>3, <1>4, <1>5 DEF StartStep

\* The monitor up to its result.
LEMMA MonitorShape ==
    ASSUME RestType, NEW s \in Sessions, MonitorStep(s) \/ MonitorDeadline(s)
    PROVE  Shape(s)
<1>1. CASE MonitorExited(s) \/ MonitorDeadline(s) \/ MonitorReapTimeout(s) \/ MonitorDrained(s)
           \/ MonitorDrainTimeout(s)
    BY <1>1 DEF MonitorExited, MonitorDeadline, MonitorReapTimeout, MonitorDrained,
         MonitorDrainTimeout, SetError, osVars, stopVars, opVars, dispVars, Shape, Errors,
         Reasons, StopSteps
<1>2. CASE MonitorKill(s) \/ MonitorDrainKill(s)
    BY <1>2 DEF MonitorKill, MonitorDrainKill, kill_tree, kill_tree_fails, Works, Fails, CanFail,
         SetError, stopVars, opVars, dispVars, Shape, Errors
<1>3. CASE MonitorDispose(s) \/ MonitorInferLimit(s) \/ MonitorFail(s) \/ MonitorDone(s)
    BY <1>3 DEF MonitorDispose, MonitorInferLimit, MonitorFail, MonitorDone, SetError, osVars,
         stopVars, opVars, dispVars, Shape, Errors
<1>4. CASE MonitorJoined(s)
    <2>1. err[s] \in Errors
        BY DEF RestType
    <2>2. \E e \in Errors : err' = [err EXCEPT ![s] = e]
        <3>1. PICK e \in {"none", "INTERNAL_ERROR", "TERMINATION_FAILED"} :
                err' = [err EXCEPT ![s] = IF err[s] = "none" THEN e ELSE err[s]]
            BY <1>4 DEF MonitorJoined
        <3>2. (IF err[s] = "none" THEN e ELSE err[s]) \in Errors
            BY <2>1 DEF Errors
        <3>3. QED
            BY <3>1, <3>2
    <2>3. QED
        BY <1>4, <2>2 DEF MonitorJoined, osVars, stopVars, opVars, dispVars, Shape
<1>5. CASE MonitorComplete(s)
    <2>1. reason[s] \in Reasons /\ Deadlines \subseteq {"timeout", "idle_timeout"}
        BY SessionAssumption DEF RestType
    <2>2. (IF reason[s] # "none" THEN reason[s]
           ELSE IF proc[s] = "zero" THEN "success" ELSE "failed") \in Results
        BY <2>1 DEF Reasons, Results
    <2>3. \E r \in Results : result' = [result EXCEPT ![s] = r]
        BY <1>5, <2>2 DEF MonitorComplete
    <2>4. QED
        BY <1>5, <2>3 DEF MonitorComplete, osVars, stopVars, opVars, dispVars, Shape
<1>6. CASE MonitorReport(s)
    <2>1. \E r \in Results : result' = [result EXCEPT ![s] = r]
        BY <1>6 DEF MonitorReport, Results
    <2>2. QED
        BY <1>6, <2>1 DEF MonitorReport, osVars, stopVars, opVars, dispVars, Shape
<1>7. QED
    BY <1>1, <1>2, <1>3, <1>4, <1>5, <1>6 DEF MonitorStep

\* Calls and the cancellation they run.
LEMMA CallShape ==
    ASSUME RestType, NEW c \in Calls, Begin(c) \/ CallStep(c) \/ RunCancelled(c)
    PROVE  Shape(Target[c])
<1>1. CASE Begin(c) \/ Run(c) \/ RunCancelled(c) \/ Input(c) \/ CancelDeclined(c)
    BY <1>1 DEF Begin, Run, RunCancelled, Input, CancelDeclined, osVars, monVars, stopVars,
         opVars, dispVars, Shape
<1>2. CASE CancelAccepted(c)
    <2>1. /\ \E d \in Reasons : reason' = [reason EXCEPT ![Target[c]] = d]
          /\ \E p \in CancelPlaces : cpc' = [cpc EXCEPT ![Target[c]] = p]
        BY <1>2 DEF CancelAccepted, Reasons, CancelPlaces
    <2>2. QED
        BY <1>2, <2>1 DEF CancelAccepted, osVars, monVars, dispVars, Shape
<1>3. CASE DisposeWait(c) \/ DisposeBackend(c) \/ DisposeForget(c) \/ ShutdownGivesUp(c)
    BY <1>3 DEF DisposeWait, DisposeBackend, DisposeForget, ShutdownGivesUp, osVars, monVars,
         stopVars, dispVars, Shape
<1>4. QED
    BY <1>1, <1>2, <1>3 DEF CallStep

\* The escalation of a cancel.
LEMMA CancelShape ==
    ASSUME RestType, NEW s \in Sessions, CancelProcess(s)
    PROVE  Shape(s)
<1>1. CASE CancelSignal(s) \/ CancelGrace(s) \/ CancelEnd(s)
    BY <1>1 DEF CancelSignal, CancelGrace, CancelEnd, CancelStep, Escalate, Works, Fails,
         CanFail, osVars, monVars, stopVars, dispVars, Shape, StopSteps, CancelPlaces
<1>2. CASE CancelKill(s)
    <2>1. /\ \E p \in CancelPlaces : cpc' = [cpc EXCEPT ![s] = p]
          /\ \E x \in StopSteps : steps' = [steps EXCEPT ![s] = steps[s] \cup {x}]
        BY <1>2 DEF CancelKill, Escalate, CancelStep, CancelPlaces, StopSteps
    <2>2. QED
        BY <1>2, <2>1 DEF CancelKill, kill_tree, kill_tree_fails, Works, Fails, CanFail, monVars,
             dispVars, Shape
<1>3. QED
    BY <1>1, <1>2 DEF CancelProcess

\* Every step keeps these types.
LEMMA NextRestType ==
    ASSUME RestType, [Next]_vars
    PROVE  RestType'
<1>1. CASE UNCHANGED <<gone, faults, drained, disposed, err, reason, steps, result, cpc>>
    BY <1>1 DEF RestType
<1>2. CASE UNCHANGED vars \/ Sweep
    BY <1>1, <1>2 DEF vars, Sweep, osVars, monVars, stopVars, opVars, dispVars
<1>3. CASE \E s \in Sessions :
        OS(s) \/ StartStep(s) \/ MonitorStep(s) \/ MonitorDeadline(s) \/ DisposeTask(s)
        \/ CancelProcess(s)
    BY <1>3, StartShape, MonitorShape, CancelShape, ShapeKeepsTypes
<1>4. CASE \E c \in Calls : Begin(c) \/ CallStep(c) \/ RunCancelled(c)
    <2>1. \A c \in Calls : Target[c] \in Sessions
        BY SessionAssumption
    <2>2. QED
        BY <1>4, <2>1, CallShape, ShapeKeepsTypes
<1>5. QED
    BY <1>2, <1>3, <1>4 DEF Next

\* Completion ranks are natural numbers: only finitely many sessions have one.
LEMMA NextRankInv ==
    ASSUME RankInv, [Next]_vars
    PROVE  RankInv'
<1>1. CASE UNCHANGED ended
    BY <1>1 DEF RankInv, Timed
<1>2. CASE \E s \in Sessions : MonitorComplete(s) \/ MonitorReport(s)
    <2>1. PICK s \in Sessions : ended' = [ended EXCEPT ![s] = Rank]
        BY <1>2 DEF MonitorComplete, MonitorReport
    <2>2. Rank \in Nat /\ Rank > 0
        BY FS_CardinalityType DEF RankInv, Timed, Rank
    <2>3. ended' \in [Sessions -> Nat] /\ Timed' = Timed \cup {s}
        BY <2>1, <2>2 DEF RankInv, Timed
    <2>4. QED
        BY <2>3, FS_AddElement DEF RankInv
<1>3. CASE \E s \in Sessions : OS(s) \/ StartStep(s) \/ DisposeTask(s) \/ CancelProcess(s)
    <2>1. CASE \E s \in Sessions : OS(s) \/ StartStep(s)
        BY <1>1, <2>1 DEF OS, Exit, TreeEnds, ReadersEOF, StartStep, Admit, Spawn, StartFailed,
             Register, RegisterFails, Announce, Return, CancelStart, AbandonStart, monVars
    <2>2. CASE \E s \in Sessions : DisposeTask(s) \/ CancelProcess(s)
        BY <1>1, <2>2 DEF DisposeTask, CancelProcess, CancelSignal, CancelGrace, CancelKill,
             CancelEnd, monVars
    <2>3. QED
        BY <1>3, <2>1, <2>2
<1>4. CASE \E s \in Sessions : (MonitorStep(s) \/ MonitorDeadline(s))
                                 /\ ~(MonitorComplete(s) \/ MonitorReport(s))
    BY <1>1, <1>4 DEF MonitorStep, MonitorDeadline, MonitorExited, MonitorKill,
         MonitorReapTimeout, MonitorDrained, MonitorDrainTimeout, MonitorDrainKill,
         MonitorDispose, MonitorJoined, MonitorInferLimit, MonitorFail, MonitorDone
<1>5. CASE \E c \in Calls : Begin(c) \/ CallStep(c) \/ RunCancelled(c)
    BY <1>1, <1>5 DEF Begin, CallStep, RunCancelled, Run, Input, CancelDeclined, CancelAccepted,
         DisposeWait, DisposeBackend, DisposeForget, ShutdownGivesUp, monVars
<1>6. CASE UNCHANGED vars \/ Sweep
    BY <1>1, <1>6 DEF vars, Sweep, monVars
<1>7. QED
    BY <1>2, <1>3, <1>4, <1>5, <1>6 DEF Next

\* They hold at first.
LEMMA InitRestType ==
    ASSUME Init
    PROVE  RestType /\ RankInv
<1>1. RestType
    <2>1. MaxFaults \in Nat
        BY SessionAssumption
    <2>2. QED
        BY <2>1 DEF Init, RestType, Errors, Reasons, StopSteps, Results, CancelPlaces
<1>2. RankInv
    <2>1. Timed = {} /\ ended \in [Sessions -> Nat]
        BY DEF Init, Timed
    <2>2. QED
        BY <2>1, FS_EmptySet DEF RankInv
<1>3. QED
    BY <1>1, <1>2

\* Every variable of the manager keeps its type: the reservations never go below
\* zero, ranks stay numbers, and only known states, places and reasons occur.
THEOREM SessionTypeCorrect == Spec => []TypeOK
<1>1. SlotInv /\ OwnInv /\ RestType /\ RankInv => TypeOK
    BY DEF SlotInv, SlotType, OwnInv, OwnType, RestType, RankInv, TypeOK, StartPlaces, Errors,
         Reasons, StopSteps, Results, CancelPlaces
<1>2. QED
    BY <1>1, InitSlotInv, InitOwnInv, InitRestType, NextSlotInv, NextOwnInv, NextRestType,
       NextRankInv, PTL DEF Spec
-----------------------------------------------------------------------------
(* The refinement of SessionContract.                                        *)

\* start() and the lifecycle go together: a session leaves created when it enters the
\* map, and only one whose start() has returned can end.
LifeStarts ==
    \A s \in Sessions :
        /\ start[s] \in {"idle", "spawning", "settling", "failed"} => st[s] = "created"
        /\ start[s] \in {"accepted", "announced", "returned"} => st[s] # "created"
        /\ st[s] \in Ended => start[s] = "returned"

\* A handle is disposed of over a dead tree, and a monitor finishes without an error
\* only over a disposed handle.
DisposedDead ==
    \A s \in Sessions :
        /\ disposed[s] => ~tree[s] /\ proc[s] # "none"
        /\ dtask[s] \in {"unregister", "done"} => disposed[s]
        /\ mon[s] = "finish" /\ err[s] = "none" => disposed[s]

\* What a step does to the state of one session beyond start().
LEMMA StateMoves ==
    ASSUME SlotInv, ReasonInv, LifeStarts, [Next]_vars,
           ~\E s \in Sessions : StartStep(s)
    PROVE  /\ UNCHANGED start
           /\ st' \in [Sessions -> States]
           /\ \A s \in Sessions : st'[s] # st[s] =>
                 /\ st[s] # "created" /\ st[s] # "disposed" /\ st'[s] # "created"
                 /\ st[s] \in Ended => st'[s] = "disposed"
                 /\ st'[s] = "disposed" => st[s] \in Ended
                 /\ st'[s] \in {"completed", "failed"} => mon[s] = "finish"
<1>1. CASE UNCHANGED slotVars
    BY <1>1 DEF slotVars, SlotInv, SlotType
<1>2. CASE \E s \in Sessions : MonitorExited(s) \/ MonitorComplete(s) \/ MonitorFail(s)
    <2>1. PICK s \in Sessions : MonitorExited(s) \/ MonitorComplete(s) \/ MonitorFail(s)
        BY <1>2
    <2>2. /\ UNCHANGED start /\ mon[s] # "none"
          /\ \/ st' = [st EXCEPT ![s] = "draining"] /\ st[s] \notin Ended
             \/ /\ st' = [st EXCEPT ![s] = "completed"] /\ mon[s] = "finish"
                /\ "completed" \in _TRANSITIONS[st[s]]
             \/ /\ st' = [st EXCEPT ![s] = "failed"] /\ mon[s] = "finish"
                /\ "failed" \in _TRANSITIONS[st[s]]
        BY <2>1, TransitionFacts DEF MonitorExited, MonitorComplete, MonitorFail, transition,
             startVars, SlotInv, SlotType, Ended
    <2>3. \A x \in States : "completed" \in _TRANSITIONS[x] \/ "failed" \in _TRANSITIONS[x]
                               => x \notin Ended
        BY DEF States, _TRANSITIONS, Ended
    <2>4. st[s] # "created" /\ st[s] \notin Ended
        BY <2>2, <2>3 DEF SlotInv, SlotType, ReasonInv, ResultLast, LifeStarts
    <2>5. QED
        BY <2>2, <2>4 DEF SlotInv, SlotType, States, Ended
<1>3. CASE Sweep \/ \E s \in Sessions : MonitorDone(s)
    <2>1. UNCHANGED start /\ \E E \in SUBSET Prunable : _prune_completed_sessions(E)
        BY <1>3 DEF Sweep, MonitorDone
    <2>2. PICK out \in SUBSET Prunable :
            st' = [s \in Sessions |-> IF s \in out THEN "disposed" ELSE st[s]]
        <3>1. PICK E \in SUBSET Prunable : _prune_completed_sessions(E)
            BY <2>1
        <3>2. E \cup Overflow(Prunable \ E) \subseteq Prunable
            BY DEF Overflow
        <3>3. QED
            BY <3>1, <3>2 DEF _prune_completed_sessions
    <2>3. \A s \in out : st[s] \in {"completed", "failed"}
        BY <2>2 DEF Prunable
    <2>4. QED
        BY <2>1, <2>2, <2>3 DEF SlotInv, SlotType, States, Ended
<1>4. CASE \E c \in Calls : CancelAccepted(c) \/ DisposeForget(c)
    <2>1. PICK c \in Calls : CancelAccepted(c) \/ DisposeForget(c)
        BY <1>4
    <2> DEFINE s == Target[c]
    <2>2. s \in Sessions
        BY SessionAssumption
    <2>3. /\ UNCHANGED start
          /\ \/ st' = [st EXCEPT ![s] = "cancelling"] /\ st[s] \in {"running", "cancelling"}
             \/ st' = [st EXCEPT ![s] = "disposed"] /\ "disposed" \in _TRANSITIONS[st[s]]
             \/ st' = st
        BY <2>1 DEF CancelAccepted, DisposeForget, transition, _require_active, startVars
    <2> HIDE DEF s
    <2>4. "disposed" \in _TRANSITIONS[st[s]] => st[s] \in {"completed", "failed"}
        BY <2>2, TransitionFacts DEF SlotInv, SlotType
    <2>5. QED
        BY <2>2, <2>3, <2>4 DEF SlotInv, SlotType, States, Ended
<1>5. CASE \E s \in Sessions : QuietStep(s)
    BY <1>1, <1>5, QuietSession
<1>6. CASE \E c \in Calls : QuietCall(c)
    BY <1>1, <1>6, QuietClient
<1>7. CASE UNCHANGED vars
    BY <1>1, <1>7 DEF vars, startVars, slotVars
<1>8. QED
    BY <1>2, <1>3, <1>4, <1>5, <1>6, <1>7 DEF Next, MonitorStep, CallStep, QuietStep, QuietCall

\* What start() does to the place and the state of its session.
LEMMA StartMoves ==
    ASSUME SlotInv, ReasonInv, LifeStarts, NEW s \in Sessions, StartStep(s)
    PROVE  /\ \A r \in Sessions \ {s} : start'[r] = start[r] /\ st'[r] = st[r]
           /\ \/ start[s] = "accepted" /\ st[s] = "accepted"
                 /\ start'[s] = "announced" /\ st'[s] = "running"
              \/ start[s] = "spawning" /\ start'[s] = "accepted" /\ st'[s] = "accepted"
                 /\ UNCHANGED tree
              \/ start[s] \in {"accepted", "announced"} /\ start'[s] = "cleanup" /\ st'[s] = st[s]
                 /\ UNCHANGED tree
              \/ start[s] = "announced" /\ start'[s] = "returned" /\ st'[s] = st[s]
              \/ /\ start[s] \in {"idle", "spawning", "settling"} /\ st'[s] = st[s]
                 /\ start'[s] \in {"spawning", "settling", "failed", "cleanup", "aborted"}
              \/ start[s] = "cleanup" /\ start'[s] = "aborted" /\ st'[s] = st[s]
<1>1. start \in [Sessions -> StartPlaces] /\ st \in [Sessions -> States]
    BY DEF SlotInv, SlotType
<1>2. CASE Admit(s) \/ StartFailed(s) \/ RegisterFails(s)
    BY <1>1, <1>2 DEF Admit, StartFailed, RegisterFails
<1>3. CASE Register(s)
    BY <1>1, <1>3 DEF Register, transition
<1>4. CASE Announce(s)
    BY <1>1, <1>4, TransitionFacts DEF Announce
<1>5. CASE Return(s) \/ CancelStart(s)
    BY <1>1, <1>5 DEF Return, CancelStart, osVars
<1>6. CASE AbandonStart(s)
    BY <1>1, <1>6 DEF AbandonStart
<1>7. CASE Spawn(s)
    <2>1. UNCHANGED <<start, st>> /\ start[s] \in {"spawning", "settling"}
        BY <1>7 DEF Spawn, startVars
    <2>2. QED
        BY <2>1
<1>8. QED
    BY <1>2, <1>3, <1>4, <1>5, <1>6, <1>7 DEF StartStep

\* Every step keeps start() and the lifecycle together.
LEMMA NextLifeStarts ==
    ASSUME SlotInv, ReasonInv, LifeStarts, [Next]_vars
    PROVE  LifeStarts'
<1>1. CASE \E s \in Sessions : StartStep(s)
    BY <1>1, StartMoves DEF LifeStarts, Ended
<1>2. CASE ~\E s \in Sessions : StartStep(s)
    <2>1. \A s \in Sessions : mon[s] = "finish" => start[s] = "returned"
        BY DEF ReasonInv, ResultLast
    <2>2. QED
        BY <1>2, <2>1, StateMoves DEF LifeStarts, Ended
<1>3. QED
    BY <1>1, <1>2

\* A step that revives no tree, undoes no disposal and finishes no monitor.
KeepsDead ==
    \A s \in Sessions :
        /\ disposed'[s] <=> disposed[s]
        /\ proc'[s] = "none" => proc[s] = "none"
        /\ tree'[s] => tree[s]
        /\ dtask'[s] \in {"unregister", "done"} => dtask[s] \in {"unregister", "done"}
        /\ mon'[s] = "finish" /\ err'[s] = "none" => mon[s] = "finish" /\ err[s] = "none"

\* Such a step keeps disposed handles over dead trees.
LEMMA DeadStaysDead ==
    ASSUME DisposedDead, KeepsDead
    PROVE  DisposedDead'
BY DEF DisposedDead, KeepsDead

\* The operating system and start().
LEMMA StartDead ==
    ASSUME OwnInv, RestType, DisposedDead, NEW s \in Sessions, OS(s) \/ StartStep(s)
    PROVE  DisposedDead'
<1>1. /\ tree \in [Sessions -> BOOLEAN] /\ disposed \in [Sessions -> BOOLEAN]
      /\ DOMAIN proc = Sessions /\ DOMAIN mon = Sessions
    BY DEF OwnInv, OwnType, RestType
<1>2. CASE OS(s)
    <2>1. /\ UNCHANGED <<disposed, dtask, mon, err>>
          /\ tree' = tree \/ tree' = [tree EXCEPT ![s] = FALSE]
          /\ \/ proc' = proc
             \/ \E x \in ExitCodes \cup {"nonzero"} : proc' = [proc EXCEPT ![s] = x]
        BY <1>2 DEF OS, Exit, TreeEnds, ReadersEOF, monVars, dispVars
    <2>2. \A r \in Sessions : tree'[r] => tree[r]
        BY <2>1, TreeDies DEF OwnInv
    <2>3. ExitCodes \subseteq {"zero", "nonzero", "xcpu"}
        BY SessionAssumption
    <2>4. \A r \in Sessions : proc'[r] = "none" => proc[r] = "none"
        BY <1>1, <2>1, <2>3
    <2>5. KeepsDead
        BY <2>1, <2>2, <2>4 DEF KeepsDead
    <2>6. QED
        BY <2>5, DeadStaysDead
<1>3. CASE Spawn(s)
    <2>1. /\ proc[s] = "none" /\ proc' = [proc EXCEPT ![s] = "running"]
          /\ tree' = [tree EXCEPT ![s] = TRUE] /\ UNCHANGED <<disposed, dtask, mon, err>>
        BY <1>3 DEF Spawn, monVars, dispVars
    <2>2. ~disposed[s]
        BY <2>1 DEF DisposedDead
    <2>3. /\ \A r \in Sessions \ {s} : tree'[r] = tree[r]
          /\ \A r \in Sessions : proc'[r] = "none" => proc[r] = "none"
        BY <1>1, <2>1
    <2>4. QED
        BY <2>1, <2>2, <2>3 DEF DisposedDead
<1>4. CASE AbandonStart(s)
    <2>1. /\ proc[s] # "none" /\ UNCHANGED <<proc, dtask, mon, err>>
        BY <1>4 DEF AbandonStart, monVars, OwnInv, Spawned
    <2>2. \/ tree' = [tree EXCEPT ![s] = FALSE] /\ disposed' = [disposed EXCEPT ![s] = TRUE]
          \/ UNCHANGED <<tree, disposed>>
        BY <1>4 DEF AbandonStart, kill_tree, kill_tree_fails
    <2>3. CASE UNCHANGED <<tree, disposed>>
        BY <2>1, <2>3 DEF DisposedDead
    <2>4. CASE tree' = [tree EXCEPT ![s] = FALSE] /\ disposed' = [disposed EXCEPT ![s] = TRUE]
        <3>1. /\ ~tree'[s] /\ disposed'[s]
              /\ \A r \in Sessions \ {s} : tree'[r] = tree[r] /\ disposed'[r] = disposed[r]
            BY <1>1, <2>4
        <3>2. QED
            BY <2>1, <3>1 DEF DisposedDead
    <2>5. QED
        BY <2>2, <2>3, <2>4
<1>5. CASE StartStep(s) /\ ~Spawn(s) /\ ~AbandonStart(s)
    <2>1. /\ UNCHANGED <<disposed, proc, tree, dtask, err>>
          /\ mon' = mon \/ mon' = [mon EXCEPT ![s] = "wait"]
        BY <1>5 DEF StartStep, Admit, StartFailed, Register, RegisterFails, Announce, Return,
             CancelStart, osVars, monVars, dispVars
    <2>2. KeepsDead
        BY <1>1, <2>1 DEF KeepsDead
    <2>3. QED
        BY <2>2, DeadStaysDead
<1>6. QED
    BY <1>2, <1>3, <1>4, <1>5

\* The monitor: it finishes without an error only behind a dispose task that is done
\* or a handle that was released before.
LEMMA MonitorDead ==
    ASSUME OwnInv, RestType, DisposedDead, NEW s \in Sessions, MonitorStep(s) \/ MonitorDeadline(s)
    PROVE  DisposedDead'
<1>1. /\ DOMAIN mon = Sessions /\ DOMAIN err = Sessions /\ DOMAIN dtask = Sessions
    BY DEF OwnInv, OwnType, RestType
<1>2. CASE MonitorKill(s) \/ MonitorDrainKill(s)
    <2>1. /\ UNCHANGED <<disposed, proc, dtask>>
          /\ tree' = tree \/ tree' = [tree EXCEPT ![s] = FALSE]
          /\ \E m \in {"reap", "dispose"} : mon' = [mon EXCEPT ![s] = m]
          /\ \E e \in Errors : err' = err \/ err' = [err EXCEPT ![s] = e]
        BY <1>2 DEF MonitorKill, MonitorDrainKill, kill_tree, kill_tree_fails, Goto, SetError,
             Errors, dispVars
    <2>2. \A r \in Sessions : tree'[r] => tree[r]
        BY <2>1, TreeDies DEF OwnInv
    <2>3. KeepsDead
        BY <1>1, <2>1, <2>2 DEF KeepsDead
    <2>4. QED
        BY <2>3, DeadStaysDead
<1>3. CASE MonitorExited(s) \/ MonitorDeadline(s) \/ MonitorReapTimeout(s) \/ MonitorDrained(s)
           \/ MonitorDrainTimeout(s) \/ MonitorComplete(s) \/ MonitorFail(s) \/ MonitorReport(s)
           \/ MonitorDone(s)
    <2>1. UNCHANGED <<disposed, proc, tree, dtask>>
        BY <1>3 DEF MonitorExited, MonitorDeadline, MonitorReapTimeout, MonitorDrained,
             MonitorDrainTimeout, MonitorComplete, MonitorFail, MonitorReport, MonitorDone,
             osVars, dispVars
    <2>2. /\ \E m \in MonitorPlaces \ {"finish"} : mon' = [mon EXCEPT ![s] = m]
          /\ err' = err \/ \E e \in Errors : err' = [err EXCEPT ![s] = e]
        BY <1>3 DEF MonitorExited, MonitorDeadline, MonitorReapTimeout, MonitorDrained,
             MonitorDrainTimeout, MonitorComplete, MonitorFail, MonitorReport, MonitorDone, Goto,
             SetError, MonitorPlaces, Errors
    <2>3. KeepsDead
        BY <1>1, <2>1, <2>2 DEF KeepsDead
    <2>4. QED
        BY <2>3, DeadStaysDead
<1>4. CASE MonitorInferLimit(s)
    <2>1. /\ UNCHANGED <<disposed, proc, tree, dtask, mon>>
          /\ err' = [err EXCEPT ![s] = "RESOURCE_LIMITED"]
        BY <1>4 DEF MonitorInferLimit, SetError, osVars, dispVars
    <2>2. KeepsDead
        BY <1>1, <2>1 DEF KeepsDead
    <2>3. QED
        BY <2>2, DeadStaysDead
<1>5. CASE MonitorDispose(s)
    <2>1. /\ UNCHANGED <<disposed, proc, tree, err>>
          /\ \/ disposed[s] /\ mon' = [mon EXCEPT ![s] = "finish"] /\ dtask' = dtask
             \/ /\ mon' = [mon EXCEPT ![s] = "join"]
                /\ dtask' = [dtask EXCEPT ![s] = IF dtask[s] = "none" THEN "run" ELSE dtask[s]]
        BY <1>5 DEF MonitorDispose, DisposeReleased, DisposeJoin, Goto, osVars
    <2>2. QED
        BY <1>1, <2>1 DEF DisposedDead
<1>6. CASE MonitorJoined(s)
    <2>1. /\ UNCHANGED <<disposed, proc, tree, dtask>>
          /\ mon' = [mon EXCEPT ![s] = "finish"]
          /\ \E e : /\ e = "none" => dtask[s] = "done"
                    /\ err' = [err EXCEPT ![s] = IF err[s] = "none" THEN e ELSE err[s]]
        BY <1>6 DEF MonitorJoined, Goto, osVars, dispVars
    <2>2. QED
        BY <1>1, <2>1 DEF DisposedDead
<1>7. QED
    BY <1>2, <1>3, <1>4, <1>5, <1>6 DEF MonitorStep

\* The dispose task kills the tree before the handle counts as disposed.
LEMMA DisposeDead ==
    ASSUME OwnInv, RestType, DisposedDead, NEW s \in Sessions, DisposeTask(s)
    PROVE  DisposedDead'
<1>1. /\ tree \in [Sessions -> BOOLEAN] /\ disposed \in [Sessions -> BOOLEAN]
      /\ DOMAIN dtask = Sessions
    BY DEF OwnInv, OwnType, RestType
<1>2. proc[s] # "none" /\ UNCHANGED <<proc, mon, err>>
    BY DEF DisposeTask, monVars, OwnInv, Spawned
<1>3. CASE dtask[s] = "run" /\ tree' = [tree EXCEPT ![s] = FALSE]
            /\ disposed' = [disposed EXCEPT ![s] = TRUE]
    <2>1. /\ ~tree'[s] /\ disposed'[s]
          /\ \A r \in Sessions \ {s} : tree'[r] = tree[r] /\ disposed'[r] = disposed[r]
        BY <1>1, <1>3
    <2>2. \A r \in Sessions \ {s} : dtask'[r] = dtask[r]
        BY <1>1, <1>3 DEF DisposeTask
    <2>3. QED
        BY <1>2, <2>1, <2>2 DEF DisposedDead
<1>4. CASE UNCHANGED <<tree, disposed>>
    <2>1. \/ dtask' = [dtask EXCEPT ![s] = "failed"]
          \/ dtask[s] = "unregister" /\ dtask' = [dtask EXCEPT ![s] = "done"]
          \/ disposed'[s] /\ \E d \in {"unregister", "done"} : dtask' = [dtask EXCEPT ![s] = d]
        <3>1. CASE dtask[s] = "unregister"
            BY <3>1 DEF DisposeTask
        <3>2. CASE dtask[s] = "run"
            BY <3>2, <1>1, <1>4 DEF DisposeTask
        <3>3. QED
            BY <3>1, <3>2 DEF DisposeTask
    <2>2. QED
        BY <1>1, <1>2, <1>4, <2>1 DEF DisposedDead
<1>5. QED
    BY <1>3, <1>4 DEF DisposeTask, kill_tree, kill_tree_fails

\* Every step keeps disposed handles over dead trees.
LEMMA NextDisposedDead ==
    ASSUME OwnInv, RestType, DisposedDead, [Next]_vars
    PROVE  DisposedDead'
<1>1. CASE UNCHANGED vars \/ Sweep
    <2>1. UNCHANGED <<disposed, proc, tree, dtask, mon, err>>
        BY <1>1 DEF vars, Sweep, osVars, monVars, dispVars
    <2>2. QED
        BY <2>1 DEF DisposedDead
<1>2. CASE \E s \in Sessions : CancelProcess(s)
    <2>1. PICK s \in Sessions : CancelProcess(s)
        BY <1>2
    <2>2. /\ UNCHANGED <<disposed, proc, dtask, mon, err>>
          /\ tree' = tree \/ tree' = [tree EXCEPT ![s] = FALSE]
        BY <2>1 DEF CancelProcess, CancelSignal, CancelGrace, CancelKill, CancelEnd, kill_tree,
             kill_tree_fails, osVars, monVars, dispVars
    <2>3. \A r \in Sessions : tree'[r] => tree[r]
        BY <2>2, TreeDies DEF OwnInv
    <2>4. KeepsDead
        BY <2>2, <2>3 DEF KeepsDead
    <2>5. QED
        BY <2>4, DeadStaysDead
<1>3. CASE \E c \in Calls : Begin(c) \/ CallStep(c) \/ RunCancelled(c)
    <2>1. PICK c \in Calls : Begin(c) \/ CallStep(c) \/ RunCancelled(c)
        BY <1>3
    <2>2. UNCHANGED <<disposed, proc, tree, mon, err>>
        BY <2>1 DEF Begin, CallStep, RunCancelled, Run, Input, CancelDeclined, CancelAccepted,
             DisposeWait, DisposeBackend, DisposeForget, ShutdownGivesUp, osVars, monVars, dispVars
    <2>3. \/ dtask' = dtask
          \/ dtask' = [dtask EXCEPT ![Target[c]] =
                         IF dtask[Target[c]] = "none" THEN "run" ELSE dtask[Target[c]]]
        BY <2>1 DEF Begin, CallStep, RunCancelled, Run, Input, CancelDeclined, CancelAccepted,
             DisposeWait, DisposeBackend, DisposeForget, ShutdownGivesUp, DisposeJoin, dispVars
    <2>4. KeepsDead
        BY <2>2, <2>3 DEF KeepsDead, OwnInv, OwnType
    <2>5. QED
        BY <2>4, DeadStaysDead
<1>4. CASE \E s \in Sessions :
        OS(s) \/ StartStep(s) \/ MonitorStep(s) \/ MonitorDeadline(s) \/ DisposeTask(s)
    BY <1>4, StartDead, MonitorDead, DisposeDead
<1>5. QED
    BY <1>1, <1>2, <1>3, <1>4 DEF Next

\* The life of every session under the refinement mapping.
LifeOf == [s \in Sessions |-> Life(s)]

ContractInv == SlotInv /\ OwnInv /\ ReasonInv /\ RestType /\ LifeStarts /\ DisposedDead

\* When the lives of all sessions but one stay, the mapped state changes at that one.
LEMMA OneLife ==
    ASSUME NEW s \in Sessions, NEW x, Life(s)' = x,
           \A r \in Sessions \ {s} : start'[r] = start[r] /\ st'[r] = st[r]
    PROVE  LifeOf' = [LifeOf EXCEPT ![s] = x]
<1>1. \A r \in Sessions \ {s} : Life(r)' = Life(r)
    BY DEF Life
<1>2. LifeOf' = [r \in Sessions |-> Life(r)']
    BY DEF LifeOf
<1>3. \A r \in Sessions : LifeOf[r] = Life(r)
    BY DEF LifeOf
<1>4. QED
    BY <1>1, <1>2, <1>3 DEF LifeOf

\* Steps that change no session's place or state keep the lives.
LEMMA SameLives ==
    ASSUME \A r \in Sessions : start'[r] = start[r] /\ st'[r] = st[r]
    PROVE  LifeOf' = LifeOf
<1>1. \A r \in Sessions : Life(r)' = Life(r)
    BY DEF Life
<1>2. QED
    BY <1>1 DEF LifeOf

\* The death of a tree, or nothing, is a step the contract allows.
LEMMA DeathAllowed ==
    ASSUME ContractInv, NEW s \in Sessions, LifeOf' = LifeOf, UNCHANGED result,
           tree' = tree \/ tree' = [tree EXCEPT ![s] = FALSE]
    PROVE  [Contract!Next]_(Contract!vars)
<1>1. tree \in [Sessions -> BOOLEAN]
    BY DEF ContractInv, OwnInv, OwnType
<1>2. CASE tree' = tree
    BY <1>2 DEF Contract!vars, LifeOf
<1>3. CASE tree' = [tree EXCEPT ![s] = FALSE] /\ ~tree[s]
    <2>1. tree' = tree
        BY <1>1, <1>3
    <2>2. QED
        BY <1>2, <2>1
<1>4. CASE tree' = [tree EXCEPT ![s] = FALSE] /\ tree[s]
    <2>1. Contract!Die(s)
        BY <1>4 DEF Contract!Die, LifeOf
    <2>2. QED
        BY <2>1 DEF Contract!Next, Contract!SessionNext
<1>5. QED
    BY <1>2, <1>3, <1>4

\* start(): a tree is born, the session announced, or taken back.
LEMMA StartContract ==
    ASSUME ContractInv, NEW s \in Sessions, StartStep(s)
    PROVE  [Contract!Next]_(Contract!vars)
<1>1. UNCHANGED result
    BY DEF StartStep, Admit, Spawn, StartFailed, Register, RegisterFails, Announce, Return,
         CancelStart, AbandonStart, monVars
<1>2. result[s] = "none"
    <2>1. start[s] # "returned"
        BY DEF StartStep, Admit, Spawn, StartFailed, Register, RegisterFails, Announce, Return,
             CancelStart, AbandonStart
    <2>2. QED
        BY <2>1 DEF ContractInv, ReasonInv, ResultLast
<1>3. \A r \in Sessions \ {s} : start'[r] = start[r] /\ st'[r] = st[r]
    BY StartMoves DEF ContractInv
<1>4. LifeOf[s] = Life(s)
    BY DEF LifeOf
<1>5. CASE Spawn(s)
    <2>1. /\ start[s] \in {"spawning", "settling"} /\ UNCHANGED <<start, st>>
          /\ tree' = [tree EXCEPT ![s] = TRUE]
        BY <1>5 DEF Spawn, startVars
    <2>2. Life(s) = "absent" /\ LifeOf' = LifeOf
        BY <2>1, SameLives DEF ContractInv, LifeStarts, Life
    <2>3. Contract!Spawn(s)
        BY <1>1, <1>4, <2>1, <2>2 DEF Contract!Spawn, LifeOf
    <2>4. QED
        BY <2>3 DEF Contract!Next, Contract!SessionNext
<1>6. CASE start[s] = "spawning" /\ start'[s] = "accepted" /\ st'[s] = "accepted" /\ UNCHANGED tree
    <2>1. Life(s) = "absent" /\ Life(s)' = "active"
        BY <1>6 DEF ContractInv, LifeStarts, Life
    <2>2. LifeOf' = [LifeOf EXCEPT ![s] = "active"]
        BY <1>3, <2>1, OneLife
    <2>3. Contract!Announce(s)
        BY <1>1, <1>4, <1>6, <2>1, <2>2 DEF Contract!Announce, LifeOf
    <2>4. QED
        BY <2>3 DEF Contract!Next, Contract!SessionNext
<1>7. CASE start[s] \in {"accepted", "announced"} /\ start'[s] = "cleanup" /\ st'[s] = st[s]
           /\ UNCHANGED tree
    <2>1. Life(s) = "active" /\ Life(s)' = "absent"
        <3>1. st[s] # "created" /\ st[s] \notin {"completed", "failed", "disposed"}
            BY <1>7 DEF ContractInv, LifeStarts, Ended
        <3>2. start[s] \notin {"cleanup", "aborted"}
            BY <1>7
        <3>3. Life(s) = "active"
            BY <3>1, <3>2 DEF Life
        <3>4. Life(s)' = "absent"
            BY <1>7, <3>1 DEF Life
        <3>5. QED
            BY <3>3, <3>4
    <2>2. LifeOf' = [LifeOf EXCEPT ![s] = "absent"]
        BY <1>3, <2>1, OneLife
    <2>3. Contract!Retract(s)
        BY <1>1, <1>2, <1>4, <1>7, <2>1, <2>2 DEF Contract!Retract, LifeOf
    <2>4. QED
        BY <2>3 DEF Contract!Next, Contract!SessionNext
<1>8. CASE ~Spawn(s) /\ Life(s)' = Life(s)
    <2>1. LifeOf' = LifeOf
        <3>1. \A r \in Sessions : Life(r)' = Life(r)
            BY <1>3, <1>8 DEF Life
        <3>2. QED
            BY <3>1 DEF LifeOf
    <2>2. tree' = tree \/ tree' = [tree EXCEPT ![s] = FALSE]
        BY <1>8 DEF StartStep, Admit, StartFailed, Register, RegisterFails, Announce, Return,
             CancelStart, AbandonStart, kill_tree, kill_tree_fails, osVars
    <2>3. QED
        BY <1>1, <2>1, <2>2, DeathAllowed
<1>9. CASE ~Spawn(s)
    <2>1. \/ start[s] = "accepted" /\ st[s] = "accepted" /\ start'[s] = "announced"
             /\ st'[s] = "running"
          \/ start[s] = "announced" /\ start'[s] = "returned" /\ st'[s] = st[s]
          \/ /\ start[s] \in {"idle", "spawning", "settling"} /\ st'[s] = st[s]
             /\ start'[s] \in {"spawning", "settling", "failed", "cleanup", "aborted"}
          \/ start[s] = "cleanup" /\ start'[s] = "aborted" /\ st'[s] = st[s]
          => Life(s)' = Life(s)
        BY DEF ContractInv, LifeStarts, Life
    <2>2. QED
        BY <1>6, <1>7, <1>8, <1>9, <2>1, StartMoves DEF ContractInv
<1>10. QED
    BY <1>5, <1>9

\* The monitor ends the session with its result, or in failure and reports it later.
LEMMA EndContract ==
    ASSUME ContractInv, NEW s \in Sessions, MonitorComplete(s) \/ MonitorFail(s) \/ MonitorReport(s)
    PROVE  [Contract!Next]_(Contract!vars)
<1>1. UNCHANGED <<tree, start>> /\ st \in [Sessions -> States]
    BY DEF MonitorComplete, MonitorFail, MonitorReport, osVars, startVars, ContractInv, SlotInv,
         SlotType
<1>2. start[s] = "returned" /\ st[s] # "created" /\ result[s] = "none"
    <2>1. mon[s] \in {"finish", "failing"}
        BY DEF MonitorComplete, MonitorFail, MonitorReport
    <2>2. QED
        BY <2>1 DEF ContractInv, ReasonInv, ResultLast, LifeStarts
<1>3. LifeOf[s] = Life(s)
    BY DEF LifeOf
<1>4. \A x \in States : "completed" \in _TRANSITIONS[x] \/ "failed" \in _TRANSITIONS[x]
                           => x \notin Ended
    BY DEF States, _TRANSITIONS, Ended
<1>5. CASE MonitorComplete(s) \/ MonitorFail(s)
    <2>1. /\ st[s] \notin Ended
          /\ \E x \in {"completed", "failed"} : st' = [st EXCEPT ![s] = x]
        BY <1>1, <1>4, <1>5 DEF MonitorComplete, MonitorFail, transition
    <2>2. Life(s) = "active"
        BY <1>2, <2>1 DEF Life, Ended
    <2>3. /\ \A r \in Sessions \ {s} : start'[r] = start[r] /\ st'[r] = st[r]
          /\ st'[s] \in {"completed", "failed"} /\ start'[s] = "returned"
        BY <1>1, <1>2, <2>1
    <2>4. Life(s)' = "ended"
        BY <2>3 DEF Life
    <2>5. LifeOf' = [LifeOf EXCEPT ![s] = "ended"]
        BY <2>3, <2>4, OneLife
    <2>6. CASE MonitorFail(s)
        <3>1. Contract!Break(s)
            BY <1>1, <1>2, <1>3, <2>2, <2>5, <2>6 DEF MonitorFail, Contract!Break, LifeOf
        <3>2. QED
            BY <3>1 DEF Contract!Next, Contract!SessionNext
    <2>7. CASE MonitorComplete(s)
        <3> DEFINE x == IF reason[s] # "none" THEN reason[s]
                        ELSE IF proc[s] = "zero" THEN "success" ELSE "failed"
        <3>1. result' = [result EXCEPT ![s] = x]
            BY <2>7 DEF MonitorComplete
        <3>2. x \in Contract!Clean \cup Contract!Failure
            <4>1. reason[s] \in Reasons /\ Deadlines \subseteq {"timeout", "idle_timeout"}
                BY SessionAssumption DEF ContractInv, RestType
            <4>2. QED
                BY <4>1 DEF Reasons, Contract!Clean, Contract!Failure
        <3> HIDE DEF x
        <3>3. ~tree[s]
            BY <2>7 DEF MonitorComplete, ContractInv, DisposedDead
        <3>4. Contract!End(s, x)
            BY <1>1, <1>2, <1>3, <2>2, <2>5, <3>1, <3>3 DEF Contract!End, LifeOf
        <3>5. QED
            BY <3>2, <3>4 DEF Contract!Next, Contract!SessionNext
    <2>8. QED
        BY <1>5, <2>6, <2>7
<1>6. CASE MonitorReport(s)
    <2>1. st' = st /\ st[s] \in Ended
        BY <1>6 DEF MonitorReport, ContractInv, ReasonInv, ResultLast
    <2>2. Life(s) \in {"ended", "gone"} /\ LifeOf' = LifeOf
        BY <1>1, <1>2, <2>1, SameLives DEF Life, Ended
    <2>3. PICK x \in {"failed", "resource_limited"} : result' = [result EXCEPT ![s] = x]
        BY <1>6 DEF MonitorReport
    <2>4. Contract!ReportFailure(s, x) /\ x \in Contract!Failure
        BY <1>1, <1>2, <1>3, <2>2, <2>3 DEF Contract!ReportFailure, Contract!Failure, LifeOf
    <2>5. QED
        BY <2>4 DEF Contract!Next, Contract!SessionNext
<1>7. QED
    BY <1>5, <1>6

\* Pruning and dispose forget sessions that have ended, several at a time.
LEMMA ForgetContract ==
    ASSUME ContractInv,
           \/ Sweep \/ \E s \in Sessions : MonitorDone(s) \/ MonitorExited(s)
           \/ \E c \in Calls : CancelAccepted(c) \/ DisposeForget(c)
    PROVE  [Contract!Next]_(Contract!vars)
<1>1. UNCHANGED <<tree, result, start>>
    BY DEF Sweep, MonitorDone, MonitorExited, CancelAccepted, DisposeForget, startVars, osVars,
         monVars
<1>2. PICK out \in SUBSET {s \in Sessions : st[s] \in {"completed", "failed"}} :
        /\ \A s \in out : st'[s] = "disposed"
        /\ \A s \in Sessions \ out : Life(s)' = Life(s)
    <2>1. CASE Sweep \/ \E s \in Sessions : MonitorDone(s)
        <3>1. PICK E \in SUBSET Prunable : _prune_completed_sessions(E)
            BY <2>1 DEF Sweep, MonitorDone
        <3> DEFINE out == E \cup Overflow(Prunable \ E)
        <3>2. out \subseteq Prunable
            BY DEF Overflow
        <3>3. st' = [s \in Sessions |-> IF s \in out THEN "disposed" ELSE st[s]]
            BY <3>1 DEF _prune_completed_sessions
        <3>4. out \in SUBSET {s \in Sessions : st[s] \in {"completed", "failed"}}
            BY <3>2 DEF Prunable, ContractInv, SlotInv, SlotType
        <3> HIDE DEF out
        <3>5. \A s \in Sessions \ out : Life(s)' = Life(s)
            BY <1>1, <3>3 DEF Life
        <3>6. QED
            BY <3>3, <3>4, <3>5
    <2>2. CASE \E s \in Sessions : MonitorExited(s)
        <3>1. PICK s \in Sessions : MonitorExited(s)
            BY <2>2
        <3>2. /\ st' = [st EXCEPT ![s] = "draining"] /\ st[s] \notin Ended /\ mon[s] # "none"
            BY <3>1, TransitionFacts DEF MonitorExited, ContractInv, SlotInv, SlotType, Ended
        <3>3. st[s] # "created" /\ st \in [Sessions -> States]
            BY <3>2 DEF ContractInv, SlotInv, SlotType, ReasonInv, ResultLast, LifeStarts
        <3>4. \A r \in Sessions : Life(r)' = Life(r)
            BY <1>1, <3>2, <3>3 DEF Life, Ended
        <3>5. {} \in SUBSET {r \in Sessions : st[r] \in {"completed", "failed"}}
            OBVIOUS
        <3>6. QED
            BY <3>4, <3>5
    <2>3. CASE \E c \in Calls : CancelAccepted(c) \/ DisposeForget(c)
        <3>1. PICK c \in Calls : CancelAccepted(c) \/ DisposeForget(c)
            BY <2>3
        <3> DEFINE s == Target[c]
        <3>2. s \in Sessions
            BY SessionAssumption
        <3>3. \/ st' = [st EXCEPT ![s] = "cancelling"] /\ st[s] \in {"running", "cancelling"}
              \/ st' = [st EXCEPT ![s] = "disposed"] /\ "disposed" \in _TRANSITIONS[st[s]]
              \/ st' = st
            BY <3>1 DEF CancelAccepted, DisposeForget, transition, _require_active
        <3> HIDE DEF s
        <3>4. st \in [Sessions -> States]
            BY DEF ContractInv, SlotInv, SlotType
        <3>5. "disposed" \in _TRANSITIONS[st[s]] => st[s] \in {"completed", "failed"}
            BY <3>2, <3>4, TransitionFacts
        <3>6. CASE st' = [st EXCEPT ![s] = "disposed"] /\ st[s] \in {"completed", "failed"}
            <4>1. \A r \in Sessions \ {s} : Life(r)' = Life(r)
                BY <1>1, <3>4, <3>6 DEF Life
            <4>2. st'[s] = "disposed"
                BY <3>2, <3>4, <3>6
            <4>3. {s} \in SUBSET {r \in Sessions : st[r] \in {"completed", "failed"}}
                BY <3>2, <3>6
            <4>4. QED
                BY <4>1, <4>2, <4>3
        <3>7. CASE \/ st' = [st EXCEPT ![s] = "cancelling"] /\ st[s] \in {"running", "cancelling"}
                   \/ st' = st
            <4>1. \A r \in Sessions : Life(r)' = Life(r)
                BY <1>1, <3>2, <3>4, <3>7 DEF Life
            <4>2. {} \in SUBSET {r \in Sessions : st[r] \in {"completed", "failed"}}
                OBVIOUS
            <4>3. QED
                BY <4>1, <4>2
        <3>8. QED
            BY <3>3, <3>5, <3>6, <3>7
    <2>4. QED
        BY <2>1, <2>2, <2>3
<1>3. \A s \in out : start[s] = "returned" /\ Life(s) = "ended" /\ Life(s)' = "gone"
    BY <1>1, <1>2 DEF ContractInv, LifeStarts, Life, Ended
<1>4. /\ LifeOf' = [s \in Sessions |-> IF s \in out THEN "gone" ELSE LifeOf[s]]
      /\ out \in SUBSET {s \in Sessions : LifeOf[s] = "ended"}
    BY <1>2, <1>3 DEF LifeOf
<1>5. Contract!ForgetMany
    BY <1>1, <1>4 DEF Contract!ForgetMany, LifeOf
<1>6. QED
    BY <1>5 DEF Contract!Next

\* Every step of the manager is a step of the contract or leaves its variables alone.
LEMMA ContractStep ==
    ASSUME ContractInv, [Next]_vars
    PROVE  [Contract!Next]_(Contract!vars)
<1>1. CASE UNCHANGED vars
    <2>1. UNCHANGED <<start, st, result, tree>>
        BY <1>1 DEF vars, startVars, monVars, osVars
    <2>2. LifeOf' = LifeOf
        BY <2>1, SameLives
    <2>3. QED
        BY <2>1, <2>2 DEF Contract!vars, LifeOf
<1>2. CASE \E s \in Sessions : QuietStep(s) /\ ~Spawn(s) /\ ~MonitorReport(s)
    <2>1. PICK s \in Sessions : QuietStep(s) /\ ~Spawn(s) /\ ~MonitorReport(s)
        BY <1>2
    <2>2. LifeOf' = LifeOf
        BY <2>1, QuietSession, SameLives DEF slotVars
    <2>3. UNCHANGED result /\ (tree' = tree \/ tree' = [tree EXCEPT ![s] = FALSE])
        <3>1. CASE OS(s) \/ MonitorDeadline(s) \/ DisposeTask(s) \/ CancelProcess(s)
            BY <3>1 DEF OS, Exit, TreeEnds, ReadersEOF, MonitorDeadline, DisposeTask,
                 CancelProcess, CancelSignal, CancelGrace, CancelKill, CancelEnd, kill_tree,
                 kill_tree_fails, monVars, osVars
        <3>2. CASE ~(OS(s) \/ MonitorDeadline(s) \/ DisposeTask(s) \/ CancelProcess(s))
            BY <2>1, <3>2 DEF QuietStep, MonitorKill, MonitorReapTimeout, MonitorDrained,
                 MonitorDrainTimeout, MonitorDrainKill, MonitorDispose, MonitorJoined,
                 MonitorInferLimit, kill_tree, kill_tree_fails, osVars
        <3>3. QED
            BY <3>1, <3>2
    <2>4. QED
        BY <2>2, <2>3, DeathAllowed
<1>3. CASE \E c \in Calls : QuietCall(c)
    <2>1. PICK c \in Calls : QuietCall(c)
        BY <1>3
    <2>2. LifeOf' = LifeOf
        BY <2>1, QuietClient, SameLives DEF slotVars
    <2>3. UNCHANGED <<result, tree>>
        BY <2>1 DEF QuietCall, Begin, Run, RunCancelled, Input, CancelDeclined, DisposeWait,
             DisposeBackend, ShutdownGivesUp, osVars, monVars
    <2>4. QED
        BY <2>2, <2>3 DEF Contract!vars, LifeOf
<1>4. CASE \E s \in Sessions : StartStep(s)
    BY <1>4, StartContract
<1>5. CASE \E s \in Sessions : MonitorComplete(s) \/ MonitorFail(s) \/ MonitorReport(s)
    BY <1>5, EndContract
<1>6. CASE \/ Sweep \/ \E s \in Sessions : MonitorDone(s) \/ MonitorExited(s)
           \/ \E c \in Calls : CancelAccepted(c) \/ DisposeForget(c)
    BY <1>6, ForgetContract
<1>7. QED
    BY <1>1, <1>2, <1>3, <1>4, <1>5, <1>6 DEF Next, StartStep, MonitorStep, CallStep, QuietStep,
         QuietCall

\* What the manager tells of its sessions implements SessionContract, for any number of
\* sessions, calls and failing backend calls: a session ends once, reports one result
\* and never before its end, reports a clean result only over a dead tree, and is
\* forgotten only after it has ended.
THEOREM ContractRefined == Spec => RefinesContract
<1>1. Init => ContractInv /\ Contract!Init
    <2>1. SUFFICES ASSUME Init PROVE ContractInv /\ Contract!Init
        OBVIOUS
    <2>2. LifeStarts /\ DisposedDead
        BY <2>1 DEF Init, LifeStarts, DisposedDead, Ended
    <2>3. \A s \in Sessions : Life(s) = "absent"
        BY <2>1 DEF Init, Life
    <2>4. Contract!Init
        BY <2>1, <2>3 DEF Init, Contract!Init
    <2>5. QED
        BY <2>1, <2>2, <2>4, InitSlotInv, InitOwnInv, InitReasonInv, InitRestType DEF ContractInv
<1>2. ContractInv /\ [Next]_vars => ContractInv'
    BY NextSlotInv, NextOwnInv, NextReasonInv, NextRestType, NextLifeStarts, NextDisposedDead
       DEF ContractInv
<1>3. ContractInv /\ [Next]_vars => [Contract!Next]_(Contract!vars)
    BY ContractStep
<1>4. QED
    BY <1>1, <1>2, <1>3, PTL DEF Spec, RefinesContract, Contract!Spec
=============================================================================
