---------------------------- MODULE MCJobService ----------------------------
(* TLC instances of JobService; the cfg files choose the bounds.             *)
EXTENDS JobService, TLC

CONSTANTS k1, k2

MCSpecs == {[command |-> 1, callback |-> TRUE, desired_state |-> "active"]}

MCOwners == 1 .. (MaxRestarts + 1)

MCResults == TerminalPhases \ {"expired"}

\* A system whose controllers are never suspended for as long as a lease and
\* whose wall clock does not jump, over less than the retention time.
TimelyLeases ==
    \A j \in Live(jobs) : jobs[j].lease # "expired" /\ ~jobs[j].aged

\* The two cases of the safety run, told apart by the first job that is accepted.
\* Job 1 stays the only one, one controller at a time takes care of it, and it meets
\* failing calls, expiring leases, a crash and a delivery; or job 2 and then job 1
\* share two controllers and meet none of them.
OneJobDisturbed ==
    /\ minted \subseteq {1} /\ \A j \in Live(jobs) : jobs[j].key = k1
    /\ \E c \in Controllers : \A d \in Controllers \ {c} : ctl[d].pc = "idle"

TwoJobsUndisturbed ==
    /\ minted = {} \/ 2 \in minted
    /\ TimelyLeases /\ faults = 0 /\ restarts = 0 /\ deliveries = 0
    /\ \A j \in Live(jobs) : jobs[j].generation = 1
    /\ \A j \in Live(jobs) : jobs[j].key = IF j = 1 THEN k1 ELSE k2
    /\ \A j \in JobIds : sess[j] \notin {"failed", "timed_out"}

SafetyCases == OneJobDisturbed \/ TwoJobsUndisturbed

ControllerSymmetry == Permutations(Controllers)

=============================================================================
