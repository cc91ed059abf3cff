----------------------------- MODULE MCSession -----------------------------
(* The TLC instance of Session, and the three cases it is bounded to.        *)
EXTENDS Session

CONSTANTS s1, s2, cancel, run, shutdown, io

MCOp ==
    [c \in Calls |->
        CASE c = cancel -> "cancel" [] c = run -> "run" [] c = shutdown -> "shutdown"
          [] c = io -> "io"]

MCTarget == [c \in Calls |-> s1]

\* The calls in C are the only ones made so far.
OnlyCalls(C) == \A c \in Calls \ C : call[c] = "idle"

\* s1 runs under CommandRunner, and its deadline, a cancel and the runner's
\* shutdown stop it.  A root that leaves descendants behind has succeeded.
StoppedCommand ==
    /\ start[s2] = "idle" /\ OnlyCalls({cancel, run})
    /\ proc[s1] # "xcpu" /\ ~(proc[s1] = "nonzero" /\ tree[s1])

\* An input call holds operation_lock while shutdown disposes of s1, which may end
\* at a resource limit; no backend call fails.
BusyCommand ==
    /\ start[s2] = "idle" /\ OnlyCalls({io, shutdown})
    /\ reason[s1] # "timeout" /\ proc[s1] # "zero" /\ faults = 0

\* s1 and s2 compete for the only slot while shutdown disposes of s1.  The second
\* command outlives the first: its slot is never given up by an exit.  Only a start, or
\* the cleanup of one, meets a failing call.
CompetingStarts ==
    /\ OnlyCalls({shutdown})
    /\ \A s \in Sessions : reason[s] # "timeout"
    /\ faults > 0 => \E s \in Sessions : start[s] \in {"cleanup", "aborted"}
    /\ proc[s1] \in {"none", "running", "nonzero"} /\ proc[s2] \in {"none", "running"}

Cases == StoppedCommand \/ BusyCommand \/ CompetingStarts

=============================================================================
