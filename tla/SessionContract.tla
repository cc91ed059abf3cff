--------------------------- MODULE SessionContract ---------------------------
(***************************************************************************)
(* What a client of the session manager may rely on, whatever the order of *)
(* exits, deadlines, cancellations and disposals:                          *)
(*   - a session that was started ends once, and only an ended session is  *)
(*     forgotten;                                                          *)
(*   - it reports one result, never before it has ended, and never         *)
(*     another one afterwards;                                             *)
(*   - a result other than a failure is reported in the step that ends the *)
(*     session, and only once its process tree is gone.                    *)
(***************************************************************************)
CONSTANTS Sessions

VARIABLES life,    \* what the manager tells of the session
          report,  \* the result a waiter gets
          alive    \* the process tree still has a living member

vars == <<life, report, alive>>

\* Results that speak of a command that ran to an end of its own or was
\* stopped cleanly, and results that report a failure of the command or of
\* its supervision.
Clean   == {"success", "cancelled", "timeout", "idle_timeout"}
Failure == {"failed", "resource_limited"}

Init ==
    /\ life = [s \in Sessions |-> "absent"]
    /\ report = [s \in Sessions |-> "none"]
    /\ alive = [s \in Sessions |-> FALSE]

\* A process tree is born before its session is announced.
Spawn(s) ==
    /\ life[s] = "absent"
    /\ alive' = [alive EXCEPT ![s] = TRUE]
    /\ UNCHANGED <<life, report>>

Announce(s) ==
    /\ life[s] = "absent"
    /\ life' = [life EXCEPT ![s] = "active"]
    /\ UNCHANGED <<report, alive>>

\* A start that is abandoned takes the session back.
Retract(s) ==
    /\ life[s] = "active"
    /\ report[s] = "none"
    /\ life' = [life EXCEPT ![s] = "absent"]
    /\ UNCHANGED <<report, alive>>

Die(s) ==
    /\ alive[s]
    /\ alive' = [alive EXCEPT ![s] = FALSE]
    /\ UNCHANGED <<life, report>>

\* The session ends with its result ...
End(s, r) ==
    /\ life[s] = "active"
    /\ report[s] = "none"
    /\ r \in Clean => ~alive[s]
    /\ life' = [life EXCEPT ![s] = "ended"]
    /\ report' = [report EXCEPT ![s] = r]
    /\ UNCHANGED alive

\* ... or ends in failure and reports it a little later.
Break(s) ==
    /\ life[s] = "active"
    /\ report[s] = "none"
    /\ life' = [life EXCEPT ![s] = "ended"]
    /\ UNCHANGED <<report, alive>>

ReportFailure(s, r) ==
    /\ life[s] \in {"ended", "gone"}
    /\ report[s] = "none"
    /\ r \in Failure
    /\ report' = [report EXCEPT ![s] = r]
    /\ UNCHANGED <<life, alive>>

Forget(s) ==
    /\ life[s] = "ended"
    /\ life' = [life EXCEPT ![s] = "gone"]
    /\ UNCHANGED <<report, alive>>

SessionNext(s) ==
    \/ Spawn(s) \/ Announce(s) \/ Retract(s) \/ Die(s) \/ Break(s) \/ Forget(s)
    \/ \E r \in Clean \cup Failure : End(s, r) \/ ReportFailure(s, r)

\* Several completed sessions may be forgotten by one call.
ForgetMany ==
    \E E \in SUBSET {s \in Sessions : life[s] = "ended"} :
        /\ life' = [s \in Sessions |-> IF s \in E THEN "gone" ELSE life[s]]
        /\ UNCHANGED <<report, alive>>

Next == ForgetMany \/ \E s \in Sessions : SessionNext(s)

Spec == Init /\ [][Next]_vars
=============================================================================
