---------------------------- MODULE MCSupervisor ----------------------------
(* The supervisor with callbacks to deliver, or with processes to own.  The  *)
(* two meet only in the life of the worker, so they are not multiplied.      *)
EXTENDS Supervisor

CONSTANTS e1, p1, p2

MCInit == SupervisorInit(Events, {}) \/ SupervisorInit({}, Procs)
MCSpec == MCInit /\ [][Next]_vars /\ Fairness

=============================================================================
