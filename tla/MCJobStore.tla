----------------------------- MODULE MCJobStore -----------------------------
(* TLC instance of JobStore: two ids, two keys of one tenant, a spec with a  *)
(* callback and one submitted already cancelled, any caller.                 *)
EXTENDS JobStore

CONSTANTS
    MaxWrites,       \* bound on the revisions of the rows together
    MaxDeliveries    \* bound on the delivery batches claimed

MCSpecs ==
    {[command |-> 1, callback |-> TRUE, desired_state |-> "active"],
     [command |-> 1, callback |-> FALSE, desired_state |-> "cancelled"]}

Writes(j) == IF jobs[j] = NoRow THEN 0 ELSE jobs[j].revision

Bounded ==
    /\ deliveries <= MaxDeliveries
    /\ Writes(1) + Writes(2) <= MaxWrites
    /\ files[2] = "none"

=============================================================================
