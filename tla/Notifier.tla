------------------------------ MODULE Notifier ------------------------------
(***************************************************************************)
(* The callback dispatcher of JobService (service/server.py): the          *)
(* notification loop that claims due events, the delivery threads that     *)
(* post them, and the bookkeeping by which the worker judges its own       *)
(* progress.  The outbox rows are the ones of JobStore; here only the      *)
(* events of finished jobs exist, and rows are never pruned.               *)
(*                                                                         *)
(* Every store call can fail while the database is unavailable: sqlite     *)
(* errors are not StoreErrors, so they leave _deliver at once and are      *)
(* handled at its boundary.                                                *)
(***************************************************************************)
EXTENDS Naturals, FiniteSets, FiniteSetsExt

CONSTANTS
    Events,          \* event ids
    MaxAttempts,     \* notifications.max_attempts
    MaxDeliveries,   \* notifications.max_concurrent_deliveries
    Addresses        \* how many addresses a callback host resolves to

ASSUME NotifierAssumption ==
    /\ IsFiniteSet(Events)
    /\ MaxAttempts \in Nat \ {0}
    /\ MaxDeliveries \in Nat \ {0}
    /\ Addresses \in Nat \ {0}

VARIABLES
    outbox,        \* callback_outbox: one row per event
    deliveries,    \* records handed to _deliver_boundary, or refused by the pool
    slots,         \* _notification_slots: free permits
    unpersisted,   \* _notification_unpersisted
    stale,         \* the last dispatcher success is older than the progress limit
    storeUp,       \* the database answers
    posts,         \* how often the receiver was sent each event
    cuts           \* how often a delivery lease ended without an outcome

dispatcher == <<deliveries, slots, unpersisted, stale>>
notifierVars == <<outbox, dispatcher, storeUp, posts, cuts>>

Verdicts == {"delivered", "retry", "dead"}
DeliveryPcs == {"posting", "persist", "boundary", "unscheduled", "hung"}

\* An OutboxRecord in the hands of a delivery thread; id is its
\* delivery_attempt_id, attempts the count read when it was claimed.
Delivery == [event : Events, id : Nat, attempts : Nat,
             pc : DeliveryPcs, verdict : Verdicts]

\* delivery is the current delivery_attempt_id (0 is NULL), issued how many have
\* been minted for the event; due stands for next_attempt_at <= now.
Event == [state : {"pending", "delivering", "delivered", "dead"}, attempts : Nat,
          due : BOOLEAN, delivery : Nat, issued : Nat]

Settled(e) == outbox[e].state \in {"delivered", "dead"}

-----------------------------------------------------------------------------
(* The store calls of the dispatcher.                                        *)

\* The WHERE clause of outbox_delivered and outbox_failed.
Current(d) ==
    /\ outbox[d.event].state = "delivering"
    /\ outbox[d.event].delivery = d.id

\* Mutant: an attempt that fails is not counted.
outbox_failed_uncounted(e, permanent) ==
    [outbox EXCEPT ![e].state = IF permanent THEN "dead" ELSE "pending",
                   ![e].due = FALSE,
                   ![e].delivery = 0]

outbox_failed(e, permanent) ==
    [outbox EXCEPT ![e].state = IF permanent THEN "dead" ELSE "pending",
                   ![e].attempts = @ + 1,
                   ![e].due = FALSE,
                   ![e].delivery = 0]

outbox_delivered(e) ==
    [outbox EXCEPT ![e].state = "delivered", ![e].delivery = 0]

\* _retry_delivery with permanent = FALSE: the attempts it saw decide.
retry_delivery(d) == outbox_failed(d.event, d.attempts + 1 >= MaxAttempts)

Outcome(d) ==
    CASE d.verdict = "delivered" -> outbox_delivered(d.event)
      [] d.verdict = "dead"      -> outbox_failed(d.event, TRUE)
      [] d.verdict = "retry"     -> retry_delivery(d)

\* recover_interrupted, when a worker opens the store: deliveries of the
\* previous worker are pending again and due.
Resume ==
    /\ outbox' = [e \in Events |->
                     IF outbox[e].state = "delivering"
                     THEN [outbox[e] EXCEPT !.state = "pending", !.due = TRUE, !.delivery = 0]
                     ELSE outbox[e]]
    /\ cuts' = [e \in Events |->
                   IF outbox[e].state = "delivering" THEN cuts[e] + 1 ELSE cuts[e]]

-----------------------------------------------------------------------------
(* Progress bookkeeping.                                                     *)

\* _notification_succeeded: an event whose outcome is not persisted holds the
\* progress mark back.
notification_succeeded(persisted) ==
    /\ unpersisted' = unpersisted \ persisted
    /\ stale' = (stale /\ unpersisted' # {})

\* _notification_failed
notification_failed(events) ==
    /\ unpersisted' = unpersisted \cup events
    /\ UNCHANGED stale

\* Mutant: the permit of a thread that gave up is not returned.
leaves_with_permit(d) ==
    /\ deliveries' = deliveries \ {d}
    /\ slots' = IF d.pc = "boundary" THEN slots ELSE slots + 1

\* The finally clause of _deliver_boundary; a record the pool refused gave its
\* permit back when it was refused.
leaves(d) ==
    /\ deliveries' = deliveries \ {d}
    /\ slots' = IF d.pc = "unscheduled" THEN slots ELSE slots + 1

moves(d, pc, verdict) ==
    deliveries' = (deliveries \ {d}) \cup {[d EXCEPT !.pc = pc, !.verdict = verdict]}

-----------------------------------------------------------------------------
(* One pass of the notification loop.                                        *)

\* Mutant: the claim leaves events out whose next attempt is the last.
DueEventsUnspent ==
    {e \in Events : ~Settled(e) /\ outbox[e].due /\ outbox[e].attempts + 1 < MaxAttempts}

DueEvents == {e \in Events : ~Settled(e) /\ outbox[e].due}

\* Deliveries whose lease has run out; the claim makes them pending first.
LapsedEvents == {e \in DueEvents : outbox[e].state = "delivering"}

Claimed(events) ==
    [e \in Events |->
        CASE e \in events ->
                [outbox[e] EXCEPT !.state = "delivering", !.due = FALSE,
                                  !.delivery = outbox[e].issued + 1,
                                  !.issued = @ + 1]
          [] e \in LapsedEvents \ events ->
                [outbox[e] EXCEPT !.state = "pending", !.delivery = 0]
          [] OTHER -> outbox[e]]

\* The record the claim returns for an event, and where it is taken.
Record(e, pc) ==
    [event |-> e, id |-> outbox[e].issued + 1, attempts |-> outbox[e].attempts,
     pc |-> pc, verdict |-> "retry"]

Claim(events, refused) ==
    /\ storeUp
    /\ events \in kSubset(Min({slots, Cardinality(DueEvents)}), DueEvents)
    /\ refused \subseteq events
    /\ outbox' = Claimed(events)
    /\ cuts' = [e \in Events |-> IF e \in LapsedEvents THEN cuts[e] + 1 ELSE cuts[e]]
    /\ deliveries' = deliveries \cup {Record(e, "posting") : e \in events \ refused}
                                \cup {Record(e, "unscheduled") : e \in refused}
    /\ slots' = slots - Cardinality(events \ refused)
    /\ UNCHANGED <<storeUp, posts>>

\* Capacity, claim, submit; a pass with nothing due is progress too.
NotificationLoop ==
    /\ slots > 0
    /\ \E events \in SUBSET DueEvents : Claim(events, {})
    /\ notification_succeeded({})

\* The pool refuses at least one record: the pass is not counted as progress.
SchedulingFails ==
    /\ slots > 0
    /\ \E events \in SUBSET DueEvents :
          \E refused \in SUBSET events \ {{}} : Claim(events, refused)
    /\ notification_failed({})

-----------------------------------------------------------------------------
(* A delivery thread.                                                        *)

\* _deliver up to its store call.  The endpoint is gone or belongs to another
\* tenant, or nothing was sent in time, or up to Addresses hosts were sent the
\* event and the last one answered, or did not.
Deliver(d) ==
    /\ d.pc = "posting"
    /\ \/ \E verdict \in {"dead", "retry"} : moves(d, "persist", verdict)
          /\ UNCHANGED posts
       \/ \E verdict \in Verdicts, n \in 1..Addresses :
             /\ moves(d, "persist", verdict)
             /\ posts' = [posts EXCEPT ![d.event] = @ + n]
    /\ UNCHANGED <<outbox, slots, unpersisted, stale, storeUp, cuts>>

\* The outcome is written by the attempt that still owns the row.
Persist(d) ==
    /\ d.pc = "persist" /\ storeUp /\ Current(d)
    /\ outbox' = Outcome(d)
    /\ notification_succeeded({d.event})
    /\ leaves(d)
    /\ UNCHANGED <<storeUp, posts, cuts>>

\* sqlite raises inside _deliver; the boundary will record a retry.
PersistRaises(d) ==
    /\ d.pc = "persist" /\ ~storeUp
    /\ moves(d, "boundary", "retry")
    /\ UNCHANGED <<outbox, slots, unpersisted, stale, storeUp, posts, cuts>>

\* _deliver_boundary after an exception, and the loop after a refused submit:
\* the retry is recorded by the attempt that still owns the row.
Boundary(d) ==
    /\ d.pc \in {"boundary", "unscheduled"} /\ storeUp /\ Current(d)
    /\ outbox' = retry_delivery(d)
    /\ IF d.pc = "boundary" THEN notification_succeeded({d.event})
                            ELSE UNCHANGED <<unpersisted, stale>>
    /\ leaves(d)
    /\ UNCHANGED <<storeUp, posts, cuts>>

\* Neither the outcome nor a retry can be recorded: the lease passed to another
\* attempt, so every fenced update misses, or the database is still away.
Unpersisted(d) ==
    /\ \/ d.pc = "persist" /\ storeUp /\ ~Current(d)
       \/ d.pc \in {"boundary", "unscheduled"} /\ ~(storeUp /\ Current(d))
    /\ notification_failed({d.event})
    /\ leaves(d)
    /\ UNCHANGED <<outbox, storeUp, posts, cuts>>

DeliveryStep(d) ==
    Deliver(d) \/ Persist(d) \/ PersistRaises(d) \/ Boundary(d) \/ Unpersisted(d)

\* A thread that does not come back from a call.
DeliveryHangs(d) ==
    /\ d.pc \in {"posting", "persist"}
    /\ moves(d, "hung", d.verdict)
    /\ UNCHANGED <<outbox, slots, unpersisted, stale, storeUp, posts, cuts>>

-----------------------------------------------------------------------------
(* The clock and the database.                                               *)

\* A delivery thread will still report on the row's current attempt.
InHand(e) == \E d \in deliveries : d.event = e /\ Current(d) /\ d.pc # "hung"

\* A retry time comes, or the lease of an attempt nobody reports on runs out.
BecomesDue(e) ==
    /\ ~Settled(e) /\ ~outbox[e].due /\ ~InHand(e)
    /\ outbox' = [outbox EXCEPT ![e].due = TRUE]
    /\ UNCHANGED <<dispatcher, storeUp, posts, cuts>>

\* The lease of an attempt in progress runs out: the wall clock jumped, or the
\* thread was held up beyond request timeout, progress limit and margin.
LeaseLapses(e) ==
    /\ InHand(e) /\ ~outbox[e].due
    /\ outbox' = [outbox EXCEPT ![e].due = TRUE]
    /\ UNCHANGED <<dispatcher, storeUp, posts, cuts>>

StoreFails == storeUp /\ storeUp' = FALSE /\ UNCHANGED <<outbox, dispatcher, posts, cuts>>
StoreRecovers == ~storeUp /\ storeUp' = TRUE /\ UNCHANGED <<outbox, dispatcher, posts, cuts>>

\* The progress limit passes without a success of the loop or of a delivery.
GrowsStale ==
    /\ ~stale
    /\ ~storeUp \/ unpersisted # {}
    /\ stale' = TRUE
    /\ UNCHANGED <<outbox, deliveries, slots, unpersisted, storeUp, posts, cuts>>

\* The volatile state of a JobService that has just been constructed.
FreshDispatcher ==
    /\ deliveries' = {}
    /\ slots' = MaxDeliveries
    /\ unpersisted' = {}
    /\ stale' = FALSE

\* The events of an earlier service life that are still to be delivered.
NotifierInit(unsettled) ==
    /\ outbox = [e \in Events |->
                    [state |-> IF e \in unsettled THEN "pending" ELSE "delivered",
                     attempts |-> 0, due |-> TRUE, delivery |-> 0, issued |-> 0]]
    /\ deliveries = {} /\ slots = MaxDeliveries
    /\ unpersisted = {} /\ stale = FALSE
    /\ storeUp = TRUE
    /\ posts = [e \in Events |-> 0]
    /\ cuts = [e \in Events |-> 0]

=============================================================================
