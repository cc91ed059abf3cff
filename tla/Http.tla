-------------------------------- MODULE Http --------------------------------
(***************************************************************************)
(* The HTTP API (service/http.py): the accept loop takes a request slot    *)
(* for every connection and starts a handler thread; a handler checks the  *)
(* credentials, routes the request, and a submission also takes a          *)
(* submission slot around the call of JobService.submit.  Every response   *)
(* carries Connection: close, so a connection is one request.              *)
(*                                                                         *)
(* A request is its kind; credentials, paths, bodies and what the service  *)
(* answers are choices of the steps.  A step of a handler is the code      *)
(* between two places where another thread can see a difference: the       *)
(* semaphores and the bytes on the connection.                             *)
(***************************************************************************)
EXTENDS Integers, FiniteSets

CONSTANTS
    Connections,             \* the connections clients may open
    max_concurrent_requests, \* admission.max_concurrent_requests
    api_workers              \* control.api_workers

VARIABLES
    listening,               \* serve_forever runs
    pc,                      \* where the handler of a connection is
    kind,                    \* what the connection's request asks for
    request_slots,           \* free places of JobHTTPServer.request_slots
    submission_slots,        \* free places of JobHTTPServer.submission_slots
    started                  \* responses begun on a connection

vars == <<listening, pc, kind, request_slots, submission_slots, started>>

\* "read" is GET /v1/jobs/<id> with its result and output; "simple" every other
\* request that is one call of the service and one response.
Kinds == {"read", "submit", "simple"}

Pcs == {"new", "authorizing", "routed", "writing", "submitting", "refusing",
        "answering", "closing", "done"}

\* Both limits come from the configuration, which refuses values below one.
LimitsPositive == max_concurrent_requests \in Nat \ {0} /\ api_workers \in Nat \ {0}

request_limit == IF max_concurrent_requests < api_workers THEN max_concurrent_requests
                 ELSE api_workers

submission_limit == IF request_limit - 1 > 1 THEN request_limit - 1 ELSE 1

\* The connections that hold a place of each semaphore.
Handlers == {c \in Connections : pc[c] \notin {"new", "done"}}
Submitters == {c \in Connections : pc[c] \in {"submitting", "refusing"}}

Goes(c, to) == pc' = [pc EXCEPT ![c] = to]
Responds(c) == started' = [started EXCEPT ![c] = @ + 1]

-----------------------------------------------------------------------------
(* The accept loop.                                                          *)

\* process_request: no slot is free, a bare 503 is sent and the connection closed.
Refuse(c) ==
    /\ listening /\ pc[c] = "new"
    /\ request_slots = 0
    /\ Goes(c, "done") /\ Responds(c)
    /\ UNCHANGED <<listening, kind, request_slots, submission_slots>>

\* process_request: the slot is taken and the handler thread started.
Accept(c) ==
    /\ listening /\ pc[c] = "new"
    /\ request_slots > 0
    /\ request_slots' = request_slots - 1
    /\ Goes(c, "authorizing")
    /\ \E k \in Kinds : kind' = [kind EXCEPT ![c] = k]
    /\ UNCHANGED <<listening, submission_slots, started>>

\* process_request: the thread cannot be started, the slot goes back at once.
ThreadFails(c) ==
    /\ listening /\ pc[c] = "new"
    /\ request_slots > 0
    /\ Goes(c, "done")
    /\ UNCHANGED <<listening, kind, request_slots, submission_slots, started>>

\* serve_http: serve_forever ends; the handlers are daemon threads nobody joins.
StopListening ==
    /\ listening
    /\ listening' = FALSE
    /\ UNCHANGED <<pc, kind, request_slots, submission_slots, started>>

-----------------------------------------------------------------------------
(* A handler thread up to its routing.                                       *)

\* The request line does not arrive within request_timeout_seconds.
TimesOut(c) ==
    /\ pc[c] = "authorizing"
    /\ Goes(c, "closing")
    /\ UNCHANGED <<listening, kind, request_slots, submission_slots, started>>

\* _authorized_tenant, _authorized_probe, _authorized_admin: 401 or 403 is sent.
Denied(c) ==
    /\ pc[c] = "authorizing"
    /\ Goes(c, "closing") /\ Responds(c)
    /\ UNCHANGED <<listening, kind, request_slots, submission_slots>>

Authorized(c) ==
    /\ pc[c] = "authorizing"
    /\ Goes(c, "routed")
    /\ UNCHANGED <<listening, kind, request_slots, submission_slots, started>>

\* A probe, a cancel or an unknown path: the service is called, or raises and
\* _internal_error answers; a failing write finds _response_started set.
Simple(c) ==
    /\ pc[c] = "routed" /\ kind[c] = "simple"
    /\ Goes(c, "closing") /\ Responds(c)
    /\ UNCHANGED <<listening, kind, request_slots, submission_slots>>

-----------------------------------------------------------------------------
(* _do_get on a job: the success response is sent inside the try.            *)

\* get, result or read_output raised: its one response is sent by an except clause.
ReadFails(c) ==
    /\ pc[c] = "routed" /\ kind[c] = "read"
    /\ Goes(c, "closing") /\ Responds(c)
    /\ UNCHANGED <<listening, kind, request_slots, submission_slots>>

ReadAnswers(c) ==
    /\ pc[c] = "routed" /\ kind[c] = "read"
    /\ Goes(c, "writing") /\ Responds(c)
    /\ UNCHANGED <<listening, kind, request_slots, submission_slots>>

ReadWritten(c) ==
    /\ pc[c] = "writing"
    /\ Goes(c, "closing")
    /\ UNCHANGED <<listening, kind, request_slots, submission_slots, started>>

\* The write raises OSError (a stalled reader), which the except clause for a bad
\* request answers although a response has begun.
ReadWriteFails(c) ==
    /\ pc[c] = "writing"
    /\ Goes(c, "closing") /\ Responds(c)
    /\ UNCHANGED <<listening, kind, request_slots, submission_slots>>

-----------------------------------------------------------------------------
(* _do_post on /v1/jobs.                                                     *)

SubmissionFull(c) ==
    /\ pc[c] = "routed" /\ kind[c] = "submit"
    /\ submission_slots = 0
    /\ Goes(c, "closing") /\ Responds(c)
    /\ UNCHANGED <<listening, kind, request_slots, submission_slots>>

SubmissionAdmitted(c) ==
    /\ pc[c] = "routed" /\ kind[c] = "submit"
    /\ submission_slots > 0
    /\ submission_slots' = submission_slots - 1
    /\ Goes(c, "submitting")
    /\ UNCHANGED <<listening, kind, request_slots, started>>

\* The Idempotency-Key header is missing, submit returned, or it raised what no
\* except clause names: the slot goes back before the response is sent.
SubmissionEnds(c) ==
    /\ pc[c] = "submitting"
    /\ submission_slots' = submission_slots + 1
    /\ Goes(c, "answering")
    /\ UNCHANGED <<listening, kind, request_slots, started>>

\* The job, the missing header or the internal error is answered.
Answer(c) ==
    /\ pc[c] = "answering"
    /\ Goes(c, "closing") /\ Responds(c)
    /\ UNCHANGED <<listening, kind, request_slots, submission_slots>>

\* An admission limit, a key conflict or a bad body: the except clause sends its
\* response, and the finally clause gives the slot back after it.
SubmissionRefused(c) ==
    /\ pc[c] = "submitting"
    /\ Goes(c, "refusing") /\ Responds(c)
    /\ UNCHANGED <<listening, kind, request_slots, submission_slots>>

RefusalReleases(c) ==
    /\ pc[c] = "refusing"
    /\ submission_slots' = submission_slots + 1
    /\ Goes(c, "closing")
    /\ UNCHANGED <<listening, kind, request_slots, started>>

\* process_request_thread: the finally clause gives the request slot back.
Close(c) ==
    /\ pc[c] = "closing"
    /\ request_slots' = request_slots + 1
    /\ Goes(c, "done")
    /\ UNCHANGED <<listening, kind, submission_slots, started>>

-----------------------------------------------------------------------------
Init ==
    /\ listening = TRUE
    /\ pc = [c \in Connections |-> "new"]
    /\ kind = [c \in Connections |-> "simple"]
    /\ request_slots = request_limit
    /\ submission_slots = submission_limit
    /\ started = [c \in Connections |-> 0]

Route(c) == TimesOut(c) \/ Denied(c) \/ Authorized(c) \/ Simple(c)
Read(c) == ReadFails(c) \/ ReadAnswers(c) \/ ReadWritten(c) \/ ReadWriteFails(c)
Submission(c) ==
    \/ SubmissionFull(c) \/ SubmissionAdmitted(c) \/ SubmissionEnds(c)
    \/ Answer(c) \/ SubmissionRefused(c) \/ RefusalReleases(c)

Next ==
    \/ StopListening
    \/ \E c \in Connections :
         \/ Refuse(c) \/ Accept(c) \/ ThreadFails(c)
         \/ Route(c) \/ Read(c) \/ Submission(c) \/ Close(c)

Spec == Init /\ [][Next]_vars

-----------------------------------------------------------------------------
HttpTypeOK ==
    /\ listening \in BOOLEAN
    /\ pc \in [Connections -> Pcs]
    /\ kind \in [Connections -> Kinds]
    /\ request_slots \in Nat /\ submission_slots \in Nat
    /\ started \in [Connections -> Nat]

\* Whatever path a handler leaves by, the free places of each semaphore and their
\* holders add up to its limit: no slot is lost, and no release of a
\* BoundedSemaphore can exceed its bound and raise.
SlotsAccounted ==
    /\ IsFiniteSet(Handlers) /\ request_slots + Cardinality(Handlers) = request_limit
    /\ IsFiniteSet(Submitters) /\ submission_slots + Cardinality(Submitters) = submission_limit

\* ASYNC_JOBS.md:498, "Saturate submissions": with more than one API worker the
\* submissions being processed never hold every request slot.
ReserveKept == request_limit > 1 => Cardinality(Submitters) < request_limit

\* A connection gets one response; only a job read whose success response could
\* not be written gets a second one begun.
OneResponse == \A c \in Connections : started[c] <= (IF kind[c] = "read" THEN 2 ELSE 1)
=============================================================================
