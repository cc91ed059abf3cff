--------------------------- MODULE SessionOutput ---------------------------
(***************************************************************************)
(* The output side of one Session (runtime/sessions.py): the reader tasks  *)
(* append what they read to bounded buffers and emit events into a bounded *)
(* ring; start, the monitor, a cancellation and the control calls emit     *)
(* too; and a client follows the events by cursor (event_page).            *)
(*                                                                         *)
(* Bytes are counted, not kept.  Between two awaits a task runs alone.     *)
(* With an event recorder every emit is an await, after which other tasks  *)
(* may have run, so a step ends with it; without one (the default) the     *)
(* steps of a task simply follow one another up to its next await.         *)
(***************************************************************************)
EXTENDS Integers, Sequences, FiniteSets, SequencesExt

CONSTANTS
    MaxOutput,      \* max_output_bytes
    MaxEvents,      \* max_output_events
    MaxRetained,    \* max_retained_events
    PageLimit,      \* the page size asked for
    PageBytes,      \* the byte limit of a page
    MaxChunk,       \* bound on the bytes of one read
    MaxWritten,     \* bound on the bytes the command writes to a stream
    MaxCalls        \* bound on the control calls that emit

Streams == {"stdout", "stderr", "pty"}

ASSUME OutputAssumption ==
    /\ MaxOutput \in Nat /\ MaxEvents \in Nat \ {0} /\ MaxRetained \in Nat \ {0}
    /\ PageLimit \in Nat \ {0} /\ PageBytes \in Nat \ {0}
    /\ MaxChunk \in Nat \ {0} /\ MaxWritten \in Nat /\ MaxCalls \in Nat

VARIABLES
    retention,      \* output_retention: head or tail
    rd,             \* where each reader task is
    pending,        \* its local dropped, while it awaits an emit
    offset,         \* stream_offsets
    stdout, stderr, \* the lengths of the two buffers
    truncated,      \* truncated_output_bytes
    reported,       \* truncation_reported_streams
    held,           \* the stream's decoder holds an incomplete character
    count,          \* output_event_count
    limited,        \* output_event_limit_reported
    events,         \* the event ring
    next,           \* next_event_seq
    mon,            \* where start, and then the monitor, is
    failure,        \* monitor_error is set
    state,          \* the session's state; running stands for cancelling too
    result,         \* retained and dropped bytes of session.result
    exited,         \* the root process has exited
    steps,          \* cancellation_steps
    ctl,            \* where the cancellation that holds operation_lock is
    calls,          \* control calls so far
    client,         \* where the client is
    cursor          \* the cursor it asks with

readVars == <<retention, rd, pending, offset, stdout, stderr, truncated, reported, held,
              count, limited>>
ringVars == <<events, next>>
monVars == <<mon, failure, state, result>>
ctlVars == <<exited, steps, ctl, calls>>
clientVars == <<client, cursor>>
vars == <<readVars, ringVars, monVars, ctlVars, clientVars>>

NoResult == [retained |-> -1, dropped |-> -1]
total == offset["stdout"] + offset["stderr"] + offset["pty"]
terminal == state \in {"completed", "failed"}
first_event_seq == IF events = <<>> THEN next ELSE Head(events).seq

----------------------------------------------------------------------------
(* emit: the ring forgets its oldest event when it is full.  The client only *)
(* tells session.completed from the output and the other lifecycle events.   *)

emit(kind, size) ==
    /\ events' = Append(IF Len(events) >= MaxRetained THEN Tail(events) ELSE events,
                        [seq |-> next, kind |-> kind, size |-> size])
    /\ next' = next + 1

SilentRing == UNCHANGED ringVars

----------------------------------------------------------------------------
(* append_output *)

Least(a, b) == IF a < b THEN a ELSE b
Above(a, b) == IF a > b THEN a - b ELSE 0

\* How many of n bytes are kept, and how many bytes are dropped, now.
Kept(n) == IF retention = "tail" THEN n ELSE Least(n, Above(MaxOutput, stdout + stderr))
Dropped(n) ==
    IF retention = "tail" THEN Above(stdout + stderr + n, MaxOutput) ELSE n - Kept(n)

\* The tail of the bytes an event shows.
Shown(n) == IF retention = "tail" THEN Least(n, MaxOutput) ELSE Kept(n)

Buffer(s, n) ==
    IF s = "stderr" THEN stderr' = stderr + Kept(n) /\ UNCHANGED stdout
    ELSE /\ stdout' = stdout + Kept(n) - (IF retention = "tail" THEN Dropped(n) ELSE 0)
         /\ UNCHANGED stderr

\* Mutant: only the loss that is reported is counted.
AccountReported(s, dropped) ==
    /\ pending' = [pending EXCEPT ![s] = 0]
    /\ IF dropped > 0 /\ s \notin reported
       THEN /\ truncated' = truncated + dropped
            /\ reported' = reported \cup {s}
            /\ emit("lifecycle", 1)   \* output.truncated
            /\ rd' = [rd EXCEPT ![s] = "reporting"]
       ELSE /\ SilentRing
            /\ rd' = [rd EXCEPT ![s] = "reading"]
            /\ UNCHANGED <<truncated, reported>>

\* The end of append_output: the dropped bytes are counted, and the first loss
\* of a stream is reported by an event.
Account(s, dropped) ==
    /\ truncated' = truncated + dropped
    /\ pending' = [pending EXCEPT ![s] = 0]
    /\ IF dropped > 0 /\ s \notin reported
       THEN /\ reported' = reported \cup {s}
            /\ emit("lifecycle", 1)   \* output.truncated
            /\ rd' = [rd EXCEPT ![s] = "reporting"]
       ELSE /\ SilentRing
            /\ rd' = [rd EXCEPT ![s] = "reading"]
            /\ UNCHANGED reported

\* A chunk of n bytes arrives.  The number of events is tested here and
\* incremented only after the await.
AppendOutput(s, n) ==
    /\ rd[s] = "reading"
    /\ offset[s] + n <= MaxWritten
    /\ offset' = [offset EXCEPT ![s] = @ + n]
    /\ Buffer(s, n)
    /\ \/ /\ Shown(n) > 0 /\ count < MaxEvents
          /\ \E h \in BOOLEAN : held' = [held EXCEPT ![s] = h]
          /\ emit("output", Shown(n))
          /\ rd' = [rd EXCEPT ![s] = "emitted"]
          /\ pending' = [pending EXCEPT ![s] = Dropped(n)]
          /\ UNCHANGED <<truncated, reported, limited>>
       \/ /\ Shown(n) > 0 /\ count >= MaxEvents /\ ~limited
          /\ limited' = TRUE
          /\ emit("lifecycle", 1)   \* resource.limit_hit
          /\ rd' = [rd EXCEPT ![s] = "limited"]
          /\ pending' = [pending EXCEPT ![s] = Dropped(n)]
          /\ UNCHANGED <<truncated, reported, held>>
       \/ /\ Shown(n) = 0 \/ (count >= MaxEvents /\ limited)
          /\ Account(s, Dropped(n))
          /\ UNCHANGED <<limited, held>>
    /\ UNCHANGED <<retention, count, monVars, ctlVars, clientVars>>

\* The reader is resumed after an emit of append_output.
Resume(s) ==
    /\ \/ rd[s] = "emitted" /\ count' = count + 1 /\ Account(s, pending[s])
       \/ rd[s] = "limited" /\ UNCHANGED count /\ Account(s, pending[s])
       \/ /\ rd[s] = "reporting" /\ rd' = [rd EXCEPT ![s] = "reading"]
          /\ SilentRing /\ UNCHANGED <<count, truncated, reported, pending>>
    /\ UNCHANGED <<retention, offset, stdout, stderr, held, limited, monVars, ctlVars, clientVars>>

\* Mutant: the last characters are emitted whatever the limit says.
FlushOutputUnlimited(s) ==
    /\ rd[s] = "reading"
    /\ held' = [held EXCEPT ![s] = FALSE]
    /\ IF held[s] THEN emit("output", 0) /\ rd' = [rd EXCEPT ![s] = "flushed"]
                  ELSE SilentRing /\ rd' = [rd EXCEPT ![s] = "eof"]
    /\ UNCHANGED <<retention, pending, offset, stdout, stderr, truncated, reported, count,
                   limited, monVars, ctlVars, clientVars>>

\* EOF: flush_output_decoder turns an incomplete character into one last
\* event, if the limit leaves room for it.
FlushOutput(s) ==
    /\ rd[s] = "reading"
    /\ held' = [held EXCEPT ![s] = FALSE]
    /\ \/ /\ held[s] /\ count < MaxEvents
          /\ emit("output", 0)
          /\ rd' = [rd EXCEPT ![s] = "flushed"]
          /\ UNCHANGED limited
       \/ /\ held[s] /\ count >= MaxEvents /\ ~limited
          /\ limited' = TRUE
          /\ emit("lifecycle", 1)   \* resource.limit_hit
          /\ rd' = [rd EXCEPT ![s] = "eof"]
       \/ /\ ~held[s] \/ (count >= MaxEvents /\ limited)
          /\ rd' = [rd EXCEPT ![s] = "eof"]
          /\ SilentRing /\ UNCHANGED limited
    /\ UNCHANGED <<retention, pending, offset, stdout, stderr, truncated, reported, count,
                   monVars, ctlVars, clientVars>>

Flushed(s) ==
    /\ rd[s] = "flushed"
    /\ count' = count + 1
    /\ rd' = [rd EXCEPT ![s] = "eof"]
    /\ UNCHANGED <<retention, pending, offset, stdout, stderr, truncated, reported, held,
                   limited, ringVars, monVars, ctlVars, clientVars>>

\* read raises, and with it the reader task.
ReaderRaises(s) ==
    /\ rd[s] = "reading"
    /\ rd' = [rd EXCEPT ![s] = "raised"]
    /\ UNCHANGED <<retention, pending, offset, stdout, stderr, truncated, reported, held,
                   count, limited, ringVars, monVars, ctlVars, clientVars>>

----------------------------------------------------------------------------
(* start, from the first event on: the session was registered with it.  The *)
(* monitor and the readers exist once start returns.                        *)

At(from, to) == mon = from /\ mon' = to

Starting == mon \in {"accepted", "started", "degraded"}

ProcessStarted ==
    /\ At("accepted", "started")
    /\ state' = "running"
    /\ emit("lifecycle", 1)   \* process.started
    /\ UNCHANGED <<readVars, failure, result, ctlVars, clientVars>>

\* One event for a reason the handle gives (at most one here).
Degraded ==
    /\ At("started", "degraded")
    /\ emit("lifecycle", 1)   \* capability.degraded
    /\ UNCHANGED <<readVars, failure, state, result, ctlVars, clientVars>>

StartReturns ==
    /\ mon \in {"started", "degraded"} /\ mon' = "wait"
    /\ SilentRing
    /\ UNCHANGED <<readVars, failure, state, result, ctlVars, clientVars>>

----------------------------------------------------------------------------
(* Control calls.  write, interrupt and cancel hold operation_lock. *)

Active == state = "running"

RootExits ==
    /\ ~exited /\ exited' = TRUE
    /\ UNCHANGED <<readVars, ringVars, monVars, steps, ctl, calls, clientVars>>

\* write over the limit on a session's input, and interrupt, as far as they emit.
Signal ==
    /\ Active /\ ctl = "idle" /\ calls < MaxCalls
    /\ calls' = calls + 1
    /\ emit("lifecycle", 1)   \* resource.limit_hit, or cancellation.step
    /\ UNCHANGED <<readVars, monVars, exited, steps, ctl, clientVars>>

\* report_step
ReportStep(step) ==
    /\ steps' = steps \cup {step}
    /\ emit("lifecycle", 1)   \* cancellation.step

\* The kill_tree step, unless it was reported.
KillStep ==
    IF "kill_tree" \in steps THEN SilentRing /\ UNCHANGED steps ELSE ReportStep("kill_tree")

\* A cancellation begins; one that has steps already, or a session that ended,
\* is answered at once.
Cancel ==
    /\ Active /\ steps = {} /\ ctl = "idle" /\ calls < MaxCalls
    /\ calls' = calls + 1
    /\ ctl' = "begin"
    /\ UNCHANGED <<readVars, ringVars, monVars, exited, steps, clientVars>>

\* cancel_process: interrupt unless it is skipped, terminate, kill_tree, each
\* after the grace period of the one before; a root that exits leaves a tree to kill.
Escalate ==
    /\ \/ ctl = "begin" /\ ~exited /\ ctl' = "interrupt"
       \/ ctl \in {"begin", "interrupt"} /\ ~exited /\ ctl' = "terminate"
       \/ ctl \in {"begin", "interrupt"} /\ exited /\ ctl' = "kill_tree"
       \/ ctl = "terminate" /\ ctl' = "kill_tree"
    /\ ReportStep(ctl')
    /\ UNCHANGED <<readVars, monVars, exited, calls, clientVars>>

\* A call of the backend fails or the root does not exit: kill_tree as a last step.
CancelFails ==
    /\ ctl \in {"interrupt", "terminate", "kill_tree"} /\ ctl' = "cleanup"
    /\ KillStep
    /\ UNCHANGED <<readVars, monVars, exited, calls, clientVars>>

\* The root has exited and its tree is killed or unknown, or the cleanup is over.
CancelCompleted ==
    /\ ctl = "cleanup" \/ (ctl # "idle" /\ exited)
    /\ ctl' = "idle"
    /\ emit("lifecycle", 1)   \* cancellation.completed
    /\ UNCHANGED <<readVars, monVars, exited, steps, calls, clientVars>>

----------------------------------------------------------------------------
(* _monitor, as far as it emits, and the results it takes from the buffers *)

\* The deadline or the idle deadline passes.
Timeout ==
    /\ At("wait", "kill")
    /\ KillStep
    /\ UNCHANGED <<readVars, failure, state, result, exited, ctl, calls, clientVars>>

\* The wait raises, or the kill raises or does not end the root: nothing is drained.
WaitFails ==
    /\ At("wait", "dispose")
    /\ failure' = TRUE
    /\ SilentRing
    /\ UNCHANGED <<readVars, state, result, ctlVars, clientVars>>

KillFails ==
    /\ At("kill", "dispose")
    /\ failure' = TRUE
    /\ SilentRing
    /\ UNCHANGED <<readVars, state, result, ctlVars, clientVars>>

\* The root exits and the monitor starts to drain.
ProcessExited ==
    /\ mon \in {"wait", "kill"} /\ mon' = "drain"
    /\ exited
    /\ state' = "draining"
    /\ emit("lifecycle", 1)   \* process.exited
    /\ UNCHANGED <<readVars, failure, result, ctlVars, clientVars>>

Drained ==
    /\ At("drain", "dispose")
    /\ \A s \in Streams : rd[s] = "eof"
    /\ emit("lifecycle", 1)   \* session.drained
    /\ UNCHANGED <<readVars, failure, state, result, ctlVars, clientVars>>

\* gather raises what a reader raised.
DrainFails ==
    /\ At("drain", "dispose")
    /\ \E s \in Streams : rd[s] = "raised"
    /\ failure' = TRUE
    /\ SilentRing
    /\ UNCHANGED <<readVars, state, result, ctlVars, clientVars>>

DrainTimeout ==
    /\ At("drain", "overdue")
    /\ \E s \in Streams : rd[s] # "eof"
    /\ \A s \in Streams : rd[s] # "raised"
    /\ emit("lifecycle", 1)   \* resource.limit_hit
    /\ UNCHANGED <<readVars, failure, state, result, ctlVars, clientVars>>

KillOverdue ==
    /\ At("overdue", "giveup")
    /\ KillStep
    /\ UNCHANGED <<readVars, failure, state, result, exited, ctl, calls, clientVars>>

\* The readers had their second chance.
GiveUp ==
    /\ At("giveup", "dispose")
    /\ failure' = TRUE
    /\ SilentRing
    /\ UNCHANGED <<readVars, state, result, ctlVars, clientVars>>

\* The backend is disposed, or that fails.  The readers that are left are cancelled
\* where they are: what they had not counted yet is never counted.
DisposeBackend ==
    /\ At("dispose", "finish")
    /\ failure' \in {failure, TRUE}
    /\ rd' = [s \in Streams |-> IF rd[s] \in {"eof", "raised"} THEN rd[s] ELSE "cancelled"]
    /\ SilentRing
    /\ UNCHANGED <<retention, pending, offset, stdout, stderr, truncated, reported, held,
                   count, limited, state, result, ctlVars, clientVars>>

\* _infer_resource_limit finds that the command ended at one of its limits.
ResourceHit ==
    /\ At("finish", "finish") /\ ~failure
    /\ failure' = TRUE
    /\ emit("lifecycle", 1)   \* resource.limit_hit
    /\ UNCHANGED <<readVars, state, result, ctlVars, clientVars>>

Captured == [retained |-> stdout + stderr, dropped |-> truncated]

\* completed and session.completed are one step; failed and session.error are
\* another, before the result and session.completed.
Complete ==
    /\ At("finish", "done") /\ ~failure
    /\ state' = "completed"
    /\ result' = Captured
    /\ emit("session.completed", 1)
    /\ UNCHANGED <<readVars, failure, ctlVars, clientVars>>

Fail ==
    /\ At("finish", "failing") /\ failure
    /\ state' = "failed"
    /\ emit("lifecycle", 1)   \* session.error
    /\ UNCHANGED <<readVars, failure, result, ctlVars, clientVars>>


Report ==
    /\ At("failing", "done")
    /\ result' = Captured
    /\ emit("session.completed", 1)
    /\ UNCHANGED <<readVars, failure, state, ctlVars, clientVars>>

----------------------------------------------------------------------------
(* event_page *)

SizeOf(page) == FoldLeft(LAMBDA n, e : n + e.size, 0, page)

\* The ring is in the order of its sequence numbers, so the events the cursor
\* skips are its oldest.
Skipped == Cardinality({i \in 1 .. Len(events) : events[i].seq < cursor})

\* At least one event, then as many as the page's limits allow.
Page ==
    LET left == Len(events) - Skipped
        First(k) == SubSeq(events, Skipped + 1, Skipped + k)
        Fits(k) == k <= PageLimit /\ (k <= 1 \/ SizeOf(First(k)) <= PageBytes)
        len == CHOOSE k \in 0 .. left :
                 /\ \A j \in 0 .. k : Fits(j)
                 /\ k = left \/ ~Fits(k + 1)
    IN First(len)

\* The answer; an empty one is asked for again.
TakePage(page) ==
    /\ IF page = <<>> THEN client' = "idle" /\ UNCHANGED cursor
       ELSE /\ cursor' = Last(page).seq + 1
            /\ client' = IF \E i \in 1 .. Len(page) : page[i].kind = "session.completed"
                         THEN "done" ELSE "idle"
    /\ UNCHANGED <<readVars, ringVars, monVars, ctlVars>>

\* An old cursor is an error, whose first_cursor the client goes on with; one at
\* the end waits unless the session ended.  The client knows the session from the
\* answer to start.
EventPage ==
    /\ client = "idle" /\ ~Starting
    /\ \/ /\ cursor < first_event_seq
          /\ client' = "expired"
          /\ UNCHANGED <<readVars, ringVars, monVars, ctlVars, cursor>>
       \/ /\ cursor = next /\ ~terminal
          /\ client' = "waiting"
          /\ UNCHANGED <<readVars, ringVars, monVars, ctlVars, cursor>>
       \/ /\ cursor >= first_event_seq /\ (cursor # next \/ terminal)
          /\ TakePage(Page)

\* The predicate holds or the wait times out, whatever has happened since: the page
\* is made with the cursor that was tested before the wait.
EventPageWoken ==
    /\ client = "waiting"
    /\ TakePage(Page)

\* The client's answer to EVENT_CURSOR_EXPIRED.
Resynchronize ==
    /\ client = "expired" /\ client' = "idle"
    /\ cursor' = first_event_seq
    /\ UNCHANGED <<readVars, ringVars, monVars, ctlVars>>

----------------------------------------------------------------------------
(* The specification *)

\* pipe mode reads stdout and stderr, pty mode one merged stream; tail
\* retention is refused for pipes.
OutputInit(follower) ==
    /\ \E mode \in {"pipe", "pty"} :
        /\ retention \in IF mode = "pty" THEN {"head", "tail"} ELSE {"head"}
        /\ rd = [s \in Streams |-> IF (s = "pty") = (mode = "pty") THEN "reading" ELSE "eof"]
    /\ pending = [s \in Streams |-> 0] /\ offset = [s \in Streams |-> 0]
    /\ held = [s \in Streams |-> FALSE]
    /\ stdout = 0 /\ stderr = 0 /\ truncated = 0 /\ reported = {}
    /\ count = 0 /\ limited = FALSE
    /\ events = <<[seq |-> 0, kind |-> "lifecycle", size |-> 1]>> /\ next = 1
    /\ mon = "accepted" /\ failure = FALSE /\ state = "accepted" /\ result = NoResult
    /\ exited = FALSE /\ steps = {} /\ ctl = "idle" /\ calls = 0
    /\ client = follower /\ cursor = 0

Init == OutputInit("idle")

ReaderStep(s) ==
    /\ ~Starting
    /\ \/ \E n \in 1 .. MaxChunk : AppendOutput(s, n)
       \/ Resume(s) \/ FlushOutput(s) \/ Flushed(s) \/ ReaderRaises(s)

MonitorStep ==
    \/ ProcessStarted \/ StartReturns \/ ProcessExited \/ KillFails
    \/ Drained \/ DrainFails \/ DrainTimeout \/ KillOverdue \/ GiveUp
    \/ DisposeBackend \/ Complete \/ Fail \/ Report

\* What the monitor meets in some sessions only.
MonitorIncident == Degraded \/ Timeout \/ WaitFails \/ ResourceHit

ControlStep == Signal \/ Cancel \/ Escalate \/ CancelFails \/ CancelCompleted

ClientStep == EventPage \/ EventPageWoken \/ Resynchronize

Next ==
    \/ \E s \in Streams : ReaderStep(s)
    \/ MonitorStep \/ MonitorIncident \/ RootExits \/ ControlStep \/ ClientStep

\* The event loop resumes every task and the client keeps asking.  The command
\* exits in the end; that it closes its output is not assumed.
Fairness == WF_vars(MonitorStep) /\ WF_vars(RootExits) /\ WF_vars(ClientStep)

Spec == Init /\ [][Next]_vars /\ Fairness

----------------------------------------------------------------------------
(* Properties *)

\* Every variable keeps its shape; the ring is a run of consecutive sequence
\* numbers that ends at next_event_seq; and the limit on output events, tested
\* before an await and counted after it, is exceeded by at most the one event of
\* the other reader.
TypeOK ==
    /\ retention \in {"head", "tail"}
    /\ rd \in [Streams -> {"reading", "emitted", "limited", "reporting", "flushed", "eof",
                           "raised", "cancelled"}]
    /\ pending \in [Streams -> Nat] /\ offset \in [Streams -> 0 .. MaxWritten]
    /\ held \in [Streams -> BOOLEAN] /\ reported \subseteq Streams
    /\ stdout \in Nat /\ stderr \in Nat /\ truncated \in Nat /\ count \in Nat
    /\ count + Cardinality({s \in Streams : rd[s] \in {"emitted", "flushed"}}) <= MaxEvents + 1
    /\ limited \in BOOLEAN /\ failure \in BOOLEAN
    /\ mon \in {"accepted", "started", "degraded", "wait", "kill", "drain", "overdue",
                "giveup", "dispose", "finish", "failing", "done"}
    /\ state \in {"accepted", "running", "draining", "completed", "failed"}
    /\ exited \in BOOLEAN /\ steps \subseteq {"interrupt", "terminate", "kill_tree"}
    /\ ctl \in {"idle", "begin", "interrupt", "terminate", "kill_tree", "cleanup"}
    /\ calls \in 0 .. MaxCalls
    /\ client \in {"idle", "waiting", "done", "expired"} /\ cursor \in 0 .. next
    /\ Len(events) <= MaxRetained
    /\ \A i \in 1 .. Len(events) : events[i].seq = next - Len(events) + i - 1

\* "Was output truncated, and exactly how much was dropped?"  Every byte read
\* is retained, counted as dropped, or about to be counted by a reader that
\* waits for its event; retention respects max_output_bytes; and the result of a
\* session accounts for every byte, in head and in tail mode, unless the session
\* failed and a reader was cancelled.
BytesAccounted ==
    /\ stdout + stderr <= MaxOutput
    /\ total = stdout + stderr + truncated
                 + pending["stdout"] + pending["stderr"] + pending["pty"]
    /\ result # NoResult =>
          \/ result.retained + result.dropped = total
          \/ failure /\ \E s \in Streams : rd[s] = "cancelled"

\* "Old event cursors fail explicitly" (docs/RELIABILITY.md): a client is never
\* given a page that skips events the ring has lost since its cursor was valid.
NoSilentGap ==
    [][cursor' # cursor /\ client # "expired" => cursor >= first_event_seq]_vars


=============================================================================
