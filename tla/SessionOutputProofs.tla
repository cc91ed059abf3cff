------------------------ MODULE SessionOutputProofs ------------------------
(***************************************************************************)
(* A session's output for any limits on bytes, events and pages and any    *)
(* amount of output: its byte accounting, its event limit, and the ring    *)
(* from which a client reads by cursor.                                    *)
(***************************************************************************)
EXTENDS SessionOutput, FiniteSetTheorems, WellFoundedInduction, TLAPS

ReaderStates == {"reading", "emitted", "limited", "reporting", "flushed", "eof", "raised",
                 "cancelled"}

\* A reader task that ended, by itself or cancelled.
Over == {"eof", "raised", "cancelled"}

ByteType ==
    /\ retention \in {"head", "tail"}
    /\ rd \in [Streams -> ReaderStates]
    /\ pending \in [Streams -> Nat] /\ offset \in [Streams -> Nat]
    /\ stdout \in Nat /\ stderr \in Nat /\ truncated \in Nat
    /\ mon \in {"accepted", "started", "degraded", "wait", "kill", "drain", "overdue",
                "giveup", "dispose", "finish", "failing", "done"}

awaiting == pending["stdout"] + pending["stderr"] + pending["pty"]

\* What the buffers and counters say of the bytes read, and where a reader may
\* still owe the counter something: only while it awaits an event, or for ever if
\* it was cancelled there.
Balanced ==
    /\ stdout + stderr <= MaxOutput
    /\ total = stdout + stderr + truncated + awaiting
    /\ retention = "tail" => stderr = 0 /\ rd["stderr"] \in Over
    /\ \A s \in Streams : rd[s] \notin {"emitted", "limited", "cancelled"} => pending[s] = 0

\* No reader outlives the backend's disposal, a session that does not fail has every
\* reader at its end of file by then, and the result is final and exact unless a
\* reader was cancelled.
EndsDrained ==
    /\ mon \in {"finish", "failing", "done"} => \A s \in Streams : rd[s] \in Over
    /\ mon \in {"dispose", "finish", "failing", "done"} /\ ~failure
          => \A s \in Streams : rd[s] = "eof"
    /\ result # NoResult =>
          /\ mon = "done"
          /\ \/ result.retained + result.dropped = total
             \/ failure /\ \E s \in Streams : rd[s] = "cancelled"

ByteInv == ByteType /\ Balanced /\ EndsDrained

-----------------------------------------------------------------------------
\* What append_output keeps and drops of a chunk is the chunk, in either mode, and
\* the buffers stay within max_output_bytes.
LEMMA ChunkSplit ==
    ASSUME ByteInv, NEW s \in Streams, NEW n \in Nat, rd[s] = "reading", Buffer(s, n)
    PROVE  /\ stdout' \in Nat /\ stderr' \in Nat /\ Dropped(n) \in Nat
           /\ stdout' + stderr' <= MaxOutput
           /\ stdout' + stderr' + Dropped(n) = stdout + stderr + n
           /\ retention = "tail" => stderr' = stderr
<1>1. MaxOutput \in Nat
    BY OutputAssumption
<1>2. retention = "tail" => s # "stderr"
    BY DEF ByteInv, Balanced, Over
<1>3. QED
    BY <1>1, <1>2 DEF ByteInv, ByteType, Balanced, Buffer, Dropped, Kept, Least, Above

\* The dropped bytes are counted once, by the reader that dropped them.
LEMMA AccountMoves ==
    ASSUME ByteInv, NEW s \in Streams, NEW d \in Nat, Account(s, d)
    PROVE  /\ truncated' = truncated + d
           /\ pending' = [pending EXCEPT ![s] = 0]
           /\ \E p \in {"reporting", "reading"} : rd' = [rd EXCEPT ![s] = p]
BY DEF Account

\* A reader runs only until the backend is disposed, and then only in a failure.
LEMMA ReaderNotEnded ==
    ASSUME ByteInv, NEW s \in Streams, rd[s] \notin Over
    PROVE  /\ mon \notin {"finish", "failing", "done"} /\ result = NoResult
           /\ failure \/ mon # "dispose"
BY DEF ByteInv, EndsDrained, Over

\* A chunk is appended.
LEMMA AppendBytes ==
    ASSUME ByteInv, NEW s \in Streams, NEW n \in 1 .. MaxChunk, AppendOutput(s, n)
    PROVE  ByteInv'
<1>1. n \in Nat /\ rd[s] = "reading"
    BY OutputAssumption DEF AppendOutput
<1>2. /\ stdout' \in Nat /\ stderr' \in Nat /\ Dropped(n) \in Nat
      /\ stdout' + stderr' <= MaxOutput
      /\ stdout' + stderr' + Dropped(n) = stdout + stderr + n
      /\ retention = "tail" => stderr' = stderr
    BY <1>1, ChunkSplit DEF AppendOutput
<1>3. pending[s] = 0
    BY <1>1 DEF ByteInv, Balanced
<1>4. /\ offset' = [offset EXCEPT ![s] = offset[s] + n]
      /\ UNCHANGED <<retention, mon, failure, result>>
    BY DEF AppendOutput, monVars
<1>5. \/ /\ truncated' = truncated /\ pending' = [pending EXCEPT ![s] = Dropped(n)]
         /\ \E p \in {"emitted", "limited"} : rd' = [rd EXCEPT ![s] = p]
      \/ /\ truncated' = truncated + Dropped(n) /\ pending' = [pending EXCEPT ![s] = 0]
         /\ \E p \in {"reporting", "reading"} : rd' = [rd EXCEPT ![s] = p]
    BY <1>2, AccountMoves DEF AppendOutput
<1> HIDE DEF Dropped
<1>6. ByteType'
    BY <1>1, <1>2, <1>4, <1>5 DEF ByteInv, ByteType, ReaderStates
<1>7. total' = total + n
    BY <1>1, <1>4 DEF ByteInv, ByteType, total, Streams
<1>8. truncated' + awaiting' = truncated + awaiting + Dropped(n)
    BY <1>2, <1>3, <1>5 DEF ByteInv, ByteType, awaiting, Streams
<1>9. /\ retention' = "tail" => stderr' = 0 /\ rd'["stderr"] \in Over
      /\ \A r \in Streams : rd'[r] \notin {"emitted", "limited", "cancelled"}
                              => pending'[r] = 0
    BY <1>1, <1>2, <1>4, <1>5 DEF ByteInv, ByteType, ReaderStates, Balanced, Streams, Over
<1>10. Balanced'
    <2>1. total \in Nat /\ awaiting \in Nat /\ awaiting' \in Nat
        BY <1>6 DEF ByteInv, ByteType, total, awaiting, Streams
    <2>2. total = stdout + stderr + truncated + awaiting
        BY DEF ByteInv, Balanced
    <2>3. total' = stdout' + stderr' + truncated' + awaiting'
        <3>1. stdout \in Nat /\ stderr \in Nat /\ truncated \in Nat /\ truncated' \in Nat
            BY <1>6 DEF ByteInv, ByteType
        <3>2. QED
            BY <3>1, <2>1, <2>2, <1>1, <1>2, <1>7, <1>8 DEF total, awaiting
    <2>4. QED
        BY <2>3, <1>2, <1>9 DEF Balanced
<1>11. EndsDrained'
    <2>1. /\ mon \notin {"finish", "failing", "done"} /\ result = NoResult
          /\ failure \/ mon # "dispose"
        BY <1>1, ReaderNotEnded DEF Over
    <2>2. QED
        BY <2>1, <1>4 DEF EndsDrained
<1>12. QED
    BY <1>6, <1>10, <1>11 DEF ByteInv

\* A reader is resumed after an event and counts what it owes, or flushes, or ends.
LEMMA ResumeBytes ==
    ASSUME ByteInv, NEW s \in Streams,
           Resume(s) \/ FlushOutput(s) \/ Flushed(s) \/ ReaderRaises(s)
    PROVE  ByteInv'
<1>1. /\ UNCHANGED <<retention, offset, stdout, stderr, mon, failure, result>>
      /\ rd[s] \in {"reading", "emitted", "limited", "reporting", "flushed"}
    BY DEF Resume, FlushOutput, Flushed, ReaderRaises, monVars
<1>2. \/ /\ truncated' = truncated + pending[s] /\ pending' = [pending EXCEPT ![s] = 0]
         /\ \E p \in {"reporting", "reading"} : rd' = [rd EXCEPT ![s] = p]
      \/ /\ UNCHANGED <<truncated, pending>> /\ rd[s] \in {"reading", "reporting", "flushed"}
         /\ \E p \in {"reading", "flushed", "eof", "raised"} : rd' = [rd EXCEPT ![s] = p]
    <2>1. pending[s] \in Nat
        BY DEF ByteInv, ByteType
    <2>2. QED
        BY <2>1, AccountMoves DEF Resume, FlushOutput, Flushed, ReaderRaises
<1>3. ByteType'
    BY <1>1, <1>2 DEF ByteInv, ByteType, ReaderStates
<1>4. total' = total
    BY <1>1 DEF total
<1>5. truncated' + awaiting' = truncated + awaiting
    BY <1>2 DEF ByteInv, ByteType, awaiting, Streams
<1>6. /\ retention' = "tail" => stderr' = 0 /\ rd'["stderr"] \in Over
      /\ \A r \in Streams : rd'[r] \notin {"emitted", "limited", "cancelled"}
                              => pending'[r] = 0
    BY <1>1, <1>2 DEF ByteInv, ByteType, ReaderStates, Balanced, Streams, Over
<1>7. Balanced'
    <2>1. total \in Nat /\ awaiting \in Nat /\ awaiting' \in Nat
        BY <1>3 DEF ByteInv, ByteType, total, awaiting, Streams
    <2>2. stdout \in Nat /\ stderr \in Nat /\ truncated \in Nat /\ truncated' \in Nat
        BY <1>3 DEF ByteInv, ByteType
    <2>3. /\ total = stdout + stderr + truncated + awaiting
          /\ stdout' = stdout /\ stderr' = stderr /\ stdout + stderr <= MaxOutput
        BY <1>1 DEF ByteInv, Balanced
    <2>4. total' = stdout' + stderr' + truncated' + awaiting'
        BY <2>1, <2>2, <2>3, <1>4, <1>5 DEF total, awaiting
    <2>5. QED
        BY <2>3, <2>4, <1>6 DEF Balanced
<1>8. EndsDrained'
    <2>1. /\ mon \notin {"finish", "failing", "done"} /\ result = NoResult
          /\ failure \/ mon # "dispose"
        BY <1>1, ReaderNotEnded DEF Over
    <2>2. QED
        BY <2>1, <1>1 DEF EndsDrained
<1>9. QED
    BY <1>3, <1>7, <1>8 DEF ByteInv

\* The steps of start and the monitor but two leave readers and result alone; they
\* reach the disposal with an error or with every reader at its end of file.
LEMMA MonitorMoves ==
    ASSUME MonitorStep \/ MonitorIncident, ~DisposeBackend, ~Complete, ~Report
    PROVE  /\ UNCHANGED <<readVars, result>>
           /\ mon' \in {"started", "degraded", "wait", "kill", "drain", "overdue", "giveup",
                        "dispose", "finish", "failing"}
           /\ failure' \in {failure, TRUE} /\ mon # "done"
           /\ mon' = "dispose" => failure' = TRUE \/ \A s \in Streams : rd[s] = "eof"
           /\ mon' \in {"finish", "failing"} => mon = "finish"
<1>1. CASE \/ ProcessStarted \/ Degraded \/ StartReturns \/ Timeout \/ ProcessExited
           \/ DrainTimeout \/ KillOverdue
    BY <1>1 DEF ProcessStarted, Degraded, StartReturns, Timeout, ProcessExited, DrainTimeout,
         KillOverdue, At
<1>2. CASE WaitFails \/ KillFails \/ Drained \/ DrainFails \/ GiveUp
    BY <1>2 DEF WaitFails, KillFails, Drained, DrainFails, GiveUp, At
<1>3. CASE ResourceHit \/ Fail
    BY <1>3 DEF ResourceHit, Fail, At
<1>4. QED
    BY <1>1, <1>2, <1>3 DEF MonitorStep, MonitorIncident

\* The monitor takes the result from balanced counters.
LEMMA MonitorBytes ==
    ASSUME ByteInv, MonitorStep \/ MonitorIncident
    PROVE  ByteInv'
<1>1. CASE ~DisposeBackend /\ ~Complete /\ ~Report
    <2>1. /\ UNCHANGED <<retention, rd, pending, offset, stdout, stderr, truncated, result>>
          /\ mon' \in {"started", "degraded", "wait", "kill", "drain", "overdue", "giveup",
                       "dispose", "finish", "failing"}
          /\ failure' \in {failure, TRUE} /\ mon # "done"
          /\ mon' = "dispose" => failure' = TRUE \/ \A s \in Streams : rd[s] = "eof"
          /\ mon' \in {"finish", "failing"} => mon = "finish"
        BY <1>1, MonitorMoves DEF readVars
    <2>2. ByteType' /\ Balanced'
        BY <2>1 DEF ByteInv, ByteType, Balanced, total, awaiting
    <2>3. result' = NoResult
        BY <2>1 DEF ByteInv, EndsDrained
    <2>4. mon' \in {"finish", "failing"} => \A s \in Streams : rd'[s] \in Over
        BY <2>1 DEF ByteInv, EndsDrained
    <2>5. ~failure' => ~failure /\ failure' # TRUE
        BY <2>1, Zenon
    <2>6. mon' \in {"dispose", "finish", "failing"} /\ ~failure' => \A s \in Streams : rd'[s] = "eof"
        BY <2>1, <2>5 DEF ByteInv, EndsDrained
    <2>7. EndsDrained'
        BY <2>1, <2>3, <2>4, <2>6 DEF EndsDrained
    <2>8. QED
        BY <2>2, <2>7 DEF ByteInv
<1>2. CASE DisposeBackend
    <2>1. /\ UNCHANGED <<retention, pending, offset, stdout, stderr, truncated, result>>
          /\ failure' \in {failure, TRUE} /\ mon = "dispose" /\ mon' = "finish"
          /\ rd' = [s \in Streams |-> IF rd[s] \in {"eof", "raised"} THEN rd[s] ELSE "cancelled"]
        BY <1>2 DEF DisposeBackend, At
    <2>2. ByteType'
        BY <2>1 DEF ByteInv, ByteType, ReaderStates
    <2>3. Balanced'
        BY <2>1 DEF ByteInv, ByteType, Balanced, total, awaiting, Streams, Over
    <2>4. EndsDrained'
        BY <2>1 DEF ByteInv, ByteType, EndsDrained, Over
    <2>5. QED
        BY <2>2, <2>3, <2>4 DEF ByteInv
<1>3. CASE Complete \/ Report
    <2>1. /\ UNCHANGED <<retention, rd, pending, offset, stdout, stderr, truncated, failure>>
          /\ mon \in {"finish", "failing"} /\ mon' = "done"
          /\ result' = [retained |-> stdout + stderr, dropped |-> truncated]
        BY <1>3 DEF Complete, Report, At, Captured, readVars
    <2>2. \/ failure /\ \E s \in Streams : rd[s] = "cancelled"
          \/ \A s \in Streams : rd[s] \in {"eof", "raised"}
        BY <2>1 DEF ByteInv, EndsDrained, Over
    <2>3. \/ failure /\ \E s \in Streams : rd[s] = "cancelled"
          \/ awaiting = 0
        BY <2>2 DEF ByteInv, ByteType, Balanced, awaiting, Streams
    <2>4. \/ failure /\ \E s \in Streams : rd[s] = "cancelled"
          \/ result'.retained + result'.dropped = total
        BY <2>1, <2>3 DEF ByteInv, ByteType, Balanced
    <2>5. ByteType' /\ Balanced' /\ total' = total
        BY <2>1 DEF ByteInv, ByteType, Balanced, total, awaiting
    <2>6. EndsDrained'
        BY <2>1, <2>4, <2>5 DEF ByteInv, EndsDrained
    <2>7. QED
        BY <2>5, <2>6 DEF ByteInv
<1>4. QED
    BY <1>1, <1>2, <1>3

\* A control call touches neither the readers nor the monitor.
LEMMA ControlMoves ==
    ASSUME RootExits \/ ControlStep
    PROVE  UNCHANGED <<readVars, monVars, clientVars>>
BY DEF RootExits, ControlStep, Signal, Cancel, Escalate, CancelFails, CancelCompleted

-----------------------------------------------------------------------------
\* The byte accounting of every reachable state.
THEOREM ByteInvariant == Spec => []ByteInv
<1>1. Init => ByteInv
    <2>1. SUFFICES ASSUME Init PROVE ByteInv
        OBVIOUS
    <2>2. ByteType
        BY <2>1 DEF Init, OutputInit, ByteType, ReaderStates, Streams
    <2>3. Balanced /\ EndsDrained
        BY <2>1, OutputAssumption DEF Init, OutputInit, Balanced, EndsDrained, total, awaiting,
             Streams, Over
    <2>4. QED
        BY <2>2, <2>3 DEF ByteInv
<1>2. ByteInv /\ [Next]_vars => ByteInv'
    <2>1. SUFFICES ASSUME ByteInv, [Next]_vars PROVE ByteInv'
        OBVIOUS
    <2>2. CASE RootExits \/ ControlStep \/ ClientStep \/ UNCHANGED vars
        <3>1. UNCHANGED <<readVars, monVars>>
            BY <2>2, ControlMoves DEF ClientStep, EventPage, EventPageWoken, Resynchronize,
                 TakePage, vars
        <3>2. QED
            BY <2>1, <3>1 DEF readVars, monVars, ByteInv, ByteType, Balanced, EndsDrained, total,
                 awaiting
    <2>3. CASE MonitorStep \/ MonitorIncident
        BY <2>1, <2>3, MonitorBytes
    <2>4. CASE \E s \in Streams : ReaderStep(s)
        BY <2>1, <2>4, AppendBytes, ResumeBytes DEF ReaderStep
    <2>5. QED
        BY <2>1, <2>2, <2>3, <2>4 DEF Next
<1>3. QED
    BY <1>1, <1>2, PTL DEF Spec

\* Every byte a session reads is retained within max_output_bytes, counted as
\* dropped or about to be, and a session's result adds up unless it failed with a
\* reader cancelled, for all limits.
THEOREM BytesAccountedHolds == Spec => []BytesAccounted
<1>1. ByteInv => BytesAccounted
    <2>1. SUFFICES ASSUME ByteInv PROVE BytesAccounted
        OBVIOUS
    <2>2. awaiting = pending["stdout"] + pending["stderr"] + pending["pty"]
        BY DEF awaiting
    <2>3. total = stdout + stderr + truncated
                    + pending["stdout"] + pending["stderr"] + pending["pty"]
        BY <2>1, <2>2 DEF ByteInv, ByteType, Balanced, Streams
    <2>4. QED
        BY <2>1, <2>3 DEF ByteInv, Balanced, EndsDrained, BytesAccounted
<1>2. QED
    BY <1>1, ByteInvariant, PTL

-----------------------------------------------------------------------------
(* The event limit and the ring.                                             *)

OutputType ==
    /\ offset \in [Streams -> 0 .. MaxWritten]
    /\ held \in [Streams -> BOOLEAN] /\ reported \subseteq Streams
    /\ count \in Nat
    /\ limited \in BOOLEAN /\ failure \in BOOLEAN

\* The session's state and the cancellation that may be under way.
ControlType ==
    /\ state \in {"accepted", "running", "draining", "completed", "failed"}
    /\ exited \in BOOLEAN /\ steps \subseteq {"interrupt", "terminate", "kill_tree"}
    /\ ctl \in {"idle", "begin", "interrupt", "terminate", "kill_tree", "cleanup"}
    /\ calls \in 0 .. MaxCalls

\* A session reads two pipes or one terminal, so two readers at most emit.
OneMode == rd["pty"] \in Over \/ (rd["stdout"] \in Over /\ rd["stderr"] \in Over)

\* A reader that has emitted an output event and has not counted it.
Uncounted(s) == IF rd[s] \in {"emitted", "flushed"} THEN 1 ELSE 0

EventsCounted ==
    count + Uncounted("stdout") + Uncounted("stderr") + Uncounted("pty") <= MaxEvents + 1

Kinds == {"output", "lifecycle", "session.completed"}
LifecycleRecord == [seq : Nat, kind : Kinds, size : Nat]

\* The ring holds the latest events, as many as fit.
Ring ==
    /\ events \in Seq(LifecycleRecord) /\ next \in Nat
    /\ Len(events) <= MaxRetained /\ Len(events) <= next
    /\ Len(events) = next \/ Len(events) = MaxRetained
    /\ \A i \in 1 .. Len(events) : events[i].seq = next - Len(events) + i - 1

\* The client's cursor is never ahead of the ring.
Follows == client \in {"idle", "waiting", "done", "expired"} /\ cursor \in 0 .. next

OutputInv == OutputType /\ ControlType /\ OneMode /\ EventsCounted /\ Ring /\ Follows

\* The ring loses its oldest event when it is full, and stays consecutive.
LEMMA RingKept ==
    ASSUME Ring, NEW kind \in Kinds, NEW size \in Nat, emit(kind, size)
    PROVE  Ring' /\ next' = next + 1
<1> DEFINE kept == IF Len(events) >= MaxRetained THEN Tail(events) ELSE events
           event == [seq |-> next, kind |-> kind, size |-> size]
<1>1. events' = Append(kept, event) /\ next' = next + 1
    BY DEF emit
<1>2. /\ events \in Seq(LifecycleRecord) /\ next \in Nat /\ Len(events) \in Nat
      /\ MaxRetained \in Nat /\ MaxRetained >= 1
    BY OutputAssumption DEF Ring
<1>3. event \in LifecycleRecord /\ event.seq = next
    BY <1>2 DEF LifecycleRecord
<1>4. CASE Len(events) >= MaxRetained
    <2>1. kept = Tail(events) /\ Len(events) = MaxRetained /\ events # <<>>
        BY <1>2, <1>4 DEF Ring
    <2>2. /\ kept \in Seq(LifecycleRecord) /\ Len(kept) = MaxRetained - 1
          /\ \A i \in 1 .. Len(kept) : kept[i] = events[i + 1] /\ i + 1 \in 1 .. Len(events)
        BY <1>2, <2>1
    <2> HIDE DEF kept, event
    <2>3. /\ events' \in Seq(LifecycleRecord) /\ Len(events') = MaxRetained
          /\ \A i \in 1 .. Len(kept) : events'[i] = kept[i]
          /\ events'[MaxRetained] = event
        BY <1>1, <1>2, <1>3, <2>2
    <2>4. \A i \in 1 .. Len(events') : events'[i].seq = next' - Len(events') + i - 1
        <3>1. SUFFICES ASSUME NEW i \in 1 .. Len(events')
                       PROVE  events'[i].seq = next' - Len(events') + i - 1
            OBVIOUS
        <3>2. CASE i = MaxRetained
            BY <1>1, <1>2, <1>3, <2>3, <3>2
        <3>3. CASE i # MaxRetained
            <4>1. i \in 1 .. Len(kept)
                BY <1>2, <2>2, <2>3, <3>3
            <4>2. events'[i] = events[i + 1] /\ i + 1 \in 1 .. Len(events)
                BY <4>1, <2>2, <2>3
            <4>3. events[i + 1].seq = next - Len(events) + (i + 1) - 1
                BY <4>2 DEF Ring
            <4>4. /\ Len(events') = Len(events) /\ next' = next + 1 /\ next \in Int
                  /\ Len(events) \in Int /\ i \in Int
                BY <1>1, <1>2, <2>1, <2>3, <4>1
            <4>5. next - Len(events) + (i + 1) - 1 = next' - Len(events') + i - 1
                BY <4>4
            <4>6. QED
                BY <4>2, <4>3, <4>5
        <3>4. QED
            BY <3>2, <3>3
    <2>5. next' \in Nat /\ Len(events') <= next'
        BY <1>1, <1>2, <2>1, <2>3 DEF Ring
    <2>6. /\ events' \in Seq(LifecycleRecord) /\ Len(events') <= MaxRetained
          /\ Len(events') = MaxRetained
        BY <1>2, <2>3
    <2>7. Ring'
        BY <2>4, <2>5, <2>6, Zenon DEF Ring
    <2>8. QED
        BY <2>7, <1>1
<1>5. CASE ~(Len(events) >= MaxRetained)
    <2>1. kept = events /\ Len(events) = next /\ Len(events) < MaxRetained
        BY <1>2, <1>5 DEF Ring
    <2> HIDE DEF kept, event
    <2>2. /\ events' \in Seq(LifecycleRecord) /\ Len(events') = Len(events) + 1
          /\ \A i \in 1 .. Len(events) : events'[i] = events[i]
          /\ events'[Len(events) + 1] = event
        BY <1>1, <1>2, <1>3, <2>1
    <2>3. \A i \in 1 .. Len(events') : events'[i].seq = next' - Len(events') + i - 1
        <3>1. SUFFICES ASSUME NEW i \in 1 .. Len(events')
                       PROVE  events'[i].seq = next' - Len(events') + i - 1
            OBVIOUS
        <3>2. CASE i = Len(events) + 1
            BY <1>1, <1>2, <1>3, <2>1, <2>2, <3>2
        <3>3. CASE i # Len(events) + 1
            <4>1. i \in 1 .. Len(events)
                BY <1>2, <2>2, <3>3
            <4>2. events[i].seq = next - Len(events) + i - 1
                BY <4>1 DEF Ring
            <4>3. QED
                BY <1>1, <1>2, <2>1, <2>2, <4>1, <4>2
        <3>4. QED
            BY <3>2, <3>3
    <2>4. QED
        BY <1>1, <1>2, <2>1, <2>2, <2>3 DEF Ring
<1>6. QED
    BY <1>1, <1>4, <1>5

\* A step of a task: silent, or one event.
Emits ==
    \/ SilentRing
    \/ \E kind \in Kinds, size \in Nat : emit(kind, size)

\* The ring, and a client that is not asking, survive a step of a task.
LEMMA RingStep ==
    ASSUME Ring, Follows, Emits, UNCHANGED clientVars
    PROVE  Ring' /\ Follows'
<1>1. CASE SilentRing
    BY <1>1 DEF SilentRing, ringVars, clientVars, Ring, Follows
<1>2. CASE \E kind \in Kinds, size \in Nat : emit(kind, size)
    <2>1. Ring' /\ next' = next + 1
        BY <1>2, RingKept
    <2>2. QED
        BY <2>1 DEF clientVars, Ring, Follows
<1>3. QED
    BY <1>1, <1>2 DEF Emits

\* What a reader's step does: one event at most, and one output event is counted or
\* becomes due to be counted, within the limit tested before.
ReaderEffect(s) ==
    /\ Emits /\ UNCHANGED <<failure, state, ctlVars, clientVars>>
    /\ rd[s] \notin Over
    /\ \E p \in {"reading", "emitted", "limited", "reporting", "flushed", "eof", "raised"} :
          /\ rd' = [rd EXCEPT ![s] = p]
          /\ \/ /\ count' = count /\ rd[s] \notin {"emitted", "flushed"}
                /\ p \in {"emitted", "flushed"} => rd[s] = "reading" /\ count < MaxEvents
             \/ /\ count' = count + 1 /\ rd[s] \in {"emitted", "flushed"}
                /\ p \notin {"emitted", "flushed"}

\* The end of append_output emits at most the report of a first loss.
LEMMA AccountEmits ==
    ASSUME NEW s \in Streams, NEW d, Account(s, d)
    PROVE  /\ Emits
           /\ \E p \in {"reporting", "reading"} : rd' = [rd EXCEPT ![s] = p]
           /\ reported' \in {reported, reported \cup {s}}
<1>1. \/ SilentRing /\ reported' = reported /\ rd' = [rd EXCEPT ![s] = "reading"]
      \/ /\ emit("lifecycle", 1) /\ reported' = reported \cup {s}
         /\ rd' = [rd EXCEPT ![s] = "reporting"]
    BY DEF Account
<1>2. "lifecycle" \in Kinds /\ 1 \in Nat
    BY DEF Kinds
<1>3. Emits
    BY <1>1, <1>2, Zenon DEF Emits
<1>4. QED
    BY <1>1, <1>3

\* A chunk arrives.
LEMMA AppendEffect ==
    ASSUME ByteInv, OutputType, NEW s \in Streams, NEW n \in 1 .. MaxChunk, AppendOutput(s, n)
    PROVE  ReaderEffect(s) /\ OutputType'
<1>1. n \in Nat /\ MaxOutput \in Nat /\ Shown(n) \in Nat
    BY OutputAssumption DEF ByteInv, ByteType, Shown, Kept, Least, Above
<1> HIDE DEF Shown
<1>2. /\ rd[s] = "reading" /\ count' = count /\ UNCHANGED <<failure, state, ctlVars, clientVars>>
      /\ offset' = [offset EXCEPT ![s] = offset[s] + n] /\ offset[s] + n <= MaxWritten
    BY DEF AppendOutput, monVars
<1>3. "output" \in Kinds /\ "lifecycle" \in Kinds /\ 1 \in Nat
    BY DEF Kinds
<1>4. CASE /\ count < MaxEvents /\ emit("output", Shown(n)) /\ rd' = [rd EXCEPT ![s] = "emitted"]
           /\ \E h \in BOOLEAN : held' = [held EXCEPT ![s] = h]
           /\ UNCHANGED <<reported, limited>>
    <2>1. Emits
        BY <1>1, <1>3, <1>4, Zenon DEF Emits
    <2>2. ReaderEffect(s)
        BY <2>1, <1>2, <1>4 DEF ReaderEffect, Over
    <2>3. held' \in [Streams -> BOOLEAN]
        BY <1>4 DEF OutputType
    <2>4. OutputType'
        BY <2>3, <1>1, <1>2, <1>4 DEF OutputType
    <2>5. QED
        BY <2>2, <2>4
<1>5. CASE /\ limited' = TRUE /\ emit("lifecycle", 1)
           /\ rd' = [rd EXCEPT ![s] = "limited"] /\ UNCHANGED <<reported, held>>
    <2>1. Emits
        BY <1>3, <1>5, Zenon DEF Emits
    <2>2. ReaderEffect(s)
        BY <2>1, <1>2, <1>5 DEF ReaderEffect, Over
    <2>3. OutputType'
        BY <1>1, <1>2, <1>5 DEF OutputType
    <2>4. QED
        BY <2>2, <2>3
<1>6. CASE Account(s, Dropped(n)) /\ UNCHANGED <<limited, held>>
    <2>1. /\ Emits
          /\ \E p \in {"reporting", "reading"} : rd' = [rd EXCEPT ![s] = p]
          /\ reported' \in {reported, reported \cup {s}}
        BY <1>6, AccountEmits
    <2>2. ReaderEffect(s)
        BY <2>1, <1>2 DEF ReaderEffect, Over
    <2>3. OutputType'
        BY <2>1, <1>1, <1>2, <1>6 DEF OutputType
    <2>4. QED
        BY <2>2, <2>3
<1>7. QED
    BY <1>4, <1>5, <1>6 DEF AppendOutput

\* A reader is resumed, flushes its decoder or ends.
LEMMA ResumeEffect ==
    ASSUME ByteInv, OutputType, NEW s \in Streams,
           Resume(s) \/ FlushOutput(s) \/ Flushed(s) \/ ReaderRaises(s)
    PROVE  ReaderEffect(s) /\ OutputType'
<1>0. "output" \in Kinds /\ "lifecycle" \in Kinds /\ 1 \in Nat /\ 0 \in Nat
    BY DEF Kinds
<1>1. UNCHANGED <<offset, failure, state, ctlVars, clientVars>>
    BY DEF Resume, FlushOutput, Flushed, ReaderRaises, monVars
<1>2. CASE Resume(s)
    <2>1. UNCHANGED <<held, limited>>
        BY <1>2 DEF Resume
    <2>2. CASE rd[s] \in {"emitted", "limited"} /\ Account(s, pending[s])
        <3>1. /\ Emits
              /\ \E p \in {"reporting", "reading"} : rd' = [rd EXCEPT ![s] = p]
              /\ reported' \in {reported, reported \cup {s}}
            BY <2>2, AccountEmits
        <3>2. \/ rd[s] = "emitted" /\ count' = count + 1
              \/ rd[s] = "limited" /\ count' = count
            BY <1>2, <2>2 DEF Resume
        <3>3. ReaderEffect(s)
            BY <3>1, <3>2, <1>1 DEF ReaderEffect, Over
        <3>4. OutputType'
            BY <3>1, <3>2, <2>1, <1>1 DEF OutputType
        <3>5. QED
            BY <3>3, <3>4
    <2>3. CASE /\ rd[s] = "reporting" /\ rd' = [rd EXCEPT ![s] = "reading"]
               /\ SilentRing /\ UNCHANGED <<count, reported>>
        <3>1. ReaderEffect(s)
            BY <2>3, <1>1 DEF ReaderEffect, Emits, Over
        <3>2. OutputType'
            BY <2>1, <2>3, <1>1 DEF OutputType
        <3>3. QED
            BY <3>1, <3>2
    <2>4. QED
        BY <1>2, <2>2, <2>3 DEF Resume
<1>3. CASE FlushOutput(s)
    <2>1. /\ rd[s] = "reading" /\ held' = [held EXCEPT ![s] = FALSE]
          /\ UNCHANGED <<reported, count>>
        BY <1>3 DEF FlushOutput
    <2>2. \/ /\ count < MaxEvents /\ emit("output", 0) /\ limited' = limited
             /\ rd' = [rd EXCEPT ![s] = "flushed"]
          \/ /\ emit("lifecycle", 1) /\ limited' = TRUE
             /\ rd' = [rd EXCEPT ![s] = "eof"]
          \/ SilentRing /\ limited' = limited /\ rd' = [rd EXCEPT ![s] = "eof"]
        BY <1>3 DEF FlushOutput
    <2>3. Emits
        BY <2>2, <1>0, Zenon DEF Emits
    <2>4. ReaderEffect(s)
        BY <2>1, <2>2, <2>3, <1>1 DEF ReaderEffect, Over
    <2>5. held' \in [Streams -> BOOLEAN] /\ limited' \in BOOLEAN
        BY <2>1, <2>2 DEF OutputType
    <2>6. OutputType'
        BY <2>1, <2>5, <1>1 DEF OutputType
    <2>7. QED
        BY <2>4, <2>6
<1>4. CASE Flushed(s)
    <2>1. /\ rd[s] = "flushed" /\ rd' = [rd EXCEPT ![s] = "eof"] /\ count' = count + 1
          /\ UNCHANGED <<reported, held, limited>> /\ SilentRing
        BY <1>4 DEF Flushed, SilentRing
    <2>2. ReaderEffect(s)
        BY <2>1, <1>1 DEF ReaderEffect, Emits, Over
    <2>3. OutputType'
        BY <2>1, <1>1 DEF OutputType
    <2>4. QED
        BY <2>2, <2>3
<1>5. CASE ReaderRaises(s)
    <2>1. /\ rd[s] = "reading" /\ rd' = [rd EXCEPT ![s] = "raised"]
          /\ UNCHANGED <<count, reported, held, limited>> /\ SilentRing
        BY <1>5 DEF ReaderRaises, SilentRing
    <2>2. ReaderEffect(s)
        BY <2>1, <1>1 DEF ReaderEffect, Emits, Over
    <2>3. OutputType'
        BY <2>1, <1>1 DEF OutputType
    <2>4. QED
        BY <2>2, <2>3
<1>6. QED
    BY <1>2, <1>3, <1>4, <1>5

\* A reader's step keeps the mode, the limit and the ring.
LEMMA ReaderKeeps ==
    ASSUME ByteInv, OutputInv, NEW s \in Streams, ReaderEffect(s)
    PROVE  ControlType' /\ OneMode' /\ EventsCounted' /\ Ring' /\ Follows'
<1>1. Ring' /\ Follows'
    BY RingStep DEF OutputInv, ReaderEffect
<1>2. ControlType'
    BY DEF OutputInv, ControlType, ReaderEffect, ctlVars
<1>3. PICK p \in {"reading", "emitted", "limited", "reporting", "flushed", "eof", "raised"} :
          /\ rd' = [rd EXCEPT ![s] = p]
          /\ \/ /\ count' = count /\ rd[s] \notin {"emitted", "flushed"}
                /\ p \in {"emitted", "flushed"} => rd[s] = "reading" /\ count < MaxEvents
             \/ /\ count' = count + 1 /\ rd[s] \in {"emitted", "flushed"}
                /\ p \notin {"emitted", "flushed"}
    BY DEF ReaderEffect
<1>4. /\ rd \in [Streams -> ReaderStates]
      /\ rd[s] \notin Over /\ count \in Nat /\ MaxEvents \in Nat
    BY OutputAssumption DEF ByteInv, ByteType, ReaderEffect, OutputInv, OutputType
<1>5. rd'[s] = p /\ \A r \in Streams : r # s => rd'[r] = rd[r]
    BY <1>3, <1>4
<1>6. OneMode'
    BY <1>4, <1>5 DEF OutputInv, OneMode, Streams
<1>7. EventsCounted'
    <2>1. count + Uncounted("stdout") + Uncounted("stderr") + Uncounted("pty") <= MaxEvents + 1
        BY DEF OutputInv, EventsCounted
    <2>2. s \in {"stdout", "stderr", "pty"}
        BY DEF Streams
    <2>3. \/ rd["pty"] \in Over
          \/ rd["stdout"] \in Over /\ rd["stderr"] \in Over
        BY DEF OutputInv, OneMode
    <2>4. QED
        BY <2>1, <2>2, <2>3, <1>3, <1>4, <1>5 DEF EventsCounted, Uncounted, Streams, Over
<1>8. QED
    BY <1>1, <1>2, <1>6, <1>7

\* A step of start or the monitor: what it emits, where it leaves the session and the
\* cancellation's steps.
MonitorEffect ==
    /\ Emits
    /\ UNCHANGED <<offset, held, reported, count, limited, exited, ctl, calls, clientVars>>
    /\ failure' \in {failure, TRUE}
    /\ state' \in {state, "running", "draining", "completed", "failed"}
    /\ steps' \in {steps, steps \cup {"kill_tree"}}
    /\ \/ rd' = rd
       \/ rd' = [s \in Streams |-> IF rd[s] \in {"eof", "raised"} THEN rd[s] ELSE "cancelled"]

LEMMA KillStepEmits ==
    ASSUME KillStep
    PROVE  Emits /\ steps' \in {steps, steps \cup {"kill_tree"}}
<1>1. "lifecycle" \in Kinds /\ 1 \in Nat
    BY DEF Kinds
<1>2. \/ SilentRing /\ steps' = steps
      \/ emit("lifecycle", 1) /\ steps' = steps \cup {"kill_tree"}
    BY DEF KillStep, ReportStep
<1>3. QED
    BY <1>1, <1>2, Zenon DEF Emits

LEMMA MonitorEffects ==
    ASSUME MonitorStep \/ MonitorIncident
    PROVE  MonitorEffect
<1>0. "lifecycle" \in Kinds /\ "session.completed" \in Kinds /\ 1 \in Nat
    BY DEF Kinds
<1>1. CASE Timeout \/ KillOverdue
    <2>1. Emits /\ steps' \in {steps, steps \cup {"kill_tree"}}
        BY <1>1, KillStepEmits DEF Timeout, KillOverdue
    <2>2. UNCHANGED <<readVars, failure, state, exited, ctl, calls, clientVars>>
        BY <1>1 DEF Timeout, KillOverdue
    <2>3. QED
        BY <2>1, <2>2 DEF MonitorEffect, readVars
<1>2. CASE WaitFails \/ KillFails \/ DrainFails \/ GiveUp \/ StartReturns \/ DisposeBackend
    <2>1. SilentRing /\ UNCHANGED <<state, ctlVars, clientVars>>
        BY <1>2 DEF WaitFails, KillFails, DrainFails, GiveUp, StartReturns, DisposeBackend
    <2>2. /\ UNCHANGED <<offset, held, reported, count, limited>> /\ failure' \in {failure, TRUE}
          /\ \/ rd' = rd
             \/ rd' = [s \in Streams |-> IF rd[s] \in {"eof", "raised"} THEN rd[s] ELSE "cancelled"]
        BY <1>2 DEF WaitFails, KillFails, DrainFails, GiveUp, StartReturns, DisposeBackend, readVars
    <2>3. QED
        BY <2>1, <2>2 DEF MonitorEffect, Emits, ctlVars
<1>3. CASE \/ ProcessStarted \/ Degraded \/ ProcessExited \/ Drained \/ DrainTimeout
           \/ ResourceHit \/ Complete \/ Fail \/ Report
    <2>1. emit("lifecycle", 1) \/ emit("session.completed", 1)
        BY <1>3 DEF ProcessStarted, Degraded, ProcessExited, Drained, DrainTimeout, ResourceHit,
             Complete, Fail, Report
    <2>2. Emits
        BY <2>1, <1>0, Zenon DEF Emits
    <2>3. /\ UNCHANGED <<readVars, ctlVars, clientVars>> /\ failure' \in {failure, TRUE}
          /\ state' \in {state, "running", "draining", "completed", "failed"}
        BY <1>3 DEF ProcessStarted, Degraded, ProcessExited, Drained, DrainTimeout, ResourceHit,
             Complete, Fail, Report
    <2>4. QED
        BY <2>2, <2>3 DEF MonitorEffect, readVars, ctlVars
<1>4. QED
    BY <1>1, <1>2, <1>3 DEF MonitorStep, MonitorIncident

\* A step of the monitor emits one event at most and only ends readers.
LEMMA MonitorKeeps ==
    ASSUME OutputInv, MonitorEffect
    PROVE  OutputInv'
<1>1. Ring' /\ Follows'
    BY RingStep DEF OutputInv, MonitorEffect
<1>2. OutputType'
    <2>1. failure' \in BOOLEAN
        BY Zenon DEF OutputInv, OutputType, MonitorEffect
    <2>2. QED
        BY <2>1 DEF OutputInv, OutputType, MonitorEffect
<1>3. ControlType'
    BY DEF OutputInv, ControlType, MonitorEffect
<1>4. \A s \in Streams : rd'[s] = rd[s] \/ rd'[s] \in Over
    BY DEF MonitorEffect, Over
<1>5. OneMode'
    BY <1>4 DEF OutputInv, OneMode, Streams
<1>6. EventsCounted'
    <2>1. count \in Nat /\ MaxEvents \in Nat /\ count' = count
        BY OutputAssumption DEF OutputInv, OutputType, MonitorEffect
    <2>2. QED
        BY <2>1, <1>4 DEF OutputInv, EventsCounted, Uncounted, Streams, Over
<1>7. QED
    BY <1>1, <1>2, <1>3, <1>5, <1>6 DEF OutputInv

\* A control call emits one event at most and moves the cancellation on.
LEMMA ControlKeeps ==
    ASSUME OutputInv, RootExits \/ ControlStep
    PROVE  OutputInv'
<1>0. "lifecycle" \in Kinds /\ 1 \in Nat
    BY DEF Kinds
<1>1. UNCHANGED <<readVars, monVars, clientVars>>
    BY ControlMoves
<1>2. Emits /\ ControlType'
    <2>1. CASE RootExits \/ Cancel
        <3>1. SilentRing /\ state' = state
            BY <2>1, <1>1 DEF RootExits, Cancel, SilentRing, monVars
        <3>2. exited' \in BOOLEAN
            BY <2>1, Zenon DEF RootExits, Cancel, OutputInv, ControlType
        <3>3. ctl' \in {ctl, "begin"} /\ steps' = steps
            BY <2>1 DEF RootExits, Cancel
        <3>4. calls' \in 0 .. MaxCalls
            BY <2>1, OutputAssumption DEF RootExits, Cancel, OutputInv, ControlType
        <3>5. ControlType'
            BY <3>1, <3>2, <3>3, <3>4 DEF OutputInv, ControlType
        <3>6. QED
            BY <3>1, <3>5 DEF Emits
    <2>2. CASE Signal \/ CancelCompleted
        <3>1. Emits
            BY <2>2, <1>0, Zenon DEF Signal, CancelCompleted, Emits
        <3>2. ctl' \in {ctl, "idle"} /\ UNCHANGED <<exited, steps, state>>
            BY <2>2, <1>1 DEF Signal, CancelCompleted, monVars
        <3>3. calls' \in 0 .. MaxCalls
            BY <2>2, OutputAssumption DEF Signal, CancelCompleted, OutputInv, ControlType
        <3>4. ControlType'
            BY <3>2, <3>3 DEF OutputInv, ControlType
        <3>5. QED
            BY <3>1, <3>4
    <2>3. CASE Escalate
        <3>1. /\ ctl' \in {"interrupt", "terminate", "kill_tree"} /\ steps' = steps \cup {ctl'}
              /\ emit("lifecycle", 1) /\ UNCHANGED <<exited, calls>>
            BY <2>3 DEF Escalate, ReportStep
        <3>2. Emits
            BY <3>1, <1>0, Zenon DEF Emits
        <3>3. ControlType'
            BY <3>1, <1>1 DEF OutputInv, ControlType, monVars
        <3>4. QED
            BY <3>2, <3>3
    <2>4. CASE CancelFails
        <3>1. Emits /\ steps' \in {steps, steps \cup {"kill_tree"}}
            BY <2>4, KillStepEmits DEF CancelFails
        <3>2. ControlType'
            BY <2>4, <3>1, <1>1 DEF CancelFails, OutputInv, ControlType, monVars
        <3>3. QED
            BY <3>1, <3>2
    <2>5. QED
        BY <2>1, <2>2, <2>3, <2>4 DEF ControlStep
<1>3. Ring' /\ Follows'
    BY <1>1, <1>2, RingStep DEF OutputInv
<1>4. OutputType' /\ OneMode'
    BY <1>1 DEF readVars, monVars, OutputInv, OutputType, OneMode
<1>5. EventsCounted'
    BY <1>1 DEF readVars, OutputInv, EventsCounted, Uncounted
<1>6. QED
    BY <1>2, <1>3, <1>4, <1>5 DEF OutputInv

\* A bounded set of numbers has a largest one.
LEMMA Largest ==
    ASSUME NEW n \in Nat, NEW F \in SUBSET (0 .. n), F # {}
    PROVE  \E k \in F : \A j \in F : j <= k
<1> DEFINE T == {n - k : k \in F}
<1>1. T \subseteq Nat /\ T # {}
    <2>1. \A k \in F : n - k \in Nat
        OBVIOUS
    <2>2. T \subseteq Nat
        BY <2>1
    <2>3. PICK k \in F : TRUE
        OBVIOUS
    <2>4. n - k \in T
        OBVIOUS
    <2>5. QED
        BY <2>2, <2>4
<1>2. \E x \in T : \A y \in T : ~(<<y, x>> \in OpToRel(<, Nat))
    <2> HIDE DEF T
    <2>1. QED
        BY <1>1, NatLessThanWellFounded, WFMin
<1>3. PICK x \in T : \A y \in T : ~(<<y, x>> \in OpToRel(<, Nat))
    BY <1>2
<1>4. \A y \in T : ~(y < x)
    BY <1>1, <1>3 DEF OpToRel
<1>5. PICK k \in F : x = n - k
    OBVIOUS
<1>6. \A j \in F : n - j \in T
    OBVIOUS
<1>7. \A j \in F : ~(n - j < n - k)
    BY <1>4, <1>5, <1>6
<1>8. QED
    BY <1>5, <1>7

\* event_page returns events of the ring: the cursor behind them is one of the ring's.
LEMMA PageInRing ==
    ASSUME Ring, Page # <<>>
    PROVE  Last(Page).seq \in Nat /\ Last(Page).seq < next
<1> DEFINE left == Len(events) - Skipped
           First(k) == SubSeq(events, Skipped + 1, Skipped + k)
           Fits(k) == k <= PageLimit /\ (k <= 1 \/ SizeOf(First(k)) <= PageBytes)
           Longest(k) == (\A j \in 0 .. k : Fits(j)) /\ (k = left \/ ~Fits(k + 1))
           len == CHOOSE k \in 0 .. left : Longest(k)
<1>1. Page = First(len)
    BY DEF Page
<1>2. events \in Seq(LifecycleRecord) /\ Len(events) \in Nat /\ next \in Nat /\ Len(events) <= next
    BY DEF Ring
<1>3. Skipped \in Nat /\ Skipped <= Len(events)
    <2>0. /\ 1 \in Int /\ Len(events) \in Int
          /\ (IF 1 > Len(events) THEN 0 ELSE Len(events) - 1 + 1) = Len(events)
        BY <1>2
    <2>1. IsFiniteSet(1 .. Len(events)) /\ Cardinality(1 .. Len(events)) = Len(events)
        <3>1. IsFiniteSet(1 .. Len(events))
            BY <2>0, FS_Interval
        <3>2. Cardinality(1 .. Len(events)) = IF 1 > Len(events) THEN 0 ELSE Len(events) - 1 + 1
            BY <2>0, FS_Interval
        <3>3. QED
            BY <2>0, <3>1, <3>2
    <2>2. {i \in 1 .. Len(events) : events[i].seq < cursor} \in SUBSET (1 .. Len(events))
        OBVIOUS
    <2>3. QED
        BY <2>1, <2>2, FS_Subset, FS_CardinalityType DEF Skipped
<1>4. left \in Nat
    BY <1>2, <1>3
<1>5. \E k \in 0 .. left : Longest(k)
    <2> DEFINE F == {k \in 0 .. left : \A j \in 0 .. k : Fits(j)}
    <2>1. Fits(0)
        BY OutputAssumption
    <2> HIDE DEF Fits, left
    <2>2. 0 \in F
        BY <2>1, <1>4
    <2>3. F \in SUBSET (0 .. left) /\ F # {}
        BY <2>2
    <2>4. PICK k \in F : \A j \in F : j <= k
        BY <2>3, <1>4, Largest
    <2>5. k # left => ~Fits(k + 1)
        <3>1. SUFFICES ASSUME k # left, Fits(k + 1) PROVE FALSE
            OBVIOUS
        <3>2. k \in 0 .. left /\ \A j \in 0 .. k : Fits(j)
            OBVIOUS
        <3>3. k + 1 \in 0 .. left /\ \A j \in 0 .. k + 1 : j \in 0 .. k \/ j = k + 1
            BY <3>1, <3>2, <1>4
        <3>4. k + 1 \in F
            BY <3>1, <3>2, <3>3
        <3>5. QED
            BY <2>4, <3>2, <3>4
    <2>6. QED
        BY <2>4, <2>5
<1>6. len \in 0 .. left
    <2> HIDE DEF Longest
    <2>1. QED
        BY <1>5
<1> HIDE DEF len, Fits, Longest
<1>7. len \in Nat /\ Skipped + len <= Len(events)
    BY <1>2, <1>3, <1>4, <1>6
<1> HIDE DEF left
<1>8. len # 0
    <2>1. SUFFICES ASSUME len = 0 PROVE FALSE
        OBVIOUS
    <2>2. SubSeq(events, Skipped + 1, Skipped) = <<>>
        BY <1>2, <1>3
    <2>3. QED
        BY <2>1, <2>2, <1>1, <1>3
<1>9. Len(Page) = len /\ Page[len] = events[Skipped + len]
    BY <1>1, <1>2, <1>3, <1>7, <1>8
<1>10. events[Skipped + len].seq = next - Len(events) + (Skipped + len) - 1
    BY <1>2, <1>3, <1>7, <1>8 DEF Ring
<1>11. Last(Page) = events[Skipped + len]
    BY <1>9 DEF Last
<1>12. QED
    BY <1>2, <1>3, <1>7, <1>8, <1>10, <1>11

\* The oldest event of the ring is one of the numbers given out.
LEMMA FirstInRing ==
    ASSUME Ring
    PROVE  first_event_seq \in 0 .. next
<1>1. /\ events \in Seq(LifecycleRecord) /\ Len(events) \in Nat /\ next \in Nat
      /\ Len(events) <= next
    BY DEF Ring
<1>2. CASE events = <<>>
    BY <1>1, <1>2 DEF first_event_seq
<1>3. CASE events # <<>>
    <2>1. Len(events) > 0 /\ Head(events) = events[1]
        BY <1>1, <1>3
    <2>2. events[1].seq = next - Len(events) + 1 - 1
        BY <1>1, <2>1 DEF Ring
    <2>3. QED
        BY <1>1, <1>3, <2>1, <2>2 DEF first_event_seq
<1>4. QED
    BY <1>2, <1>3

\* A step of the client moves the cursor within the ring.
LEMMA ClientKeeps ==
    ASSUME OutputInv, ClientStep
    PROVE  OutputInv'
<1>1. UNCHANGED <<readVars, ringVars, monVars, ctlVars>>
    BY DEF ClientStep, EventPage, EventPageWoken, Resynchronize, TakePage
<1>2. OutputType' /\ ControlType' /\ OneMode' /\ EventsCounted'
    <2>1. /\ UNCHANGED <<offset, held, reported, count, limited, rd, failure, state>>
          /\ UNCHANGED <<exited, steps, ctl, calls>>
        BY <1>1 DEF readVars, monVars, ctlVars
    <2>2. OutputType'
        BY <2>1 DEF OutputInv, OutputType
    <2>3. OneMode' /\ ControlType'
        BY <2>1 DEF OutputInv, OneMode, ControlType
    <2>4. EventsCounted'
        BY <2>1 DEF OutputInv, EventsCounted, Uncounted
    <2>5. QED
        BY <2>2, <2>3, <2>4
<1>3. Ring' /\ next' = next
    BY <1>1 DEF ringVars, OutputInv, Ring
<1>4. next \in Nat /\ cursor \in 0 .. next /\ client \in {"idle", "waiting", "done", "expired"}
    BY DEF OutputInv, Ring, Follows
<1>5. \/ client' \in {"expired", "idle", "waiting"} /\ cursor' = cursor
      \/ client' = "idle" /\ cursor' = first_event_seq
      \/ client' \in {"idle", "done"} /\ Page # <<>> /\ cursor' = Last(Page).seq + 1
    BY DEF ClientStep, EventPage, EventPageWoken, Resynchronize, TakePage
<1>6. Follows'
    BY <1>3, <1>4, <1>5, PageInRing, FirstInRing DEF OutputInv, Follows
<1>7. QED
    BY <1>2, <1>3, <1>6 DEF OutputInv

\* The event limit, the cancellation's bookkeeping and the ring in every reachable
\* state: the ring is the latest events, consecutive, as many as fit, and a client's
\* cursor is never ahead of it.
THEOREM OutputInvariant == Spec => [](ByteInv /\ OutputInv)
<1>1. Init => OutputInv
    <2>1. SUFFICES ASSUME Init PROVE OutputInv
        OBVIOUS
    <2>2. /\ offset = [s \in Streams |-> 0] /\ held = [s \in Streams |-> FALSE]
          /\ reported = {} /\ count = 0 /\ client = "idle" /\ cursor = 0
          /\ events = <<[seq |-> 0, kind |-> "lifecycle", size |-> 1]>> /\ next = 1
          /\ limited = FALSE /\ failure = FALSE
          /\ state = "accepted" /\ exited = FALSE /\ steps = {} /\ ctl = "idle" /\ calls = 0
          /\ \/ rd["pty"] = "eof" /\ rd["stdout"] = "reading" /\ rd["stderr"] = "reading"
             \/ rd["pty"] = "reading" /\ rd["stdout"] = "eof" /\ rd["stderr"] = "eof"
        BY <2>1 DEF Init, OutputInit, Streams
    <2>3. /\ MaxEvents \in Nat /\ MaxRetained \in Nat /\ MaxRetained >= 1
          /\ MaxWritten \in Nat /\ MaxCalls \in Nat
        BY OutputAssumption
    <2>4. OutputType
        <3>1. limited \in BOOLEAN /\ failure \in BOOLEAN
            BY <2>2, Zenon
        <3>2. held \in [Streams -> BOOLEAN] /\ offset \in [Streams -> 0 .. MaxWritten]
            BY <2>2, <2>3
        <3>3. QED
            BY <2>2, <3>1, <3>2 DEF OutputType
    <2>5. ControlType
        <3>1. exited \in BOOLEAN
            BY <2>2, Zenon
        <3>2. QED
            BY <2>2, <2>3, <3>1 DEF ControlType
    <2>6. OneMode /\ EventsCounted
        BY <2>2, <2>3 DEF OneMode, EventsCounted, Uncounted, Over
    <2>7. Ring
        <3> DEFINE accepted == [seq |-> 0, kind |-> "lifecycle", size |-> 1]
        <3>1. accepted \in LifecycleRecord /\ accepted.seq = 0
            BY DEF LifecycleRecord, Kinds
        <3> HIDE DEF accepted
        <3>2. events = <<accepted>>
            BY <2>2 DEF accepted
        <3>3. Len(events) = 1 /\ events[1] = accepted /\ events \in Seq(LifecycleRecord)
            BY <3>1, <3>2
        <3>4. \A i \in 1 .. Len(events) : events[i].seq = next - Len(events) + i - 1
            BY <2>2, <3>1, <3>3
        <3>5. QED
            BY <2>2, <2>3, <3>3, <3>4 DEF Ring
    <2>8. Follows
        BY <2>2 DEF Follows
    <2>9. QED
        BY <2>4, <2>5, <2>6, <2>7, <2>8 DEF OutputInv
<1>2. ByteInv /\ OutputInv /\ [Next]_vars => OutputInv'
    <2>1. SUFFICES ASSUME ByteInv, OutputInv, [Next]_vars PROVE OutputInv'
        OBVIOUS
    <2>2. CASE UNCHANGED vars
        <3>1. /\ UNCHANGED <<offset, held, reported, count, limited, rd, failure, state>>
              /\ UNCHANGED <<exited, steps, ctl, calls>>
              /\ UNCHANGED <<events, next, client, cursor>>
            BY <2>2 DEF vars, readVars, ringVars, monVars, ctlVars, clientVars
        <3>2. OutputType'
            BY <2>1, <3>1 DEF OutputInv, OutputType
        <3>3. ControlType' /\ OneMode'
            BY <2>1, <3>1 DEF OutputInv, OneMode, ControlType
        <3>4. EventsCounted'
            BY <2>1, <3>1 DEF OutputInv, EventsCounted, Uncounted
        <3>5. Ring' /\ Follows'
            BY <2>1, <3>1 DEF OutputInv, Ring, Follows
        <3>6. QED
            BY <3>2, <3>3, <3>4, <3>5 DEF OutputInv
    <2>3. CASE MonitorStep \/ MonitorIncident
        BY <2>1, <2>3, MonitorEffects, MonitorKeeps
    <2>4. CASE RootExits \/ ControlStep
        BY <2>1, <2>4, ControlKeeps
    <2>5. CASE ClientStep
        BY <2>1, <2>5, ClientKeeps
    <2>6. CASE \E s \in Streams : ReaderStep(s)
        <3>1. PICK s \in Streams : ReaderStep(s)
            BY <2>6
        <3>2. ReaderEffect(s) /\ OutputType'
            BY <2>1, <3>1, AppendEffect, ResumeEffect DEF ReaderStep, OutputInv
        <3>3. QED
            BY <2>1, <3>2, ReaderKeeps DEF OutputInv
    <2>7. QED
        BY <2>1, <2>2, <2>3, <2>4, <2>5, <2>6 DEF Next
<1>3. QED
    BY <1>1, <1>2, ByteInvariant, PTL DEF Spec

\* Every variable keeps its shape, the ring is consecutive, and the limit on output
\* events is exceeded by one at most, for all limits.
THEOREM OutputTypeCorrect == Spec => []TypeOK
<1>1. ByteInv /\ OutputInv => TypeOK
    <2>1. SUFFICES ASSUME ByteInv, OutputInv PROVE TypeOK
        OBVIOUS
    <2> DEFINE U == {s \in Streams : rd[s] \in {"emitted", "flushed"}}
    <2>2. Cardinality(U) <= Uncounted("stdout") + Uncounted("stderr") + Uncounted("pty")
          /\ Cardinality(U) \in Nat
        <3>1. /\ IsFiniteSet({}) /\ Cardinality({}) = 0
            BY FS_EmptySet
        <3> DEFINE U1 == {s \in {"stdout"} : rd[s] \in {"emitted", "flushed"}}
                   U2 == {s \in {"stdout", "stderr"} : rd[s] \in {"emitted", "flushed"}}
        <3>2. IsFiniteSet(U1) /\ Cardinality(U1) = Uncounted("stdout")
            <4>1. /\ rd["stdout"] \in {"emitted", "flushed"} => U1 = {"stdout"}
                  /\ rd["stdout"] \notin {"emitted", "flushed"} => U1 = {}
                OBVIOUS
            <4>2. IsFiniteSet({"stdout"}) /\ Cardinality({"stdout"}) = 1
                BY FS_Singleton
            <4> HIDE DEF U1
            <4>3. CASE rd["stdout"] \in {"emitted", "flushed"}
                BY <4>1, <4>2, <4>3 DEF Uncounted
            <4>4. CASE rd["stdout"] \notin {"emitted", "flushed"}
                BY <4>1, <3>1, <4>4 DEF Uncounted
            <4>5. QED
                BY <4>3, <4>4
        <3>3. IsFiniteSet(U2) /\ Cardinality(U2) = Uncounted("stdout") + Uncounted("stderr")
            <4>1. U2 = IF rd["stderr"] \in {"emitted", "flushed"} THEN U1 \cup {"stderr"} ELSE U1
                OBVIOUS
            <4>2. "stderr" \notin U1
                OBVIOUS
            <4> HIDE DEF U1, U2
            <4>3. QED
                BY <4>1, <4>2, <3>2, FS_AddElement DEF Uncounted
        <3>4. /\ IsFiniteSet(U)
              /\ Cardinality(U) = Uncounted("stdout") + Uncounted("stderr") + Uncounted("pty")
            <4>1. U = IF rd["pty"] \in {"emitted", "flushed"} THEN U2 \cup {"pty"} ELSE U2
                BY DEF Streams
            <4>2. "pty" \notin U2
                OBVIOUS
            <4> HIDE DEF U, U2
            <4>3. QED
                BY <4>1, <4>2, <3>3, FS_AddElement DEF Uncounted
        <3>5. QED
            BY <3>4, FS_CardinalityType DEF Uncounted
    <2>3. count + Cardinality(U) <= MaxEvents + 1
        <3>1. count \in Nat /\ MaxEvents \in Nat
            BY <2>1, OutputAssumption DEF OutputInv, OutputType
        <3> HIDE DEF U
        <3>2. QED
            BY <2>1, <2>2, <3>1 DEF OutputInv, EventsCounted, Uncounted
    <2>4. QED
        BY <2>1, <2>3 DEF ByteInv, ByteType, ReaderStates, OutputInv, OutputType,
             ControlType, Ring, Follows, TypeOK
<1>2. QED
    BY <1>1, OutputInvariant, PTL
=============================================================================
