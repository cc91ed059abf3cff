---------------------------- MODULE StdioProofs ----------------------------
(***************************************************************************)
(* What serve_stdio guarantees when it returns, for any number of requests *)
(* and any pending limit: its answers and its sessions.                    *)
(***************************************************************************)
EXTENDS StdioServer, TLAPS

StdioTypeOK ==
    /\ adapter \in {"jsonrpc", "mcp"}
    /\ pc \in {"reading", "yield", "shutdown", "await", "again", "returned"}
    /\ read \in 0..MaxRequests
    /\ line \in [Requests -> Lines \cup {NoLine}]
    /\ task \in [Requests -> Tasks]
    /\ answer \in [Requests -> Answers]
    /\ greeted \in BOOLEAN /\ initialized \in BOOLEAN
    /\ session \in [Requests -> Sessions]
    /\ cancelled \subseteq Requests /\ disposing \subseteq Requests
    /\ abandoned \subseteq Requests

\* Requests exist as far as the input was read, and a request over the limit is
\* done at once.
RequestsRead ==
    /\ \A r \in Requests : task[r] = "none" <=> r > read
    /\ \A r \in Requests : r > read => answer[r] = "none"
    /\ \A r \in Requests : answer[r] = "limited" => task[r] = "done"
    /\ \A r \in Requests : line[r].kind \in McpOnly => adapter = "mcp"

\* A request that is done was answered, unless nothing was to be answered; one
\* whose task raised was not, and came over MCP.
DoneAnswered ==
    \A r \in Requests :
        /\ line[r].kind \in Silent => answer[r] \in {"none", "limited"}
        /\ task[r] = "done" /\ answer[r] = "none" =>
              line[r].kind \in Silent \/ r \in cancelled
        /\ task[r] = "raised" => adapter = "mcp" /\ answer[r] = "none"
        /\ task[r] \notin {"done", "raised"} => answer[r] = "none"

\* A line of the given kind that became a task.
Passed(i, kind) == line[i].kind = kind /\ answer[i] # "limited"

\* Tasks begin in the order of their lines, so the handshake is complete when a
\* request behind it begins.
HandshakeInOrder ==
    /\ \A i \in 1..read : Passed(i, "initialize") /\ task[i] # "created" => greeted
    /\ \A j \in 1..read :
          /\ Passed(j, "initialized") /\ task[j] # "created"
          /\ \E i \in 1..(j - 1) : Passed(i, "initialize")
          => initialized
    /\ \A r \in Requests : answer[r] = "refused" => ~HandshakeBefore(r)

\* After the second snapshot no task runs, and what the manager still holds is
\* being disposed or was given up.
SnapshotCovers ==
    /\ pc \in {"again", "returned"} => Pending = {} /\ Held \subseteq disposing \cup abandoned
    /\ pc = "returned" => disposing = {}
    /\ \A s \in Requests : session[s] = "lost" => s \in abandoned

StdioInv ==
    /\ StdioTypeOK
    /\ RequestsRead
    /\ DoneAnswered
    /\ HandshakeInOrder
    /\ SnapshotCovers

-----------------------------------------------------------------------------
(* What one step does.                                                       *)

\* ReadLine.
Reads(r, kind, target) ==
    /\ pc = "reading" /\ read < MaxRequests /\ r = read + 1 /\ read' = r
    /\ kind \in McpOnly => adapter = "mcp"
    /\ line' = [line EXCEPT ![r] = [kind |-> kind, target |-> target]]
    /\ \/ /\ answer' = [answer EXCEPT ![r] = "limited"]
          /\ task' = [task EXCEPT ![r] = "done"]
       \/ /\ task' = [task EXCEPT ![r] = "created"]
          /\ answer' = answer
    /\ UNCHANGED <<adapter, pc, greeted, initialized, session, cancelled, disposing, abandoned>>

\* A task goes on without an answer, or ends with none.
GoesOn(r, to) ==
    /\ task' = [task EXCEPT ![r] = to] /\ answer' = answer
    /\ to = "done" => line[r].kind \in Silent \/ r \in cancelled
    /\ to = "raised" => adapter = "mcp"

\* A task ends with a response.
Responds(r, response) ==
    /\ task' = [task EXCEPT ![r] = "done"]
    /\ answer' = [answer EXCEPT ![r] = response]
    /\ line[r].kind \notin Silent
    /\ response = "refused" => Refused(r) /\ MayBegin(r)

\* The first step of a task is the one that looks at the handshake.
Greets(r) ==
    IF task[r] = "created"
    THEN /\ MayBegin(r)
         /\ greeted' = (greeted \/ (adapter = "mcp" /\ line[r].kind = "initialize"))
         /\ initialized' = (initialized \/ (line[r].kind = "initialized" /\ greeted))
    ELSE UNCHANGED <<greeted, initialized>>

TaskEffect(r) ==
    /\ task[r] \notin {"none", "done", "raised"}
    /\ UNCHANGED <<adapter, pc, read, line, cancelled, disposing>>
    /\ \/ \E to \in Tasks \ {"none", "created"} : GoesOn(r, to)
       \/ \E response \in {"result", "error", "refused"} : Responds(r, response)
    /\ Greets(r)
    /\ session' \in [Requests -> Sessions]
    /\ abandoned \subseteq abandoned' /\ abandoned' \subseteq Requests
    /\ \A s \in Requests : session'[s] = "lost" => session[s] = "lost" \/ s \in abandoned'

\* A step of the server or of a process: no request is affected.
Aside ==
    /\ UNCHANGED <<adapter, read, line, task, answer, greeted, initialized>>
    /\ \/ UNCHANGED cancelled \/ (cancelled = {} /\ cancelled' = Pending)

\* The end of a task.
LEMMA FinishEffect ==
    ASSUME NEW r \in Requests, NEW response \in {"result", "error", "refused"},
           Finish(r, response),
           response = "refused" => Refused(r) /\ MayBegin(r)
    PROVE  \/ \E to \in Tasks \ {"none", "created"} : GoesOn(r, to)
           \/ \E resp \in {"result", "error", "refused"} : Responds(r, resp)
<1>1. CASE line[r].kind \in Silent \/ r \in cancelled
    <2>1. GoesOn(r, "done")
        BY <1>1 DEF Finish, GoesOn
    <2>2. QED
        BY <2>1 DEF Tasks
<1>2. CASE ~(line[r].kind \in Silent \/ r \in cancelled)
    BY <1>2 DEF Finish, Responds
<1>3. QED
    BY <1>1, <1>2

\* A task that goes on to wait, write or dispose.
LEMMA GoesEffect ==
    ASSUME NEW r \in Requests, NEW to \in {"starting", "waiting", "writing", "disposing"},
           Goes(r, to)
    PROVE  \E t \in Tasks \ {"none", "created"} : GoesOn(r, t)
<1>1. GoesOn(r, to)
    BY DEF Goes, GoesOn
<1>2. QED
    BY <1>1 DEF Tasks

\* An exception that dispatch answers or lets out.
LEMMA RaisesEffect ==
    ASSUME StdioTypeOK, NEW r \in Requests, Raises(r)
    PROVE  \/ \E to \in Tasks \ {"none", "created"} : GoesOn(r, to)
           \/ \E resp \in {"result", "error", "refused"} : Responds(r, resp)
<1>1. CASE adapter = "jsonrpc"
    BY <1>1, FinishEffect DEF Raises
<1>2. CASE adapter = "mcp"
    <2>1. GoesOn(r, "raised")
        BY <1>2 DEF Raises, Goes, GoesOn
    <2>2. QED
        BY <2>1 DEF Tasks
<1>3. QED
    BY <1>1, <1>2 DEF StdioTypeOK

\* The steps of a task, and of one whose start is lost.
LEMMA TaskShape ==
    ASSUME StdioTypeOK, NEW r \in Requests, TaskStep(r) \/ StartLost(r)
    PROVE  TaskEffect(r)
<1> DEFINE Moves ==
        \/ \E to \in Tasks \ {"none", "created"} : GoesOn(r, to)
        \/ \E response \in {"result", "error", "refused"} : Responds(r, response)
<1>1. session \in [Requests -> Sessions] /\ abandoned \subseteq Requests
    BY DEF StdioTypeOK
<1>2. CASE Begin(r)
    <2>1. /\ task[r] = "created" /\ MayBegin(r)
          /\ UNCHANGED <<adapter, pc, read, line, session, cancelled, disposing, abandoned>>
        BY <1>2 DEF Begin, MayBegin
    <2>2. Greets(r)
        BY <1>2, <2>1 DEF Begin, Greets
    <2>3. CASE Refused(r) /\ Finish(r, "refused")
        <3>1. Moves
            BY <2>1, <2>3, FinishEffect
        <3>2. QED
            BY <1>1, <2>1, <2>2, <3>1 DEF TaskEffect
    <2>4. CASE Finish(r, "error") \/ Finish(r, "result")
        <3>1. Moves
            BY <2>4, FinishEffect
        <3>2. QED
            BY <1>1, <2>1, <2>2, <3>1 DEF TaskEffect
    <2>5. CASE \/ Goes(r, "starting") \/ Goes(r, "waiting") \/ Goes(r, "disposing")
               \/ Goes(r, "writing")
        <3>1. Moves
            BY <2>5, GoesEffect
        <3>2. QED
            BY <1>1, <2>1, <2>2, <3>1 DEF TaskEffect
    <2>6. QED
        BY <1>2, <2>3, <2>4, <2>5 DEF Begin
<1>3. CASE Started(r) \/ StartFails(r)
    <2>1. Finish(r, "result") \/ Finish(r, "error") \/ Goes(r, "waiting") \/ Raises(r)
        BY <1>3 DEF Started, StartFails
    <2>2. Moves
        BY <2>1, FinishEffect, GoesEffect, RaisesEffect
    <2>3. /\ task[r] = "starting"
          /\ UNCHANGED <<adapter, pc, read, line, greeted, initialized, cancelled, disposing,
                         abandoned>>
          /\ session' = session \/ session' = [session EXCEPT ![r] = "active"]
        BY <1>3 DEF Started, StartFails
    <2>4. QED
        BY <1>1, <2>2, <2>3 DEF TaskEffect, Greets, Sessions
<1>4. CASE Waited(r)
    <2>1. Finish(r, "result") \/ Goes(r, "disposing")
        BY <1>4 DEF Waited
    <2>2. Moves
        BY <2>1, FinishEffect, GoesEffect
    <2>3. /\ task[r] = "waiting"
          /\ UNCHANGED <<adapter, pc, read, line, greeted, initialized, cancelled, disposing,
                         abandoned, session>>
        BY <1>4 DEF Waited
    <2>4. QED
        BY <1>1, <2>2, <2>3 DEF TaskEffect, Greets
<1>5. CASE Wrote(r)
    <2>1. /\ task[r] = "writing"
          /\ UNCHANGED <<adapter, pc, read, line, greeted, initialized, cancelled, disposing,
                         abandoned, session>>
        BY <1>5 DEF Wrote
    <2>2. CASE Finish(r, "result") \/ Finish(r, "error")
        <3>1. Moves
            BY <2>2, FinishEffect
        <3>2. QED
            BY <1>1, <2>1, <3>1 DEF TaskEffect, Greets
    <2>3. CASE Raises(r)
        <3>1. Moves
            BY <2>3, RaisesEffect
        <3>2. QED
            BY <1>1, <2>1, <3>1 DEF TaskEffect, Greets
    <2>4. QED
        BY <1>5, <2>2, <2>3 DEF Wrote
<1>6. CASE Disposed(r)
    <2>1. /\ task[r] = "disposing"
          /\ UNCHANGED <<adapter, pc, read, line, greeted, initialized, cancelled, disposing,
                         abandoned>>
          /\ session' = session \/ session' = [session EXCEPT ![About(r)] = "disposed"]
        BY <1>6 DEF Disposed
    <2>2. Moves
        <3>1. Finish(r, "result") \/ Finish(r, "error") \/ Raises(r)
            BY <1>6 DEF Disposed
        <3>2. QED
            BY <3>1, FinishEffect, RaisesEffect
    <2>3. QED
        BY <1>1, <2>1, <2>2 DEF TaskEffect, Greets, Sessions
<1>7. CASE StartLost(r)
    <2>1. /\ task[r] = "starting" /\ r \in cancelled
          /\ UNCHANGED <<adapter, pc, read, line, greeted, initialized, cancelled, disposing>>
          /\ session' = [session EXCEPT ![r] = "lost"]
          /\ abandoned' = abandoned \cup {r}
        BY <1>7 DEF StartLost
    <2>2. GoesOn(r, "done")
        BY <1>7, <2>1 DEF StartLost, Goes, GoesOn
    <2>3. Moves
        BY <2>2 DEF Tasks
    <2>4. QED
        BY <1>1, <2>1, <2>3 DEF TaskEffect, Greets, Sessions
<1>8. QED
    BY <1>2, <1>3, <1>4, <1>5, <1>6, <1>7 DEF TaskStep

\* The steps of the server and of the processes.
ServerSide ==
    \/ EndOfInput \/ ServerStep \/ ShutdownGivesUp
    \/ \E s \in Requests : SessionEnds(s) \/ DisposalRaises(s)

\* They leave the requests alone.
LEMMA AsideShape == ServerSide => Aside
BY DEF ServerSide, Aside, EndOfInput, SessionEnds, DisposalRaises, ShutdownGivesUp, ServerStep, Yielded,
   AwaitPending, CancelPending, ShutdownAgain, Return, ShutdownDisposes

\* The steps of the system by their kind.
LEMMA NextCases ==
    ASSUME StdioTypeOK, Next
    PROVE  \/ \E kind \in Kinds, target \in Requests \cup {0} : Reads(read + 1, kind, target)
           \/ \E r \in Requests : TaskEffect(r)
           \/ ServerSide
<1>1. ASSUME NEW kind \in Kinds, NEW target \in Requests \cup {0}, ReadLine(kind, target)
      PROVE  Reads(read + 1, kind, target)
    BY <1>1 DEF ReadLine, Reads
<1>2. QED
    BY <1>1, TaskShape DEF Next, ServerSide

\* Types and the extent of what was read.
LEMMA RequestsReadNext ==
    ASSUME StdioTypeOK, RequestsRead, Next
    PROVE  StdioTypeOK' /\ RequestsRead'
<1>0. MaxRequests \in Nat
    BY StdioAssumption
<1>1. ASSUME NEW kind \in Kinds, NEW target \in Requests \cup {0}, NEW r,
             Reads(r, kind, target)
      PROVE  StdioTypeOK' /\ RequestsRead'
    <2>1. r \in Requests /\ r = read + 1 /\ read' = r /\ read \in Nat
        BY <1>0, <1>1 DEF Reads, Requests, StdioTypeOK
    <2>2. [kind |-> kind, target |-> target] \in Lines
        BY DEF Lines
    <2>3. /\ line' \in [Requests -> Lines \cup {NoLine}]
          /\ \A q \in Requests : line'[q].kind = IF q = r THEN kind ELSE line[q].kind
        BY <1>1, <2>1, <2>2 DEF Reads, StdioTypeOK
    <2>4. /\ task' \in [Requests -> Tasks] /\ answer' \in [Requests -> Answers]
          /\ \A q \in Requests \ {r} : task'[q] = task[q] /\ answer'[q] = answer[q]
          /\ \/ task'[r] = "done" /\ answer'[r] = "limited"
             \/ task'[r] = "created" /\ answer'[r] = answer[r]
        BY <1>1, <2>1 DEF Reads, StdioTypeOK, Tasks, Answers
    <2>5. StdioTypeOK'
        BY <1>0, <1>1, <2>1, <2>3, <2>4 DEF Reads, StdioTypeOK, Requests
    <2>6. \A q \in Requests : q \in Nat /\ (q > read' <=> q > read /\ q # r)
        BY <1>0, <2>1 DEF Requests
    <2>7. answer[r] = "none"
        BY <2>1 DEF RequestsRead, Requests
    <2>8. RequestsRead'
        BY <1>1, <2>1, <2>3, <2>4, <2>6, <2>7 DEF RequestsRead, Reads
    <2>9. QED
        BY <2>5, <2>8
<1>2. ASSUME NEW r \in Requests, TaskEffect(r)
      PROVE  StdioTypeOK' /\ RequestsRead'
    <2>1. PICK to \in Tasks \ {"none", "created"}, response \in Answers \ {"limited"} :
              /\ task' = [task EXCEPT ![r] = to]
              /\ answer' = answer \/ answer' = [answer EXCEPT ![r] = response]
        BY <1>2 DEF TaskEffect, GoesOn, Responds, Tasks, Answers
    <2>2. /\ task' \in [Requests -> Tasks] /\ answer' \in [Requests -> Answers]
          /\ \A q \in Requests \ {r} : task'[q] = task[q] /\ answer'[q] = answer[q]
          /\ task'[r] = to /\ answer'[r] \in {answer[r], response}
        BY <2>1 DEF StdioTypeOK
    <2>3. greeted' \in BOOLEAN /\ initialized' \in BOOLEAN
        BY <1>2 DEF TaskEffect, Greets, StdioTypeOK
    <2>4. StdioTypeOK'
        BY <1>2, <2>2, <2>3 DEF TaskEffect, StdioTypeOK
    <2>5. /\ task[r] \notin {"none", "done", "raised"}
          /\ UNCHANGED <<adapter, read, line>>
        BY <1>2 DEF TaskEffect
    <2>6. RequestsRead'
        BY <2>1, <2>2, <2>5 DEF RequestsRead
    <2>7. QED
        BY <2>4, <2>6
<1>3. CASE ServerSide
    <2>1. /\ UNCHANGED <<adapter, read, line, task, answer, greeted, initialized>>
          /\ cancelled' \subseteq Requests
        BY <1>3, AsideShape DEF Aside, Pending, StdioTypeOK
    <2>2. /\ pc' \in {"reading", "yield", "shutdown", "await", "again", "returned"}
          /\ disposing' \subseteq Requests /\ abandoned' \subseteq Requests
        BY <1>3 DEF StdioTypeOK, ServerSide, EndOfInput, SessionEnds, DisposalRaises, ShutdownGivesUp, ServerStep,
           Yielded, AwaitPending, CancelPending, ShutdownAgain, Return, ShutdownDisposes, Held
    <2>3. session' \in [Requests -> Sessions]
        <3>1. \/ session' = session
              \/ \E s \in Requests, new \in {"ended", "stuck", "disposed"} :
                    session' = [session EXCEPT ![s] = new]
            BY <1>3 DEF ServerSide, EndOfInput, SessionEnds, DisposalRaises, ShutdownGivesUp, ServerStep,
               Yielded, AwaitPending, CancelPending, ShutdownAgain, Return, ShutdownDisposes
        <3>2. QED
            BY <3>1 DEF StdioTypeOK, Sessions
    <2>4. QED
        BY <2>1, <2>2, <2>3 DEF StdioTypeOK, RequestsRead
<1>4. QED
    BY <1>1, <1>2, <1>3, NextCases

\* What a request that is done was told.
LEMMA DoneAnsweredNext ==
    ASSUME StdioTypeOK, RequestsRead, DoneAnswered, Next
    PROVE  DoneAnswered'
<1>0. MaxRequests \in Nat
    BY StdioAssumption
<1>1. ASSUME NEW kind \in Kinds, NEW target \in Requests \cup {0}, NEW r,
             Reads(r, kind, target)
      PROVE  DoneAnswered'
    <2>1. r \in Requests /\ r > read
        BY <1>0, <1>1 DEF Reads, Requests, StdioTypeOK
    <2>2. /\ \A q \in Requests \ {r} : /\ task'[q] = task[q] /\ answer'[q] = answer[q]
                                       /\ line'[q] = line[q]
          /\ \/ task'[r] = "done" /\ answer'[r] = "limited"
             \/ task'[r] = "created" /\ answer'[r] = "none"
        BY <1>1, <2>1 DEF Reads, StdioTypeOK, RequestsRead
    <2>3. UNCHANGED <<adapter, cancelled>>
        BY <1>1 DEF Reads
    <2>4. QED
        BY <2>2, <2>3 DEF DoneAnswered
<1>2. ASSUME NEW r \in Requests, TaskEffect(r)
      PROVE  DoneAnswered'
    <2>1. UNCHANGED <<adapter, cancelled, line>>
        BY <1>2 DEF TaskEffect
    <2>2. ASSUME NEW to, GoesOn(r, to)
          PROVE  DoneAnswered'
        <3>1. /\ \A q \in Requests : task'[q] = IF q = r THEN to ELSE task[q]
              /\ answer' = answer
              /\ to = "done" => line[r].kind \in Silent \/ r \in cancelled
              /\ to = "raised" => adapter = "mcp"
            BY <2>2 DEF GoesOn, StdioTypeOK
        <3>2. answer[r] = "none"
            BY <1>2 DEF TaskEffect, DoneAnswered
        <3>3. QED
            BY <2>1, <3>1, <3>2 DEF DoneAnswered
    <2>3. ASSUME NEW response \in {"result", "error", "refused"}, Responds(r, response)
          PROVE  DoneAnswered'
        <3>1. /\ \A q \in Requests : /\ task'[q] = IF q = r THEN "done" ELSE task[q]
                                     /\ answer'[q] = IF q = r THEN response ELSE answer[q]
              /\ line[r].kind \notin Silent
            BY <2>3 DEF Responds, StdioTypeOK
        <3>2. QED
            BY <2>1, <3>1 DEF DoneAnswered
    <2>4. QED
        BY <1>2, <2>2, <2>3 DEF TaskEffect
<1>3. CASE ServerSide
    BY <1>3, AsideShape DEF Aside, DoneAnswered
<1>4. QED
    BY <1>1, <1>2, <1>3, NextCases

\* HandshakeBefore in terms of lines that became tasks.
LEMMA HandshakeLines ==
    ASSUME NEW r \in Requests
    PROVE  HandshakeBefore(r) <=>
               \E i, j \in 1..(r - 1) :
                   /\ i < j /\ Passed(i, "initialize") /\ Passed(j, "initialized")
                   /\ task[i] # "none" /\ task[j] # "none"
BY DEF HandshakeBefore, Passed

\* A step that changes neither lines, limits nor what was read keeps whether the
\* handshake stands before a line.
LEMMA HandshakeSame ==
    ASSUME NEW r \in Requests,
           \A i \in 1..(r - 1) : /\ line'[i] = line[i]
                                 /\ answer'[i] = "limited" <=> answer[i] = "limited"
                                 /\ task'[i] = "none" <=> task[i] = "none"
    PROVE  HandshakeBefore(r)' => HandshakeBefore(r)
BY DEF HandshakeBefore

\* The handshake is seen by every request behind it.
LEMMA HandshakeNext ==
    ASSUME StdioTypeOK, RequestsRead, HandshakeInOrder, Next
    PROVE  HandshakeInOrder'
<1>0. /\ MaxRequests \in Nat /\ read \in Nat /\ read <= MaxRequests
      /\ \A r \in Requests : r \in Nat /\ 1..(r - 1) \subseteq Requests
      /\ 1..read \subseteq Requests
    BY StdioAssumption DEF StdioTypeOK, Requests
<1>1. ASSUME NEW kind \in Kinds, NEW target \in Requests \cup {0}, NEW r,
             Reads(r, kind, target)
      PROVE  HandshakeInOrder'
    <2>1. r \in Requests /\ r = read + 1 /\ read' = r
        BY <1>0, <1>1 DEF Reads, Requests
    <2>2. /\ \A q \in Requests \ {r} : /\ task'[q] = task[q] /\ answer'[q] = answer[q]
                                       /\ line'[q] = line[q]
          /\ \/ task'[r] = "done" /\ answer'[r] = "limited"
             \/ task'[r] = "created" /\ answer'[r] = "none"
        <3>1. answer[r] = "none"
            BY <1>0, <2>1 DEF RequestsRead
        <3>2. QED
            BY <1>1, <2>1, <3>1 DEF Reads, StdioTypeOK
    <2>3. UNCHANGED <<greeted, initialized>>
        BY <1>1 DEF Reads
    <2>4. \A k : \A i \in 1..read' : Passed(i, k)' /\ task'[i] # "created" =>
              i \in 1..read /\ Passed(i, k) /\ task[i] # "created"
        <3>1. \A i \in 1..read' : i = r \/ (i \in 1..read /\ i # r /\ i \in Requests)
            BY <1>0, <2>1
        <3>2. QED
            BY <2>2, <3>1 DEF Passed
    <2>5. \A k : \A i \in 1..read : Passed(i, k)' <=> Passed(i, k)
        <3>1. \A i \in 1..read : i # r /\ i \in Requests
            BY <1>0, <2>1
        <3>2. QED
            BY <2>2, <3>1 DEF Passed
    <2>6. \A i \in 1..read' : Passed(i, "initialize")' /\ task'[i] # "created" => greeted'
        BY <2>3, <2>4 DEF HandshakeInOrder
    <2>7. \A j \in 1..read' :
             /\ Passed(j, "initialized")' /\ task'[j] # "created"
             /\ \E i \in 1..(j - 1) : Passed(i, "initialize")'
             => initialized'
        <3> SUFFICES ASSUME NEW j \in 1..read', Passed(j, "initialized")', task'[j] # "created",
                            NEW i \in 1..(j - 1), Passed(i, "initialize")'
                     PROVE  initialized
            BY <2>3
        <3>1. j \in 1..read /\ Passed(j, "initialized") /\ task[j] # "created"
            BY <2>4
        <3>2. i \in 1..read
            BY <1>0, <3>1
        <3>3. Passed(i, "initialize")
            BY <2>5, <3>2
        <3>4. QED
            BY <3>1, <3>3 DEF HandshakeInOrder
    <2>8. ASSUME NEW q \in Requests, answer'[q] = "refused"
          PROVE  ~HandshakeBefore(q)'
        <3>1. q # r /\ answer[q] = "refused"
            BY <2>2, <2>8
        <3>2. q <= read
            BY <1>0, <3>1 DEF RequestsRead
        <3>3. \A i \in 1..(q - 1) : i \in Requests /\ i # r
            BY <1>0, <2>1, <3>2
        <3>4. HandshakeBefore(q)' => HandshakeBefore(q)
            BY <2>2, <3>3, HandshakeSame
        <3>5. QED
            BY <3>1, <3>4 DEF HandshakeInOrder
    <2>9. QED
        BY <2>6, <2>7, <2>8 DEF HandshakeInOrder
<1>2. ASSUME NEW r \in Requests, TaskEffect(r)
      PROVE  HandshakeInOrder'
    <2>1. /\ task[r] \notin {"none", "done", "raised"} /\ UNCHANGED <<adapter, read, line>> /\ Greets(r)
        BY <1>2 DEF TaskEffect
    <2>2. /\ \A q \in Requests \ {r} : task'[q] = task[q] /\ answer'[q] = answer[q]
          /\ task'[r] # "none"
          /\ \/ answer'[r] = answer[r]
             \/ answer'[r] \in {"result", "error"}
             \/ answer'[r] = "refused" /\ Refused(r) /\ MayBegin(r)
        BY <1>2 DEF TaskEffect, GoesOn, Responds, StdioTypeOK
    <2>3. answer[r] # "limited" /\ answer'[r] # "limited"
        BY <2>1, <2>2 DEF RequestsRead
    <2>4. \A i \in Requests : /\ line'[i] = line[i]
                              /\ answer'[i] = "limited" <=> answer[i] = "limited"
                              /\ task'[i] = "none" <=> task[i] = "none"
        BY <2>1, <2>2, <2>3
    <2>5. \A k : \A i \in Requests : Passed(i, k)' <=> Passed(i, k)
        BY <2>4 DEF Passed
    <2>6. (greeted => greeted') /\ (initialized => initialized')
        BY <2>1 DEF Greets, StdioTypeOK
    <2>7. ASSUME NEW i \in 1..read, Passed(i, "initialize"), task'[i] # "created"
          PROVE  greeted'
        <3>1. CASE task[i] # "created"
            BY <2>6, <2>7, <3>1 DEF HandshakeInOrder
        <3>2. CASE task[i] = "created"
            <4>1. i = r /\ line[r].kind = "initialize" /\ task[r] = "created"
                BY <1>0, <2>2, <2>7, <3>2 DEF Passed
            <4>2. adapter = "mcp"
                BY <4>1 DEF RequestsRead, McpOnly
            <4>3. QED
                BY <2>1, <4>1, <4>2 DEF Greets
        <3>3. QED
            BY <3>1, <3>2
    <2>8. ASSUME NEW j \in 1..read, Passed(j, "initialized"), task'[j] # "created",
                 NEW i \in 1..(j - 1), Passed(i, "initialize")
          PROVE  initialized'
        <3>1. CASE task[j] # "created"
            BY <2>6, <2>8, <3>1 DEF HandshakeInOrder
        <3>2. CASE task[j] = "created"
            <4>1. j = r /\ line[r].kind = "initialized" /\ task[r] = "created"
                BY <1>0, <2>2, <2>8, <3>2 DEF Passed
            <4>2. MayBegin(r) /\ i \in Requests /\ i \in 1..read /\ ~(r <= i)
                BY <1>0, <2>1, <4>1 DEF Greets
            <4>3. task[i] # "created"
                BY <4>2 DEF MayBegin
            <4>4. greeted
                BY <2>8, <4>2, <4>3 DEF HandshakeInOrder
            <4>5. QED
                BY <2>1, <4>1, <4>4 DEF Greets
        <3>3. QED
            BY <3>1, <3>2
    <2>9. ASSUME NEW q \in Requests, answer'[q] = "refused"
          PROVE  ~HandshakeBefore(q)'
        <3>1. HandshakeBefore(q)' => HandshakeBefore(q)
            BY <1>0, <2>4, HandshakeSame
        <3>2. CASE answer[q] = "refused"
            BY <3>1, <3>2 DEF HandshakeInOrder
        <3>3. CASE answer[q] # "refused"
            <4>1. q = r /\ Refused(r) /\ MayBegin(r)
                BY <2>2, <2>9, <3>3
            <4>2. ASSUME HandshakeBefore(r)
                  PROVE  FALSE
                <5>1. PICK i \in 1..(r - 1), j \in 1..(r - 1) :
                          /\ i < j /\ Passed(i, "initialize") /\ Passed(j, "initialized")
                          /\ task[i] # "none" /\ task[j] # "none"
                    BY <4>2, HandshakeLines
                <5>2. j \in Requests /\ ~(r <= j) /\ i \in 1..(j - 1)
                    BY <1>0, <5>1
                <5>3. task[j] # "created"
                    BY <4>1, <5>2 DEF MayBegin
                <5>4. j \in 1..read
                    BY <1>0, <5>1, <5>2 DEF RequestsRead
                <5>5. initialized
                    BY <5>1, <5>2, <5>3, <5>4 DEF HandshakeInOrder
                <5>6. QED
                    BY <4>1, <5>5 DEF Refused
            <4>3. QED
                BY <3>1, <4>1, <4>2
        <3>4. QED
            BY <3>2, <3>3
    <2>10. \A i \in 1..read' : Passed(i, "initialize")' /\ task'[i] # "created" => greeted'
        BY <1>0, <2>1, <2>5, <2>7
    <2>11. \A j \in 1..read' :
             /\ Passed(j, "initialized")' /\ task'[j] # "created"
             /\ \E i \in 1..(j - 1) : Passed(i, "initialize")'
             => initialized'
        <3>1. \A j \in 1..read : j \in Requests
            BY <1>0
        <3>2. \A j \in 1..read : \A i \in 1..(j - 1) : i \in Requests
            BY <1>0
        <3>3. QED
            BY <2>1, <2>5, <2>8, <3>1, <3>2
    <2>12. QED
        BY <2>9, <2>10, <2>11 DEF HandshakeInOrder
<1>3. CASE ServerSide
    BY <1>3, AsideShape DEF Aside, HandshakeInOrder, Passed, HandshakeBefore
<1>4. QED
    BY <1>1, <1>2, <1>3, NextCases

\* The second snapshot is taken when no request is pending, so that nothing can
\* start a session behind it.
LEMMA SnapshotNext ==
    ASSUME StdioTypeOK, SnapshotCovers, Next
    PROVE  SnapshotCovers'
<1>1. ASSUME NEW kind \in Kinds, NEW target \in Requests \cup {0}, NEW r,
             Reads(r, kind, target)
      PROVE  SnapshotCovers'
    BY <1>1 DEF Reads, SnapshotCovers
<1>2. ASSUME NEW r \in Requests, TaskEffect(r)
      PROVE  SnapshotCovers'
    <2>1. r \in Pending /\ pc' = pc
        BY <1>2 DEF TaskEffect, Pending
    <2>2. pc \notin {"again", "returned"}
        BY <2>1 DEF SnapshotCovers
    <2>3. \A s \in Requests : session'[s] = "lost" => s \in abandoned'
        BY <1>2 DEF TaskEffect, SnapshotCovers
    <2>4. QED
        BY <2>1, <2>2, <2>3 DEF SnapshotCovers
<1>3. CASE ServerSide
    <2>1. Pending' = Pending
        BY <1>3, AsideShape DEF Aside, Pending
    <2>2. CASE EndOfInput \/ Yielded \/ AwaitPending \/ CancelPending \/ ShutdownAgain \/ Return
        BY <2>1, <2>2 DEF SnapshotCovers, EndOfInput, Yielded, AwaitPending, CancelPending,
           ShutdownAgain, Return, Held
    <2>3. CASE ShutdownGivesUp
        BY <2>1, <2>3 DEF SnapshotCovers, ShutdownGivesUp, Held
    <2>4. ASSUME NEW s \in Requests, SessionEnds(s) \/ DisposalRaises(s) \/ ShutdownDisposes(s)
          PROVE  SnapshotCovers'
        <3>1. /\ pc' = pc /\ abandoned \subseteq abandoned'
              /\ \A q \in Requests \ {s} : session'[q] = session[q]
              /\ \/ /\ session[s] = "active" /\ session'[s] \in {"ended", "stuck"}
                    /\ disposing' = disposing
                 \/ /\ session'[s] = "disposed" \/ (session'[s] = "stuck" /\ s \in abandoned')
                    /\ disposing' = disposing \ {s} /\ pc # "returned"
            BY <2>4 DEF SessionEnds, DisposalRaises, ShutdownDisposes, StdioTypeOK
        <3>2. QED
            BY <2>1, <3>1 DEF SnapshotCovers, Held
    <2>5. QED
        BY <1>3, <2>2, <2>3, <2>4 DEF ServerSide, ServerStep
<1>4. QED
    BY <1>1, <1>2, <1>3, NextCases

-----------------------------------------------------------------------------
(* The theorems.                                                             *)

\* Initially nothing was read.
LEMMA StdioInvInit == Init => StdioInv
<1> SUFFICES ASSUME Init
             PROVE  StdioInv
    OBVIOUS
<1>0. MaxRequests \in Nat /\ \A r \in Requests : r \in Nat /\ r > 0
    BY StdioAssumption DEF Requests
<1>1. NoLine.kind = "none"
    BY DEF NoLine
<1>2. StdioTypeOK
    <2>1. initialized \in {FALSE, adapter = "mcp"} /\ greeted = initialized
        BY DEF Init
    <2>2. initialized = FALSE \/ initialized = (adapter = "mcp")
        BY <2>1, Zenon
    <2>3. initialized \in BOOLEAN /\ greeted \in BOOLEAN
        BY <2>1, <2>2
    <2>4. /\ adapter \in {"jsonrpc", "mcp"} /\ pc = "reading" /\ read = 0
          /\ line = [r \in Requests |-> NoLine] /\ task = [r \in Requests |-> "none"]
          /\ answer = [r \in Requests |-> "none"] /\ session = [r \in Requests |-> "none"]
          /\ cancelled = {} /\ disposing = {} /\ abandoned = {}
        BY DEF Init
    <2>5. QED
        BY <1>0, <2>3, <2>4 DEF StdioTypeOK, Tasks, Answers, Sessions
<1>3. RequestsRead /\ DoneAnswered
    BY <1>0, <1>1 DEF Init, RequestsRead, DoneAnswered, Silent, McpOnly
<1>4. HandshakeInOrder
    BY <1>0 DEF Init, HandshakeInOrder
<1>5. SnapshotCovers
    BY DEF Init, SnapshotCovers
<1>6. QED
    BY <1>2, <1>3, <1>4, <1>5 DEF StdioInv

\* Every step keeps the invariant.
LEMMA StdioInvNext == StdioInv /\ [Next]_vars => StdioInv'
<1>1. ASSUME StdioInv, Next
      PROVE  StdioInv'
    BY <1>1, RequestsReadNext, DoneAnsweredNext, HandshakeNext, SnapshotNext DEF StdioInv
<1>2. ASSUME StdioInv, UNCHANGED vars
      PROVE  StdioInv'
    <2>1. StdioTypeOK' /\ RequestsRead' /\ DoneAnswered'
        BY <1>2 DEF StdioInv, vars, StdioTypeOK, RequestsRead, DoneAnswered
    <2>2. HandshakeInOrder'
        BY <1>2 DEF StdioInv, vars, HandshakeInOrder, Passed, HandshakeBefore
    <2>3. SnapshotCovers'
        BY <1>2 DEF StdioInv, vars, SnapshotCovers, Pending, Held
    <2>4. QED
        BY <2>1, <2>2, <2>3 DEF StdioInv
<1>3. QED
    BY <1>1, <1>2

\* The invariant of serve_stdio.
THEOREM StdioInvariant == Spec => []StdioInv
<1>1. QED
    BY StdioInvInit, StdioInvNext, PTL DEF Spec

\* When serve_stdio returns, the manager holds no session that a deadline or a
\* raising disposal did not give up: for any number of requests whose starts race the two shutdowns.
THEOREM SessionsStoppedHolds == Spec => []SessionsStopped
<1>1. StdioInv => SessionsStopped
    BY DEF StdioInv, SnapshotCovers, Held, SessionsStopped
<1>2. QED
    BY <1>1, StdioInvariant, PTL

\* When serve_stdio returns, every request that has a response got it unless it
\* was cancelled at the deadline or, over MCP, its start, backend call or disposal
\* raised, and no request behind a complete handshake was refused: for any number
\* of requests and any limit.
THEOREM AnsweredHolds == Spec => []Answered
<1>1. ASSUME StdioInv
      PROVE  Answered
    <2> SUFFICES ASSUME pc = "returned", NEW r \in 1..read
                 PROVE  /\ line[r].kind \in Silent /\ answer[r] # "limited" => answer[r] = "none"
                        /\ answer[r] = "none" =>
                              line[r].kind \in Silent \/ r \in cancelled \/ task[r] = "raised"
                        /\ task[r] = "raised" => adapter = "mcp" /\ answer[r] = "none"
                        /\ answer[r] = "refused" => ~HandshakeBefore(r)
        BY DEF Answered
    <2>1. r \in Requests /\ ~(r > read)
        BY <1>1, StdioAssumption DEF StdioInv, StdioTypeOK, Requests
    <2>2. task[r] \in {"done", "raised"}
        BY <1>1, <2>1 DEF StdioInv, SnapshotCovers, Pending, RequestsRead
    <2>3. QED
        BY <1>1, <2>1, <2>2 DEF StdioInv, DoneAnswered, HandshakeInOrder
<1>2. QED
    BY <1>1, StdioInvariant, PTL

=============================================================================
