---------------------------- MODULE StdioServer -----------------------------
(***************************************************************************)
(* serve_stdio (integrations/protocol.py): newline-delimited requests read *)
(* from standard input, one task per request, and the shutdown that        *)
(* follows the end of the input.  The runtime behind it is the JSON-RPC    *)
(* one (JsonRpcRuntime) or the MCP one (integrations/mcp.py), which asks   *)
(* for a handshake first and catches fewer exceptions.                     *)
(*                                                                         *)
(* Requests are numbered in the order of their lines.  A request that      *)
(* starts a session gives the session its number.  The session manager is  *)
(* reduced to the states a request can wait for; Session and its contract  *)
(* model it.                                                               *)
(***************************************************************************)
EXTENDS Naturals, FiniteSets

CONSTANTS
    MaxRequests,   \* how many lines the client sends at most
    MaxPending,    \* max_pending_requests
    MaxFaults      \* disposals that raise, and disposals and starts that outlast a deadline

ASSUME StdioAssumption ==
    MaxRequests \in Nat /\ MaxPending \in Nat \ {0} /\ MaxFaults \in Nat

Requests == 1..MaxRequests

VARIABLES
    adapter,      \* the runtime that dispatches: it never changes
    pc,           \* where serve_stdio is
    read,         \* how many lines it has read
    line,         \* what each line holds
    task,         \* where the request's task is
    answer,       \* the response written for it
    greeted,      \* _initialize_replied
    initialized,  \* _initialized
    session,      \* the session each request started
    cancelled,    \* requests whose task was cancelled at the shutdown deadline
    disposing,    \* sessions the running shutdown has still to dispose
    abandoned,    \* sessions whose disposal or start was given up
    faults

vars == <<adapter, pc, read, line, task, answer, greeted, initialized, session,
          cancelled, disposing, abandoned, faults>>

\* What a line may be.  A call stands for every method that answers at once, a
\* write for those that hand work to a session's backend and wait for it.
Kinds == {"oversized", "malformed", "notification", "call", "start", "run", "wait",
          "write", "dispose", "initialize", "initialized", "ping"}
NeedSession == {"wait", "write", "dispose"}
Starters == {"start", "run"}
McpOnly == {"run", "initialize", "initialized", "ping"}
\* Methods without a response: JSON-RPC notifications.
Silent == {"notification", "initialized"}

NoLine == [kind |-> "none", target |-> 0]
Lines == [kind : Kinds, target : Requests \cup {0}]

\* raised: the task ended with an exception that nothing answers.
Tasks == {"none", "created", "starting", "waiting", "writing", "disposing", "done", "raised"}
Answers == {"none", "result", "error", "refused", "limited"}
\* stuck: its disposal raised, and the failed dispose_task is kept.
Sessions == {"none", "active", "ended", "stuck", "disposed", "lost"}

Pending == {r \in Requests : task[r] \notin {"none", "done", "raised"}}

\* The manager still holds the session.
Held == {s \in Requests : session[s] \in {"active", "ended", "stuck"}}

-----------------------------------------------------------------------------
(* The reading loop.                                                         *)

\* A line that is not oversized becomes a task unless too many are pending.
ReadLine(kind, target) ==
    LET r == read + 1 IN
    /\ pc = "reading" /\ read < MaxRequests
    /\ kind \in McpOnly => adapter = "mcp"
    /\ target = 0 <=> kind \notin NeedSession
    /\ target # 0 => target <= read /\ line[target].kind \in Starters
    /\ read' = r
    /\ line' = [line EXCEPT ![r] = [kind |-> kind, target |-> target]]
    /\ IF kind = "oversized" \/ Cardinality(Pending) >= MaxPending
       THEN /\ answer' = [answer EXCEPT ![r] = "limited"]
            /\ task' = [task EXCEPT ![r] = "done"]
       ELSE /\ task' = [task EXCEPT ![r] = "created"]
            /\ UNCHANGED answer
    /\ UNCHANGED <<adapter, pc, greeted, initialized, session, cancelled, disposing,
                   abandoned, faults>>

\* readline returns the empty string.
EndOfInput ==
    /\ pc = "reading"
    /\ pc' = "yield"
    /\ UNCHANGED <<adapter, read, line, task, answer, greeted, initialized, session,
                   cancelled, disposing, abandoned, faults>>

-----------------------------------------------------------------------------
(* A request's task: respond and dispatch.                                   *)

\* A response is written unless the method has none or the task is cancelled.
Finish(r, response) ==
    /\ task' = [task EXCEPT ![r] = "done"]
    /\ answer' = IF line[r].kind \in Silent \/ r \in cancelled
                 THEN answer ELSE [answer EXCEPT ![r] = response]

Goes(r, state) == task' = [task EXCEPT ![r] = state] /\ UNCHANGED answer

\* The manager raises something else than a SharkRailError or invalid parameters
\* (OSError, TimeoutError, RuntimeError): JSON-RPC turns it into an error
\* response, MCP's dispatch does not catch it.
Raises(r) == IF adapter = "jsonrpc" THEN Finish(r, "error") ELSE Goes(r, "raised")

\* Mutant: tasks begin in any order.
MayBeginAnyTime(r) == task[r] = "created"

\* The event loop runs the first step of tasks in the order of their creation.
MayBegin(r) ==
    /\ task[r] = "created"
    /\ \A q \in Requests : task[q] = "created" => r <= q

\* The handshake comes first for MCP; only ping does not wait for it.
Refused(r) ==
    /\ adapter = "mcp" /\ ~initialized
    /\ line[r].kind \notin {"malformed", "initialize", "initialized", "ping"}

\* The first step of a task, up to where it waits.  A session that is gone is
\* not found, except that disposing it again succeeds.
Begin(r) ==
    /\ MayBegin(r)
    /\ greeted' = (greeted \/ (adapter = "mcp" /\ line[r].kind = "initialize"))
    /\ initialized' = (initialized \/ (line[r].kind = "initialized" /\ greeted))
    /\ LET kind == line[r].kind
           held == line[r].target \in Held
           disposed == line[r].target # 0 /\ session[line[r].target] = "disposed"
       IN \/ Refused(r) /\ Finish(r, "refused")
          \/ /\ ~Refused(r)
             /\ CASE kind \in Starters            -> Goes(r, "starting")
                  [] kind = "wait" /\ held         -> Goes(r, "waiting")
                  [] kind = "write" /\ held        -> Goes(r, "writing")
                  [] kind = "dispose" /\ held      -> Goes(r, "disposing")
                  [] kind \in NeedSession /\ ~held ->
                        Finish(r, IF kind = "dispose" /\ disposed THEN "result" ELSE "error")
                  [] kind = "malformed"            -> Finish(r, "error")
                  [] OTHER                         -> Finish(r, "result")
    /\ UNCHANGED <<adapter, pc, read, line, session, cancelled, disposing, abandoned, faults>>

\* manager.start returns; sharkrail_run goes on to wait for the result.  A start
\* that was cancelled kills what it spawned.
Started(r) ==
    /\ task[r] = "starting"
    /\ session' = IF r \in cancelled THEN session ELSE [session EXCEPT ![r] = "active"]
    /\ IF line[r].kind = "run" /\ r \notin cancelled
       THEN Goes(r, "waiting") ELSE Finish(r, "result")
    /\ UNCHANGED <<adapter, pc, read, line, greeted, initialized, cancelled, disposing,
                   abandoned, faults>>

StartFails(r) ==
    /\ task[r] = "starting"
    /\ Finish(r, "error") \/ Raises(r)
    /\ UNCHANGED <<adapter, pc, read, line, greeted, initialized, session, cancelled,
                   disposing, abandoned, faults>>

\* The session a request is about: its own, or the one it names.
About(r) == IF line[r].kind = "run" THEN r ELSE line[r].target

\* manager.wait returns with the session's end, its disposal, or the task's
\* cancellation; sharkrail_run then disposes in its finally clause.
Waited(r) ==
    /\ task[r] = "waiting"
    /\ session[About(r)] # "active" \/ r \in cancelled
    /\ IF line[r].kind = "run" THEN Goes(r, "disposing") ELSE Finish(r, "result")
    /\ UNCHANGED <<adapter, pc, read, line, greeted, initialized, session, cancelled,
                   disposing, abandoned, faults>>

\* manager.write and the like return, refuse, or raise.
Wrote(r) ==
    /\ task[r] = "writing"
    /\ Finish(r, "result") \/ Finish(r, "error") \/ Raises(r)
    /\ UNCHANGED <<adapter, pc, read, line, greeted, initialized, session, cancelled,
                   disposing, abandoned, faults>>

\* manager.dispose returns, or reports the cancellation that failed before it;
\* its deadline passes or the request is cancelled, and the session stays; or it
\* raises what the session's disposal raised.
Disposed(r) ==
    LET s == About(r) IN
    /\ task[r] = "disposing"
    /\ \/ /\ session[s] # "stuck"
          /\ session' = [session EXCEPT ![s] = "disposed"]
          /\ Finish(r, "result") \/ Finish(r, "error")
       \/ session[s] # "stuck" /\ UNCHANGED session /\ Finish(r, "error")
       \/ session[s] = "stuck" /\ UNCHANGED session /\ Raises(r)
    /\ UNCHANGED <<adapter, pc, read, line, greeted, initialized, cancelled, disposing,
                   abandoned, faults>>

TaskStep(r) ==
    Begin(r) \/ Started(r) \/ StartFails(r) \/ Waited(r) \/ Wrote(r) \/ Disposed(r)

\* The process of a session ends.
SessionEnds(s) ==
    /\ session[s] = "active"
    /\ session' = [session EXCEPT ![s] = "ended"]
    /\ UNCHANGED <<adapter, pc, read, line, task, answer, greeted, initialized, cancelled,
                   disposing, abandoned, faults>>

\* The session ends with a disposal that raises: dispose_task is kept, so every
\* later disposal of the session raises too.
DisposalRaises(s) ==
    /\ session[s] = "active"
    /\ faults < MaxFaults /\ faults' = faults + 1
    /\ session' = [session EXCEPT ![s] = "stuck"]
    /\ UNCHANGED <<adapter, pc, read, line, task, answer, greeted, initialized, cancelled,
                   disposing, abandoned>>

-----------------------------------------------------------------------------
(* Shutdown.                                                                 *)

\* sleep(0) lets the tasks created so far begin; then manager.shutdown takes
\* its snapshot of the sessions.
Yielded ==
    /\ pc = "yield"
    /\ \A r \in Requests : task[r] # "created"
    /\ pc' = "shutdown"
    /\ disposing' = Held
    /\ UNCHANGED <<adapter, read, line, task, answer, greeted, initialized, session,
                   cancelled, abandoned, faults>>

\* One of the dispose tasks of manager.shutdown ends; what it raises is dropped.
ShutdownDisposes(s) ==
    /\ pc \in {"shutdown", "again"} /\ s \in disposing
    /\ disposing' = disposing \ {s}
    /\ IF session[s] = "stuck"
       THEN abandoned' = abandoned \cup {s} /\ UNCHANGED session
       ELSE session' = [session EXCEPT ![s] = "disposed"] /\ UNCHANGED abandoned
    /\ UNCHANGED <<adapter, pc, read, line, task, answer, greeted, initialized, cancelled,
                   faults>>

\* The deadline of manager.shutdown passes: what is left is given up.
ShutdownGivesUp ==
    /\ pc \in {"shutdown", "again"} /\ disposing # {}
    /\ faults < MaxFaults /\ faults' = faults + 1
    /\ abandoned' = abandoned \cup disposing
    /\ disposing' = {}
    /\ UNCHANGED <<adapter, pc, read, line, task, answer, greeted, initialized, session,
                   cancelled>>

\* The first shutdown is over: wait for the pending requests.
AwaitPending ==
    /\ pc = "shutdown" /\ disposing = {}
    /\ pc' = "await"
    /\ UNCHANGED <<adapter, read, line, task, answer, greeted, initialized, session,
                   cancelled, disposing, abandoned, faults>>

\* Mutant: pending requests are waited for without a deadline.
CancelPendingNever == FALSE /\ UNCHANGED vars

\* shutdown_timeout_ms passes: every pending task is cancelled.
CancelPending ==
    /\ pc = "await" /\ Pending # {} /\ cancelled = {}
    /\ cancelled' = Pending
    /\ UNCHANGED <<adapter, pc, read, line, task, answer, greeted, initialized, session,
                   disposing, abandoned, faults>>

\* A cancelled start whose backend does not come back: its process is not found.
StartLost(r) ==
    /\ task[r] = "starting" /\ r \in cancelled
    /\ faults < MaxFaults /\ faults' = faults + 1
    /\ Goes(r, "done")
    /\ session' = [session EXCEPT ![r] = "lost"]
    /\ abandoned' = abandoned \cup {r}
    /\ UNCHANGED <<adapter, pc, read, line, greeted, initialized, cancelled, disposing>>

\* Mutant: sessions started after the first snapshot are left alone.
ShutdownAgainSkipped ==
    /\ pc = "await" /\ Pending = {}
    /\ pc' = "again"
    /\ disposing' = {}
    /\ UNCHANGED <<adapter, read, line, task, answer, greeted, initialized, session,
                   cancelled, abandoned, faults>>

\* No request is pending: a second manager.shutdown with a new snapshot.
ShutdownAgain ==
    /\ pc = "await" /\ Pending = {}
    /\ pc' = "again"
    /\ disposing' = Held
    /\ UNCHANGED <<adapter, read, line, task, answer, greeted, initialized, session,
                   cancelled, abandoned, faults>>

Return ==
    /\ pc = "again" /\ disposing = {}
    /\ pc' = "returned"
    /\ UNCHANGED <<adapter, read, line, task, answer, greeted, initialized, session,
                   cancelled, disposing, abandoned, faults>>

ServerStep ==
    \/ Yielded \/ AwaitPending \/ CancelPending \/ ShutdownAgain \/ Return
    \/ \E s \in Requests : ShutdownDisposes(s)

-----------------------------------------------------------------------------
\* A connection is followed from its first line, or from the end of a handshake.
Init ==
    /\ adapter \in {"jsonrpc", "mcp"}
    /\ pc = "reading" /\ read = 0
    /\ line = [r \in Requests |-> NoLine]
    /\ task = [r \in Requests |-> "none"]
    /\ answer = [r \in Requests |-> "none"]
    /\ initialized \in {FALSE, adapter = "mcp"} /\ greeted = initialized
    /\ session = [r \in Requests |-> "none"]
    /\ cancelled = {} /\ disposing = {} /\ abandoned = {}
    /\ faults = 0

Next ==
    \/ \E kind \in Kinds, target \in Requests \cup {0} : ReadLine(kind, target)
    \/ EndOfInput
    \/ \E r \in Requests : TaskStep(r) \/ SessionEnds(r) \/ DisposalRaises(r) \/ StartLost(r)
    \/ ServerStep \/ ShutdownGivesUp

\* The event loop runs every task that can run, and timers fire.
Fairness ==
    /\ \A r \in Requests : WF_vars(TaskStep(r))
    /\ WF_vars(ServerStep)

Spec == Init /\ [][Next]_vars /\ Fairness

-----------------------------------------------------------------------------
(* Properties.                                                               *)

\* Whether the handshake's two lines stand before line r.
HandshakeBefore(r) ==
    \E i, j \in 1..(r - 1) :
        i < j /\ line[i].kind = "initialize" /\ line[j].kind = "initialized"
        /\ task[i] # "none" /\ answer[i] # "limited" /\ task[j] # "none" /\ answer[j] # "limited"

\* When serve_stdio returns, every request was answered once, also those that
\* came just before the end of the input: notifications never, and of the others
\* only those that were cancelled at the shutdown deadline and MCP calls whose
\* start, backend call or disposal raised were not.  A JSON-RPC request is never
\* lost to an exception, and a client that sends requests right after the
\* handshake, without waiting for the answers, is not refused (respond, dispatch).
Answered ==
    pc = "returned" =>
        \A r \in 1..read :
            /\ line[r].kind \in Silent /\ answer[r] # "limited" => answer[r] = "none"
            /\ answer[r] = "none" =>
                  line[r].kind \in Silent \/ r \in cancelled \/ task[r] = "raised"
            /\ task[r] = "raised" => adapter = "mcp" /\ answer[r] = "none"
            /\ answer[r] = "refused" => ~HandshakeBefore(r)

\* When serve_stdio returns, the manager holds no session, also none whose start
\* was in progress when the first shutdown took its snapshot; what a deadline or
\* a raising disposal gave up is the exception (serve_stdio, SessionManager.shutdown).
SessionsStopped ==
    pc = "returned" =>
        \A s \in Requests : session[s] \in {"active", "ended", "stuck", "lost"} => s \in abandoned

\* After the end of its input the server returns, whatever its requests wait for.
ServerReturns == pc = "yield" ~> pc = "returned"

=============================================================================
