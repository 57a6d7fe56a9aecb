----------------------------- MODULE ControlPlane -----------------------------
(***************************************************************************)
(* The local control plane of a durable session (session.rs): `session     *)
(* start` and the worker process it spawns, and the calls of `session      *)
(* find, send, next, leave, cancel, close, status` and `list`, each a      *)
(* process of its own that finds the worker through session.json, waits at *)
(* most 3 s for its answer and then makes do with the file.                *)
(*                                                                         *)
(* What the commands do is SessionWorker's; here they are "act" and        *)
(* "close", and a call is made once.  The status is cut down to what       *)
(* callers act on.  The events request is EventLog's.                      *)
(***************************************************************************)
EXTENDS Naturals, Sequences

CONSTANTS
    Calls,          \* the calls made in one behaviour
    NoCall,         \* not a call
    QueueCapacity   \* the worker's command queue: 64 in the code

ASSUME QueueAssumption == QueueCapacity \in Nat \ {0} /\ NoCall \notin Calls

VARIABLES
    starter,    \* session start
    process,    \* the worker process
    listening,  \* its control_server still accepts
    net,        \* network_loop: between commands, in one, or returned
    current,    \* the command it is in
    queue,      \* the command channel
    state,      \* status.state in memory
    disk,       \* session.json: the state, and whether a port is in it
    op,         \* per call: what it asks
    caller,     \* per call: the calling process
    handler,    \* per call: the worker's task for it
    reply,      \* per call: what that task will write
    result,     \* per call: what the caller printed
    effects,    \* history: the commands performed
    afterClose  \* history, per call: session.json was closed when it began

workerVars == <<process, listening, net, current, queue, state, disk>>
callVars == <<op, caller, handler, reply, result>>
history == <<effects, afterClose>>
vars == <<starter, workerVars, callVars, history>>

\* "open" is every state a session can still be used in.
States == {"open", "failed", "closed"}

\* "unknown" is any error that leaves open whether the command was or will be
\* performed: no connection, no answer, or a send that failed half-way.
Kinds == {"none", "ok", "refused", "unknown"}
Reply(kind, status) == [kind |-> kind, state |-> status]
NoReply == Reply("none", "open")
Error(kind) == Reply(kind, "open")
Result(kind, status, source) == [kind |-> kind, state |-> status, source |-> source]

TypeOK ==
    /\ starter \in {"new", "polling", "asking", "ok", "killed", "failed"}
    /\ process \in {"none", "booting", "serving", "gone"}
    /\ listening \in BOOLEAN
    /\ net \in {"idle", "sending", "sent", "returned"}
    /\ current \in Calls \cup {NoCall}
    /\ queue \in Seq(Calls) /\ Len(queue) <= QueueCapacity
    /\ state \in States
    /\ disk \in [state : States, open : BOOLEAN]
    /\ op \in [Calls -> {"none", "status", "act", "close"}]
    /\ caller \in [Calls -> {"new", "connecting", "waiting", "fallback", "done"}]
    /\ handler \in [Calls -> {"none", "backlog", "running", "queued",
                              "answered", "ended"}]
    /\ reply \in [Calls -> [kind : Kinds, state : States]]
    /\ result \in [Calls -> [kind : Kinds, state : States,
                             source : {"none", "worker", "file"}]]
    /\ effects \in Seq(Calls)
    /\ afterClose \in [Calls -> BOOLEAN]

Init ==
    /\ starter = "new"
    /\ process = "none" /\ listening = FALSE
    /\ net = "idle" /\ current = NoCall /\ queue = <<>>
    /\ state = "open"
    /\ disk = [state |-> "open", open |-> FALSE]
    /\ op = [c \in Calls |-> "none"]
    /\ caller = [c \in Calls |-> "new"]
    /\ handler = [c \in Calls |-> "none"]
    /\ reply = [c \in Calls |-> NoReply]
    /\ result = [c \in Calls |-> Result("none", "open", "none")]
    /\ effects = <<>>
    /\ afterClose = [c \in Calls |-> FALSE]

------------------------------------------------------------------------------
(* session start.                                                          *)

\* session.json is written without a port and the worker is spawned, or not.
StartBegin ==
    /\ starter = "new"
    /\ \/ starter' = "polling" /\ process' = "booting"
       \/ starter' = "failed" /\ UNCHANGED process
    /\ UNCHANGED <<listening, net, current, queue, state, disk, callVars, history>>

\* try_wait: the worker has exited.
StartSeesExit ==
    /\ starter = "polling" /\ process = "gone"
    /\ starter' = "failed"
    /\ UNCHANGED <<workerVars, callVars, history>>

\* A port is in session.json: start makes a status request of its own, and what
\* that returns is what start returns.
StartSeesPort ==
    /\ starter = "polling" /\ disk.open
    /\ starter' = "asking"
    /\ UNCHANGED <<workerVars, callVars, history>>

StartAnswered ==
    /\ starter = "asking" /\ process = "serving" /\ listening
    /\ starter' = "ok"
    /\ UNCHANGED <<workerVars, callVars, history>>

StartUnanswered ==
    /\ starter = "asking"
    /\ starter' = "failed"
    /\ UNCHANGED <<workerVars, callVars, history>>

------------------------------------------------------------------------------
(* The worker process.                                                     *)

\* The process ends: its tasks, its queue and every answer not yet written.
Die ==
    /\ process' = "gone"
    /\ listening' = FALSE
    /\ net' = "returned" /\ current' = NoCall /\ queue' = <<>>
    /\ handler' = [c \in Calls |->
         IF handler[c] = "none" THEN "none" ELSE "ended"]
    /\ reply' = [c \in Calls |-> NoReply]
    /\ UNCHANGED <<state, disk, op, caller, result, history>>

\* start's deadline: the child is killed.
StartExpires ==
    /\ starter = "polling"
    /\ starter' = "killed"
    /\ Die

\* worker: the listener is bound and its port persisted.
Boot ==
    /\ process = "booting"
    /\ process' = "serving" /\ listening' = TRUE
    /\ disk' = [disk EXCEPT !.open = TRUE]
    /\ UNCHANGED <<starter, net, current, queue, state, callVars, history>>

\* worker returns an error before it serves, or the process is killed.
Crash ==
    /\ process \in {"booting", "serving"}
    /\ Die
    /\ UNCHANGED starter

\* update_state, with or without success in persisting.
SetState(status) ==
    /\ state' = status
    /\ \/ disk' = [disk EXCEPT !.state = status]
       \/ UNCHANGED disk

\* The answers of calls that are sent at once.
Answer(answers) ==
    /\ handler' = [c \in Calls |-> IF c \in DOMAIN answers THEN "answered" ELSE handler[c]]
    /\ reply' = [c \in Calls |-> IF c \in DOMAIN answers THEN answers[c] ELSE reply[c]]
    /\ UNCHANGED <<op, caller, result>>

Queued == {c \in Calls : handler[c] = "queued" /\ c # current}

\* network_loop returns: the queue is dropped, and with it every oneshot sender.
Return(answers) ==
    /\ net' = "returned" /\ current' = NoCall /\ queue' = <<>>
    /\ Answer([c \in Queued \cup DOMAIN answers |->
         IF c \in DOMAIN answers THEN answers[c] ELSE Error("refused")])

\* The identity cannot be loaded: what is left is a loop that only a close ends.
LoadFails ==
    /\ process = "serving" /\ net = "idle" /\ state = "open"
    /\ SetState("failed")
    /\ UNCHANGED <<starter, process, listening, net, current, queue, callVars, history>>

\* An event cannot be recorded.
RecordFails ==
    /\ process = "serving" /\ net = "idle" /\ state = "open"
    /\ SetState("failed")
    /\ Return(<<>>)
    /\ UNCHANGED <<starter, process, listening, history>>

\* Mutant of Take: the command stays in the queue while it is performed.
TakeKeeps ==
    /\ process = "serving" /\ net = "idle" /\ queue # <<>>
    /\ net' = "sending" /\ current' = Head(queue)
    /\ UNCHANGED <<queue, starter, process, listening, state, disk, callVars, history>>

\* commands.recv().
Take ==
    /\ process = "serving" /\ net = "idle" /\ queue # <<>>
    /\ net' = "sending" /\ current' = Head(queue) /\ queue' = Tail(queue)
    /\ UNCHANGED <<starter, process, listening, state, disk, callVars, history>>

\* The command is not valid in this state, or there is no connection.
Refuse ==
    /\ net = "sending" /\ op[current] = "act"
    /\ net' = "idle" /\ current' = NoCall
    /\ Answer([c \in {current} |-> Error("refused")])
    /\ UNCHANGED <<starter, process, listening, queue, state, disk, history>>

\* client.send returns Ok, or nothing has to be sent.  It may take as long as
\* the socket does.
Send ==
    /\ net = "sending"
    /\ op[current] = "act" => state = "open"
    /\ net' = "sent"
    /\ effects' = Append(effects, current)
    /\ UNCHANGED <<starter, process, listening, current, queue, state, disk,
                   callVars, afterClose>>

\* client.send returns an error; frames may have left before it.
SendFails ==
    /\ net = "sending" /\ state = "open"
    /\ net' = "idle" /\ current' = NoCall
    /\ effects' \in {effects, Append(effects, current)}
    /\ Answer([c \in {current} |-> Error("unknown")])
    /\ UNCHANGED <<starter, process, listening, queue, state, disk, afterClose>>

\* Mutant of Acknowledge: the loop goes on after a close.
AcknowledgeOnly ==
    /\ net = "sent"
    /\ LET status == IF op[current] = "close" THEN "closed" ELSE state IN
         /\ SetState(status)
         /\ Answer([c \in {current} |-> Reply("ok", status)])
    /\ net' = "idle" /\ current' = NoCall /\ UNCHANGED queue
    /\ UNCHANGED <<starter, process, listening, history>>

\* Then the status is updated and the command answered; a close ends the loop.
Acknowledge ==
    /\ net = "sent"
    /\ \/ /\ op[current] = "close"
          /\ SetState("closed")
          /\ Return([c \in {current} |-> Reply("ok", "closed")])
       \/ /\ op[current] = "act"
          /\ SetState(state)
          /\ Answer([c \in {current} |-> Reply("ok", state)])
          /\ net' = "idle" /\ current' = NoCall /\ UNCHANGED queue
    /\ UNCHANGED <<starter, process, listening, history>>

\* accept returns an error and control_server ends.
ListenerFails ==
    /\ listening
    /\ listening' = FALSE
    /\ handler' = [c \in Calls |->
         IF handler[c] = "backlog" THEN "ended" ELSE handler[c]]
    /\ UNCHANGED <<starter, process, net, current, queue, state, disk, op, caller,
                   reply, result, history>>

\* recv returns None: nobody is left who could send a command.
CommandsClosed ==
    /\ process = "serving" /\ net = "idle" /\ ~listening /\ queue = <<>>
    /\ \A c \in Calls : handler[c] \notin {"running", "queued"}
    /\ Return(<<>>)
    /\ UNCHANGED <<starter, process, listening, state, disk, history>>

\* worker returns, and the runtime ends with whatever its tasks are doing.
Exit ==
    /\ process = "serving" /\ net = "returned"
    /\ Die
    /\ UNCHANGED starter

------------------------------------------------------------------------------
(* handle_control and execute_control, one task per call.                  *)

Accept(c) ==
    /\ listening /\ handler[c] = "backlog"
    /\ handler' = [handler EXCEPT ![c] = "running"]
    /\ UNCHANGED <<starter, workerVars, op, caller, reply, result, history>>

ServeStatus(c) ==
    /\ handler[c] = "running" /\ op[c] = "status"
    /\ Answer([d \in {c} |-> Reply("ok", state)])
    /\ UNCHANGED <<starter, workerVars, history>>

\* command_tx.send: it waits for room in the queue, and nobody withdraws it when
\* the caller has given up.
Enqueue(c) ==
    /\ handler[c] = "running" /\ op[c] \in {"act", "close"}
    /\ net # "returned" /\ Len(queue) < QueueCapacity
    /\ queue' = Append(queue, c)
    /\ handler' = [handler EXCEPT ![c] = "queued"]
    /\ UNCHANGED <<starter, process, listening, net, current, state, disk, op,
                   caller, reply, result, history>>

\* "session worker is stopping"
Stopping(c) ==
    /\ handler[c] = "running" /\ op[c] \in {"act", "close"} /\ net = "returned"
    /\ Answer([d \in {c} |-> Error("refused")])
    /\ UNCHANGED <<starter, workerVars, history>>

------------------------------------------------------------------------------
(* control_request and its callers.                                        *)

\* Mutant of Fail: a close that gets no answer is an error.
FailAtOnce(c, asked, kind, source) ==
    /\ caller' = [caller EXCEPT
         ![c] = IF asked = "status" THEN "fallback" ELSE "done"]
    /\ result' = [result EXCEPT ![c] = Result(kind, "open", source)]

\* An error: status and close go on to session.json, the others print it.
Fail(c, asked, kind, source) ==
    /\ caller' = [caller EXCEPT
         ![c] = IF asked = "act" THEN "done" ELSE "fallback"]
    /\ result' = [result EXCEPT ![c] = Result(kind, "open", source)]

\* read_metadata, which must find a port.
Ask(c) ==
    /\ caller[c] = "new" /\ starter # "new"
    /\ \E asked \in {"status", "act", "close"} :
         /\ op' = [op EXCEPT ![c] = asked]
         /\ \/ /\ disk.open
               /\ caller' = [caller EXCEPT ![c] = "connecting"]
               /\ UNCHANGED result
            \/ ~disk.open /\ Fail(c, asked, "unknown", "none")
    /\ afterClose' = [afterClose EXCEPT ![c] = disk.state = "closed"]
    /\ UNCHANGED <<starter, workerVars, handler, reply, effects>>

\* The connection is made and the request written; the handler comes later.
Connect(c) ==
    /\ caller[c] = "connecting" /\ listening
    /\ caller' = [caller EXCEPT ![c] = "waiting"]
    /\ handler' = [handler EXCEPT ![c] = "backlog"]
    /\ UNCHANGED <<starter, workerVars, op, reply, result, history>>

\* The response is written and read.
Deliver(c) ==
    /\ caller[c] = "waiting" /\ handler[c] = "answered"
    /\ handler' = [handler EXCEPT ![c] = "ended"]
    /\ reply' = [reply EXCEPT ![c] = NoReply]
    /\ \/ /\ reply[c].kind = "ok"
          /\ caller' = [caller EXCEPT ![c] = "done"]
          /\ result' = [result EXCEPT ![c] = Result("ok", reply[c].state, "worker")]
       \/ reply[c].kind # "ok" /\ Fail(c, op[c], reply[c].kind, "worker")
    /\ UNCHANGED <<starter, workerVars, op, history>>

\* Mutant of Unanswered: only the connection has a deadline.
UnansweredConnect(c) ==
    /\ caller[c] = "connecting"
    /\ Fail(c, op[c], "unknown", "none")
    /\ UNCHANGED <<starter, workerVars, op, handler, reply, history>>

\* The connection is refused or ends without a line, or 3 s have passed.
Unanswered(c) ==
    /\ caller[c] \in {"connecting", "waiting"}
    /\ Fail(c, op[c], "unknown", "none")
    /\ UNCHANGED <<starter, workerVars, op, handler, reply, history>>

\* status prints the persisted state with worker_reachable: false; close is done
\* if that state is closed.
Fallback(c) ==
    /\ caller[c] = "fallback"
    /\ caller' = [caller EXCEPT ![c] = "done"]
    /\ result' = IF op[c] = "status" \/ disk.state = "closed"
                   THEN [result EXCEPT ![c] = Result("ok", disk.state, "file")]
                   ELSE result
    /\ UNCHANGED <<starter, workerVars, op, handler, reply, history>>

------------------------------------------------------------------------------

Starting == StartSeesExit \/ StartSeesPort \/ StartAnswered
            \/ StartUnanswered \/ StartExpires

NetStep == Take \/ Refuse \/ Send \/ SendFails \/ Acknowledge

Serve(c) == Accept(c) \/ ServeStatus(c) \/ Enqueue(c) \/ Stopping(c)

\* (list makes one status call after another and awaits each.)
Await(c) == Connect(c) \/ Deliver(c) \/ Unanswered(c) \/ Fallback(c)

Next ==
    \/ StartBegin \/ Starting \/ Boot \/ Crash
    \/ NetStep \/ LoadFails \/ RecordFails \/ ListenerFails \/ CommandsClosed \/ Exit
    \/ \E c \in Calls : Serve(c) \/ Ask(c) \/ Await(c)

Spec == Init /\ [][Next]_vars

\* The deadlines of start and of a call pass, the worker's tasks run, and a send
\* ends because the operating system gives a dead socket up.
Fairness ==
    /\ WF_vars(Starting)
    /\ WF_vars(NetStep)
    /\ \A c \in Calls : WF_vars(Await(c)) /\ WF_vars(Serve(c))

FairSpec == Spec /\ Fairness

------------------------------------------------------------------------------
(* What a call may rely on.                                                *)

\* The outcome of a command, for LocalCalls.  A close that session.json answers
\* says how the session is, not what became of the command.
OutcomeOf(c) ==
    IF op[c] \notin {"act", "close"} \/ caller[c] # "done" THEN "none"
    ELSE IF result[c].source = "worker" THEN result[c].kind ELSE "unknown"

\* A command is performed at most once, one that was acknowledged has been, and
\* one that was refused never will be, whatever callers give up waiting, the
\* queue holds and the worker dies with.
LocalCall == INSTANCE LocalCalls WITH outcome <- [c \in Calls |-> OutcomeOf(c)]
ImplementsLocalCalls == LocalCall!Spec

\* docs/PROTOCOL.md: `closed` is terminal.  A call that begins when session.json
\* says so is told so, with or without a worker: status prints closed, close
\* succeeds, nothing else does.
ClosedIsReported ==
    \A c \in Calls : caller[c] = "done" /\ afterClose[c] =>
        CASE op[c] = "act"    -> result[c].kind # "ok"
          [] op[c] = "close"  -> result[c].kind = "ok"
          [] op[c] = "status" -> result[c].state = "closed"

\* Once a caller has been told that its close succeeded no command is performed.
NothingAfterClose ==
    [][(\E c \in Calls : op[c] = "close" /\ result[c].kind = "ok") =>
            effects' = effects]_vars

\* start ends, every call that began ends, and a command that is in the queue
\* leaves it, also when its caller has not waited for it.
Settled ==
    /\ starter \notin {"polling", "asking"}
    /\ \A c \in Calls : caller[c] \in {"new", "done"} /\ handler[c] # "queued"
EverythingSettles == <>[]Settled

===============================================================================
