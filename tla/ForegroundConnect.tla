-------------------------- MODULE ForegroundConnect --------------------------
(***************************************************************************)
(* The foreground adapter `aingle connect` (fn connect in                  *)
(* crates/aingle-cli/src/main.rs): a JSONL loop over one ClientLink at a   *)
(* time, with its own memory of the search, should_find.                   *)
(*                                                                         *)
(* Commands typed on stdin wait in a queue until the loop takes them; as   *)
(* the user may type anything at any time, the queue is left out and a     *)
(* command is the environment's choice when the loop takes it.             *)
(***************************************************************************)
EXTENDS ClientLink

CONSTANT ObedientUser   \* TRUE: commands fit the last event printed

ASSUME ObedientUserAssumption == ObedientUser \in BOOLEAN

VARIABLES
    pc,             \* where connect is
    should_find,    \* the loop's memory of a wanted search
    stdin,          \* stdin has not ended
    wish            \* history: the user's last word on searching

loopVars == <<pc, should_find, stdin, wish>>
vars == <<link, writer, c2s, s2c, phase, matches, view, loopVars>>

\* "connect": identity loaded, connection pending; "find": the FIND that opens
\* a connection; "serve": the select!; "retry": the sleep of retry_after_ms,
\* in which nothing is read; "backoff": reconnect_delay; "done", "exited":
\* returned with and without success.
Places == {"connect", "find", "serve", "retry", "backoff", "done", "exited"}

\* "search" from a find until a match, an ERROR or another command that takes
\* it back.
Wishes == {"none", "search"}

TypeOK ==
    /\ LinkTypeOK
    /\ pc \in Places
    /\ should_find \in BOOLEAN /\ stdin \in BOOLEAN
    /\ wish \in Wishes

Init ==
    /\ LinkInit
    /\ pc = "connect"
    /\ should_find = FALSE
    /\ stdin = TRUE
    /\ wish = "none"

------------------------------------------------------------------------------

ConnectOk ==
    /\ pc = "connect"
    /\ Open
    /\ pc' = IF should_find THEN "find" ELSE "serve"
    /\ UNCHANGED <<should_find, stdin, wish>>

ConnectFails ==
    /\ pc = "connect"
    /\ pc' = "backoff"
    /\ UNCHANGED <<linkVars, should_find, stdin, wish>>

\* Identity::load_default fails: connect returns the error.
IdentityFails ==
    /\ pc = "connect"
    /\ pc' = "exited"
    /\ UNCHANGED <<linkVars, should_find, stdin, wish>>

BackoffElapsed ==
    /\ pc = "backoff"
    /\ pc' = "connect"
    /\ UNCHANGED <<linkVars, should_find, stdin, wish>>

\* client.send(..).await?: the loop goes on, or connect returns the error.
SendOrExit(command) ==
    \/ SendOk(command) /\ pc' = "serve"
    \/ SendErr /\ pc' = "exited"

\* The FIND that a reconnect starts with, before any READY.
FindOnConnect ==
    /\ pc = "find"
    /\ SendOrExit("FIND")
    /\ UNCHANGED <<should_find, stdin, wish>>

------------------------------------------------------------------------------
(* Commands.                                                               *)

\* The bound ObedientUser puts on the environment: the phases of PROTOCOL.md,
\* by the last event the user has seen.
Fits(command) ==
    ObedientUser =>
        CASE command = "FIND" -> view = "connected"
          [] command = "CANCEL" -> view = "waiting"
          [] OTHER -> view = "chatting"

\* find and next set should_find, leave clears it; cancel and message leave it
\* alone.
Remember(command) ==
    should_find' = CASE command \in {"FIND", "NEXT"} -> TRUE
                     [] command = "LEAVE" -> FALSE
                     [] OTHER -> should_find

Command(command) ==
    /\ pc = "serve" /\ stdin /\ Fits(command)
    /\ Remember(command)
    /\ wish' = CASE command = "FIND" -> "search"
                 [] command = "MESSAGE" -> wish
                 [] OTHER -> "none"
    /\ SendOrExit(command)
    /\ UNCHANGED stdin

OversizedMessage ==
    /\ pc = "serve" /\ stdin /\ Fits("MESSAGE")
    /\ SendUnencodable
    /\ pc' = "exited"
    /\ UNCHANGED <<should_find, stdin, wish>>

CloseCommand ==
    /\ pc = "serve" /\ stdin
    /\ \/ SendOk("CLOSE") /\ pc' = "done"
       \/ SendErr /\ pc' = "exited"
    /\ UNCHANGED <<should_find, stdin, wish>>

\* stdin ends, cannot be read, or holds a line that is not a command.
StdinEnds ==
    /\ stdin /\ pc \notin {"done", "exited"}
    /\ stdin' = FALSE
    /\ UNCHANGED <<linkVars, pc, should_find, wish>>

\* The loop meets the end of stdin, sends CLOSE and returns, or the error.
InputClosed ==
    /\ pc = "serve" /\ ~stdin
    /\ \/ pc' = "done" /\ (SendOk("CLOSE") \/ SendErr)
       \/ pc' = "exited" /\ DropLink
    /\ UNCHANGED <<should_find, stdin, wish>>

UserCommand ==
    \/ \E command \in {"FIND", "CANCEL", "MESSAGE", "LEAVE", "NEXT"} :
         Command(command)
    \/ OversizedMessage \/ CloseCommand

------------------------------------------------------------------------------
(* Events.                                                                 *)

\* Mutant of RememberEvent: a match ends the search, as in the session worker.
RememberSearchOnly(op) ==
    should_find' = CASE op = "SEARCHING" -> TRUE
                     [] op \in {"MATCHED", "PEER_LEFT"} -> FALSE
                     [] OTHER -> should_find

\* searching and matched set should_find, peer_left clears it.
RememberEvent(op) ==
    should_find' = CASE op \in {"SEARCHING", "MATCHED"} -> TRUE
                     [] op = "PEER_LEFT" -> FALSE
                     [] OTHER -> should_find

\* Mutant of AfterEvent: a refusal is only printed.
AfterEventNoRetry(op) == "serve"

\* RATE_LIMITED and SERVER_BUSY start the sleep when should_find is set.
AfterEvent(op) == IF op = "BUSY" /\ should_find THEN "retry" ELSE "serve"

HandleEvent ==
    /\ pc = "serve" /\ TakeEvent
    /\ LET op == Head(s2c).op IN
         /\ RememberEvent(op)
         /\ pc' = AfterEvent(op)
         /\ wish' = IF op = "MATCHED" \/ (op = "ERROR" /\ wish = "search")
                      THEN "none" ELSE wish
    /\ UNCHANGED stdin

\* The event cannot be written to stdout.
OutputFails ==
    /\ pc = "serve" /\ s2c # <<>>
    /\ DropLink
    /\ pc' = "exited"
    /\ UNCHANGED <<should_find, stdin, wish>>

RetryElapsed ==
    /\ pc = "retry"
    /\ SendOrExit("FIND")
    /\ UNCHANGED <<should_find, stdin, wish>>

EndOfStream ==
    /\ pc = "serve" /\ Drained
    /\ DropLink
    /\ pc' = "backoff"
    /\ UNCHANGED <<should_find, stdin, wish>>

------------------------------------------------------------------------------

LoopStep ==
    \/ ConnectOk \/ ConnectFails \/ IdentityFails \/ BackoffElapsed
    \/ FindOnConnect \/ InputClosed \/ HandleEvent \/ OutputFails
    \/ RetryElapsed \/ EndOfStream

Service == (ServiceReplies \/ ServicePeer) /\ UNCHANGED loopVars

LinkLost == Lose /\ UNCHANGED loopVars

Next == LoopStep \/ UserCommand \/ StdinEnds \/ Service \/ LinkLost

Spec == Init /\ [][Next]_vars

\* The runtime polls the loop, timers fire and the service answers.
Fairness ==
    /\ WF_vars(LoopStep)
    /\ WF_vars(ServiceReplies /\ UNCHANGED loopVars)

FairSpec == Spec /\ Fairness

------------------------------------------------------------------------------
(* What the loop promises.                                                 *)

Returned == pc \in {"done", "exited"}

\* From some point on the connection neither fails nor is lost, and nothing is
\* refused.
NetworkHolds == <>[][~LinkLost /\ ~ConnectFails]_vars
ServiceWilling == <>[][~ServiceRefuses]_vars

\* With nothing on its way, a search or a conversation the service is holding
\* is one the loop would look for again after a reconnect.
SearchSurvivesReconnect ==
    pc = "serve" /\ Quiet /\ phase \in {"waiting", "chatting"} => should_find

\* Once the network holds and the service stops refusing, a search the user
\* asked for is under way, however often it was refused before.
RefusedSearchIsRetried ==
    NetworkHolds /\ ServiceWilling =>
        (wish = "search" ~> phase = "waiting" \/ wish # "search" \/ Returned)

\* PROTOCOL.md: a client waits for READY before it sends a command that changes
\* its state.  The code does not: FindOnConnect sends the FIND of a reconnect
\* first.
ReadyFirst == view = "handshake" => \A i \in DOMAIN c2s : c2s[i] = "CLOSE"

------------------------------------------------------------------------------
(* The inductive invariant.                                                *)

\* The events that change should_find.
Marks == {"SEARCHING", "MATCHED", "PEER_LEFT"}

\* A conversation that the loop has seen begin, or is about to, and not end is
\* going on.
ConversationGoesOn ==
    link = "up" =>
        /\ NoneOf(Marks) /\ view = "chatting" => phase = "chatting"
        /\ \A i \in DOMAIN s2c :
             LastOf(Marks, i) /\ s2c[i].op = "MATCHED" => phase = "chatting"

\* A search or a conversation the service holds is remembered once the events on
\* their way are taken, unless a LEAVE is on its way to end it.
SearchIsDue ==
    ObedientUser /\ link = "up" /\ writer /\ phase \in {"waiting", "chatting"} =>
        /\ NoneOf(Marks) =>
             should_find \/ (phase = "chatting" /\ Queued("LEAVE"))
        /\ \A i \in DOMAIN s2c : LastOf(Marks, i) => s2c[i].op # "PEER_LEFT"

ConnectInv == TypeOK /\ LinkInv /\ ConversationGoesOn /\ SearchIsDue

===============================================================================
