---------------------------- MODULE SessionWorker ----------------------------
(***************************************************************************)
(* The durable session worker of crates/aingle-cli/src/session.rs:         *)
(* network_loop with the handlers it calls, over one ClientLink at a time. *)
(*                                                                         *)
(* network_loop is one task; between two awaits on its select! it runs a   *)
(* handler to its end, so every handler is one action.  Commands are the   *)
(* environment's choice: a command the worker answers with an error        *)
(* before it changes anything is not an action (it is a stutter).  The     *)
(* back-off delay is one step of arbitrary duration.                       *)
(***************************************************************************)
EXTENDS ClientLink

CONSTANT PatientUser    \* TRUE: no find or next while a search is on its way

ASSUME PatientUserAssumption == PatientUser \in BOOLEAN

VARIABLES
    pc,                 \* where network_loop is
    state,              \* status.state
    conversation_id,    \* status.conversation_id, 0 for None
    searching_intent,   \* RuntimeState.searching_intent
    listening,          \* the control listener still accepts commands
    stance              \* history: the last acknowledged wish of the user

workerVars ==
    <<pc, state, conversation_id, searching_intent, listening, stance>>
vars == <<link, writer, c2s, s2c, phase, matches, view, workerVars>>

States == {"starting", "ready", "searching", "matched", "peer_left",
           "leaving", "closed", "failed"}

\* "load": before Config::load and Identity::load_default; "connect": the
\* connection future is pending; "serve": the connected select!; "backoff":
\* wait_backoff_or_close; "await_close": wait_until_close; "done": returned.
Places == {"load", "connect", "serve", "backoff", "await_close", "done"}

\* "find", "next": the user asked for a match and nothing has answered yet.
\* "cancelled": a search was cancelled.  "dismissed": a cancel or leave was
\* acknowledged without effect.  "close_refused": a close was answered with an
\* error.  "none": anything else.
Stances == {"none", "find", "next", "cancelled", "dismissed", "close_refused"}

WorkerTypeOK ==
    /\ pc \in Places
    /\ state \in States
    /\ conversation_id \in 0 .. MaxConversations
    /\ searching_intent \in BOOLEAN
    /\ listening \in BOOLEAN
    /\ stance \in Stances

\* Every variable stays in its type: what network_loop and the link hold.
TypeOK == LinkTypeOK /\ WorkerTypeOK

Init ==
    /\ LinkInit
    /\ pc = "load"
    /\ state = "starting"
    /\ conversation_id = 0
    /\ searching_intent = FALSE
    /\ listening = TRUE
    /\ stance = "none"

------------------------------------------------------------------------------
(* Status updates: set_failed, set_reconnecting, set_closed.               *)

SetFailed == state' = "failed" /\ UNCHANGED conversation_id

SetReconnecting == state' = "starting" /\ conversation_id' = 0

SetClosed == state' = "closed" /\ conversation_id' = 0

------------------------------------------------------------------------------
(* Loading and connecting.                                                 *)

\* Config::load and Identity::load_default succeed, before every connection.
LoadOk ==
    /\ pc = "load"
    /\ pc' = "connect"
    /\ UNCHANGED <<linkVars, state, conversation_id, searching_intent,
                   listening, stance>>

\* Either fails: the worker lives on only to be closed.
LoadFails ==
    /\ pc = "load"
    /\ pc' = "await_close"
    /\ SetFailed
    /\ UNCHANGED <<linkVars, searching_intent, listening, stance>>

ConnectOk ==
    /\ pc = "connect"
    /\ pc' = "serve"
    /\ Open
    /\ UNCHANGED <<state, conversation_id, searching_intent, listening, stance>>

ConnectFails ==
    /\ pc = "connect"
    /\ pc' = "backoff"
    /\ SetReconnecting
    /\ UNCHANGED <<linkVars, searching_intent, listening, stance>>

\* wait_backoff_or_close returns false and the loop starts again.
BackoffElapsed ==
    /\ pc = "backoff"
    /\ pc' = "load"
    /\ UNCHANGED <<linkVars, state, conversation_id, searching_intent,
                   listening, stance>>

------------------------------------------------------------------------------
(* Commands: handle_connected_command and handle_unconnected_command.      *)

\* The command is accepted: the intent is set first, then the frames are sent,
\* then the status is updated.  A failed send is answered with an error and
\* leaves the status alone, but the intent has already changed.
Command(command, intent, next_state, wish) ==
    /\ pc = "serve" /\ listening
    /\ searching_intent' = intent
    /\ \/ SendOk(command) /\ state' = next_state /\ stance' = wish
       \/ SendErr /\ stance' = "none" /\ UNCHANGED state
    /\ UNCHANGED <<pc, conversation_id, listening>>

\* The bound PatientUser puts on the environment.
NoSearchOnItsWay ==
    /\ \A i \in DOMAIN c2s : c2s[i] # "FIND"
    /\ \A i \in DOMAIN s2c : s2c[i].op # "SEARCHING"

MayAsk == PatientUser => NoSearchOnItsWay

\* Mutant of Find: accepted before READY.
FindEarly ==
    /\ state \in {"starting", "ready", "peer_left"} /\ MayAsk
    /\ Command("FIND", TRUE, state, "find")

\* Mutant of Find: the intent waits for SEARCHING.
FindForgets ==
    /\ state \in {"ready", "peer_left"} /\ MayAsk
    /\ Command("FIND", searching_intent, state, "find")

Find ==
    /\ state \in {"ready", "peer_left"} /\ MayAsk
    /\ Command("FIND", TRUE, state, "find")

NextPeer ==
    /\ state = "matched" /\ MayAsk
    /\ Command("NEXT", TRUE, "leaving", "next")

SendMessage ==
    /\ state = "matched"
    /\ Command("MESSAGE", searching_intent, state, stance)

\* A message over 16 KiB passes the control endpoint (64 KiB) and fails in the
\* client's writer task.
SendOversizedMessage ==
    /\ pc = "serve" /\ listening /\ state = "matched"
    /\ SendUnencodable
    /\ UNCHANGED workerVars

\* Mutant of CancelSearch: valid in a conversation, too.
CancelMatched ==
    /\ state \in {"searching", "matched"}
    /\ Command("CANCEL", FALSE, "ready", "cancelled")

\* Mutant of CancelSearch: the status waits for an answer to CANCEL.
CancelWaits ==
    /\ state = "searching"
    /\ Command("CANCEL", FALSE, "searching", "cancelled")

\* Mutant of CancelSearch: the intent survives.
CancelKeepsIntent ==
    /\ state = "searching"
    /\ Command("CANCEL", searching_intent, "ready", "cancelled")

\* cancel or leave of an active search: the status is ready at once.
CancelSearch ==
    /\ state = "searching"
    /\ Command("CANCEL", FALSE, "ready", "cancelled")

\* Mutant of LeaveConversation: the status does not wait for PEER_LEFT.
LeaveAtOnce ==
    /\ state = "matched"
    /\ Command("LEAVE", FALSE, "ready", "none")

LeaveConversation ==
    /\ state = "matched"
    /\ Command("LEAVE", FALSE, "leaving", "none")

\* cancel outside a search, or leave outside a search and a conversation: the
\* command is acknowledged and nothing is sent or changed.
LeaveNothing ==
    /\ pc = "serve" /\ listening /\ state # "searching"
    /\ stance' = "dismissed"
    /\ UNCHANGED <<linkVars, pc, state, conversation_id, searching_intent,
                   listening>>

\* close while connected: flush CLOSE, then set_closed and return.  When the
\* frame cannot be sent the close is refused and the worker goes on.
CloseConnected ==
    /\ pc = "serve" /\ listening
    /\ searching_intent' = FALSE
    /\ \/ SendOk("CLOSE") /\ SetClosed /\ pc' = "done" /\ stance' = "none"
       \/ /\ SendErr
          /\ stance' = "close_refused"
          /\ UNCHANGED <<pc, state, conversation_id>>
    /\ UNCHANGED listening

\* close while connecting, backing off or failed.
CloseUnconnected ==
    /\ pc \in {"connect", "backoff", "await_close"} /\ listening
    /\ pc' = "done"
    /\ SetClosed
    /\ stance' = "none"
    /\ UNCHANGED <<linkVars, searching_intent, listening>>

UserCommand ==
    \/ Find \/ NextPeer \/ SendMessage \/ SendOversizedMessage
    \/ CancelSearch \/ LeaveConversation \/ LeaveNothing
    \/ CloseConnected \/ CloseUnconnected

------------------------------------------------------------------------------
(* Events: record_event, and the FIND that follows a READY.                *)

Incoming(op) == pc = "serve" /\ s2c # <<>> /\ Head(s2c).op = op

\* Mutant of Disconnect: a lost connection is treated like a failed load.
DisconnectForGood ==
    /\ pc' = "await_close"
    /\ SetReconnecting
    /\ DropLink

\* set_reconnecting, the client is dropped and wait_backoff_or_close starts.
Disconnect ==
    /\ pc' = "backoff"
    /\ SetReconnecting
    /\ DropLink

\* Mutant of RecordReady: a remembered find is not sent again.
RecordReadyOnly ==
    /\ Incoming("READY")
    /\ TakeEvent
    /\ state' = "ready"
    /\ UNCHANGED <<pc, conversation_id, searching_intent, listening, stance>>

\* READY.  With searching_intent set the loop sends FIND before it listens to
\* anything else; when that fails it gives the connection up.
RecordReady ==
    /\ Incoming("READY")
    /\ \/ /\ ~searching_intent
          /\ TakeEvent
          /\ state' = "ready"
          /\ UNCHANGED <<pc, conversation_id>>
       \/ /\ searching_intent /\ writer
          /\ Len(c2s) < MaxInFlight
          /\ c2s' = IF link = "up" THEN Append(c2s, "FIND") ELSE c2s
          /\ s2c' = Tail(s2c)
          /\ view' = Head(s2c).after
          /\ state' = "ready"
          /\ UNCHANGED <<pc, conversation_id, link, writer, phase, matches>>
       \/ /\ searching_intent /\ (~writer \/ link = "lost")
          /\ Disconnect
    /\ UNCHANGED <<searching_intent, listening, stance>>

RecordSearching ==
    /\ Incoming("SEARCHING")
    /\ TakeEvent
    /\ state' = "searching"
    /\ searching_intent' = TRUE
    /\ UNCHANGED <<pc, conversation_id, listening, stance>>

\* Mutant of RecordMatched: the answered search stays wanted.
RecordMatchedKeepsIntent ==
    /\ Incoming("MATCHED")
    /\ TakeEvent
    /\ state' = "matched"
    /\ conversation_id' = Head(s2c).conv
    /\ stance' = IF stance \in {"find", "next"} THEN "none" ELSE stance
    /\ UNCHANGED <<pc, listening, searching_intent>>

RecordMatched ==
    /\ Incoming("MATCHED")
    /\ TakeEvent
    /\ state' = "matched"
    /\ conversation_id' = Head(s2c).conv
    /\ searching_intent' = FALSE
    /\ stance' = IF stance \in {"find", "next"} THEN "none" ELSE stance
    /\ UNCHANGED <<pc, listening>>

\* Mutant of RecordPeerLeft: only a departure of the peer changes the status.
RecordPeerLeftOnly ==
    /\ Incoming("PEER_LEFT")
    /\ TakeEvent
    /\ state' = IF state = "leaving" THEN state ELSE "peer_left"
    /\ conversation_id' = 0
    /\ searching_intent' = FALSE
    /\ UNCHANGED <<pc, listening, stance>>

RecordPeerLeft ==
    /\ Incoming("PEER_LEFT")
    /\ TakeEvent
    /\ state' = "peer_left"
    /\ conversation_id' = 0
    /\ searching_intent' = FALSE
    /\ UNCHANGED <<pc, listening, stance>>

\* MESSAGE, RATE_LIMITED, SERVER_BUSY and ERROR leave the status alone.
RecordOther ==
    /\ \E op \in {"MESSAGE", "BUSY", "ERROR"} : Incoming(op)
    /\ TakeEvent
    /\ stance' = IF Head(s2c).op # "MESSAGE" /\ stance \in {"find", "next"}
                   THEN "none" ELSE stance
    /\ UNCHANGED <<pc, state, conversation_id, searching_intent, listening>>

\* record_event cannot write session.json or events.jsonl: it has already
\* changed the status and the intent as above when it fails.
RecordFails ==
    /\ pc = "serve" /\ s2c # <<>>
    /\ DropLink
    /\ LET op == Head(s2c).op IN
         /\ searching_intent' = CASE op = "SEARCHING" -> TRUE
                                  [] op \in {"MATCHED", "PEER_LEFT"} -> FALSE
                                  [] OTHER -> searching_intent
         /\ conversation_id' = CASE op = "MATCHED" -> Head(s2c).conv
                                 [] op = "PEER_LEFT" -> 0
                                 [] OTHER -> conversation_id
    /\ state' = "failed"
    /\ pc' = "done"
    /\ UNCHANGED <<listening, stance>>

EndOfStream ==
    /\ pc = "serve" /\ Drained
    /\ Disconnect
    /\ UNCHANGED <<searching_intent, listening, stance>>

RecordEvent ==
    \/ RecordReady \/ RecordSearching \/ RecordMatched \/ RecordPeerLeft
    \/ RecordOther

------------------------------------------------------------------------------
(* The end of the command channel.                                         *)

\* control_server returns on the first accept that fails.
ListenerFails ==
    /\ listening /\ pc # "done"
    /\ listening' = FALSE
    /\ UNCHANGED <<linkVars, pc, state, conversation_id, searching_intent,
                   stance>>

\* commands.recv returns None: every place that waits on it returns, leaving
\* the status as it is; the connected loop tries to send CLOSE first.
CommandsClosed ==
    /\ ~listening
    /\ pc \in {"connect", "serve", "backoff", "await_close"}
    /\ pc' = "done"
    /\ IF pc = "serve" THEN SendOk("CLOSE") \/ SendErr ELSE UNCHANGED linkVars
    /\ UNCHANGED <<state, conversation_id, searching_intent, listening, stance>>

------------------------------------------------------------------------------

WorkerStep ==
    \/ LoadOk \/ LoadFails \/ ConnectOk \/ ConnectFails \/ BackoffElapsed
    \/ RecordEvent \/ RecordFails \/ EndOfStream \/ CommandsClosed

Service == (ServiceReplies \/ ServicePeer) /\ UNCHANGED workerVars

LinkLost == Lose /\ UNCHANGED workerVars

Next == UserCommand \/ WorkerStep \/ ListenerFails \/ Service \/ LinkLost

Spec == Init /\ [][Next]_vars

\* The runtime keeps polling network_loop, so a step it can take is taken; the
\* service answers what it receives.  Users, peers and failures owe nothing.
Fairness ==
    /\ WF_vars(WorkerStep)
    /\ WF_vars(ServiceReplies /\ UNCHANGED workerVars)

FairSpec == Spec /\ Fairness

------------------------------------------------------------------------------
(* What network_loop promises, for every user.                             *)

Serving == pc = "serve"

\* A state between matched and the departure of the peer carries the id of the
\* conversation, and no other state does (record_event, set_reconnecting and
\* set_closed keep the two fields together; set_failed does not try to).
StatusCoherent ==
    state # "failed" =>
        (conversation_id # 0 <=> state \in {"matched", "leaving"})

\* Before READY has been recorded nothing is sent (PROTOCOL.md, "Client hello")
\* but the CLOSE of a worker that ends with it: the status is starting until then,
\* also after a reconnect, and of the commands that send starting accepts only close.
ReadyFirst ==
    view = "handshake" =>
        /\ c2s # <<>> => pc = "done"
        /\ \A i \in DOMAIN c2s : c2s[i] = "CLOSE"

\* The worker ends only in closed or failed, unless its control listener died.
ExitExplained ==
    pc = "done" => state \in {"closed", "failed"} \/ ~listening

\* An acknowledged find stays the worker's intent, through any number of
\* reconnects, until it is answered, withdrawn or refused.
AcknowledgedFindIsRemembered ==
    stance = "find" /\ pc # "done" => searching_intent

\* The status never runs behind or ahead of the frames it was computed from:
\* it says matched or leaving exactly while the last recorded frame left the
\* connection in a conversation.
StatusFollowsFrames ==
    Serving => (state \in {"matched", "leaving"} <=> view = "chatting")

\* The table of PROTOCOL.md, "Session state transitions".
DocumentedTransitions ==
    {<<"starting", "ready">>, <<"starting", "failed">>,
     <<"ready", "searching">>, <<"peer_left", "searching">>,
     <<"searching", "matched">>, <<"searching", "ready">>,
     <<"matched", "leaving">>, <<"leaving", "peer_left">>}
      \cup ({"ready", "searching", "matched", "peer_left", "leaving"}
              \X {"starting"})
      \cup ((States \ {"closed"}) \X {"closed"})

\* What the code adds to it: a MATCHED that crossed the CANCEL, a peer that
\* leaves first, and an event that cannot be recorded.
UndocumentedTransitions ==
    {<<"ready", "matched">>, <<"matched", "peer_left">>}
      \cup ((States \ {"closed"}) \X {"failed"})

\* The status changes only along these edges, whatever the interleaving of
\* commands and frames; closed is terminal.
StateTransitions ==
    [][state' # state => <<state, state'>> \in DocumentedTransitions
                                                \cup UndocumentedTransitions]_vars

(* What holds once nothing is on its way. *)

\* With nothing in flight on a live connection the status names the service's
\* phase, and the conversation is the service's.
StatusAgreesWithService ==
    Serving /\ Quiet /\ view # "handshake" =>
        /\ phase = "waiting" <=> state = "searching"
        /\ phase = "chatting" <=> state = "matched"
        /\ phase = "chatting" => conversation_id = matches

\* ... and the intent a reconnect would act on is the service's phase, too.
IntentAgreesWithService ==
    Serving /\ Quiet /\ view # "handshake" =>
        /\ phase = "waiting" => searching_intent
        /\ phase = "chatting" => ~searching_intent

\* An acknowledged cancel of an active search ends it.
CancelEndsSearch ==
    Serving /\ Quiet /\ stance = "cancelled" => phase # "waiting"

------------------------------------------------------------------------------
(* What the documentation says and the code does not do.                   *)

\* PROTOCOL.md: a failed session can be closed.  A worker is there to do it,
\* as long as its control listener lives.
FailedCanBeClosed == state = "failed" /\ listening => pc = "await_close"

\* PROTOCOL.md: a client waits for READY, and CLOSE is valid after it.  close is
\* accepted while starting, too, and sends its CLOSE at once.
NothingBeforeReady == view = "handshake" => c2s = <<>>

\* PROTOCOL.md: session close closes any nonterminal session.  At the least, a
\* close is refused only when the transport is gone.
CloseRefusedOnlyByLoss ==
    [][stance # "close_refused" /\ stance' = "close_refused" =>
         link = "lost"]_vars

\* PROTOCOL.md: session cancel cancels a search.  After an acknowledged cancel
\* that nothing followed, the service is not left searching.
DismissedMeansNoSearch ==
    Serving /\ Quiet /\ stance = "dismissed" => phase # "waiting"

\* PROTOCOL.md: session next finds another peer.  A reconnect does not forget
\* an acknowledged next that nothing has answered.
NextIsRemembered ==
    stance = "next" /\ state = "starting" /\ pc # "done" => searching_intent

------------------------------------------------------------------------------
(* What happens in the end.                                                *)

Ended == state \in {"closed", "failed"} \/ pc = "done"

\* From some point on the connection neither fails nor is lost.
NetworkHolds == <>[][~LinkLost /\ ~ConnectFails]_vars

\* Once the network holds, an acknowledged find reaches the service, is
\* refused by it, or is superseded: no reconnect drops it.
FindReachesService ==
    NetworkHolds =>
        (stance = "find" ~> phase = "waiting" \/ stance # "find" \/ Ended)

\* Once the network holds, a session that lost its connection is usable again.
SessionRecovers == NetworkHolds => (state = "starting" ~> state = "ready" \/ Ended)

\* leaving is left, whatever the network does: the service confirms the
\* departure or the connection is gone.
LeavingIsTransient == state = "leaving" ~> state # "leaving" \/ Ended

------------------------------------------------------------------------------
(* The inductive invariant behind the safety properties: the link's own,    *)
(* and how the worker's place and status fit the last frame it took.        *)

\* There is a client while the worker serves, none before it does, and the
\* status is what the place in network_loop allows.
PlaceFitsLink ==
    /\ Serving => link # "none"
    /\ pc \notin {"serve", "done"} => link = "none"
    /\ pc \in {"load", "connect", "backoff"} => state = "starting"
    /\ pc = "await_close" => state = "failed"

\* The status the worker may hold after a frame that left the service in view.
StatusFitsView ==
    Serving =>
        \/ view = "handshake" /\ state = "starting" /\ c2s = <<>>
        \/ view = "connected" /\ state \in {"ready", "searching", "peer_left"}
        \/ view = "waiting" /\ state \in {"ready", "searching"}
        \/ view = "chatting" /\ state \in {"matched", "leaving"}

FindIsPending ==
    stance = "find" /\ pc # "done" =>
        searching_intent /\ state \notin {"matched", "leaving"}

\* Everything the proofs need, checked here first.
WorkerInv ==
    /\ TypeOK
    /\ LinkInv
    /\ PlaceFitsLink
    /\ StatusFitsView
    /\ StatusCoherent
    /\ FindIsPending
    /\ ExitExplained

------------------------------------------------------------------------------
(* The inductive invariant behind the agreement with the service.  It says  *)
(* what the status will be once the frames on their way are recorded, and   *)
(* how that depends on the commands on theirs.                              *)

\* The frames that set the status, and what record_event sets it to.
StatusAfter == [READY |-> "ready", SEARCHING |-> "searching",
                MATCHED |-> "matched", PEER_LEFT |-> "peer_left"]

StatusOps == DOMAIN StatusAfter

\* Once everything on its way is recorded, the status is in S ...
StatusDueIn(S) ==
    /\ NoneOf(StatusOps) => state \in S
    /\ \A i \in DOMAIN s2c : LastOf(StatusOps, i) => StatusAfter[s2c[i].op] \in S

\* ... and the conversation is the last one the service has started.
ConversationDue ==
    /\ NoneOf(StatusOps) => conversation_id = matches
    /\ \A i \in DOMAIN s2c :
         LastOf(StatusOps, i) => s2c[i].op = "MATCHED" /\ s2c[i].conv = matches

Live == Serving /\ link = "up" /\ writer

\* Nothing but the commands on their way keeps the status from naming the
\* service's phase.
PhaseIsDue ==
    Live =>
        /\ phase = "waiting" /\ ~Queued("CANCEL") => StatusDueIn({"searching"})
        /\ phase = "chatting" /\ ~Queued("LEAVE") => StatusDueIn({"matched"})
        /\ phase = "chatting" => ConversationDue
        /\ phase # "chatting" => StatusDueIn(States \ {"matched"})

\* A patient user has at most one search on its way, none while the status is
\* searching, and none that a CANCEL follows.
OneSearch ==
    PatientUser /\ Serving /\ writer =>
        /\ state = "searching" => NoSearchOnItsWay
        /\ Queued("FIND") => NoneOf({"SEARCHING"})
        /\ \A i, j \in DOMAIN c2s : c2s[i] = "FIND" /\ c2s[j] = "FIND" => i = j
        /\ \A i, j \in DOMAIN s2c :
             s2c[i].op = "SEARCHING" /\ s2c[j].op = "SEARCHING" => i = j
        /\ \A i, j \in DOMAIN c2s : c2s[i] = "FIND" /\ c2s[j] = "CANCEL" => j < i

\* Then a status of searching is the service's, too.
SearchIsDue ==
    PatientUser /\ Live /\ (phase # "waiting" \/ Queued("CANCEL")) =>
        StatusDueIn(States \ {"searching"})

\* Before READY is taken the service has nothing else to say.
HelloFirst ==
    Serving /\ view = "handshake" =>
        /\ phase \in {"gone", "handshake", "connected"}
        /\ \A i \in DOMAIN s2c : s2c[i].op = "READY"

IntentFitsStatus ==
    Serving /\ writer =>
        /\ state = "searching" => searching_intent
        /\ state = "matched" => ~searching_intent

\* After an acknowledged cancel there is no search anywhere, and no intent that
\* would start one after a reconnect.
CancelIsFinal ==
    PatientUser /\ stance = "cancelled" /\ pc # "done" =>
        /\ ~searching_intent
        /\ state # "searching"
        /\ NoSearchOnItsWay

AgreementInv ==
    /\ PhaseIsDue
    /\ OneSearch
    /\ SearchIsDue
    /\ HelloFirst
    /\ IntentFitsStatus
    /\ CancelIsFinal

===============================================================================
