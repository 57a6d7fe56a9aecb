--------------------------- MODULE ClientConnection ---------------------------
(***************************************************************************)
(* What becomes of the bytes a connection receives: the reader task of     *)
(* AingleClient (crates/aingle-client/src/lib.rs: connect_with_session and *)
(* map_event) decodes them, hands what belongs to a conversation to the    *)
(* history thread and the rest to next_event, over two bounded queues it   *)
(* never waits for.  The writer task and the phases of the protocol are    *)
(* ClientLink's, the files the history thread writes HistoryStore's.       *)
(*                                                                         *)
(* The service is external: it sends the frames of docs/PROTOCOL.md in an  *)
(* order the protocol allows, or bytes of no frame (a Stray: a frame of a  *)
(* later version).  Timestamps are left out, and so is a client without a  *)
(* history_dir.                                                            *)
(***************************************************************************)
EXTENDS Codec, FiniteSets, TLC

CONSTANTS
    HistoryCapacity,    \* of the history queue: 128 in the code
    EventCapacity,      \* of the event queue: 128 in the code
    MaxFrames,          \* bound on what the service sends
    Asides,             \* server frames that belong to no conversation
    Strays,             \* byte strings that are no frame
    Visibility,         \* the values the service uses in a MATCHED,
    Senders, Payloads,  \* in a MESSAGE
    Reasons             \* and in a PEER_LEFT

\* What belongs to a conversation.
Conversational == {"MATCHED", "MESSAGE", "PEER_LEFT"}

ASSUME ConnectionAssumption ==
    /\ HistoryCapacity \in Nat \ {0} /\ EventCapacity \in Nat \ {0}
    /\ MaxFrames \in Nat /\ 0 .. MaxFrames \subseteq Values(LongWidth)
    /\ \A frame \in Asides :
         /\ frame \in ServerFrames /\ EncodableServer(frame)
         /\ frame.op \notin Conversational
    /\ Strays \subseteq Bytes
    /\ Visibility \subseteq Visibilities /\ Senders \subseteq 0 .. 1
    /\ \A payload \in Payloads :
         payload \in Texts /\ Len(payload) <= MaxMessageSize
    /\ Reasons \subseteq EndReasons

VARIABLES
    sent,       \* history: the frames and strays the service has sent
    taken,      \* how many of them the reader has taken
    socket,     \* "open"; "closed" or "failed", once sent is taken
    chat,       \* the service's conversation: [on, id, seq]
    active,     \* the conversation map_event records under, or <<>>
    historyQueue,
    handled,    \* history: the history commands the thread has worked off
    thread,     \* the history thread: "running" or "ended"
    log,        \* history: every event the reader has queued
    unread,     \* how many of them next_event has not returned
    client,     \* "held", or "dropped" by the adapter
    reader      \* the reader task: "running" or "ended"

serviceVars == <<sent, socket, chat>>
historyVars == <<historyQueue, handled, thread>>
vars == <<sent, taken, socket, chat, active, historyQueue, handled, thread,
          log, unread, client, reader>>

HistoryCommands ==
    [do : {"begin", "append", "finish"}, id : Bytes, seq : Nat]

ConnectionTypeOK ==
    /\ taken \in 0 .. Len(sent) /\ Len(sent) <= MaxFrames
    /\ socket \in {"open", "closed", "failed"}
    /\ active \in Bytes
    /\ \A i \in DOMAIN historyQueue : historyQueue[i] \in HistoryCommands
    /\ Len(historyQueue) <= HistoryCapacity
    /\ thread \in {"running", "ended"}
    /\ unread \in 0 .. Len(log) /\ unread <= EventCapacity
    /\ client \in {"held", "dropped"}
    /\ reader \in {"running", "ended"}

Init ==
    /\ sent = <<>> /\ taken = 0 /\ socket = "open"
    /\ chat = [on |-> FALSE, id |-> 0, seq |-> 0]
    /\ active = <<>>
    /\ historyQueue = <<>> /\ handled = <<>> /\ thread = "running"
    /\ log = <<>> /\ unread = 0
    /\ client = "held" /\ reader = "running"

------------------------------------------------------------------------------
(* The service (external). *)

Send(item) ==
    /\ socket = "open" /\ Len(sent) < MaxFrames
    /\ sent' = Append(sent, item)
    /\ UNCHANGED <<taken, socket, active, historyVars, log, unread, client,
                   reader>>

ServiceMatches ==
    /\ ~chat.on
    /\ chat' = [on |-> TRUE, id |-> chat.id + 1, seq |-> 0]
    /\ \E visibility \in Visibility :
         Send([op |-> "MATCHED",
               conversation |-> BigEndian(chat.id + 1, UuidWidth),
               peer |-> <<>>, visibility |-> visibility])

ServiceRelays ==
    /\ chat.on
    /\ chat' = [chat EXCEPT !.seq = @ + 1]
    /\ \E sender \in Senders, payload \in Payloads :
         Send([op |-> "MESSAGE", seq |-> chat.seq + 1, sender |-> sender,
               payload |-> payload])

ServiceEndsChat ==
    /\ chat.on
    /\ chat' = [chat EXCEPT !.on = FALSE]
    /\ \E reason \in Reasons :
         Send([op |-> "PEER_LEFT", final_seq |-> chat.seq,
               reason |-> reason])

ServiceAside ==
    /\ \E frame \in Asides : Send(frame)
    /\ UNCHANGED chat

ServiceStray ==
    /\ \E bytes \in Strays : Send([op |-> "STRAY", bytes |-> bytes])
    /\ UNCHANGED chat

\* The stream ends with a close frame or the end of the file, or with an error.
SocketEnds ==
    /\ socket = "open"
    /\ socket' \in {"closed", "failed"}
    /\ UNCHANGED <<sent, taken, chat, active, historyVars, log, unread, client,
                   reader>>

\* What travels on the socket.
Wire(item) == IF item.op = "STRAY" THEN item.bytes ELSE EncodeServer(item)

------------------------------------------------------------------------------
(* The reader task. *)

VisibilityName == 0 :> "public" @@ 1 :> "unlisted" @@ 2 :> "private"

ReasonName == 0 :> "left" @@ 1 :> "next" @@ 2 :> "disconnected"
              @@ 3 :> "timeout" @@ 4 :> "protocol_error"

SenderName(sender) == IF sender = 0 THEN "self" ELSE "peer"

EventOf(frame) ==
    CASE frame.op = "MATCHED" ->
           [frame EXCEPT !.visibility = VisibilityName[@]]
      [] frame.op = "MESSAGE" -> [frame EXCEPT !.sender = SenderName(@)]
      [] frame.op = "PEER_LEFT" -> [frame EXCEPT !.reason = ReasonName[@]]
      [] OTHER -> frame

Failure(cause) == [op |-> "error", cause |-> cause]

\* Mutant: an event that does not fit is dropped.
ReportLossy(event) ==
    /\ UNCHANGED reader
    /\ IF client = "held" /\ unread < EventCapacity
         THEN log' = Append(log, event) /\ unread' = unread + 1
         ELSE UNCHANGED <<log, unread>>

\* try_send: an event that does not fit, or that nobody is left to read, ends
\* the reader.
Report(event) ==
    IF client = "held" /\ unread < EventCapacity
      THEN /\ log' = Append(log, event)
           /\ unread' = unread + 1
           /\ UNCHANGED reader
      ELSE /\ reader' = "ended"
           /\ UNCHANGED <<log, unread>>

Record(do, id, seq) == [do |-> do, id |-> id, seq |-> seq]

\* The history command of a frame, if it has one.
HistoryOf(frame) ==
    CASE frame.op = "MATCHED" -> <<Record("begin", frame.conversation, 0)>>
      [] frame.op = "MESSAGE" /\ active # <<>> ->
           <<Record("append", active, frame.seq)>>
      [] frame.op = "PEER_LEFT" /\ active # <<>> ->
           <<Record("finish", active, frame.final_seq)>>
      [] OTHER -> <<>>

\* history_send: try_send, whose failure is map_event's.
HistoryHasRoom(frame) ==
    Len(historyQueue) + Len(HistoryOf(frame)) <= HistoryCapacity

ActiveAfter(frame) ==
    CASE frame.op = "MATCHED" -> frame.conversation
      [] frame.op = "PEER_LEFT" -> <<>>
      [] OTHER -> active

Incoming == DecodeServer(Wire(sent[taken + 1]))

Take ==
    /\ reader = "running" /\ taken < Len(sent)
    /\ taken' = taken + 1
    /\ UNCHANGED <<serviceVars, handled, thread, client>>

\* map_event returns Ok: a PONG is consumed, anything else is an event.
ReadFrame ==
    /\ Take
    /\ IsFrame(Incoming) /\ HistoryHasRoom(Incoming)
    /\ historyQueue' = historyQueue \o HistoryOf(Incoming)
    /\ active' = ActiveAfter(Incoming)
    /\ IF Incoming.op = "PONG" THEN UNCHANGED <<log, unread, reader>>
                               ELSE Report(EventOf(Incoming))

\* Mutant: the failure of history_send is ignored.
HistoryFullIgnored ==
    /\ Take
    /\ IsFrame(Incoming) /\ ~HistoryHasRoom(Incoming)
    /\ Report(EventOf(Incoming))
    /\ active' = ActiveAfter(Incoming)
    /\ UNCHANGED historyQueue

\* history_send fails before active is touched: the error takes the event's
\* place and the reader goes on.
HistoryFull ==
    /\ Take
    /\ IsFrame(Incoming) /\ ~HistoryHasRoom(Incoming)
    /\ Report(Failure("history"))
    /\ UNCHANGED <<active, historyQueue>>

ReadMalformed ==
    /\ Take
    /\ ~IsFrame(Incoming)
    /\ Report(Failure("protocol"))
    /\ UNCHANGED <<active, historyQueue>>

\* A read error is reported; the stream is over after it.
ReadFails ==
    /\ reader = "running" /\ taken = Len(sent) /\ socket = "failed"
    /\ socket' = "closed"
    /\ Report(Failure("network"))
    /\ UNCHANGED <<sent, taken, chat, active, historyVars, client>>

EndOfStream ==
    /\ reader = "running" /\ taken = Len(sent) /\ socket = "closed"
    /\ reader' = "ended"
    /\ UNCHANGED <<serviceVars, taken, active, historyVars, log, unread, client>>

Read == ReadFrame \/ HistoryFull \/ ReadMalformed \/ ReadFails \/ EndOfStream

------------------------------------------------------------------------------
(* The history thread. *)

\* Mutant: a failed write ends the thread.
AfterWriteStops(ok) == thread' = IF ok THEN "running" ELSE "ended"

\* A failed write is logged; the thread goes on.
AfterWrite(ok) == UNCHANGED thread

HandleHistory ==
    /\ thread = "running" /\ historyQueue # <<>>
    /\ historyQueue' = Tail(historyQueue)
    /\ handled' = Append(handled, Head(historyQueue))
    /\ \E ok \in BOOLEAN : AfterWrite(ok)
    /\ UNCHANGED <<serviceVars, taken, active, log, unread, client, reader>>

\* blocking_recv returns None: the reader has dropped its sender and nothing
\* is left in the queue.
ThreadEnds ==
    /\ thread = "running" /\ historyQueue = <<>> /\ reader = "ended"
    /\ thread' = "ended"
    /\ UNCHANGED <<serviceVars, taken, active, historyQueue, handled, log,
                   unread, client, reader>>

------------------------------------------------------------------------------
(* The adapter. *)

NextEvent ==
    /\ client = "held" /\ unread > 0
    /\ unread' = unread - 1
    /\ UNCHANGED <<serviceVars, taken, active, historyVars, log, client, reader>>

\* The adapter drops the client; the reader notices when it next reports.
DropClient ==
    /\ client = "held"
    /\ client' = "dropped" /\ unread' = 0
    /\ UNCHANGED <<serviceVars, taken, active, historyVars, log, reader>>

\* main returns: the runtime drops the reader and waits for the thread.
Shutdown ==
    /\ client = "dropped" /\ reader = "running"
    /\ reader' = "ended"
    /\ UNCHANGED <<serviceVars, taken, active, historyVars, log, unread, client>>

------------------------------------------------------------------------------
Service ==
    \/ ServiceMatches \/ ServiceRelays \/ ServiceEndsChat
    \/ ServiceAside \/ ServiceStray
    \/ SocketEnds

Next == Service \/ Read \/ HandleHistory \/ ThreadEnds
        \/ NextEvent \/ DropClient \/ Shutdown

Spec == Init /\ [][Next]_vars

\* The thread runs on a thread of its own; nothing is assumed of the rest.
FairSpec == Spec /\ WF_vars(HandleHistory)

------------------------------------------------------------------------------
(* Properties. *)

\* What is decoded is what the service has sent, and a stray is refused.
WireAgrees ==
    \A i \in DOMAIN sent :
        LET frame == DecodeServer(Wire(sent[i])) IN
        IF sent[i].op = "STRAY" THEN ~IsFrame(frame) ELSE frame = sent[i]

\* The place of the k-th frame among those that are for the adapter to see.
Place(k) == Cardinality({j \in 1 .. k : sent[j].op # "PONG"})

\* What next_event may make of a frame.
Reported(item, event) ==
    \/ item.op = "STRAY" /\ event = Failure("protocol")
    \/ item.op # "STRAY" /\ event = EventOf(item)
    \/ item.op \in Conversational /\ event = Failure("history")

\* next_event is the service's stream: every frame is reported in its place, as
\* what the service sent or as an error, and a reader that goes on has left
\* none out, whatever was full.
NoGaps ==
    /\ \A k \in 1 .. taken :
         sent[k].op # "PONG" /\ Place(k) <= Len(log) =>
             Reported(sent[k], log[Place(k)])
    /\ \A i \in DOMAIN log :
         i > Place(taken) => log[i] = Failure("network") /\ i = Len(log)
    /\ reader = "running" => Len(log) >= Place(taken)

\* No error has been reported up to the n-th event.
Trusted(n) == \A i \in 1 .. n : log[i].op # "error"

\* The events that belong to a conversation, and how many of them there are.
InConversation(i) == log[i].op \in Conversational
Shown(n) == Cardinality({i \in 1 .. n : InConversation(i)})

\* The event that last named a conversation.
Names(m, n) ==
    log[m].op = "MATCHED" /\ \A j \in m + 1 .. n : log[j].op # "MATCHED"

\* The history command an event of a conversation stands for.
CommandOf(event, id) ==
    CASE event.op = "MATCHED" -> Record("begin", id, 0)
      [] event.op = "MESSAGE" -> Record("append", id, event.seq)
      [] event.op = "PEER_LEFT" -> Record("finish", id, event.final_seq)

Recorded(command, i) ==
    \E m \in 1 .. i :
        Names(m, i) /\ command = CommandOf(log[i], log[m].conversation)

History == handled \o historyQueue

\* The history has what the i-th event stands for, in its place.
Filed(i) ==
    Shown(i) <= Len(History) /\ Recorded(History[Shown(i)], i)

\* Up to the first error it reports, a client's history is the conversation it
\* shows: nothing shown is missing from it, and nothing is filed under another
\* conversation.
HistoryIsShown ==
    /\ \A i \in DOMAIN log :
         Trusted(i) /\ InConversation(i) => Filed(i)
    /\ reader = "running" /\ Trusted(Len(log)) =>
         Len(History) = Shown(Len(log))

\* What was recorded is written, or its failure logged, also after a failed
\* write and when the client is dropped.
HistoryIsWorkedOff == []<>(historyQueue = <<>>)

===============================================================================
