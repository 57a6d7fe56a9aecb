------------------------------ MODULE ClientLink ------------------------------
(***************************************************************************)
(* One WebSocket of crates/aingle-client (AingleClient) and the chat       *)
(* service at its other end.                                               *)
(*                                                                         *)
(* The client half is translated from lib.rs: connect_with_session opens   *)
(* the socket, its writer task turns a Command into frames and stops for   *)
(* good after the first frame it cannot write, its reader task feeds the   *)
(* event queue next_event reads, and both die with the client.  The        *)
(* service is not part of the repository: its actions (Service...) are the *)
(* weakest reading of docs/PROTOCOL.md that the code relies on, and        *)
(* PROJECT.json marks them external.                                       *)
(*                                                                         *)
(* A frame is a record [op, conv, after].  op is the opcode, conv the      *)
(* conversation a MATCHED names (0 otherwise).  after is a history field:  *)
(* the phase the service was in once it had emitted the frame.  Content,   *)
(* sequence numbers, agent ids and visibility are left out; RATE_LIMITED   *)
(* and SERVER_BUSY are one opcode, BUSY; PING and PONG are left out        *)
(* (map_event consumes a PONG without an event).                           *)
(***************************************************************************)
EXTENDS Naturals, Sequences

CONSTANTS
    MaxInFlight,        \* capacity of each direction of the socket, in frames
    MaxConversations    \* matches the service makes in one behaviour

ASSUME BoundsAssumption ==
    /\ MaxInFlight \in Nat /\ MaxInFlight >= 2
    /\ MaxConversations \in Nat

VARIABLES
    link,       \* "none": no client; "up"; "lost": ended, not yet noticed
    writer,     \* the writer task of the client is still running
    c2s,        \* frames written by the client, not yet handled
    s2c,        \* frames emitted by the service, not yet taken by next_event
    phase,      \* the service's phase for this connection
    matches,    \* conversations the service has started; the last one's id
    view        \* history: the after of the last frame next_event returned

linkVars == <<link, writer, c2s, s2c, phase, matches, view>>

Phases == {"gone", "handshake", "connected", "waiting", "chatting"}
ClientFrames == {"FIND", "CANCEL", "MESSAGE", "LEAVE", "CLOSE"}
ServerOps == {"READY", "SEARCHING", "MATCHED", "MESSAGE", "PEER_LEFT",
              "BUSY", "ERROR"}
ServerFrames == [op : ServerOps, conv : 0 .. MaxConversations,
                 after : Phases \ {"gone", "handshake"}]

LinkTypeOK ==
    /\ link \in {"none", "up", "lost"}
    /\ writer \in BOOLEAN
    /\ c2s \in Seq(ClientFrames) /\ Len(c2s) <= MaxInFlight
    /\ s2c \in Seq(ServerFrames) /\ Len(s2c) <= MaxInFlight
    /\ phase \in Phases
    /\ matches \in 0 .. MaxConversations
    /\ view \in Phases

LinkInit ==
    /\ link = "none"
    /\ writer = FALSE
    /\ c2s = <<>>
    /\ s2c = <<>>
    /\ phase = "gone"
    /\ matches = 0
    /\ view = "gone"

------------------------------------------------------------------------------
(* The client. *)

\* connect_with_session: the socket is up, the hello is written and the two
\* tasks are spawned.  READY is not awaited.  The client that was there, if
\* any, is dropped.
Replace ==
    /\ link' = "up"
    /\ writer' = TRUE
    /\ phase' = "handshake"
    /\ view' = "handshake"
    /\ c2s' = <<>>
    /\ s2c' = <<>>
    /\ UNCHANGED matches

Open == link = "none" /\ Replace

\* The frames the writer task emits for a Command.
FramesOf(command) ==
    IF command = "NEXT" THEN <<"LEAVE", "FIND">> ELSE <<command>>

\* send returns Ok: every frame of the command was written.  A socket the
\* service has already lost can still swallow them.
SendOk(command) ==
    /\ link # "none" /\ writer
    /\ IF link = "up"
         THEN /\ Len(c2s) + Len(FramesOf(command)) <= MaxInFlight
              /\ c2s' = c2s \o FramesOf(command)
         ELSE UNCHANGED c2s
    /\ writer' = (command # "CLOSE")
    /\ UNCHANGED <<link, s2c, phase, matches, view>>

\* send returns Err: the writer task is gone, or it meets the dead socket and
\* ends with this command.
SendErr ==
    /\ link # "none"
    /\ ~writer \/ link = "lost"
    /\ writer' = FALSE
    /\ UNCHANGED <<link, c2s, s2c, phase, matches, view>>

\* send returns Err for a message encode_client refuses (over 16 KiB): nothing
\* is written, and the writer task ends although the socket is fine.
SendUnencodable ==
    /\ link # "none" /\ writer
    /\ writer' = FALSE
    /\ UNCHANGED <<link, c2s, s2c, phase, matches, view>>

\* next_event returns Some(Ok(Head(s2c))).
TakeEvent ==
    /\ link # "none" /\ s2c # <<>>
    /\ s2c' = Tail(s2c)
    /\ view' = Head(s2c).after
    /\ UNCHANGED <<link, writer, c2s, phase, matches>>

\* next_event returns Some(Err) or None: nothing more arrives on this socket.
Drained == link = "lost" /\ s2c = <<>>

\* The client is dropped: both tasks end and the socket is closed.
DropLink ==
    /\ link' = "none"
    /\ writer' = FALSE
    /\ c2s' = <<>>
    /\ s2c' = <<>>
    /\ phase' = "gone"
    /\ view' = "gone"
    /\ UNCHANGED matches

\* The socket ends: transport loss, a frame map_event rejects, or a full event
\* or history queue (try_send).  The events queued before it are delivered.
Lose ==
    /\ link = "up"
    /\ link' = "lost"
    /\ c2s' = <<>>
    /\ phase' = "gone"
    /\ \E kept \in 0 .. Len(s2c) : s2c' = SubSeq(s2c, 1, kept)
    /\ UNCHANGED <<writer, matches, view>>

------------------------------------------------------------------------------
(* The service (external). *)

Frame(op, conv, after) == [op |-> op, conv |-> conv, after |-> after]

\* The service emits one frame and is then in phase after, leaving extra slots
\* of the socket free.
EmitWithRoom(op, conv, after, extra) ==
    /\ Len(s2c) + extra < MaxInFlight
    /\ s2c' = Append(s2c, Frame(op, conv, after))
    /\ phase' = after

Emit(op, after) == EmitWithRoom(op, 0, after, 0)

ServiceAccepts ==
    /\ phase = "handshake"
    /\ Emit("READY", "connected")
    /\ UNCHANGED <<link, writer, c2s, matches, view>>

\* The phase each command is valid in; anywhere else it earns an ERROR.
ValidPhase(frame) ==
    CASE frame = "FIND" -> "connected"
      [] frame = "CANCEL" -> "waiting"
      [] OTHER -> "chatting"

Refuse(op) == Emit(op, phase)

ServiceHandles ==
    /\ phase \notin {"gone", "handshake"} /\ c2s # <<>> /\ Head(c2s) # "CLOSE"
    /\ c2s' = Tail(c2s)
    /\ LET frame == Head(c2s) IN
         \/ phase # ValidPhase(frame) /\ Refuse("ERROR")
         \/ /\ phase = ValidPhase(frame)
            /\ \/ frame \in {"FIND", "MESSAGE"} /\ Refuse("BUSY")
               \/ frame = "FIND" /\ Emit("SEARCHING", "waiting")
               \/ frame = "MESSAGE" /\ Emit("MESSAGE", "chatting")
               \/ frame = "LEAVE" /\ Emit("PEER_LEFT", "connected")
               \* CANCEL has no acknowledgement.
               \/ frame = "CANCEL" /\ phase' = "connected" /\ UNCHANGED s2c
    /\ UNCHANGED <<link, writer, matches, view>>

\* A step of ServiceHandles that refuses a FIND or MESSAGE as rate limited.
ServiceRefuses == ServiceHandles /\ Refuse("BUSY")

ServiceCloses ==
    /\ phase \notin {"gone", "handshake"} /\ c2s # <<>> /\ Head(c2s) = "CLOSE"
    /\ link' = "lost"
    /\ phase' = "gone"
    /\ c2s' = <<>>
    /\ UNCHANGED <<writer, s2c, matches, view>>

ServiceMatches ==
    /\ phase = "waiting" /\ matches < MaxConversations
    /\ matches' = matches + 1
    /\ EmitWithRoom("MATCHED", matches + 1, "chatting", 1)
    /\ UNCHANGED <<link, writer, c2s, view>>

\* The peer leaves, disconnects or times out.
ServicePeerLeaves ==
    /\ phase = "chatting"
    /\ EmitWithRoom("PEER_LEFT", 0, "connected", 1)
    /\ UNCHANGED <<link, writer, c2s, matches, view>>

ServicePeerMessage ==
    /\ phase = "chatting"
    /\ EmitWithRoom("MESSAGE", 0, "chatting", 1)
    /\ UNCHANGED <<link, writer, c2s, matches, view>>

ServiceReplies == ServiceAccepts \/ ServiceHandles \/ ServiceCloses
ServicePeer == ServiceMatches \/ ServicePeerLeaves \/ ServicePeerMessage

\* A state in which nothing is on its way in either direction.
Quiet == link = "up" /\ writer /\ c2s = <<>> /\ s2c = <<>>

------------------------------------------------------------------------------
(* The link's inductive invariant.  The frames on their way form a chain of *)
(* phases: it starts at what the client has taken and ends where the        *)
(* service is.                                                              *)

\* The phase the frame at i was emitted from, as far as frames tell.
Before(i) == IF i = 1 THEN view ELSE s2c[i - 1].after

\* A CANCEL is silent, so the waiting a frame tells of may be over.
StillIn(before, after) ==
    after = before \/ (before = "waiting" /\ after = "connected")

Follows(before, frame) ==
    LET after == frame.after IN
    \/ frame.op = "READY" /\ before = "handshake" /\ after = "connected"
    \/ /\ frame.op = "SEARCHING"
       /\ before \in {"connected", "waiting"} /\ after = "waiting"
    \/ /\ frame.op = "MATCHED" /\ frame.conv # 0
       /\ before = "waiting" /\ after = "chatting"
    \/ frame.op = "PEER_LEFT" /\ before = "chatting" /\ after = "connected"
    \/ frame.op = "MESSAGE" /\ before = "chatting" /\ after = "chatting"
    \/ /\ frame.op \in {"BUSY", "ERROR"}
       /\ before # "handshake" /\ StillIn(before, after)

FramesChain == \A i \in DOMAIN s2c : Follows(Before(i), s2c[i])

LastTag == IF s2c = <<>> THEN view ELSE s2c[Len(s2c)].after

ServiceEndsChain == link = "up" => StillIn(LastTag, phase)

\* What an absent or lost link looks like.
LinkShape ==
    /\ link = "none" => s2c = <<>> /\ view = "gone"
    /\ link # "none" => view # "gone"
    /\ link # "up" => c2s = <<>> /\ phase = "gone"

LinkInv == FramesChain /\ ServiceEndsChain /\ LinkShape

------------------------------------------------------------------------------
(* What is on its way, in the words of the adapters' invariants.            *)

Queued(frame) == \E i \in DOMAIN c2s : c2s[i] = frame

\* No frame to be taken has an opcode of ops, or the last one that has is at i.
NoneOf(ops) == \A i \in DOMAIN s2c : s2c[i].op \notin ops

LastOf(ops, i) ==
    /\ i \in DOMAIN s2c /\ s2c[i].op \in ops
    /\ \A j \in DOMAIN s2c : j > i => s2c[j].op \notin ops

===============================================================================
