-------------------------- MODULE SessionWorkerProofs --------------------------
(***************************************************************************)
(* WorkerInv is an inductive invariant of SessionWorker, for every bound   *)
(* on the socket and on the number of conversations and for patient and    *)
(* impatient users alike; the safety properties that need no more than it  *)
(* follow.                                                                 *)
(***************************************************************************)
EXTENDS SessionWorker, ClientLinkProofs

\* The part of WorkerInv that is about the worker.
WorkerShape ==
    /\ WorkerTypeOK
    /\ PlaceFitsLink
    /\ StatusFitsView
    /\ StatusCoherent
    /\ FindIsPending
    /\ ExitExplained

\* WorkerInv is the link's invariant and the worker's.
LEMMA WorkerInvSplits ==
    /\ WorkerInv <=> LinkOK /\ WorkerShape
    /\ WorkerInv' <=> LinkOK' /\ WorkerShape'
BY DEF WorkerInv, TypeOK, LinkOK, WorkerShape

\* The initial state is good.
LEMMA InitOK == Init => WorkerInv
<1> SUFFICES ASSUME Init PROVE WorkerInv
  OBVIOUS
<1>1. LinkOK
  BY LinkInitOK DEF Init
<1>2. WorkerTypeOK
  <2>1. searching_intent \in BOOLEAN /\ listening \in BOOLEAN
    BY DEF Init
  <2> QED
    BY <2>1, BoundsAssumption DEF Init, WorkerTypeOK, Places, States, Stances
<1>3. PlaceFitsLink /\ StatusFitsView /\ StatusCoherent /\ FindIsPending /\ ExitExplained
  BY DEF Init, LinkInit, PlaceFitsLink, StatusFitsView, StatusCoherent,
         FindIsPending, ExitExplained, Serving
<1> QED
  BY <1>1, <1>2, <1>3, WorkerInvSplits DEF WorkerShape

\* Steps that leave the link alone (loading, waiting, closing without a
\* connection, the listener's death) keep the link's part.
LEMMA LinkUnchanged == LinkOK /\ UNCHANGED linkVars => LinkOK'
<1> SUFFICES ASSUME LinkOK, UNCHANGED linkVars PROVE LinkOK'
  OBVIOUS
<1>1. FramesChain' /\ LastTag' = LastTag
  BY SameFrames DEF LinkOK, linkVars
<1>2. LinkTypeOK' /\ LinkInv'
  BY <1>1 DEF LinkOK, linkVars, LinkTypeOK, LinkInv, ServiceEndsChain, LinkShape
<1> QED
  BY <1>2 DEF LinkOK

\* The worker's steps without a connection.
LEMMA UnconnectedOK ==
    ASSUME WorkerInv,
           \/ LoadOk \/ LoadFails \/ ConnectFails \/ BackoffElapsed
           \/ CloseUnconnected \/ ListenerFails
    PROVE  WorkerInv'
<1>1. LinkOK /\ WorkerShape
  BY WorkerInvSplits
<1>2. UNCHANGED linkVars
  BY DEF LoadOk, LoadFails, ConnectFails, BackoffElapsed, CloseUnconnected,
         ListenerFails
<1>3. LinkOK'
  BY <1>1, <1>2, LinkUnchanged
<1>4. WorkerTypeOK'
  <2>1. /\ pc' \in Places /\ state' \in States /\ stance' \in Stances
        /\ conversation_id' \in 0 .. MaxConversations
    BY <1>1, BoundsAssumption
    DEF WorkerShape, WorkerTypeOK, Places, States, Stances, LoadOk, LoadFails,
        ConnectFails, BackoffElapsed, CloseUnconnected, ListenerFails,
        SetFailed, SetReconnecting, SetClosed
  <2>2. searching_intent' = searching_intent
    BY DEF LoadOk, LoadFails, ConnectFails, BackoffElapsed, CloseUnconnected,
           ListenerFails
  <2>3. listening' = listening \/ listening' = FALSE
    BY DEF LoadOk, LoadFails, ConnectFails, BackoffElapsed, CloseUnconnected,
           ListenerFails
  <2> QED
    BY <1>1, <2>1, <2>2, <2>3 DEF WorkerShape, WorkerTypeOK
<1>5. (PlaceFitsLink /\ StatusFitsView /\ StatusCoherent)'
  BY <1>1, <1>2
  DEF WorkerShape, PlaceFitsLink, StatusFitsView, StatusCoherent, Serving,
      linkVars, LoadOk, LoadFails, ConnectFails, BackoffElapsed,
      CloseUnconnected, ListenerFails, SetFailed, SetReconnecting, SetClosed
<1>6. (FindIsPending /\ ExitExplained)'
  BY <1>1
  DEF WorkerShape, FindIsPending, ExitExplained, LoadOk, LoadFails,
      ConnectFails, BackoffElapsed, CloseUnconnected, ListenerFails,
      SetFailed, SetReconnecting, SetClosed
<1> QED
  BY <1>3, <1>4, <1>5, <1>6, WorkerInvSplits DEF WorkerShape

\* A connection is established: the view is handshake, the status starting.
LEMMA ConnectOkOK == WorkerInv /\ ConnectOk => WorkerInv'
<1> SUFFICES ASSUME WorkerInv, ConnectOk PROVE LinkOK' /\ WorkerShape'
  BY WorkerInvSplits
<1>1. LinkOK /\ WorkerShape
  BY WorkerInvSplits
<1>2. LinkOK'
  BY <1>1, OpenOK DEF ConnectOk
<1>3. WorkerShape'
  BY <1>1
  DEF ConnectOk, Open, Replace, WorkerShape, WorkerTypeOK, Places, PlaceFitsLink,
      StatusFitsView, StatusCoherent, FindIsPending, ExitExplained, Serving
<1> QED
  BY <1>2, <1>3

\* What the connected loop sends leaves the frames to be read, the view and
\* the presence of the client alone.
LEMMA SendFacts ==
    ASSUME NEW command \in Commands, SendOk(command) \/ SendErr \/ SendUnencodable
    PROVE  link' = link /\ view' = view /\ s2c' = s2c /\ link # "none"
BY DEF SendOk, SendErr, SendUnencodable

\* Any send keeps the link's part.
LEMMA SendOK ==
    ASSUME LinkOK, NEW command \in Commands,
           SendOk(command) \/ SendErr \/ SendUnencodable
    PROVE  LinkOK'
BY SendOkOK, SendFailsOK

\* A command the connected loop accepts or fails to send.
LEMMA CommandOK ==
    ASSUME WorkerInv, NEW command \in Commands, NEW intent \in BOOLEAN,
           NEW next_state \in States, NEW wish \in Stances,
           Command(command, intent, next_state, wish),
           state # "starting", state # "failed",
           \* The status the command leads to fits the same view.
           {state, next_state} \subseteq {"ready", "searching", "peer_left"}
             \/ {state, next_state} \subseteq {"matched", "leaving"},
           state = "searching" => next_state # "peer_left",
           view = "waiting" => next_state # "peer_left",
           wish = "find" => intent /\ next_state \notin {"matched", "leaving"}
    PROVE  WorkerInv'
<1>1. LinkOK /\ WorkerShape
  BY WorkerInvSplits
<1>2. SendOk(command) \/ SendErr
  BY DEF Command
<1>3. LinkOK'
  BY <1>1, <1>2, SendOK
<1>4. link' = link /\ view' = view /\ s2c' = s2c /\ link # "none"
  BY <1>2, SendFacts
<1>5. /\ pc = "serve" /\ pc' = pc /\ listening' = listening
      /\ conversation_id' = conversation_id /\ searching_intent' = intent
      /\ state' \in {state, next_state}
      /\ stance' \in {wish, "none"}
      /\ stance' # "none" => state' = next_state
  BY DEF Command
<1>6. WorkerTypeOK'
  BY <1>1, <1>5 DEF WorkerShape, WorkerTypeOK, Stances
<1>7. PlaceFitsLink' /\ StatusFitsView' /\ StatusCoherent'
  BY <1>1, <1>4, <1>5
  DEF WorkerShape, PlaceFitsLink, StatusFitsView, StatusCoherent, Serving
<1>8. FindIsPending' /\ ExitExplained'
  BY <1>1, <1>5 DEF WorkerShape, FindIsPending, ExitExplained
<1> QED
  BY <1>3, <1>6, <1>7, <1>8, WorkerInvSplits DEF WorkerShape

\* The commands that go through Command.
LEMMA UserSendsOK ==
    ASSUME WorkerInv,
           Find \/ NextPeer \/ SendMessage \/ CancelSearch \/ LeaveConversation
    PROVE  WorkerInv'
<1>1. WorkerTypeOK /\ StatusFitsView /\ FindIsPending
  BY DEF WorkerInv, TypeOK
<1>2. /\ {"FIND", "CANCEL", "MESSAGE", "LEAVE", "NEXT"} \subseteq Commands
      /\ {"ready", "searching", "peer_left", "matched", "leaving"} \subseteq States
      /\ {"none", "find", "next", "cancelled"} \subseteq Stances
      /\ state \in States /\ stance \in Stances /\ searching_intent \in BOOLEAN
  BY <1>1 DEF Commands, States, Stances, WorkerTypeOK
<1>3. CASE Find
  <2>1. state \in {"ready", "peer_left"} /\ Command("FIND", TRUE, state, "find")
    BY <1>3 DEF Find
  <2>2. view = "waiting" => state # "peer_left"
    BY <2>1, <1>1 DEF StatusFitsView, Serving, Command
  <2> QED
    BY <1>2, <2>1, <2>2, CommandOK
<1>4. CASE NextPeer
  BY <1>2, <1>4, CommandOK DEF NextPeer
<1>5. CASE SendMessage
  <2>1. state = "matched" /\ Command("MESSAGE", searching_intent, state, stance)
    BY <1>5 DEF SendMessage
  <2>2. stance # "find"
    BY <2>1, <1>1 DEF FindIsPending, Command
  <2> QED
    BY <1>2, <2>1, <2>2, CommandOK
<1>6. CASE CancelSearch
  BY <1>2, <1>6, CommandOK DEF CancelSearch
<1>7. CASE LeaveConversation
  BY <1>2, <1>7, CommandOK DEF LeaveConversation
<1> QED
  BY <1>3, <1>4, <1>5, <1>6, <1>7

\* A message the writer task cannot encode, and a command without effect.
LEMMA NoEffectOK == WorkerInv /\ (SendOversizedMessage \/ LeaveNothing) => WorkerInv'
<1> SUFFICES ASSUME WorkerInv, SendOversizedMessage \/ LeaveNothing
             PROVE  WorkerInv'
  OBVIOUS
<1>1. LinkOK /\ WorkerShape
  BY WorkerInvSplits
<1>2. LinkOK'
  BY <1>1, SendFailsOK, LinkUnchanged DEF SendOversizedMessage, LeaveNothing
<1>3. /\ link' = link /\ view' = view /\ c2s' = c2s
      /\ UNCHANGED <<pc, state, conversation_id, searching_intent, listening>>
      /\ stance' = stance \/ stance' = "dismissed"
  BY DEF SendOversizedMessage, LeaveNothing, SendUnencodable, linkVars, workerVars
<1>4. WorkerShape'
  BY <1>1, <1>3
  DEF WorkerShape, WorkerTypeOK, Stances, PlaceFitsLink, StatusFitsView,
      StatusCoherent, FindIsPending, ExitExplained, Serving
<1> QED
  BY <1>2, <1>4, WorkerInvSplits

\* close while connected, answered with closed or with an error.
LEMMA CloseConnectedOK == WorkerInv /\ CloseConnected => WorkerInv'
<1> SUFFICES ASSUME WorkerInv, CloseConnected PROVE WorkerInv'
  OBVIOUS
<1>1. LinkOK /\ WorkerShape
  BY WorkerInvSplits
<1>2. SendOk("CLOSE") \/ SendErr
  BY DEF CloseConnected
<1>3. "CLOSE" \in Commands
  BY DEF Commands
<1>4. LinkOK'
  BY <1>1, <1>2, <1>3, SendOK
<1>5. link' = link /\ view' = view /\ link # "none"
  BY <1>2, <1>3, SendFacts
<1>6. CASE SendErr /\ stance' = "close_refused" /\ UNCHANGED <<pc, state, conversation_id>>
  <2>1. c2s' = c2s /\ listening' = listening /\ searching_intent' = FALSE
    BY <1>6 DEF SendErr, CloseConnected
  <2>2. WorkerShape'
    BY <1>1, <1>5, <1>6, <2>1
    DEF WorkerShape, WorkerTypeOK, Stances, PlaceFitsLink, StatusFitsView,
        StatusCoherent, FindIsPending, ExitExplained, Serving
  <2> QED
    BY <1>4, <2>2, WorkerInvSplits
<1>7. CASE SetClosed /\ pc' = "done" /\ stance' = "none"
  <2>1. listening' = listening /\ searching_intent' = FALSE
    BY <1>7 DEF CloseConnected
  <2>2. searching_intent' \in BOOLEAN
    BY <2>1
  <2>3. listening' \in BOOLEAN
    BY <1>1, <2>1 DEF WorkerShape, WorkerTypeOK
  <2>4. WorkerTypeOK'
    BY <1>7, <2>2, <2>3, BoundsAssumption
    DEF WorkerTypeOK, Stances, States, Places, SetClosed
  <2>5. WorkerShape'
    BY <1>7, <2>4
    DEF WorkerShape, SetClosed, PlaceFitsLink, StatusFitsView, StatusCoherent,
        FindIsPending, ExitExplained, Serving
  <2> QED
    BY <1>4, <2>5, WorkerInvSplits
<1> QED
  BY <1>6, <1>7 DEF CloseConnected

\* The command channel ends.
LEMMA CommandsClosedOK == WorkerInv /\ CommandsClosed => WorkerInv'
<1> SUFFICES ASSUME WorkerInv, CommandsClosed PROVE WorkerInv'
  OBVIOUS
<1>1. LinkOK /\ WorkerShape
  BY WorkerInvSplits
<1>2. "CLOSE" \in Commands
  BY DEF Commands
<1>3. LinkOK'
  <2>1. CASE pc = "serve"
    BY <2>1, <1>1, <1>2, SendOK DEF CommandsClosed
  <2>2. CASE pc # "serve"
    BY <2>2, <1>1, LinkUnchanged DEF CommandsClosed
  <2> QED
    BY <2>1, <2>2
<1>4. /\ pc' = "done" /\ ~listening
      /\ UNCHANGED <<state, conversation_id, searching_intent, listening, stance>>
  BY DEF CommandsClosed
<1>5. WorkerShape'
  BY <1>1, <1>4
  DEF WorkerShape, WorkerTypeOK, Places, PlaceFitsLink, StatusFitsView,
      StatusCoherent, FindIsPending, ExitExplained, Serving
<1> QED
  BY <1>3, <1>5, WorkerInvSplits

\* Giving a connection up to back off, from any place.
LEMMA DisconnectOK ==
    ASSUME WorkerInv, Disconnect, pc = "serve",
           UNCHANGED <<searching_intent, listening, stance>>
    PROVE  WorkerInv'
<1>1. LinkOK /\ WorkerShape
  BY WorkerInvSplits
<1>2. LinkOK'
  BY <1>1, DropLinkOK DEF Disconnect
<1>3. /\ pc' = "backoff" /\ state' = "starting" /\ conversation_id' = 0
      /\ link' = "none" /\ 0 \in 0 .. MaxConversations
  BY BoundsAssumption DEF Disconnect, SetReconnecting, DropLink
<1>4. WorkerShape'
  BY <1>1, <1>3
  DEF WorkerShape, WorkerTypeOK, Places, States, PlaceFitsLink, StatusFitsView,
      StatusCoherent, FindIsPending, ExitExplained, Serving
<1> QED
  BY <1>2, <1>4, WorkerInvSplits

\* The stream of events ends.
LEMMA EndOfStreamOK == WorkerInv /\ EndOfStream => WorkerInv'
BY DisconnectOK DEF EndOfStream

\* What taking an event while serving means for the link, the view and the
\* frame that was taken.
LEMMA TakenOK ==
    ASSUME WorkerInv, TakeEvent
    PROVE  /\ LinkOK'
           /\ view' = Head(s2c).after
           /\ Follows(view, Head(s2c)) /\ Head(s2c) \in ServerFrames
           /\ link' = link /\ c2s' = c2s
<1>1. LinkOK /\ writer \in BOOLEAN /\ c2s \in Seq(ClientFrames)
      /\ Len(c2s) <= MaxInFlight /\ (link # "up" => c2s = <<>>)
  BY WorkerInvSplits DEF LinkOK, LinkTypeOK, LinkInv, LinkShape
<1>2. /\ s2c # <<>> /\ s2c' = Tail(s2c) /\ view' = Head(s2c).after
      /\ UNCHANGED <<link, phase, matches>> /\ c2s' = c2s /\ writer' = writer
  BY DEF TakeEvent
<1> QED
  BY <1>1, <1>2, TakeEventOK

\* Any frame there is to take follows the view.
LEMMA TakenFollows == WorkerInv /\ s2c # <<>> => Follows(view, Head(s2c))
<1> SUFFICES ASSUME WorkerInv, s2c # <<>> PROVE Follows(view, Head(s2c))
  OBVIOUS
<1>1. s2c \in Seq(ServerFrames) /\ FramesChain
  BY DEF WorkerInv, TypeOK, LinkTypeOK, LinkInv
<1>2. 1 \in DOMAIN s2c /\ Head(s2c) = s2c[1]
  BY <1>1
<1> QED
  BY <1>1, <1>2 DEF FramesChain, Before

\* SEARCHING, MATCHED, PEER_LEFT and the events that change no status.
LEMMA RecordOK ==
    ASSUME WorkerInv,
           RecordSearching \/ RecordMatched \/ RecordPeerLeft \/ RecordOther
    PROVE  WorkerInv'
<1>1. LinkOK /\ WorkerShape
  BY WorkerInvSplits
<1>2. TakeEvent
  BY DEF RecordSearching, RecordMatched, RecordPeerLeft, RecordOther
<1>3. /\ LinkOK' /\ view' = Head(s2c).after /\ Follows(view, Head(s2c))
      /\ Head(s2c).conv \in 0 .. MaxConversations
      /\ link' = link /\ c2s' = c2s
  BY <1>2, TakenOK DEF ServerFrames
<1>4. /\ pc = "serve" /\ pc' = pc /\ listening' = listening
  BY DEF RecordSearching, RecordMatched, RecordPeerLeft, RecordOther, Incoming
<1>5. CASE RecordSearching
  <2>1. /\ view \in {"connected", "waiting"} /\ view' = "waiting"
        /\ state' = "searching" /\ searching_intent' = TRUE
        /\ UNCHANGED <<conversation_id, stance>>
    BY <1>3, <1>5 DEF RecordSearching, Incoming, Follows
  <2>2. WorkerShape'
    BY <1>1, <1>3, <1>4, <2>1
    DEF WorkerShape, WorkerTypeOK, States, PlaceFitsLink, StatusFitsView,
        StatusCoherent, FindIsPending, ExitExplained, Serving
  <2> QED
    BY <1>3, <2>2, WorkerInvSplits
<1>6. CASE RecordMatched
  <2>1. /\ view' = "chatting" /\ conversation_id' = Head(s2c).conv
        /\ Head(s2c).conv # 0 /\ state' = "matched" /\ searching_intent' = FALSE
        /\ stance' # "find" /\ (stance' = "none" \/ stance' = stance)
    BY <1>3, <1>6 DEF RecordMatched, Incoming, Follows
  <2>2. WorkerTypeOK'
    BY <1>1, <1>3, <1>4, <2>1 DEF WorkerShape, WorkerTypeOK, States, Stances
  <2>3. WorkerShape'
    BY <1>1, <1>3, <1>4, <2>1, <2>2
    DEF WorkerShape, PlaceFitsLink, StatusFitsView, StatusCoherent,
        FindIsPending, ExitExplained, Serving
  <2> QED
    BY <1>3, <2>3, WorkerInvSplits
<1>7. CASE RecordPeerLeft
  <2>1. /\ view = "chatting" /\ view' = "connected" /\ conversation_id' = 0
        /\ state' = "peer_left" /\ searching_intent' = FALSE /\ stance' = stance
    BY <1>3, <1>7 DEF RecordPeerLeft, Incoming, Follows
  <2>2. stance # "find"
    BY <1>1, <1>4, <2>1 DEF WorkerShape, StatusFitsView, FindIsPending, Serving
  <2>3. searching_intent' \in BOOLEAN
    BY <2>1
  <2>4. WorkerTypeOK'
    BY <1>1, <1>4, <2>1, <2>3, BoundsAssumption DEF WorkerShape, WorkerTypeOK, States
  <2>5. WorkerShape'
    BY <1>1, <1>3, <1>4, <2>1, <2>2, <2>4
    DEF WorkerShape, PlaceFitsLink, StatusFitsView, StatusCoherent,
        FindIsPending, ExitExplained, Serving
  <2> QED
    BY <1>3, <2>5, WorkerInvSplits
<1>8. CASE RecordOther
  <2>1. /\ view # "handshake"
        /\ view' = view \/ (view = "waiting" /\ view' = "connected")
        /\ UNCHANGED <<state, conversation_id, searching_intent>>
        /\ stance' = "none" \/ stance' = stance
    BY <1>3, <1>8 DEF RecordOther, Incoming, Follows, StillIn
  <2>2. WorkerShape'
    BY <1>1, <1>3, <1>4, <2>1
    DEF WorkerShape, WorkerTypeOK, Stances, PlaceFitsLink, StatusFitsView,
        StatusCoherent, FindIsPending, ExitExplained, Serving
  <2> QED
    BY <1>3, <2>2, WorkerInvSplits
<1> QED
  BY <1>5, <1>6, <1>7, <1>8

\* READY, with or without a FIND sent again at once.
LEMMA RecordReadyOK == WorkerInv /\ RecordReady => WorkerInv'
<1> SUFFICES ASSUME WorkerInv, RecordReady PROVE WorkerInv'
  OBVIOUS
<1>1. LinkOK /\ WorkerShape
  BY WorkerInvSplits
<1>2. /\ pc = "serve" /\ s2c # <<>> /\ Head(s2c).op = "READY"
      /\ UNCHANGED <<searching_intent, listening, stance>>
  BY DEF RecordReady, Incoming
\* What a recorded READY leaves, given that the link is in order.
<1>3. ASSUME LinkOK', Follows(view, Head(s2c)), view' = Head(s2c).after,
             link' = link, state' = "ready", UNCHANGED <<pc, conversation_id>>
      PROVE  WorkerInv'
  <2>1. view = "handshake" /\ view' = "connected"
    BY <1>2, <1>3 DEF Follows
  <2>2. state = "starting"
    BY <1>1, <1>2, <2>1 DEF WorkerShape, StatusFitsView, Serving
  <2>3. WorkerShape'
    BY <1>1, <1>2, <1>3, <2>1, <2>2
    DEF WorkerShape, WorkerTypeOK, States, PlaceFitsLink, StatusFitsView,
        StatusCoherent, FindIsPending, ExitExplained, Serving
  <2> QED
    BY <1>3, <2>3, WorkerInvSplits
<1>4. CASE TakeEvent /\ state' = "ready" /\ UNCHANGED <<pc, conversation_id>>
  BY <1>3, <1>4, TakenOK
<1>5. CASE /\ writer /\ Len(c2s) < MaxInFlight
           /\ c2s' = IF link = "up" THEN Append(c2s, "FIND") ELSE c2s
           /\ s2c' = Tail(s2c) /\ view' = Head(s2c).after /\ state' = "ready"
           /\ UNCHANGED <<pc, conversation_id, link, writer, phase, matches>>
  <2>1. c2s \in Seq(ClientFrames) /\ Len(c2s) <= MaxInFlight /\ writer \in BOOLEAN
    BY <1>1 DEF LinkOK, LinkTypeOK
  <2>2. c2s' \in Seq(ClientFrames) /\ Len(c2s') <= MaxInFlight
    <3>1. CASE link = "up"
      <4>1. c2s' = Append(c2s, "FIND") /\ "FIND" \in ClientFrames
        BY <1>5, <3>1 DEF ClientFrames
      <4> QED
        BY <1>5, <2>1, <4>1, BoundsAssumption
    <3>2. CASE link # "up"
      BY <1>5, <2>1, <3>2
    <3> QED
      BY <3>1, <3>2
  <2>3. link # "up" => c2s' = <<>>
    BY <1>1, <1>5 DEF LinkOK, LinkInv, LinkShape
  <2>4. writer' \in BOOLEAN
    BY <1>5, <2>1
  <2>5. LinkOK' /\ Follows(view, Head(s2c))
    BY <1>1, <1>2, <1>5, <2>2, <2>3, <2>4, TakeEventOK
  <2> QED
    BY <1>3, <1>5, <2>5
<1>6. CASE Disconnect
  BY <1>2, <1>6, DisconnectOK
<1> QED
  BY <1>4, <1>5, <1>6 DEF RecordReady

\* An event that cannot be recorded ends the worker in failed.
LEMMA RecordFailsOK == WorkerInv /\ RecordFails => WorkerInv'
<1> SUFFICES ASSUME WorkerInv, RecordFails PROVE WorkerInv'
  OBVIOUS
<1>1. LinkOK /\ WorkerShape
  BY WorkerInvSplits
<1>2. LinkOK'
  BY <1>1, DropLinkOK DEF RecordFails
<1>3. Head(s2c).conv \in 0 .. MaxConversations
  <2>1. s2c \in Seq(ServerFrames) /\ s2c # <<>>
    BY <1>1 DEF LinkOK, LinkTypeOK, RecordFails
  <2>2. Head(s2c) \in ServerFrames
    BY <2>1
  <2> QED
    BY <2>2 DEF ServerFrames
<1>4. conversation_id' \in 0 .. MaxConversations
  BY <1>1, <1>3, BoundsAssumption DEF RecordFails, WorkerShape, WorkerTypeOK
<1>5. searching_intent' \in BOOLEAN
  BY <1>1 DEF RecordFails, WorkerShape, WorkerTypeOK
<1>6. /\ state' = "failed" /\ pc' = "done"
      /\ listening' = listening /\ stance' = stance
  BY DEF RecordFails
<1>7. WorkerShape'
  BY <1>1, <1>4, <1>5, <1>6
  DEF WorkerShape, WorkerTypeOK, States, Places, PlaceFitsLink, StatusFitsView,
      StatusCoherent, FindIsPending, ExitExplained, Serving
<1> QED
  BY <1>2, <1>7, WorkerInvSplits

\* What the service and the network do to the link does not concern the status:
\* neither touches the view, and neither sends in the client's name.
LEMMA EnvironmentOK == WorkerInv /\ (Service \/ LinkLost) => WorkerInv'
<1> SUFFICES ASSUME WorkerInv, Service \/ LinkLost PROVE WorkerInv'
  OBVIOUS
<1>1. LinkOK /\ WorkerShape
  BY WorkerInvSplits
<1>2. LinkOK' /\ view' = view
  BY <1>1, ServiceOK, LoseOK DEF Service, LinkLost, Lose
<1>3. link # "none" /\ link' # "none"
  <2>1. CASE LinkLost
    BY <2>1 DEF LinkLost, Lose
  <2>2. CASE Service
    <3>1. phase # "gone"
      BY <2>2 DEF Service, ServiceReplies, ServicePeer, ServiceAccepts,
                  ServiceHandles, ServiceCloses, ServiceMatches,
                  ServicePeerLeaves, ServicePeerMessage
    <3>2. link = "up"
      BY <1>1, <3>1, PhaseFitsTag
    <3>3. link' = link \/ link' = "lost"
      BY <2>2 DEF Service, ServiceReplies, ServicePeer, ServiceAccepts,
                  ServiceHandles, ServiceCloses, ServiceMatches,
                  ServicePeerLeaves, ServicePeerMessage
    <3> QED
      BY <3>2, <3>3
  <2> QED
    BY <2>1, <2>2
<1>4. c2s = <<>> => c2s' = <<>>
  BY DEF Service, LinkLost, Lose, ServiceReplies, ServicePeer, ServiceAccepts,
         ServiceHandles, ServiceCloses, ServiceMatches, ServicePeerLeaves,
         ServicePeerMessage
<1>5. UNCHANGED workerVars
  BY DEF Service, LinkLost
<1>6. WorkerShape'
  BY <1>1, <1>2, <1>3, <1>4, <1>5
  DEF workerVars, WorkerShape, WorkerTypeOK, PlaceFitsLink, StatusFitsView,
      StatusCoherent, FindIsPending, ExitExplained, Serving
<1> QED
  BY <1>2, <1>6, WorkerInvSplits

\* Every step of the worker, the user, the service and the network keeps
\* WorkerInv.
LEMMA StepOK == WorkerInv /\ [Next]_vars => WorkerInv'
<1> SUFFICES ASSUME WorkerInv, [Next]_vars PROVE WorkerInv'
  OBVIOUS
<1>1. CASE UserCommand
  BY <1>1, UserSendsOK, NoEffectOK, CloseConnectedOK, UnconnectedOK DEF UserCommand
<1>2. CASE WorkerStep
  <2>1. CASE RecordEvent
    BY <2>1, RecordReadyOK, RecordOK DEF RecordEvent
  <2>2. CASE \/ LoadOk \/ LoadFails \/ ConnectOk \/ ConnectFails \/ BackoffElapsed
             \/ RecordFails \/ EndOfStream \/ CommandsClosed
    BY <2>2, UnconnectedOK, ConnectOkOK, RecordFailsOK, EndOfStreamOK, CommandsClosedOK
  <2> QED
    BY <1>2, <2>1, <2>2 DEF WorkerStep
<1>3. CASE ListenerFails
  BY <1>3, UnconnectedOK
<1>4. CASE Service \/ LinkLost
  BY <1>4, EnvironmentOK
<1>5. CASE UNCHANGED vars
  <2>1. UNCHANGED linkVars /\ UNCHANGED workerVars
    BY <1>5 DEF vars, linkVars
  <2>2. LinkOK' /\ LinkOK /\ WorkerShape
    BY <2>1, LinkUnchanged, WorkerInvSplits
  <2>3. WorkerShape'
    BY <2>1, <2>2
    DEF linkVars, workerVars, WorkerShape, WorkerTypeOK, PlaceFitsLink,
        StatusFitsView, StatusCoherent, FindIsPending, ExitExplained, Serving
  <2> QED
    BY <2>2, <2>3, WorkerInvSplits
<1> QED
  BY <1>1, <1>2, <1>3, <1>4, <1>5 DEF Next

\* WorkerInv holds in every reachable state: the frames on their way form a
\* chain from the view to the service's phase, and the place in network_loop,
\* the status, the conversation id and the intent fit each other and the last
\* frame taken.
THEOREM WorkerInvariance == Spec => []WorkerInv
<1>1. Init => WorkerInv
  BY InitOK
<1>2. WorkerInv /\ [Next]_vars => WorkerInv'
  BY StepOK
<1> QED
  BY <1>1, <1>2, PTL DEF Spec

\* What network_loop and the link hold stays in its type.
THEOREM TypeCorrectness == Spec => []TypeOK
<1>1. WorkerInv => TypeOK
  BY DEF WorkerInv
<1> QED
  BY <1>1, WorkerInvariance, PTL

\* matched and leaving carry a conversation id, no other state but failed does.
THEOREM StatusIsCoherent == Spec => []StatusCoherent
<1>1. WorkerInv => StatusCoherent
  BY DEF WorkerInv
<1> QED
  BY <1>1, WorkerInvariance, PTL

\* What is on its way on a connection whose worker ends, or has ended, is what was,
\* or less, or the CLOSE it ends with.
LEMMA DoneSends ==
    ASSUME WorkerInv, [Next]_vars, pc' = "done", view' = "handshake"
    PROVE  \/ view = "handshake" /\ c2s' = c2s
           \/ pc = "serve" /\ view = "handshake" /\ c2s' = c2s \o <<"CLOSE">>
           \/ view = "handshake" /\ c2s # <<>> /\ Head(c2s) # "CLOSE"
           \/ view = "handshake" /\ c2s' = <<>>
<1>2. CASE UserCommand
  <2>1. CASE Find \/ NextPeer \/ SendMessage \/ CancelSearch \/ LeaveConversation
    BY <2>1 DEF Find, NextPeer, SendMessage, CancelSearch, LeaveConversation, Command
  <2>2. CASE SendOversizedMessage \/ LeaveNothing
    BY <2>2 DEF SendOversizedMessage, LeaveNothing, workerVars
  <2>3. CASE CloseConnected
    BY <2>3 DEF CloseConnected, SendOk, SendErr, FramesOf
  <2>4. CASE CloseUnconnected
    BY <2>4 DEF CloseUnconnected, linkVars
  <2> QED
    BY <1>2, <2>1, <2>2, <2>3, <2>4 DEF UserCommand
<1>3. CASE WorkerStep
  <2>1. CASE CommandsClosed
    BY <2>1 DEF CommandsClosed, SendOk, SendErr, FramesOf, linkVars
  <2>2. CASE RecordFails
    BY <2>2 DEF RecordFails, DropLink
  <2>3. CASE LoadOk \/ LoadFails \/ ConnectOk \/ ConnectFails \/ BackoffElapsed \/ EndOfStream
    BY <2>3 DEF LoadOk, LoadFails, ConnectOk, ConnectFails, BackoffElapsed, EndOfStream,
                Disconnect
  <2>4. CASE RecordEvent
    BY <2>4 DEF RecordEvent, RecordReady, RecordSearching, RecordMatched, RecordPeerLeft,
                RecordOther, Incoming, Disconnect
  <2> QED
    BY <1>3, <2>1, <2>2, <2>3, <2>4 DEF WorkerStep
<1>4. CASE ListenerFails \/ UNCHANGED vars
  BY <1>4 DEF ListenerFails, linkVars, vars
<1>5. CASE Service \/ LinkLost
  BY <1>5 DEF Service, LinkLost, Lose, ServiceReplies, ServicePeer, ServiceAccepts,
       ServiceHandles, ServiceCloses, ServiceMatches, ServicePeerLeaves, ServicePeerMessage
<1> QED
  BY <1>2, <1>3, <1>4, <1>5 DEF Next

\* On a connection whose READY has not been recorded nothing is on its way but the
\* CLOSE of a worker that has ended.
THEOREM ReadyComesFirst == Spec => []ReadyFirst
<1>1. Init => WorkerInv /\ ReadyFirst
  BY InitOK DEF Init, LinkInit, ReadyFirst
<1>2. WorkerInv /\ ReadyFirst /\ [Next]_vars => WorkerInv' /\ ReadyFirst'
  <2> SUFFICES ASSUME WorkerInv, ReadyFirst, [Next]_vars PROVE WorkerInv' /\ ReadyFirst'
    OBVIOUS
  <2>1. WorkerInv'
    BY StepOK
  <2>2. CASE pc' # "done"
    BY <2>1, <2>2 DEF WorkerInv, TypeOK, WorkerTypeOK, LinkInv, LinkShape, PlaceFitsLink,
                      StatusFitsView, ReadyFirst, Serving, Places
  <2>3. CASE pc' = "done" /\ view' = "handshake"
    <3>1. CASE c2s' = c2s \/ c2s' = <<>>
      BY <2>1, <2>3, <3>1, DoneSends DEF ReadyFirst
    <3>2. CASE view = "handshake" /\ pc = "serve" /\ c2s' = c2s \o <<"CLOSE">>
      <4>1. c2s = <<>>
        BY <3>2 DEF ReadyFirst
      <4>2. c2s' = <<"CLOSE">>
        BY <3>2, <4>1
      <4> QED
        BY <2>1, <2>3, <4>2 DEF ReadyFirst
    <3>3. ~(view = "handshake" /\ c2s # <<>> /\ Head(c2s) # "CLOSE")
      BY DEF ReadyFirst, WorkerInv, TypeOK, LinkTypeOK
    <3> QED
      BY <2>3, <3>1, <3>2, <3>3, DoneSends
  <2>4. CASE pc' = "done" /\ view' # "handshake"
    BY <2>1, <2>4 DEF ReadyFirst
  <2> QED
    BY <2>2, <2>3, <2>4
<1> QED
  BY <1>1, <1>2, PTL DEF Spec

\* The status says matched or leaving exactly while the last recorded frame
\* left the connection in a conversation.
THEOREM StatusFollows == Spec => []StatusFollowsFrames
<1>1. WorkerInv => StatusFollowsFrames
  BY DEF WorkerInv, StatusFitsView, StatusFollowsFrames, Serving
<1> QED
  BY <1>1, WorkerInvariance, PTL

\* An acknowledged find that nothing has answered is remembered across any
\* number of lost connections.
THEOREM FindIsRemembered == Spec => []AcknowledgedFindIsRemembered
<1>1. WorkerInv => AcknowledgedFindIsRemembered
  BY DEF WorkerInv, FindIsPending, AcknowledgedFindIsRemembered
<1> QED
  BY <1>1, WorkerInvariance, PTL

\* network_loop returns only with the status closed or failed, or because its
\* control listener died.
THEOREM ExitIsExplained == Spec => []ExitExplained
<1>1. WorkerInv => ExitExplained
  BY DEF WorkerInv
<1> QED
  BY <1>1, WorkerInvariance, PTL

\* The edges, one family per line, in the order of the actions below.
LEMMA EdgeFamilies ==
    LET allowed == DocumentedTransitions \cup UndocumentedTransitions IN
    /\ <<"matched", "leaving">> \in allowed /\ <<"searching", "ready">> \in allowed
    /\ <<"starting", "ready">> \in allowed
    /\ \A s \in {"ready", "peer_left"} : <<s, "searching">> \in allowed
    /\ \A s \in {"ready", "searching"} : <<s, "matched">> \in allowed
    /\ \A s \in {"matched", "leaving"} : <<s, "peer_left">> \in allowed
    /\ \A s \in {"ready", "searching", "matched", "peer_left", "leaving"} :
         <<s, "starting">> \in allowed
    /\ \A s \in States \ {"closed"} : <<s, "closed">> \in allowed
                                      /\ <<s, "failed">> \in allowed
BY DEF DocumentedTransitions, UndocumentedTransitions, States

\* A worker that has not returned has not closed.
LEMMA ClosedMeansDone == WorkerInv /\ state = "closed" => pc = "done"
BY DEF WorkerInv, TypeOK, WorkerTypeOK, Places, PlaceFitsLink, StatusFitsView, Serving

\* The edges a step of the status may take.  Where the code assigns a status
\* without looking at the old one (record_event), the chain of frames decides
\* which old ones there can be.
LEMMA EdgesOK ==
    ASSUME WorkerInv, Next, state' # state
    PROVE  <<state, state'>> \in DocumentedTransitions \cup UndocumentedTransitions
<1> DEFINE allowed == DocumentedTransitions \cup UndocumentedTransitions
<1>1. state \in States /\ (state = "closed" => pc = "done")
  BY ClosedMeansDone DEF WorkerInv, TypeOK, WorkerTypeOK
<1>2. pc = "serve" => state \in {"starting", "ready", "searching", "matched",
                                 "peer_left", "leaving"}
  BY DEF WorkerInv, StatusFitsView, Serving
<1>3. CASE \/ CloseConnected \/ CloseUnconnected \/ LoadFails \/ RecordFails
  <2>1. state \in States \ {"closed"} /\ state' \in {"closed", "failed"}
    BY <1>1, <1>3 DEF CloseConnected, CloseUnconnected, LoadFails, RecordFails,
                      SetClosed, SetFailed
  <2> QED
    BY <2>1, EdgeFamilies
<1>4. CASE \/ Find \/ NextPeer \/ SendMessage \/ SendOversizedMessage
           \/ CancelSearch \/ LeaveConversation \/ LeaveNothing
  <2>1. \/ state = "matched" /\ state' = "leaving"
        \/ state = "searching" /\ state' = "ready"
    BY <1>4 DEF Find, NextPeer, SendMessage, SendOversizedMessage, CancelSearch,
                LeaveConversation, LeaveNothing, Command, workerVars
  <2> QED
    BY <2>1, EdgeFamilies
<1>5. CASE RecordReady \/ EndOfStream \/ ConnectFails
  <2>1. CASE state' = "starting"
    <3>1. state \in {"ready", "searching", "matched", "peer_left", "leaving"}
      BY <1>2, <1>5, <2>1
      DEF RecordReady, EndOfStream, ConnectFails, Incoming, WorkerInv, PlaceFitsLink
    <3> QED
      BY <2>1, <3>1, EdgeFamilies
  <2>2. CASE state' # "starting"
    <3>1. RecordReady /\ state' = "ready" /\ s2c # <<>> /\ Head(s2c).op = "READY"
      BY <1>5, <2>2 DEF RecordReady, EndOfStream, ConnectFails, Disconnect,
                        SetReconnecting, Incoming
    <3>2. Follows(view, Head(s2c))
      BY <3>1, TakenFollows
    <3>3. state = "starting"
      BY <3>1, <3>2
      DEF Follows, RecordReady, Incoming, WorkerInv, StatusFitsView, Serving
    <3> QED
      BY <3>1, <3>3, EdgeFamilies
  <2> QED
    BY <2>1, <2>2
<1>6. CASE RecordSearching \/ RecordMatched \/ RecordPeerLeft \/ RecordOther
  <2>1. Follows(view, Head(s2c)) /\ pc = "serve"
    BY <1>6, TakenFollows
    DEF RecordSearching, RecordMatched, RecordPeerLeft, RecordOther, Incoming
  <2>2. \/ state \in {"ready", "peer_left"} /\ state' = "searching"
        \/ state \in {"ready", "searching"} /\ state' = "matched"
        \/ state \in {"matched", "leaving"} /\ state' = "peer_left"
    BY <1>6, <2>1
    DEF RecordSearching, RecordMatched, RecordPeerLeft, RecordOther, Incoming,
        Follows, WorkerInv, StatusFitsView, Serving
  <2> QED
    BY <2>2, EdgeFamilies
<1>7. ~(LoadOk \/ ConnectOk \/ BackoffElapsed \/ CommandsClosed \/ ListenerFails
          \/ Service \/ LinkLost)
  BY DEF LoadOk, ConnectOk, BackoffElapsed, CommandsClosed, ListenerFails,
         Service, LinkLost, workerVars
<1> QED
  BY <1>3, <1>4, <1>5, <1>6, <1>7
  DEF Next, UserCommand, WorkerStep, RecordEvent

\* The status moves only along the documented edges and the three the code
\* adds to them; closed is terminal.
THEOREM TransitionsAreThese == Spec => StateTransitions
<1>1. WorkerInv /\ [Next]_vars
        => [state' # state => <<state, state'>> \in DocumentedTransitions
                                   \cup UndocumentedTransitions]_vars
  BY EdgesOK
<1> QED
  BY <1>1, WorkerInvariance, PTL DEF Spec, StateTransitions

------------------------------------------------------------------------------
(* The agreement with the service.                                          *)

\* Recording a frame gives the status what was due, and leaves it due.
LEMMA RecordedDue ==
    ASSUME LinkTypeOK, s2c # <<>>, s2c' = Tail(s2c), NEW S, StatusDueIn(S),
           state' = IF Head(s2c).op \in StatusOps
                      THEN StatusAfter[Head(s2c).op] ELSE state
    PROVE  StatusDueIn(S)'
<1>1. ASSUME NoneOf(StatusOps)'
      PROVE  state' \in S
  <2>1. CASE Head(s2c).op \in StatusOps
    <3>1. LastOf(StatusOps, 1) /\ 1 \in DOMAIN s2c /\ s2c[1] = Head(s2c)
      BY <1>1, <2>1, LastAfterTake DEF NoneOf, LastOf
    <3> QED
      BY <2>1, <3>1 DEF StatusDueIn
  <2>2. CASE Head(s2c).op \notin StatusOps
    <3>1. NoneOf(StatusOps)
      BY <1>1, <2>2, LastAfterTake DEF NoneOf, LastOf
    <3> QED
      BY <2>2, <3>1 DEF StatusDueIn
  <2> QED
    BY <2>1, <2>2
<1>2. ASSUME NEW i \in DOMAIN s2c', LastOf(StatusOps, i)'
      PROVE  StatusAfter[s2c'[i].op] \in S
  <2>1. i + 1 \in DOMAIN s2c /\ s2c'[i] = s2c[i + 1] /\ LastOf(StatusOps, i + 1)
    BY <1>2, LastAfterTake DEF NoneOf, LastOf
  <2> QED
    BY <2>1 DEF StatusDueIn
<1> QED
  BY <1>1, <1>2 DEF StatusDueIn

\* The same of the conversation.
LEMMA RecordedConversation ==
    ASSUME LinkTypeOK, s2c # <<>>, s2c' = Tail(s2c), ConversationDue,
           matches' = matches,
           Head(s2c).op = "MATCHED" => conversation_id' = Head(s2c).conv,
           Head(s2c).op \notin StatusOps => conversation_id' = conversation_id
    PROVE  ConversationDue'
<1>1. ASSUME NoneOf(StatusOps)'
      PROVE  conversation_id' = matches
  <2>1. CASE Head(s2c).op \in StatusOps
    <3>1. LastOf(StatusOps, 1) /\ 1 \in DOMAIN s2c /\ s2c[1] = Head(s2c)
      BY <1>1, <2>1, LastAfterTake DEF NoneOf, LastOf
    <3> QED
      BY <2>1, <3>1 DEF ConversationDue
  <2>2. CASE Head(s2c).op \notin StatusOps
    <3>1. NoneOf(StatusOps)
      BY <1>1, <2>2, LastAfterTake DEF NoneOf, LastOf
    <3> QED
      BY <2>2, <3>1 DEF ConversationDue
  <2> QED
    BY <2>1, <2>2
<1>2. ASSUME NEW i \in DOMAIN s2c', LastOf(StatusOps, i)'
      PROVE  s2c'[i].op = "MATCHED" /\ s2c'[i].conv = matches
  <2>1. i + 1 \in DOMAIN s2c /\ s2c'[i] = s2c[i + 1] /\ LastOf(StatusOps, i + 1)
    BY <1>2, LastAfterTake DEF NoneOf, LastOf
  <2> QED
    BY <2>1 DEF ConversationDue
<1> QED
  BY <1>1, <1>2 DEF ConversationDue

\* A frame that sets a status makes that one due; another changes nothing.
LEMMA EmittedDue ==
    ASSUME LinkTypeOK, NEW op, NEW conv, NEW after, NEW S, state' = state,
           s2c' = Append(s2c, Frame(op, conv, after)),
           IF op \in StatusOps THEN StatusAfter[op] \in S ELSE StatusDueIn(S)
    PROVE  StatusDueIn(S)'
<1>1. CASE op \in StatusOps
  <2>1. ~NoneOf(StatusOps)'
    BY <1>1, LastAfterOwn DEF NoneOf
  <2>2. \A i : LastOf(StatusOps, i)' => s2c'[i].op = op
    BY <1>1, LastAfterOwn DEF LastOf
  <2> QED
    BY <1>1, <2>1, <2>2 DEF StatusDueIn
<1>2. CASE op \notin StatusOps
  <2>1. NoneOf(StatusOps)' => NoneOf(StatusOps)
    BY <1>2, LastAfterOther DEF NoneOf
  <2>2. \A i : LastOf(StatusOps, i)' => LastOf(StatusOps, i) /\ s2c'[i] = s2c[i]
    BY <1>2, LastAfterOther DEF LastOf
  <2>3. \A i : LastOf(StatusOps, i) => i \in DOMAIN s2c
    BY DEF LastOf
  <2> QED
    BY <1>2, <2>1, <2>2, <2>3 DEF StatusDueIn
<1> QED
  BY <1>1, <1>2

\* A MATCHED with the newest id makes that conversation due; a frame that sets
\* no status changes nothing.
LEMMA EmittedConversation ==
    ASSUME LinkTypeOK, NEW op, NEW conv, NEW after,
           conversation_id' = conversation_id,
           s2c' = Append(s2c, Frame(op, conv, after)),
           \/ op = "MATCHED" /\ conv = matches'
           \/ op \notin StatusOps /\ matches' = matches /\ ConversationDue
    PROVE  ConversationDue'
<1>1. CASE op = "MATCHED" /\ conv = matches'
  <2>1. op \in StatusOps
    BY <1>1 DEF StatusOps, StatusAfter
  <2>2. ~NoneOf(StatusOps)'
    BY <2>1, LastAfterOwn DEF NoneOf
  <2>3. \A i : LastOf(StatusOps, i)' => s2c'[i].op = op /\ s2c'[i].conv = conv
    BY <2>1, LastAfterOwn DEF LastOf
  <2> QED
    BY <1>1, <2>2, <2>3 DEF ConversationDue
<1>2. CASE op \notin StatusOps /\ matches' = matches /\ ConversationDue
  <2>1. NoneOf(StatusOps)' => NoneOf(StatusOps)
    BY <1>2, LastAfterOther DEF NoneOf
  <2>2. \A i : LastOf(StatusOps, i)' => LastOf(StatusOps, i) /\ s2c'[i] = s2c[i]
    BY <1>2, LastAfterOther DEF LastOf
  <2>3. \A i : LastOf(StatusOps, i) => i \in DOMAIN s2c
    BY DEF LastOf
  <2> QED
    BY <1>2, <2>1, <2>2, <2>3 DEF ConversationDue
<1> QED
  BY <1>1, <1>2

\* Steps after which the worker does not serve: only the search that a cancel
\* has ended matters there.
LEMMA NotServingOK ==
    ASSUME AgreementInv, pc' # "serve",
           \/ pc' = "done"
           \/ /\ pc # "done" /\ UNCHANGED <<stance, searching_intent>>
              /\ state' = state \/ state' # "searching"
              /\ UNCHANGED <<c2s, s2c>> \/ (c2s' = <<>> /\ s2c' = <<>>)
    PROVE  AgreementInv'
<1>1. CancelIsFinal'
  BY DEF AgreementInv, CancelIsFinal, NoSearchOnItsWay
<1> QED
  BY <1>1
  DEF AgreementInv, PhaseIsDue, OneSearch, SearchIsDue, HelloFirst,
      IntentFitsStatus, Live, Serving

\* Steps without a connection, or that give it up.
LEMMA UnconnectedAgrees ==
    ASSUME WorkerInv, AgreementInv,
           \/ LoadOk \/ LoadFails \/ ConnectFails \/ BackoffElapsed
           \/ CloseUnconnected \/ CommandsClosed \/ RecordFails
           \/ Disconnect /\ pc = "serve" /\ UNCHANGED <<stance, searching_intent>>
    PROVE  AgreementInv'
BY NotServingOK
DEF LoadOk, LoadFails, ConnectFails, BackoffElapsed, CloseUnconnected,
    CommandsClosed, RecordFails, Disconnect, DropLink, linkVars, SetFailed,
    SetReconnecting

\* Steps that change nothing the service or the status depends on, but may end
\* the writer task.
LEMMA UnsentOK ==
    ASSUME WorkerInv, AgreementInv,
           UNCHANGED <<link, c2s, s2c, phase, matches, view, pc, state, conversation_id>>,
           \/ writer' = writer /\ searching_intent' = searching_intent
           \/ writer' = FALSE,
           \/ stance' = stance /\ searching_intent' = searching_intent
           \/ stance' # "cancelled"
    PROVE  AgreementInv'
<1>1. /\ NoneOf(StatusOps)' <=> NoneOf(StatusOps)
      /\ \A i : LastOf(StatusOps, i)' <=> LastOf(StatusOps, i)
  BY DEF NoneOf, LastOf
<1>2. \A S : StatusDueIn(S)' <=> StatusDueIn(S)
  BY <1>1 DEF StatusDueIn
<1>3. ConversationDue' <=> ConversationDue
  BY <1>1 DEF ConversationDue
<1>4. NoSearchOnItsWay' <=> NoSearchOnItsWay
  BY DEF NoSearchOnItsWay
<1>5. Live' => Live
  BY DEF Live, Serving
<1>6. (PhaseIsDue /\ SearchIsDue)'
  BY <1>2, <1>3, <1>5 DEF AgreementInv, PhaseIsDue, SearchIsDue, Queued
<1>7. (OneSearch /\ HelloFirst /\ IntentFitsStatus /\ CancelIsFinal)'
  BY <1>4
  DEF AgreementInv, OneSearch, HelloFirst, IntentFitsStatus, CancelIsFinal,
      Serving, Queued, NoneOf
<1> QED
  BY <1>6, <1>7 DEF AgreementInv

\* A connection is established: nothing is on its way.
LEMMA ConnectAgrees == WorkerInv /\ AgreementInv /\ ConnectOk => AgreementInv'
<1> SUFFICES ASSUME WorkerInv, AgreementInv, ConnectOk PROVE AgreementInv'
  OBVIOUS
<1>1. /\ pc = "connect" /\ state = "starting"
      /\ c2s' = <<>> /\ s2c' = <<>> /\ phase' = "handshake"
      /\ UNCHANGED <<state, conversation_id, searching_intent, stance>>
  BY DEF WorkerInv, PlaceFitsLink, ConnectOk, Open, Replace
<1>2. DOMAIN s2c' = {} /\ DOMAIN c2s' = {}
  BY <1>1
<1>3. /\ \A S : state \in S => StatusDueIn(S)'
      /\ NoSearchOnItsWay'
  BY <1>1, <1>2 DEF StatusDueIn, NoSearchOnItsWay
<1>4. state \in States \ {"matched", "searching"}
  BY <1>1 DEF States
<1>5. (PhaseIsDue /\ SearchIsDue)'
  BY <1>1, <1>3, <1>4 DEF PhaseIsDue, SearchIsDue
<1>6. (OneSearch /\ HelloFirst /\ IntentFitsStatus /\ CancelIsFinal)'
  BY <1>1, <1>2, <1>3
  DEF AgreementInv, OneSearch, HelloFirst, IntentFitsStatus, CancelIsFinal, Queued
<1> QED
  BY <1>5, <1>6 DEF AgreementInv

\* A command that was written: the frames to be read are those there were, and
\* the command and nothing else is queued behind the others.
LEMMA WrittenFacts ==
    ASSUME LinkOK, NEW command \in Commands, SendOk(command)
    PROVE  /\ UNCHANGED <<link, s2c, phase, matches, view>> /\ writer
           /\ \A S : NoneOf(S)' <=> NoneOf(S)
           /\ \A S, i : LastOf(S, i)' <=> LastOf(S, i)
           /\ \A frame : Queued(frame) => Queued(frame)'
           /\ \A i \in DOMAIN c2s' :
                \/ i \in DOMAIN c2s /\ c2s'[i] = c2s[i]
                \/ /\ i = Len(c2s) + Len(FramesOf(command))
                   /\ c2s'[i] = IF command = "NEXT" THEN "FIND" ELSE command
                \/ command = "NEXT" /\ i = Len(c2s) + 1 /\ c2s'[i] = "LEAVE"
           /\ \A i \in DOMAIN c2s : i \in Nat /\ i < Len(c2s) + Len(FramesOf(command))
           /\ link = "up" /\ command # "NEXT" => Queued(command)'
           /\ link = "up" /\ command = "NEXT" => Queued("LEAVE")'
<1> DEFINE n == Len(c2s)
           m == Len(FramesOf(command))
<1>1. UNCHANGED <<link, s2c, phase, matches, view>> /\ writer /\ LinkTypeOK
  BY DEF SendOk, LinkOK
<1>2. /\ \A S : NoneOf(S)' <=> NoneOf(S)
      /\ \A S, i : LastOf(S, i)' <=> LastOf(S, i)
  BY <1>1 DEF NoneOf, LastOf
<1>3. CASE link = "up"
  <2>1. /\ n \in Nat /\ DOMAIN c2s = 1 .. n /\ DOMAIN c2s' = 1 .. n + m
        /\ \A i \in 1 .. n : c2s'[i] = c2s[i]
        /\ command # "NEXT" => m = 1 /\ c2s'[n + 1] = command
        /\ command = "NEXT" => m = 2 /\ c2s'[n + 1] = "LEAVE" /\ c2s'[n + 2] = "FIND"
    BY <1>1, <1>3, AfterSend
  <2> HIDE DEF n, m
  <2>2. \A i \in DOMAIN c2s : i \in DOMAIN c2s' /\ c2s'[i] = c2s[i] /\ i \in Nat /\ i < n + m
    BY <2>1
  <2>3. \A i \in DOMAIN c2s' :
          \/ i \in DOMAIN c2s /\ c2s'[i] = c2s[i]
          \/ i = n + m /\ c2s'[i] = IF command = "NEXT" THEN "FIND" ELSE command
          \/ command = "NEXT" /\ i = n + 1 /\ c2s'[i] = "LEAVE"
    BY <2>1
  <2>4. n + 1 \in DOMAIN c2s'
    BY <2>1
  <2>5. /\ \A frame : Queued(frame) => Queued(frame)'
        /\ command # "NEXT" => Queued(command)'
        /\ command = "NEXT" => Queued("LEAVE")'
    BY <2>1, <2>2, <2>4 DEF Queued
  <2> QED
    BY <1>1, <1>2, <2>2, <2>3, <2>5 DEF n, m, Queued, NoneOf, LastOf
<1>4. CASE link # "up"
  <2>1. c2s' = c2s /\ c2s = <<>>
    BY <1>4 DEF SendOk, LinkOK, LinkInv, LinkShape
  <2>2. DOMAIN c2s = {}
    BY <2>1
  <2> QED
    BY <1>1, <1>2, <1>4, <2>1, <2>2 DEF Queued, NoneOf, LastOf
<1> QED
  BY <1>3, <1>4

\* What is due after a command was written: the same, but for what a queued
\* CANCEL or LEAVE excuses.
LEMMA WrittenDue ==
    ASSUME WorkerInv, AgreementInv, NEW command \in Commands,
           pc = "serve", SendOk(command), UNCHANGED <<pc, conversation_id>>,
           \/ state' = state /\ command # "CANCEL"
           \/ state = "matched" /\ state' = "leaving" /\ command \in {"LEAVE", "NEXT"}
           \/ state = "searching" /\ state' = "ready" /\ command = "CANCEL"
    PROVE  PhaseIsDue' /\ SearchIsDue'
<1>1. LinkOK
  BY WorkerInvSplits
<1>2. /\ UNCHANGED <<link, s2c, phase, matches, view>> /\ writer
      /\ NoneOf(StatusOps)' <=> NoneOf(StatusOps)
      /\ \A i : LastOf(StatusOps, i)' <=> LastOf(StatusOps, i)
      /\ \A frame : Queued(frame) => Queued(frame)'
      /\ link = "up" /\ command # "NEXT" => Queued(command)'
      /\ link = "up" /\ command = "NEXT" => Queued("LEAVE")'
      /\ \A i \in DOMAIN c2s' :
           \/ i \in DOMAIN c2s /\ c2s'[i] = c2s[i]
           \/ c2s'[i] = IF command = "NEXT" THEN "FIND" ELSE command
           \/ c2s'[i] = "LEAVE"
  BY <1>1, WrittenFacts DEF Queued, NoneOf, LastOf
<1>3. state' \in States /\ state \in States
  <2>1. state \in States
    BY DEF WorkerInv, TypeOK, WorkerTypeOK
  <2> QED
    BY <2>1 DEF States
\* The frames on their way decide as before.
<1>4. ASSUME NEW S, StatusDueIn(S), NoneOf(StatusOps) => state' \in S
      PROVE  StatusDueIn(S)'
  BY <1>2, <1>4 DEF StatusDueIn
<1>5. ConversationDue => ConversationDue'
  BY <1>2 DEF ConversationDue
<1>6. Live' => Live /\ link = "up"
  BY <1>2 DEF Live, Serving
<1>7. PhaseIsDue'
  <2> SUFFICES ASSUME Live' PROVE
        /\ phase = "waiting" /\ ~Queued("CANCEL")' => StatusDueIn({"searching"})'
        /\ phase = "chatting" /\ ~Queued("LEAVE")' => StatusDueIn({"matched"})'
        /\ phase = "chatting" => ConversationDue'
        /\ phase # "chatting" => StatusDueIn(States \ {"matched"})'
    BY <1>2 DEF PhaseIsDue
  <2>1. ASSUME phase = "waiting", ~Queued("CANCEL")'
        PROVE  StatusDueIn({"searching"})'
    <3>1. StatusDueIn({"searching"}) /\ command # "CANCEL"
      BY <1>2, <1>6, <2>1 DEF AgreementInv, PhaseIsDue
    <3>2. NoneOf(StatusOps) => state' = "searching"
      BY <3>1 DEF StatusDueIn
    <3> QED
      BY <1>4, <3>1, <3>2
  <2>2. ASSUME phase = "chatting", ~Queued("LEAVE")'
        PROVE  StatusDueIn({"matched"})'
    <3>1. StatusDueIn({"matched"}) /\ command \notin {"LEAVE", "NEXT"}
      BY <1>2, <1>6, <2>2 DEF AgreementInv, PhaseIsDue
    <3>2. NoneOf(StatusOps) => state' = "matched"
      BY <3>1 DEF StatusDueIn
    <3> QED
      BY <1>4, <3>1, <3>2
  <2>3. phase = "chatting" => ConversationDue'
    BY <1>5, <1>6 DEF AgreementInv, PhaseIsDue
  <2>4. ASSUME phase # "chatting"
        PROVE  StatusDueIn(States \ {"matched"})'
    <3>1. StatusDueIn(States \ {"matched"})
      BY <1>6, <2>4 DEF AgreementInv, PhaseIsDue
    <3>2. NoneOf(StatusOps) => state' \in States \ {"matched"}
      BY <1>3, <3>1 DEF StatusDueIn
    <3> QED
      BY <1>4, <3>1, <3>2
  <2> QED
    BY <2>1, <2>2, <2>3, <2>4
<1>8. SearchIsDue'
  <2> SUFFICES ASSUME PatientUser, Live', phase # "waiting" \/ Queued("CANCEL")'
               PROVE  StatusDueIn(States \ {"searching"})'
    BY <1>2 DEF SearchIsDue
  <2>1. CASE command # "CANCEL"
    <3>1. Queued("CANCEL")' => Queued("CANCEL")
      BY <1>2, <2>1 DEF Queued
    <3>2. StatusDueIn(States \ {"searching"})
      BY <1>6, <3>1 DEF AgreementInv, SearchIsDue
    <3>3. NoneOf(StatusOps) => state' \in States \ {"searching"}
      BY <1>3, <2>1, <3>2 DEF StatusDueIn
    <3> QED
      BY <1>4, <3>2, <3>3
  <2>2. CASE command = "CANCEL"
    <3>1. state = "searching" /\ state' = "ready" /\ NoSearchOnItsWay
      BY <1>2, <2>2 DEF AgreementInv, OneSearch, Serving
    <3>2. ASSUME NEW i \in DOMAIN s2c, LastOf(StatusOps, i)
          PROVE  StatusAfter[s2c[i].op] \in States \ {"searching"}
      BY <3>1, <3>2 DEF LastOf, StatusOps, StatusAfter, NoSearchOnItsWay, States
    <3> QED
      BY <1>2, <1>3, <3>1, <3>2 DEF StatusDueIn
  <2> QED
    BY <2>1, <2>2
<1> QED
  BY <1>7, <1>8

\* A command that was written keeps the searches on their way one, and adds one
\* only if it asks for one.
LEMMA WrittenSearches ==
    ASSUME WorkerInv, AgreementInv, NEW command \in Commands,
           pc = "serve", SendOk(command),
           command \in {"FIND", "NEXT"} =>
             state' # "searching" /\ (PatientUser => NoSearchOnItsWay),
           command = "CANCEL" => state = "searching",
           state' = "searching" => state = "searching"
    PROVE  /\ OneSearch'
           /\ command \notin {"FIND", "NEXT"} /\ NoSearchOnItsWay => NoSearchOnItsWay'
<1> DEFINE last == Len(c2s) + Len(FramesOf(command))
<1>1. LinkOK
  BY WorkerInvSplits
<1>2. /\ s2c' = s2c /\ writer
      /\ \A i \in DOMAIN c2s' :
           \/ i \in DOMAIN c2s /\ c2s'[i] = c2s[i]
           \/ i = last /\ c2s'[i] = IF command = "NEXT" THEN "FIND" ELSE command
           \/ c2s'[i] = "LEAVE"
      /\ \A i \in DOMAIN c2s : i \in Nat /\ i < last
  BY <1>1, WrittenFacts
<1> HIDE DEF last
<1>3. command \notin {"FIND", "NEXT"} /\ NoSearchOnItsWay => NoSearchOnItsWay'
  BY <1>2 DEF NoSearchOnItsWay
<1>4. ASSUME PatientUser, Serving', writer'
      PROVE  /\ state' = "searching" => NoSearchOnItsWay'
             /\ Queued("FIND")' => NoneOf({"SEARCHING"})
             /\ \A i, j \in DOMAIN c2s' : c2s'[i] = "FIND" /\ c2s'[j] = "FIND" => i = j
             /\ \A i, j \in DOMAIN c2s' : c2s'[i] = "FIND" /\ c2s'[j] = "CANCEL" => j < i
  <2>1. /\ state = "searching" => NoSearchOnItsWay
        /\ Queued("FIND") => NoneOf({"SEARCHING"})
        /\ \A i, j \in DOMAIN c2s : c2s[i] = "FIND" /\ c2s[j] = "FIND" => i = j
        /\ \A i, j \in DOMAIN c2s : c2s[i] = "FIND" /\ c2s[j] = "CANCEL" => j < i
    BY <1>2, <1>4 DEF AgreementInv, OneSearch, Serving
  <2>2. CASE command \in {"FIND", "NEXT"}
    <3>1. \A i \in DOMAIN c2s : c2s[i] # "FIND"
      BY <1>4, <2>2 DEF NoSearchOnItsWay
    <3>2. NoneOf({"SEARCHING"})
      BY <1>4, <2>2 DEF NoSearchOnItsWay, NoneOf
    <3>3. \A i \in DOMAIN c2s' : c2s'[i] = "FIND" => i = last
      BY <1>2, <3>1
    <3>4. \A i \in DOMAIN c2s' : c2s'[i] = "CANCEL" => i < last
      BY <1>2, <2>2
    <3> QED
      BY <1>4, <2>2, <3>2, <3>3, <3>4
  <2>3. CASE command \notin {"FIND", "NEXT"}
    <3>1. \A i \in DOMAIN c2s' : c2s'[i] = "FIND" => i \in DOMAIN c2s /\ c2s[i] = "FIND"
      BY <1>2, <2>3
    <3>2. \A i \in DOMAIN c2s' : c2s'[i] = "CANCEL" =>
            (i \in DOMAIN c2s /\ c2s[i] = "CANCEL") \/ command = "CANCEL"
      BY <1>2, <2>3
    <3>3. command = "CANCEL" => \A i \in DOMAIN c2s : c2s[i] # "FIND"
      BY <2>1 DEF NoSearchOnItsWay
    <3> QED
      BY <1>3, <2>1, <2>3, <3>1, <3>2, <3>3 DEF Queued
  <2> QED
    BY <2>2, <2>3
<1>5. OneSearch'
  BY <1>2, <1>4 DEF AgreementInv, OneSearch, Serving, NoneOf
<1> QED
  BY <1>3, <1>5

\* The commands of the user.
LEMMA UserAgrees == WorkerInv /\ AgreementInv /\ UserCommand => AgreementInv'
<1> SUFFICES ASSUME WorkerInv, AgreementInv, UserCommand PROVE AgreementInv'
  OBVIOUS
<1>1. {"FIND", "CANCEL", "MESSAGE", "LEAVE", "NEXT", "CLOSE"} \subseteq Commands
  BY DEF Commands
\* A command that is not written ends the writer task at most.
<1>2. ASSUME SendErr, UNCHANGED <<pc, state, conversation_id>>, stance' # "cancelled"
      PROVE  AgreementInv'
  BY <1>2, UnsentOK DEF SendErr
<1>3. CASE LeaveNothing \/ SendOversizedMessage
  BY <1>3, UnsentOK DEF LeaveNothing, SendOversizedMessage, SendUnencodable,
                        workerVars, linkVars
<1>4. CASE CloseUnconnected
  BY <1>4, UnconnectedAgrees
<1>5. CASE CloseConnected
  <2>1. CASE pc' = "done"
    BY <2>1, NotServingOK
  <2>2. CASE pc' # "done"
    BY <1>2, <1>5, <2>2 DEF CloseConnected
  <2> QED
    BY <2>1, <2>2
\* What a written command owes to the invariant, whichever it is.
<1>6. ASSUME NEW command \in Commands, SendOk(command), pc = "serve",
             UNCHANGED <<pc, conversation_id>>,
             \/ state' = state /\ command # "CANCEL"
             \/ state = "matched" /\ state' = "leaving" /\ command \in {"LEAVE", "NEXT"}
             \/ state = "searching" /\ state' = "ready" /\ command = "CANCEL",
             command \in {"FIND", "NEXT"} => state' # "searching" /\ MayAsk,
             state' = "searching" => searching_intent',
             state' = "matched" => ~searching_intent',
             stance' = "cancelled" =>
               /\ ~searching_intent' /\ command \notin {"FIND", "NEXT"}
               /\ stance = "cancelled" \/ state = "searching"
      PROVE  AgreementInv'
  <2>1. PhaseIsDue' /\ SearchIsDue'
    BY <1>6, WrittenDue
  <2>2. /\ OneSearch'
        /\ command \notin {"FIND", "NEXT"} /\ NoSearchOnItsWay => NoSearchOnItsWay'
    BY <1>6, WrittenSearches DEF MayAsk
  <2>3. UNCHANGED <<s2c, phase, view>> /\ writer
    BY <1>6 DEF SendOk
  <2>4. HelloFirst' /\ IntentFitsStatus'
    BY <1>6, <2>3 DEF AgreementInv, HelloFirst, IntentFitsStatus, Serving
  <2>5. ASSUME PatientUser, stance' = "cancelled"
        PROVE  ~searching_intent' /\ state' # "searching" /\ NoSearchOnItsWay'
    <3>1. NoSearchOnItsWay /\ (stance = "cancelled" => state # "searching")
      BY <1>6, <2>3, <2>5 DEF AgreementInv, CancelIsFinal, OneSearch, Serving
    <3> QED
      BY <1>6, <2>2, <2>5, <3>1
  <2> QED
    BY <2>1, <2>2, <2>4, <2>5 DEF AgreementInv, CancelIsFinal
<1>7. CASE Find
  <2>1. /\ pc = "serve" /\ UNCHANGED <<pc, conversation_id>> /\ MayAsk
        /\ state \in {"ready", "peer_left"} /\ state' = state /\ searching_intent' = TRUE
        /\ \/ SendOk("FIND") /\ stance' = "find"
           \/ SendErr /\ stance' = "none"
    BY <1>7 DEF Find, Command
  <2> QED
    BY <1>1, <1>2, <1>6, <2>1
<1>8. CASE NextPeer
  <2>1. /\ pc = "serve" /\ UNCHANGED <<pc, conversation_id>> /\ MayAsk
        /\ state = "matched" /\ searching_intent' = TRUE
        /\ \/ SendOk("NEXT") /\ state' = "leaving" /\ stance' = "next"
           \/ SendErr /\ state' = state /\ stance' = "none"
    BY <1>8 DEF NextPeer, Command
  <2> QED
    BY <1>1, <1>2, <1>6, <2>1
<1>9. CASE SendMessage
  <2>1. /\ pc = "serve" /\ UNCHANGED <<pc, conversation_id>>
        /\ state = "matched" /\ state' = state /\ searching_intent' = searching_intent
        /\ \/ SendOk("MESSAGE") /\ stance' = stance
           \/ SendErr /\ stance' = "none"
    BY <1>9 DEF SendMessage, Command
  <2>2. SendOk("MESSAGE") => ~searching_intent
    BY <2>1 DEF AgreementInv, IntentFitsStatus, Serving, SendOk
  <2> QED
    BY <1>1, <1>2, <1>6, <2>1, <2>2
<1>10. CASE CancelSearch
  <2>1. /\ pc = "serve" /\ UNCHANGED <<pc, conversation_id>>
        /\ state = "searching" /\ searching_intent' = FALSE
        /\ \/ SendOk("CANCEL") /\ state' = "ready" /\ stance' = "cancelled"
           \/ SendErr /\ state' = state /\ stance' = "none"
    BY <1>10 DEF CancelSearch, Command
  <2> QED
    BY <1>1, <1>2, <1>6, <2>1
<1>11. CASE LeaveConversation
  <2>1. /\ pc = "serve" /\ UNCHANGED <<pc, conversation_id>>
        /\ state = "matched" /\ searching_intent' = FALSE
        /\ \/ SendOk("LEAVE") /\ state' = "leaving" /\ stance' = "none"
           \/ SendErr /\ state' = state /\ stance' = "none"
    BY <1>11 DEF LeaveConversation, Command
  <2> QED
    BY <1>1, <1>2, <1>6, <2>1
<1> QED
  BY <1>3, <1>4, <1>5, <1>7, <1>8, <1>9, <1>10, <1>11 DEF UserCommand

\* Recording a frame while the same CANCELs and LEAVEs are queued.
LEMMA RecordedDues ==
    ASSUME WorkerInv, AgreementInv, pc = "serve", s2c # <<>>, s2c' = Tail(s2c),
           UNCHANGED <<pc, link, writer, phase, matches>>,
           state' = IF Head(s2c).op \in StatusOps
                      THEN StatusAfter[Head(s2c).op] ELSE state,
           Head(s2c).op = "MATCHED" => conversation_id' = Head(s2c).conv,
           Head(s2c).op \notin StatusOps => conversation_id' = conversation_id,
           \A frame \in {"CANCEL", "LEAVE"} : Queued(frame)' <=> Queued(frame)
    PROVE  PhaseIsDue' /\ SearchIsDue'
<1>1. LinkTypeOK
  BY WorkerInvSplits DEF LinkOK
<1>2. \A S : StatusDueIn(S) => StatusDueIn(S)'
  BY <1>1, RecordedDue
<1>3. ConversationDue => ConversationDue'
  BY <1>1, RecordedConversation
<1>4. Live' <=> Live
  BY DEF Live, Serving
<1>5. /\ Queued("CANCEL")' <=> Queued("CANCEL")
      /\ Queued("LEAVE")' <=> Queued("LEAVE")
  OBVIOUS
<1> QED
  BY <1>2, <1>3, <1>4, <1>5 DEF AgreementInv, PhaseIsDue, SearchIsDue

\* Recording a frame takes at most a search from those on their way.
LEMMA RecordedSearches ==
    ASSUME WorkerInv, AgreementInv, pc = "serve", s2c # <<>>, s2c' = Tail(s2c),
           UNCHANGED <<pc, writer, c2s>>,
           state' = "searching" => state = "searching" \/ Head(s2c).op = "SEARCHING"
    PROVE  OneSearch' /\ (NoSearchOnItsWay => NoSearchOnItsWay')
<1>1. LinkTypeOK
  BY WorkerInvSplits DEF LinkOK
<1>2. /\ 1 \in DOMAIN s2c /\ s2c[1] = Head(s2c)
      /\ \A i \in DOMAIN s2c' : i \in Nat \ {0} /\ i + 1 \in DOMAIN s2c /\ s2c'[i] = s2c[i + 1]
  BY <1>1, TailFacts DEF LinkTypeOK
<1>3. NoSearchOnItsWay => NoSearchOnItsWay'
  BY <1>2 DEF NoSearchOnItsWay
<1>4. ASSUME PatientUser, Serving', writer'
      PROVE  /\ state' = "searching" => NoSearchOnItsWay'
             /\ Queued("FIND")' => \A i \in DOMAIN s2c' : s2c'[i].op # "SEARCHING"
             /\ \A i, j \in DOMAIN s2c' :
                  s2c'[i].op = "SEARCHING" /\ s2c'[j].op = "SEARCHING" => i = j
  <2>1. /\ state = "searching" => NoSearchOnItsWay
        /\ (\E i \in DOMAIN c2s : c2s[i] = "FIND")
             => \A i \in DOMAIN s2c : s2c[i].op # "SEARCHING"
        /\ \A i, j \in DOMAIN s2c :
             s2c[i].op = "SEARCHING" /\ s2c[j].op = "SEARCHING" => i = j
    BY <1>4 DEF AgreementInv, OneSearch, Serving, Queued, NoneOf
  <2>2. Queued("FIND")' => \A i \in DOMAIN s2c' : s2c'[i].op # "SEARCHING"
    BY <1>2, <2>1 DEF Queued
  <2>3. \A i, j \in DOMAIN s2c' :
          s2c'[i].op = "SEARCHING" /\ s2c'[j].op = "SEARCHING" => i = j
    BY <1>2, <2>1
  <2>4. ASSUME Head(s2c).op = "SEARCHING"
        PROVE  NoSearchOnItsWay'
    <3>1. \A i \in DOMAIN s2c' : s2c'[i].op # "SEARCHING"
      BY <1>2, <2>1, <2>4
    <3>2. \A i \in DOMAIN c2s : c2s[i] # "FIND"
      BY <1>2, <2>1, <2>4
    <3> QED
      BY <3>1, <3>2 DEF NoSearchOnItsWay
  <2> QED
    BY <1>3, <2>1, <2>2, <2>3, <2>4
<1>5. OneSearch'
  BY <1>4 DEF AgreementInv, OneSearch, Serving, NoneOf
<1> QED
  BY <1>3, <1>5

\* The frames that set a status, by name.
LEMMA StatusOpsAre ==
    /\ StatusOps = {"READY", "SEARCHING", "MATCHED", "PEER_LEFT"}
    /\ StatusAfter["READY"] = "ready" /\ StatusAfter["SEARCHING"] = "searching"
    /\ StatusAfter["MATCHED"] = "matched" /\ StatusAfter["PEER_LEFT"] = "peer_left"
BY DEF StatusOps, StatusAfter

\* Every frame, recorded as record_event does.
LEMMA RecordAgrees == WorkerInv /\ AgreementInv /\ RecordEvent => AgreementInv'
<1> SUFFICES ASSUME WorkerInv, AgreementInv, RecordEvent PROVE AgreementInv'
  OBVIOUS
<1>1. s2c # <<>> /\ pc = "serve"
  BY DEF RecordEvent, RecordReady, RecordSearching, RecordMatched, RecordPeerLeft,
         RecordOther, Incoming
<1>2. Head(s2c).after # "handshake"
  <2>1. s2c \in Seq(ServerFrames)
    BY WorkerInvSplits DEF LinkOK, LinkTypeOK
  <2>2. Head(s2c) \in ServerFrames
    BY <1>1, <2>1
  <2> QED
    BY <2>2 DEF ServerFrames
\* A frame taken with the commands on their way left alone.
<1>3. ASSUME TakeEvent, UNCHANGED pc,
             state' = IF Head(s2c).op \in StatusOps
                        THEN StatusAfter[Head(s2c).op] ELSE state,
             Head(s2c).op = "MATCHED" => conversation_id' = Head(s2c).conv,
             Head(s2c).op \notin StatusOps => conversation_id' = conversation_id,
             state' = "searching" => state = "searching" \/ Head(s2c).op = "SEARCHING",
             writer /\ state' = "searching" => searching_intent',
             writer /\ state' = "matched" => ~searching_intent',
             stance' = "cancelled" => stance = "cancelled",
             ~searching_intent => ~searching_intent' \/ Head(s2c).op = "SEARCHING"
      PROVE  AgreementInv'
  <2>1. /\ s2c' = Tail(s2c) /\ view' = Head(s2c).after
        /\ UNCHANGED <<link, writer, c2s, phase, matches>>
    BY <1>3 DEF TakeEvent
  <2>2. \A frame \in {"CANCEL", "LEAVE"} : Queued(frame)' <=> Queued(frame)
    BY <2>1 DEF Queued
  <2>3. PhaseIsDue' /\ SearchIsDue'
    BY <1>1, <1>3, <2>1, <2>2, RecordedDues
  <2>4. OneSearch' /\ (NoSearchOnItsWay => NoSearchOnItsWay')
    BY <1>1, <1>3, <2>1, RecordedSearches
  <2>5. HelloFirst' /\ IntentFitsStatus'
    <3>1. view' # "handshake"
      BY <1>2, <2>1
    <3>2. HelloFirst'
      BY <3>1 DEF HelloFirst
    <3>3. IntentFitsStatus'
      BY <1>3, <2>1 DEF IntentFitsStatus
    <3> QED
      BY <3>2, <3>3
  <2>6. CancelIsFinal'
    <3>1. NoSearchOnItsWay => Head(s2c).op # "SEARCHING"
      <4>1. 1 \in DOMAIN s2c /\ s2c[1] = Head(s2c)
        BY <1>1, <2>1, LastAfterTake, WorkerInvSplits DEF LinkOK
      <4> QED
        BY <4>1 DEF NoSearchOnItsWay
    <3> QED
      BY <1>1, <1>3, <2>4, <3>1 DEF AgreementInv, CancelIsFinal
  <2> QED
    BY <2>3, <2>4, <2>5, <2>6 DEF AgreementInv
<1>4. CASE RecordSearching
  <2>1. /\ TakeEvent /\ Head(s2c).op = "SEARCHING" /\ state' = "searching"
        /\ searching_intent' = TRUE /\ UNCHANGED <<pc, conversation_id, stance>>
    BY <1>4 DEF RecordSearching, Incoming
  <2> QED
    BY <1>3, <2>1, StatusOpsAre
<1>5. CASE RecordMatched
  <2>1. /\ TakeEvent /\ Head(s2c).op = "MATCHED" /\ state' = "matched"
        /\ conversation_id' = Head(s2c).conv
        /\ searching_intent' = FALSE /\ pc' = pc
        /\ stance' = "cancelled" => stance = "cancelled"
    BY <1>5 DEF RecordMatched, Incoming
  <2> QED
    BY <1>3, <2>1, StatusOpsAre
<1>6. CASE RecordPeerLeft
  <2>1. /\ TakeEvent /\ Head(s2c).op = "PEER_LEFT" /\ state' = "peer_left"
        /\ searching_intent' = FALSE /\ UNCHANGED <<pc, stance>>
    BY <1>6 DEF RecordPeerLeft, Incoming
  <2> QED
    BY <1>3, <2>1, StatusOpsAre
<1>7. CASE RecordOther
  <2>1. /\ TakeEvent /\ Head(s2c).op \in {"MESSAGE", "BUSY", "ERROR"}
        /\ UNCHANGED <<pc, state, conversation_id, searching_intent>>
        /\ stance' = "cancelled" => stance = "cancelled"
    BY <1>7 DEF RecordOther, Incoming
  <2>2. writer => /\ state' = "searching" => searching_intent'
                  /\ state' = "matched" => ~searching_intent'
    BY <1>1, <2>1 DEF AgreementInv, IntentFitsStatus, Serving
  <2> QED
    BY <1>3, <2>1, <2>2, StatusOpsAre
<1>8. CASE RecordReady
  <2>1. /\ Head(s2c).op = "READY" /\ UNCHANGED <<searching_intent, listening, stance>>
    BY <1>8 DEF RecordReady, Incoming
  <2>2. CASE TakeEvent /\ state' = "ready" /\ UNCHANGED <<pc, conversation_id>>
    BY <1>3, <2>1, <2>2, StatusOpsAre
  <2>3. CASE Disconnect
    BY <1>1, <2>1, <2>3, UnconnectedAgrees
\* The FIND that follows READY is the only frame on its way.
  <2>4. CASE /\ searching_intent /\ writer
             /\ c2s' = IF link = "up" THEN Append(c2s, "FIND") ELSE c2s
             /\ s2c' = Tail(s2c) /\ view' = Head(s2c).after /\ state' = "ready"
             /\ UNCHANGED <<pc, conversation_id, link, writer, phase, matches>>
    <3>1. view = "handshake" /\ c2s = <<>>
      BY <1>1, <2>1, TakenFollows DEF Follows, WorkerInv, StatusFitsView, Serving
    <3>2. \A i \in DOMAIN s2c : s2c[i].op = "READY"
      BY <1>1, <3>1 DEF AgreementInv, HelloFirst, Serving
    <3>3. \A i \in DOMAIN s2c' : s2c'[i].op = "READY"
      BY <1>1, <2>4, <3>2, LastAfterTake, WorkerInvSplits DEF LinkOK
    <3>4. /\ \A i \in DOMAIN c2s' : i = 1 /\ c2s'[i] = "FIND"
          /\ DOMAIN c2s = {}
      BY <2>4, <3>1
    <3>5. \A frame \in {"CANCEL", "LEAVE"} : Queued(frame)' <=> Queued(frame)
      BY <3>4 DEF Queued
    <3>6. PhaseIsDue' /\ SearchIsDue'
      BY <1>1, <2>1, <2>4, <3>5, RecordedDues, StatusOpsAre
    <3>7. OneSearch'
      BY <2>4, <3>3, <3>4 DEF OneSearch, NoneOf
    <3>8. (HelloFirst /\ IntentFitsStatus /\ CancelIsFinal)'
      BY <1>1, <1>2, <2>1, <2>4
      DEF AgreementInv, HelloFirst, IntentFitsStatus, CancelIsFinal
    <3> QED
      BY <3>6, <3>7, <3>8 DEF AgreementInv
  <2> QED
    BY <1>8, <2>2, <2>3, <2>4 DEF RecordReady
<1> QED
  BY <1>4, <1>5, <1>6, <1>7, <1>8 DEF RecordEvent

\* Searches on their way when the service takes a command or not and emits a
\* frame or not: a SEARCHING is the answer to the FIND that was taken.
LEMMA ServedSearches ==
    ASSUME WorkerInv, AgreementInv, UNCHANGED workerVars, writer' = writer,
           \/ c2s' = c2s
           \/ c2s # <<>> /\ c2s' = Tail(c2s),
           \/ s2c' = s2c
           \/ \E op \in ServerOps, conv \in 0 .. MaxConversations, after \in Phases :
                /\ s2c' = Append(s2c, Frame(op, conv, after))
                /\ op = "SEARCHING" => c2s # <<>> /\ c2s' = Tail(c2s) /\ Head(c2s) = "FIND"
    PROVE  OneSearch' /\ CancelIsFinal' /\ IntentFitsStatus'
<1>1. LinkTypeOK /\ s2c \in Seq(ServerFrames) /\ c2s \in Seq(ClientFrames)
  BY WorkerInvSplits DEF LinkOK, LinkTypeOK
<1>2. /\ UNCHANGED <<pc, state, searching_intent, stance>>
  BY DEF workerVars
\* The commands that are left, and where they were.
<1>3. PICK shift \in {0, 1} :
        /\ \A i \in DOMAIN c2s' : i \in Nat /\ i + shift \in DOMAIN c2s /\ c2s'[i] = c2s[i + shift]
        /\ shift = 0 => c2s' = c2s
        /\ shift = 1 => 1 \in DOMAIN c2s /\ c2s[1] = Head(c2s)
  <2>1. CASE c2s' = c2s
    <3>1. \A i \in DOMAIN c2s : i \in Nat /\ i + 0 = i
      BY <1>1
    <3> QED
      BY <2>1, <3>1
  <2>2. CASE c2s # <<>> /\ c2s' = Tail(c2s)
    <3>1. /\ \A i \in DOMAIN c2s' : i + 1 \in DOMAIN c2s /\ c2s'[i] = c2s[i + 1] /\ i \in Nat
          /\ 1 \in DOMAIN c2s /\ c2s[1] = Head(c2s)
      BY <1>1, <2>2, AfterHandle
    <3> QED
      BY <3>1
  <2> QED
    BY <2>1, <2>2
\* The frames there are: those there were, and perhaps a SEARCHING.
<1>4. PICK n \in Nat :
        /\ \A i \in DOMAIN s2c' : IF i \in DOMAIN s2c THEN s2c'[i].op = s2c[i].op
                                                  ELSE i = n + 1
        /\ \/ \A i \in DOMAIN s2c' : s2c'[i].op = "SEARCHING" => i \in DOMAIN s2c
           \/ shift = 1 /\ Head(c2s) = "FIND"
  <2>1. CASE s2c' = s2c
    BY <2>1
  <2>2. CASE \E op \in ServerOps, conv \in 0 .. MaxConversations, after \in Phases :
              /\ s2c' = Append(s2c, Frame(op, conv, after))
              /\ op = "SEARCHING" => c2s # <<>> /\ c2s' = Tail(c2s) /\ Head(c2s) = "FIND"
    <3>1. PICK op \in ServerOps, conv \in 0 .. MaxConversations, after \in Phases :
            /\ s2c' = Append(s2c, Frame(op, conv, after))
            /\ op = "SEARCHING" => c2s # <<>> /\ c2s' = Tail(c2s) /\ Head(c2s) = "FIND"
      BY <2>2
    <3> DEFINE frame == Frame(op, conv, after)
    <3>2. frame.op = op
      BY DEF Frame
    <3> HIDE DEF frame
    <3>3. /\ Len(s2c) \in Nat /\ s2c'[Len(s2c) + 1] = frame
          /\ \A i \in DOMAIN s2c' :
               IF i \in DOMAIN s2c THEN s2c'[i] = s2c[i] ELSE i = Len(s2c) + 1
          /\ Len(s2c) + 1 \notin DOMAIN s2c
      BY <1>1, <3>1 DEF frame
    <3>4. op = "SEARCHING" => shift = 1 /\ Head(c2s) = "FIND"
      <4>1. c2s # <<>> => Tail(c2s) # c2s
        BY <1>1, TailFacts
      <4> QED
        BY <1>3, <3>1, <4>1
    <3>5. op # "SEARCHING" =>
            \A i \in DOMAIN s2c' : s2c'[i].op = "SEARCHING" => i \in DOMAIN s2c
      BY <3>2, <3>3
    <3> QED
      BY <3>3, <3>4, <3>5
  <2> QED
    BY <2>1, <2>2
<1>5. NoSearchOnItsWay => NoSearchOnItsWay'
  BY <1>3, <1>4 DEF NoSearchOnItsWay
<1>6. ASSUME PatientUser, Serving', writer'
      PROVE  /\ state' = "searching" => NoSearchOnItsWay'
             /\ (\E i \in DOMAIN c2s' : c2s'[i] = "FIND")
                  => \A i \in DOMAIN s2c' : s2c'[i].op # "SEARCHING"
             /\ \A i, j \in DOMAIN c2s' : c2s'[i] = "FIND" /\ c2s'[j] = "FIND" => i = j
             /\ \A i, j \in DOMAIN s2c' :
                  s2c'[i].op = "SEARCHING" /\ s2c'[j].op = "SEARCHING" => i = j
             /\ \A i, j \in DOMAIN c2s' : c2s'[i] = "FIND" /\ c2s'[j] = "CANCEL" => j < i
  <2>1. /\ state = "searching" => NoSearchOnItsWay
        /\ (\E i \in DOMAIN c2s : c2s[i] = "FIND")
             => \A i \in DOMAIN s2c : s2c[i].op # "SEARCHING"
        /\ \A i, j \in DOMAIN c2s : c2s[i] = "FIND" /\ c2s[j] = "FIND" => i = j
        /\ \A i, j \in DOMAIN s2c :
             s2c[i].op = "SEARCHING" /\ s2c[j].op = "SEARCHING" => i = j
        /\ \A i, j \in DOMAIN c2s : c2s[i] = "FIND" /\ c2s[j] = "CANCEL" => j < i
    BY <1>2, <1>6 DEF AgreementInv, OneSearch, Serving, Queued, NoneOf
  <2>2. \A i, j \in DOMAIN c2s' :
          /\ i + shift = j + shift => i = j
          /\ j + shift < i + shift => j < i
    BY <1>3
  <2>3. /\ \A i, j \in DOMAIN c2s' : c2s'[i] = "FIND" /\ c2s'[j] = "FIND" => i = j
        /\ \A i, j \in DOMAIN c2s' : c2s'[i] = "FIND" /\ c2s'[j] = "CANCEL" => j < i
    BY <1>3, <2>1, <2>2
  <2>4. CASE \A i \in DOMAIN s2c' : s2c'[i].op = "SEARCHING" => i \in DOMAIN s2c
    <3>1. \A i \in DOMAIN s2c' : s2c'[i].op = "SEARCHING" => i \in DOMAIN s2c /\ s2c[i].op = "SEARCHING"
      BY <1>4, <2>4
    <3> QED
      BY <1>2, <1>3, <1>5, <2>1, <2>3, <3>1
  <2>5. CASE shift = 1 /\ Head(c2s) = "FIND"
    <3>1. /\ 1 \in DOMAIN c2s /\ c2s[1] = "FIND"
          /\ \A i \in DOMAIN c2s' : i + 1 # 1 /\ i + 1 \in DOMAIN c2s /\ c2s'[i] = c2s[i + 1]
      <4>1. \A i \in DOMAIN c2s' : i \in Nat \ {0}
        BY <1>1, <1>3, <2>5, TailFacts
      <4> QED
        BY <1>3, <2>5, <4>1
    <3>2. \A i \in DOMAIN c2s' : c2s'[i] # "FIND"
      BY <2>1, <3>1
    <3>3. \A i \in DOMAIN s2c : s2c[i].op # "SEARCHING"
      BY <2>1, <3>1
    <3>4. state' # "searching"
      BY <1>2, <2>1, <3>1 DEF NoSearchOnItsWay
    <3> QED
      BY <1>4, <2>3, <3>2, <3>3, <3>4
  <2> QED
    BY <1>4, <2>4, <2>5
<1>7. OneSearch'
  BY <1>6 DEF OneSearch, Queued, NoneOf
<1>8. CancelIsFinal' /\ IntentFitsStatus'
  BY <1>2, <1>5 DEF AgreementInv, CancelIsFinal, IntentFitsStatus, Serving
<1> QED
  BY <1>7, <1>8

\* Emitting a frame makes due what it tells, given that a CANCEL or LEAVE that
\* the service takes is not one that would end its phase.
LEMMA EmitAgrees ==
    ASSUME WorkerInv, AgreementInv, UNCHANGED <<workerVars, link, writer, view>>,
           NEW op \in ServerOps, NEW conv \in 0 .. MaxConversations, NEW after \in Phases,
           s2c' = Append(s2c, Frame(op, conv, after)), phase' = after,
           \/ c2s' = c2s
           \/ c2s # <<>> /\ c2s' = Tail(c2s),
           op = "SEARCHING" => c2s # <<>> /\ c2s' = Tail(c2s) /\ Head(c2s) = "FIND",
           \/ op \in {"READY", "PEER_LEFT"} /\ after = "connected"
           \/ op = "SEARCHING" /\ after = "waiting"
           \/ op = "MATCHED" /\ after = "chatting" /\ conv = matches'
           \/ /\ op \in {"MESSAGE", "BUSY", "ERROR"} /\ after = phase /\ matches' = matches
              /\ Queued("CANCEL") /\ ~Queued("CANCEL")' => phase # "waiting"
              /\ Queued("LEAVE") /\ ~Queued("LEAVE")' => phase # "chatting",
           Serving /\ view = "handshake" => op = "READY"
    PROVE  AgreementInv'
<1>1. LinkTypeOK
  BY WorkerInvSplits DEF LinkOK
<1>2. UNCHANGED <<pc, state, conversation_id, searching_intent, stance>>
  BY DEF workerVars
<1>3. OneSearch' /\ CancelIsFinal' /\ IntentFitsStatus'
  BY ServedSearches
<1>4. \A frame : Queued(frame)' => Queued(frame)
  <2>1. c2s' = c2s => \A frame : Queued(frame)' => Queued(frame)
    BY DEF Queued
  <2>2. c2s # <<>> /\ c2s' = Tail(c2s) => \A frame : Queued(frame)' => Queued(frame)
    BY <1>1, AfterHandle DEF Queued
  <2> QED
    BY <2>1, <2>2
<1>5. Live' => Live
  BY <1>2 DEF Live, Serving
\* A frame that sets the status.
<1>6. ASSUME NEW S, op \in StatusOps, StatusAfter[op] \in S
      PROVE  StatusDueIn(S)'
  BY <1>1, <1>2, <1>6, EmittedDue
\* A frame that does not.
<1>7. ASSUME NEW S, op \notin StatusOps, StatusDueIn(S)
      PROVE  StatusDueIn(S)'
  BY <1>1, <1>2, <1>7, EmittedDue
<1>8. PhaseIsDue'
  <2> SUFFICES ASSUME Live' PROVE
        /\ after = "waiting" /\ ~Queued("CANCEL")' => StatusDueIn({"searching"})'
        /\ after = "chatting" /\ ~Queued("LEAVE")' => StatusDueIn({"matched"})'
        /\ after = "chatting" => ConversationDue'
        /\ after # "chatting" => StatusDueIn(States \ {"matched"})'
    BY DEF PhaseIsDue
  <2>1. /\ phase = "waiting" /\ ~Queued("CANCEL") => StatusDueIn({"searching"})
        /\ phase = "chatting" /\ ~Queued("LEAVE") => StatusDueIn({"matched"})
        /\ phase = "chatting" => ConversationDue
        /\ phase # "chatting" => StatusDueIn(States \ {"matched"})
    BY <1>5 DEF AgreementInv, PhaseIsDue
  <2>2. CASE op \in StatusOps
    <3>1. /\ after = "waiting" => StatusAfter[op] = "searching"
          /\ after = "chatting" => op = "MATCHED" /\ conv = matches' /\ StatusAfter[op] = "matched"
          /\ after # "chatting" => StatusAfter[op] \in States \ {"matched"}
      BY <2>2, StatusOpsAre DEF States
    <3>2. after = "chatting" => ConversationDue'
      BY <1>1, <1>2, <3>1, EmittedConversation
    <3> QED
      BY <1>6, <2>2, <3>1, <3>2
  <2>3. CASE op \notin StatusOps
    <3>1. /\ after = phase /\ matches' = matches
          /\ Queued("CANCEL") /\ ~Queued("CANCEL")' => phase # "waiting"
          /\ Queued("LEAVE") /\ ~Queued("LEAVE")' => phase # "chatting"
      BY <2>3, StatusOpsAre
    <3>2. ConversationDue => ConversationDue'
      BY <1>1, <1>2, <2>3, <3>1, EmittedConversation
    <3> QED
      BY <1>7, <2>1, <2>3, <3>1, <3>2
  <2> QED
    BY <2>2, <2>3
<1>9. SearchIsDue'
  <2> SUFFICES ASSUME PatientUser, Live', after # "waiting" \/ Queued("CANCEL")'
               PROVE  StatusDueIn(States \ {"searching"})'
    BY DEF SearchIsDue
  <2>1. CASE op = "SEARCHING"
    <3>1. /\ after = "waiting" /\ c2s # <<>> /\ c2s' = Tail(c2s) /\ Head(c2s) = "FIND"
      BY <2>1
    <3>2. PICK j \in DOMAIN c2s' : c2s'[j] = "CANCEL"
      BY <3>1 DEF Queued
    <3>3. /\ 1 \in DOMAIN c2s /\ c2s[1] = "FIND" /\ j \in Nat
          /\ j + 1 \in DOMAIN c2s /\ c2s[j + 1] = "CANCEL"
      BY <1>1, <3>1, <3>2, AfterHandle
    <3>4. j + 1 < 1
      BY <1>5, <3>3 DEF AgreementInv, OneSearch, Live
    <3> QED
      BY <3>3, <3>4
  <2>2. CASE op \in StatusOps /\ op # "SEARCHING"
    <3>1. StatusAfter[op] \in States \ {"searching"}
      BY <2>2, StatusOpsAre DEF States
    <3> QED
      BY <1>6, <2>2, <3>1
  <2>3. CASE op \notin StatusOps
    <3>1. after = phase
      BY <2>3, StatusOpsAre
    <3>2. StatusDueIn(States \ {"searching"})
      BY <1>4, <1>5, <3>1 DEF AgreementInv, SearchIsDue
    <3> QED
      BY <1>7, <2>3, <3>2
  <2> QED
    BY <2>1, <2>2, <2>3
<1>10. HelloFirst'
  <2> SUFFICES ASSUME Serving', view' = "handshake"
               PROVE  /\ phase' \in {"gone", "handshake", "connected"}
                      /\ \A i \in DOMAIN s2c' : s2c'[i].op = "READY"
    BY DEF HelloFirst
  <2>1. op = "READY" /\ \A i \in DOMAIN s2c : s2c[i].op = "READY"
    BY <1>2 DEF AgreementInv, HelloFirst, Serving
  <2> DEFINE frame == Frame(op, conv, after)
  <2>2. frame.op = "READY"
    BY <2>1 DEF Frame
  <2> HIDE DEF frame
  <2>3. s2c \in Seq(ServerFrames) /\ s2c' = Append(s2c, frame)
    BY <1>1 DEF LinkTypeOK, frame
  <2>4. \A i \in DOMAIN s2c' : s2c'[i] = frame \/ (i \in DOMAIN s2c /\ s2c'[i] = s2c[i])
    BY <2>3
  <2> QED
    BY <2>1, <2>2, <2>4
<1> QED
  BY <1>3, <1>8, <1>9, <1>10 DEF AgreementInv

\* A CANCEL is obeyed: the waiting is over, as the status has it since the
\* CANCEL was sent.
LEMMA CancelAgrees ==
    ASSUME WorkerInv, AgreementInv,
           UNCHANGED <<workerVars, link, writer, view, s2c, matches>>,
           c2s # <<>>, c2s' = Tail(c2s), Head(c2s) = "CANCEL",
           phase = "waiting", phase' = "connected"
    PROVE  AgreementInv'
<1>1. LinkTypeOK
  BY WorkerInvSplits DEF LinkOK
<1>2. UNCHANGED <<pc, state, conversation_id, searching_intent, stance>>
  BY DEF workerVars
<1>3. OneSearch' /\ CancelIsFinal' /\ IntentFitsStatus'
  BY ServedSearches
<1>4. Queued("CANCEL")
  BY <1>1, AfterHandle DEF Queued
<1>5. Live' => Live
  BY <1>2 DEF Live, Serving
<1>6. \A S : StatusDueIn(S) => StatusDueIn(S)'
  BY <1>2 DEF StatusDueIn, NoneOf, LastOf
<1>7. PhaseIsDue' /\ SearchIsDue' /\ HelloFirst'
  BY <1>2, <1>4, <1>5, <1>6 DEF AgreementInv, PhaseIsDue, SearchIsDue, HelloFirst, Serving
<1> QED
  BY <1>3, <1>7 DEF AgreementInv

\* The socket ends: nothing is due any more, and no search is added.
LEMMA LossAgrees ==
    ASSUME WorkerInv, AgreementInv,
           \/ LinkLost
           \/ ServiceCloses /\ UNCHANGED workerVars
    PROVE  AgreementInv'
<1>1. /\ UNCHANGED <<pc, state, conversation_id, searching_intent, stance, writer, view>>
      /\ link' = "lost" /\ c2s' = <<>> /\ phase' = "gone"
  BY DEF LinkLost, Lose, ServiceCloses, workerVars
<1>2. \A i \in DOMAIN s2c' : i \in DOMAIN s2c /\ s2c'[i] = s2c[i]
  <2>1. CASE LinkLost
    <3>1. PICK kept \in 0 .. Len(s2c) : s2c' = SubSeq(s2c, 1, kept)
      BY <2>1 DEF LinkLost, Lose
    <3>2. s2c \in Seq(ServerFrames)
      BY WorkerInvSplits DEF LinkOK, LinkTypeOK
    <3> QED
      BY <3>1, <3>2
  <2>2. CASE ServiceCloses
    BY <2>2 DEF ServiceCloses
  <2> QED
    BY <2>1, <2>2
<1>3. DOMAIN c2s' = {}
  BY <1>1
<1>4. PhaseIsDue' /\ SearchIsDue' /\ HelloFirst' /\ IntentFitsStatus'
  BY <1>1, <1>2
  DEF AgreementInv, PhaseIsDue, SearchIsDue, HelloFirst, IntentFitsStatus, Live, Serving
<1>5. NoSearchOnItsWay => NoSearchOnItsWay'
  BY <1>2, <1>3 DEF NoSearchOnItsWay
<1>6. OneSearch' /\ CancelIsFinal'
  BY <1>1, <1>2, <1>3, <1>5
  DEF AgreementInv, OneSearch, CancelIsFinal, Queued, Serving
<1> QED
  BY <1>4, <1>6 DEF AgreementInv

\* The service takes a command that is not CLOSE.
LEMMA HandlesAgrees ==
    WorkerInv /\ AgreementInv /\ ServiceHandles /\ UNCHANGED workerVars => AgreementInv'
<1> SUFFICES ASSUME WorkerInv, AgreementInv, ServiceHandles, UNCHANGED workerVars
             PROVE  AgreementInv'
  OBVIOUS
<1>1. /\ LinkTypeOK /\ phase \in Phases
      /\ 0 \in 0 .. MaxConversations
  BY WorkerInvSplits, BoundsAssumption DEF LinkOK, LinkTypeOK
<1>2. /\ c2s # <<>> /\ c2s' = Tail(c2s)
      /\ UNCHANGED <<link, writer, matches, view>>
  BY DEF ServiceHandles
<1>3. ~(Serving /\ view = "handshake")
  BY <1>2 DEF WorkerInv, StatusFitsView
<1>4. \A frame \in {"CANCEL", "LEAVE"} :
        Queued(frame) /\ ~Queued(frame)' => Head(c2s) = frame
  BY <1>1, <1>2, AfterHandle DEF Queued
<1>5. ASSUME NEW op \in {"ERROR", "BUSY", "MESSAGE"}, Emit(op, phase),
             Head(c2s) = "CANCEL" => phase # "waiting",
             Head(c2s) = "LEAVE" => phase # "chatting"
      PROVE  AgreementInv'
  <2>1. s2c' = Append(s2c, Frame(op, 0, phase)) /\ phase' = phase /\ op \in ServerOps
    BY <1>5 DEF Emit, EmitWithRoom, ServerOps
  <2>2. /\ Queued("CANCEL") /\ ~Queued("CANCEL")' => phase # "waiting"
        /\ Queued("LEAVE") /\ ~Queued("LEAVE")' => phase # "chatting"
    BY <1>4, <1>5
  <2> QED
    BY <1>1, <1>2, <1>3, <2>1, <2>2, EmitAgrees
<1>6. ASSUME NEW op, NEW after, Emit(op, after),
             \/ op = "SEARCHING" /\ after = "waiting" /\ Head(c2s) = "FIND"
             \/ op = "PEER_LEFT" /\ after = "connected"
      PROVE  AgreementInv'
  <2>1. /\ s2c' = Append(s2c, Frame(op, 0, after)) /\ phase' = after
        /\ op \in ServerOps /\ after \in Phases
    BY <1>6 DEF Emit, EmitWithRoom, ServerOps, Phases
  <2> QED
    BY <1>1, <1>2, <1>3, <1>6, <2>1, EmitAgrees
<1>7. CASE phase # ValidPhase(Head(c2s)) /\ Refuse("ERROR")
  BY <1>5, <1>7 DEF Refuse, ValidPhase
<1>8. CASE Head(c2s) \in {"FIND", "MESSAGE"} /\ Refuse("BUSY")
  BY <1>5, <1>8 DEF Refuse
<1>9. CASE Head(c2s) = "FIND" /\ Emit("SEARCHING", "waiting")
  BY <1>6, <1>9
<1>10. CASE phase = ValidPhase(Head(c2s)) /\ Head(c2s) = "MESSAGE" /\ Emit("MESSAGE", "chatting")
  BY <1>5, <1>10 DEF ValidPhase
<1>11. CASE Head(c2s) = "LEAVE" /\ Emit("PEER_LEFT", "connected")
  BY <1>6, <1>11
<1>12. CASE /\ phase = ValidPhase(Head(c2s)) /\ Head(c2s) = "CANCEL"
            /\ phase' = "connected" /\ UNCHANGED s2c
  BY <1>2, <1>12, CancelAgrees DEF ValidPhase
<1> QED
  BY <1>7, <1>8, <1>9, <1>10, <1>11, <1>12 DEF ServiceHandles

\* The service accepts the hello, matches, or relays what the peer does.
LEMMA SpeaksAgrees ==
    ASSUME WorkerInv, AgreementInv, ServiceAccepts \/ ServicePeer, UNCHANGED workerVars
    PROVE  AgreementInv'
<1>1. /\ 0 \in 0 .. MaxConversations /\ matches \in 0 .. MaxConversations
      /\ UNCHANGED <<link, writer, view, c2s>>
      /\ {"READY", "MATCHED", "PEER_LEFT", "MESSAGE"} \subseteq ServerOps
      /\ {"connected", "chatting"} \subseteq Phases
  BY WorkerInvSplits, BoundsAssumption
  DEF LinkOK, LinkTypeOK, ServiceAccepts, ServicePeer, ServiceMatches,
      ServicePeerLeaves, ServicePeerMessage, ServerOps, Phases
<1>2. phase \in {"waiting", "chatting"} => ~(Serving /\ view = "handshake")
  BY DEF AgreementInv, HelloFirst
<1>3. CASE ServiceAccepts
  <2>1. s2c' = Append(s2c, Frame("READY", 0, "connected")) /\ phase' = "connected"
    BY <1>3 DEF ServiceAccepts, Emit, EmitWithRoom
  <2> QED
    BY <1>1, <2>1, EmitAgrees
<1>4. CASE ServiceMatches
  <2>1. /\ s2c' = Append(s2c, Frame("MATCHED", matches + 1, "chatting"))
        /\ phase = "waiting" /\ phase' = "chatting"
        /\ matches' = matches + 1 /\ matches < MaxConversations
    BY <1>4 DEF ServiceMatches, EmitWithRoom
  <2>2. matches + 1 \in 0 .. MaxConversations
    BY <1>1, <2>1, BoundsAssumption
  <2> QED
    BY <1>1, <1>2, <2>1, <2>2, EmitAgrees
<1>5. CASE ServicePeerLeaves
  <2>1. /\ s2c' = Append(s2c, Frame("PEER_LEFT", 0, "connected"))
        /\ phase = "chatting" /\ phase' = "connected"
    BY <1>5 DEF ServicePeerLeaves, EmitWithRoom
  <2> QED
    BY <1>1, <1>2, <2>1, EmitAgrees
<1>6. CASE ServicePeerMessage
  <2>1. /\ s2c' = Append(s2c, Frame("MESSAGE", 0, "chatting"))
        /\ phase = "chatting" /\ phase' = "chatting" /\ matches' = matches
    BY <1>6 DEF ServicePeerMessage, EmitWithRoom
  <2>2. \A frame : Queued(frame)' <=> Queued(frame)
    BY <1>1 DEF Queued
  <2> QED
    BY <1>1, <1>2, <2>1, <2>2, EmitAgrees
<1> QED
  BY <1>3, <1>4, <1>5, <1>6 DEF ServicePeer

\* Every step keeps what the agreement with the service rests on.
LEMMA AgreementStep == WorkerInv /\ AgreementInv /\ [Next]_vars => AgreementInv'
<1> SUFFICES ASSUME WorkerInv, AgreementInv, [Next]_vars PROVE AgreementInv'
  OBVIOUS
<1>1. CASE UserCommand
  BY <1>1, UserAgrees
<1>2. CASE WorkerStep
  <2>1. CASE EndOfStream
    BY <2>1, UnconnectedAgrees DEF EndOfStream
  <2>2. CASE \/ LoadOk \/ LoadFails \/ ConnectOk \/ ConnectFails \/ BackoffElapsed
             \/ RecordEvent \/ RecordFails \/ CommandsClosed
    BY <2>2, UnconnectedAgrees, ConnectAgrees, RecordAgrees
  <2> QED
    BY <1>2, <2>1, <2>2 DEF WorkerStep
<1>3. CASE ListenerFails
  BY <1>3, UnsentOK DEF ListenerFails, linkVars
<1>4. CASE Service
  <2>1. \/ ServiceHandles \/ ServiceCloses \/ ServiceAccepts \/ ServicePeer
    BY <1>4 DEF Service, ServiceReplies
  <2>2. UNCHANGED workerVars
    BY <1>4 DEF Service
  <2> QED
    BY <2>1, <2>2, HandlesAgrees, SpeaksAgrees, LossAgrees
<1>5. CASE LinkLost
  BY <1>5, LossAgrees
<1>6. CASE UNCHANGED vars
  BY <1>6, UnsentOK DEF vars, workerVars
<1> QED
  BY <1>1, <1>2, <1>3, <1>4, <1>5, <1>6 DEF Next

\* Nothing is due before there is a connection.
LEMMA InitAgrees == Init => AgreementInv
BY DEF Init, LinkInit, AgreementInv, PhaseIsDue, OneSearch, SearchIsDue, HelloFirst,
       IntentFitsStatus, CancelIsFinal, Live, Serving

\* In every reachable state the frames and commands on their way account for
\* every difference between the status of the worker and the service's phase:
\* record_event and the handlers of the commands never add one.
THEOREM AgreementInvariance == Spec => [](WorkerInv /\ AgreementInv)
<1>1. Init => WorkerInv /\ AgreementInv
  BY InitOK, InitAgrees
<1>2. WorkerInv /\ AgreementInv /\ [Next]_vars => WorkerInv' /\ AgreementInv'
  BY StepOK, AgreementStep
<1> QED
  BY <1>1, <1>2, PTL DEF Spec

\* With nothing on its way what is due is there already.
LEMMA QuietIsDue ==
    ASSUME WorkerInv, AgreementInv, Serving, Quiet
    PROVE  /\ Live /\ phase # "gone"
           /\ \A frame : ~Queued(frame)
           /\ \A S : StatusDueIn(S) => state \in S
           /\ ConversationDue => conversation_id = matches
<1>1. DOMAIN c2s = {} /\ DOMAIN s2c = {} /\ Live
  BY DEF Quiet, Live
<1>2. phase # "gone"
  <2>1. StillIn(view, phase) /\ view # "gone"
    BY WorkerInvSplits DEF LinkOK, LinkInv, LinkShape, ServiceEndsChain, LastTag, Quiet
  <2> QED
    BY <2>1 DEF StillIn
<1> QED
  BY <1>1, <1>2 DEF Queued, StatusDueIn, ConversationDue, NoneOf

\* With nothing on its way the intent a reconnect would act on is the
\* service's phase, for patient and impatient users alike: searching_intent is
\* set while the service searches, and clear while it has a conversation.
THEOREM IntentAgrees == Spec => []IntentAgreesWithService
<1>1. WorkerInv /\ AgreementInv => IntentAgreesWithService
  <2> SUFFICES ASSUME WorkerInv, AgreementInv, Serving, Quiet
               PROVE  /\ phase = "waiting" => searching_intent
                      /\ phase = "chatting" => ~searching_intent
    BY DEF IntentAgreesWithService
  <2>1. /\ phase = "waiting" => state = "searching"
        /\ phase = "chatting" => state = "matched"
    BY QuietIsDue DEF AgreementInv, PhaseIsDue
  <2> QED
    BY <2>1 DEF AgreementInv, IntentFitsStatus, Quiet
<1> QED
  BY <1>1, AgreementInvariance, PTL

\* With nothing on its way the status of a patient user's session names the
\* service's phase: it says searching exactly while the service searches and
\* matched exactly while there is a conversation, and then holds its id.
THEOREM StatusAgrees == PatientUser => (Spec => []StatusAgreesWithService)
<1> SUFFICES ASSUME PatientUser PROVE Spec => []StatusAgreesWithService
  OBVIOUS
<1>1. WorkerInv /\ AgreementInv => StatusAgreesWithService
  <2> SUFFICES ASSUME WorkerInv, AgreementInv, Serving, Quiet
               PROVE  /\ phase = "waiting" <=> state = "searching"
                      /\ phase = "chatting" <=> state = "matched"
                      /\ phase = "chatting" => conversation_id = matches
    BY DEF StatusAgreesWithService
  <2>1. /\ phase = "waiting" => state = "searching"
        /\ phase = "chatting" => state = "matched" /\ conversation_id = matches
        /\ phase # "chatting" => state # "matched"
    BY QuietIsDue DEF AgreementInv, PhaseIsDue
  <2>2. phase # "waiting" => state # "searching"
    BY QuietIsDue DEF AgreementInv, SearchIsDue
  <2> QED
    BY <2>1, <2>2
<1> QED
  BY <1>1, AgreementInvariance, PTL

\* An impatient user's status is right about the conversation, too, and lags
\* the service about a search in one direction only: it never misses one.
THEOREM ConversationAgrees ==
    Spec => [](Serving /\ Quiet =>
                 /\ phase = "chatting" <=> state = "matched"
                 /\ phase = "chatting" => conversation_id = matches
                 /\ phase = "waiting" => state = "searching")
<1>1. WorkerInv /\ AgreementInv =>
        (Serving /\ Quiet =>
           /\ phase = "chatting" <=> state = "matched"
           /\ phase = "chatting" => conversation_id = matches
           /\ phase = "waiting" => state = "searching")
  BY QuietIsDue DEF AgreementInv, PhaseIsDue
<1> QED
  BY <1>1, AgreementInvariance, PTL

\* A cancel or leave of an active search that was acknowledged to a patient
\* user ends it: nothing later, not even a reconnect, leaves the service
\* searching while the user has asked for nothing else.
THEOREM CancelEnds == PatientUser => (Spec => []CancelEndsSearch)
<1> SUFFICES ASSUME PatientUser PROVE Spec => []CancelEndsSearch
  OBVIOUS
<1>1. WorkerInv /\ AgreementInv => CancelEndsSearch
  <2> SUFFICES ASSUME WorkerInv, AgreementInv, Serving, Quiet, stance = "cancelled"
               PROVE  phase # "waiting"
    BY DEF CancelEndsSearch
  <2>1. phase = "waiting" => state = "searching"
    BY QuietIsDue DEF AgreementInv, PhaseIsDue
  <2>2. state # "searching"
    BY DEF AgreementInv, CancelIsFinal, Serving
  <2> QED
    BY <2>1, <2>2
<1> QED
  BY <1>1, AgreementInvariance, PTL

===============================================================================
