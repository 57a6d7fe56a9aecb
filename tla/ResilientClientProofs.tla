------------------------- MODULE ResilientClientProofs -------------------------
(***************************************************************************)
(* What ResilientClient promises, for any socket, any queues and any       *)
(* number of senders.  The heart of it is SearchHeld: only an event of the *)
(* loop's own connection can make it true, and that event sets             *)
(* should_find; a LEAVE or a PEER_LEFT that clears should_find makes it    *)
(* false first.                                                            *)
(***************************************************************************)
EXTENDS ResilientClient, ClientLinkProofs

LeaveOnItsWay == \E i \in DOMAIN c2s : c2s[i] = "LEAVE"
EndOnItsWay == \E j \in DOMAIN s2c : s2c[j].op = "PEER_LEFT"

------------------------------------------------------------------------------
(* The link.                                                               *)

\* Without a link, or with a new one, no conversation can be over.
LEMMA FreshLink ==
    ASSUME link' # "up" \/ (s2c' = <<>> /\ view' = "handshake")
    PROVE  DepartureSeen' /\ ~SearchHeld'
BY EmptyIsSeq DEF DepartureSeen, Tag, SearchHeld

\* What the client does to the link but taking events leaves the frames alone.
LEMMA SameDeparture ==
    ASSUME DepartureSeen, UNCHANGED <<link, s2c, phase, view>>
    PROVE  DepartureSeen'
BY DEF DepartureSeen, Tag

\* A frame is emitted, and PEER_LEFT if a conversation is over with it.
LEMMA EmitDeparture ==
    ASSUME NEW op, NEW conv, NEW after, NEW extra,
           LinkOK, DepartureSeen, link = "up", UNCHANGED view,
           EmitWithRoom(op, conv, after, extra),
           phase = "chatting" /\ after # "chatting" => op = "PEER_LEFT"
    PROVE  /\ DepartureSeen'
           /\ EndOnItsWay \/ op = "PEER_LEFT" => EndOnItsWay'
<1> DEFINE frame == Frame(op, conv, after)
<1>1. /\ s2c \in Seq(ServerFrames) /\ s2c' = Append(s2c, frame)
      /\ phase' = after /\ frame.op = op /\ frame.after = after
  BY DEF LinkOK, LinkTypeOK, EmitWithRoom, Frame
<1> HIDE DEF frame
<1>2. /\ Len(s2c) \in Nat /\ Len(s2c') = Len(s2c) + 1
      /\ DOMAIN s2c = 1 .. Len(s2c) /\ DOMAIN s2c' = 1 .. Len(s2c')
      /\ s2c'[Len(s2c')] = frame
      /\ \A i \in 1 .. Len(s2c) : s2c'[i] = s2c[i]
  BY <1>1
<1>3. EndOnItsWay \/ op = "PEER_LEFT" => EndOnItsWay'
  <2>1. CASE EndOnItsWay
    BY <2>1, <1>2 DEF EndOnItsWay
  <2>2. CASE op = "PEER_LEFT"
    <3>1. Len(s2c') \in DOMAIN s2c'
      BY <1>2
    <3> QED
      BY <2>2, <3>1, <1>1, <1>2 DEF EndOnItsWay
  <2> QED
    BY <2>1, <2>2
<1>4. DepartureSeen'
  <2> SUFFICES ASSUME phase' # "chatting", NEW i \in 0 .. Len(s2c'),
                      Tag(i)' = "chatting"
               PROVE  \E j \in i + 1 .. Len(s2c') : s2c'[j].op = "PEER_LEFT"
    BY DEF DepartureSeen
  <2>1. i \in 0 .. Len(s2c)
    <3>1. i # Len(s2c')
      BY <1>1, <1>2 DEF Tag
    <3> QED
      BY <3>1, <1>2
  <2>2. Tag(i) = "chatting"
    BY <2>1, <1>2 DEF Tag
  <2>3. CASE phase = "chatting"
    <3>1. op = "PEER_LEFT" /\ Len(s2c') \in i + 1 .. Len(s2c')
      BY <2>1, <2>3, <1>1, <1>2
    <3> QED
      BY <3>1, <1>1, <1>2
  <2>4. CASE phase # "chatting"
    <3>1. PICK j \in i + 1 .. Len(s2c) : s2c[j].op = "PEER_LEFT"
      BY <2>1, <2>2, <2>4 DEF DepartureSeen
    <3>2. j \in i + 1 .. Len(s2c') /\ s2c'[j] = s2c[j]
      BY <2>1, <1>2
    <3> QED
      BY <3>1, <3>2
  <2> QED
    BY <2>3, <2>4
<1> QED
  BY <1>3, <1>4

\* Whether the client holds a search cannot become true by frames that come or
\* commands that go, as long as no departure is forgotten.
LEMMA StillHeld ==
    ASSUME UNCHANGED <<link, view>>,
           view = "chatting" /\ Departing /\ link = "up" => Departing'
    PROVE  SearchHeld' => SearchHeld
BY DEF SearchHeld

\* The service handles a command: a LEAVE that disappears has ended the
\* conversation, or met the end of it.
LEMMA HandlesDeparture ==
    ASSUME LinkOK, DepartureSeen, ServiceHandles
    PROVE  DepartureSeen' /\ (SearchHeld' => SearchHeld)
<1>1. /\ link = "up" /\ UNCHANGED <<link, view>>
      /\ c2s \in Seq(ClientFrames) /\ c2s # <<>> /\ c2s' = Tail(c2s)
  BY PhaseFitsTag DEF ServiceHandles, LinkOK, LinkTypeOK
<1>2. /\ Len(c2s) \in Nat \ {0} /\ Head(c2s) = c2s[1]
      /\ Len(c2s') = Len(c2s) - 1
      /\ \A i \in 1 .. Len(c2s) - 1 : c2s'[i] = c2s[i + 1]
  BY <1>1, TailFacts
<1>3. /\ DepartureSeen'
      /\ EndOnItsWay => EndOnItsWay'
      /\ phase = "chatting" /\ Head(c2s) = "LEAVE" => EndOnItsWay'
  <2>1. ASSUME NEW op, NEW after, Emit(op, after),
               phase = "chatting" /\ after # "chatting" => op = "PEER_LEFT"
        PROVE  /\ DepartureSeen'
               /\ EndOnItsWay \/ op = "PEER_LEFT" => EndOnItsWay'
    BY <1>1, <2>1, EmitDeparture DEF Emit
  <2>2. CASE phase # ValidPhase(Head(c2s)) /\ Refuse("ERROR")
    BY <2>1, <2>2 DEF Refuse, ValidPhase
  <2>3. CASE Head(c2s) \in {"FIND", "MESSAGE"} /\ Refuse("BUSY")
    BY <2>1, <2>3 DEF Refuse
  <2>4. CASE Head(c2s) = "FIND" /\ phase = "connected" /\ Emit("SEARCHING", "waiting")
    BY <2>1, <2>4
  <2>5. CASE Head(c2s) = "MESSAGE" /\ Emit("MESSAGE", "chatting")
    BY <2>1, <2>5
  <2>6. CASE Head(c2s) = "LEAVE" /\ Emit("PEER_LEFT", "connected")
    BY <2>1, <2>6
  <2>7. CASE /\ Head(c2s) = "CANCEL" /\ phase = "waiting"
             /\ phase' = "connected" /\ UNCHANGED s2c
    BY <1>1, <2>7 DEF DepartureSeen, Tag, EndOnItsWay
  <2> QED
    BY <2>2, <2>3, <2>4, <2>5, <2>6, <2>7 DEF ServiceHandles, ValidPhase
<1>4. ASSUME view = "chatting", Departing PROVE Departing'
  <2>1. CASE EndOnItsWay
    BY <2>1, <1>3 DEF EndOnItsWay, Departing
  <2>2. CASE LeaveOnItsWay
    <3>1. PICK i \in 1 .. Len(c2s) : c2s[i] = "LEAVE"
      BY <2>2, <1>1 DEF LeaveOnItsWay
    <3>2. CASE i = 1
      <4>1. CASE phase = "chatting"
        BY <3>1, <3>2, <4>1, <1>2, <1>3 DEF EndOnItsWay, Departing
      <4>2. CASE phase # "chatting"
        <5>1. PICK j \in 1 .. Len(s2c) : s2c[j].op = "PEER_LEFT"
          BY <1>1, <1>4, <4>2 DEF DepartureSeen, Tag, LinkOK, LinkTypeOK
        <5>2. EndOnItsWay
          BY <5>1 DEF EndOnItsWay, LinkOK, LinkTypeOK
        <5> QED
          BY <5>2, <1>3 DEF EndOnItsWay, Departing
      <4> QED
        BY <4>1, <4>2
    <3>3. CASE i # 1
      <4>1. i - 1 \in 1 .. Len(c2s) - 1 /\ c2s'[i - 1] = c2s[i]
        BY <3>3, <1>2
      <4>2. i - 1 \in DOMAIN c2s'
        BY <4>1, <1>1, <1>2, TailFacts
      <4> QED
        BY <3>1, <4>1, <4>2 DEF Departing
    <3> QED
      BY <3>2, <3>3
  <2> QED
    BY <1>4, <2>1, <2>2 DEF Departing, EndOnItsWay, LeaveOnItsWay
<1> QED
  BY <1>1, <1>3, <1>4, StillHeld

\* The service does anything else.
LEMMA ServiceDeparture ==
    ASSUME LinkOK, DepartureSeen, ServiceReplies \/ ServicePeer
    PROVE  DepartureSeen' /\ (SearchHeld' => SearchHeld)
<1>1. CASE ServiceHandles
  BY <1>1, HandlesDeparture
<1>2. CASE ServiceCloses
  BY <1>2, FreshLink DEF ServiceCloses
<1>3. ASSUME NEW op, NEW conv, NEW after, NEW extra,
             EmitWithRoom(op, conv, after, extra), phase # "gone",
             UNCHANGED <<link, view, c2s>>,
             phase = "chatting" /\ after # "chatting" => op = "PEER_LEFT"
      PROVE  DepartureSeen' /\ (SearchHeld' => SearchHeld)
  <2>1. link = "up"
    BY <1>3, PhaseFitsTag
  <2>2. DepartureSeen' /\ (EndOnItsWay => EndOnItsWay')
    BY <1>3, <2>1, EmitDeparture
  <2>3. Departing => Departing'
    BY <1>3, <2>2 DEF Departing, EndOnItsWay
  <2> QED
    BY <1>3, <2>2, <2>3, StillHeld
<1>4. CASE ServiceAccepts
  BY <1>3, <1>4 DEF ServiceAccepts, Emit
<1>5. CASE ServiceMatches
  BY <1>3, <1>5 DEF ServiceMatches
<1>6. CASE ServicePeerLeaves
  BY <1>3, <1>6 DEF ServicePeerLeaves
<1>7. CASE ServicePeerMessage
  BY <1>3, <1>7 DEF ServicePeerMessage
<1> QED
  BY <1>1, <1>2, <1>4, <1>5, <1>6, <1>7 DEF ServiceReplies, ServicePeer

\* The client takes an event: only a SEARCHING or a MATCHED tells it of a
\* search, and a PEER_LEFT ends what it held.
LEMMA TakeDeparture ==
    ASSUME LinkOK, DepartureSeen, TakeEvent
    PROVE  /\ LinkOK' /\ DepartureSeen'
           /\ SearchHeld' => SearchHeld \/ Head(s2c).op \in {"SEARCHING", "MATCHED"}
           /\ Head(s2c).op = "PEER_LEFT" => ~SearchHeld'
<1>1. /\ s2c # <<>> /\ s2c' = Tail(s2c) /\ view' = Head(s2c).after
      /\ UNCHANGED <<link, writer, c2s, phase, matches>>
      /\ s2c \in Seq(ServerFrames)
  BY DEF TakeEvent, LinkOK, LinkTypeOK
<1>2. /\ Len(s2c) \in Nat \ {0} /\ Head(s2c) = s2c[1]
      /\ s2c' \in Seq(ServerFrames) /\ Len(s2c') = Len(s2c) - 1
      /\ \A i \in 1 .. Len(s2c) - 1 : s2c'[i] = s2c[i + 1]
  BY <1>1, TailFacts
<1>3. LinkOK' /\ Follows(view, Head(s2c))
  <2>1. /\ c2s' \in Seq(ClientFrames) /\ Len(c2s') <= MaxInFlight
        /\ link # "up" => c2s' = <<>>
        /\ writer' \in BOOLEAN
    BY <1>1 DEF LinkOK, LinkTypeOK, LinkInv, LinkShape
  <2> QED
    BY <1>1, <2>1, TakeEventOK
<1>4. DepartureSeen'
  <2> SUFFICES ASSUME link' = "up", phase' # "chatting",
                      NEW i \in 0 .. Len(s2c'), Tag(i)' = "chatting"
               PROVE  \E j \in i + 1 .. Len(s2c') : s2c'[j].op = "PEER_LEFT"
    BY DEF DepartureSeen
  <2>1. i + 1 \in 0 .. Len(s2c) /\ Tag(i + 1) = "chatting"
    BY <1>1, <1>2 DEF Tag
  <2>2. PICK j \in i + 2 .. Len(s2c) : s2c[j].op = "PEER_LEFT"
    BY <1>1, <2>1 DEF DepartureSeen
  <2>3. j - 1 \in i + 1 .. Len(s2c') /\ s2c'[j - 1] = s2c[j]
    BY <1>2, <2>2
  <2> QED
    BY <2>2, <2>3
<1>5. Head(s2c).op = "PEER_LEFT" => ~SearchHeld'
  BY <1>1, <1>3 DEF Follows, SearchHeld
<1>6. ASSUME SearchHeld', Head(s2c).op \notin {"SEARCHING", "MATCHED"}
      PROVE  SearchHeld
  <2>1. view = view' /\ link = "up"
    BY <1>1, <1>3, <1>6 DEF Follows, StillIn, SearchHeld
  <2>2. CASE view = "waiting"
    BY <2>1, <2>2 DEF SearchHeld
  <2>3. CASE view = "chatting"
    <3>1. ~Departing'
      BY <1>6, <2>1, <2>3 DEF SearchHeld
    <3>2. ~EndOnItsWay
      <4> SUFFICES ASSUME NEW j \in 1 .. Len(s2c), s2c[j].op = "PEER_LEFT"
                   PROVE  FALSE
        BY <1>1 DEF EndOnItsWay
      <4>1. j # 1
        BY <1>2, <1>5, <1>6
      <4>2. j - 1 \in 1 .. Len(s2c) - 1 /\ s2c'[j - 1] = s2c[j]
        BY <4>1, <1>2
      <4>3. j - 1 \in DOMAIN s2c'
        BY <4>2, <1>2
      <4> QED
        BY <3>1, <4>2, <4>3 DEF Departing
    <3> QED
      BY <1>1, <2>1, <2>3, <3>1, <3>2 DEF SearchHeld, Departing, EndOnItsWay
  <2> QED
    BY <1>6, <2>1, <2>2, <2>3 DEF SearchHeld
<1> QED
  BY <1>3, <1>4, <1>5, <1>6

\* A command is written: the departures on their way stay, and a LEAVE is one.
LEMMA SendDeparture ==
    ASSUME NEW command \in Commands, LinkOK, DepartureSeen, SendOk(command)
    PROVE  /\ LinkOK' /\ DepartureSeen'
           /\ SearchHeld' => SearchHeld
           /\ command = "LEAVE" /\ view = "chatting" => ~SearchHeld'
<1>1. LinkOK' /\ DepartureSeen'
  BY SendOkOK, SameDeparture DEF SendOk
<1>2. UNCHANGED <<link, view, s2c>>
  BY DEF SendOk
<1>3. CASE link = "up"
  <2> DEFINE frames == FramesOf(command)
  <2>1. c2s' = c2s \o frames /\ c2s \in Seq(ClientFrames)
    BY <1>3 DEF SendOk, LinkOK, LinkTypeOK
  <2>2. frames \in Seq(ClientFrames)
    BY FramesOfOK
  <2>3. command = "LEAVE" => frames = <<"LEAVE">>
    BY DEF FramesOf
  <2> HIDE DEF frames
  <2>4. /\ \A i \in DOMAIN c2s : i \in DOMAIN c2s' /\ c2s'[i] = c2s[i]
        /\ \A i \in DOMAIN frames :
             Len(c2s) + i \in DOMAIN c2s' /\ c2s'[Len(c2s) + i] = frames[i]
    BY <2>1, <2>2
  <2>5. Departing => Departing'
    BY <1>2, <2>4 DEF Departing
  <2>6. command = "LEAVE" => Departing'
    <3> SUFFICES ASSUME command = "LEAVE" PROVE Departing'
      OBVIOUS
    <3>1. 1 \in DOMAIN frames /\ frames[1] = "LEAVE"
      BY <2>3
    <3> QED
      BY <3>1, <2>4 DEF Departing
  <2> QED
    BY <1>1, <1>2, <2>5, <2>6 DEF SearchHeld
<1>4. CASE link # "up"
  BY <1>1, <1>2, <1>4 DEF SearchHeld
<1> QED
  BY <1>3, <1>4

------------------------------------------------------------------------------
(* The loop.                                                               *)

LoopTypeOK ==
    /\ pc \in Places
    /\ should_find \in BOOLEAN
    /\ queue \in Seq(Senders) /\ Len(queue) <= CommandCapacity
    /\ events \in 0 .. EventCapacity
    /\ users \in {"client", "handles", "nobody"}
    /\ closed \in BOOLEAN /\ stray \in BOOLEAN

\* The invariant in the parts the lemmas are about, here and after a step.
LEMMA Parts ==
    /\ ResilientInv <=> LinkOK /\ LoopTypeOK /\ DepartureSeen /\ LoopShape
    /\ ResilientInv' <=> LinkOK' /\ LoopTypeOK' /\ DepartureSeen' /\ LoopShape'
BY DEF ResilientInv, LinkOK, TypeOK, LoopTypeOK

LEMMA InitSound == Init => ResilientInv
<1> SUFFICES ASSUME Init PROVE ResilientInv
  OBVIOUS
<1>1. LinkOK
  BY LinkInitOK DEF Init
<1>2. LoopTypeOK
  <2>1. should_find \in BOOLEAN /\ closed \in BOOLEAN /\ stray \in BOOLEAN
    BY DEF Init
  <2>2. /\ pc \in Places /\ users \in {"client", "handles", "nobody"}
        /\ queue \in Seq(Senders) /\ Len(queue) <= CommandCapacity
        /\ events \in 0 .. EventCapacity
    BY EmptyIsSeq, ResilientAssumption DEF Init, Places
  <2> QED
    BY <2>1, <2>2 DEF LoopTypeOK
<1>3. DepartureSeen /\ LoopShape
  BY DEF Init, LinkInit, DepartureSeen, LoopShape
<1> QED
  BY <1>1, <1>2, <1>3, Parts

\* The queue after the command at its head is taken.
LEMMA AnswerHeadFits ==
    ASSUME LoopTypeOK, queue # <<>>, AnswerHead
    PROVE  queue' \in Seq(Senders) /\ Len(queue') <= CommandCapacity
<1>1. queue \in Seq(Senders) /\ queue' = Tail(queue)
  BY DEF LoopTypeOK, AnswerHead
<1>2. /\ Len(queue) \in Nat /\ queue' \in Seq(Senders)
      /\ Len(queue') = Len(queue) - 1 /\ Len(queue) <= CommandCapacity
  BY <1>1, TailFacts DEF LoopTypeOK
<1> DEFINE n == Len(queue)
           m == Len(queue')
<1>3. n \in Nat /\ m = n - 1 /\ n <= CommandCapacity
  BY <1>2
<1> HIDE DEF n, m
<1>4. m <= CommandCapacity
  BY <1>3, ResilientAssumption
<1> QED
  BY <1>2, <1>4 DEF m

\* The loop returns.
LEMMA ReturnSound ==
    ASSUME ResilientInv, Return, should_find' \in BOOLEAN, stray' \in BOOLEAN,
           events' \in 0 .. EventCapacity, UNCHANGED users, closed' \in BOOLEAN
    PROVE  ResilientInv'
<1>1. LinkOK'
  BY Parts, DropLinkOK DEF Return
<1>2. LoopTypeOK'
  BY Parts, EmptyIsSeq, ResilientAssumption DEF Return, LoopTypeOK, Places
<1>3. DepartureSeen' /\ LoopShape'
  BY FreshLink DEF Return, DropLink, LoopShape
<1> QED
  BY <1>1, <1>2, <1>3, Parts

\* A find or next sets should_find, and a leave clears it with what is held.
LEMMA CommandSound ==
    ASSUME ResilientInv,
           NEW command \in {"FIND", "CANCEL", "MESSAGE", "LEAVE", "NEXT"},
           Command(command)
    PROVE  ResilientInv'
<1>1. LinkOK /\ LoopTypeOK /\ DepartureSeen /\ LoopShape /\ command \in Commands
  BY Parts DEF Commands
<1>2. LoopTypeOK'
  <2>1. should_find' \in BOOLEAN /\ stray' \in BOOLEAN
    BY <1>1 DEF Command, Remember, LoopTypeOK
  <2>2. queue' \in Seq(Senders) /\ Len(queue') <= CommandCapacity
    BY <1>1, AnswerHeadFits DEF Command
  <2> QED
    BY <1>1, <2>1, <2>2 DEF Command, LoopTypeOK, Places
<1>3. CASE SendOk(command) /\ pc' = "serve"
  <2>1. /\ SearchHeld' => SearchHeld
        /\ command = "LEAVE" /\ view = "chatting" => ~SearchHeld'
    BY <1>1, <1>3, SendDeparture
  <2>2. SearchHeld' => should_find' \/ stray'
    <3>1. CASE command \in {"FIND", "NEXT"}
      BY <3>1 DEF Command, Remember
    <3>2. CASE command = "LEAVE"
      BY <2>1, <3>2 DEF Command, Remember
    <3>3. CASE command \in {"CANCEL", "MESSAGE"}
      <4>1. UNCHANGED <<should_find, stray>> /\ pc = "serve"
        BY <3>3 DEF Command, Remember
      <4> QED
        BY <1>1, <2>1, <4>1 DEF LoopShape
    <3> QED
      BY <3>1, <3>2, <3>3
  <2>3. LoopShape'
    BY <1>1, <1>3, <2>2 DEF Command, LoopShape
  <2>4. LinkOK' /\ DepartureSeen'
    BY <1>1, <1>3, SendDeparture
  <2> QED
    BY <1>2, <2>3, <2>4, Parts
<1>4. CASE SendErr /\ pc' = "backoff"
  <2>1. LinkOK' /\ DepartureSeen'
    BY <1>1, <1>4, SendFailsOK, SameDeparture DEF SendErr
  <2>2. LoopShape'
    BY <1>1, <1>4 DEF Command, LoopShape
  <2> QED
    BY <1>2, <2>1, <2>2, Parts
<1> QED
  BY <1>3, <1>4 DEF Command

LEMMA OversizedSound == ResilientInv /\ OversizedMessage => ResilientInv'
<1> SUFFICES ASSUME ResilientInv, OversizedMessage PROVE ResilientInv'
  OBVIOUS
<1>1. LinkOK /\ LoopTypeOK /\ DepartureSeen /\ LoopShape
  BY Parts
<1>2. LinkOK' /\ DepartureSeen'
  BY <1>1, SendFailsOK, SameDeparture DEF OversizedMessage, SendUnencodable
<1>3. LoopTypeOK'
  BY <1>1, AnswerHeadFits DEF OversizedMessage, LoopTypeOK, Places
<1>4. LoopShape'
  BY <1>1 DEF OversizedMessage, LoopShape
<1> QED
  BY <1>2, <1>3, <1>4, Parts

LEMMA CloseSound == ResilientInv /\ CloseCommand => ResilientInv'
BY ReturnSound, Parts DEF CloseCommand, LoopTypeOK

\* An event is forwarded, or the loop returns for want of room.
LEMMA HandleEventSound == ResilientInv /\ HandleEvent => ResilientInv'
<1> SUFFICES ASSUME ResilientInv, HandleEvent PROVE ResilientInv'
  OBVIOUS
<1>1. LinkOK /\ LoopTypeOK /\ DepartureSeen /\ LoopShape
  BY Parts
<1>2. should_find' \in BOOLEAN /\ stray' \in BOOLEAN
  BY <1>1 DEF HandleEvent, RememberEvent, LoopTypeOK
<1>3. CASE RoomForEvent /\ TakeEvent /\ events' = events + 1 /\ UNCHANGED <<pc, queue>>
  <2>1. /\ LinkOK' /\ DepartureSeen'
        /\ SearchHeld' => SearchHeld \/ Head(s2c).op \in {"SEARCHING", "MATCHED"}
        /\ Head(s2c).op = "PEER_LEFT" => ~SearchHeld'
    BY <1>1, <1>3, TakeDeparture
  <2>2. LoopTypeOK'
    BY <1>1, <1>2, <1>3, ResilientAssumption
    DEF HandleEvent, RoomForEvent, LoopTypeOK
  <2>3. SearchHeld' => should_find' \/ stray'
    BY <1>1, <2>1 DEF HandleEvent, RememberEvent, LoopShape
  <2>4. LoopShape'
    BY <1>1, <1>3, <2>3 DEF HandleEvent, LoopShape
  <2> QED
    BY <2>1, <2>2, <2>4, Parts
<1>4. CASE ~RoomForEvent /\ Return /\ UNCHANGED events
  BY <1>1, <1>2, <1>4, ReturnSound DEF HandleEvent, LoopTypeOK
<1> QED
  BY <1>3, <1>4 DEF HandleEvent

\* The stream of the connection ends.
LEMMA EndOfStreamSound == ResilientInv /\ EndOfStream => ResilientInv'
<1> SUFFICES ASSUME ResilientInv, EndOfStream PROVE ResilientInv'
  OBVIOUS
<1>1. LinkOK /\ LoopTypeOK /\ DepartureSeen /\ LoopShape
  BY Parts
<1>2. CASE pc' = "backoff" /\ UNCHANGED <<linkVars, queue>>
  <2>1. LinkOK'
    BY <1>1, <1>2
    DEF linkVars, LinkOK, LinkTypeOK, LinkInv, FramesChain, Before, LastTag,
        ServiceEndsChain, LinkShape
  <2>2. events' \in 0 .. EventCapacity
    BY <1>1, <1>2, ResilientAssumption DEF EndOfStream, RoomForEvent, LoopTypeOK, Return
  <2>3. LoopTypeOK'
    BY <1>1, <1>2, <2>2 DEF EndOfStream, LoopTypeOK, Places
  <2>4. DepartureSeen' /\ LoopShape'
    BY <1>1, <1>2, SameDeparture DEF EndOfStream, linkVars, LoopShape
  <2> QED
    BY <2>1, <2>3, <2>4, Parts
<1>3. CASE Return /\ UNCHANGED events
  BY <1>1, <1>3, ReturnSound DEF EndOfStream, LoopTypeOK
<1> QED
  BY <1>2, <1>3 DEF EndOfStream

\* The link is untouched, and so is all of the loop but its place, its queues
\* and its users.
LEMMA LinkUntouched ==
    ASSUME ResilientInv, UNCHANGED <<linkVars, should_find, closed, stray>>,
           LoopTypeOK', closed => pc' = "returned",
           pc' \in {"initial", "failed", "returned"} => link = "none",
           pc' = "serve" => pc = "serve", pc' = "find" => pc = "find"
    PROVE  ResilientInv'
<1>1. LinkOK /\ DepartureSeen /\ LoopShape
  BY Parts
<1>2. LinkOK'
  BY <1>1
  DEF linkVars, LinkOK, LinkTypeOK, LinkInv, FramesChain, Before, LastTag,
      ServiceEndsChain, LinkShape
<1>3. DepartureSeen' /\ (SearchHeld' <=> SearchHeld)
  BY <1>1, SameDeparture DEF linkVars, SearchHeld, Departing
<1>4. LoopShape'
  BY <1>1, <1>3 DEF LoopShape, linkVars
<1> QED
  BY <1>2, <1>3, <1>4, Parts

LEMMA UserSound == ResilientInv /\ UserStep => ResilientInv'
<1> SUFFICES ASSUME ResilientInv, UserStep PROVE ResilientInv'
  OBVIOUS
<1>1. LoopTypeOK /\ LoopShape
  BY Parts
<1>2. UNCHANGED <<linkVars, pc, should_find, closed, stray>>
  BY DEF UserStep, Send, ReadEvent, DropClient, DropHandles
<1>3. LoopTypeOK'
  <2>1. ASSUME NEW c \in Senders, Send(c) PROVE LoopTypeOK'
    <3>1. /\ queue \in Seq(Senders) /\ queue' = Append(queue, c)
          /\ Len(queue) < CommandCapacity
      BY <1>1, <2>1 DEF Send, LoopTypeOK
    <3>2. queue' \in Seq(Senders) /\ Len(queue') <= CommandCapacity
      BY <3>1, ResilientAssumption
    <3> QED
      BY <1>1, <2>1, <3>2 DEF Send, LoopTypeOK
  <2>2. CASE ReadEvent \/ DropClient \/ DropHandles
    BY <1>1, <2>2, ResilientAssumption
    DEF ReadEvent, DropClient, DropHandles, LoopTypeOK
  <2> QED
    BY <2>1, <2>2 DEF UserStep
<1> QED
  BY <1>1, <1>2, <1>3, LinkUntouched DEF LoopShape

\* A new connection holds nothing yet.
LEMMA ReplaceSound ==
    ASSUME ResilientInv, Replace, UNCHANGED <<should_find, closed, stray>>,
           LoopTypeOK', pc \in {"initial", "connect"}, pc' \in {"serve", "find"}
    PROVE  ResilientInv'
<1>1. LinkOK' /\ DepartureSeen' /\ ~SearchHeld'
  BY Parts, ReplaceOK, FreshLink DEF Replace
<1>2. LoopShape'
  BY <1>1, Parts DEF LoopShape, Replace
<1> QED
  BY <1>1, <1>2, Parts

LEMMA InitialSound == ResilientInv /\ InitialConnect => ResilientInv'
<1> SUFFICES ASSUME ResilientInv, InitialConnect PROVE ResilientInv'
  OBVIOUS
<1>1. LoopTypeOK /\ LoopShape /\ LoopTypeOK'
  BY Parts DEF InitialConnect, LoopTypeOK, Places
<1>2. CASE Open /\ pc' = "serve"
  BY <1>1, <1>2, ReplaceSound DEF InitialConnect, Open
<1>3. CASE pc' = "failed" /\ UNCHANGED linkVars
  BY <1>1, <1>3, LinkUntouched DEF InitialConnect, LoopShape
<1> QED
  BY <1>2, <1>3 DEF InitialConnect

LEMMA ReconnectSound == ResilientInv /\ Reconnect => ResilientInv'
<1> SUFFICES ASSUME ResilientInv, Reconnect PROVE ResilientInv'
  OBVIOUS
<1>1. LinkOK /\ LoopTypeOK /\ DepartureSeen /\ LoopShape
  BY Parts
<1>2. CASE BackoffElapsed \/ ConnectFails
  <2>1. LoopTypeOK'
    BY <1>1, <1>2 DEF BackoffElapsed, ConnectFails, LoopTypeOK, Places
  <2> QED
    BY <1>1, <1>2, <2>1, LinkUntouched DEF BackoffElapsed, ConnectFails, LoopShape
<1>3. CASE IdentityFails
  <2>1. events' \in 0 .. EventCapacity
    BY <1>1, <1>3, ResilientAssumption DEF IdentityFails, RoomForEvent, LoopTypeOK
  <2> QED
    BY <1>1, <1>3, <2>1, ReturnSound DEF IdentityFails, LoopTypeOK
<1>4. CASE ConnectOk
  <2>1. LoopTypeOK' /\ pc' \in {"serve", "find"}
    BY <1>1, <1>4 DEF ConnectOk, LoopTypeOK, Places
  <2> QED
    BY <1>4, <2>1, ReplaceSound DEF ConnectOk
<1>5. CASE FindAgain
  <2>1. LoopTypeOK'
    BY <1>1, <1>5 DEF FindAgain, LoopTypeOK, Places
  <2>2. LinkOK' /\ DepartureSeen'
    <3>1. CASE SendOk("FIND")
      BY <1>1, <3>1, SendDeparture DEF Commands
    <3>2. CASE SendErr
      BY <1>1, <3>2, SendFailsOK, SameDeparture DEF SendErr
    <3> QED
      BY <1>5, <3>1, <3>2 DEF FindAgain
  <2>3. view' = "handshake"
    BY <1>1, <1>5 DEF FindAgain, LoopShape, SendOk, SendErr
  <2>4. LoopShape'
    BY <1>1, <1>5, <2>3 DEF FindAgain, LoopShape, SearchHeld
  <2> QED
    BY <2>1, <2>2, <2>4, Parts
<1> QED
  BY <1>2, <1>3, <1>4, <1>5 DEF Reconnect

\* The service and the loss of the socket.
LEMMA SocketSound == ResilientInv /\ (Service \/ LinkLost) => ResilientInv'
<1> SUFFICES ASSUME ResilientInv, Service \/ LinkLost PROVE ResilientInv'
  OBVIOUS
<1>1. /\ LinkOK /\ LoopTypeOK /\ DepartureSeen /\ LoopShape
      /\ UNCHANGED loopVars /\ LoopTypeOK'
  BY Parts DEF Service, LinkLost, loopVars, LoopTypeOK
<1>2. /\ LinkOK' /\ DepartureSeen' /\ view' = view
      /\ SearchHeld' => SearchHeld
      /\ link = "none" => link' = "none"
  <2>1. CASE Service
    <3>1. link # "none"
      BY <1>1, <2>1, PhaseFitsTag
      DEF Service, ServiceReplies, ServicePeer, ServiceAccepts, ServiceHandles,
          ServiceCloses, ServiceMatches, ServicePeerLeaves, ServicePeerMessage
    <3> QED
      BY <1>1, <2>1, <3>1, ServiceOK, ServiceDeparture DEF Service
  <2>2. CASE LinkLost
    BY <1>1, <2>2, LoseOK, FreshLink DEF LinkLost, Lose
  <2> QED
    BY <2>1, <2>2
<1>3. LoopShape'
  BY <1>1, <1>2 DEF LoopShape, loopVars
<1> QED
  BY <1>1, <1>2, <1>3, Parts

LEMMA StepSound == ResilientInv /\ [Next]_vars => ResilientInv'
<1> SUFFICES ASSUME ResilientInv, [Next]_vars PROVE ResilientInv'
  OBVIOUS
<1>1. CASE NoHandles
  BY <1>1, Parts, ReturnSound DEF NoHandles, LoopTypeOK
<1>2. CASE TakeCommand
  BY <1>2, CommandSound, OversizedSound, CloseSound DEF TakeCommand
<1>3. CASE UNCHANGED vars
  <2>1. LoopTypeOK'
    BY <1>3, Parts DEF vars, loopVars, LoopTypeOK
  <2> QED
    BY <1>3, <2>1, Parts, LinkUntouched DEF vars, loopVars, LoopShape
<1> QED
  BY <1>1, <1>2, <1>3, InitialSound, HandleEventSound, EndOfStreamSound,
     ReconnectSound, UserSound, SocketSound
  DEF Next

------------------------------------------------------------------------------
(* The theorems.                                                           *)

\* The inductive invariant of the loop, its queues and its link holds in every
\* reachable state.
THEOREM ResilientInvariance == Spec => []ResilientInv
<1>1. Init => ResilientInv
  BY InitSound
<1>2. ResilientInv /\ [Next]_vars => ResilientInv'
  BY StepSound
<1> QED
  BY <1>1, <1>2, PTL DEF Spec

\* Every variable of the loop and its link stays in its type, and the queues
\* within their capacities.
THEOREM TypeCorrectness == Spec => []TypeOK
<1>1. ResilientInv => TypeOK
  BY DEF ResilientInv
<1> QED
  BY <1>1, ResilientInvariance, PTL

\* What the service holds for the client a reconnect would resume, unless a
\* LEAVE that met no conversation cleared should_find.
THEOREM SearchIsRemembered == Spec => []OnlyStrayLeaveForgets
<1>1. ResilientInv => OnlyStrayLeaveForgets
  <2> SUFFICES ASSUME ResilientInv, pc = "serve", Quiet,
                      phase \in {"waiting", "chatting"}
               PROVE  should_find \/ stray
    BY DEF OnlyStrayLeaveForgets
  <2>1. view = phase
    BY Parts, PhaseFitsTag DEF Quiet, LastTag
  <2>2. ~Departing
    BY EmptyIsSeq DEF Quiet, Departing
  <2> QED
    BY <2>1, <2>2, Parts DEF Quiet, SearchHeld, LoopShape
<1> QED
  BY <1>1, ResilientInvariance, PTL

\* After a Close has been answered there is no connection, and none is made.
THEOREM NothingAfterClose == Spec => SilentAfterClose
<1>1. ResilientInv => (closed => link = "none")
  BY Parts DEF LoopShape
<1>2. ResilientInv /\ [Next]_vars => [closed => link' = "none"]_vars
  <2> SUFFICES ASSUME ResilientInv, Next, closed PROVE link' = "none"
    OBVIOUS
  <2>1. ResilientInv'
    BY StepSound
  <2>2. closed'
    BY DEF Next, InitialConnect, NoHandles, TakeCommand, Command,
       OversizedMessage, CloseCommand, HandleEvent, EndOfStream, Reconnect,
       BackoffElapsed, IdentityFails, ConnectFails, ConnectOk, FindAgain,
       UserStep, Send, ReadEvent, DropClient, DropHandles, Service, LinkLost,
       loopVars
  <2> QED
    BY <2>1, <2>2, Parts DEF LoopShape
<1> QED
  BY <1>2, ResilientInvariance, PTL DEF Spec, SilentAfterClose

===============================================================================
