------------------------ MODULE ForegroundConnectProofs ------------------------
(***************************************************************************)
(* What ForegroundConnect promises, for any socket and any number of       *)
(* conversations: the memory of the search, should_find, is what the       *)
(* service holds for the connection, once nothing is on its way.           *)
(***************************************************************************)
EXTENDS ForegroundConnect, ClientLinkProofs

LoopTypeOK ==
    /\ pc \in Places
    /\ should_find \in BOOLEAN /\ stdin \in BOOLEAN
    /\ wish \in Wishes

\* The invariant in the parts the lemmas are about, here and after a step.
LEMMA Parts ==
    /\ ConnectInv <=> LinkOK /\ LoopTypeOK /\ ConversationGoesOn /\ SearchIsDue
    /\ ConnectInv' <=> LinkOK' /\ LoopTypeOK' /\ ConversationGoesOn' /\ SearchIsDue'
BY DEF ConnectInv, TypeOK, LinkOK, LoopTypeOK

------------------------------------------------------------------------------
(* The type of the loop's own variables.                                   *)

LEMMA StepTyped == LoopTypeOK /\ [Next]_vars => LoopTypeOK'
<1> SUFFICES ASSUME LoopTypeOK, [Next]_vars PROVE LoopTypeOK'
  OBVIOUS
<1> USE DEF LoopTypeOK, Places, Wishes
<1>1. ASSUME NEW command, Command(command) PROVE LoopTypeOK'
  BY <1>1 DEF Command, Remember, SendOrExit
<1>2. CASE HandleEvent
  BY <1>2 DEF HandleEvent, RememberEvent, AfterEvent
<1>3. CASE OversizedMessage \/ CloseCommand \/ StdinEnds
  BY <1>3 DEF OversizedMessage, CloseCommand, StdinEnds
<1>4. CASE \/ ConnectOk \/ ConnectFails \/ IdentityFails \/ BackoffElapsed
           \/ FindOnConnect \/ InputClosed \/ OutputFails \/ RetryElapsed \/ EndOfStream
  BY <1>4
  DEF ConnectOk, ConnectFails, IdentityFails, BackoffElapsed, FindOnConnect, InputClosed,
      OutputFails, RetryElapsed, EndOfStream, SendOrExit
<1>5. CASE Service \/ LinkLost \/ UNCHANGED vars
  BY <1>5 DEF Service, LinkLost, loopVars, vars
<1> QED
  BY <1>1, <1>2, <1>3, <1>4, <1>5 DEF Next, LoopStep, UserCommand

------------------------------------------------------------------------------
(* What is due.                                                            *)

\* A link that is down, or has just come up, holds nothing.
LEMMA FreshDue ==
    ASSUME link' # "up" \/ (phase' = "handshake" /\ view' = "handshake" /\ s2c' = <<>>)
    PROVE  ConversationGoesOn' /\ SearchIsDue'
<1>1. s2c' = <<>> => DOMAIN s2c' = {}
  OBVIOUS
<1> QED
  BY <1>1 DEF ConversationGoesOn, SearchIsDue

\* The frames stay, and the commands on their way do unless the writer ends.
LEMMA SameFramesDue ==
    ASSUME ConversationGoesOn, SearchIsDue, UNCHANGED <<link, s2c, phase, view>>,
           writer' =>
             /\ writer
             /\ link = "up" /\ Queued("LEAVE") => Queued("LEAVE")'
             /\ \/ should_find => should_find'
                \/ link = "up" => Queued("LEAVE")' /\ (ObedientUser => view = "chatting")
    PROVE  ConversationGoesOn' /\ SearchIsDue'
<1>1. /\ NoneOf(Marks)' <=> NoneOf(Marks)
      /\ \A i : LastOf(Marks, i)' <=> LastOf(Marks, i)
  BY DEF NoneOf, LastOf
<1>2. ConversationGoesOn'
  BY <1>1 DEF ConversationGoesOn
<1>3. SearchIsDue'
  BY <1>1 DEF ConversationGoesOn, SearchIsDue
<1> QED
  BY <1>2, <1>3

\* A command is written, or the writer task is met dead or dies of it.
LEMMA SentDue ==
    ASSUME LinkTypeOK, ConversationGoesOn, SearchIsDue, NEW command \in Commands,
           SendOk(command) \/ SendErr,
           \/ should_find => should_find'
           \/ command = "LEAVE" /\ (ObedientUser => view = "chatting")
    PROVE  ConversationGoesOn' /\ SearchIsDue'
<1>1. CASE SendErr
  BY <1>1, SameFramesDue DEF SendErr
<1>2. CASE SendOk(command)
  <2>1. UNCHANGED <<link, s2c, phase, view>> /\ writer
    BY <1>2 DEF SendOk
  <2>2. ASSUME link = "up"
        PROVE  /\ Queued("LEAVE") => Queued("LEAVE")'
               /\ command = "LEAVE" => Queued("LEAVE")'
    <3> DEFINE n == Len(c2s)
               m == Len(FramesOf(command))
    <3>1. /\ n \in Nat /\ DOMAIN c2s = 1 .. n /\ DOMAIN c2s' = 1 .. n + m
          /\ \A i \in 1 .. n : c2s'[i] = c2s[i]
          /\ command = "LEAVE" => m = 1 /\ c2s'[n + 1] = "LEAVE"
      BY <1>2, <2>2, AfterSend
    <3>2. m \in Nat
      BY <1>2, FramesOfOK
    <3> HIDE DEF n, m
    <3>3. command = "LEAVE" => n + 1 \in DOMAIN c2s'
      BY <3>1
    <3>4. DOMAIN c2s \subseteq DOMAIN c2s'
      BY <3>1, <3>2
    <3> QED
      BY <3>1, <3>3, <3>4 DEF Queued
  <2> QED
    BY <2>1, <2>2, SameFramesDue
<1> QED
  BY <1>1, <1>2

\* The service emits a frame; it takes a LEAVE in a conversation only to end it.
LEMMA EmittedDue ==
    ASSUME LinkTypeOK, ConversationGoesOn, SearchIsDue,
           UNCHANGED <<link, writer, view, should_find>>,
           NEW op, NEW conv, NEW after,
           s2c' = Append(s2c, Frame(op, conv, after)), phase' = after,
           \/ op = "READY" /\ phase = "handshake" /\ after = "connected"
           \/ op = "SEARCHING" /\ after = "waiting"
           \/ op = "MATCHED" /\ after = "chatting"
           \/ op = "PEER_LEFT" /\ after = "connected"
           \/ /\ op \in {"MESSAGE", "BUSY", "ERROR"} /\ after = phase
              /\ Queued("LEAVE") /\ ~Queued("LEAVE")' => phase # "chatting"
    PROVE  ConversationGoesOn' /\ SearchIsDue'
<1>1. CASE op \in Marks
  <2>1. /\ ~NoneOf(Marks)'
        /\ \A i : LastOf(Marks, i)' => s2c'[i].op = op
    BY <1>1, LastAfterOwn DEF NoneOf, LastOf
  <2>2. /\ op = "MATCHED" => after = "chatting"
        /\ op = "PEER_LEFT" => after = "connected"
    BY <1>1 DEF Marks
  <2> QED
    BY <2>1, <2>2 DEF ConversationGoesOn, SearchIsDue
<1>2. CASE op \notin Marks
  <2>1. /\ NoneOf(Marks)' <=> NoneOf(Marks)
        /\ \A i : LastOf(Marks, i)' => i \in DOMAIN s2c /\ LastOf(Marks, i) /\ s2c'[i] = s2c[i]
    BY <1>2, LastAfterOther DEF NoneOf, LastOf
  <2>2. \/ phase = "handshake" /\ after = "connected"
        \/ after = phase /\ (Queued("LEAVE") /\ ~Queued("LEAVE")' => phase # "chatting")
    BY <1>2 DEF Marks
  <2> QED
    BY <2>1, <2>2 DEF ConversationGoesOn, SearchIsDue
<1> QED
  BY <1>1, <1>2

\* A CANCEL is obeyed without a word.
LEMMA CancelledDue ==
    ASSUME ConversationGoesOn, UNCHANGED <<link, view, s2c>>,
           phase = "waiting", phase' = "connected"
    PROVE  ConversationGoesOn' /\ SearchIsDue'
<1>1. /\ NoneOf(Marks)' <=> NoneOf(Marks)
      /\ \A i : LastOf(Marks, i)' <=> LastOf(Marks, i)
  BY DEF NoneOf, LastOf
<1> QED
  BY <1>1 DEF ConversationGoesOn, SearchIsDue

\* An event is taken and remembered.
LEMMA TakenDue ==
    ASSUME LinkOK, ConversationGoesOn, SearchIsDue, TakeEvent, RememberEvent(Head(s2c).op)
    PROVE  ConversationGoesOn' /\ SearchIsDue'
<1>1. /\ s2c # <<>> /\ s2c' = Tail(s2c) /\ view' = Head(s2c).after
      /\ UNCHANGED <<link, writer, c2s, phase, matches>>
      /\ LinkTypeOK
  BY DEF TakeEvent, LinkOK
<1>2. Follows(view, Head(s2c))
  <2>1. /\ c2s' \in Seq(ClientFrames) /\ Len(c2s') <= MaxInFlight
        /\ link # "up" => c2s' = <<>>
        /\ writer' \in BOOLEAN
    BY <1>1 DEF LinkOK, LinkTypeOK, LinkInv, LinkShape
  <2> QED
    BY <1>1, <2>1, TakeEventOK
<1> DEFINE op == Head(s2c).op
<1>3. /\ NoneOf(Marks)' => IF op \in Marks THEN LastOf(Marks, 1) ELSE NoneOf(Marks)
      /\ \A i \in DOMAIN s2c' :
           /\ i + 1 \in DOMAIN s2c /\ s2c'[i] = s2c[i + 1]
           /\ LastOf(Marks, i)' => LastOf(Marks, i + 1)
      /\ 1 \in DOMAIN s2c /\ s2c[1].op = op
  BY <1>1, LastAfterTake DEF NoneOf, LastOf
\* The view is "chatting" after MATCHED, or while a conversation goes on.
<1>4. view' = "chatting" => op = "MATCHED" \/ (op \notin Marks /\ view = "chatting")
  BY <1>1, <1>2 DEF Follows, StillIn, Marks
<1>5. ConversationGoesOn'
  BY <1>1, <1>3, <1>4 DEF ConversationGoesOn, Marks
<1>6. /\ op \in {"SEARCHING", "MATCHED"} => should_find'
      /\ op \notin Marks => should_find' = should_find
  BY DEF RememberEvent, Marks
<1>7. Queued("LEAVE")' <=> Queued("LEAVE")
  BY <1>1 DEF Queued
<1>8. SearchIsDue'
  <2> SUFFICES ASSUME ObedientUser, link' = "up", writer', phase' \in {"waiting", "chatting"}
               PROVE  /\ NoneOf(Marks)' =>
                           should_find' \/ (phase' = "chatting" /\ Queued("LEAVE")')
                      /\ \A i \in DOMAIN s2c' : LastOf(Marks, i)' => s2c'[i].op # "PEER_LEFT"
    BY DEF SearchIsDue
  <2>1. /\ NoneOf(Marks) => should_find \/ (phase = "chatting" /\ Queued("LEAVE"))
        /\ \A i \in DOMAIN s2c : LastOf(Marks, i) => s2c[i].op # "PEER_LEFT"
    BY <1>1 DEF SearchIsDue
  <2>2. ASSUME NoneOf(Marks)'
        PROVE  should_find' \/ (phase' = "chatting" /\ Queued("LEAVE")')
    <3>1. CASE op \in Marks
      <4>1. op # "PEER_LEFT"
        BY <1>3, <2>1, <2>2, <3>1
      <4> QED
        BY <1>6, <3>1, <4>1 DEF Marks
    <3>2. CASE op \notin Marks
      BY <1>1, <1>3, <1>6, <1>7, <2>1, <2>2, <3>2
    <3> QED
      BY <3>1, <3>2
  <2> QED
    BY <1>3, <2>1, <2>2
<1> QED
  BY <1>5, <1>8

\* The service takes a command, accepts the hello, or relays what the peer does.
LEMMA ServiceDue ==
    ASSUME LinkOK, ConversationGoesOn, SearchIsDue, Service
    PROVE  ConversationGoesOn' /\ SearchIsDue'
<1>1. /\ LinkTypeOK /\ UNCHANGED <<should_find, view, writer>>
  BY DEF LinkOK, Service, loopVars, ServiceReplies, ServicePeer, ServiceAccepts,
         ServiceHandles, ServiceCloses, ServiceMatches, ServicePeerLeaves,
         ServicePeerMessage
<1>2. CASE ServiceAccepts
  BY <1>1, <1>2, EmittedDue DEF ServiceAccepts, Emit, EmitWithRoom
<1>3. CASE ServiceMatches
  BY <1>1, <1>3, EmittedDue DEF ServiceMatches, EmitWithRoom
<1>4. CASE ServicePeerLeaves
  BY <1>1, <1>4, EmittedDue DEF ServicePeerLeaves, EmitWithRoom
<1>5. CASE ServicePeerMessage
  <2>1. Queued("LEAVE")' <=> Queued("LEAVE")
    BY <1>5 DEF Queued, ServicePeerMessage
  <2>2. /\ s2c' = Append(s2c, Frame("MESSAGE", 0, "chatting"))
        /\ phase = "chatting" /\ phase' = "chatting" /\ link' = link
    BY <1>5 DEF ServicePeerMessage, EmitWithRoom
  <2> QED
    BY <1>1, <2>1, <2>2, EmittedDue
<1>6. CASE ServiceCloses
  BY <1>6, FreshDue DEF ServiceCloses
<1>7. CASE ServiceHandles
  <2>1. /\ c2s # <<>> /\ c2s' = Tail(c2s) /\ link' = link
    BY <1>7 DEF ServiceHandles
  <2>2. Queued("LEAVE") /\ ~Queued("LEAVE")' => Head(c2s) = "LEAVE"
    BY <1>1, <2>1, AfterHandle DEF Queued
  <2>3. ASSUME NEW op \in {"ERROR", "BUSY", "MESSAGE"}, Emit(op, phase),
               Head(c2s) = "LEAVE" => phase # "chatting"
        PROVE  ConversationGoesOn' /\ SearchIsDue'
    <3>1. s2c' = Append(s2c, Frame(op, 0, phase)) /\ phase' = phase
      BY <2>3 DEF Emit, EmitWithRoom
    <3> QED
      BY <1>1, <2>1, <2>2, <2>3, <3>1, EmittedDue
  <2>4. CASE phase # ValidPhase(Head(c2s)) /\ Refuse("ERROR")
    BY <2>3, <2>4 DEF Refuse, ValidPhase
  <2>5. CASE Head(c2s) \in {"FIND", "MESSAGE"} /\ Refuse("BUSY")
    BY <2>3, <2>5 DEF Refuse
  <2>6. CASE Emit("SEARCHING", "waiting") \/ Emit("PEER_LEFT", "connected")
    <3>1. PICK op, after : /\ s2c' = Append(s2c, Frame(op, 0, after)) /\ phase' = after
                           /\ \/ op = "SEARCHING" /\ after = "waiting"
                              \/ op = "PEER_LEFT" /\ after = "connected"
      BY <2>6 DEF Emit, EmitWithRoom
    <3> QED
      BY <1>1, <2>1, <3>1, EmittedDue
  <2>7. CASE /\ phase = ValidPhase(Head(c2s)) /\ Head(c2s) = "MESSAGE"
             /\ Emit("MESSAGE", "chatting")
    BY <2>3, <2>7 DEF ValidPhase
  <2>8. CASE /\ phase = ValidPhase(Head(c2s)) /\ Head(c2s) = "CANCEL"
             /\ phase' = "connected" /\ UNCHANGED s2c
    BY <1>1, <2>1, <2>8, CancelledDue DEF ValidPhase
  <2> QED
    BY <1>7, <2>4, <2>5, <2>6, <2>7, <2>8 DEF ServiceHandles
<1> QED
  BY <1>2, <1>3, <1>4, <1>5, <1>6, <1>7 DEF Service, ServiceReplies, ServicePeer

------------------------------------------------------------------------------
(* The loop's steps.                                                       *)

\* The steps that leave the link alone.
LEMMA Untouched ==
    ASSUME LinkOK, ConversationGoesOn, SearchIsDue, UNCHANGED linkVars,
           UNCHANGED should_find
    PROVE  LinkOK' /\ ConversationGoesOn' /\ SearchIsDue'
<1>1. Queued("LEAVE")' <=> Queued("LEAVE")
  BY DEF Queued, linkVars
<1>2. FramesChain' /\ LastTag' = LastTag
  BY SameFrames DEF LinkOK, linkVars
<1>3. LinkOK'
  BY <1>2 DEF LinkOK, linkVars, LinkTypeOK, LinkInv, ServiceEndsChain, LinkShape
<1> QED
  BY <1>1, <1>3, SameFramesDue DEF linkVars

\* The steps that send.
LEMMA SendsDue ==
    ASSUME LinkOK, ConversationGoesOn, SearchIsDue,
           \/ UserCommand \/ FindOnConnect \/ RetryElapsed
           \/ InputClosed /\ ~DropLink
    PROVE  LinkOK' /\ ConversationGoesOn' /\ SearchIsDue'
<1>1. LinkTypeOK /\ {"FIND", "CANCEL", "MESSAGE", "LEAVE", "NEXT", "CLOSE"} = Commands
  BY DEF LinkOK, Commands
<1>2. ASSUME NEW command \in Commands, SendOk(command) \/ SendErr,
             \/ should_find => should_find'
             \/ command = "LEAVE" /\ (ObedientUser => view = "chatting")
      PROVE  LinkOK' /\ ConversationGoesOn' /\ SearchIsDue'
  BY <1>1, <1>2, SentDue, SendOkOK, SendFailsOK
<1>3. CASE OversizedMessage
  BY <1>3, SendFailsOK, SameFramesDue DEF OversizedMessage, SendUnencodable
<1>4. ASSUME NEW command \in {"FIND", "CANCEL", "MESSAGE", "LEAVE", "NEXT"}, Command(command)
      PROVE  LinkOK' /\ ConversationGoesOn' /\ SearchIsDue'
  <2>1. command \in Commands /\ (SendOk(command) \/ SendErr)
    BY <1>1, <1>4 DEF Command, SendOrExit
  <2>2. command # "LEAVE" => (should_find => should_find')
    BY <1>4 DEF Command, Remember
  <2>3. command = "LEAVE" => (ObedientUser => view = "chatting")
    BY <1>4 DEF Command, Fits
  <2> QED
    BY <1>2, <2>1, <2>2, <2>3
<1>5. CASE CloseCommand \/ FindOnConnect \/ RetryElapsed \/ (InputClosed /\ ~DropLink)
  <2>1. PICK command \in Commands : SendOk(command) \/ SendErr
    BY <1>1, <1>5 DEF CloseCommand, FindOnConnect, RetryElapsed, InputClosed, SendOrExit
  <2>2. should_find' = should_find
    BY <1>5 DEF CloseCommand, FindOnConnect, RetryElapsed, InputClosed
  <2> QED
    BY <1>2, <2>1, <2>2
<1> QED
  BY <1>3, <1>4, <1>5 DEF UserCommand

LEMMA StepDue == ConnectInv /\ [Next]_vars => ConnectInv'
<1> SUFFICES ASSUME ConnectInv, [Next]_vars
             PROVE  LinkOK' /\ ConversationGoesOn' /\ SearchIsDue'
  BY Parts, StepTyped
<1>1. LinkOK /\ ConversationGoesOn /\ SearchIsDue
  BY Parts
<1>2. CASE UserCommand \/ FindOnConnect \/ RetryElapsed \/ (InputClosed /\ ~DropLink)
  BY <1>1, <1>2, SendsDue
<1>3. CASE \/ ConnectFails \/ IdentityFails \/ BackoffElapsed \/ StdinEnds
           \/ UNCHANGED vars
  BY <1>1, <1>3, Untouched
  DEF ConnectFails, IdentityFails, BackoffElapsed, StdinEnds, vars, linkVars, loopVars
<1>4. CASE ConnectOk
  BY <1>1, <1>4, OpenOK, FreshDue DEF ConnectOk, Open, Replace
<1>5. CASE DropLink
  BY <1>1, <1>5, DropLinkOK, FreshDue DEF DropLink
<1>6. CASE HandleEvent
  <2>1. TakeEvent /\ RememberEvent(Head(s2c).op)
    BY <1>6 DEF HandleEvent
  <2>2. LinkOK'
    <3>1. /\ c2s' \in Seq(ClientFrames) /\ Len(c2s') <= MaxInFlight
          /\ link # "up" => c2s' = <<>>
          /\ writer' \in BOOLEAN
      BY <1>1, <2>1 DEF TakeEvent, LinkOK, LinkTypeOK, LinkInv, LinkShape
    <3> QED
      BY <1>1, <2>1, <3>1, TakeEventOK DEF TakeEvent
  <2> QED
    BY <1>1, <2>1, <2>2, TakenDue
<1>7. CASE Service
  BY <1>1, <1>7, ServiceDue, ServiceOK DEF Service
<1>8. CASE LinkLost
  BY <1>1, <1>8, LoseOK, FreshDue DEF LinkLost, Lose
<1> QED
  BY <1>2, <1>3, <1>4, <1>5, <1>6, <1>7, <1>8
  DEF Next, LoopStep, OutputFails, EndOfStream

------------------------------------------------------------------------------

\* In every reachable state the events and commands on their way account for
\* every difference between should_find and what the service holds.
THEOREM ConnectInvariance == Spec => []ConnectInv
<1>1. Init => ConnectInv
  <2> SUFFICES ASSUME Init PROVE ConnectInv
    OBVIOUS
  <2>1. LoopTypeOK
    BY DEF Init, LoopTypeOK, Places, Wishes
  <2>2. ConversationGoesOn /\ SearchIsDue
    BY DEF Init, LinkInit, ConversationGoesOn, SearchIsDue
  <2> QED
    BY <2>1, <2>2, Parts, LinkInitOK DEF Init
<1>2. ConnectInv /\ [Next]_vars => ConnectInv'
  BY StepDue
<1> QED
  BY <1>1, <1>2, PTL DEF Spec

\* What the loop and the link hold stays in its type.
THEOREM TypeCorrectness == Spec => []TypeOK
<1>1. ConnectInv => TypeOK
  BY DEF ConnectInv
<1> QED
  BY <1>1, ConnectInvariance, PTL

\* With nothing on its way, a search or conversation the service holds for a user
\* whose commands fit what was printed is one the loop looks for again after a
\* reconnect, however frames, refusals and retries have interleaved.
THEOREM SearchSurvives == ObedientUser => (Spec => []SearchSurvivesReconnect)
<1> SUFFICES ASSUME ObedientUser PROVE Spec => []SearchSurvivesReconnect
  OBVIOUS
<1>1. ConnectInv => SearchSurvivesReconnect
  <2> SUFFICES ASSUME ConnectInv, Quiet, phase \in {"waiting", "chatting"}
               PROVE  should_find
    BY DEF SearchSurvivesReconnect
  <2>1. DOMAIN c2s = {} /\ DOMAIN s2c = {} /\ link = "up" /\ writer
    BY DEF Quiet
  <2>2. NoneOf(Marks) /\ ~Queued("LEAVE")
    BY <2>1 DEF NoneOf, Queued
  <2> QED
    BY <2>1, <2>2 DEF ConnectInv, SearchIsDue
<1> QED
  BY <1>1, ConnectInvariance, PTL

===============================================================================
