--------------------------- MODULE ClientLinkProofs ---------------------------
(***************************************************************************)
(* Every action of ClientLink keeps the type of the link's variables and   *)
(* the chain of frames.  The adapters' proofs use these lemmas; none of    *)
(* them depends on who drives the link.                                    *)
(***************************************************************************)
EXTENDS ClientLink, SequenceTheorems, TLAPS

Commands == {"FIND", "CANCEL", "MESSAGE", "LEAVE", "NEXT", "CLOSE"}

LinkOK == LinkTypeOK /\ LinkInv

\* The empty sequence is a sequence of anything.
LEMMA EmptyIsSeq == \A S : <<>> \in Seq(S) /\ Len(<<>>) = 0
OBVIOUS

\* What is left of a sequence without its head.
LEMMA TailFacts ==
    ASSUME NEW S, NEW s \in Seq(S), s # <<>>
    PROVE  /\ Len(s) \in Nat \ {0} /\ Head(s) = s[1] /\ s[1] \in S
           /\ Tail(s) \in Seq(S) /\ Len(Tail(s)) = Len(s) - 1
           /\ \A i \in 1 .. Len(s) - 1 : Tail(s)[i] = s[i + 1]
           /\ Tail(s) = <<>> => s[Len(s)] = Head(s)
           /\ Tail(s) # <<>> => Tail(s)[Len(Tail(s))] = s[Len(s)]
<1>1. Len(s) \in Nat \ {0} /\ Head(s) = s[1] /\ s[1] \in S
  OBVIOUS
<1>2. /\ Tail(s) \in Seq(S) /\ Len(Tail(s)) = Len(s) - 1
      /\ \A i \in 1 .. Len(Tail(s)) : Tail(s)[i] = s[i + 1]
  BY HeadTailProperties
<1>3. ASSUME Tail(s) = <<>>
      PROVE  s[Len(s)] = Head(s)
  <2> DEFINE n == Len(s)
  <2>1. n = 1
    <3>1. Len(Tail(s)) = 0
      BY <1>3, EmptyIsSeq
    <3>2. n \in Nat /\ n - 1 = 0
      BY <1>1, <1>2, <3>1
    <3> HIDE DEF n
    <3> QED
      BY <3>2
  <2> QED
    BY <1>1, <2>1
<1>4. ASSUME Tail(s) # <<>>
      PROVE  Tail(s)[Len(Tail(s))] = s[Len(s)]
  <2>1. Len(Tail(s)) \in Nat \ {0}
    BY <1>2, <1>4, EmptySeq
  <2>2. Len(Tail(s)) \in 1 .. Len(Tail(s)) /\ Len(Tail(s)) + 1 = Len(s)
    BY <1>1, <1>2, <2>1
  <2>3. Tail(s)[Len(Tail(s))] = s[Len(Tail(s)) + 1]
    BY <1>2, <2>2
  <2> QED
    BY <2>2, <2>3
<1> QED
  BY <1>1, <1>2, <1>3, <1>4

\* The initial link is well formed.
LEMMA LinkInitOK == LinkInit => LinkOK
<1> SUFFICES ASSUME LinkInit PROVE LinkOK
  OBVIOUS
<1>1. LinkTypeOK
  <2>1. writer \in BOOLEAN
    BY DEF LinkInit
  <2> QED
    BY <2>1, EmptyIsSeq, BoundsAssumption DEF LinkInit, LinkTypeOK, Phases
<1>2. LinkInv
  BY DEF LinkInit, LinkInv, FramesChain, ServiceEndsChain, LinkShape
<1> QED
  BY <1>1, <1>2 DEF LinkOK

\* Actions that leave the frames, the phase and the view alone keep the chain.
LEMMA SameFrames ==
    ASSUME LinkInv, UNCHANGED <<s2c, view>>
    PROVE  FramesChain' /\ LastTag' = LastTag
BY DEF LinkInv, FramesChain, Before, LastTag

\* A socket is opened (connect_with_session), whatever was there before.
LEMMA ReplaceOK == LinkOK /\ Replace => LinkOK'
<1> SUFFICES ASSUME LinkOK, Replace PROVE LinkOK'
  OBVIOUS
<1>1. LinkTypeOK'
  BY EmptyIsSeq, BoundsAssumption DEF LinkOK, Replace, LinkTypeOK, Phases
<1>2. LinkInv'
  BY DEF Replace, LinkInv, FramesChain, ServiceEndsChain, LinkShape, LastTag, StillIn
<1> QED
  BY <1>1, <1>2 DEF LinkOK

\* The first socket is opened.
LEMMA OpenOK == LinkOK /\ Open => LinkOK'
BY ReplaceOK DEF Open

\* The client is dropped.
LEMMA DropLinkOK == LinkOK /\ DropLink => LinkOK'
<1> SUFFICES ASSUME LinkOK, DropLink PROVE LinkOK'
  OBVIOUS
<1>1. LinkTypeOK'
  <2>1. writer' \in BOOLEAN
    BY DEF DropLink
  <2> QED
    BY <2>1, EmptyIsSeq, BoundsAssumption DEF LinkOK, DropLink, LinkTypeOK, Phases
<1>2. LinkInv'
  BY DEF DropLink, LinkInv, FramesChain, ServiceEndsChain, LinkShape
<1> QED
  BY <1>1, <1>2 DEF LinkOK

\* A command becomes client frames.
LEMMA FramesOfOK ==
    ASSUME NEW command \in Commands
    PROVE  FramesOf(command) \in Seq(ClientFrames)
<1>1. CASE command = "NEXT"
  BY <1>1 DEF FramesOf, ClientFrames
<1>2. CASE command # "NEXT"
  <2>1. command \in ClientFrames
    BY <1>2 DEF Commands, ClientFrames
  <2> QED
    BY <1>2, <2>1 DEF FramesOf
<1> QED
  BY <1>1, <1>2

\* A command is written, or swallowed by a dead socket.
LEMMA SendOkOK ==
    ASSUME NEW command \in Commands, LinkOK, SendOk(command)
    PROVE  LinkOK'
<1>1. LinkTypeOK'
  <2>1. FramesOf(command) \in Seq(ClientFrames)
    BY FramesOfOK
  <2> DEFINE frames == FramesOf(command)
  <2>2. c2s' \in Seq(ClientFrames) /\ Len(c2s') <= MaxInFlight
    <3>1. CASE link = "up"
      <4>1. c2s' = c2s \o frames /\ Len(c2s) + Len(frames) <= MaxInFlight
        BY <3>1 DEF SendOk
      <4>2. c2s \in Seq(ClientFrames)
        BY DEF LinkOK, LinkTypeOK
      <4> HIDE DEF frames
      <4>3. frames \in Seq(ClientFrames)
        BY <2>1 DEF frames
      <4> QED
        BY <4>1, <4>2, <4>3
    <3>2. CASE link # "up"
      BY <3>2 DEF SendOk, LinkOK, LinkTypeOK
    <3> QED
      BY <3>1, <3>2
  <2> QED
    BY <2>2 DEF LinkOK, LinkTypeOK, SendOk
<1>2. FramesChain' /\ LastTag' = LastTag
  BY SameFrames DEF LinkOK, SendOk
<1>3. LinkInv'
  BY <1>2 DEF LinkOK, SendOk, LinkInv, ServiceEndsChain, LinkShape
<1> QED
  BY <1>1, <1>3 DEF LinkOK

\* A send fails, for whatever reason.
LEMMA SendFailsOK == LinkOK /\ (SendErr \/ SendUnencodable) => LinkOK'
<1> SUFFICES ASSUME LinkOK, SendErr \/ SendUnencodable PROVE LinkOK'
  OBVIOUS
<1>1. LinkTypeOK'
  BY DEF LinkOK, LinkTypeOK, SendErr, SendUnencodable
<1>2. FramesChain' /\ LastTag' = LastTag
  BY SameFrames DEF LinkOK, SendErr, SendUnencodable
<1>3. LinkInv'
  BY <1>2 DEF LinkOK, SendErr, SendUnencodable, LinkInv, ServiceEndsChain, LinkShape
<1> QED
  BY <1>1, <1>3 DEF LinkOK

\* An event is taken: the chain loses its first link, which followed the view.
LEMMA TakeEventOK ==
    ASSUME LinkOK, s2c # <<>>, s2c' = Tail(s2c), view' = Head(s2c).after,
           UNCHANGED <<link, phase, matches>>,
           c2s' \in Seq(ClientFrames), Len(c2s') <= MaxInFlight,
           link # "up" => c2s' = <<>>, writer' \in BOOLEAN
    PROVE  /\ LinkOK'
           /\ Follows(view, Head(s2c))
           /\ Head(s2c) \in ServerFrames
<1>1. s2c \in Seq(ServerFrames) /\ Len(s2c) > 0 /\ Len(s2c) <= MaxInFlight
  BY DEF LinkOK, LinkTypeOK
<1>2. /\ Head(s2c) = s2c[1] /\ s2c[1] \in ServerFrames
      /\ Len(s2c') = Len(s2c) - 1 /\ s2c' \in Seq(ServerFrames)
      /\ \A i \in DOMAIN s2c' : s2c'[i] = s2c[i + 1] /\ i + 1 \in DOMAIN s2c
  BY <1>1, TailFacts
<1>3. Follows(view, Head(s2c))
  <2>1. 1 \in DOMAIN s2c
    BY <1>1
  <2>2. Follows(Before(1), s2c[1])
    BY <2>1 DEF LinkOK, LinkInv, FramesChain
  <2> QED
    BY <2>2, <1>2 DEF Before
<1>4. Head(s2c).after \in Phases /\ Head(s2c).after # "gone"
  BY <1>2 DEF ServerFrames, Phases
<1>5. LinkTypeOK'
  BY <1>1, <1>2, <1>4, BoundsAssumption DEF LinkOK, LinkTypeOK
<1>6. FramesChain'
  <2> SUFFICES ASSUME NEW i \in DOMAIN s2c' PROVE Follows(Before(i)', s2c'[i])
    BY DEF FramesChain
  <2>1. Follows(Before(i + 1), s2c[i + 1])
    BY <1>2 DEF LinkOK, LinkInv, FramesChain
  <2>2. i \in Nat \ {0}
    BY <1>2
  <2>3. Before(i)' = Before(i + 1)
    <3>1. CASE i = 1
      BY <3>1, <1>2 DEF Before
    <3>2. CASE i # 1
      <4>1. i - 1 \in DOMAIN s2c'
        BY <3>2, <2>2, <1>2
      <4>2. s2c'[i - 1] = s2c[i]
        BY <4>1, <2>2, <1>2
      <4> QED
        BY <3>2, <4>2, <2>2 DEF Before
    <3> QED
      BY <3>1, <3>2
  <2> QED
    BY <2>1, <2>3, <1>2
<1>7. LastTag' = LastTag
  <2>1. CASE s2c' = <<>>
    <3>1. s2c[Len(s2c)] = Head(s2c)
      BY <2>1, <1>1, TailFacts
    <3> QED
      BY <2>1, <3>1 DEF LastTag
  <2>2. CASE s2c' # <<>>
    <3>1. s2c'[Len(s2c')] = s2c[Len(s2c)]
      BY <2>2, <1>1, TailFacts
    <3> QED
      BY <2>2, <3>1 DEF LastTag
  <2> QED
    BY <2>1, <2>2
<1>8. LinkInv'
  BY <1>4, <1>6, <1>7, <1>1 DEF LinkOK, LinkInv, ServiceEndsChain, LinkShape
<1> QED
  BY <1>2, <1>3, <1>5, <1>8 DEF LinkOK

\* The socket is lost with a prefix of the frames still to be read.
LEMMA LoseOK == LinkOK /\ Lose => LinkOK'
<1> SUFFICES ASSUME LinkOK, Lose PROVE LinkOK'
  OBVIOUS
<1>1. PICK kept \in 0 .. Len(s2c) : s2c' = SubSeq(s2c, 1, kept)
  BY DEF Lose
<1>2. s2c \in Seq(ServerFrames) /\ Len(s2c) <= MaxInFlight
  BY DEF LinkOK, LinkTypeOK
<1>3. /\ s2c' \in Seq(ServerFrames) /\ Len(s2c') = kept
      /\ \A i \in 1 .. kept : s2c'[i] = s2c[i] /\ i \in DOMAIN s2c
  BY <1>1, <1>2
<1>4. LinkTypeOK'
  BY <1>2, <1>3, BoundsAssumption DEF LinkOK, LinkTypeOK, Lose, Phases
<1>5. FramesChain'
  <2> SUFFICES ASSUME NEW i \in DOMAIN s2c' PROVE Follows(Before(i)', s2c'[i])
    BY DEF FramesChain
  <2>1. i \in 1 .. kept
    BY <1>3
  <2>2. Follows(Before(i), s2c[i])
    BY <2>1, <1>3 DEF LinkOK, LinkInv, FramesChain
  <2>3. i = 1 \/ i - 1 \in 1 .. kept
    BY <2>1
  <2>4. Before(i)' = Before(i)
    BY <2>3, <1>3 DEF Before, Lose
  <2> QED
    BY <2>1, <2>2, <2>4, <1>3
<1>6. LinkInv'
  BY <1>5 DEF LinkOK, Lose, LinkInv, ServiceEndsChain, LinkShape
<1> QED
  BY <1>4, <1>6 DEF LinkOK

\* The service emits a frame that follows the last one: the chain grows.
LEMMA EmitOK ==
    ASSUME NEW op \in ServerOps, NEW conv \in 0 .. MaxConversations,
           NEW after \in Phases \ {"gone", "handshake"}, NEW extra \in Nat,
           LinkOK, EmitWithRoom(op, conv, after, extra),
           Follows(LastTag, Frame(op, conv, after)),
           UNCHANGED <<link, view>>, link = "up",
           writer' \in BOOLEAN, matches' \in 0 .. MaxConversations,
           c2s' \in Seq(ClientFrames), Len(c2s') <= MaxInFlight
    PROVE  LinkOK'
<1> DEFINE frame == Frame(op, conv, after)
<1>1. frame \in ServerFrames /\ frame.after = after
  BY DEF Frame, ServerFrames
<1>2. s2c \in Seq(ServerFrames) /\ Len(s2c) + extra < MaxInFlight
  BY DEF LinkOK, LinkTypeOK, EmitWithRoom
<1>3. s2c' = Append(s2c, frame) /\ phase' = after
  BY DEF EmitWithRoom
<1> HIDE DEF frame
<1>4. /\ s2c' \in Seq(ServerFrames) /\ Len(s2c') = Len(s2c) + 1 /\ s2c' # <<>>
      /\ s2c'[Len(s2c) + 1] = frame
      /\ \A i \in 1 .. Len(s2c) : s2c'[i] = s2c[i]
  BY <1>1, <1>2, <1>3
<1>5. LinkTypeOK'
  BY <1>2, <1>3, <1>4, BoundsAssumption DEF LinkOK, LinkTypeOK
<1>6. FramesChain'
  <2> SUFFICES ASSUME NEW i \in DOMAIN s2c' PROVE Follows(Before(i)', s2c'[i])
    BY DEF FramesChain
  <2>1. CASE i \in 1 .. Len(s2c)
    <3>1. Follows(Before(i), s2c[i])
      BY <2>1, <1>2 DEF LinkOK, LinkInv, FramesChain
    <3>2. i = 1 \/ i - 1 \in 1 .. Len(s2c)
      BY <2>1, <1>2
    <3>3. Before(i)' = Before(i)
      BY <3>2, <1>4 DEF Before
    <3> QED
      BY <3>1, <3>3, <2>1, <1>4
  <2>2. CASE i = Len(s2c) + 1
    <3>1. Before(i)' = LastTag
      <4>1. CASE s2c = <<>>
        BY <4>1, <2>2 DEF Before, LastTag
      <4>2. CASE s2c # <<>>
        BY <4>2, <2>2, <1>2, <1>4 DEF Before, LastTag
      <4> QED
        BY <4>1, <4>2
    <3> QED
      BY <3>1, <2>2, <1>4 DEF frame
  <2> QED
    BY <2>1, <2>2, <1>2, <1>4
<1>7. LastTag' = after
  BY <1>1, <1>4, <1>2 DEF LastTag
<1>8. LinkInv'
  BY <1>3, <1>6, <1>7 DEF LinkOK, LinkInv, ServiceEndsChain, LinkShape, StillIn
<1> QED
  BY <1>5, <1>8 DEF LinkOK

\* While the service is in a phase the socket is up and the last frame tells
\* of that phase, or of a waiting that a silent CANCEL has ended.
LEMMA PhaseFitsTag ==
    ASSUME LinkOK, phase # "gone"
    PROVE  /\ link = "up" /\ StillIn(LastTag, phase)
           /\ phase # "connected" => LastTag = phase
BY DEF LinkOK, LinkInv, LinkShape, ServiceEndsChain, StillIn

\* The service accepts the hello.
LEMMA AcceptsOK == LinkOK /\ ServiceAccepts => LinkOK'
<1> SUFFICES ASSUME LinkOK, ServiceAccepts PROVE LinkOK'
  OBVIOUS
<1>1. Follows(LastTag, Frame("READY", 0, "connected")) /\ link = "up"
  BY PhaseFitsTag DEF ServiceAccepts, Follows, Frame
<1>2. EmitWithRoom("READY", 0, "connected", 0)
  BY DEF ServiceAccepts, Emit
<1>3. /\ UNCHANGED <<link, view, writer, matches, c2s>>
      /\ writer \in BOOLEAN /\ matches \in 0 .. MaxConversations
      /\ c2s \in Seq(ClientFrames) /\ Len(c2s) <= MaxInFlight
  BY DEF ServiceAccepts, LinkOK, LinkTypeOK
<1>4. /\ "READY" \in ServerOps /\ 0 \in 0 .. MaxConversations /\ 0 \in Nat
      /\ "connected" \in Phases \ {"gone", "handshake"}
  BY BoundsAssumption DEF ServerOps, Phases
<1> QED
  BY <1>1, <1>2, <1>3, <1>4, EmitOK

\* The service handles a command, refuses it or reports an error.
LEMMA HandlesOK == LinkOK /\ ServiceHandles => LinkOK'
<1> SUFFICES ASSUME LinkOK, ServiceHandles PROVE LinkOK'
  OBVIOUS
<1>1. /\ phase \in Phases \ {"gone", "handshake"} /\ link = "up"
      /\ StillIn(LastTag, phase)
      /\ phase # "connected" => LastTag = phase
  BY PhaseFitsTag DEF ServiceHandles, LinkOK, LinkTypeOK
<1>2. c2s' \in Seq(ClientFrames) /\ Len(c2s') <= MaxInFlight
  <2>1. c2s \in Seq(ClientFrames) /\ c2s # <<>> /\ Len(c2s) <= MaxInFlight
    BY DEF ServiceHandles, LinkOK, LinkTypeOK
  <2>2. c2s' = Tail(c2s)
    BY DEF ServiceHandles
  <2>3. Len(c2s) \in Nat /\ Len(c2s') = Len(c2s) - 1 /\ c2s' \in Seq(ClientFrames)
    BY <2>1, <2>2, TailFacts
  <2> DEFINE n == Len(c2s)
             m == Len(c2s')
  <2>4. n \in Nat /\ m = n - 1 /\ n <= MaxInFlight
    BY <2>1, <2>3
  <2> HIDE DEF n, m
  <2>5. m <= MaxInFlight
    BY <2>4, BoundsAssumption
  <2> QED
    BY <2>3, <2>5 DEF m
<1>3. /\ UNCHANGED <<link, view, writer, matches>>
      /\ writer \in BOOLEAN /\ matches \in 0 .. MaxConversations
  BY DEF ServiceHandles, LinkOK, LinkTypeOK
<1>4. 0 \in 0 .. MaxConversations /\ 0 \in Nat
  BY BoundsAssumption
<1>5. ASSUME NEW op \in ServerOps, NEW after \in Phases \ {"gone", "handshake"},
             Emit(op, after), Follows(LastTag, Frame(op, 0, after))
      PROVE  LinkOK'
  BY <1>1, <1>2, <1>3, <1>4, <1>5, EmitOK DEF Emit
<1>6. CASE \E op \in {"BUSY", "ERROR"} : Refuse(op)
  <2>1. PICK op \in {"BUSY", "ERROR"} : Emit(op, phase)
    BY <1>6 DEF Refuse
  <2>2. LastTag # "handshake"
    BY <1>1 DEF StillIn, Phases
  <2>3. Follows(LastTag, Frame(op, 0, phase))
    BY <1>1, <2>2 DEF Follows, Frame
  <2>4. op \in ServerOps
    BY DEF ServerOps
  <2> QED
    BY <1>1, <1>5, <2>1, <2>3, <2>4
<1>7. CASE phase = "connected" /\ Emit("SEARCHING", "waiting")
  <2>1. Follows(LastTag, Frame("SEARCHING", 0, "waiting"))
    BY <1>1, <1>7 DEF Follows, Frame, StillIn
  <2>2. "SEARCHING" \in ServerOps /\ "waiting" \in Phases \ {"gone", "handshake"}
    BY DEF ServerOps, Phases
  <2> QED
    BY <1>5, <1>7, <2>1, <2>2
<1>8. CASE phase = "chatting" /\ Emit("MESSAGE", "chatting")
  <2>1. Follows(LastTag, Frame("MESSAGE", 0, "chatting"))
    BY <1>1, <1>8 DEF Follows, Frame
  <2>2. "MESSAGE" \in ServerOps
    BY DEF ServerOps
  <2> QED
    BY <1>1, <1>5, <1>8, <2>1, <2>2
<1>9. CASE phase = "chatting" /\ Emit("PEER_LEFT", "connected")
  <2>1. Follows(LastTag, Frame("PEER_LEFT", 0, "connected"))
    BY <1>1, <1>9 DEF Follows, Frame
  <2>2. "PEER_LEFT" \in ServerOps /\ "connected" \in Phases \ {"gone", "handshake"}
    BY DEF ServerOps, Phases
  <2> QED
    BY <1>5, <1>9, <2>1, <2>2
<1>10. CASE phase = "waiting" /\ phase' = "connected" /\ UNCHANGED s2c
  <2>1. FramesChain' /\ LastTag' = LastTag
    BY <1>3, <1>10, SameFrames DEF LinkOK
  <2>2. LinkInv'
    BY <1>1, <1>3, <1>10, <2>1
    DEF LinkOK, LinkInv, ServiceEndsChain, LinkShape, StillIn
  <2>3. LinkTypeOK'
    BY <1>2, <1>3, <1>10 DEF LinkOK, LinkTypeOK, Phases
  <2> QED
    BY <2>2, <2>3 DEF LinkOK
<1> QED
  BY <1>6, <1>7, <1>8, <1>9, <1>10 DEF ServiceHandles, ValidPhase

\* The service obeys CLOSE.
LEMMA ClosesOK == LinkOK /\ ServiceCloses => LinkOK'
<1> SUFFICES ASSUME LinkOK, ServiceCloses PROVE LinkOK'
  OBVIOUS
<1>1. LinkTypeOK'
  BY EmptyIsSeq, BoundsAssumption DEF LinkOK, LinkTypeOK, ServiceCloses, Phases
<1>2. FramesChain'
  BY SameFrames DEF LinkOK, ServiceCloses
<1>3. link = "up"
  BY PhaseFitsTag DEF ServiceCloses
<1>4. LinkInv'
  BY <1>2, <1>3 DEF LinkOK, ServiceCloses, LinkInv, ServiceEndsChain, LinkShape
<1> QED
  BY <1>1, <1>4 DEF LinkOK

\* A match, a departure or a message of the peer.
LEMMA PeerOK == LinkOK /\ ServicePeer => LinkOK'
<1> SUFFICES ASSUME LinkOK, ServicePeer PROVE LinkOK'
  OBVIOUS
<1>1. /\ writer \in BOOLEAN /\ matches \in 0 .. MaxConversations
      /\ c2s \in Seq(ClientFrames) /\ Len(c2s) <= MaxInFlight
      /\ 0 \in 0 .. MaxConversations /\ 1 \in Nat
  BY BoundsAssumption DEF LinkOK, LinkTypeOK
<1>2. /\ "MATCHED" \in ServerOps /\ "PEER_LEFT" \in ServerOps
      /\ "MESSAGE" \in ServerOps
      /\ "chatting" \in Phases \ {"gone", "handshake"}
      /\ "connected" \in Phases \ {"gone", "handshake"}
  BY DEF ServerOps, Phases
<1>3. CASE ServiceMatches
  <2>1. link = "up" /\ LastTag = "waiting"
    BY <1>3, PhaseFitsTag DEF ServiceMatches
  <2>2. matches + 1 \in 0 .. MaxConversations /\ matches + 1 # 0
    BY <1>1, <1>3, BoundsAssumption DEF ServiceMatches
  <2>3. Follows(LastTag, Frame("MATCHED", matches + 1, "chatting"))
    BY <2>1, <2>2 DEF Follows, Frame
  <2>4. /\ EmitWithRoom("MATCHED", matches + 1, "chatting", 1)
        /\ matches' = matches + 1 /\ UNCHANGED <<link, view, writer, c2s>>
    BY <1>3 DEF ServiceMatches
  <2> QED
    BY <1>1, <1>2, <2>1, <2>2, <2>3, <2>4, EmitOK
<1>4. CASE ServicePeerLeaves
  <2>1. /\ link = "up" /\ LastTag = "chatting"
        /\ EmitWithRoom("PEER_LEFT", 0, "connected", 1)
        /\ UNCHANGED <<link, view, writer, c2s, matches>>
    BY <1>4, PhaseFitsTag DEF ServicePeerLeaves
  <2>2. Follows(LastTag, Frame("PEER_LEFT", 0, "connected"))
    BY <2>1 DEF Follows, Frame
  <2> QED
    BY <1>1, <1>2, <2>1, <2>2, EmitOK
<1>5. CASE ServicePeerMessage
  <2>1. /\ link = "up" /\ LastTag = "chatting"
        /\ EmitWithRoom("MESSAGE", 0, "chatting", 1)
        /\ UNCHANGED <<link, view, writer, c2s, matches>>
    BY <1>5, PhaseFitsTag DEF ServicePeerMessage
  <2>2. Follows(LastTag, Frame("MESSAGE", 0, "chatting"))
    BY <2>1 DEF Follows, Frame
  <2> QED
    BY <1>1, <1>2, <2>1, <2>2, EmitOK
<1> QED
  BY <1>3, <1>4, <1>5 DEF ServicePeer

\* Nothing the service does breaks the chain, and it never touches the view.
LEMMA ServiceOK ==
    LinkOK /\ (ServiceReplies \/ ServicePeer) => LinkOK' /\ view' = view
<1>1. (ServiceReplies \/ ServicePeer) => view' = view
  BY DEF ServiceReplies, ServicePeer, ServiceAccepts, ServiceHandles,
         ServiceCloses, ServiceMatches, ServicePeerLeaves, ServicePeerMessage
<1> QED
  BY <1>1, AcceptsOK, HandlesOK, ClosesOK, PeerOK DEF ServiceReplies

------------------------------------------------------------------------------
(* What is on its way after each kind of step.                              *)

\* Taking an event: the frame that was last of its kind still is, unless it
\* was the one that was taken.
LEMMA LastAfterTake ==
    ASSUME LinkTypeOK, s2c # <<>>, s2c' = Tail(s2c), NEW ops
    PROVE  /\ NoneOf(ops)' =>
                IF Head(s2c).op \in ops THEN LastOf(ops, 1) ELSE NoneOf(ops)
           /\ \A i \in DOMAIN s2c' :
                /\ i + 1 \in DOMAIN s2c /\ s2c'[i] = s2c[i + 1]
                /\ LastOf(ops, i)' => LastOf(ops, i + 1)
           /\ 1 \in DOMAIN s2c /\ s2c[1] = Head(s2c)
<1>1. s2c \in Seq(ServerFrames)
  BY DEF LinkTypeOK
<1>2. /\ Len(s2c) \in Nat \ {0} /\ Head(s2c) = s2c[1]
      /\ DOMAIN s2c = 1 .. Len(s2c) /\ DOMAIN s2c' = 1 .. Len(s2c) - 1
      /\ \A i \in 1 .. Len(s2c) - 1 : s2c'[i] = s2c[i + 1]
  BY <1>1, TailFacts
<1>3. \A j \in DOMAIN s2c : j = 1 \/ (j - 1 \in DOMAIN s2c' /\ s2c'[j - 1] = s2c[j])
  BY <1>2
<1>4. NoneOf(ops)' => IF Head(s2c).op \in ops THEN LastOf(ops, 1) ELSE NoneOf(ops)
  <2> SUFFICES ASSUME NoneOf(ops)'
               PROVE  IF Head(s2c).op \in ops THEN LastOf(ops, 1) ELSE NoneOf(ops)
    OBVIOUS
  <2>1. \A j \in DOMAIN s2c : j = 1 \/ s2c[j].op \notin ops
    BY <1>3 DEF NoneOf
  <2> QED
    BY <1>2, <2>1 DEF NoneOf, LastOf
<1>5. ASSUME NEW i \in DOMAIN s2c'
      PROVE  /\ i + 1 \in DOMAIN s2c /\ s2c'[i] = s2c[i + 1]
             /\ LastOf(ops, i)' => LastOf(ops, i + 1)
  <2>1. i + 1 \in DOMAIN s2c /\ s2c'[i] = s2c[i + 1] /\ i \in Nat
    BY <1>2
  <2>2. ASSUME LastOf(ops, i)', NEW j \in DOMAIN s2c, j > i + 1
        PROVE  s2c[j].op \notin ops
    <3>1. j - 1 \in DOMAIN s2c' /\ s2c'[j - 1] = s2c[j] /\ j - 1 > i
      BY <1>2, <1>3, <2>1, <2>2
    <3> QED
      BY <2>2, <3>1 DEF LastOf
  <2> QED
    BY <2>1, <2>2 DEF LastOf
<1> QED
  BY <1>2, <1>4, <1>5

\* Emitting a frame of another kind changes nothing about the last one.
LEMMA LastAfterOther ==
    ASSUME LinkTypeOK, NEW op, NEW conv, NEW after, NEW ops, op \notin ops,
           s2c' = Append(s2c, Frame(op, conv, after))
    PROVE  /\ NoneOf(ops)' <=> NoneOf(ops)
           /\ \A i : LastOf(ops, i)' => LastOf(ops, i) /\ s2c'[i] = s2c[i]
<1> DEFINE frame == Frame(op, conv, after)
           n == Len(s2c)
<1>1. frame.op = op
  BY DEF Frame
<1> HIDE DEF frame
<1>2. s2c \in Seq(ServerFrames) /\ s2c' = Append(s2c, frame)
  BY DEF LinkTypeOK, frame
<1>3. /\ n \in Nat /\ DOMAIN s2c = 1 .. n /\ DOMAIN s2c' = 1 .. n + 1
      /\ s2c'[n + 1] = frame /\ \A i \in 1 .. n : s2c'[i] = s2c[i]
  BY <1>2
<1> HIDE DEF n
<1>4. \A i \in DOMAIN s2c' : i = n + 1 \/ i \in DOMAIN s2c
  BY <1>3
<1>5. \A i \in DOMAIN s2c : i \in DOMAIN s2c'
  BY <1>3
<1>6. NoneOf(ops)' <=> NoneOf(ops)
  BY <1>1, <1>3, <1>4, <1>5 DEF NoneOf
<1>7. ASSUME NEW i, LastOf(ops, i)'
      PROVE  LastOf(ops, i) /\ s2c'[i] = s2c[i]
  <2>1. i \in DOMAIN s2c
    BY <1>1, <1>3, <1>4, <1>7 DEF LastOf
  <2> QED
    BY <1>3, <1>5, <1>7, <2>1 DEF LastOf
<1> QED
  BY <1>6, <1>7

\* Emitting a frame: it is the last of its kind.
LEMMA LastAfterOwn ==
    ASSUME LinkTypeOK, NEW op, NEW conv, NEW after, NEW ops, op \in ops,
           s2c' = Append(s2c, Frame(op, conv, after))
    PROVE  /\ ~NoneOf(ops)'
           /\ \A i : LastOf(ops, i)' => s2c'[i].op = op /\ s2c'[i].conv = conv
<1> DEFINE frame == Frame(op, conv, after)
           n == Len(s2c)
<1>1. frame.op = op /\ frame.conv = conv
  BY DEF Frame
<1> HIDE DEF frame
<1>2. s2c \in Seq(ServerFrames) /\ s2c' = Append(s2c, frame)
  BY DEF LinkTypeOK, frame
<1>3. /\ n \in Nat /\ DOMAIN s2c' = 1 .. n + 1 /\ s2c'[n + 1] = frame
  BY <1>2
<1> HIDE DEF n
<1>4. n + 1 \in DOMAIN s2c' /\ \A i \in DOMAIN s2c' : i = n + 1 \/ n + 1 > i
  BY <1>3
<1>5. ~NoneOf(ops)'
  BY <1>1, <1>3, <1>4 DEF NoneOf
<1>6. ASSUME NEW i, LastOf(ops, i)'
      PROVE  s2c'[i] = frame
  BY <1>1, <1>3, <1>4, <1>6 DEF LastOf
<1> QED
  BY <1>1, <1>5, <1>6

\* What the client has written is queued behind what it wrote before.
LEMMA AfterSend ==
    ASSUME LinkTypeOK, NEW command \in Commands, SendOk(command), link = "up"
    PROVE  LET n == Len(c2s)
               m == Len(FramesOf(command)) IN
           /\ n \in Nat /\ DOMAIN c2s = 1 .. n /\ DOMAIN c2s' = 1 .. n + m
           /\ \A i \in 1 .. n : c2s'[i] = c2s[i]
           /\ command # "NEXT" => m = 1 /\ c2s'[n + 1] = command
           /\ command = "NEXT" => m = 2 /\ c2s'[n + 1] = "LEAVE" /\ c2s'[n + 2] = "FIND"
<1> DEFINE frames == FramesOf(command)
<1>1. /\ c2s \in Seq(ClientFrames) /\ frames \in Seq(ClientFrames)
      /\ c2s' = c2s \o frames
  BY FramesOfOK DEF LinkTypeOK, SendOk
<1>2. /\ command # "NEXT" => Len(frames) = 1 /\ frames[1] = command
      /\ command = "NEXT" => Len(frames) = 2 /\ frames[1] = "LEAVE" /\ frames[2] = "FIND"
  BY DEF FramesOf
<1> HIDE DEF frames
<1>3. /\ Len(c2s) \in Nat /\ Len(frames) \in Nat
      /\ DOMAIN c2s = 1 .. Len(c2s) /\ DOMAIN c2s' = 1 .. Len(c2s) + Len(frames)
      /\ \A i \in 1 .. Len(c2s) : c2s'[i] = c2s[i]
      /\ \A i \in 1 .. Len(frames) : c2s'[Len(c2s) + i] = frames[i]
  BY <1>1
<1> QED
  BY <1>2, <1>3 DEF frames

\* The service has handled the first command.
LEMMA AfterHandle ==
    ASSUME LinkTypeOK, c2s # <<>>, c2s' = Tail(c2s)
    PROVE  /\ 1 \in DOMAIN c2s /\ c2s[1] = Head(c2s)
           /\ \A i \in DOMAIN c2s' : i + 1 \in DOMAIN c2s /\ c2s'[i] = c2s[i + 1] /\ i \in Nat
           /\ \A i \in DOMAIN c2s : i = 1 \/ (i - 1 \in DOMAIN c2s' /\ c2s'[i - 1] = c2s[i])
           /\ \A frame : /\ Queued(frame)' => Queued(frame)
                         /\ Queued(frame) /\ ~Queued(frame)' => Head(c2s) = frame
<1>1. c2s \in Seq(ClientFrames)
  BY DEF LinkTypeOK
<1>2. /\ Len(c2s) \in Nat \ {0} /\ Head(c2s) = c2s[1]
      /\ DOMAIN c2s = 1 .. Len(c2s) /\ DOMAIN c2s' = 1 .. Len(c2s) - 1
      /\ \A i \in 1 .. Len(c2s) - 1 : c2s'[i] = c2s[i + 1]
  BY <1>1, TailFacts
<1>3. /\ \A i \in DOMAIN c2s' : i + 1 \in DOMAIN c2s /\ c2s'[i] = c2s[i + 1] /\ i \in Nat
      /\ \A i \in DOMAIN c2s : i = 1 \/ (i - 1 \in DOMAIN c2s' /\ c2s'[i - 1] = c2s[i])
  BY <1>2
<1>4. \A frame : /\ Queued(frame)' => Queued(frame)
                /\ Queued(frame) /\ ~Queued(frame)' => Head(c2s) = frame
  BY <1>2, <1>3 DEF Queued
<1>5. 1 \in DOMAIN c2s /\ c2s[1] = Head(c2s)
  BY <1>2
<1> QED
  BY <1>3, <1>4, <1>5 DEF Queued

===============================================================================
