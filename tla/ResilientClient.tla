--------------------------- MODULE ResilientClient ---------------------------
(***************************************************************************)
(* AingleClient::connect_resilient (crates/aingle-client/src/lib.rs): one  *)
(* handle whose connection is replaced behind it.  resilient_loop owns one *)
(* ClientLink at a time, takes commands from a bounded queue, forwards     *)
(* events to another one, and remembers in should_find whether a reconnect *)
(* is to search.                                                           *)
(*                                                                         *)
(* Its users send whatever they like at any time, so which command it was  *)
(* is chosen when the loop takes it, and the queue holds the senders.  Of  *)
(* the event queue only the length is kept, of the back-off that it ends.  *)
(***************************************************************************)
EXTENDS ClientLink, Functions

CONSTANTS
    Senders,            \* calls of send that can be under way at once
    CommandCapacity,    \* of the command queue (64 in the code)
    EventCapacity       \* of the event queue (128)

ASSUME ResilientAssumption ==
    CommandCapacity \in Nat \ {0} /\ EventCapacity \in Nat \ {0}

VARIABLES
    pc,             \* where connect_resilient and its loop are
    should_find,    \* a reconnect is followed by a FIND
    queue,          \* the senders whose commands wait
    events,         \* events that wait for next_event
    users,          \* who is left: the client, handles cloned from it, nobody
    closed,         \* history: a Close has been answered
    stray           \* history: should_find was cleared by a LEAVE that met no
                    \* conversation

loopVars == <<pc, should_find, queue, events, users, closed, stray>>
vars == <<linkVars, loopVars>>

\* "initial": the first connect; "failed": it was refused; "serve": the select!;
\* "backoff": the sleep; "connect": load and connect; "find": the FIND that
\* follows; "returned": the loop is over and has dropped its ends of the queues.
Places == {"initial", "failed", "serve", "backoff", "connect", "find", "returned"}

TypeOK ==
    /\ LinkTypeOK
    /\ pc \in Places
    /\ should_find \in BOOLEAN
    /\ queue \in Seq(Senders) /\ Len(queue) <= CommandCapacity
    /\ events \in 0 .. EventCapacity
    /\ users \in {"client", "handles", "nobody"}
    /\ closed \in BOOLEAN /\ stray \in BOOLEAN

Init ==
    /\ LinkInit
    /\ pc = "initial"
    /\ should_find = FALSE
    /\ queue = <<>>
    /\ events = 0
    /\ users = "client"
    /\ closed = FALSE /\ stray = FALSE

------------------------------------------------------------------------------
(* The users of the handle.                                                *)

\* A call of send waits for room in the queue, then for its answer.  Once the
\* loop has returned it is Err(Closed) at once.
Send(c) ==
    /\ pc \in {"serve", "backoff", "connect", "find"} /\ users # "nobody"
    /\ c \notin Range(queue) /\ Len(queue) < CommandCapacity
    /\ queue' = Append(queue, c)
    /\ UNCHANGED <<linkVars, pc, should_find, events, users, closed, stray>>

\* next_event
ReadEvent ==
    /\ users = "client" /\ events > 0
    /\ events' = events - 1
    /\ UNCHANGED <<linkVars, pc, should_find, queue, users, closed, stray>>

\* The client is dropped, and its receiver with it; handles may outlive it.
DropClient ==
    /\ pc # "initial" /\ users = "client"
    /\ users' = "handles"
    /\ events' = 0
    /\ UNCHANGED <<linkVars, pc, should_find, queue, closed, stray>>

DropHandles ==
    /\ users = "handles" /\ queue = <<>>
    /\ users' = "nobody"
    /\ UNCHANGED <<linkVars, pc, should_find, queue, events, closed, stray>>

------------------------------------------------------------------------------
(* connect_resilient, and the end of the loop.                             *)

InitialConnect ==
    /\ pc = "initial"
    /\ \/ Open /\ pc' = "serve"
       \/ pc' = "failed" /\ UNCHANGED linkVars
    /\ UNCHANGED <<should_find, queue, events, users, closed, stray>>

\* Mutant of Return: the queue outlives the loop.
ReturnKeepsQueue ==
    /\ pc' = "returned"
    /\ UNCHANGED queue
    /\ DropLink

\* The loop returns: the client it holds is dropped, and so are the commands
\* that wait; their senders get Err(Closed).
Return ==
    /\ pc' = "returned"
    /\ queue' = <<>>
    /\ DropLink

\* recv() finds no handle left.
NoHandles ==
    /\ pc = "serve" /\ users = "nobody" /\ queue = <<>>
    /\ Return
    /\ UNCHANGED <<should_find, events, users, closed, stray>>

------------------------------------------------------------------------------
(* Commands.                                                               *)

\* The command at the head is taken and its sender answered.
AnswerHead == queue' = Tail(queue)

\* find and next set should_find, leave clears it.
Remember(command) ==
    /\ should_find' = CASE command \in {"FIND", "NEXT"} -> TRUE
                        [] command = "LEAVE" -> FALSE
                        [] OTHER -> should_find
    /\ stray' = CASE command \in {"FIND", "NEXT"} -> FALSE
                  [] command = "LEAVE" -> view # "chatting"
                  [] OTHER -> stray

\* A send that fails is answered and breaks to the reconnect.
Command(command) ==
    /\ pc = "serve" /\ queue # <<>>
    /\ Remember(command)
    /\ \/ SendOk(command) /\ pc' = "serve"
       \/ SendErr /\ pc' = "backoff"
    /\ AnswerHead
    /\ UNCHANGED <<events, users, closed>>

\* The socket stays open, and the service in its phase, until it is replaced.
OversizedMessage ==
    /\ pc = "serve" /\ queue # <<>>
    /\ SendUnencodable /\ pc' = "backoff"
    /\ AnswerHead
    /\ UNCHANGED <<should_find, events, users, closed, stray>>

\* Written or not, the loop returns; what waits behind the close is refused.
\* (Dropping the client ends its writer task behind the CLOSE; the service sees
\* a CLOSE or the end of the socket.)
CloseCommand ==
    /\ pc = "serve" /\ queue # <<>>
    /\ closed' = TRUE
    /\ Return
    /\ UNCHANGED <<should_find, events, users, stray>>

TakeCommand ==
    \/ \E command \in {"FIND", "CANCEL", "MESSAGE", "LEAVE", "NEXT"} :
         Command(command)
    \/ OversizedMessage \/ CloseCommand

------------------------------------------------------------------------------
(* Events.                                                                 *)

RoomForEvent == users = "client" /\ events < EventCapacity

\* Mutant of RememberEvent: as the session worker, which forgets a search that
\* has ended in a match.
RememberSearching(op) ==
    /\ should_find' = CASE op = "SEARCHING" -> TRUE
                        [] op \in {"MATCHED", "PEER_LEFT"} -> FALSE
                        [] OTHER -> should_find
    /\ stray' = (stray /\ op \notin {"SEARCHING", "MATCHED", "PEER_LEFT"})

\* searching and matched set should_find, peer_left clears it.
RememberEvent(op) ==
    /\ should_find' = CASE op \in {"SEARCHING", "MATCHED"} -> TRUE
                        [] op = "PEER_LEFT" -> FALSE
                        [] OTHER -> should_find
    /\ stray' = (stray /\ op \notin {"SEARCHING", "MATCHED", "PEER_LEFT"})

\* try_send does not wait: without room the loop returns.
HandleEvent ==
    /\ pc = "serve" /\ s2c # <<>>
    /\ RememberEvent(Head(s2c).op)
    /\ \/ /\ RoomForEvent
          /\ TakeEvent
          /\ events' = events + 1
          /\ UNCHANGED <<pc, queue>>
       \/ ~RoomForEvent /\ Return /\ UNCHANGED events
    /\ UNCHANGED <<users, closed>>

\* An error is forwarded before the reconnect, the end of the stream is not.
EndOfStream ==
    /\ pc = "serve" /\ Drained
    /\ \/ /\ pc' = "backoff"
          /\ \/ UNCHANGED events
             \/ RoomForEvent /\ events' = events + 1
          /\ UNCHANGED <<linkVars, queue>>
       \/ ~RoomForEvent /\ Return /\ UNCHANGED events
    /\ UNCHANGED <<should_find, users, closed, stray>>

------------------------------------------------------------------------------
(* The reconnect.  Commands wait, and so does the discovery that nobody is  *)
(* left to send one.                                                        *)

BackoffElapsed ==
    /\ pc = "backoff"
    /\ pc' = "connect"
    /\ UNCHANGED <<linkVars, should_find, queue, events, users, closed, stray>>

\* The key file cannot be read: the error is forwarded and the loop is over.
IdentityFails ==
    /\ pc = "connect"
    /\ Return
    /\ events' = IF RoomForEvent THEN events + 1 ELSE events
    /\ UNCHANGED <<should_find, users, closed, stray>>

ConnectFails ==
    /\ pc = "connect"
    /\ pc' = "backoff"
    /\ UNCHANGED <<linkVars, should_find, queue, events, users, closed, stray>>

\* Mutant of ConnectOk: the search is left to the next find.
ConnectOnly ==
    /\ pc = "connect"
    /\ Replace
    /\ pc' = "serve"
    /\ UNCHANGED <<should_find, queue, events, users, closed, stray>>

ConnectOk ==
    /\ pc = "connect"
    /\ Replace
    /\ pc' = IF should_find THEN "find" ELSE "serve"
    /\ UNCHANGED <<should_find, queue, events, users, closed, stray>>

\* The FIND is written before READY.  When it fails, the loop waits once more.
FindAgain ==
    /\ pc = "find"
    /\ \/ SendOk("FIND") /\ pc' = "serve"
       \/ SendErr /\ pc' = "backoff"
    /\ UNCHANGED <<should_find, queue, events, users, closed, stray>>

------------------------------------------------------------------------------

Reconnect ==
    \/ BackoffElapsed \/ IdentityFails
    \/ ConnectFails \/ ConnectOk \/ FindAgain

UserStep ==
    \/ \E c \in Senders : Send(c)
    \/ ReadEvent \/ DropClient \/ DropHandles

Service == (ServiceReplies \/ ServicePeer) /\ UNCHANGED loopVars

LinkLost == Lose /\ UNCHANGED loopVars

Next ==
    \/ InitialConnect \/ NoHandles \/ TakeCommand \/ HandleEvent \/ EndOfStream
    \/ Reconnect \/ UserStep \/ Service \/ LinkLost

Spec == Init /\ [][Next]_vars

\* select! picks among its ready branches at random, so none is passed over for
\* ever; timers fire and the service answers.  Nobody is obliged to send, to read
\* or to drop anything.
Fairness ==
    /\ WF_vars(InitialConnect) /\ WF_vars(Reconnect)
    /\ WF_vars(TakeCommand) /\ WF_vars(HandleEvent) /\ WF_vars(EndOfStream)
    /\ WF_vars(ServiceReplies /\ UNCHANGED loopVars)

FairSpec == Spec /\ Fairness

------------------------------------------------------------------------------
(* The inductive invariant, for ResilientClientProofs.                     *)

\* The phase told by the client's view (i = 0) and by the frames behind it.
Tag(i) == IF i = 0 THEN view ELSE s2c[i].after

\* A conversation that is over at the service is over in some frame on its way.
DepartureSeen ==
    link = "up" /\ phase # "chatting" =>
        \A i \in 0 .. Len(s2c) :
            Tag(i) = "chatting" =>
                \E j \in i + 1 .. Len(s2c) : s2c[j].op = "PEER_LEFT"

\* The conversation the client sees is about to end.
Departing ==
    \/ \E i \in DOMAIN c2s : c2s[i] = "LEAVE"
    \/ \E j \in DOMAIN s2c : s2c[j].op = "PEER_LEFT"

\* The client sees a search, or a conversation that is not about to end.
SearchHeld ==
    link = "up" /\ (view = "waiting" \/ (view = "chatting" /\ ~Departing))

LoopShape ==
    /\ pc = "serve" /\ SearchHeld => should_find \/ stray
    /\ closed => pc = "returned"
    /\ pc \in {"initial", "failed", "returned"} => link = "none"
    /\ pc = "find" => view = "handshake"

ResilientInv == TypeOK /\ LinkInv /\ DepartureSeen /\ LoopShape

------------------------------------------------------------------------------
(* What a user of the handle may rely on.                                  *)

\* From some point on the connection neither fails nor is lost, nor given up for
\* a message that cannot be encoded.
NetworkHolds == <>[][~LinkLost /\ ~ConnectFails /\ ~OversizedMessage]_vars

\* A FIND the service is too busy for has been answered; repeating it is the
\* user's.
Refused == \E i \in DOMAIN s2c : s2c[i].op = "BUSY"

\* With nothing on its way, a search or a conversation the service holds is one
\* a reconnect would resume, for any user, except after a LEAVE that met no
\* conversation: one that was queued while the connection was lost clears
\* should_find behind the FIND of the reconnect.
OnlyStrayLeaveForgets ==
    pc = "serve" /\ Quiet /\ phase \in {"waiting", "chatting"} =>
        should_find \/ stray

\* Once a Close has been answered nothing is written any more and no connection
\* is made, whatever its send met and whoever still holds a handle.
SilentAfterClose == [][closed => link' = "none"]_vars

\* A search the loop remembers when its connection ends is under way again,
\* refused by the service or withdrawn by a LEAVE, once the network holds,
\* however often the reconnect or its FIND has failed.
SearchIsResumed ==
    NetworkHolds =>
        (pc = "backoff" /\ should_find ~>
             phase = "waiting" \/ Refused \/ ~should_find \/ pc = "returned")

\* Once the network holds, no call of send waits for ever, also not one that was
\* made while there was no connection: the loop answers it or returns, which
\* makes it Err(Closed).
SendsEnd ==
    NetworkHolds =>
        \A c \in Senders : c \in Range(queue) ~> c \notin Range(queue)

===============================================================================
