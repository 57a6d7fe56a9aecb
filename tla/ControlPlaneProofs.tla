-------------------------- MODULE ControlPlaneProofs --------------------------
(***************************************************************************)
(* What a caller concludes from the outcome of a session command is true,  *)
(* for any number of calls and any length of the worker's queue.           *)
(***************************************************************************)
EXTENDS ControlPlane, TLAPS

Done(c) == \E i \in DOMAIN effects : effects[i] = c

\* An answer that says what became of the command, or leaves it open.
Truthful(c, answer) ==
    /\ answer.kind # "none"
    /\ answer.kind = "ok" /\ op[c] # "status" => Done(c)
    /\ answer.kind = "refused" => ~Done(c)

\* A command is performed while the loop is in it and at no other time, so what
\* waits has not been performed and what has ended will not be.
CommandShape ==
    /\ \A i \in DOMAIN queue : queue[i] # current /\ handler[queue[i]] = "queued"
    /\ \A i, j \in DOMAIN queue : queue[i] = queue[j] => i = j
    /\ net \in {"sending", "sent"} <=> current # NoCall
    /\ current # NoCall =>
         handler[current] = "queued" /\ (net = "sent" <=> Done(current))
    /\ \A c \in Calls :
         /\ handler[c] \in {"none", "backlog", "running"} => ~Done(c)
         /\ handler[c] = "queued" =>
              op[c] \in {"act", "close"} /\ (c # current => ~Done(c))
         /\ handler[c] = "answered" => Truthful(c, reply[c])

\* Where the caller is, what it has asked and what it has been told.
CallerShape ==
    \A c \in Calls :
        /\ caller[c] = "new" <=> op[c] = "none"
        /\ caller[c] \in {"new", "connecting"} => handler[c] = "none"
        /\ caller[c] \in {"new", "connecting", "waiting"} =>
             result[c] = Result("none", "open", "none")
        /\ caller[c] = "fallback" => op[c] # "act"
        /\ result[c].source = "worker" =>
             handler[c] = "ended" /\ Truthful(c, result[c])

\* A session that is closed has no loop, and who is told so has reason to be.
CloseShape ==
    /\ disk.state = "closed" => state = "closed"
    /\ state = "closed" => net = "returned"
    /\ \A c \in Calls :
         /\ op[c] = "close" =>
              /\ handler[c] = "answered" /\ reply[c].kind = "ok" => state = "closed"
              /\ result[c].kind = "ok" => state = "closed"
         /\ op[c] = "status" /\ handler[c] = "answered" => reply[c].kind = "ok"
         /\ afterClose[c] =>
              /\ disk.state = "closed"
              /\ handler[c] # "queued"
              /\ op[c] = "act" =>
                   /\ handler[c] = "answered" => reply[c].kind # "ok"
                   /\ result[c].kind # "ok"
              /\ op[c] = "close" /\ caller[c] = "done" => result[c].kind = "ok"
              /\ op[c] = "status" =>
                   /\ handler[c] = "answered" => reply[c].state = "closed"
                   /\ caller[c] = "done" => result[c].state = "closed"

PlaneInv == TypeOK /\ CommandShape /\ CallerShape /\ CloseShape

------------------------------------------------------------------------------
(* PlaneInv is inductive.                                                  *)

LEMMA RepliesAreTyped ==
    /\ NoReply \in [kind : Kinds, state : States]
    /\ \A kind \in Kinds, status \in States :
         /\ Reply(kind, status) \in [kind : Kinds, state : States]
         /\ Error(kind) \in [kind : Kinds, state : States]
BY DEF NoReply, Reply, Error, Kinds, States

LEMMA InitOK == Init => PlaneInv
<1> SUFFICES ASSUME Init PROVE PlaneInv
  OBVIOUS
<1>1. TypeOK
  <2>1. queue \in Seq(Calls) /\ Len(queue) <= QueueCapacity /\ effects \in Seq(Calls)
    BY QueueAssumption DEF Init
  <2>2. /\ reply \in [Calls -> [kind : Kinds, state : States]]
        /\ result \in [Calls -> [kind : Kinds, state : States,
                                 source : {"none", "worker", "file"}]]
    BY RepliesAreTyped DEF Init, Result, Kinds, States
  <2>3. state \in States /\ disk \in [state : States, open : BOOLEAN]
    BY DEF Init, States
  <2> QED BY <2>1, <2>2, <2>3 DEF Init, TypeOK
<1>2. \A c \in Calls : ~Done(c)
  <2>1. effects = <<>> /\ DOMAIN effects = {}
    BY DEF Init
  <2> QED BY <2>1 DEF Done
<1>3. CommandShape
  BY <1>2 DEF Init, CommandShape
<1>4. CallerShape
  BY DEF Init, CallerShape, Result
<1>5. CloseShape
  BY DEF Init, CloseShape, Result
<1> QED BY <1>1, <1>3, <1>4, <1>5 DEF PlaneInv

\* What performing a command changes.
LEMMA DoneSame == effects' = effects => \A c : Done(c)' <=> Done(c)
BY DEF Done

LEMMA DoneAppend ==
    ASSUME effects \in Seq(Calls), NEW d \in Calls, effects' = Append(effects, d)
    PROVE  /\ effects' \in Seq(Calls)
           /\ \A c : Done(c)' <=> Done(c) \/ c = d
<1>1. Len(effects') = Len(effects) + 1 /\ effects' \in Seq(Calls)
  OBVIOUS
<1>2. \A i \in 1 .. Len(effects) : effects'[i] = effects[i]
  OBVIOUS
<1>3. effects'[Len(effects) + 1] = d
  OBVIOUS
<1> QED BY <1>1, <1>2, <1>3 DEF Done

\* An answer stays true while no command is performed.
LEMMA TruthfulSame ==
    ASSUME effects' = effects, op' = op
    PROVE  \A c, r : Truthful(c, r)' <=> Truthful(c, r)
BY DoneSame DEF Truthful

LEMMA StartOK ==
    ASSUME PlaneInv, StartBegin \/ StartSeesExit \/ StartSeesPort
                     \/ StartAnswered \/ StartUnanswered \/ Boot
    PROVE  PlaneInv'
<1>1. /\ UNCHANGED <<net, current, queue, state, callVars, history>>
      /\ disk'.state = disk.state
  BY DEF StartBegin, StartSeesExit, StartSeesPort, StartAnswered,
     StartUnanswered, Boot, workerVars, PlaneInv, TypeOK
<1>2. TypeOK'
  BY <1>1 DEF PlaneInv, TypeOK, StartBegin, StartSeesExit, StartSeesPort,
     StartAnswered, StartUnanswered, Boot, workerVars, callVars, history
<1>3. CommandShape'
  BY <1>1, DoneSame DEF PlaneInv, CommandShape, Truthful, callVars, history
<1>4. CallerShape'
  BY <1>1, DoneSame DEF PlaneInv, CallerShape, Truthful, callVars, history
<1>5. CloseShape'
  BY <1>1 DEF PlaneInv, CloseShape, callVars, history
<1> QED BY <1>2, <1>3, <1>4, <1>5 DEF PlaneInv

LEMMA DieOK ==
    ASSUME PlaneInv, StartExpires \/ Crash \/ Exit
    PROVE  PlaneInv'
<1>1. Die /\ starter' \in {starter, "killed"}
  BY DEF StartExpires, Crash, Exit
<1> USE <1>1
<1>2. TypeOK'
  <2>1. queue' \in Seq(Calls) /\ Len(queue') <= QueueCapacity
    BY QueueAssumption DEF Die
  <2>2. reply' \in [Calls -> [kind : Kinds, state : States]]
    BY RepliesAreTyped DEF Die
  <2>3. handler' \in [Calls -> {"none", "backlog", "running", "queued",
                                "answered", "ended"}]
    BY DEF Die
  <2> QED BY <2>1, <2>2, <2>3 DEF PlaneInv, TypeOK, Die, history
<1>3. CommandShape'
  BY DoneSame DEF PlaneInv, TypeOK, CommandShape, Die, history
<1>4. CallerShape'
  BY DoneSame DEF PlaneInv, TypeOK, CallerShape, Truthful, Die, history
<1>5. CloseShape'
  BY DEF PlaneInv, TypeOK, CloseShape, Die, NoReply, Reply, history
<1> QED BY <1>2, <1>3, <1>4, <1>5 DEF PlaneInv

\* The loop takes a command, or the state becomes failed with no connection.
LEMMA TakeOK ==
    ASSUME PlaneInv, Take
    PROVE  PlaneInv'
<1>1. /\ queue \in Seq(Calls) /\ queue # <<>> /\ Head(queue) \in Calls
      /\ Tail(queue) \in Seq(Calls) /\ Len(Tail(queue)) = Len(queue) - 1
      /\ \A i \in DOMAIN Tail(queue) : i + 1 \in DOMAIN queue /\ Tail(queue)[i] = queue[i + 1]
      /\ 1 \in DOMAIN queue /\ Head(queue) = queue[1]
  BY DEF PlaneInv, TypeOK, Take
<1>2. UNCHANGED <<process, listening, state, disk, starter, callVars, history>>
  BY DEF Take
<1>3. TypeOK'
  BY <1>1, <1>2, QueueAssumption DEF PlaneInv, TypeOK, Take, callVars, history
<1>4. handler[Head(queue)] = "queued" /\ ~Done(Head(queue)) /\ current = NoCall
  BY <1>1 DEF PlaneInv, CommandShape, Take
<1>5. \A c \in Calls : handler[c] = "queued" => ~Done(c)
  BY <1>4, QueueAssumption DEF PlaneInv, CommandShape
<1>6. CommandShape'
  <2>1. \A i \in DOMAIN queue' : queue'[i] # current' /\ handler[queue'[i]] = "queued"
    BY <1>1 DEF PlaneInv, CommandShape, Take
  <2>2. \A i, j \in DOMAIN queue' : queue'[i] = queue'[j] => i = j
    BY <1>1 DEF PlaneInv, CommandShape, Take
  <2>3. net' = "sending" /\ current' = Head(queue) /\ current' # NoCall
    BY <1>1, QueueAssumption DEF Take
  <2> QED BY <1>1, <1>2, <1>4, <1>5, <2>1, <2>2, <2>3, DoneSame, TruthfulSame
          DEF PlaneInv, CommandShape, callVars, history
<1>7. CallerShape'
  BY <1>2, TruthfulSame DEF PlaneInv, CallerShape, callVars, history
<1>8. CloseShape'
  BY <1>2 DEF PlaneInv, CloseShape, Take, callVars, history
<1> QED BY <1>3, <1>6, <1>7, <1>8 DEF PlaneInv

LEMMA LoadFailsOK ==
    ASSUME PlaneInv, LoadFails
    PROVE  PlaneInv'
<1>1. /\ UNCHANGED <<net, current, queue, callVars, history>>
      /\ state = "open" /\ state' = "failed" /\ disk.state # "closed"
      /\ disk'.state # "closed"
  BY DEF LoadFails, SetState, PlaneInv, TypeOK, CloseShape
<1>2. TypeOK'
  BY <1>1 DEF PlaneInv, TypeOK, LoadFails, SetState, States, callVars, history
<1>3. CommandShape'
  BY <1>1, DoneSame, TruthfulSame DEF PlaneInv, CommandShape, callVars, history
<1>4. CallerShape'
  BY <1>1, TruthfulSame DEF PlaneInv, CallerShape, callVars, history
<1>5. CloseShape'
  BY <1>1 DEF PlaneInv, CloseShape, callVars, history
<1> QED BY <1>2, <1>3, <1>4, <1>5 DEF PlaneInv

LEMMA SendOK ==
    ASSUME PlaneInv, Send
    PROVE  PlaneInv'
<1>1. /\ net = "sending" /\ net' = "sent" /\ current \in Calls
      /\ handler[current] = "queued"
  BY DEF PlaneInv, TypeOK, CommandShape, Send
<1>2. /\ effects' \in Seq(Calls)
      /\ \A c : Done(c)' <=> Done(c) \/ c = current
  BY <1>1, DoneAppend DEF PlaneInv, TypeOK, Send
<1>3. UNCHANGED <<starter, process, listening, current, queue, state, disk, callVars, afterClose>>
  BY DEF Send
<1>4. TypeOK'
  BY <1>1, <1>2, <1>3 DEF PlaneInv, TypeOK, callVars
<1>5. CommandShape'
  BY <1>1, <1>2, <1>3 DEF PlaneInv, CommandShape, Truthful, callVars
<1>6. CallerShape'
  BY <1>1, <1>2, <1>3 DEF PlaneInv, CallerShape, Truthful, callVars
<1>7. CloseShape'
  BY <1>1, <1>3 DEF PlaneInv, CloseShape, callVars
<1> QED BY <1>4, <1>5, <1>6, <1>7 DEF PlaneInv

\* The loop lets go of its command and answers it.
LEMMA AnswerCurrentOK ==
    ASSUME PlaneInv, net \in {"sending", "sent"}, NEW d \in Calls, d = current,
           net' = "idle", current' = NoCall, UNCHANGED queue,
           NEW answer \in [kind : Kinds, state : States],
           Answer([c \in {current} |-> answer]),
           effects' = effects \/ effects' = Append(effects, current),
           UNCHANGED <<starter, process, listening, state, afterClose>>,
           disk' = disk \/ disk' = [disk EXCEPT !.state = state],
           Truthful(d, answer)',
           answer.kind = "ok" => op[current] = "act"
    PROVE  PlaneInv'
<1>1. /\ current \in Calls /\ handler[current] = "queued"
      /\ state # "closed" /\ disk.state # "closed" /\ disk'.state # "closed"
  BY QueueAssumption DEF PlaneInv, TypeOK, CommandShape, CloseShape
<1>2. /\ effects' \in Seq(Calls)
      /\ \A c : c # current => (Done(c)' <=> Done(c))
  BY <1>1, DoneAppend, DoneSame DEF PlaneInv, TypeOK
<1>3. /\ UNCHANGED <<op, caller, result>>
      /\ handler' = [handler EXCEPT ![current] = "answered"]
      /\ reply' = [reply EXCEPT ![current] = answer]
  BY <1>1 DEF Answer, PlaneInv, TypeOK
<1>4. \A c, r : c # current => (Truthful(c, r)' <=> Truthful(c, r))
  BY <1>2, <1>3 DEF Truthful
<1>5. TypeOK'
  BY <1>1, <1>2, <1>3 DEF PlaneInv, TypeOK
<1>6. CommandShape'
  <2>1. \A i \in DOMAIN queue' : queue'[i] # current' /\ handler'[queue'[i]] = "queued"
    BY <1>1, <1>3, QueueAssumption DEF PlaneInv, TypeOK, CommandShape
  <2>2. \A c \in Calls :
         /\ handler'[c] \in {"none", "backlog", "running"} => ~Done(c)'
         /\ handler'[c] = "queued" =>
              op[c] \in {"act", "close"} /\ (c # current' => ~Done(c)')
         /\ handler'[c] = "answered" => Truthful(c, reply[c])'
    <3>1. \A c \in Calls \ {current} :
            handler'[c] = handler[c] /\ reply'[c] = reply[c]
      BY <1>3 DEF PlaneInv, TypeOK
    <3>2. handler'[current] = "answered" /\ reply'[current] = answer
      BY <1>1, <1>3 DEF PlaneInv, TypeOK
    <3>3. Truthful(d, reply[d])'
      BY <1>3, <3>2 DEF Truthful
    <3>4. \A c \in Calls \ {current} :
            handler'[c] = "answered" => Truthful(c, reply[c])'
      BY <1>2, <1>3, <3>1 DEF PlaneInv, CommandShape, Truthful
    <3>5. \A c \in Calls :
            /\ handler'[c] \in {"none", "backlog", "running"} => ~Done(c)'
            /\ handler'[c] = "queued" =>
                 op[c] \in {"act", "close"} /\ (c # current' => ~Done(c)')
      BY <1>1, <1>2, <3>1, <3>2 DEF PlaneInv, CommandShape
    <3> QED BY <3>3, <3>4, <3>5
  <2> QED BY <1>3, <2>1, <2>2 DEF PlaneInv, CommandShape
<1>7. CallerShape'
  BY <1>1, <1>2, <1>3, <1>4 DEF PlaneInv, TypeOK, CallerShape
<1>8. CloseShape'
  BY <1>1, <1>3 DEF PlaneInv, TypeOK, CommandShape, CloseShape
<1> QED BY <1>5, <1>6, <1>7, <1>8 DEF PlaneInv

LEMMA RefuseOK ==
    ASSUME PlaneInv, Refuse
    PROVE  PlaneInv'
<1>1. Error("refused") \in [kind : Kinds, state : States] /\ Error("refused").kind = "refused"
  BY RepliesAreTyped DEF Error, Reply, Kinds
<1>2. ~Done(current) /\ effects' = effects /\ net = "sending"
  BY DEF PlaneInv, CommandShape, Refuse, history
<1>3. PICK d \in Calls : d = current
  BY QueueAssumption DEF PlaneInv, TypeOK, CommandShape, Refuse
<1>4. Truthful(d, Error("refused"))'
  BY <1>1, <1>2, <1>3, DoneSame DEF Truthful
<1> QED BY <1>1, <1>2, <1>3, <1>4, AnswerCurrentOK DEF Refuse, history

LEMMA SendFailsOK ==
    ASSUME PlaneInv, SendFails
    PROVE  PlaneInv'
<1>1. Error("unknown") \in [kind : Kinds, state : States] /\ Error("unknown").kind = "unknown"
  BY RepliesAreTyped DEF Error, Reply, Kinds
<1>2. PICK d \in Calls : d = current
  BY QueueAssumption DEF PlaneInv, TypeOK, CommandShape, SendFails
<1>3. Truthful(d, Error("unknown"))'
  BY <1>1 DEF Truthful
<1> QED BY <1>1, <1>2, <1>3, AnswerCurrentOK DEF SendFails

\* The loop returns: every command that still waits is refused.
LEMMA ReturnOK ==
    ASSUME PlaneInv, net # "returned", NEW answers, DOMAIN answers \subseteq {current},
           Return(answers),
           effects' = effects, UNCHANGED <<starter, process, listening, afterClose>>,
           state' \in States, disk' \in [state : States, open : BOOLEAN],
           state = "closed" => state' = "closed",
           disk'.state = "closed" => state' = "closed",
           disk.state = "closed" => disk'.state = "closed",
           current = NoCall \/ current \in DOMAIN answers,
           \A c \in DOMAIN answers :
             /\ answers[c] = Reply("ok", "closed") /\ net = "sent"
             /\ op[c] = "close" /\ state' = "closed"
    PROVE  PlaneInv'
<1>1. /\ UNCHANGED <<op, caller, result>>
      /\ queue' = <<>> /\ current' = NoCall /\ net' = "returned"
  BY DEF Return, Answer
<1>2. \A c \in Calls :
        \/ /\ handler'[c] = "answered" /\ reply'[c] = Reply("ok", "closed")
           /\ c \in DOMAIN answers
        \/ /\ handler'[c] = "answered" /\ reply'[c] = Error("refused")
           /\ handler[c] = "queued" /\ c \notin DOMAIN answers
        \/ /\ handler'[c] = handler[c] /\ reply'[c] = reply[c]
           /\ handler[c] # "queued"
  <2> SUFFICES ASSUME NEW c \in Calls
               PROVE  \/ /\ handler'[c] = "answered" /\ reply'[c] = Reply("ok", "closed")
                         /\ c \in DOMAIN answers
                      \/ /\ handler'[c] = "answered" /\ reply'[c] = Error("refused")
                         /\ handler[c] = "queued" /\ c \notin DOMAIN answers
                      \/ /\ handler'[c] = handler[c] /\ reply'[c] = reply[c]
                         /\ handler[c] # "queued"
    OBVIOUS
  <2> DEFINE all == [d \in Queued \cup DOMAIN answers |->
                       IF d \in DOMAIN answers THEN answers[d] ELSE Error("refused")]
  <2>1. /\ handler'[c] = IF c \in DOMAIN all THEN "answered" ELSE handler[c]
        /\ reply'[c] = IF c \in DOMAIN all THEN all[c] ELSE reply[c]
    BY DEF Return, Answer
  <2>2. CASE c \in DOMAIN answers
    BY <2>1, <2>2
  <2>3. CASE c \in Queued /\ c \notin DOMAIN answers
    BY <2>1, <2>3 DEF Queued
  <2>4. CASE c \notin Queued /\ c \notin DOMAIN answers
    <3>1. handler[c] # "queued"
      BY <2>4, QueueAssumption DEF Queued
    <3> QED BY <2>1, <2>4, <3>1
  <2> QED BY <2>2, <2>3, <2>4
<1>3. TypeOK'
  <2>1. queue' \in Seq(Calls) /\ Len(queue') <= QueueCapacity
    BY <1>1, QueueAssumption
  <2>2. handler' \in [Calls -> {"none", "backlog", "running", "queued", "answered", "ended"}]
    BY DEF Return, Answer, PlaneInv, TypeOK
  <2>3. reply' \in [Calls -> [kind : Kinds, state : States]]
    <3>1. \A c \in Calls : reply'[c] \in [kind : Kinds, state : States]
      <4>1. /\ Reply("ok", "closed") \in [kind : Kinds, state : States]
            /\ Error("refused") \in [kind : Kinds, state : States]
        BY RepliesAreTyped DEF Kinds, States
      <4> QED BY <1>2, <4>1 DEF PlaneInv, TypeOK
    <3> QED BY <3>1 DEF Return, Answer
  <2> QED BY <1>1, <2>1, <2>2, <2>3 DEF PlaneInv, TypeOK
<1>4. CommandShape'
  <2>1. \A c \in Calls : handler'[c] = "answered" => Truthful(c, reply[c])'
    <3> SUFFICES ASSUME NEW c \in Calls, handler'[c] = "answered"
                 PROVE  Truthful(c, reply[c])'
      OBVIOUS
    <3>1. Reply("ok", "closed").kind = "ok" /\ Error("refused").kind = "refused"
      BY DEF Reply, Error
    <3>2. CASE c \in DOMAIN answers /\ reply'[c] = Reply("ok", "closed")
      <4>1. Done(c)
        BY <3>2, QueueAssumption DEF PlaneInv, CommandShape
      <4> QED BY <3>1, <3>2, <4>1, DoneSame DEF Truthful
    <3>3. CASE handler[c] = "queued" /\ c \notin DOMAIN answers /\ reply'[c] = Error("refused")
      <4>1. ~Done(c)
        BY <3>3, QueueAssumption DEF PlaneInv, CommandShape
      <4> QED BY <3>1, <3>3, <4>1, DoneSame DEF Truthful
    <3>4. CASE handler'[c] = handler[c] /\ reply'[c] = reply[c]
      BY <1>1, <3>4, DoneSame DEF PlaneInv, CommandShape, Truthful
    <3> QED BY <1>2, <3>2, <3>3, <3>4
  <2> QED BY <1>1, <1>2, <2>1, DoneSame DEF PlaneInv, CommandShape
<1>5. CallerShape'
  <2>1. \A c \in Calls : handler[c] \in {"none", "ended"} => handler'[c] = handler[c]
    BY <1>2, QueueAssumption DEF PlaneInv, CommandShape
  <2> QED BY <1>1, <2>1, DoneSame DEF PlaneInv, CallerShape, Truthful
<1>6. CloseShape'
  <2>1. Reply("ok", "closed") = [kind |-> "ok", state |-> "closed"] /\ Error("refused").kind = "refused"
    BY DEF Reply, Error
  <2>2. \A c \in Calls : ~afterClose[c]
    BY DEF PlaneInv, CloseShape
  <2> QED BY <1>1, <1>2, <2>1, <2>2 DEF PlaneInv, CommandShape, CloseShape
<1> QED BY <1>3, <1>4, <1>5, <1>6 DEF PlaneInv

LEMMA ReturnsOK ==
    ASSUME PlaneInv, RecordFails \/ CommandsClosed
    PROVE  PlaneInv'
<1>1. DOMAIN << >> = {} /\ net = "idle" /\ current = NoCall
  BY DEF RecordFails, CommandsClosed, PlaneInv, CommandShape
<1>2. CASE RecordFails
  <2>1. /\ state = "open" /\ state' = "failed" /\ disk.state # "closed"
        /\ disk' \in [state : States, open : BOOLEAN] /\ disk'.state # "closed"
    BY <1>2 DEF RecordFails, SetState, States, PlaneInv, TypeOK, CloseShape
  <2> QED BY <1>1, <1>2, <2>1, ReturnOK DEF RecordFails, States, history
<1>3. CASE CommandsClosed
  <2>1. state' \in States /\ disk' \in [state : States, open : BOOLEAN]
    BY <1>3 DEF CommandsClosed, PlaneInv, TypeOK
  <2> QED BY <1>1, <1>3, <2>1, ReturnOK
          DEF CommandsClosed, PlaneInv, CloseShape, history
<1> QED BY <1>2, <1>3

LEMMA AcknowledgeOK ==
    ASSUME PlaneInv, Acknowledge
    PROVE  PlaneInv'
<1>1. PICK d \in Calls : d = current
  BY QueueAssumption DEF PlaneInv, TypeOK, CommandShape, Acknowledge
<1>2. /\ Done(d) /\ net = "sent" /\ effects' = effects /\ op' = op
      /\ state \in States /\ state # "closed" /\ disk.state # "closed"
  BY <1>1 DEF PlaneInv, TypeOK, CommandShape, CloseShape, Acknowledge, SetState,
     Return, Answer, history
<1>3. CASE op[current] = "close"
  <2>1. /\ SetState("closed")
        /\ Return([c \in {current} |-> Reply("ok", "closed")])
        /\ UNCHANGED <<starter, process, listening, afterClose>>
    BY <1>3 DEF Acknowledge, history
  <2>2. state' = "closed" /\ disk' \in [state : States, open : BOOLEAN]
    BY <2>1 DEF SetState, PlaneInv, TypeOK, States
  <2>3. state' \in States
    BY <2>2 DEF States
  <2> QED BY <1>1, <1>2, <1>3, <2>1, <2>2, <2>3, ReturnOK
<1>4. CASE op[current] = "act"
  <2>1. /\ SetState(state)
        /\ Answer([c \in {current} |-> Reply("ok", state)])
        /\ net' = "idle" /\ current' = NoCall /\ UNCHANGED queue
        /\ UNCHANGED <<starter, process, listening, afterClose>>
    BY <1>4 DEF Acknowledge, history
  <2>2. Reply("ok", state) \in [kind : Kinds, state : States]
    BY <1>2, RepliesAreTyped DEF Kinds
  <2>3. Reply("ok", state).kind = "ok"
    BY DEF Reply
  <2>4. state' = state /\ (disk' = disk \/ disk' = [disk EXCEPT !.state = state])
    BY <2>1 DEF SetState
  <2>5. ASSUME NEW answer, answer = Reply("ok", state)
        PROVE  Truthful(d, answer)'
    BY <1>2, <2>3, <2>5, DoneSame DEF Truthful
  <2> QED BY <1>1, <1>2, <1>4, <2>1, <2>2, <2>3, <2>4, <2>5, AnswerCurrentOK
<1> QED BY <1>3, <1>4 DEF Acknowledge

------------------------------------------------------------------------------
(* The listener and the tasks of the calls.                                *)

LEMMA ListenerFailsOK ==
    ASSUME PlaneInv, ListenerFails
    PROVE  PlaneInv'
<1>1. UNCHANGED <<starter, process, net, current, queue, state, disk, op, caller,
                  reply, result, history>>
  BY DEF ListenerFails
<1>2. \A c \in Calls :
        \/ handler'[c] = handler[c]
        \/ handler[c] = "backlog" /\ handler'[c] = "ended"
  BY DEF ListenerFails
<1>3. TypeOK'
  BY <1>1 DEF PlaneInv, TypeOK, ListenerFails, history
<1>4. CommandShape'
  <2>1. \A i \in DOMAIN queue : queue[i] \in Calls
    BY DEF PlaneInv, TypeOK
  <2> QED BY <1>1, <1>2, <2>1, DoneSame DEF PlaneInv, TypeOK, CommandShape, Truthful, history
<1>5. CallerShape'
  BY <1>1, <1>2, DoneSame DEF PlaneInv, CallerShape, Truthful, history
<1>6. CloseShape'
  BY <1>1, <1>2 DEF PlaneInv, CloseShape, history
<1> QED BY <1>3, <1>4, <1>5, <1>6 DEF PlaneInv

LEMMA AcceptOK ==
    ASSUME PlaneInv, NEW c \in Calls, Accept(c)
    PROVE  PlaneInv'
<1>1. UNCHANGED <<starter, workerVars, op, caller, reply, result, history>>
  BY DEF Accept
<1>2. handler[c] = "backlog" /\ handler' = [handler EXCEPT ![c] = "running"]
  BY DEF Accept
<1>3. TypeOK'
  BY <1>1, <1>2 DEF PlaneInv, TypeOK, workerVars, history
<1>4. CommandShape'
  <2>1. \A i \in DOMAIN queue : queue[i] \in Calls
    BY DEF PlaneInv, TypeOK
  <2> QED BY <1>1, <1>2, <2>1, DoneSame
          DEF PlaneInv, TypeOK, CommandShape, Truthful, workerVars, history
<1>5. CallerShape'
  BY <1>1, <1>2, DoneSame DEF PlaneInv, TypeOK, CallerShape, Truthful, workerVars, history
<1>6. CloseShape'
  BY <1>1, <1>2 DEF PlaneInv, TypeOK, CloseShape, workerVars, history
<1> QED BY <1>3, <1>4, <1>5, <1>6 DEF PlaneInv

\* A task answers without the loop: a status, or that the loop has returned.
LEMMA TaskAnswersOK ==
    ASSUME PlaneInv, NEW c \in Calls, handler[c] = "running",
           NEW answer \in [kind : Kinds, state : States],
           Answer([d \in {c} |-> answer]), UNCHANGED <<starter, workerVars, history>>,
           \/ op[c] = "status" /\ answer = Reply("ok", state)
           \/ op[c] \in {"act", "close"} /\ answer = Error("refused")
    PROVE  PlaneInv'
<1>1. UNCHANGED <<starter, process, listening, net, current, queue, state, disk, op,
                  caller, result, effects, afterClose>>
  BY DEF Answer, workerVars, history
<1>2. /\ handler' = [handler EXCEPT ![c] = "answered"]
      /\ reply' = [reply EXCEPT ![c] = answer]
  BY DEF Answer, PlaneInv, TypeOK
<1>3. \/ op[c] = "status" /\ answer.kind = "ok" /\ answer.state = state
      \/ op[c] \in {"act", "close"} /\ answer.kind = "refused"
  BY DEF Reply, Error
<1>4. TypeOK'
  BY <1>1, <1>2 DEF PlaneInv, TypeOK
<1>5. CommandShape'
  <2>1. \A i \in DOMAIN queue : queue[i] \in Calls
    BY DEF PlaneInv, TypeOK
  <2>2. ~Done(c)
    BY DEF PlaneInv, CommandShape
  <2> QED BY <1>1, <1>2, <1>3, <2>1, <2>2, DoneSame
          DEF PlaneInv, TypeOK, CommandShape, Truthful
<1>6. CallerShape'
  BY <1>1, <1>2, DoneSame DEF PlaneInv, TypeOK, CallerShape, Truthful
<1>7. CloseShape'
  BY <1>1, <1>2, <1>3 DEF PlaneInv, TypeOK, CloseShape
<1> QED BY <1>4, <1>5, <1>6, <1>7 DEF PlaneInv

LEMMA ServeOK ==
    ASSUME PlaneInv, NEW c \in Calls, ServeStatus(c) \/ Stopping(c)
    PROVE  PlaneInv'
<1>1. CASE ServeStatus(c)
  <2>1. Reply("ok", state) \in [kind : Kinds, state : States]
    BY RepliesAreTyped DEF PlaneInv, TypeOK, Kinds
  <2> QED BY <1>1, <2>1, TaskAnswersOK DEF ServeStatus
<1>2. CASE Stopping(c)
  <2>1. Error("refused") \in [kind : Kinds, state : States]
    BY RepliesAreTyped DEF Kinds
  <2> QED BY <1>2, <2>1, TaskAnswersOK DEF Stopping
<1> QED BY <1>1, <1>2

LEMMA EnqueueOK ==
    ASSUME PlaneInv, NEW c \in Calls, Enqueue(c)
    PROVE  PlaneInv'
<1>1. UNCHANGED <<starter, process, listening, net, current, state, disk, op,
                  caller, reply, result, history>>
  BY DEF Enqueue
<1>2. /\ handler[c] = "running" /\ handler' = [handler EXCEPT ![c] = "queued"]
      /\ op[c] \in {"act", "close"} /\ net # "returned" /\ c # current /\ ~Done(c)
  BY QueueAssumption DEF Enqueue, PlaneInv, CommandShape
<1>3. /\ queue \in Seq(Calls) /\ queue' \in Seq(Calls)
      /\ Len(queue') = Len(queue) + 1 /\ queue'[Len(queue) + 1] = c
      /\ \A i \in 1 .. Len(queue) : queue'[i] = queue[i] /\ queue[i] \in Calls
      /\ DOMAIN queue = 1 .. Len(queue) /\ DOMAIN queue' = 1 .. Len(queue) + 1
  BY DEF Enqueue, PlaneInv, TypeOK
<1>4. TypeOK'
  <2>1. Len(queue') <= QueueCapacity
    BY <1>3, QueueAssumption DEF Enqueue
  <2> QED BY <1>1, <1>2, <1>3, <2>1 DEF PlaneInv, TypeOK, history
<1>5. CommandShape'
  <2>1. \A i \in DOMAIN queue' : i \in DOMAIN queue \/ i = Len(queue) + 1
    BY <1>3
  <2>2. \A i \in DOMAIN queue : queue[i] # c
    BY <1>2 DEF PlaneInv, CommandShape
  <2>3. \A i \in DOMAIN queue' : queue'[i] # current /\ handler'[queue'[i]] = "queued"
    BY <1>2, <1>3, <2>1, <2>2 DEF PlaneInv, TypeOK, CommandShape
  <2>4. \A i, j \in DOMAIN queue' : queue'[i] = queue'[j] => i = j
    BY <1>3, <2>1, <2>2 DEF PlaneInv, CommandShape
  <2> QED BY <1>1, <1>2, <2>3, <2>4, DoneSame
          DEF PlaneInv, TypeOK, CommandShape, Truthful, history
<1>6. CallerShape'
  BY <1>1, <1>2, DoneSame DEF PlaneInv, TypeOK, CallerShape, Truthful, history
<1>7. CloseShape'
  BY <1>1, <1>2 DEF PlaneInv, TypeOK, CloseShape, history
<1> QED BY <1>4, <1>5, <1>6, <1>7 DEF PlaneInv

------------------------------------------------------------------------------
(* The calling processes.                                                  *)

Results == [kind : Kinds, state : States, source : {"none", "worker", "file"}]

LEMMA ResultsAreTyped ==
    ASSUME NEW kind \in Kinds, NEW status \in States, NEW source \in {"none", "worker", "file"}
    PROVE  /\ Result(kind, status, source) \in Results
           /\ Result(kind, status, source).kind = kind
           /\ Result(kind, status, source).state = status
           /\ Result(kind, status, source).source = source
BY DEF Result, Results

LEMMA AskOK ==
    ASSUME PlaneInv, NEW c \in Calls, Ask(c)
    PROVE  PlaneInv'
<1>1. PICK asked \in {"status", "act", "close"} :
        /\ op' = [op EXCEPT ![c] = asked]
        /\ \/ /\ disk.open
              /\ caller' = [caller EXCEPT ![c] = "connecting"]
              /\ UNCHANGED result
           \/ ~disk.open /\ Fail(c, asked, "unknown", "none")
  BY DEF Ask
<1>2. /\ UNCHANGED <<starter, process, listening, net, current, queue, state, disk,
                     handler, reply, effects>>
      /\ afterClose' = [afterClose EXCEPT ![c] = disk.state = "closed"]
      /\ caller[c] = "new"
  BY DEF Ask, workerVars
<1>3. /\ handler[c] = "none" /\ result[c] = Result("none", "open", "none")
      /\ op[c] = "none"
  BY <1>2 DEF PlaneInv, CallerShape
<1>4. /\ Result("none", "open", "none") \in Results
      /\ Result("none", "open", "none").kind = "none"
      /\ Result("none", "open", "none").source = "none"
      /\ Result("unknown", "open", "none") \in Results
      /\ Result("unknown", "open", "none").kind = "unknown"
      /\ Result("unknown", "open", "none").source = "none"
  BY ResultsAreTyped DEF Kinds, States
<1>5. \/ /\ caller' = [caller EXCEPT ![c] = "connecting"]
         /\ result' = result
      \/ /\ caller' = [caller EXCEPT ![c] = IF asked = "act" THEN "done" ELSE "fallback"]
         /\ result' = [result EXCEPT ![c] = Result("unknown", "open", "none")]
  BY <1>1 DEF Fail
<1>6. TypeOK'
  <2>1. caller' \in [Calls -> {"new", "connecting", "waiting", "fallback", "done"}]
    BY <1>5 DEF PlaneInv, TypeOK
  <2>2. op' \in [Calls -> {"none", "status", "act", "close"}]
    BY <1>1 DEF PlaneInv, TypeOK
  <2>3. result' \in [Calls -> Results]
    <3>1. result \in [Calls -> Results]
      BY DEF PlaneInv, TypeOK, Results
    <3> QED BY <1>4, <1>5, <3>1
  <2>4. afterClose' \in [Calls -> BOOLEAN]
    BY <1>2 DEF PlaneInv, TypeOK
  <2> QED BY <1>2, <2>1, <2>2, <2>3, <2>4 DEF PlaneInv, TypeOK, Results
<1>7. CommandShape'
  <2>1. \A d \in Calls : handler[d] \in {"queued", "answered"} => op'[d] = op[d]
    BY <1>1, <1>3 DEF PlaneInv, TypeOK
  <2> QED BY <1>2, <2>1, DoneSame DEF PlaneInv, CommandShape, Truthful
<1>8. CallerShape'
  <2>1. \A d \in Calls \ {c} : /\ op'[d] = op[d] /\ caller'[d] = caller[d]
                               /\ result'[d] = result[d]
    BY <1>1, <1>5 DEF PlaneInv, TypeOK
  <2>2. op'[c] = asked
    BY <1>1 DEF PlaneInv, TypeOK
  <2>3. \/ caller'[c] = "connecting" /\ result'[c] = Result("none", "open", "none")
        \/ /\ caller'[c] = IF asked = "act" THEN "done" ELSE "fallback"
           /\ result'[c] = Result("unknown", "open", "none")
    BY <1>3, <1>5 DEF PlaneInv, TypeOK
  <2> QED BY <1>2, <1>3, <1>4, <2>1, <2>2, <2>3, DoneSame
          DEF PlaneInv, CallerShape, Truthful
<1>9. CloseShape'
  <2>1. \A d \in Calls \ {c} : /\ op'[d] = op[d] /\ caller'[d] = caller[d]
                               /\ result'[d] = result[d]
                               /\ afterClose'[d] = afterClose[d]
    BY <1>1, <1>2, <1>5 DEF PlaneInv, TypeOK
  <2>2. op'[c] = asked /\ (afterClose'[c] <=> disk.state = "closed")
    BY <1>1, <1>2 DEF PlaneInv, TypeOK
  <2>3. result'[c].kind # "ok" /\ (op'[c] # "act" => caller'[c] # "done")
    BY <1>3, <1>4, <1>5, <2>2 DEF PlaneInv, TypeOK
  <2> QED BY <1>2, <1>3, <2>1, <2>2, <2>3 DEF PlaneInv, CloseShape
<1> QED BY <1>6, <1>7, <1>8, <1>9 DEF PlaneInv

LEMMA ConnectOK ==
    ASSUME PlaneInv, NEW c \in Calls, Connect(c)
    PROVE  PlaneInv'
<1>1. UNCHANGED <<starter, process, listening, net, current, queue, state, disk,
                  op, reply, result, effects, afterClose>>
  BY DEF Connect, workerVars, history
<1>2. /\ caller[c] = "connecting" /\ handler[c] = "none"
      /\ caller' = [caller EXCEPT ![c] = "waiting"]
      /\ handler' = [handler EXCEPT ![c] = "backlog"]
  BY DEF Connect, PlaneInv, CallerShape
<1>3. TypeOK'
  BY <1>1, <1>2 DEF PlaneInv, TypeOK
<1>4. CommandShape'
  <2>1. \A i \in DOMAIN queue : queue[i] \in Calls
    BY DEF PlaneInv, TypeOK
  <2> QED BY <1>1, <1>2, <2>1, DoneSame DEF PlaneInv, TypeOK, CommandShape, Truthful
<1>5. CallerShape'
  BY <1>1, <1>2, DoneSame DEF PlaneInv, TypeOK, CallerShape, Truthful
<1>6. CloseShape'
  BY <1>1, <1>2 DEF PlaneInv, TypeOK, CloseShape
<1> QED BY <1>3, <1>4, <1>5, <1>6 DEF PlaneInv

\* The caller takes note of an answer, of the lack of one, or of the file.
LEMMA ToldOK ==
    ASSUME PlaneInv, NEW c \in Calls, caller[c] \in {"connecting", "waiting", "fallback"},
           UNCHANGED <<starter, workerVars, op, history>>,
           NEW place \in {"fallback", "done"}, NEW answer \in Results,
           caller' = [caller EXCEPT ![c] = place],
           result' = [result EXCEPT ![c] = answer],
           \/ handler' = handler /\ reply' = reply
           \/ /\ handler' = [handler EXCEPT ![c] = "ended"]
              /\ reply' = [reply EXCEPT ![c] = NoReply]
              /\ handler[c] = "answered",
           answer.source = "worker" => handler'[c] = "ended" /\ Truthful(c, answer),
           place = "fallback" => op[c] # "act",
           answer.kind = "ok" =>
             /\ op[c] = "act" => ~afterClose[c]
             /\ op[c] = "close" => state = "closed",
           place = "done" /\ afterClose[c] =>
             /\ op[c] = "close" => answer.kind = "ok"
             /\ op[c] = "status" => answer.state = "closed"
    PROVE  PlaneInv'
<1>1. /\ UNCHANGED <<starter, process, listening, net, current, queue, state, disk, op,
                     effects, afterClose>>
      /\ caller'[c] = place /\ result'[c] = answer
      /\ \A d \in Calls \ {c} : caller'[d] = caller[d] /\ result'[d] = result[d]
  BY DEF workerVars, history, PlaneInv, TypeOK
<1>2. \A d \in Calls :
        \/ handler'[d] = handler[d] /\ reply'[d] = reply[d]
        \/ d = c /\ handler[d] = "answered" /\ handler'[d] = "ended"
  BY DEF PlaneInv, TypeOK
<1>3. op[c] # "none"
  BY DEF PlaneInv, CallerShape
<1>4. TypeOK'
  <2>1. handler' \in [Calls -> {"none", "backlog", "running", "queued",
                                "answered", "ended"}]
    BY DEF PlaneInv, TypeOK
  <2>2. reply' \in [Calls -> [kind : Kinds, state : States]]
    BY RepliesAreTyped DEF PlaneInv, TypeOK
  <2>3. result' \in [Calls -> Results]
    <3>1. result \in [Calls -> Results]
      BY DEF PlaneInv, TypeOK, Results
    <3> QED BY <3>1
  <2>4. caller' \in [Calls -> {"new", "connecting", "waiting", "fallback", "done"}]
    BY DEF PlaneInv, TypeOK
  <2> QED BY <1>1, <2>1, <2>2, <2>3, <2>4 DEF PlaneInv, TypeOK, Results
<1>5. CommandShape'
  <2>1. \A i \in DOMAIN queue : queue[i] \in Calls
    BY DEF PlaneInv, TypeOK
  <2>2. \A d \in Calls : handler[d] = "queued" => handler'[d] = "queued"
    BY <1>2
  <2>3. current \in Calls \cup {NoCall}
    BY DEF PlaneInv, TypeOK
  <2> QED BY <1>1, <1>2, <2>1, <2>2, <2>3, DoneSame DEF PlaneInv, CommandShape, Truthful
<1>6. CallerShape'
  <2>1. \A d \in Calls : handler[d] \in {"none", "ended"} => handler'[d] = handler[d]
    BY <1>2
  <2> QED BY <1>1, <1>3, <2>1, DoneSame DEF PlaneInv, CallerShape, Truthful
<1>7. CloseShape'
  BY <1>1, <1>2 DEF PlaneInv, CloseShape
<1> QED BY <1>4, <1>5, <1>6, <1>7 DEF PlaneInv

\* The answer of a task tells the caller what it may conclude.
LEMMA DeliverOK ==
    ASSUME PlaneInv, NEW c \in Calls, Deliver(c)
    PROVE  PlaneInv'
<1>1. /\ handler[c] = "answered" /\ caller[c] = "waiting"
      /\ reply[c].kind \in Kinds /\ reply[c].state \in States /\ Truthful(c, reply[c])
      /\ handler' = [handler EXCEPT ![c] = "ended"] /\ handler'[c] = "ended"
      /\ reply' = [reply EXCEPT ![c] = NoReply]
      /\ UNCHANGED <<starter, workerVars, op, history>>
  BY DEF Deliver, PlaneInv, TypeOK, CommandShape
<1>2. CASE reply[c].kind = "ok"
  <2> DEFINE answer == Result("ok", reply[c].state, "worker")
  <2>1. /\ answer \in Results /\ answer.kind = "ok"
        /\ answer.state = reply[c].state /\ answer.source = "worker"
    BY <1>1, ResultsAreTyped DEF Kinds
  <2>2. Truthful(c, answer)
    BY <1>1, <1>2, <2>1 DEF Truthful
  <2>3. /\ caller' = [caller EXCEPT ![c] = "done"]
        /\ result' = [result EXCEPT ![c] = answer]
    BY <1>2 DEF Deliver
  <2>4. /\ op[c] = "act" => ~afterClose[c]
        /\ op[c] = "close" => state = "closed"
        /\ afterClose[c] /\ op[c] = "status" => answer.state = "closed"
    BY <1>1, <1>2, <2>1 DEF PlaneInv, CloseShape
  <2> HIDE DEF answer
  <2> QED BY <1>1, <2>1, <2>2, <2>3, <2>4, ToldOK
<1>3. CASE reply[c].kind # "ok"
  <2> DEFINE answer == Result(reply[c].kind, "open", "worker")
             place == IF op[c] = "act" THEN "done" ELSE "fallback"
  <2>1. /\ answer \in Results /\ answer.kind = reply[c].kind
        /\ answer.source = "worker"
    BY <1>1, ResultsAreTyped DEF States
  <2>2. Truthful(c, answer)
    BY <1>1, <2>1 DEF Truthful
  <2>3. /\ caller' = [caller EXCEPT ![c] = place]
        /\ result' = [result EXCEPT ![c] = answer]
        /\ place \in {"fallback", "done"}
        /\ place = "fallback" => op[c] # "act"
        /\ place = "done" => op[c] = "act"
    BY <1>3 DEF Deliver, Fail
  <2> HIDE DEF answer, place
  <2> QED BY <1>1, <1>3, <2>1, <2>2, <2>3, ToldOK
<1> QED BY <1>2, <1>3

LEMMA UnansweredOK ==
    ASSUME PlaneInv, NEW c \in Calls, Unanswered(c)
    PROVE  PlaneInv'
<1> DEFINE answer == Result("unknown", "open", "none")
           place == IF op[c] = "act" THEN "done" ELSE "fallback"
<1>1. /\ answer \in Results /\ answer.kind = "unknown" /\ answer.source = "none"
  BY ResultsAreTyped DEF Kinds, States
<1>2. /\ caller[c] \in {"connecting", "waiting"}
      /\ caller' = [caller EXCEPT ![c] = place]
      /\ result' = [result EXCEPT ![c] = answer]
      /\ place \in {"fallback", "done"}
      /\ place = "fallback" => op[c] # "act"
      /\ place = "done" => op[c] = "act"
      /\ handler' = handler /\ reply' = reply
      /\ UNCHANGED <<starter, workerVars, op, history>>
  BY DEF Unanswered, Fail
<1> HIDE DEF answer, place
<1> QED BY <1>1, <1>2, ToldOK

LEMMA FallbackOK ==
    ASSUME PlaneInv, NEW c \in Calls, Fallback(c)
    PROVE  PlaneInv'
<1>1. /\ caller[c] = "fallback" /\ caller' = [caller EXCEPT ![c] = "done"]
      /\ handler' = handler /\ reply' = reply /\ op[c] # "act"
      /\ UNCHANGED <<starter, workerVars, op, history>>
  BY DEF Fallback, PlaneInv, CallerShape
<1>2. /\ afterClose[c] => disk.state = "closed"
      /\ disk.state = "closed" => state = "closed"
      /\ disk.state \in States
  BY DEF PlaneInv, TypeOK, CloseShape
<1>3. CASE op[c] = "status" \/ disk.state = "closed"
  <2> DEFINE answer == Result("ok", disk.state, "file")
  <2>1. /\ answer \in Results /\ answer.kind = "ok"
        /\ answer.state = disk.state /\ answer.source = "file"
    BY <1>2, ResultsAreTyped DEF Kinds
  <2>2. result' = [result EXCEPT ![c] = answer]
    BY <1>3 DEF Fallback
  <2> HIDE DEF answer
  <2> QED BY <1>1, <1>2, <1>3, <2>1, <2>2, ToldOK
<1>4. CASE op[c] # "status" /\ disk.state # "closed"
  <2>1. result' = result
    BY <1>4 DEF Fallback
  <2>2. result' = [result EXCEPT ![c] = result[c]] /\ result[c] \in Results
    BY <2>1 DEF PlaneInv, TypeOK, Results
  <2>3. /\ result[c].source = "worker" => handler'[c] = "ended" /\ Truthful(c, result[c])
        /\ op[c] = "close" /\ result[c].kind = "ok" => state = "closed"
    BY <1>1 DEF PlaneInv, CallerShape, CloseShape
  <2> QED BY <1>1, <1>2, <1>4, <2>2, <2>3, ToldOK
<1> QED BY <1>3, <1>4

------------------------------------------------------------------------------
(* The theorems.                                                           *)

LEMMA StepOK == PlaneInv /\ [Next]_vars => PlaneInv'
<1> SUFFICES ASSUME PlaneInv, [Next]_vars PROVE PlaneInv'
  OBVIOUS
<1>1. CASE UNCHANGED vars
  BY <1>1, DoneSame DEF vars, workerVars, callVars, history, PlaneInv, TypeOK,
     CommandShape, CallerShape, CloseShape, Truthful
<1>2. CASE StartBegin \/ Starting \/ Boot
  BY <1>2, StartOK, DieOK DEF Starting
<1>3. CASE Crash \/ Exit
  BY <1>3, DieOK
<1>4. CASE NetStep
  BY <1>4, TakeOK, RefuseOK, SendOK, SendFailsOK, AcknowledgeOK DEF NetStep
<1>5. CASE LoadFails \/ RecordFails \/ ListenerFails \/ CommandsClosed
  BY <1>5, LoadFailsOK, ReturnsOK, ListenerFailsOK
<1>6. ASSUME NEW c \in Calls, Serve(c) \/ Ask(c) \/ Await(c)
      PROVE  PlaneInv'
  BY <1>6, AcceptOK, ServeOK, EnqueueOK, AskOK, ConnectOK, DeliverOK, UnansweredOK,
     FallbackOK DEF Serve, Await
<1> QED BY <1>1, <1>2, <1>3, <1>4, <1>5, <1>6 DEF Next

\* What the queue, the loop, the tasks and the callers know of a command fits
\* together in every reachable state.
THEOREM PlaneInvariance == Spec => []PlaneInv
BY InitOK, StepOK, PTL DEF Spec

\* Every variable of the control plane stays in its type; the queue within its
\* capacity.
THEOREM TypeCorrectness == Spec => []TypeOK
<1>1. PlaneInv => TypeOK
  BY DEF PlaneInv
<1> QED BY <1>1, PlaneInvariance, PTL

\* A call that begins when session.json says closed is told so.
THEOREM ClosedReported == Spec => []ClosedIsReported
<1>1. PlaneInv => ClosedIsReported
  <2> SUFFICES ASSUME PlaneInv, NEW c \in Calls, caller[c] = "done", afterClose[c]
               PROVE  CASE op[c] = "act"    -> result[c].kind # "ok"
                        [] op[c] = "close"  -> result[c].kind = "ok"
                        [] op[c] = "status" -> result[c].state = "closed"
    BY DEF ClosedIsReported
  <2>1. op[c] \in {"act", "close", "status"}
    BY DEF PlaneInv, TypeOK, CallerShape
  <2> QED BY <2>1 DEF PlaneInv, CloseShape
<1> QED BY <1>1, PlaneInvariance, PTL

\* Commands are performed by a loop that has not returned, and only then.
LEMMA EffectsGrow ==
    ASSUME PlaneInv, Next
    PROVE  \/ effects' = effects
           \/ /\ net = "sending" /\ effects' = Append(effects, current)
              /\ UNCHANGED <<op, caller, result>>
<1>1. CASE Send \/ SendFails
  BY <1>1 DEF Send, SendFails, Answer, callVars
<1>2. CASE StartBegin \/ Starting \/ Boot \/ Crash \/ Exit
  BY <1>2 DEF StartBegin, Starting, StartSeesExit, StartSeesPort, StartAnswered,
     StartUnanswered, StartExpires, Boot, Crash, Exit, Die, history
<1>3. CASE Take \/ Refuse \/ Acknowledge \/ LoadFails \/ RecordFails \/ ListenerFails
           \/ CommandsClosed
  BY <1>3 DEF Take, Refuse, Acknowledge, LoadFails, RecordFails, ListenerFails,
     CommandsClosed, history
<1>4. ASSUME NEW c \in Calls, Serve(c) \/ Ask(c) \/ Await(c)
      PROVE  effects' = effects
  BY <1>4 DEF Serve, Accept, ServeStatus, Enqueue, Stopping, Ask, Await, Connect,
     Deliver, Unanswered, Fallback, history
<1> QED BY <1>1, <1>2, <1>3, <1>4 DEF Next, NetStep

\* Once a caller has been told that its close succeeded no command is performed.
THEOREM NothingPerformedAfterClose == Spec => NothingAfterClose
<1>1. PlaneInv /\ [Next]_vars =>
        [(\E c \in Calls : op[c] = "close" /\ result[c].kind = "ok") =>
             effects' = effects]_vars
  <2> SUFFICES ASSUME PlaneInv, Next, NEW c \in Calls, op[c] = "close", result[c].kind = "ok"
               PROVE  effects' = effects
    OBVIOUS
  <2>1. net = "returned"
    BY DEF PlaneInv, CloseShape
  <2> QED BY <2>1, EffectsGrow
<1> QED BY <1>1, PlaneInvariance, PTL DEF Spec, NothingAfterClose

\* Only a calling process changes what it has been told, and only until it ends.
LEMMA OutcomesMove ==
    ASSUME PlaneInv, Next
    PROVE  \/ UNCHANGED <<op, caller, result>>
           \/ /\ effects' = effects
              /\ \E c \in Calls :
                   /\ caller[c] # "done"
                   /\ \A d \in Calls \ {c} : /\ op'[d] = op[d] /\ caller'[d] = caller[d]
                                             /\ result'[d] = result[d]
<1>1. CASE StartBegin \/ Starting \/ Boot \/ Crash \/ Exit
  BY <1>1 DEF StartBegin, Starting, StartSeesExit, StartSeesPort, StartAnswered,
     StartUnanswered, StartExpires, Boot, Crash, Exit, Die, callVars
<1>2. CASE NetStep \/ LoadFails \/ RecordFails \/ ListenerFails \/ CommandsClosed
  BY <1>2 DEF NetStep, Take, Refuse, Send, SendFails, Acknowledge, LoadFails,
     RecordFails, ListenerFails, CommandsClosed, Return, Answer, callVars
<1>3. ASSUME NEW c \in Calls, Serve(c)
      PROVE  UNCHANGED <<op, caller, result>>
  BY <1>3 DEF Serve, Accept, ServeStatus, Enqueue, Stopping, Answer
<1>4. ASSUME NEW c \in Calls, Ask(c) \/ Await(c)
      PROVE  /\ effects' = effects /\ caller[c] # "done"
             /\ \A d \in Calls \ {c} : /\ op'[d] = op[d] /\ caller'[d] = caller[d]
                                       /\ result'[d] = result[d]
  BY <1>4 DEF Ask, Await, Connect, Deliver, Unanswered, Fallback, Fail, history,
     PlaneInv, TypeOK
<1> QED BY <1>1, <1>2, <1>3, <1>4 DEF Next

\* A caller that has ended concludes nothing false.
LEMMA OutcomeIsTrue ==
    ASSUME PlaneInv, NEW c \in Calls
    PROVE  /\ OutcomeOf(c) \in {"none", "ok", "refused", "unknown"}
           /\ caller[c] # "done" => OutcomeOf(c) = "none"
           /\ OutcomeOf(c) = "ok" => Done(c)
           /\ OutcomeOf(c) = "refused" => ~Done(c) /\ handler[c] = "ended"
<1>1. result[c].kind \in {"none", "ok", "refused", "unknown"}
  BY DEF PlaneInv, TypeOK, Kinds
<1> QED BY <1>1 DEF OutcomeOf, PlaneInv, CallerShape, Truthful

LEMMA CallsInit == Init => LocalCall!Init
BY DEF Init, LocalCall!Init, OutcomeOf

\* Every step of the control plane performs a command, tells one caller, or is
\* none of a caller's business.
LEMMA CallsStep ==
    PlaneInv /\ PlaneInv' /\ [Next]_vars =>
        [LocalCall!Next]_<<effects, [c \in Calls |-> OutcomeOf(c)]>>
<1> SUFFICES ASSUME PlaneInv, PlaneInv', [Next]_vars
             PROVE  \/ LocalCall!Next
                    \/ UNCHANGED <<effects, [c \in Calls |-> OutcomeOf(c)]>>
  OBVIOUS
<1>1. CASE UNCHANGED vars
  BY <1>1 DEF vars, callVars, history, OutcomeOf
<1>2. CASE Next /\ UNCHANGED <<op, caller, result>>
  <2>1. [c \in Calls |-> OutcomeOf(c)]' = [c \in Calls |-> OutcomeOf(c)]
    BY <1>2 DEF OutcomeOf
  <2>2. CASE effects' = effects
    BY <2>1, <2>2
  <2>3. CASE net = "sending" /\ effects' = Append(effects, current)
    <3>1. current \in Calls /\ handler[current] = "queued" /\ ~Done(current)
      BY <2>3, QueueAssumption DEF PlaneInv, TypeOK, CommandShape
    <3>2. OutcomeOf(current) \in {"none", "unknown"}
      BY <3>1, OutcomeIsTrue DEF Truthful, OutcomeOf, PlaneInv, CallerShape
    <3>3. LocalCall!Perform(current)
      BY <2>1, <2>3, <3>1, <3>2 DEF LocalCall!Perform, LocalCall!Performed, Done
    <3> QED BY <3>1, <3>3 DEF LocalCall!Next
  <2> QED BY <1>2, <2>2, <2>3, EffectsGrow
<1>3. CASE /\ effects' = effects
           /\ \E c \in Calls :
                /\ caller[c] # "done"
                /\ \A d \in Calls \ {c} : /\ op'[d] = op[d] /\ caller'[d] = caller[d]
                                          /\ result'[d] = result[d]
  <2>1. PICK c \in Calls :
          /\ caller[c] # "done"
          /\ \A d \in Calls \ {c} : /\ op'[d] = op[d] /\ caller'[d] = caller[d]
                                    /\ result'[d] = result[d]
    BY <1>3
  <2>2. OutcomeOf(c) = "none"
    BY <2>1, OutcomeIsTrue
  <2>3. \A d \in Calls \ {c} : OutcomeOf(d)' = OutcomeOf(d)
    BY <2>1 DEF OutcomeOf
  <2>4. /\ OutcomeOf(c)' \in {"none", "ok", "refused", "unknown"}
        /\ OutcomeOf(c)' = "ok" => Done(c)
        /\ OutcomeOf(c)' = "refused" => ~Done(c)
    <3>1. result'[c].kind \in {"none", "ok", "refused", "unknown"}
      BY DEF PlaneInv, TypeOK, Kinds
    <3>2. Done(c)' <=> Done(c)
      BY <1>3, DoneSame
    <3> QED BY <3>1, <3>2 DEF OutcomeOf, PlaneInv, CallerShape, Truthful
  <2>5. [d \in Calls |-> OutcomeOf(d)]' =
          [[d \in Calls |-> OutcomeOf(d)] EXCEPT ![c] = OutcomeOf(c)']
    BY <2>3
  <2>6. CASE OutcomeOf(c)' = "none"
    BY <1>3, <2>2, <2>5, <2>6
  <2>7. CASE OutcomeOf(c)' # "none"
    <3>1. LocalCall!Report(c)
      BY <1>3, <2>2, <2>4, <2>5, <2>7 DEF LocalCall!Report, LocalCall!Performed, Done
    <3> QED BY <3>1 DEF LocalCall!Next
  <2> QED BY <2>6, <2>7
<1> QED BY <1>1, <1>2, <1>3, OutcomesMove

\* A command is performed at most once, one that was acknowledged has been, and
\* one that was refused never will be.
THEOREM Refinement == Spec => ImplementsLocalCalls
BY CallsInit, CallsStep, PlaneInvariance, PTL
DEF Spec, ImplementsLocalCalls, LocalCall!Spec
===============================================================================
