---------------------------- MODULE EventLogProofs ----------------------------
(***************************************************************************)
(* LogInv is an inductive invariant of EventLog for any set of readers and *)
(* any number of events, and EventLog implements EventStream: each reader  *)
(* receives each event once and in order.                                  *)
(***************************************************************************)
EXTENDS EventLog, SequenceTheorems, TLAPS

------------------------------------------------------------------------------
(* Numbered sequences.                                                     *)

\* The filter of read_events_after, on a numbered log, cuts at the cursor.
LEMMA SuffixAtCursor ==
    ASSUME NEW after \in Nat, log \in Seq(Cursors), Numbered(log),
           after <= Len(log)
    PROVE  EventsAfter(after) = SubSeq(log, after + 1, Len(log))
<1> DEFINE n == Len(log)
           Cuts(k) == /\ \A i \in 1 .. k : log[i] <= after
                      /\ \A i \in k + 1 .. n : log[i] > after
<1>1. n \in Nat /\ \A i \in 1 .. n : log[i] = i
  BY DEF Numbered
<1>2. EventsAfter(after) = SubSeq(log, (CHOOSE k \in 0 .. n : Cuts(k)) + 1, n)
  BY DEF EventsAfter
<1>3. after <= n
  OBVIOUS
<1> HIDE DEF n
<1>4. after \in 0 .. n /\ Cuts(after)
  BY <1>1, <1>3
<1>5. ASSUME NEW k \in 0 .. n, Cuts(k)
      PROVE  k = after
  <2>1. CASE k < after
    <3>1. k + 1 \in 1 .. n /\ k + 1 \in k + 1 .. n
      BY <2>1, <1>3, <1>1
    <3>2. log[k + 1] = k + 1 /\ log[k + 1] > after
      BY <3>1, <1>1, <1>5
    <3> QED
      BY <3>2, <2>1
  <2>2. CASE k > after
    <3>1. after + 1 \in 1 .. k /\ after + 1 \in 1 .. n
      BY <2>2, <1>1
    <3>2. log[after + 1] = after + 1 /\ log[after + 1] <= after
      BY <3>1, <1>1, <1>5
    <3> QED
      BY <3>2
  <2> QED
    BY <2>1, <2>2
<1>6. (CHOOSE k \in 0 .. n : Cuts(k)) = after
  <2> HIDE DEF Cuts
  <2> QED
    BY <1>4, <1>5
<1> QED
  BY <1>2, <1>6 DEF n

\* What was received and what follows its last cursor is the whole log.
LEMMA CatchUp ==
    ASSUME NEW s \in Seq(Cursors), NEW t \in Seq(Cursors),
           Numbered(s), Numbered(t), Len(t) <= Len(s),
           NEW found, found = SubSeq(s, Len(t) + 1, Len(s))
    PROVE  /\ t \o found = s
           /\ found = <<>> => Len(t) = Len(s)
           /\ found # <<>> => found[Len(found)] = Len(s)
<1> DEFINE m == Len(t)
           n == Len(s)
<1>1. m \in Nat /\ n \in Nat /\ m <= n
  OBVIOUS
<1>2. /\ found \in Seq(Cursors) /\ Len(found) = n - m
      /\ \A i \in 1 .. n - m : found[i] = s[m + i]
  BY <1>1
<1>3. /\ \A i \in 1 .. n : s[i] = i
      /\ \A i \in 1 .. m : t[i] = i
  BY DEF Numbered
<1>4. /\ t \o found \in Seq(Cursors) /\ Len(t \o found) = m + Len(found)
      /\ \A i \in 1 .. m + Len(found) :
           (t \o found)[i] = IF i <= m THEN t[i] ELSE found[i - m]
  BY <1>2, ConcatProperties
<1> HIDE DEF m, n
<1>5. m + Len(found) = n
  BY <1>1, <1>2
<1>6. \A i \in 1 .. n : (t \o found)[i] = s[i]
  <2> SUFFICES ASSUME NEW i \in 1 .. n PROVE (t \o found)[i] = s[i]
    OBVIOUS
  <2>1. CASE i <= m
    <3>1. i \in 1 .. m
      BY <2>1, <1>1
    <3> QED
      BY <2>1, <3>1, <1>3, <1>4, <1>5
  <2>2. CASE ~(i <= m)
    <3>1. i - m \in 1 .. n - m /\ m + (i - m) = i
      BY <2>2, <1>1
    <3>2. found[i - m] = s[i]
      BY <3>1, <1>2
    <3> QED
      BY <2>2, <3>2, <1>4, <1>5
  <2> QED
    BY <2>1, <2>2
<1>7. t \o found = s
  BY <1>4, <1>5, <1>6, SeqEqual DEF n
<1>8. ASSUME found = <<>>
      PROVE  m = n
  <2>1. Len(found) = 0
    BY <1>2, <1>8, EmptySeq
  <2> QED
    BY <2>1, <1>1, <1>2
<1>9. ASSUME found # <<>>
      PROVE  found[Len(found)] = n
  <2>1. Len(found) # 0
    BY <1>9, <1>2, EmptySeq
  <2> DEFINE k == Len(found)
  <2>2. k # 0 /\ k = n - m
    BY <2>1, <1>2
  <2> HIDE DEF k
  <2>3. k \in 1 .. n - m /\ m + k = n /\ n \in 1 .. n
    BY <2>2, <1>1
  <2>4. found[k] = s[m + k]
    BY <2>3, <1>2
  <2> QED
    BY <2>3, <2>4, <1>3 DEF k
<1> QED
  BY <1>7, <1>8, <1>9 DEF m, n

------------------------------------------------------------------------------
(* The two halves of LogInv: what the worker writes, what the callers hold. *)

WriterTypes ==
    /\ alive \in BOOLEAN /\ torn \in BOOLEAN
    /\ rec \in RecordPlaces
    /\ mem \in [cursor : Cursors, status : Statuses]
    /\ disk \in [cursor : Cursors, status : Statuses]
    /\ log \in Seq(Cursors)

WriterShape == WriterTypes /\ LogFollowsCursor /\ ClosedLogIsComplete

ReaderTypes ==
    /\ at \in [Readers -> ReaderPlaces]
    /\ deadline \in [Readers -> {"none", "ahead", "passed"}]
    /\ seen \in [Readers -> Statuses]
    /\ cursor \in [Readers -> Cursors]
    /\ received \in [Readers -> Seq(Cursors)]
    /\ answer \in [Readers -> [source : Sources, status : Statuses]]
    /\ floor \in [Readers -> Cursors]

ReaderShape ==
    ReaderTypes /\ ReadersFollowLog /\ ClosedAnswerIsFinal /\ AnswersAreFresh

\* LogInv is exactly these two halves, before and after a step.
LEMMA LogInvSplits ==
    /\ LogInv <=> WriterShape /\ ReaderShape
    /\ LogInv' <=> WriterShape' /\ ReaderShape'
BY DEF LogInv, TypeOK, WriterShape, WriterTypes, ReaderShape, ReaderTypes

\* At start nothing is recorded and nobody has asked.
LEMMA InitOK == Init => LogInv
<1> SUFFICES ASSUME Init PROVE LogInv
  OBVIOUS
<1>1. 0 \in Cursors /\ <<>> \in Seq(Cursors)
  BY EventsAssumption DEF Cursors
<1>2. alive \in BOOLEAN /\ torn \in BOOLEAN
  BY DEF Init
<1>3. WriterShape
  BY <1>1, <1>2
  DEF Init, WriterShape, WriterTypes, RecordPlaces, Statuses, LogFollowsCursor,
      ClosedLogIsComplete, Numbered
<1>4. ReaderTypes
  BY <1>1 DEF Init, ReaderTypes, ReaderPlaces, Statuses, Sources, NoAnswer
<1>5. ReadersFollowLog /\ ClosedAnswerIsFinal /\ AnswersAreFresh
  BY DEF Init, ReadersFollowLog, ClosedAnswerIsFinal, AnswersAreFresh, NoAnswer, Numbered
<1> QED
  BY <1>3, <1>4, <1>5, LogInvSplits DEF ReaderShape

------------------------------------------------------------------------------
(* The worker's steps.                                                     *)

\* A closed status is never taken back.
LEMMA ClosedIsFinal ==
    ASSUME LogInv, WriterStep \/ Crash, mem.status = "closed"
    PROVE  mem' = mem /\ log' = log
<1>1. rec = "returned"
  BY DEF LogInv, LogFollowsCursor
<1> QED
  BY <1>1 DEF WriterStep, Recording, BeginRecord, BeginLine, EndLine, EndRecord,
              AppendFails, Update, Close, Return, Exit, Crash

\* The log grows by one event, the one the cursor counts, or not at all.
LEMMA LogGrows ==
    ASSUME LogInv, WriterStep \/ Crash
    PROVE  \/ log' = log
           \/ EndLine /\ log' = Append(log, Len(log) + 1)
<1>1. CASE EndLine
  <2>1. mem.cursor = Len(log) + 1
    BY <1>1 DEF EndLine, LogInv, LogFollowsCursor
  <2> QED
    BY <1>1, <2>1 DEF EndLine
<1>2. CASE ~EndLine
  BY <1>2 DEF WriterStep, Recording, BeginRecord, BeginLine, EndRecord,
              AppendFails, Update, Close, Return, Exit, Crash
<1> QED
  BY <1>1, <1>2

\* What the worker writes stays in order.
LEMMA WriterShapeOK == LogInv /\ (WriterStep \/ Crash) => WriterShape'
<1> SUFFICES ASSUME LogInv, WriterStep \/ Crash PROVE WriterShape'
  OBVIOUS
<1>1. WriterShape
  BY LogInvSplits
<1> DEFINE n == Len(log)
<1>2. n \in Nat /\ mem.cursor \in Nat /\ disk.cursor \in Nat
  BY <1>1 DEF WriterShape, WriterTypes, Cursors
<1>3. CASE BeginRecord
  <2> DEFINE next == [mem EXCEPT !.cursor = @ + 1]
             failed == [next EXCEPT !.status = "failed"]
  <2>1. /\ rec = "idle" /\ mem.status = "live" /\ mem.cursor < MaxEvents
        /\ UNCHANGED <<alive, log, torn>>
        /\ \/ mem' = next /\ disk' = next /\ rec' = "begun"
           \/ mem' = failed /\ disk' \in {failed, disk} /\ rec' = "returned"
    BY <1>3 DEF BeginRecord, Bump, FailAndReturn, Persist, readerVars
  <2>2. /\ next \in [cursor : Cursors, status : Statuses]
        /\ failed \in [cursor : Cursors, status : Statuses]
        /\ next.cursor = mem.cursor + 1 /\ next.status = "live"
        /\ failed.cursor = mem.cursor + 1 /\ failed.status = "failed"
    <3>1. mem \in [cursor : Cursors, status : Statuses]
      BY <1>1 DEF WriterShape, WriterTypes
    <3>2. mem.cursor + 1 \in Cursors
      BY <2>1, <3>1, EventsAssumption DEF Cursors
    <3>3. /\ next \in [cursor : Cursors, status : Statuses]
          /\ next.cursor = mem.cursor + 1 /\ next.status = mem.status
      BY <3>1, <3>2
    <3> HIDE DEF next
    <3> QED
      BY <2>1, <3>3 DEF Statuses
  <2>3. WriterTypes'
    BY <1>1, <2>1, <2>2 DEF WriterShape, WriterTypes, RecordPlaces
  <2> HIDE DEF next, failed
  <2>4. LogFollowsCursor'
    BY <1>1, <1>2, <2>1, <2>2 DEF WriterShape, LogFollowsCursor, Numbered
  <2>5. ClosedLogIsComplete'
    BY <2>1, <2>2 DEF ClosedLogIsComplete
  <2> QED
    BY <2>3, <2>4, <2>5 DEF WriterShape
<1>4. CASE BeginLine
  <2>1. rec = "begun" /\ rec' = "writing" /\ torn' = TRUE
        /\ UNCHANGED <<alive, mem, disk, log>>
    BY <1>4 DEF BeginLine
  <2>2. torn' \in BOOLEAN
    BY <2>1
  <2>3. WriterTypes'
    BY <1>1, <2>1, <2>2 DEF WriterShape, WriterTypes, RecordPlaces
  <2>4. LogFollowsCursor' /\ ClosedLogIsComplete'
    BY <1>1, <2>1 DEF WriterShape, LogFollowsCursor, ClosedLogIsComplete, Numbered
  <2> QED
    BY <2>3, <2>4 DEF WriterShape
<1>5. CASE EndLine
  <2>1. /\ rec = "writing" /\ rec' = "written" /\ torn' = FALSE
        /\ log' = Append(log, n + 1) /\ mem.cursor = n + 1
        /\ UNCHANGED <<alive, mem, disk>>
    BY <1>5, LogGrows, <1>1 DEF EndLine, WriterShape, LogFollowsCursor
  <2>2. torn' \in BOOLEAN
    BY <2>1
  <2>3. /\ log' \in Seq(Cursors) /\ Len(log') = n + 1 /\ log'[n + 1] = n + 1
        /\ \A i \in 1 .. n : log'[i] = log[i]
    BY <1>1, <2>1 DEF WriterShape, WriterTypes
  <2>4. WriterTypes'
    BY <1>1, <2>1, <2>2, <2>3 DEF WriterShape, WriterTypes, RecordPlaces
  <2>5. Numbered(log)'
    BY <1>1, <1>2, <2>3 DEF WriterShape, LogFollowsCursor, Numbered
  <2> HIDE DEF n
  <2>6. LogFollowsCursor' /\ ClosedLogIsComplete'
    BY <1>1, <1>2, <2>1, <2>3, <2>5
    DEF WriterShape, LogFollowsCursor, ClosedLogIsComplete
  <2> QED
    BY <2>4, <2>6 DEF WriterShape
<1>6. CASE AppendFails
  <2> DEFINE failed == [mem EXCEPT !.status = "failed"]
  <2>1. /\ rec \in {"begun", "writing", "written"} /\ rec' = "returned"
        /\ mem' = failed /\ disk' \in {failed, disk}
        /\ UNCHANGED <<alive, log, torn>>
    BY <1>6 DEF AppendFails, FailAndReturn, Persist
  <2>2. /\ failed \in [cursor : Cursors, status : Statuses]
        /\ failed.cursor = mem.cursor /\ failed.status = "failed"
    BY <1>1 DEF WriterShape, WriterTypes, Statuses
  <2>3. WriterTypes'
    BY <1>1, <2>1, <2>2 DEF WriterShape, WriterTypes, RecordPlaces
  <2> HIDE DEF failed
  <2>4. LogFollowsCursor' /\ ClosedLogIsComplete'
    BY <1>1, <1>2, <2>1, <2>2
    DEF WriterShape, LogFollowsCursor, ClosedLogIsComplete, Numbered
  <2> QED
    BY <2>3, <2>4 DEF WriterShape
<1>7. CASE EndRecord \/ Return \/ Exit \/ Crash
  <2>1. /\ UNCHANGED <<mem, disk, log, torn>>
        /\ alive' = alive \/ alive' = FALSE
        /\ \/ rec' = rec
           \/ rec = "written" /\ rec' = "idle"
           \/ rec = "idle" /\ rec' = "returned"
    BY <1>7 DEF EndRecord, Return, Exit, Crash
  <2>2. alive' \in BOOLEAN
    BY <1>1, <2>1 DEF WriterShape, WriterTypes
  <2>3. WriterTypes'
    BY <1>1, <2>1, <2>2 DEF WriterShape, WriterTypes, RecordPlaces
  <2>4. LogFollowsCursor' /\ ClosedLogIsComplete'
    BY <1>1, <1>2, <2>1
    DEF WriterShape, LogFollowsCursor, ClosedLogIsComplete, Numbered
  <2> QED
    BY <2>3, <2>4 DEF WriterShape
<1>8. CASE Update \/ Close
  <2>1. /\ rec = "idle" /\ UNCHANGED <<alive, log, torn>>
        /\ \E status \in Statuses :
             /\ mem' = [mem EXCEPT !.status = status]
             /\ IF status = "closed" THEN rec' = "returned" ELSE rec' = rec
        /\ disk' \in {mem', disk}
    BY <1>8 DEF Update, Close, Persist, Statuses
  <2>2. /\ mem' \in [cursor : Cursors, status : Statuses]
        /\ mem'.cursor = mem.cursor
        /\ IF mem'.status = "closed" THEN rec' = "returned" ELSE rec' = rec
    BY <1>1, <2>1 DEF WriterShape, WriterTypes
  <2>3. WriterTypes'
    BY <1>1, <2>1, <2>2 DEF WriterShape, WriterTypes, RecordPlaces
  <2>4. LogFollowsCursor' /\ ClosedLogIsComplete'
    BY <1>1, <1>2, <2>1, <2>2
    DEF WriterShape, LogFollowsCursor, ClosedLogIsComplete, Numbered
  <2> QED
    BY <2>3, <2>4 DEF WriterShape
<1> QED
  BY <1>3, <1>4, <1>5, <1>6, <1>7, <1>8 DEF WriterStep, Recording

\* The worker's steps wake waiting callers and touch nothing else of theirs.
LEMMA WriterLeavesReaders ==
    ASSUME LogInv, WriterStep \/ Crash
    PROVE  /\ UNCHANGED <<deadline, seen, cursor, received, answer, floor>>
           /\ \/ at' = at
              \/ at' = [r \in Readers |-> IF at[r] = "waiting" THEN "asked" ELSE at[r]]
BY DEF WriterStep, Recording, BeginRecord, Bump, FailAndReturn, NotifyWaiters,
       BeginLine, EndLine, EndRecord, AppendFails, Update, Close, Return, Exit,
       Crash, readerVars

\* What callers hold survives the worker's steps: the log only grows and a closed
\* session changes no more.
LEMMA WriterKeepsReaders == LogInv /\ (WriterStep \/ Crash) => ReaderShape'
<1> SUFFICES ASSUME LogInv, WriterStep \/ Crash PROVE ReaderShape'
  OBVIOUS
<1>1. WriterShape /\ ReaderShape
  BY LogInvSplits
<1>2. UNCHANGED <<deadline, seen, cursor, received, answer, floor>>
  BY WriterLeavesReaders
<1>3. ASSUME NEW r \in Readers
      PROVE  /\ at[r] \in ReaderPlaces /\ at'[r] \in ReaderPlaces
             /\ at'[r] = at[r] \/ (at[r] = "waiting" /\ at'[r] = "asked")
  BY <1>1, WriterLeavesReaders DEF ReaderShape, ReaderTypes, ReaderPlaces
<1>4. ReaderTypes'
  <2>1. at' \in [Readers -> ReaderPlaces]
    <3>1. at \in [Readers -> ReaderPlaces]
      BY <1>1 DEF ReaderShape, ReaderTypes
    <3> QED
      BY <3>1, WriterLeavesReaders DEF ReaderPlaces
  <2> QED
    BY <1>1, <1>2, <2>1 DEF ReaderShape, ReaderTypes
<1>5. mem.status = "closed" => mem' = mem /\ log' = log
  BY ClosedIsFinal
<1>6. Len(log) \in Nat /\ Len(log') \in Nat /\ Len(log) <= Len(log')
  <2>1. log \in Seq(Cursors) /\ log' \in Seq(Cursors)
    BY <1>1, WriterShapeOK DEF WriterShape, WriterTypes
  <2>2. CASE log' = log
    BY <2>1, <2>2
  <2>3. CASE log' = Append(log, Len(log) + 1)
    BY <2>1, <2>3
  <2> QED
    BY <2>2, <2>3, LogGrows
<1>7. ReadersFollowLog'
  <2> SUFFICES ASSUME NEW r \in Readers
               PROVE  /\ Numbered(received[r])' /\ Len(received'[r]) = cursor'[r]
                      /\ cursor'[r] <= Len(log') /\ floor'[r] <= Len(log')
                      /\ at'[r] \in {"snapped", "metadata"} /\ seen'[r] = "closed" =>
                             mem'.status = "closed"
                      /\ at'[r] # "idle" => answer'[r] = NoAnswer
                      /\ answer'[r].source # "none" /\ answer'[r].status = "closed" =>
                             mem'.status = "closed"
    BY DEF ReadersFollowLog
  <2>1. Numbered(received[r])' /\ Len(received'[r]) = cursor'[r]
    BY <1>1, <1>2 DEF ReaderShape, ReadersFollowLog, Numbered
  <2>2. cursor'[r] <= Len(log') /\ floor'[r] <= Len(log')
    <3>1. /\ cursor[r] \in Nat /\ floor[r] \in Nat
          /\ cursor[r] <= Len(log) /\ floor[r] <= Len(log)
      BY <1>1 DEF ReaderShape, ReaderTypes, ReadersFollowLog, Cursors
    <3> QED
      BY <3>1, <1>2, <1>6
  <2>3. /\ at'[r] \in {"snapped", "metadata"} /\ seen'[r] = "closed" =>
               mem'.status = "closed"
        /\ answer'[r].source # "none" /\ answer'[r].status = "closed" =>
               mem'.status = "closed"
    BY <1>1, <1>2, <1>3, <1>5 DEF ReaderShape, ReadersFollowLog
  <2>4. at'[r] # "idle" => answer'[r] = NoAnswer
    BY <1>1, <1>2, <1>3 DEF ReaderShape, ReadersFollowLog
  <2> QED
    BY <2>1, <2>2, <2>3, <2>4
<1>8. ClosedAnswerIsFinal'
  BY <1>1, <1>2, <1>5 DEF ReaderShape, ReadersFollowLog, ClosedAnswerIsFinal
<1>9. AnswersAreFresh'
  BY <1>1, <1>2, <1>3 DEF ReaderShape, AnswersAreFresh
<1> QED
  BY <1>4, <1>7, <1>8, <1>9 DEF ReaderShape

------------------------------------------------------------------------------
(* The callers' steps.                                                     *)

ReaderStep(r) == Ask(r) \/ Call(r) \/ Expire(r) \/ Unanswered(r) \/ Abandon(r)

\* A caller that gets an answer has caught up with the log.
LEMMA AnswerCatchesUp ==
    ASSUME LogInv, NEW r \in Readers, NEW source \in {"worker", "file"},
           Answer(r, EventsAfter(cursor[r]), source, seen[r])
    PROVE  /\ at' = [at EXCEPT ![r] = "idle"]
           /\ received' = [received EXCEPT ![r] = log]
           /\ cursor' = [cursor EXCEPT ![r] = Len(log)]
           /\ answer' = [answer EXCEPT ![r] = [source |-> source, status |-> seen[r]]]
<1> DEFINE found == EventsAfter(cursor[r])
<1>1. /\ log \in Seq(Cursors) /\ Numbered(log)
      /\ received[r] \in Seq(Cursors) /\ Numbered(received[r])
      /\ cursor[r] \in Nat /\ cursor[r] = Len(received[r])
      /\ cursor[r] <= Len(log)
  BY LogInvSplits
  DEF WriterShape, WriterTypes, LogFollowsCursor, ReaderShape, ReaderTypes,
      ReadersFollowLog, Cursors
<1>2. found = SubSeq(log, cursor[r] + 1, Len(log))
  BY <1>1, SuffixAtCursor
<1> HIDE DEF found
<1>3. /\ received[r] \o found = log
      /\ found = <<>> => cursor[r] = Len(log)
      /\ found # <<>> => found[Len(found)] = Len(log)
  BY <1>1, <1>2, CatchUp
<1>4. /\ received' = [received EXCEPT ![r] = received[r] \o found]
      /\ cursor' = [cursor EXCEPT
           ![r] = IF found = <<>> THEN cursor[r] ELSE found[Len(found)]]
  BY DEF Answer, found
<1>5. (IF found = <<>> THEN cursor[r] ELSE found[Len(found)]) = Len(log)
  BY <1>3
<1> QED
  BY <1>3, <1>4, <1>5 DEF Answer, Goto

\* What a call's step leaves behind, in the terms ReadersFollowLog speaks: it
\* stays in the call, or ends it without an answer, or hands out the whole log.
ReaderEffect(r) ==
    \/ /\ UNCHANGED <<cursor, received>>
       /\ \E place \in ReaderPlaces \ {"snapped", "metadata"} :
            at' = [at EXCEPT ![r] = place]
       /\ UNCHANGED <<seen, floor>>
       /\ answer' = answer /\ at[r] # "idle"
    \/ /\ UNCHANGED <<at, cursor, received, seen, floor, answer>>
    \/ /\ UNCHANGED <<cursor, received, answer, floor>>
       /\ \E place \in {"snapped", "metadata"}, status \in Statuses :
            /\ at' = [at EXCEPT ![r] = place]
            /\ seen' = [seen EXCEPT ![r] = status]
            /\ status = "closed" => mem.status = "closed"
       /\ at[r] # "idle"
    \/ /\ UNCHANGED <<cursor, received>>
       /\ at' = [at EXCEPT ![r] = "asked"]
       /\ seen' = [seen EXCEPT ![r] = "live"]
       /\ answer' = [answer EXCEPT ![r] = NoAnswer]
       /\ floor' = [floor EXCEPT ![r] = Len(log)]
    \/ /\ at[r] \in {"snapped", "metadata"}
       /\ at' = [at EXCEPT ![r] = "idle"]
       /\ received' = [received EXCEPT ![r] = log]
       /\ cursor' = [cursor EXCEPT ![r] = Len(log)]
       /\ \E source \in {"worker", "file"} :
            answer' = [answer EXCEPT ![r] = [source |-> source, status |-> seen[r]]]
       /\ UNCHANGED <<seen, floor>>

\* Every step of a caller is one of these five and writes nothing of the
\* worker's.
LEMMA ReaderStepEffect ==
    ASSUME LogInv, NEW r \in Readers, ReaderStep(r)
    PROVE  /\ UNCHANGED writerVars
           /\ deadline' \in [Readers -> {"none", "ahead", "passed"}]
           /\ ReaderEffect(r)
<1>1. WriterShape /\ ReaderShape
  BY LogInvSplits
<1>2. /\ deadline \in [Readers -> {"none", "ahead", "passed"}]
      /\ mem.status \in Statuses /\ disk.status \in Statuses
  BY <1>1 DEF WriterShape, WriterTypes, ReaderShape, ReaderTypes
<1>3. CASE Ask(r)
  <2>1. PICK d \in {"none", "ahead"} : deadline' = [deadline EXCEPT ![r] = d]
    BY <1>3 DEF Ask
  <2> QED
    BY <1>2, <1>3, <2>1 DEF Ask, Goto, ReaderEffect
<1>4. CASE Snapshot(r)
  BY <1>2, <1>4 DEF Snapshot, Goto, ReaderEffect
<1>5. CASE ReadTorn(r) \/ Arm(r) \/ Wake(r) \/ Unanswered(r) \/ Abandon(r)
  BY <1>2, <1>5 DEF ReadTorn, Arm, Wake, Unanswered, Abandon, Goto, ReaderEffect,
                    ReaderPlaces
<1>6. CASE ReadLog(r)
  <2>1. /\ UNCHANGED <<writerVars, deadline, seen, floor>> /\ at[r] = "snapped"
        /\ \/ Answer(r, EventsAfter(cursor[r]), "worker", seen[r])
           \/ Goto(r, "arming") /\ UNCHANGED <<cursor, received, answer>>
    BY <1>6 DEF ReadLog
  <2>2. CASE Answer(r, EventsAfter(cursor[r]), "worker", seen[r])
    <3>1. /\ at' = [at EXCEPT ![r] = "idle"]
          /\ received' = [received EXCEPT ![r] = log]
          /\ cursor' = [cursor EXCEPT ![r] = Len(log)]
          /\ answer' = [answer EXCEPT ![r] = [source |-> "worker", status |-> seen[r]]]
      BY <2>2, AnswerCatchesUp
    <3> QED
      BY <1>2, <2>1, <3>1 DEF ReaderEffect
  <2>3. CASE Goto(r, "arming") /\ UNCHANGED <<cursor, received, answer>>
    BY <1>2, <2>1, <2>3 DEF ReaderEffect, Goto, ReaderPlaces
  <2> QED
    BY <2>1, <2>2, <2>3
<1>7. CASE ReadMetadata(r)
  <2>1. disk.status = "closed" => mem.status = "closed"
    BY <1>1 DEF WriterShape, LogFollowsCursor
  <2> QED
    BY <1>2, <1>7, <2>1 DEF ReadMetadata, Goto, ReaderEffect
<1>8. CASE ReadFile(r)
  <2>1. /\ UNCHANGED <<writerVars, deadline, seen, floor>> /\ at[r] = "metadata"
        /\ \/ Goto(r, "idle") /\ UNCHANGED <<cursor, received, answer>>
           \/ Answer(r, EventsAfter(cursor[r]), "file", seen[r])
    BY <1>8 DEF ReadFile
  <2>2. CASE Answer(r, EventsAfter(cursor[r]), "file", seen[r])
    <3>1. /\ at' = [at EXCEPT ![r] = "idle"]
          /\ received' = [received EXCEPT ![r] = log]
          /\ cursor' = [cursor EXCEPT ![r] = Len(log)]
          /\ answer' = [answer EXCEPT ![r] = [source |-> "file", status |-> seen[r]]]
      BY <2>2, AnswerCatchesUp
    <3> QED
      BY <1>2, <2>1, <3>1 DEF ReaderEffect
  <2>3. CASE Goto(r, "idle") /\ UNCHANGED <<cursor, received, answer>>
    BY <1>2, <2>1, <2>3 DEF ReaderEffect, Goto, ReaderPlaces
  <2> QED
    BY <2>1, <2>2, <2>3
<1>9. CASE Expire(r)
  BY <1>2, <1>9 DEF Expire, ReaderEffect
<1> QED
  BY <1>3, <1>4, <1>5, <1>6, <1>7, <1>8, <1>9 DEF ReaderStep, Call

\* A caller's step keeps what the callers hold.
LEMMA ReaderKeepsReaders ==
    ASSUME LogInv, NEW r \in Readers, ReaderStep(r)
    PROVE  ReaderShape'
<1>1. WriterShape /\ ReaderShape
  BY LogInvSplits
<1>2. /\ UNCHANGED writerVars
      /\ deadline' \in [Readers -> {"none", "ahead", "passed"}]
      /\ ReaderEffect(r)
  BY ReaderStepEffect
<1>3. mem' = mem /\ log' = log
  BY <1>2 DEF writerVars
<1>4. /\ log \in Seq(Cursors) /\ Len(log) \in Cursors /\ Numbered(log)
      /\ Len(log) \in Nat
  <2>1. /\ log \in Seq(Cursors) /\ Numbered(log) /\ Len(log) <= disk.cursor
        /\ disk.cursor \in 0 .. MaxEvents
    BY <1>1 DEF WriterShape, WriterTypes, LogFollowsCursor, Cursors
  <2> QED
    BY <2>1, EventsAssumption DEF Cursors
<1>5. ReaderTypes /\ NoAnswer \in [source : Sources, status : Statuses]
  BY <1>1 DEF ReaderShape, NoAnswer, Sources, Statuses
<1>6. ReaderTypes'
  <2>1. at' \in [Readers -> ReaderPlaces]
    BY <1>2, <1>5 DEF ReaderEffect, ReaderTypes, ReaderPlaces
  <2>2. seen' \in [Readers -> Statuses]
    BY <1>2, <1>5 DEF ReaderEffect, ReaderTypes, Statuses
  <2>3. cursor' \in [Readers -> Cursors]
    BY <1>2, <1>4, <1>5 DEF ReaderEffect, ReaderTypes
  <2>4. received' \in [Readers -> Seq(Cursors)]
    BY <1>2, <1>4, <1>5 DEF ReaderEffect, ReaderTypes
  <2>6. floor' \in [Readers -> Cursors]
    BY <1>2, <1>4, <1>5 DEF ReaderEffect, ReaderTypes
  <2>5. answer' \in [Readers -> [source : Sources, status : Statuses]]
    BY <1>2, <1>5 DEF ReaderEffect, ReaderTypes, Sources
  <2> QED
    BY <1>2, <2>1, <2>2, <2>3, <2>4, <2>5, <2>6 DEF ReaderTypes
<1>7. ASSUME NEW q \in Readers, q # r
      PROVE  /\ at'[q] = at[q] /\ seen'[q] = seen[q] /\ cursor'[q] = cursor[q]
             /\ received'[q] = received[q] /\ answer'[q] = answer[q]
             /\ floor'[q] = floor[q]
  BY <1>2, <1>5, <1>7 DEF ReaderEffect, ReaderTypes
<1>8. \/ /\ cursor'[r] = cursor[r] /\ received'[r] = received[r]
      \/ /\ cursor'[r] = Len(log) /\ received'[r] = log
  BY <1>2, <1>5 DEF ReaderEffect, ReaderTypes
<1>9. floor'[r] = floor[r] \/ floor'[r] = Len(log)
  BY <1>2, <1>5 DEF ReaderEffect, ReaderTypes
<1>10. /\ at'[r] \in {"snapped", "metadata"} /\ seen'[r] = "closed" =>
              mem.status = "closed"
  BY <1>1, <1>2, <1>5
  DEF ReaderEffect, ReaderTypes, ReaderShape, ReadersFollowLog
<1>11. \/ answer'[r] = NoAnswer
       \/ answer'[r] = answer[r] /\ at'[r] = at[r] /\ floor'[r] = floor[r]
          /\ received'[r] = received[r]
       \/ /\ at[r] \in {"snapped", "metadata"} /\ at'[r] = "idle"
          /\ answer'[r].status = seen[r] /\ received'[r] = log
          /\ floor'[r] = floor[r]
  BY <1>1, <1>2, <1>5
  DEF ReaderEffect, ReaderTypes, ReaderShape, ReadersFollowLog
<1>12. ASSUME NEW q \in Readers
       PROVE  /\ Numbered(received'[q]) /\ Len(received'[q]) = cursor'[q]
              /\ cursor'[q] <= Len(log) /\ floor'[q] <= Len(log)
  <2>1. /\ Numbered(received[q]) /\ Len(received[q]) = cursor[q]
        /\ cursor[q] <= Len(log) /\ floor[q] <= Len(log)
    BY <1>1 DEF ReaderShape, ReadersFollowLog
  <2> QED
    BY <2>1, <1>4, <1>7, <1>8, <1>9
<1>13. ASSUME NEW q \in Readers
       PROVE  /\ at'[q] # "idle" => answer'[q] = NoAnswer
              /\ answer'[q].source # "none" /\ answer'[q].status = "closed" =>
                     mem.status = "closed" /\ received'[q] = log
              /\ at'[q] = "idle" /\ answer'[q].source # "none" =>
                     Len(received'[q]) >= floor'[q]
  <2>1. /\ at[q] # "idle" => answer[q] = NoAnswer
        /\ answer[q].source # "none" /\ answer[q].status = "closed" =>
               mem.status = "closed" /\ received[q] = log
        /\ at[q] = "idle" /\ answer[q].source # "none" =>
               Len(received[q]) >= floor[q]
        /\ at[q] \in {"snapped", "metadata"} /\ seen[q] = "closed" =>
               mem.status = "closed"
        /\ floor[q] <= Len(log) /\ floor[q] \in Nat
    BY <1>1
    DEF ReaderShape, ReadersFollowLog, ClosedAnswerIsFinal, AnswersAreFresh,
        ReaderTypes, Cursors
  <2>2. CASE q # r
    BY <2>1, <2>2, <1>7
  <2>3. CASE q = r
    <3>1. CASE answer'[r] = NoAnswer
      BY <2>3, <3>1 DEF NoAnswer
    <3>2. CASE answer'[r] = answer[r] /\ at'[r] = at[r] /\ floor'[r] = floor[r]
               /\ received'[r] = received[r]
      BY <2>1, <2>3, <3>2
    <3>3. CASE /\ at[r] \in {"snapped", "metadata"} /\ at'[r] = "idle"
               /\ answer'[r].status = seen[r] /\ received'[r] = log
               /\ floor'[r] = floor[r]
      BY <2>1, <2>3, <3>3, <1>4
    <3> QED
      BY <3>1, <3>2, <3>3, <1>11
  <2> QED
    BY <2>2, <2>3
<1>14. ReadersFollowLog'
  <2> SUFFICES ASSUME NEW q \in Readers
               PROVE  /\ Numbered(received[q])' /\ Len(received'[q]) = cursor'[q]
                      /\ cursor'[q] <= Len(log') /\ floor'[q] <= Len(log')
                      /\ at'[q] \in {"snapped", "metadata"} /\ seen'[q] = "closed" =>
                             mem'.status = "closed"
                      /\ at'[q] # "idle" => answer'[q] = NoAnswer
                      /\ answer'[q].source # "none" /\ answer'[q].status = "closed" =>
                             mem'.status = "closed"
    BY DEF ReadersFollowLog
  <2>1. Numbered(received[q])'
    BY <1>12 DEF Numbered
  <2>2. at'[q] \in {"snapped", "metadata"} /\ seen'[q] = "closed" =>
            mem'.status = "closed"
    BY <1>1, <1>3, <1>7, <1>10 DEF ReaderShape, ReadersFollowLog
  <2> QED
    BY <2>1, <2>2, <1>3, <1>12, <1>13
<1>15. ClosedAnswerIsFinal' /\ AnswersAreFresh'
  BY <1>3, <1>13 DEF ClosedAnswerIsFinal, AnswersAreFresh
<1> QED
  BY <1>6, <1>14, <1>15 DEF ReaderShape

------------------------------------------------------------------------------
(* The theorems.                                                           *)

\* No step of the worker, a crash or any caller breaks the invariant.
LEMMA StepOK == LogInv /\ [Next]_vars => LogInv'
<1> SUFFICES ASSUME LogInv, [Next]_vars PROVE LogInv'
  OBVIOUS
<1>1. WriterShape /\ ReaderShape
  BY LogInvSplits
<1>2. CASE WriterStep \/ Crash
  BY <1>2, WriterShapeOK, WriterKeepsReaders, LogInvSplits
<1>3. ASSUME NEW r \in Readers, ReaderStep(r)
      PROVE  LogInv'
  <2>1. UNCHANGED writerVars
    BY <1>3, ReaderStepEffect
  <2>2. WriterShape'
    BY <1>1, <2>1
    DEF WriterShape, WriterTypes, writerVars, LogFollowsCursor,
        ClosedLogIsComplete, Numbered
  <2>3. ReaderShape'
    BY <1>3, ReaderKeepsReaders
  <2> QED
    BY <2>2, <2>3, LogInvSplits
<1>4. CASE UNCHANGED vars
  <2>1. WriterShape'
    BY <1>1, <1>4
    DEF vars, WriterShape, WriterTypes, writerVars, LogFollowsCursor,
        ClosedLogIsComplete, Numbered
  <2>2. ReaderTypes'
    BY <1>1, <1>4 DEF vars, readerVars, ReaderShape, ReaderTypes
  <2>3. ReadersFollowLog' /\ ClosedAnswerIsFinal' /\ AnswersAreFresh'
    BY <1>1, <1>4
    DEF vars, readerVars, writerVars, ReaderShape, ReadersFollowLog,
        ClosedAnswerIsFinal, AnswersAreFresh, Numbered
  <2> QED
    BY <2>1, <2>2, <2>3, LogInvSplits DEF ReaderShape
<1> QED
  BY <1>2, <1>3, <1>4 DEF Next, ReaderStep

\* LogInv holds in every reachable state of the log and its readers
\* (record_event, collect_events and the file fallback of events).
THEOREM LogInvariance == Spec => []LogInv
<1> QED
  BY InitOK, StepOK, PTL DEF Spec

\* Every variable of the log and its readers stays in its type.
THEOREM TypeCorrectness == Spec => []TypeOK
<1>1. LogInv => TypeOK
  BY DEF LogInv
<1> QED
  BY <1>1, LogInvariance, PTL

\* record_event persists a cursor before it writes the line: no cursor in the
\* file is ahead of session.json, whatever fails or is killed in between.
THEOREM PersistedCovers == Spec => []PersistedCoversLog
<1>1. LogInv => PersistedCoversLog
  <2> SUFFICES ASSUME LogInv, NEW i \in DOMAIN log PROVE log[i] <= disk.cursor
    BY DEF PersistedCoversLog
  <2>1. /\ log[i] = i /\ i \in 1 .. Len(log) /\ Len(log) \in Nat
        /\ Len(log) <= disk.cursor /\ disk.cursor \in Nat
    BY DEF LogInv, TypeOK, LogFollowsCursor, Numbered, Cursors
  <2> QED
    BY <2>1
<1> QED
  BY <1>1, LogInvariance, PTL

\* A closed session's log is whole: set_closed runs between two records.
THEOREM ClosedComplete == Spec => []ClosedLogIsComplete
<1>1. LogInv => ClosedLogIsComplete
  BY DEF LogInv
<1> QED
  BY <1>1, LogInvariance, PTL

\* A reader that collect_events, or session.json, tells closed has received
\* every event.
THEOREM ClosedFinal == Spec => []ClosedAnswerIsFinal
<1>1. LogInv => ClosedAnswerIsFinal
  BY DEF LogInv
<1> QED
  BY <1>1, LogInvariance, PTL

\* An answer contains every event that was readable when the call was made.
THEOREM AnswersFresh == Spec => []AnswersAreFresh
<1>1. LogInv => AnswersAreFresh
  BY DEF LogInv
<1> QED
  BY <1>1, LogInvariance, PTL

\* Initially the stream is empty and nobody has received anything.
LEMMA StreamInit == Init => Stream!Init
BY DEF Init, Stream!Init

\* Every step of the worker and of a caller is a step of the stream or none:
\* completing a line publishes the next event, an answer hands a prefix out.
LEMMA StreamStep ==
    LogInv /\ [Next]_vars => [Stream!Next]_<<log, received>>
<1> SUFFICES ASSUME LogInv, [Next]_vars
             PROVE  Stream!Next \/ UNCHANGED <<log, received>>
  OBVIOUS
<1>1. CASE WriterStep \/ Crash
  <2>1. received' = received
    BY <1>1, WriterLeavesReaders
  <2>2. log' = log \/ log' = Append(log, Len(log) + 1)
    BY <1>1, LogGrows
  <2> QED
    BY <2>1, <2>2 DEF Stream!Next, Stream!Publish
<1>2. ASSUME NEW r \in Readers, ReaderStep(r)
      PROVE  Stream!Next \/ UNCHANGED <<log, received>>
  <2>1. ReaderEffect(r) /\ log' = log
    BY <1>2, ReaderStepEffect DEF writerVars
  <2>2. received' = received \/ received' = [received EXCEPT ![r] = log]
    BY <2>1 DEF ReaderEffect
  <2>3. /\ log \in Seq(Cursors) /\ Len(received[r]) \in Nat
        /\ Len(received[r]) <= Len(log)
    BY LogInvSplits
    DEF WriterShape, WriterTypes, ReaderShape, ReaderTypes, ReadersFollowLog, Cursors
  <2>4. Len(log) \in Len(received[r]) .. Len(log) /\ SubSeq(log, 1, Len(log)) = log
    BY <2>3
  <2>5. CASE received' = [received EXCEPT ![r] = log]
    BY <2>1, <2>4, <2>5 DEF Stream!Next, Stream!Receive
  <2> QED
    BY <2>1, <2>2, <2>5
<1>3. CASE UNCHANGED vars
  BY <1>3 DEF vars, writerVars, readerVars
<1> QED
  BY <1>1, <1>2, <1>3 DEF Next, ReaderStep

\* The log, its writer and its readers implement the event stream: each reader
\* receives each event once and in order, across crashes, torn lines, timeouts
\* and answers from the file.
THEOREM Refinement == Spec => ImplementsEventStream
<1> QED
  BY StreamInit, StreamStep, LogInvariance, PTL
  DEF Spec, ImplementsEventStream, Stream!Spec
===============================================================================
