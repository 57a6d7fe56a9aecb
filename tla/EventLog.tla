------------------------------- MODULE EventLog -------------------------------
(***************************************************************************)
(* The durable event log of a session (crates/aingle-cli/src/session.rs):  *)
(* record_event appends to events.jsonl while any number of `session       *)
(* events` and `session attach` callers read it, through collect_events in *)
(* the worker or, when control_request fails, straight from the files.     *)
(*                                                                         *)
(* The worker's network task is the only writer.  It holds the state lock  *)
(* while it persists session.json and not while it appends, so every write *)
(* is a step of its own.  The events are their cursors; the status is cut  *)
(* down to what readers act on: live, failed or closed.                    *)
(***************************************************************************)
EXTENDS Naturals, Sequences

CONSTANTS
    Readers,        \* callers of session events and session attach
    MaxEvents       \* events recorded in one behaviour

ASSUME EventsAssumption == MaxEvents \in Nat

VARIABLES
    alive,      \* the worker process runs
    rec,        \* where record_event is
    mem,        \* status.last_cursor and status.state in memory
    disk,       \* the same two in session.json
    log,        \* the complete lines of events.jsonl
    torn,       \* events.jsonl ends in an incomplete line
    at,         \* per reader: where its call is
    deadline,   \* per reader: "none" (no --wait), "ahead" or "passed"
    seen,       \* per reader: the status read before the log
    cursor,     \* per reader: the --after of its next call
    received,   \* history, per reader: the cursors its answers contained
    answer,     \* history, per reader: how its last call ended
    floor       \* history, per reader: Len(log) when its call began

writerVars == <<alive, rec, mem, disk, log, torn>>
readerVars == <<at, deadline, seen, cursor, received, answer, floor>>
vars == <<writerVars, readerVars>>

Cursors == 0 .. MaxEvents
Statuses == {"live", "failed", "closed"}

\* "begun": session.json is persisted, the line is not started; "writing": part
\* of the line is in the file; "written": the line is complete, the waiters are
\* not
RecordPlaces == {"idle", "begun", "writing", "written", "returned"}

\* "asked" .. "waiting" are in collect_events; "refused" is control_request's
\* error, the worker's or its own, and "metadata" follows read_metadata in the
\* fallback.
ReaderPlaces == {"idle", "asked", "snapped", "arming", "waiting",
                 "refused", "metadata"}

\* Who answered the last call; "none" for an error or a caller that left.
Sources == {"none", "worker", "file"}

TypeOK ==
    /\ alive \in BOOLEAN /\ torn \in BOOLEAN
    /\ rec \in RecordPlaces
    /\ mem \in [cursor : Cursors, status : Statuses]
    /\ disk \in [cursor : Cursors, status : Statuses]
    /\ log \in Seq(Cursors)
    /\ at \in [Readers -> ReaderPlaces]
    /\ deadline \in [Readers -> {"none", "ahead", "passed"}]
    /\ seen \in [Readers -> Statuses]
    /\ cursor \in [Readers -> Cursors]
    /\ received \in [Readers -> Seq(Cursors)]
    /\ answer \in [Readers -> [source : Sources, status : Statuses]]
    /\ floor \in [Readers -> Cursors]

NoAnswer == [source |-> "none", status |-> "live"]

Init ==
    /\ alive = TRUE
    /\ rec = "idle"
    /\ mem = [cursor |-> 0, status |-> "live"]
    /\ disk = [cursor |-> 0, status |-> "live"]
    /\ log = <<>>
    /\ torn = FALSE
    /\ at = [r \in Readers |-> "idle"]
    /\ deadline = [r \in Readers |-> "none"]
    /\ seen = [r \in Readers |-> "live"]
    /\ cursor = [r \in Readers |-> 0]
    /\ received = [r \in Readers |-> <<>>]
    /\ answer = [r \in Readers |-> NoAnswer]
    /\ floor = [r \in Readers |-> 0]

------------------------------------------------------------------------------
(* The worker: record_event, update_state and the end of the process.      *)

\* notify_waiters: every call that waits now looks again.
NotifyWaiters ==
    /\ at' = [r \in Readers |-> IF at[r] = "waiting" THEN "asked" ELSE at[r]]
    /\ UNCHANGED <<deadline, seen, cursor, received, answer, floor>>

\* state.persist() succeeds, or leaves the old session.json (written aside and
\* renamed).
Persist(m) == disk' = m \/ disk' = disk

\* set_failed after record_event returned an error; network_loop returns.
FailAndReturn(m) ==
    /\ mem' = [m EXCEPT !.status = "failed"]
    /\ Persist([m EXCEPT !.status = "failed"])
    /\ rec' = "returned"
    /\ UNCHANGED alive
    /\ NotifyWaiters

\* Mutant of Bump: the cursor is persisted later.
BumpOnly(next) ==
    /\ mem' = next
    /\ UNCHANGED disk
    /\ rec' = "begun"

\* The cursor is counted and persisted before the event is written.
Bump(next) ==
    /\ mem' = next
    /\ disk' = next
    /\ rec' = "begun"

\* record_event up to the end of its critical section.
BeginRecord ==
    /\ alive /\ rec = "idle" /\ mem.status = "live" /\ mem.cursor < MaxEvents
    /\ LET next == [mem EXCEPT !.cursor = @ + 1] IN
         \/ Bump(next) /\ UNCHANGED <<alive, readerVars>>
         \/ FailAndReturn(next)
    /\ UNCHANGED <<log, torn>>

\* The file is opened for append and to_writer emits the first bytes.
BeginLine ==
    /\ alive /\ rec = "begun"
    /\ rec' = "writing"
    /\ torn' = TRUE
    /\ UNCHANGED <<alive, mem, disk, log, readerVars>>

\* The last byte of the JSON object.
EndLine ==
    /\ alive /\ rec = "writing"
    /\ rec' = "written"
    /\ torn' = FALSE
    /\ log' = Append(log, mem.cursor)
    /\ UNCHANGED <<alive, mem, disk, readerVars>>

\* The file cannot be opened or written: what is in it stays there.  (After the
\* object only the newline is missing, which readers do not need.)
AppendFails ==
    /\ alive /\ rec \in {"begun", "writing", "written"}
    /\ FailAndReturn(mem)
    /\ UNCHANGED <<log, torn>>

EndRecord ==
    /\ alive /\ rec = "written"
    /\ rec' = "idle"
    /\ NotifyWaiters
    /\ UNCHANGED <<alive, mem, disk, log, torn>>

\* update_state between two events: set_reconnecting, leaving, a failed load.
Update ==
    /\ alive /\ rec = "idle"
    /\ \E status \in {"live", "failed"} :
         /\ mem.status = "failed" => status = "failed"
         /\ mem' = [mem EXCEPT !.status = status]
    /\ Persist(mem')
    /\ NotifyWaiters
    /\ UNCHANGED <<alive, rec, log, torn>>

\* Mutant of Close: a close does not wait for the event being recorded.
CloseAnytime ==
    /\ alive /\ rec # "returned"
    /\ mem' = [mem EXCEPT !.status = "closed"]
    /\ Persist(mem')
    /\ rec' = "returned"
    /\ NotifyWaiters
    /\ UNCHANGED <<alive, log, torn>>

\* set_closed, and network_loop returns.  A status that cannot be persisted is
\* closed in memory all the same.
Close ==
    /\ alive /\ rec = "idle"
    /\ mem' = [mem EXCEPT !.status = "closed"]
    /\ Persist(mem')
    /\ rec' = "returned"
    /\ NotifyWaiters
    /\ UNCHANGED <<alive, log, torn>>

\* The command channel is closed: network_loop returns as it is.
Return ==
    /\ alive /\ rec = "idle"
    /\ rec' = "returned"
    /\ UNCHANGED <<alive, mem, disk, log, torn, readerVars>>

\* worker returns after network_loop: the runtime and every handler end.
Exit ==
    /\ alive /\ rec = "returned"
    /\ alive' = FALSE
    /\ UNCHANGED <<rec, mem, disk, log, torn, readerVars>>

\* The process is killed.
Crash ==
    /\ alive
    /\ alive' = FALSE
    /\ UNCHANGED <<rec, mem, disk, log, torn, readerVars>>

------------------------------------------------------------------------------
(* The readers: collect_events, control_request and the fallback.          *)

Goto(r, place) == at' = [at EXCEPT ![r] = place]

\* Mutant of EventsAfter: one event at a time.
NextEvent(after) ==
    SelectSeq(log, LAMBDA n : n = after + 1)

\* read_events_after keeps the lines whose cursor is greater.  The cursors in
\* the file increase, so they are a suffix (TLC compares it with the filter).
EventsAfter(after) ==
    LET kept == CHOOSE k \in 0 .. Len(log) :
                    /\ \A i \in 1 .. k : log[i] <= after
                    /\ \A i \in k + 1 .. Len(log) : log[i] > after
    IN  SubSeq(log, kept + 1, Len(log))

\* Mutant of Answer: next_cursor is status.last_cursor.
AnswerLastCursor(r, found, source, status) ==
    /\ Goto(r, "idle")
    /\ received' = [received EXCEPT ![r] = @ \o found]
    /\ cursor' = [cursor EXCEPT ![r] = mem.cursor]
    /\ answer' = [answer EXCEPT ![r] = [source |-> source, status |-> status]]

\* An answer reaches the caller: the events, and next_cursor for its next call.
Answer(r, found, source, status) ==
    /\ Goto(r, "idle")
    /\ received' = [received EXCEPT ![r] = @ \o found]
    /\ cursor' = [cursor EXCEPT
         ![r] = IF found = <<>> THEN @ ELSE found[Len(found)]]
    /\ answer' = [answer EXCEPT ![r] = [source |-> source, status |-> status]]

Ask(r) ==
    /\ at[r] = "idle"
    /\ Goto(r, "asked")
    /\ \E d \in {"none", "ahead"} : deadline' = [deadline EXCEPT ![r] = d]
    /\ floor' = [floor EXCEPT ![r] = Len(log)]
    /\ answer' = [answer EXCEPT ![r] = NoAnswer]
    /\ seen' = [seen EXCEPT ![r] = "live"]
    /\ UNCHANGED <<writerVars, cursor, received>>

\* collect_events copies the status under the lock.
Snapshot(r) ==
    /\ alive /\ at[r] = "asked"
    /\ Goto(r, "snapped")
    /\ seen' = [seen EXCEPT ![r] = mem.status]
    /\ UNCHANGED <<writerVars, deadline, cursor, received, answer, floor>>

\* It reads the file without the lock.  An incomplete line fails to parse and
\* the worker answers with an error.
ReadTorn(r) ==
    /\ alive /\ at[r] = "snapped" /\ torn
    /\ Goto(r, "refused")
    /\ UNCHANGED <<writerVars, deadline, seen, cursor, received, answer, floor>>

ReadLog(r) ==
    /\ alive /\ at[r] = "snapped" /\ ~torn
    /\ LET found == EventsAfter(cursor[r])
           done == \/ found # <<>> \/ deadline[r] # "ahead"
                   \/ seen[r] = "closed"
       IN  \/ done /\ Answer(r, found, "worker", seen[r])
           \/ ~done /\ Goto(r, "arming") /\ UNCHANGED <<cursor, received, answer>>
    /\ UNCHANGED <<writerVars, deadline, seen, floor>>

\* notify.notified() is created: only from here on does a notification count.
Arm(r) ==
    /\ alive /\ at[r] = "arming"
    /\ Goto(r, "waiting")
    /\ UNCHANGED <<writerVars, deadline, seen, cursor, received, answer, floor>>

\* The caller's --wait runs out.
Expire(r) ==
    /\ at[r] \in {"asked", "snapped", "arming", "waiting"}
    /\ deadline[r] = "ahead"
    /\ deadline' = [deadline EXCEPT ![r] = "passed"]
    /\ UNCHANGED <<writerVars, at, seen, cursor, received, answer, floor>>

\* Mutant of Wake: only an event ends the wait.
WakeForEvent(r) ==
    /\ alive /\ at[r] = "waiting" /\ deadline[r] = "passed"
    /\ EventsAfter(cursor[r]) # <<>>
    /\ Goto(r, "asked")
    /\ UNCHANGED <<writerVars, deadline, seen, cursor, received, answer, floor>>

\* sleep_until(deadline) ends the wait, and the log is read once more.
Wake(r) ==
    /\ alive /\ at[r] = "waiting" /\ deadline[r] = "passed"
    /\ Goto(r, "asked")
    /\ UNCHANGED <<writerVars, deadline, seen, cursor, received, answer, floor>>

\* No answer: the endpoint is gone, or the local response deadline passes.
Unanswered(r) ==
    /\ at[r] \in {"asked", "snapped", "arming", "waiting"}
    /\ Goto(r, "refused")
    /\ UNCHANGED <<writerVars, deadline, seen, cursor, received, answer, floor>>

\* attach drops the call when a line arrives on stdin; a caller is interrupted.
Abandon(r) ==
    /\ at[r] # "idle"
    /\ Goto(r, "idle")
    /\ UNCHANGED <<writerVars, deadline, seen, cursor, received, answer, floor>>

\* Either way control_request is an error, and events turns to the files:
\* session.json first ...
ReadMetadata(r) ==
    /\ at[r] = "refused"
    /\ Goto(r, "metadata")
    /\ seen' = [seen EXCEPT ![r] = disk.status]
    /\ UNCHANGED <<writerVars, deadline, cursor, received, answer, floor>>

\* ... then events.jsonl.  The answer says worker_reachable: false.
ReadFile(r) ==
    /\ at[r] = "metadata"
    /\ \/ torn /\ Goto(r, "idle") /\ UNCHANGED <<cursor, received, answer>>
       \/ ~torn /\ Answer(r, EventsAfter(cursor[r]), "file", seen[r])
    /\ UNCHANGED <<writerVars, deadline, seen, floor>>

------------------------------------------------------------------------------

Recording == BeginLine \/ EndLine \/ EndRecord

WriterStep == BeginRecord \/ Recording \/ AppendFails
              \/ Update \/ Close \/ Return \/ Exit

Call(r) ==
    \/ Snapshot(r) \/ ReadTorn(r) \/ ReadLog(r) \/ Arm(r) \/ Wake(r)
    \/ ReadMetadata(r) \/ ReadFile(r)

Next ==
    \/ WriterStep \/ Crash
    \/ \E r \in Readers :
         Ask(r) \/ Call(r) \/ Expire(r) \/ Unanswered(r) \/ Abandon(r)

Spec == Init /\ [][Next]_vars

\* Handlers and callers run, timers fire and a dead worker refuses connections.
\* Nobody is obliged to record, close or ask.
Fairness ==
    \A r \in Readers :
        /\ WF_vars(Call(r))
        /\ WF_vars(Expire(r))
        /\ WF_vars(~alive /\ Unanswered(r))

FairSpec == Spec /\ Fairness

------------------------------------------------------------------------------
(* What the log and its readers promise.                                   *)

\* Each reader receives each event once and in order, whoever answers it and
\* whatever it missed in between: the log with its cursors implements the
\* abstract stream.
Stream == INSTANCE EventStream WITH stream <- log
ImplementsEventStream == Stream!Spec

\* No cursor in events.jsonl is ahead of session.json: a cursor `status` has
\* reported is never given to another event, even after a crash.
PersistedCoversLog == \A i \in DOMAIN log : log[i] <= disk.cursor

\* Once the session is closed its log is whole: every event that was recorded
\* is a complete line (README.md: events remain available after a close).
ClosedLogIsComplete ==
    mem.status = "closed" => ~torn /\ Len(log) = mem.cursor

\* A reader that is told closed has received everything and can stop asking.
ClosedAnswerIsFinal ==
    \A r \in Readers :
        answer[r].source # "none" /\ answer[r].status = "closed" =>
            received[r] = log

\* An answer contains every event that was readable when the call was made.
AnswersAreFresh ==
    \A r \in Readers :
        at[r] = "idle" /\ answer[r].source # "none" =>
            Len(received[r]) >= floor[r]

\* Every call ends, also one whose notification came too early to be seen: the
\* deadline, the worker's exit or the local response deadline ends it.
CallsEnd == \A r \in Readers : at[r] # "idle" ~> at[r] = "idle"

------------------------------------------------------------------------------
(* The inductive invariant.                                                *)

Numbered(s) == \A i \in DOMAIN s : s[i] = i

\* The cursor in memory counts the event being recorded, the log only the
\* recorded ones.
LogFollowsCursor ==
    /\ Numbered(log)
    /\ CASE rec \in {"idle", "written"} -> mem.cursor = Len(log)
         [] rec \in {"begun", "writing"} -> mem.cursor = Len(log) + 1
         [] OTHER -> mem.cursor \in {Len(log), Len(log) + 1}
    /\ rec \notin {"writing", "returned"} => ~torn
    /\ mem.status = "closed" => rec = "returned"
    /\ disk.cursor <= mem.cursor /\ Len(log) <= disk.cursor
    /\ rec \in {"begun", "writing"} => disk.cursor = mem.cursor
    /\ disk.status = "closed" => mem.status = "closed"

ReadersFollowLog ==
    \A r \in Readers :
        /\ Numbered(received[r])
        /\ Len(received[r]) = cursor[r]
        /\ cursor[r] <= Len(log) /\ floor[r] <= Len(log)
        /\ at[r] \in {"snapped", "metadata"} /\ seen[r] = "closed" =>
               mem.status = "closed"
        /\ at[r] # "idle" => answer[r] = NoAnswer
        /\ answer[r].source # "none" /\ answer[r].status = "closed" =>
               mem.status = "closed"

LogInv ==
    /\ TypeOK
    /\ LogFollowsCursor
    /\ ReadersFollowLog
    /\ ClosedLogIsComplete
    /\ ClosedAnswerIsFinal
    /\ AnswersAreFresh

===============================================================================
