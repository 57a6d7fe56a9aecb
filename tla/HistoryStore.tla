----------------------------- MODULE HistoryStore -----------------------------
(***************************************************************************)
(* The local history of one conversation (crates/aingle-client, history.rs *)
(* and the history thread of lib.rs; crates/aingle-cli, `aingle history`): *)
(* a transcript file and its row in index.db.                              *)
(*                                                                         *)
(* Its writers are processes that share nothing but the file system: the   *)
(* client that takes part (Live) writes what it receives, and each caller  *)
(* of `aingle history` that finds no file recovers one from the service.   *)
(* Every write and every SQL statement is a step; any of them may fail and *)
(* any process may be killed before it.                                    *)
(*                                                                         *)
(* The file is a sequence of units, one per field that read looks at: magic *)
(* and id, the length of the peer's name and the name; per record its seq, *)
(* the length of its payload and the payload.  A torn write ends between   *)
(* two units.                                                              *)
(***************************************************************************)
EXTENDS Naturals, Sequences

CONSTANTS
    Callers,        \* callers of aingle history for this conversation
    Live,           \* the client in the conversation
    MaxMessages,    \* messages of the conversation
    Contents,       \* what a message may say: sequences of units
    Overlap         \* whether a caller may look while Live still writes

ASSUME HistoryAssumption ==
    /\ Live \notin Callers /\ MaxMessages \in Nat /\ Overlap \in BOOLEAN
    /\ Contents \subseteq Seq(Nat)

VARIABLES
    said,       \* the service: what its messages say
    ended,      \* the service: the conversation has ended
    exists,     \* the file is there
    data,       \* its units
    row,        \* its row: sync_status, or "none", and final_seq
    at,         \* per writer: where it is
    next,       \* per writer: the next message it appends
    final,      \* per writer: the last message and final_seq it will write
    whole,      \* per writer: what finish found
    printed,    \* per caller: the transcript it printed, if any
    torn,       \* history: some write has been cut short
    kept        \* history: the records written before that, and where they end

fileVars == <<exists, data, row>>
historyOf == <<torn, kept>>
storeVars == <<said, ended, fileVars, at, next, final, whole, printed, historyOf>>

Writers == Callers \cup {Live}
Numbers == 0 .. MaxMessages

\* No record begins with this unit.
FileMagic == MaxMessages + 1

Header == <<FileMagic, 1, 0>>
FieldsOf(n) == <<n, Len(said[n])>>
Entry(n) == FieldsOf(n) \o said[n]

\* A message as read returns it, and one of the service's.
Messages == [seq : Nat, content : Seq(Nat)]
Message(n) == [seq |-> n, content |-> said[n]]

Row(sync, n) == [sync |-> sync, final |-> n]

Places == {"idle", "fetched", "begin", "header", "insert", "next", "body",
           "count", "finish", "update", "read", "over"}

TypeOK ==
    /\ said \in Seq(Contents) /\ Len(said) <= MaxMessages
    /\ ended \in BOOLEAN
    /\ exists \in BOOLEAN
    /\ data \in Seq(Nat)
    /\ row \in [sync : {"none", "active", "complete", "partial"}, final : Numbers]
    /\ at \in [Writers -> Places]
    /\ next \in [Writers -> 1 .. MaxMessages + 1]
    /\ final \in [Writers -> Numbers]
    /\ whole \in [Writers -> BOOLEAN]
    /\ printed \in [Callers -> SUBSET Seq(Messages)]
    /\ torn \in BOOLEAN
    /\ kept \in Seq([seq : Numbers \ {0}, end : Nat])

StoreInit ==
    /\ said = <<>> /\ ended = FALSE
    /\ exists = FALSE /\ data = <<>> /\ row = Row("none", 0)
    /\ at = [w \in Writers |-> IF w = Live THEN "begin" ELSE "idle"]
    /\ next = [w \in Writers |-> 1]
    /\ final = [w \in Writers |-> 0]
    /\ whole = [w \in Writers |-> FALSE]
    /\ printed = [c \in Callers |-> {}]
    /\ torn = FALSE /\ kept = <<>>

------------------------------------------------------------------------------
(* The conversation (external).                                            *)

Speak ==
    /\ ~ended /\ Len(said) < MaxMessages
    /\ \E content \in Contents : said' = Append(said, content)
    /\ UNCHANGED <<ended, fileVars, at, next, final, whole, printed, historyOf>>

EndConversation ==
    /\ ~ended
    /\ ended' = TRUE
    /\ UNCHANGED <<said, fileVars, at, next, final, whole, printed, historyOf>>

------------------------------------------------------------------------------
(* begin, append and finish of HistoryStore.                               *)

Goto(w, place) == at' = [at EXCEPT ![w] = place]

\* Mutant of AfterError: import goes on after an error.
GoOn(w) == "next"

\* The history thread logs an error and takes its next command; a caller prints
\* the error and ends.
AfterError(w) == IF w = Live THEN "next" ELSE "over"
Failed(w) == Goto(w, AfterError(w))

Torn == torn' = TRUE /\ UNCHANGED kept
Keep(n) ==
    /\ kept' = IF torn THEN kept ELSE Append(kept, [seq |-> n, end |-> Len(data')])
    /\ UNCHANGED torn

\* Mutant of Create: the file is opened with create and truncate.
CreateOver(w) ==
    /\ at[w] = "begin"
    /\ exists' = TRUE /\ data' = <<>> /\ Goto(w, "header")
    /\ UNCHANGED <<row, said, ended, next, final, whole, printed, historyOf>>

\* create_new: the file must not exist.
Create(w) ==
    /\ at[w] = "begin"
    /\ \/ ~exists /\ exists' = TRUE /\ Goto(w, "header")
       \/ Failed(w) /\ UNCHANGED exists
    /\ UNCHANGED <<data, row, said, ended, next, final, whole, printed, historyOf>>

\* The file is not open for append: its first k units are written, whatever
\* somebody else has put there.
Overwrite(k) == data' = SubSeq(Header, 1, k) \o SubSeq(data, k + 1, Len(data))

\* A header is written, or some units of it are; when all are, sync_data may fail.
WriteHeader(w) ==
    /\ at[w] = "header"
    /\ \/ Overwrite(Len(Header)) /\ (Goto(w, "insert") \/ Failed(w))
          /\ UNCHANGED historyOf
       \/ \E k \in 0 .. Len(Header) - 1 : Overwrite(k) /\ Failed(w) /\ Torn
    /\ UNCHANGED <<exists, row, said, ended, next, final, whole, printed>>

\* INSERT OR REPLACE
Insert(w) ==
    /\ at[w] = "insert"
    /\ \/ row' = Row("active", 0) /\ Goto(w, "next")
       \/ Failed(w) /\ UNCHANGED row
    /\ UNCHANGED <<exists, data, said, ended, next, final, whole, printed, historyOf>>

\* Live may append what the service has said, a caller what it has fetched.
Available(w) == IF w = Live THEN Len(said) ELSE final[w]

\* The append is over, well or not: on to the next message.
Advance(w, place) ==
    /\ Goto(w, place)
    /\ next' = [next EXCEPT ![w] = @ + 1]

Write(units) == data' = data \o units

\* The file is opened for append and the fields before the payload are written,
\* or some of them, or it cannot be opened.  An empty payload needs no write.
WriteFields(w) ==
    /\ at[w] = "next" /\ next[w] <= Available(w)
    /\ \/ /\ exists /\ Write(FieldsOf(next[w]))
          /\ IF said[next[w]] = <<>> THEN Goto(w, "count") /\ Keep(next[w])
                                     ELSE Goto(w, "body") /\ UNCHANGED historyOf
          /\ UNCHANGED next
       \/ /\ exists /\ Write(SubSeq(FieldsOf(next[w]), 1, 1))
          /\ Advance(w, AfterError(w)) /\ Torn
       \/ Advance(w, AfterError(w)) /\ UNCHANGED <<data, historyOf>>
    /\ UNCHANGED <<exists, row, said, ended, final, whole, printed>>

\* The payload is written, or some units of it are.
WriteBody(w) ==
    /\ at[w] = "body"
    /\ \/ /\ Write(said[next[w]])
          /\ Goto(w, "count") /\ Keep(next[w])
          /\ UNCHANGED next
       \/ \E k \in 0 .. Len(said[next[w]]) - 1 :
             /\ Write(SubSeq(said[next[w]], 1, k))
             /\ Advance(w, AfterError(w)) /\ Torn
    /\ UNCHANGED <<exists, row, said, ended, final, whole, printed>>

\* message_count is advanced, or that statement fails.
Count(w) ==
    /\ at[w] = "count"
    /\ \/ Advance(w, "next")
       \/ Advance(w, AfterError(w))
    /\ UNCHANGED <<fileVars, said, ended, final, whole, printed, historyOf>>

------------------------------------------------------------------------------
(* read and finish.                                                        *)

HeaderOK ==
    /\ Len(data) >= 2 /\ data[1] = FileMagic
    /\ 2 + data[2] <= Len(data)

\* The offset behind the record at offset o: read follows the lengths it finds.
Past(o) == IF o + 2 <= Len(data) THEN o + 2 + data[o + 2] ELSE o

\* Where read is after so many records.
Offset ==
    LET offset[n \in 0 .. Len(data)] ==
            IF n = 0 THEN 2 + data[2] ELSE Past(offset[n - 1])
    IN  offset

\* Neither the header nor a record is cut off by the end of the file.
Readable == HeaderOK /\ Offset[Len(data)] = Len(data)

Ends(n) == Offset[n] = Len(data) /\ \A k \in 0 .. n - 1 : Offset[k] # Len(data)

\* The records that read returns.
Transcript ==
    [i \in 1 .. (CHOOSE n \in 0 .. Len(data) : Ends(n)) |->
        [seq |-> data[Offset[i - 1] + 1],
         content |-> SubSeq(data, Offset[i - 1] + 3, Offset[i])]]

\* Mutant of IsComplete: only the numbers found are compared.
IsUnbroken(n) == \A i \in DOMAIN Transcript : Transcript[i].seq = i

\* finish: the messages are 1 .. final_seq.
IsComplete(n) == Len(Transcript) = n /\ \A i \in 1 .. n : Transcript[i].seq = i

\* The thread takes Finish after everything else; import calls finish.
StartFinish(w) ==
    /\ at[w] = "next" /\ next[w] > Available(w) /\ (w = Live => ended)
    /\ final' = [final EXCEPT ![w] = Available(w)]
    /\ Goto(w, "finish")
    /\ UNCHANGED <<fileVars, said, ended, next, whole, printed, historyOf>>

FinishRead(w) ==
    /\ at[w] = "finish"
    /\ \/ /\ Readable
          /\ whole' = [whole EXCEPT ![w] = IsComplete(final[w])]
          /\ Goto(w, "update")
       \/ Goto(w, "over") /\ UNCHANGED whole
    /\ UNCHANGED <<fileVars, said, ended, next, final, printed, historyOf>>

\* The row is updated if there is one.  A caller then reads.
FinishUpdate(w) ==
    /\ at[w] = "update"
    /\ \/ /\ row' = IF row.sync = "none" THEN row
                    ELSE Row(IF whole[w] THEN "complete" ELSE "partial", final[w])
          /\ Goto(w, IF w = Live THEN "over" ELSE "read")
       \/ Goto(w, "over") /\ UNCHANGED row
    /\ UNCHANGED <<exists, data, said, ended, next, final, whole, printed, historyOf>>

\* The connection is lost, or a process is killed.
Cut(w) ==
    /\ at[w] \notin {"idle", "over"}
    /\ Goto(w, "over")
    /\ IF at[w] \in {"header", "body"} THEN Torn ELSE UNCHANGED historyOf
    /\ UNCHANGED <<said, ended, fileVars, next, final, whole, printed>>

------------------------------------------------------------------------------
(* aingle history: history and recover_history.                            *)

\* contains asks for the file, whatever is in it.  Without one the conversation
\* is fetched, with the messages so far.
Look(c) ==
    /\ at[c] = "idle"
    /\ Overlap \/ at[Live] = "over"
    /\ \/ exists /\ Goto(c, "read") /\ UNCHANGED final
       \/ /\ ~exists
          /\ final' = [final EXCEPT ![c] = Len(said)]
          /\ Goto(c, "fetched")
    /\ UNCHANGED <<said, ended, fileVars, next, whole, printed, historyOf>>

\* import looks again before it begins.
Import(c) ==
    /\ at[c] = "fetched"
    /\ Goto(c, IF exists THEN "read" ELSE "begin")
    /\ UNCHANGED <<said, ended, fileVars, next, final, whole, printed, historyOf>>

ReadBack(c) ==
    /\ at[c] = "read"
    /\ Goto(c, "over")
    /\ IF Readable THEN printed' = [printed EXCEPT ![c] = {Transcript}]
                   ELSE UNCHANGED printed
    /\ UNCHANGED <<said, ended, fileVars, next, final, whole, historyOf>>

------------------------------------------------------------------------------

WriterStep(w) ==
    \/ Create(w) \/ WriteHeader(w) \/ Insert(w)
    \/ WriteFields(w) \/ WriteBody(w) \/ Count(w)
    \/ StartFinish(w) \/ FinishRead(w) \/ FinishUpdate(w)

StoreNext ==
    \/ Speak \/ EndConversation
    \/ \E w \in Writers : WriterStep(w) \/ Cut(w)
    \/ \E c \in Callers : Look(c) \/ Import(c) \/ ReadBack(c)

StoreSpec == StoreInit /\ [][StoreNext]_storeVars

------------------------------------------------------------------------------
(* What a history promises.                                                *)

\* The transcript is append-only: nobody overwrites or replaces what is in it,
\* also not a recovery that races another one.
AppendOnly ==
    [][/\ Len(data) <= Len(data') /\ SubSeq(data', 1, Len(data)) = data
       /\ exists => exists']_storeVars

\* What the index calls complete reads as the sequences 1 .. final_seq, and stays
\* so; with their messages, unless a write was cut short.
CompleteIsWhole ==
    row.sync = "complete" =>
        /\ Readable /\ Len(Transcript) = row.final
        /\ \A i \in 1 .. row.final : Transcript[i].seq = i
        /\ torn \/ \A i \in 1 .. row.final : Transcript[i] = Message(i)

\* Whatever a caller prints begins with the records that were appended before a
\* write was cut short, each a message of the service, in its order and none
\* twice; nothing follows them if none was.
PrintedIsSaid ==
    /\ \A c \in Callers : \A transcript \in printed[c] :
         /\ \A i \in DOMAIN transcript \cap DOMAIN kept :
              transcript[i] = Message(kept[i].seq)
         /\ torn \/ Len(transcript) <= Len(kept)
    /\ \A i, j \in DOMAIN kept : i < j => kept[i].seq < kept[j].seq

\* docs/PROTOCOL.md:211: "compare locally stored sequences with `1..final_seq` to
\* detect an incomplete history".  What the index calls complete is complete.
\* The code follows lengths: a payload that was lost takes what comes next as
\* its own, and the sequences may match.
IncompleteIsDetected ==
    row.sync = "complete" => Transcript = [i \in 1 .. row.final |-> Message(i)]

------------------------------------------------------------------------------
(* Why they hold without Overlap, for ConnectionProofs: one writer at a     *)
(* time has the file in its hands.                                         *)

Owning == {"header", "insert", "next", "body", "count", "finish", "update"}

OneWriter ==
    /\ at[Live] # "over" => \A c \in Callers : at[c] = "idle"
    /\ at[Live] = "begin" => ~exists
    /\ at[Live] \in {"header", "body"} => exists
    /\ \A c \in Callers : at[c] \in Owning => exists
    /\ \A c, d \in Callers : at[c] \in Owning /\ at[d] \in Owning => c = d
    /\ \A w \in Writers : ~exists \/ at[w] = "header" => data = <<>> /\ ~torn

\* Where a record of kept begins, and where they all end.
Begin(i) == IF i = 1 THEN Len(Header) ELSE kept[i - 1].end
End == IF kept = <<>> THEN Len(Header) ELSE kept[Len(kept)].end

\* units is what the file has behind its first o units.
Holds(o, units) == \A i \in 1 .. Len(units) : data[o + i] = units[i]

Kept(i) ==
    /\ kept[i].seq \in DOMAIN said
    /\ kept[i].end = Begin(i) + Len(Entry(kept[i].seq))
    /\ kept[i].end <= Len(data)
    /\ Holds(Begin(i), Entry(kept[i].seq))

\* The file has the records of kept one behind the other,
KeptIsThere ==
    /\ \A i \in DOMAIN kept : Kept(i)
    /\ kept # <<>> => Holds(0, Header)

\* each written once, in the order of the conversation and before the next one of
\* whoever writes.
KeptInOrder ==
    /\ \A i, j \in DOMAIN kept : i < j => kept[i].seq < kept[j].seq
    /\ \A w \in Writers, i \in DOMAIN kept :
         at[w] \in Owning => \/ kept[i].seq < next[w]
                             \/ kept[i].seq = next[w] /\ at[w] = "count"

\* Until a write is cut short there is nothing else but a record being written.
NothingElse ==
    ~torn /\ exists /\ (\A w \in Writers : at[w] # "header") =>
        /\ Len(data) >= Len(Header) /\ Holds(0, Header)
        /\ (\A w \in Writers : at[w] # "body") => Len(data) = End
        /\ \A w \in Writers : at[w] = "body" =>
             /\ said[next[w]] # <<>>
             /\ Len(data) = End + 2 /\ Holds(End, FieldsOf(next[w]))

\* What finish has found still holds when it writes it, and ever after.
FinishedIsFinal ==
    /\ \A w \in Writers :
         at[w] = "update" /\ whole[w] => Readable /\ IsComplete(final[w])
    /\ row.sync = "complete" =>
         Readable /\ IsComplete(row.final) /\ \A w \in Writers : at[w] \notin Owning

StoreInv ==
    /\ OneWriter /\ KeptIsThere /\ KeptInOrder /\ NothingElse
    /\ FinishedIsFinal /\ PrintedIsSaid

===============================================================================
