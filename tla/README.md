# A verification development for the Aingle CLI

`aingle` (crates `aingle-cli`, `aingle-client`, `aingle-protocol`) puts an agent
in anonymous one-to-one conversations over one WebSocket to a chat service.
This directory holds TLA+ modules translated from that code, TLC configurations
that model-check them, and proofs TLAPS checks for every value of the
constants. `PROJECT.json` maps every definition to the lines it stands for.

## 1. Inventory

| Component | Source | State it keeps | Operations | Talks to |
|---|---|---|---|---|
| Session worker | `aingle-cli/src/session.rs`: `network_loop` and its handlers | the public status (`state`, `conversation_id`, `last_cursor`), `searching_intent`, the place in the loop | load, connect, handle a command connected or not, record an event, reconnect, close, fail | client connection (send, next_event), control plane (a channel of commands, a oneshot answer each), event log |
| Event log | `session.rs`: `record_event`, `collect_events`, `read_events_after`, `events`, `attach` | `session.json`, `events.jsonl`, per caller the cursor it hands back | persist, append, notify; read under a deadline, fall back to the files | session worker (same process, shared lock), callers in other processes (files, TCP) |
| Local control plane | `session.rs`: `start`, `worker`, `control_server`, `handle_control`, `control_request`, `action`, `status`, `list` | endpoint, token, queue of 64 commands, pending answers | start with a startup deadline, request with a 3 s deadline, fall back to `session.json` | session worker, callers |
| Client connection | `aingle-client/src/lib.rs`: `connect_with_session`, its writer, reader and history tasks, `map_event` | command queue (64), event queue (128), history queue (128), the active conversation | open, send, next_event, drop | chat service, history store, adapters |
| Resilient client | `lib.rs`: `connect_resilient`, `resilient_loop` | its own command and event queues, `should_find`, back-off | send and next_event on one handle, forward, reconnect | client connection, and whoever embeds the crate |
| Foreground adapter | `aingle-cli/src/main.rs`: `connect` | `should_find`, back-off | read JSONL commands, print events, retry, reconnect | client connection |
| Chat service | not in the repository; `docs/PROTOCOL.md` | phase per connection, matches | READY, answer a frame, match, close | client connection |
| History store | `aingle-client/src/history.rs`, `main.rs`: `history` | one file per conversation, its row in the index | begin, append, finish, read, import | client connection |
| Wire codec | `aingle-protocol/src/lib.rs` | none | encode, decode both directions, the hello | client connection |
| Agent identity and activation | `identity.rs`, `auth.rs`, `main.rs`: `init`, `claim_status` | key file and keychain entry, `config.toml`, `agent-claim.json` | generate, load, save; enroll, authenticate, create and poll a claim | API |
| Operator login | `operator.rs`, `auth.rs`, `main.rs`: `operator_*` | `operator-session`, its keychain entry, `operator-login.json` | login, status (poll), logout | API |
| Updater | `update.rs` | the executable | list, download, verify, replace | GitHub |
| Configuration, CLI parsing, doctor, report | `config.rs`, `main.rs` | none of their own | one-shot | all |

What is hard here: commands of the user and frames of the service cross on the
wire; a status is judged by the last frame *recorded*, not the last one sent; a
connection may be lost between any two steps and the intent to search must come
out right on the other side; the worker persists a cursor and appends an event in
two steps while other processes read both files; a control request can time out
while its command is still queued; a writer task can die while its socket lives;
queues are bounded and nobody waits for room in them; a secret is kept in a
keychain that may refuse, a file and a reference between the two, which several
short-lived processes read and write without a lock and may be killed between;
the assets of a release change while an update downloads them one by one.

What makes each component correct:

* Session worker: the status names the phase the service is in once nothing is
  on its way; it moves only along the documented edges; an acknowledged `find`
  survives reconnects; nothing is sent before READY but the CLOSE of a worker that
  ends; a lost session recovers.
* Event log: every reader receives each event once, in order, whoever answers
  it; a cursor is never given to two events; a reader told `closed` has it all.
* Control plane: a command is performed at most once, is acknowledged only when
  it was and refused only when it never will be; nothing is performed after an
  acknowledged close; every call, and `start`, ends.
* Client connection: frames leave in the order of the commands; `next_event` is
  the service's stream without gaps; the history is what was shown. Codec:
  decoding inverts encoding, and nothing else decodes.
* Resilient client, foreground adapter: a search or conversation the service
  holds is resumed after a loss, a refused search is asked for again (foreground),
  every `send` ends (resilient).
* History store: a transcript is only ever appended to; what is printed begins with
  what was appended, in order; what the index calls complete is the whole
  conversation, as long as no write was cut short.
* Login: a token on disk is one the operator approved; an approved login is
  neither lost nor stuck; a logout holds. Activation: the key the API knows is
  the one that is kept, and an undecided claim is not forgotten.
* Updater: the executable is at every step one whole build published under its
  own version, never replaces what is as new, and reaches the latest release.

## 2. Modules

```
EventStream   abstract: numbered events, growing prefixes
    ^ implements
EventLog      record_event's writes and the callers' reads
    ^ EXTENDS
EventLogProofs

LocalCalls    abstract: what the outcome of a call means
    ^ implements
ControlPlane  session start, the worker process, the calls of other processes
    ^ EXTENDS
ControlPlaneProofs

ClientLink    one socket: AingleClient and the chat service (external)
    ^ EXTENDS            ^ EXTENDS               ^ EXTENDS
SessionWorker        ResilientClient        ForegroundConnect
    ^                    ^                       ^
SessionWorkerProofs  ResilientClientProofs  ForegroundConnectProofs
                     (all three EXTEND ClientLinkProofs)

Codec         frames to bytes and back, as operators
    ^ EXTENDS
ClientConnection   the reader task, its queues and the history thread
    ^ EXTENDS
MCClientConnection     HistoryStore   one transcript and its row, their
(small values and      ^      ^       writers and readers
 the codec's samples)  |      | EXTENDS
    ^ EXTENDS          |    MCHistoryStore  (what messages may say)
ConnectionProofs  (EXTENDS both)

Credentials   processes, and a secret in a file or behind it in the keychain
    ^ EXTENDS        ^ EXTENDS
OperatorLogin    AgentActivation    Updater
    ^                ^                 ^ EXTENDS
CommandProofs    (EXTENDS all three)
```

**ClientLink.** `link`, `writer` are the socket and the writer task of one
`AingleClient`; `c2s`, `s2c` the frames on their way; `phase`, `matches` the
service. `Open` is `connect_with_session`, `SendOk`/`SendErr`/`SendUnencodable`
the outcomes of `send` (the writer task stops for good after a frame it could
not write or encode), `TakeEvent` is `next_event`, `Lose` the end of a socket by
whatever cause: transport, a frame `map_event` rejects, a full event or history
queue. `Service...` actions are external. A frame carries a history field, the
service's phase after it; `view` is that of the last frame taken. They are never
read by a guard of the code's actions.

**SessionWorker.** `pc` is the await `network_loop` is parked at, `state`,
`conversation_id`, `searching_intent` the fields of `RuntimeState`, `listening`
the control listener. Between two awaits of its `select!` the loop runs a handler
to the end, so each handler is one action: `Command` is
`handle_connected_command` from the intent (`session.rs:713`) through the send to
the status update, in that order, with the failed send in between; `Record...`
are `record_event` with the FIND that follows a READY; `RecordFails` is the
branch that cannot write. `stance` is a history variable: what the user was last
told about a search. Commands the worker answers with an error before it changes
anything are stutters.

**EventLog / EventStream.** One action per file operation of `record_event`
(`BeginRecord` persists, `BeginLine`, `EndLine`, `EndRecord` append and notify),
`AppendFails` for a write error at each place, `Crash` anywhere. A reader's call
goes through `collect_events` (`Snapshot` under the lock, `ReadLog` without it,
`Arm`, `Wake`) or, after an error or no answer, through the files. `EventStream`
is the promise of README.md ("receive each event once"); `ImplementsEventStream`
is the refinement, with the log as the stream.

**ControlPlane / LocalCalls.** `starter` is `session start`, `process`,
`listening`, `net`, `queue` the worker process, its `control_server`, its
`network_loop` and the channel between them, `disk` what callers read in
`session.json`. Per call, `caller` is the calling process (connect, wait at most
3 s, fall back to the file) and `handler` the worker's task for it, which goes on
when the caller has given up. Of the status only "open", "failed" and "closed"
are kept, and of the commands "act" and "close": what they do is SessionWorker's.
`LocalCalls` says what a caller may conclude: "ok" that the command was
performed, "refused" that it never will be, "unknown" nothing, not even that it
will not be performed later. `ImplementsLocalCalls` is the refinement.

**HistoryStore.** `data` is the transcript file, a sequence of units, one for each
field that `read` looks at: magic and id, the name and its length; per record the
sequence number, the length of the payload and the payload, whose units are what the
message says. There is no framing but the lengths, in the file as in the code:
`Offset` follows them as `read` does, so a record whose payload was lost takes what
is appended next as its payload, and a payload may itself look like a record.
`exists` is whether there is a file, `row` its row of the index. `at` is where each
writer is: the history thread of the client in the conversation, which logs an error
and goes on, and the callers of `aingle history`, which fetch, `import` and end at
the first error. Every write and SQL statement is an action that may fail, a write
also after some of its units; `Cut` ends a process before any of them. `torn` and
`kept` are history variables: whether a write was ever cut short, and the records
that were appended before that. A tear inside a field is not modelled: it makes the
reader misread from there on, as a tear between two fields does, and what the
properties say of a torn file concerns only what lies before.

**ForegroundConnect.** `pc` is the await of `connect`, `should_find` its memory,
`stdin` its input. The queue of typed commands is left out: the user may type
anything at any time, so a command is chosen when the loop takes it.

**ResilientClient.** `pc` is the await of `connect_resilient` and its loop,
`queue` the senders whose commands wait in the command queue, `events` how many
events wait in the other one, `users` who still holds a handle. One pass of the
loop's `select!` is one action: `Command` sets `should_find`, sends and answers;
`HandleEvent` forwards or, without room, returns; `Reconnect` is the back-off,
the connect and the FIND behind it. `ClientLink.Replace` is a connect that drops
a client whose socket may still be open (after an oversized message it is).
`stray` is a history variable: `should_find` was cleared by a LEAVE that met no
conversation.

**Codec, ClientConnection.** `EncodeServer`, `DecodeClient` and so on are the
functions of `aingle-protocol` on records and byte sequences, with the widths and
the limit of a message as constants; the integers are written with recursive
functions, digit by digit, so that they can be proved about. `ClientConnection` has
the bytes the service sends, `reader` the reader task (`Read...`, one action per
outcome of decoding and of `map_event`), the two queues it never waits for, `thread`
the history thread and `client` the adapter. Phases and the writer task are
ClientLink's; here the service sends the frames of a conversation in a legal order,
with others and undecodable bytes between.

**Updater.** An install lists a release, downloads, checks, stages and replaces;
`archives` and `checksums` are the assets of each version, which the release
workflow (`.github/workflows/release.yml`) publishes and, run again, replaces one at
a time; it builds nothing that does not report the version of its tag. That a
maintainer puts another build there by hand (`BuildByHand`), or withdraws a release,
is external. A build is what it reports as its version and which build it is; SHA-256
tells archives apart.

**Credentials, OperatorLogin, AgentActivation.** `Credentials` is what the other two
share: `identity.rs` and `operator.rs` keep a secret in the same way. Several
processes over the shared files and the keychain, one action per request or file
operation, each of which may fail; `Fail` is an error or a kill before the next
step, `Tear...` a kill or full disk within `fs::write`. Reading the session (file,
then keychain) is one step. `api`, `claims` and `agents` are the API, which is
external. `saved`, `alone`, `out`, `known` and `raced` are history variables.

## 3. Runs

| Run | Question | Bounds |
|---|---|---|
| `Session` | safety and liveness of the worker, for any user | 3 frames each way, 2 conversations |
| `SessionAgreement` | status and intent agree with the service when nothing is on its way | 4 frames, 2 conversations, `PatientUser` |
| `EventLog` | the log implements the stream; crashes, failed writes, every call ends | 3 events, 1 reader |
| `ControlPlane` | the outcome of a call tells the truth, closed is reported, everything ends | 2 calls, a queue of 1 |
| `HistoryStore` | append-only; printed in order up to the first torn write; complete only when the sequences are, and the messages unless a write was torn | 3 messages, 2 recoveries after the client's writes |
| `Connect` | the foreground loop resumes and retries | 3 frames, 2 conversations, `ObedientUser` |
| `Resilient` | a reconnect resumes what the service holds, and every `send` ends | 2 frames, 1 conversation, 2 senders, queues of 2 and 1 |
| `Connection` | no gaps in the stream, the history is what was shown, the codec inverts | 5 frames, queues of 2, small widths |
| `Updater` | vouched builds only, newer ones only, the latest in the end | 2 installs, 2 releases, 4 builds |
| `OperatorLogin` | approved sessions only, a logout holds, an approved login is kept and finished | 2 processes, 2 logins |
| `AgentActivation` | the key the API knows and the undecided claim are kept | 2 processes, 2 keys, 2 claims |
| `SessionCloseRefused` | a sentence of `docs/PROTOCOL.md` the code does not keep (PROJECT.json, findings) | 3 frames |

Bounds. Three frames each way let a NEXT (two frames) and one more command be
under way at once, and any two answers; two conversations let a frame meant for
the first be handled in the second. The service leaves one slot free for replies
when the peer speaks (`EmitWithRoom`), so a full socket delays it and never stops
it. Three events let a reader fall behind by more than one, with one in
the middle of being written. One reader suffices for TLC because readers share
nothing but what the worker writes; `EventLog` itself is for any set of them.
With two calls and a queue of one, one command is performed while another waits
in the queue, or waits for room in it while both callers give up; a third call
would wait in the same place as the second. Three messages let the second be lost
or torn and the third follow it; each is empty or has the fields of a record for its
payload, so that a file can be misread as a whole one; two recoveries race each
other. `Overlap` FALSE
lets them begin when the client has stopped writing. With `Overlap` TRUE
`CompleteIsWhole` does not hold: when the client's own `begin` failed (or comes
late), a recovery creates the file, writes the messages so far and has `finish`
mark the row complete, and the client, which never looks at the result of its
`begin`, appends the next message behind it (`lib.rs:161`, `history.rs:231`). Nor
does `AppendOnly`: `begin` does not open the file for append (`history.rs:83`), so a
recovery still at its header writes over what the client has appended.
`PatientUser` restricts the user to one search request on its way: without it
`StatusAgreesWithService` does not hold, because a second `find` sent before the
first SEARCHING is handled in whatever phase the first has led to, and its answer
changes the status after the fact. The status guard (`session.rs:675`) does not
prevent it. `ObedientUser` lets the user of `connect` type what fits the last
event printed; the loop itself checks nothing and the service answers anything
else with an ERROR.

In `Resilient` two frames each way hold the FIND of a reconnect and one command
behind it; the queues are small so that a full one, a command queued behind the
close and an event without room all happen; a second conversation adds nothing,
since the loop does not know which one it is in. In `Connection` the two queues of 2
fill within 5 frames, which are a conversation, a stray frame and the start of the
next; the codec is checked with a 2-byte `u64`, a 3-byte `u32`, a 1-byte id,
messages of at most 2 bytes and strings of at most 255, on every frame of the
samples in `MCClientConnection` and every byte string of up to 5 sample bytes behind
every opcode and its neighbours, so that every length is met at, below and beyond
its limit. Four builds are two releases and one rebuild (by the workflow or by hand) beside what is shipped; two
installs overtake each other. Two processes race in every pair of commands, and two
logins, keys or claims are the least with which one can displace another.

Fairness. `WF(WorkerStep)` and `WF(LoopStep)`: the tokio runtime polls a task
that is ready, and the delays of the back-off pass. `WF(ServiceReplies)`: the
service answers what it received. Nothing is assumed of users, of peers, or of
failures; where a property needs the network to hold from some point on, it says
so (`NetworkHolds`). In `EventLog` handlers run, timers fire, and a dead worker
refuses connections. In `ControlPlane` the deadlines of `start` and of a call
pass, the worker's tasks run, and a send on a socket ends because the operating
system gives a dead one up; nothing is assumed of the worker's life.
In `Resilient`, `select!` chooses among its ready branches at random, so it
passes over none for ever; its `NetworkHolds` also excludes an oversized message,
which ends a connection without the network's doing. In `OperatorLogin` and
`Updater` a command that has begun goes on, because every request ends by its
15 s timeout; their liveness is stated for a system in which, from some point
on, nothing fails and somebody goes on asking. In `ClientConnection` only the
history thread is fair. `HistoryStore` and `AgentActivation` claim no liveness.

Disagreements between the documents and the code. One has a run,
`SessionCloseRefused`, where the writer task has died of an oversized message and
every later close is refused. The following six are stated in the modules and not
listed in a cfg; added as an INVARIANT, with the constants of
`SessionCloseRefused.cfg` (`Connect.cfg` and `HistoryStore.cfg` for the last two), TLC
finds each violated:

* `FailedCanBeClosed`: "`failed` | `session close` | `closed`" (PROTOCOL.md:341),
  but a worker that cannot write an event sets the status failed and returns
  (`session.rs:620`), and no endpoint is left to close it.
* `DismissedMeansNoSearch`: "Cancel an active search without closing the session"
  (PROTOCOL.md:315), but outside the status searching `cancel` is acknowledged and
  sends nothing (`session.rs:703`), also with a FIND on its way.
* `NextIsRemembered`: "Leave the peer and immediately find another"
  (PROTOCOL.md:313), but the PEER_LEFT that answers the LEAVE of a `next` clears
  the intent (`session.rs:781`), so a loss before its SEARCHING forgets the search.
* `SessionWorker.NothingBeforeReady`: CLOSE is valid in "any post-handshake phase"
  (PROTOCOL.md:155), but `close` is accepted while the status is starting
  (`session.rs:704`), and a worker whose channel ends sends CLOSE (`session.rs:608`),
  both also on a connection whose READY is yet to come. `ReadyFirst` excepts these.
* `ForegroundConnect.ReadyFirst`: "A client MUST wait for `READY`"
  (PROTOCOL.md:133), but the FIND of a reconnect is sent at once (`main.rs:428`,
  and `lib.rs:354` for the resilient client).
* `HistoryStore.IncompleteIsDetected`: "compare locally stored sequences with
  `1..final_seq` to detect an incomplete history" (PROTOCOL.md:211), but when the
  payload of message 1 is lost (`history.rs:115`), the history thread goes on
  (`lib.rs:161`) and `read` takes message 2 for it (`history.rs:177-209`); if message 2
  has the bytes of a record 2, the sequences match and `finish` writes "complete"
  (`history.rs:125-132`).

Others have no definition: a PEER_LEFT takes `matched` to `peer_left`
(`session.rs:805`), an edge the state table omits; the release check of `connect`
is awaited for up to five seconds (`main.rs:367`), where README.md:120 calls it
non-blocking.

What else the code does that a user may not expect, met while modelling:

* A `find`, `cancel` or `leave` of a session that is answered with an error has
  changed the intent all the same (`session.rs:716`): after the reconnect that
  follows, the search is made, or not made, as if it had been acknowledged.
* `cancel` leaves `should_find` set in the foreground adapter (`main.rs:446`) and
  in the resilient client, so a reconnect searches again; a rate limited MESSAGE is
  answered with a FIND (`main.rs:459`). The resilient client does not repeat a
  refused FIND.
* Commands sent while the resilient client reconnects are applied behind the FIND
  of the reconnect; a queued LEAVE then clears `should_find` for a search that
  goes on (`stray` in `OnlyStrayLeaveForgets`). During the back-off it does not
  notice that the last handle is gone. A full event queue or an unreadable key
  ends its loop.
* A running worker that reads a half-written line is reported as
  `worker_reachable: false` (`session.rs:269`); a `start` whose own status request
  fails reports an error and leaves its worker running (`session.rs:232`).
* When the history queue is full at a PEER_LEFT and again at the next MATCHED, the
  conversation recorded under stays the old one, and messages are filed there;
  errors have been reported by then (`HistoryIsShown` ends at the first one).
  A recovery that was killed half-way leaves a file that no later
  `aingle history` repairs (`history.rs:228`).
* A status or a waiting login that has been answered "approved" saves its session
  also after a logout that ran meanwhile; `LoggedOutStaysOut` is about logouts
  that met no other command (`alone`). Deleting a pending login or claim removes
  the file whichever one it holds by then (`DisplacesLogin`, `DisplacesClaim`: the
  exceptions name the process whose step it is).
* Logging out of a session the API refuses fails every time and leaves it in
  place; with a locked keychain `logout` tells the API nothing and leaves the
  keychain entry, and only the reference to it is deleted. A login whose profile
  request fails, for any reason, begins a new login. A pending login hides an
  active session from `operator status`.
* Two `init`s that save their first keys at once: the last one wins, also when the
  other has made its claim (`raced` in `KnownKeyIsKept`). A kill within `fs::write`
  leaves a damaged identity or `config.toml` that ends every later command.

## 4. Proofs

`ClientLinkProofs`: every action of the link keeps `LinkTypeOK` and `LinkInv`.
`LinkInv` says that the frames on their way form a chain of phases that starts at
`view` and ends at the service's `phase`, up to the CANCEL nobody acknowledges.
It is what makes the worker's properties inductive: `record_event` assigns the
status without looking at the old one, and only the chain says which old ones
there can be.

`SessionWorkerProofs`: `WorkerInv` (the chain, the place in the loop, and the
status each view allows) is inductive; from it follow `TypeOK`,
`StatusCoherent`, `ReadyFirst`, `StatusFollowsFrames`,
`AcknowledgedFindIsRemembered`, `ExitExplained` and `StateTransitions`.
(`ReadyFirst` needs one thing more, that a worker which has ended leaves on its
connection what was there, or the CLOSE it ended with: `DoneSends`.)

`AgreementInv` is the second invariant, for what holds when nothing is on its way.
That state cannot be reasoned about alone: each of its parts says what the status or
the intent is *unless* a frame or command that will still change it is on its way,
and `Queued`, `NoneOf` and `LastOf` of `ClientLinkProofs` say how sending, taking
and handling change what is on its way: `PhaseIsDue` is the status that is due once
all of it is handled (`StatusDueIn`), `SearchIsDue` the intent that is, and
`OneSearch` that a patient user's frames can start one search at most. With nothing
there the exceptions vanish: `IntentAgreesWithService` follows for every user, and
so does that the status shows a conversation, and its id, exactly while there is one
and never misses a search (`ConversationAgrees`); the whole of
`StatusAgreesWithService` and `CancelEndsSearch` for a `PatientUser`, without whom
they do not hold (section 3). The only assumptions are `BoundsAssumption` (a socket
holds at least two frames) and `PatientUserAssumption` (a Boolean: both kinds of
user).

`EventLogProofs`: `LogInv` (the cursors in the log are those counted in memory up
to the line being written, session.json is never behind them, and what each
caller has seen is tied to a prefix of the log) is inductive; `LogInvariance`
gives `TypeOK`, `PersistedCoversLog`, `ClosedLogIsComplete`,
`ClosedAnswerIsFinal`, `AnswersAreFresh`, and with it `Refinement` shows that
`EventLog` implements `EventStream` for any set of readers and any number of
events: the writer's steps extend the stream or stutter, and an answer is exactly
what its reader lacks. The only assumption is `EventsAssumption`. The lemmas
`SuffixAtCursor` and `CatchUp` say what a filter by cursor returns from a log
whose cursors are its indices.

`ControlPlaneProofs`: `PlaneInv` is inductive. `CommandShape` ties the queue, the
command the loop is in and the tasks together (a command that waits has not been
performed, and none waits twice), `CallerShape` says that who was told something
by the worker was told the truth and that its task has ended, `CloseShape` that a
closed session has no loop. `Refinement` then maps every step: `Send` and a failed
send are `Perform`, the steps of a caller `Report` or a stutter, all others
stutters. `NothingAfterClose`, `ClosedIsReported` and `TypeOK` follow from the same
invariant, for any set of calls and any queue; `QueueAssumption` is all that is
assumed.

`ConnectionProofs` holds what is proved of the bytes a client receives and of the
files they end in.

* Codec: `ClientRoundTrip`, `ServerRoundTrip`, `ClientCanonical`, `ServerCanonical`
  and `HelloUnderstood` say that encoding and decoding are each other's inverse, for
  every frame, every byte string and all widths and limits (`CodecAssumption`); with
  `WireIsUnderstood`, that what is decoded is what was sent, they give `CodecAgrees`.
  An integer is `Shifted` or `ReadInt` digit by digit. That such a recursive function
  exists and is computed by its equation is proved here for functions on `0 .. N`
  (`Recursion`), with an induction over a *set* of numbers that comes from the
  well-foundedness of `<` (`Induction`), so that it needs no operator as a parameter.
  The rest is where each field begins and ends in a concatenation (`JoinedParts`,
  `PartsJoined`).
* ClientConnection: `TypeInv` is inductive and needs the round trip, because the
  events are what decoding yields. `GapInv` adds to `NoGaps` that a reader which goes
  on is level with the frames taken, except for the network error it reports last.
  `ShownInv` adds to `HistoryIsShown` that the service speaks of a conversation that
  is going on (`InOrder`) and that the reader records under the one it has shown
  whenever one is going on (`Following`): `active` is set by a MATCHED and cleared by
  a PEER_LEFT, and only these two together with the service's order say that it is
  the right one. `NothingIsMissing`, `WhatIsShownIsRecorded`, `CodecAgreement` and
  `ConnectionTypeCorrectness` hold for any stream and queues of any size, from
  `ConnectionAssumption` (what the service sends is of the types of the protocol, and
  the frames of one connection can be counted in a `u64`) and `StraysAreStray`: the
  strays are the encoding of no frame. That one is a hypothesis of the theorems and no
  ASSUME because it speaks of all frames, which TLC cannot enumerate; by
  `RefusedAreStray` it says that the decoder refuses every stray, as it does the one of
  the run, a MATCHED cut short (`WireAgrees`, a part of `CodecAgrees`).
* HistoryStore: types, for both values of `Overlap`. Without `Overlap`, `StoreInv` is
  inductive: one writer at a time owns the file (`OneWriter`, from `create_new` and
  the order in which writers follow each other); the records appended before the
  first torn write lie one behind the other from the header on (`KeptIsThere`), each
  message once and in order (`KeptInOrder`); until then there is nothing else in the
  file but the fields of the record being written (`NothingElse`); and what `finish`
  found is not changed before or after it writes it down (`FinishedIsFinal`). The
  reader follows lengths, so the proof does, too: as far as `kept` goes, `Offset`
  steps from one of its records to the next, whatever lies behind them; without a
  torn write it ends there. `CompleteIsWhole`, `PrintedIsSaid` and `AppendOnly`
  follow, for any number of recoveries and messages and anything they may say, from
  `HistoryAssumption`.

`ResilientClientProofs`: `ResilientInv` is inductive. To the chain of `LinkInv` it
adds `DepartureSeen` (a conversation that is over at the service is over in a
frame on its way) and `LoopShape`: while the loop serves, a search, or a
conversation that is not about to end, as the client *sees* it, is remembered or
`stray`. `OnlyStrayLeaveForgets` speaks of the phase at the service; with nothing
on its way the chain makes the two the same. `SilentAfterClose` and `TypeOK`
follow as well. Assumed are `ResilientAssumption` (queues hold at least one) and
`BoundsAssumption`.

`ForegroundConnectProofs`: `ConnectInv` is inductive. `ConversationGoesOn` says
that a conversation the loop has shown, or is about to, and not shown the end of is
going on at the service; `SearchIsDue` that a search or conversation of the service is
remembered unless a frame or a LEAVE that decides about it is on its way.
`SearchSurvivesReconnect` follows for an `ObedientUser`, `TypeOK` for every user,
from the assumptions of the module and `BoundsAssumption`.

`CommandProofs` holds what is proved of the three kinds of short-lived commands.
They share nothing but the names of `Credentials`.

* Updater: `UpdaterInv` says that a checksum which describes a build of its own
  version was published under it (`ChecksumsVouch`), and what an install knows at
  each of its steps (`InstallsAreSound`): the checksum is compared with the archive
  before the version it reports, and the two together make a build vouched.
  `OnlyVouchedBuilds` and `NewerThanItsRunner` follow, for any number of installs,
  versions and builds (`UpdaterAssumption`).
* Login: `LoginInv` says which places have a login in their hands (`HandShape`),
  what the API has said of it there (`WorkShape`: verdicts are never taken back),
  and that a logout nobody overlaps finds nothing put back behind its deletions
  (`LogoutShape`). It gives `LoginTypeOK`, `OnlyApprovedSessions`,
  `LoggedOutStaysOut` and `ApprovedLoginIsKept`, for any number of processes and
  logins (`LoginAssumption`).
* Activation: `ActivationInv` says that, unless two first keys were saved at once,
  one process at most is between `generate` and `write`, that there is no identity
  meanwhile, and that every key in use afterwards is the stored one (`KeysAgree`);
  and that a command deletes the claim file without a claim of its own or with one
  that has been decided (`ClaimsAreDecided`). `KnownKeyIsKept` and
  `PendingClaimIsKept` follow, for any number of processes, keys and claims
  (`ActivationAssumption`).

Type invariants and a few other invariants that are proved here (`StatusCoherent`,
`ExitExplained`, `AnswersAreFresh`, `SilentAfterClose`, and the inductive
invariants themselves) are not listed in the cfg files.

Only model-checked: the liveness properties (`FindReachesService`,
`SessionRecovers`, `LeavingIsTransient`, `CallsEnd`, `EverythingSettles`,
`RefusedSearchIsRetried`, `SearchIsResumed`, `SendsEnd`, `CatchesUp`,
`ApprovedLoginCompletes`, `HistoryIsWorkedOff`), which rest on fairness and ENABLED
and are out of the prover's reach. Every invariant and action property of a passing
run has a theorem.

## 5. Not modelled, and what is left

Left out of every model: message contents beyond the few bytes of the codec's
samples, display names, wording, timestamps and time (a delay is a step of any
length), and the signatures, TLS and HTTP of the API. What the operating system
does behind `rename` and `self_replace` is one step.

Not modelled: argument parsing, `doctor` and `report`, which are one-shot requests
and output without state of their own; `whoami` and `enrollment create`, which
read a session and change nothing here; the contents of `config.toml` (its
presence and whether it is whole are in `AgentActivation`).

Left of the plan: a refinement of `ClientLink` by `ClientConnection`, which today
share the code they model but not a variable.
