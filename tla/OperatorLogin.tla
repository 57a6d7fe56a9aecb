----------------------------- MODULE OperatorLogin -----------------------------
(***************************************************************************)
(* `aingle operator login | status | logout` (crates/aingle-cli/src/main.rs*)
(* with operator.rs and auth.rs of crates/aingle-client): processes that   *)
(* share a session file, an entry of the OS keychain and the file of a     *)
(* pending login, and may be killed between any two steps.                 *)
(*                                                                         *)
(* A login is what create_operator_device_authorization returns: a device  *)
(* code to poll and the session token it will be good for; both are named  *)
(* by one number.  whoami and enrollment create, like the profile request  *)
(* at the end of status, change nothing here and are left out.             *)
(*                                                                         *)
(* The API is external.  It knows a login until it is decided; a session   *)
(* it has ended is refused, also by logout.                                *)
(***************************************************************************)
EXTENDS Credentials

CONSTANT MaxLogins      \* logins the API creates in one behaviour

ASSUME LoginAssumption == MaxLogins \in Nat

Logins == 1 .. MaxLogins

VARIABLES
    pending,        \* operator-login.json: what it holds, and the login if it does
    api,            \* per login: what the API thinks of it
    held,           \* per process: the login or session it works on
    saved,          \* history: logins whose session has been saved
    alone,          \* history: the logouts while which no other process has had
                    \* a login or a session in its hands
    out             \* history: such a logout has succeeded and no login has been
                    \* begun since

sessionVars == <<file, keychain, pending>>
loginProcesses == <<at, waits, held>>
loginHistory == <<saved, alone, out>>
loginVars == <<sessionVars, api, loginProcesses, loginHistory>>

\* "refused": denied or expired; "ended": approved once, its session is over.
LoginVerdicts == {"unknown", "pending", "approved", "refused", "ended"}

LoginPlaces == {"idle",
           \* operator_login
           "profile", "authorize", "store", "reread",
           \* operator_status
           "poll", "keep", "refer", "save", "finish", "drop",
           \* operator_logout
           "leave", "forget", "remove", "clear"}

LoginTypeOK ==
    /\ file \in Contents({"absent", "damaged", "holds", "keychain"}, Logins)
    /\ keychain \in Logins \cup {None}
    /\ pending \in Contents({"absent", "damaged", "holds"}, Logins)
    /\ api \in [Logins -> LoginVerdicts]
    /\ at \in [Processes -> LoginPlaces]
    /\ waits \in [Processes -> BOOLEAN]
    /\ held \in [Processes -> Logins \cup {None}]
    /\ saved \subseteq Logins
    /\ alone \subseteq Processes /\ out \in BOOLEAN

LoginInit ==
    /\ file = Absent /\ keychain = None /\ pending = Absent
    /\ api = [n \in Logins |-> "unknown"]
    /\ at = [p \in Processes |-> "idle"]
    /\ waits = [p \in Processes |-> FALSE]
    /\ held = [p \in Processes |-> None]
    /\ saved = {} /\ alone = {} /\ out = FALSE

------------------------------------------------------------------------------

Hold(p, n) == held' = [held EXCEPT ![p] = n]

\* The command returns, with or without an error, or is killed.
LoginEnds(p) ==
    /\ Goto(p, "idle")
    /\ Hold(p, None)
    /\ waits' = [waits EXCEPT ![p] = FALSE]

\* Every request and file operation may fail, and a process may die before any
\* of its steps.
LoginFails(p) ==
    /\ at[p] # "idle"
    /\ LoginEnds(p)
    /\ UNCHANGED <<sessionVars, api, loginHistory>>

\* fs::write truncates and then writes: with a full disk, or killed between the
\* two, it leaves a file without its contents.  (A reader that meets a file in
\* between is like one that comes before the file is there.)
TearFile(p) ==
    /\ at[p] \in {"refer", "save"} /\ file' = Damaged
    /\ LoginEnds(p)
    /\ UNCHANGED <<keychain, pending, api, loginHistory>>

TearPending(p) ==
    /\ at[p] = "store" /\ pending' = Damaged
    /\ LoginEnds(p)
    /\ UNCHANGED <<file, keychain, api, loginHistory>>

\* What OperatorSession::load may return: the keychain may be locked.
Loads(n) == n = Stored \/ (file.kind = "keychain" /\ n = None)

------------------------------------------------------------------------------
(* operator_login                                                          *)

\* With a session that can be loaded its profile is asked for, else a login is
\* begun.
Login(p) ==
    /\ at[p] = "idle"
    /\ waits' \in {waits, [waits EXCEPT ![p] = TRUE]}
    /\ \E n \in Logins \cup {None} :
         /\ Loads(n) /\ Hold(p, n)
         /\ Goto(p, IF n # None THEN "profile" ELSE "authorize")
    /\ alone' = {}
    /\ UNCHANGED <<sessionVars, api, saved, out>>

\* "active" is printed for a session that is; any error begins a new login.
LoginProfile(p) ==
    /\ at[p] = "profile"
    /\ \/ api[held[p]] = "approved" /\ LoginEnds(p)
       \/ Goto(p, "authorize") /\ Hold(p, None) /\ UNCHANGED waits
    /\ UNCHANGED <<sessionVars, api, loginHistory>>

Authorize(p) ==
    /\ at[p] = "authorize"
    /\ \E n \in Logins :
         /\ api[n] = "unknown" /\ \A m \in 1 .. n - 1 : api[m] # "unknown"
         /\ api' = [api EXCEPT ![n] = "pending"]
         /\ Hold(p, n)
    /\ Goto(p, "store")
    /\ alone' = {} /\ out' = FALSE
    /\ UNCHANGED <<sessionVars, waits, saved>>

\* PendingOperatorLogin::save replaces the login that was pending.  With --wait
\* operator_status follows.
StorePending(p) ==
    /\ at[p] = "store"
    /\ pending' = Holds(held[p])
    /\ IF waits[p] THEN Goto(p, "reread") /\ UNCHANGED <<waits, held>>
                   ELSE LoginEnds(p)
    /\ UNCHANGED <<file, keychain, api, loginHistory>>

------------------------------------------------------------------------------
(* operator_status                                                         *)

\* Mutant of ReadsPending: who has a session is not asked to finish a login.
ReadsPendingLoggedOut == pending.kind = "holds" /\ Stored = None

\* Without a pending login that can be read it is whoami.
ReadsPending == pending.kind = "holds"

Status(p) ==
    /\ at[p] = "idle" /\ ReadsPending
    /\ Hold(p, pending.n)
    /\ Goto(p, "poll")
    /\ alone' = {}
    /\ UNCHANGED <<sessionVars, api, waits, saved, out>>

\* After login --wait, whichever login is pending by then.
Reread(p) ==
    /\ at[p] = "reread"
    /\ \/ ReadsPending /\ Hold(p, pending.n) /\ Goto(p, "poll")
         /\ UNCHANGED waits
       \/ ~ReadsPending /\ LoginEnds(p)
    /\ UNCHANGED <<sessionVars, api, loginHistory>>

\* Mutant of Approved: whatever is not refused is taken.
NotRefused(verdict) == verdict # "refused"

Approved(verdict) == verdict = "approved"

\* What the API may answer; of a login whose session is over it may still say
\* that it was approved.
Answers(n) == IF api[n] = "ended" THEN {"approved", "refused"} ELSE {api[n]}

\* Mutant of PollApproved: the pending login is deleted before its session is
\* saved.
PollApprovedDeleting(p) ==
    /\ at[p] = "poll"
    /\ \E verdict \in Answers(held[p]) : Approved(verdict)
    /\ pending' = Absent
    /\ Goto(p, "keep")
    /\ waits' = [waits EXCEPT ![p] = FALSE]
    /\ UNCHANGED <<file, keychain, api, held, loginHistory>>

PollApproved(p) ==
    /\ at[p] = "poll"
    /\ \E verdict \in Answers(held[p]) : Approved(verdict)
    /\ Goto(p, "keep")
    /\ waits' = [waits EXCEPT ![p] = FALSE]
    /\ UNCHANGED <<sessionVars, api, held, loginHistory>>

\* With --wait "pending" is asked again in two seconds.
PollLoginPending(p) ==
    /\ at[p] = "poll" /\ "pending" \in Answers(held[p])
    /\ ~waits[p] /\ LoginEnds(p)
    /\ UNCHANGED <<sessionVars, api, loginHistory>>

PollRefused(p) ==
    /\ at[p] = "poll"
    /\ "refused" \in Answers(held[p])
    /\ Goto(p, "drop")
    /\ waits' = [waits EXCEPT ![p] = FALSE]
    /\ UNCHANGED <<sessionVars, api, held, loginHistory>>

\* OperatorSession::save: the keychain, and then the file, with the token only if
\* the keychain has not taken it.
SaveSessionKeychain(p) ==
    /\ at[p] = "keep"
    /\ \/ keychain' = held[p] /\ Goto(p, "refer")
       \/ UNCHANGED keychain /\ Goto(p, "save")
    /\ UNCHANGED <<file, pending, api, waits, held, loginHistory>>

SaveSessionFile(p) ==
    /\ \/ at[p] = "refer" /\ file' = InKeychain
       \/ at[p] = "save" /\ file' = Holds(held[p])
    /\ saved' = saved \cup {held[p]}
    /\ Goto(p, "finish")
    /\ UNCHANGED <<keychain, pending, api, waits, held, alone, out>>

\* PendingOperatorLogin::delete removes the file, whichever login it holds; the
\* profile request that follows an approval changes nothing.
DropPending(p) ==
    /\ at[p] \in {"finish", "drop"}
    /\ pending' = Absent
    /\ LoginEnds(p)
    /\ UNCHANGED <<file, keychain, api, loginHistory>>

------------------------------------------------------------------------------
(* operator_logout                                                         *)

\* A session that cannot be loaded is not logged out of, only deleted.
Logout(p) ==
    /\ at[p] = "idle"
    /\ \E n \in Logins \cup {None} :
         /\ Loads(n) /\ Hold(p, n)
         /\ Goto(p, IF n # None THEN "leave" ELSE "forget")
    /\ alone' = IF \A q \in Processes : held[q] = None THEN {p} ELSE {}
    /\ UNCHANGED <<sessionVars, api, waits, saved, out>>

\* An error of the API ends the command (Fail), before anything is deleted.  The
\* API may have ended the session and the answer been lost.
EndSession(p) ==
    /\ at[p] = "leave" /\ api[held[p]] = "approved"
    /\ api' = [api EXCEPT ![held[p]] = "ended"]
    /\ \/ Goto(p, "forget") /\ Hold(p, None) /\ UNCHANGED waits
       \/ LoginEnds(p)
    /\ UNCHANGED <<sessionVars, loginHistory>>

\* Errors of the keychain are ignored.
ForgetKeychain(p) ==
    /\ at[p] = "forget"
    /\ keychain' \in {keychain, None}
    /\ Goto(p, "remove")
    /\ UNCHANGED <<file, pending, api, waits, held, loginHistory>>

RemoveFile(p) ==
    /\ at[p] = "remove"
    /\ file' = Absent
    /\ Goto(p, "clear")
    /\ UNCHANGED <<keychain, pending, api, waits, held, loginHistory>>

\* Mutant of ClearPending: only the session is deleted.
ClearNothing(p) ==
    /\ at[p] = "clear"
    /\ out' = (p \in alone \/ out)
    /\ LoginEnds(p)
    /\ UNCHANGED <<file, keychain, pending, api, saved, alone>>

ClearPending(p) ==
    /\ at[p] = "clear"
    /\ pending' = Absent
    /\ out' = (p \in alone \/ out)
    /\ LoginEnds(p)
    /\ UNCHANGED <<file, keychain, api, saved, alone>>

------------------------------------------------------------------------------
(* The API (external).                                                     *)

\* The operator decides in the browser, or the login expires.
DecideLogin(n) ==
    /\ api[n] = "pending"
    /\ \E verdict \in {"approved", "refused"} :
         api' = [api EXCEPT ![n] = verdict]
    /\ UNCHANGED <<sessionVars, loginProcesses, loginHistory>>

\* A session expires.
SessionExpires(n) ==
    /\ api[n] = "approved"
    /\ api' = [api EXCEPT ![n] = "ended"]
    /\ UNCHANGED <<sessionVars, loginProcesses, loginHistory>>

------------------------------------------------------------------------------

LoginStep(p) == LoginProfile(p) \/ Authorize(p) \/ StorePending(p)

OperatorStatusStep(p) ==
    \/ Reread(p) \/ PollApproved(p) \/ PollLoginPending(p) \/ PollRefused(p)
    \/ SaveSessionKeychain(p) \/ SaveSessionFile(p) \/ DropPending(p)

LogoutStep(p) ==
    EndSession(p) \/ ForgetKeychain(p) \/ RemoveFile(p) \/ ClearPending(p)

LoginTrouble(p) == LoginFails(p) \/ TearFile(p) \/ TearPending(p)

LoginNext ==
    \/ \E p \in Processes :
         \/ Login(p) \/ LoginStep(p) \/ Status(p) \/ OperatorStatusStep(p)
         \/ Logout(p) \/ LogoutStep(p) \/ LoginTrouble(p)
    \/ \E n \in Logins : DecideLogin(n) \/ SessionExpires(n)

LoginSpec == LoginInit /\ [][LoginNext]_loginVars

\* A command that has begun goes on, to its end or to an error.
LoginFairness ==
    \A p \in Processes :
        WF_loginVars(\/ LoginStep(p) \/ OperatorStatusStep(p) \/ LogoutStep(p)
                     \/ LoginTrouble(p))

LoginFairSpec == LoginSpec /\ LoginFairness

------------------------------------------------------------------------------
(* What the commands promise.                                              *)

\* A token that can be loaded belongs to a login the operator has approved,
\* whoever saved it, however many commands run and wherever they are killed.
OnlyApprovedSessions ==
    \A n \in Logins :
        n = keychain \/ n = file.n => api[n] \in {"approved", "ended"}

\* After a logout nobody is logged in until somebody begins a new login: no
\* session is left, and no pending login that a later status could finish.
LoggedOutStaysOut == out => Stored = None /\ pending.kind # "holds"

\* A login the operator has approved is not lost: it stays pending until its
\* session has been saved, whatever dies in between, unless another login or a
\* logout takes its place, or a command still at work on another one deletes it.
\* It is p that does so, in this step.
DisplacesLogin(p, n) ==
    /\ at'[p] # at[p]
    /\ \/ at[p] \in {"store", "clear"}
       \/ at[p] \in {"finish", "drop"} /\ held[p] # n

ApprovedLoginIsKept ==
    [][\A n \in Logins :
         pending = Holds(n) /\ pending' # pending /\ api[n] = "approved" =>
             n \in saved \/ \E p \in Processes : DisplacesLogin(p, n)]_loginVars

\* From some point on nothing fails, no session expires, and nobody logs in or out;
\* somebody goes on asking for the status.
LoginsSettle ==
    <>[][/\ \A p \in Processes : ~LoginTrouble(p) /\ ~Login(p) /\ ~Logout(p)
         /\ \A n \in Logins : ~SessionExpires(n)]_loginVars
KeepsAsking == \A p \in Processes : WF_loginVars(Status(p))

\* Then an approved login is finished, wherever an earlier status was killed.
ApprovedLoginCompletes ==
    LoginsSettle /\ KeepsAsking =>
        \A n \in Logins :
            pending = Holds(n) /\ api[n] = "approved" ~> pending # Holds(n)

------------------------------------------------------------------------------
(* The inductive invariant, for CommandProofs.                             *)

EmptyHanded == {"idle", "authorize", "forget", "remove", "clear"}

\* A process works on a login or a session wherever the code has one.
HandShape == \A p \in Processes : held[p] = None <=> at[p] \in EmptyHanded

\* What the API has said of it stays true: no verdict is taken back, and a
\* session ends only once.
WorkShape ==
    \A p \in Processes :
        /\ at[p] \in {"keep", "refer", "save", "finish"} =>
             api[held[p]] \in {"approved", "ended"}
        /\ at[p] = "finish" => held[p] \in saved
        /\ at[p] = "drop" => api[held[p]] \in {"refused", "ended"}

\* A logout while nobody else has anything to save finds nothing put back behind
\* its deletion of the file.
LogoutShape ==
    /\ \A p \in alone :
         /\ \A q \in Processes \ {p} : held[q] = None
         /\ at[p] \in {"idle", "leave", "forget", "remove", "clear"}
         /\ at[p] = "clear" => file = Absent
    /\ out => /\ file = Absent /\ pending = Absent
              /\ \A q \in Processes : held[q] = None

PendingNamed == pending.kind = "holds" => pending.n \in Logins

LoginInv ==
    /\ LoginTypeOK /\ PendingNamed
    /\ HandShape /\ WorkShape /\ LogoutShape /\ OnlyApprovedSessions

===============================================================================
