----------------------------- MODULE CommandProofs -----------------------------
(***************************************************************************)
(* What the commands that do their work and end promise: `aingle update`   *)
(* (Updater), `aingle operator` (OperatorLogin), `aingle init` and `aingle *)
(* claim` (AgentActivation), for any number of processes.  No statement is *)
(* about two of them: Processes, file, keychain, at and waits stand for    *)
(* those of the module it is about.                                        *)
(***************************************************************************)
EXTENDS Updater, OperatorLogin, AgentActivation, TLAPS

(* Updater.                                                                 *)

LEMMA ShippedIsBuild == Shipped \in Builds /\ 0 \in Versions
  BY UpdaterAssumption DEF Shipped, Builds, Versions

\* Init establishes the invariant.
LEMMA UpdaterInitSound == UpdaterInit => UpdaterInv
<1> SUFFICES ASSUME UpdaterInit PROVE UpdaterInv
  OBVIOUS
<1>1. UpdaterTypeOK
  BY ShippedIsBuild, UpdaterAssumption DEF UpdaterInit, UpdaterTypeOK, Versions, Steps
<1>2. OnlyVouchedBuilds /\ ChecksumsVouch
  BY ShippedIsBuild DEF UpdaterInit, OnlyVouchedBuilds, ChecksumsVouch
<1>3. InstallsAreSound
  BY DEF UpdaterInit, InstallsAreSound
<1> QED
  BY <1>1, <1>2, <1>3 DEF UpdaterInv

\* A build made for a release is one more build.
LEMMA NewBuildFits ==
    ASSUME UpdaterTypeOK, builds < MaxBuilds, NEW reports \in Versions
    PROVE  NewBuild(reports) \in Builds /\ builds + 1 \in 1 .. MaxBuilds
  BY UpdaterAssumption DEF UpdaterTypeOK, NewBuild, Builds

\* Nothing an install has checked is affected by a step of the releases.
LEMMA InstallsStay ==
    ASSUME InstallsAreSound, UNCHANGED installVars, vouched \subseteq vouched'
    PROVE  InstallsAreSound'
  BY DEF InstallsAreSound, installVars

LEMMA PublishSound == UpdaterInv /\ Publish => UpdaterInv'
<1> SUFFICES ASSUME UpdaterInv, Publish PROVE UpdaterInv'
  OBVIOUS
<1> USE DEF UpdaterInv
<1> DEFINE build == NewBuild(latest')
<1>1. /\ built' = [built EXCEPT ![latest'] = build]
      /\ archives' = [archives EXCEPT ![latest'] = build]
      /\ checksums' = [checksums EXCEPT ![latest'] = build]
      /\ Vouch(latest', build)
  BY DEF Publish
<1>2. latest' \in Versions
  BY UpdaterAssumption DEF Publish, UpdaterTypeOK, Versions
<1>3. build \in Builds /\ builds' \in 1 .. MaxBuilds
  BY <1>2, NewBuildFits DEF Publish
<1> HIDE DEF build
<1>4. vouched \subseteq vouched' /\ vouched' \subseteq Builds
  BY <1>1, <1>3 DEF Vouch, UpdaterTypeOK
<1>5. UpdaterTypeOK'
  BY <1>1, <1>2, <1>3, <1>4 DEF UpdaterTypeOK, Publish, installVars
<1>6. OnlyVouchedBuilds'
  BY <1>4 DEF OnlyVouchedBuilds, Publish, installVars
<1>7. ChecksumsVouch'
  <2> SUFFICES ASSUME NEW v \in Versions, checksums'[v].reports = v
               PROVE  checksums'[v] \in vouched'
    BY DEF ChecksumsVouch
  <2>1. CASE v = latest'
    BY <2>1, <1>1, <1>2 DEF UpdaterTypeOK, Vouch
  <2>2. CASE v # latest'
    BY <2>2, <1>1, <1>4 DEF UpdaterTypeOK, ChecksumsVouch
  <2> QED
    BY <2>1, <2>2
<1>8. InstallsAreSound'
  BY <1>4, InstallsStay DEF Publish
<1> QED
  BY <1>5, <1>6, <1>7, <1>8

LEMMA RebuildSound ==
    ASSUME NEW v \in Versions, UpdaterInv, Rebuild(v) \/ BuildByHand(v)
    PROVE  UpdaterInv'
<1> USE DEF UpdaterInv
<1>1. PICK reports \in Versions : BuildAgain(v, reports)
  BY DEF Rebuild, BuildByHand
<1>2. NewBuild(reports) \in Builds /\ builds' \in 1 .. MaxBuilds
  BY <1>1, NewBuildFits DEF BuildAgain
<1>3. UpdaterTypeOK'
  BY <1>1, <1>2 DEF UpdaterTypeOK, BuildAgain, installVars
<1>4. OnlyVouchedBuilds' /\ ChecksumsVouch'
  BY <1>1 DEF OnlyVouchedBuilds, ChecksumsVouch, BuildAgain, installVars
<1>5. InstallsAreSound'
  BY <1>1, InstallsStay DEF BuildAgain
<1> QED
  BY <1>3, <1>4, <1>5

LEMMA UploadSound ==
    ASSUME NEW v \in Versions, UpdaterInv, UploadArchive(v) \/ UploadChecksum(v)
    PROVE  UpdaterInv'
<1> USE DEF UpdaterInv
<1>1. CASE UploadArchive(v)
  <2>1. UpdaterTypeOK'
    BY <1>1 DEF UpdaterTypeOK, UploadArchive, installVars
  <2>2. OnlyVouchedBuilds' /\ ChecksumsVouch'
    BY <1>1 DEF OnlyVouchedBuilds, ChecksumsVouch, UploadArchive, installVars
  <2> QED
    BY <1>1, <2>1, <2>2, InstallsStay DEF UploadArchive
<1>2. CASE UploadChecksum(v)
  <2>1. /\ checksums' = [checksums EXCEPT ![v] = built[v]]
        /\ Vouch(v, built[v]) /\ built[v] \in Builds
    BY <1>2 DEF UploadChecksum, UpdaterTypeOK
  <2>2. vouched \subseteq vouched' /\ vouched' \subseteq Builds
    BY <2>1 DEF Vouch, UpdaterTypeOK
  <2>3. UpdaterTypeOK'
    BY <1>2, <2>1, <2>2 DEF UpdaterTypeOK, UploadChecksum, installVars
  <2>4. OnlyVouchedBuilds'
    BY <1>2, <2>2 DEF OnlyVouchedBuilds, UploadChecksum, installVars
  <2>5. ChecksumsVouch'
    <3> SUFFICES ASSUME NEW w \in Versions, checksums'[w].reports = w
                 PROVE  checksums'[w] \in vouched'
      BY DEF ChecksumsVouch
    <3> QED
      BY <2>1, <2>2 DEF UpdaterTypeOK, Vouch, ChecksumsVouch
  <2>6. InstallsAreSound'
    BY <1>2, <2>2, InstallsStay DEF UploadChecksum
  <2> QED
    BY <2>3, <2>4, <2>5, <2>6
<1> QED
  BY <1>1, <1>2

LEMMA WithdrawSound == UpdaterInv /\ Withdraw => UpdaterInv'
<1> SUFFICES ASSUME UpdaterInv, Withdraw PROVE UpdaterInv'
  OBVIOUS
<1> USE DEF UpdaterInv
<1>1. UpdaterTypeOK'
  BY UpdaterAssumption DEF UpdaterTypeOK, Withdraw, Versions, installVars
<1>2. OnlyVouchedBuilds' /\ ChecksumsVouch'
  BY DEF OnlyVouchedBuilds, ChecksumsVouch, Withdraw, installVars
<1> QED
  BY <1>1, <1>2, InstallsStay DEF Withdraw

\* An install that starts, or fetches an archive.
LEMMA FetchSound ==
    ASSUME NEW i \in Installs, UpdaterInv,
           List(i) \/ DownloadArchive(i) \/ DownloadDamaged(i)
    PROVE  UpdaterInv'
<1> USE DEF UpdaterInv, Step, releaseVars
<1>1. CASE List(i)
  <2>1. UpdaterTypeOK'
    BY <1>1 DEF UpdaterTypeOK, List, Steps, Builds
  <2>2. OnlyVouchedBuilds' /\ ChecksumsVouch'
    BY <1>1 DEF OnlyVouchedBuilds, ChecksumsVouch, List
  <2>3. InstallsAreSound'
    BY <1>1 DEF InstallsAreSound, List, UpdateAvailable, UpdaterTypeOK, Steps
  <2> QED
    BY <2>1, <2>2, <2>3
<1>2. CASE DownloadArchive(i) \/ DownloadDamaged(i)
  <2>1. UpdaterTypeOK'
    BY <1>2, UpdaterAssumption
    DEF UpdaterTypeOK, DownloadArchive, DownloadDamaged, Steps, Builds
  <2>2. OnlyVouchedBuilds' /\ ChecksumsVouch'
    BY <1>2
    DEF OnlyVouchedBuilds, ChecksumsVouch, DownloadArchive, DownloadDamaged
  <2>3. InstallsAreSound'
    BY <1>2
    DEF InstallsAreSound, DownloadArchive, DownloadDamaged, UpdaterTypeOK, Steps
  <2> QED
    BY <2>1, <2>2, <2>3
<1> QED
  BY <1>1, <1>2

\* An install that checks what it has.
LEMMA CheckSound ==
    ASSUME NEW i \in Installs, UpdaterInv, VerifyChecksum(i) \/ Stage(i)
    PROVE  UpdaterInv'
<1> USE DEF UpdaterInv, Step, releaseVars
<1>1. UpdaterTypeOK'
  BY DEF UpdaterTypeOK, VerifyChecksum, Stage, Steps
<1>2. OnlyVouchedBuilds' /\ ChecksumsVouch'
  BY DEF OnlyVouchedBuilds, ChecksumsVouch, VerifyChecksum, Stage
<1>3. InstallsAreSound'
  <2>1. CASE VerifyChecksum(i)
    <3>1. archive[i].reports = target[i] => archive[i] \in vouched
      BY <2>1 DEF VerifyChecksum, Described, ChecksumsVouch, UpdaterTypeOK
    <3> QED
      BY <2>1, <3>1 DEF InstallsAreSound, VerifyChecksum, UpdaterTypeOK
  <2>2. CASE Stage(i)
    BY <2>2 DEF InstallsAreSound, Stage, ReportsTarget, UpdaterTypeOK
  <2> QED
    BY <2>1, <2>2
<1> QED
  BY <1>1, <1>2, <1>3

\* An install that ends, with the executable replaced or not.
LEMMA EndSound ==
    ASSUME NEW i \in Installs, UpdaterInv,
           Replace(i) \/ Reject(i) \/ InstallFails(i)
    PROVE  UpdaterInv'
<1> USE DEF UpdaterInv, releaseVars
<1>1. InstallEnds(i) /\ UNCHANGED releaseVars
  BY DEF Replace, Reject, InstallFails
<1>2. executable' \in vouched
  BY DEF Replace, Reject, InstallFails, OnlyVouchedBuilds, InstallsAreSound
<1>3. UpdaterTypeOK'
  BY <1>1, <1>2, ShippedIsBuild DEF UpdaterTypeOK, InstallEnds, Step, Steps
<1>4. OnlyVouchedBuilds' /\ ChecksumsVouch'
  BY <1>1, <1>2 DEF OnlyVouchedBuilds, ChecksumsVouch
<1>5. InstallsAreSound'
  BY <1>1 DEF InstallsAreSound, InstallEnds, Step, UpdaterTypeOK
<1> QED
  BY <1>3, <1>4, <1>5

LEMMA UpdaterStepSound == UpdaterInv /\ [UpdaterNext]_updaterVars => UpdaterInv'
<1> SUFFICES ASSUME UpdaterInv, [UpdaterNext]_updaterVars PROVE UpdaterInv'
  OBVIOUS
<1>1. CASE Release
  BY <1>1, PublishSound, WithdrawSound, RebuildSound, UploadSound DEF Release
<1>2. ASSUME NEW i \in Installs, List(i) \/ Proceed(i) \/ InstallTrouble(i)
      PROVE  UpdaterInv'
  BY <1>2, FetchSound, CheckSound, EndSound DEF Proceed, InstallTrouble
<1>3. CASE UNCHANGED updaterVars
  BY <1>3
  DEF updaterVars, releaseVars, installVars, UpdaterInv, UpdaterTypeOK,
      OnlyVouchedBuilds,
      ChecksumsVouch, InstallsAreSound
<1> QED
  BY <1>1, <1>2, <1>3 DEF UpdaterNext

\* The inductive invariant holds in every reachable state.
THEOREM UpdaterInvariance == UpdaterSpec => []UpdaterInv
<1>1. UpdaterInit => UpdaterInv
  BY UpdaterInitSound
<1>2. UpdaterInv /\ [UpdaterNext]_updaterVars => UpdaterInv'
  BY UpdaterStepSound
<1> QED
  BY <1>1, <1>2, PTL DEF UpdaterSpec

\* Every variable of the releases and the installs stays in its type.
THEOREM UpdaterTypes == UpdaterSpec => []UpdaterTypeOK
<1>1. UpdaterInv => UpdaterTypeOK
  BY DEF UpdaterInv
<1> QED
  BY <1>1, UpdaterInvariance, PTL

\* The executable is always a whole build that the checksum of the version it
\* reports has described.
THEOREM BuildsAreVouched == UpdaterSpec => []OnlyVouchedBuilds
<1>1. UpdaterInv => OnlyVouchedBuilds
  BY DEF UpdaterInv
<1> QED
  BY <1>1, UpdaterInvariance, PTL

\* Nobody installs a version that is not newer than the program it runs.
THEOREM ReplacementIsNewer == UpdaterSpec => NewerThanItsRunner
<1> DEFINE Newer == executable' # executable =>
             \E i \in Installs : step[i] = "staged" /\ own[i] < executable'.reports
<1>1. UpdaterInv /\ [UpdaterNext]_updaterVars => [Newer]_updaterVars
  <2> SUFFICES ASSUME UpdaterInv, UpdaterNext, executable' # executable
               PROVE  Newer
    BY DEF updaterVars, installVars
  <2>1. PICK i \in Installs : Replace(i)
    BY DEF UpdaterNext, Release, Proceed, InstallTrouble, Publish, Withdraw, Rebuild,
       BuildByHand, BuildAgain, UploadArchive, UploadChecksum, installVars, List, DownloadArchive,
       DownloadDamaged, VerifyChecksum, Stage, Reject, InstallFails
  <2>2. step[i] = "staged" /\ executable' = archive[i]
    BY <2>1 DEF Replace
  <2>3. own[i] < executable'.reports
    BY <2>2 DEF UpdaterInv, InstallsAreSound
  <2> QED
    BY <2>2, <2>3
<1> QED
  BY <1>1, UpdaterInvariance, PTL DEF UpdaterSpec, NewerThanItsRunner

------------------------------------------------------------------------------
(* OperatorLogin.  One lemma per action: a process that ends, in whatever   *)
(* way, is covered by EndShape; the others are split by the parts of        *)
(* LoginInv.                                                                *)

LEMMA NoneIsNoLogin == None \notin Logins
  BY LoginAssumption DEF None, Logins

\* What the files are given is what they may hold.
LEMMA SessionContentsFit ==
    /\ Absent \in Contents({"absent", "damaged", "holds"}, Logins)
    /\ Absent \in Contents({"absent", "damaged", "holds", "keychain"}, Logins)
    /\ Damaged \in Contents({"absent", "damaged", "holds"}, Logins)
    /\ Damaged \in Contents({"absent", "damaged", "holds", "keychain"}, Logins)
    /\ InKeychain \in Contents({"absent", "damaged", "holds", "keychain"}, Logins)
    /\ \A n \in Logins :
         /\ Holds(n) \in Contents({"absent", "damaged", "holds"}, Logins)
         /\ Holds(n) \in Contents({"absent", "damaged", "holds", "keychain"}, Logins)
  BY DEF Contents, Absent, Damaged, InKeychain, Holds

\* Without a file there is no session to load.
LEMMA NoSession ==
    /\ file = Absent => Stored = None
    /\ \A n : file = Absent /\ Loads(n) => n = None
<1>1. file = Absent => file.kind = "absent"
  BY DEF Absent
<1>2. file.kind = "absent" => file.kind # "holds" /\ file.kind # "keychain"
  OBVIOUS
<1>3. file = Absent => Stored = None
  BY <1>1, <1>2, Zenon DEF Stored
<1> QED
  BY <1>1, <1>2, <1>3 DEF Loads

\* A process that ends has nothing in its hands, and the others keep what they
\* have.
LEMMA LoginEndFrees ==
    ASSUME LoginTypeOK, NEW p \in Processes, LoginEnds(p)
    PROVE  /\ at' \in [Processes -> LoginPlaces]
           /\ waits' \in [Processes -> BOOLEAN]
           /\ held' \in [Processes -> Logins \cup {None}]
           /\ at'[p] = "idle" /\ held'[p] = None
           /\ \A q \in Processes \ {p} : at'[q] = at[q] /\ held'[q] = held[q]
  BY DEF LoginTypeOK, LoginEnds, Goto, Hold, LoginPlaces

LEMMA EndShape ==
    ASSUME LoginTypeOK, HandShape, WorkShape, NEW p \in Processes, LoginEnds(p),
           UNCHANGED <<api, saved>>
    PROVE  HandShape' /\ WorkShape'
<1>1. HandShape'
  BY LoginEndFrees DEF HandShape, EmptyHanded
<1>2. WorkShape'
  BY LoginEndFrees DEF WorkShape
<1> QED
  BY <1>1, <1>2

\* A command that fails, is killed, or has nothing more to do.
LEMMA QuitSound ==
    ASSUME LoginInv, NEW p \in Processes, LoginTrouble(p) \/ PollLoginPending(p)
    PROVE  LoginInv'
<1> USE NoneIsNoLogin DEF LoginInv, sessionVars, loginHistory, LoginTrouble,
    LoginFails,
                          TearFile, TearPending, PollLoginPending
<1>1. LoginEnds(p) /\ UNCHANGED <<api, saved>>
  OBVIOUS
<1>2. LoginTypeOK'
  BY <1>1, LoginEndFrees, SessionContentsFit DEF LoginTypeOK
<1>3. PendingNamed'
  BY DEF PendingNamed, Absent, Damaged
<1>4. HandShape' /\ WorkShape'
  BY <1>1, EndShape
<1>5. LogoutShape'
  BY <1>1, LoginEndFrees DEF LogoutShape, HandShape, EmptyHanded, LoginTypeOK
<1>6. OnlyApprovedSessions'
  BY DEF OnlyApprovedSessions, Absent, Damaged
<1> QED
  BY <1>2, <1>3, <1>4, <1>5, <1>6

LEMMA LoginSound ==
    ASSUME LoginInv, NEW p \in Processes, Login(p) PROVE LoginInv'
<1> USE NoneIsNoLogin DEF LoginInv, LoginTypeOK, sessionVars, Login, Goto, Hold
<1>1. PICK n \in Logins \cup {None} :
        /\ Loads(n) /\ Hold(p, n)
        /\ Goto(p, IF n # None THEN "profile" ELSE "authorize")
  OBVIOUS
<1>2. waits' \in [Processes -> BOOLEAN]
  OBVIOUS
<1>3. LoginTypeOK'
  BY <1>1, <1>2 DEF LoginPlaces
<1>4. PendingNamed' /\ OnlyApprovedSessions'
  BY DEF PendingNamed, OnlyApprovedSessions
<1>5. HandShape' /\ WorkShape'
  BY <1>1 DEF HandShape, WorkShape, EmptyHanded
<1>6. LogoutShape'
  BY <1>1, NoSession DEF LogoutShape
<1> QED
  BY <1>3, <1>4, <1>5, <1>6

LEMMA LoginProfileSound ==
    ASSUME LoginInv, NEW p \in Processes, LoginProfile(p) PROVE LoginInv'
<1> USE NoneIsNoLogin DEF LoginInv, LoginTypeOK, sessionVars, loginProcesses,
                          loginHistory, Goto, LoginProfile, Hold, LoginEnds
<1>1. LoginTypeOK'
  BY DEF Contents, LoginPlaces, LoginVerdicts
<1>2. PendingNamed'
  BY DEF PendingNamed, HandShape, EmptyHanded
<1>3. HandShape'
  BY DEF HandShape, EmptyHanded
<1>4. WorkShape'
  BY DEF WorkShape, HandShape, EmptyHanded
<1>5. LogoutShape'
  BY DEF LogoutShape, HandShape, EmptyHanded, Absent
<1>6. OnlyApprovedSessions'
  BY DEF OnlyApprovedSessions, WorkShape
<1> QED
  BY <1>1, <1>2, <1>3, <1>4, <1>5, <1>6

\* A new login: no session is of it yet.
LEMMA AuthorizeSound ==
    ASSUME LoginInv, NEW p \in Processes, Authorize(p) PROVE LoginInv'
<1> USE NoneIsNoLogin DEF LoginInv, LoginTypeOK, sessionVars, loginProcesses,
                          loginHistory, Goto, Authorize, Hold
<1>1. LoginTypeOK'
  BY DEF LoginPlaces, LoginVerdicts
<1>2. PendingNamed'
  BY DEF PendingNamed, HandShape, EmptyHanded
<1>3. HandShape'
  BY DEF HandShape, EmptyHanded
<1>4. WorkShape'
  BY DEF WorkShape, HandShape, EmptyHanded
<1>5. LogoutShape'
  BY DEF LogoutShape, HandShape, EmptyHanded, Absent
<1>6. OnlyApprovedSessions'
  BY DEF OnlyApprovedSessions, WorkShape
<1> QED
  BY <1>1, <1>2, <1>3, <1>4, <1>5, <1>6

LEMMA StorePendingSound ==
    ASSUME LoginInv, NEW p \in Processes, StorePending(p) PROVE LoginInv'
<1> USE NoneIsNoLogin DEF LoginInv, sessionVars, loginHistory, StorePending
<1>1. held[p] \in Logins
  BY DEF LoginTypeOK, HandShape, EmptyHanded
<1>2. PendingNamed' /\ OnlyApprovedSessions'
  BY <1>1 DEF PendingNamed, OnlyApprovedSessions, Holds
<1>3. CASE waits[p]
  <2> USE <1>3 DEF Goto
  <2>1. LoginTypeOK'
    BY <1>1, SessionContentsFit DEF LoginTypeOK, LoginPlaces
  <2>2. HandShape' /\ WorkShape'
    BY DEF LoginTypeOK, HandShape, WorkShape, EmptyHanded
  <2>3. LogoutShape'
    BY <1>1 DEF LoginTypeOK, LogoutShape
  <2> QED
    BY <1>2, <2>1, <2>2, <2>3
<1>4. CASE ~waits[p]
  <2>1. LoginEnds(p) /\ UNCHANGED <<api, saved>>
    BY <1>4
  <2>2. LoginTypeOK'
    BY <1>1, <2>1, LoginEndFrees, SessionContentsFit DEF LoginTypeOK
  <2>3. HandShape' /\ WorkShape'
    BY <2>1, EndShape
  <2>4. LogoutShape'
    BY <1>1, <2>1, LoginEndFrees DEF LoginTypeOK, LogoutShape
  <2> QED
    BY <1>2, <2>2, <2>3, <2>4
<1> QED
  BY <1>3, <1>4

LEMMA StatusSound ==
    ASSUME LoginInv, NEW p \in Processes, Status(p) PROVE LoginInv'
<1> USE NoneIsNoLogin DEF LoginInv, LoginTypeOK, sessionVars, loginProcesses,
                          loginHistory, Goto, Status, Hold, ReadsPending
<1>1. LoginTypeOK'
  BY DEF Contents, LoginPlaces, LoginVerdicts
<1>2. PendingNamed'
  BY DEF PendingNamed, HandShape, EmptyHanded
<1>3. HandShape'
  BY DEF PendingNamed, HandShape, EmptyHanded
<1>4. WorkShape'
  BY DEF WorkShape, HandShape, EmptyHanded
<1>5. LogoutShape'
  BY DEF LogoutShape, HandShape, EmptyHanded, Absent
<1>6. OnlyApprovedSessions'
  BY DEF OnlyApprovedSessions, WorkShape
<1> QED
  BY <1>1, <1>2, <1>3, <1>4, <1>5, <1>6

LEMMA RereadSound ==
    ASSUME LoginInv, NEW p \in Processes, Reread(p) PROVE LoginInv'
<1> USE NoneIsNoLogin DEF LoginInv, LoginTypeOK, sessionVars, loginProcesses,
                          loginHistory, Goto, Reread, ReadsPending, Hold, LoginEnds
<1>1. LoginTypeOK'
  BY DEF Contents, LoginPlaces, LoginVerdicts
<1>2. PendingNamed'
  BY DEF PendingNamed, HandShape, EmptyHanded
<1>3. HandShape'
  BY DEF PendingNamed, HandShape, EmptyHanded
<1>4. WorkShape'
  BY DEF WorkShape, HandShape, EmptyHanded
<1>5. LogoutShape'
  BY DEF LogoutShape, HandShape, EmptyHanded, Absent
<1>6. OnlyApprovedSessions'
  BY DEF OnlyApprovedSessions, WorkShape
<1> QED
  BY <1>1, <1>2, <1>3, <1>4, <1>5, <1>6

\* What the API approves stays approved, or ends.
LEMMA PollApprovedSound ==
    ASSUME LoginInv, NEW p \in Processes, PollApproved(p) PROVE LoginInv'
<1> USE NoneIsNoLogin DEF LoginInv, LoginTypeOK, sessionVars, loginProcesses,
                          loginHistory, Goto, PollApproved, Approved, Answers
<1>1. LoginTypeOK'
  BY DEF Contents, LoginPlaces, LoginVerdicts
<1>2. PendingNamed'
  BY DEF PendingNamed, HandShape, EmptyHanded
<1>3. HandShape'
  BY DEF HandShape, EmptyHanded
<1>4. WorkShape'
  BY DEF WorkShape, HandShape, EmptyHanded
<1>5. LogoutShape'
  BY DEF LogoutShape, HandShape, EmptyHanded, Absent
<1>6. OnlyApprovedSessions'
  BY DEF OnlyApprovedSessions, WorkShape
<1> QED
  BY <1>1, <1>2, <1>3, <1>4, <1>5, <1>6

\* ... and what it refuses is never approved.
LEMMA PollRefusedSound ==
    ASSUME LoginInv, NEW p \in Processes, PollRefused(p) PROVE LoginInv'
<1> USE NoneIsNoLogin DEF LoginInv, LoginTypeOK, sessionVars, loginProcesses,
                          loginHistory, Goto, PollRefused, Answers
<1>1. LoginTypeOK'
  BY DEF Contents, LoginPlaces, LoginVerdicts
<1>2. PendingNamed'
  BY DEF PendingNamed, HandShape, EmptyHanded
<1>3. HandShape'
  BY DEF HandShape, EmptyHanded
<1>4. WorkShape'
  BY DEF WorkShape, HandShape, EmptyHanded
<1>5. LogoutShape'
  BY DEF LogoutShape, HandShape, EmptyHanded, Absent
<1>6. OnlyApprovedSessions'
  BY DEF OnlyApprovedSessions, WorkShape
<1> QED
  BY <1>1, <1>2, <1>3, <1>4, <1>5, <1>6

LEMMA SaveKeychainSound ==
    ASSUME LoginInv, NEW p \in Processes, SaveSessionKeychain(p) PROVE LoginInv'
<1> USE NoneIsNoLogin DEF LoginInv, LoginTypeOK, sessionVars, loginProcesses,
                          loginHistory, Goto, SaveSessionKeychain
<1>1. LoginTypeOK'
  BY DEF Contents, LoginPlaces, LoginVerdicts
<1>2. PendingNamed'
  BY DEF PendingNamed, HandShape, EmptyHanded
<1>3. HandShape'
  BY DEF HandShape, EmptyHanded
<1>4. WorkShape'
  BY DEF WorkShape, HandShape, EmptyHanded
<1>5. LogoutShape'
  BY DEF LogoutShape, HandShape, EmptyHanded, Absent
<1>6. OnlyApprovedSessions'
  BY DEF OnlyApprovedSessions, WorkShape
<1> QED
  BY <1>1, <1>2, <1>3, <1>4, <1>5, <1>6

LEMMA SaveFileSound ==
    ASSUME LoginInv, NEW p \in Processes, SaveSessionFile(p) PROVE LoginInv'
<1> USE NoneIsNoLogin DEF LoginInv, LoginTypeOK, sessionVars, loginProcesses,
                          loginHistory, Goto, SaveSessionFile, Holds, InKeychain
<1>1. LoginTypeOK'
  BY SessionContentsFit DEF HandShape, EmptyHanded, LoginPlaces
<1>2. PendingNamed'
  BY DEF PendingNamed, HandShape, EmptyHanded
<1>3. HandShape'
  BY DEF HandShape, EmptyHanded
<1>4. WorkShape'
  BY DEF WorkShape, HandShape, EmptyHanded
<1>5. LogoutShape'
  BY DEF LogoutShape, HandShape, EmptyHanded, Absent
<1>6. OnlyApprovedSessions'
  BY DEF OnlyApprovedSessions, WorkShape
<1> QED
  BY <1>1, <1>2, <1>3, <1>4, <1>5, <1>6

LEMMA DropPendingSound ==
    ASSUME LoginInv, NEW p \in Processes, DropPending(p) PROVE LoginInv'
<1> USE NoneIsNoLogin DEF LoginInv, sessionVars, loginHistory, DropPending
<1>1. LoginEnds(p) /\ UNCHANGED <<api, saved>>
  OBVIOUS
<1>2. LoginTypeOK'
  BY <1>1, LoginEndFrees, SessionContentsFit DEF LoginTypeOK
<1>3. PendingNamed'
  BY DEF PendingNamed, Absent, Damaged
<1>4. HandShape' /\ WorkShape'
  BY <1>1, EndShape
<1>5. LogoutShape'
  BY <1>1, LoginEndFrees DEF LogoutShape, HandShape, EmptyHanded, LoginTypeOK
<1>6. OnlyApprovedSessions'
  BY DEF OnlyApprovedSessions, Absent, Damaged
<1> QED
  BY <1>2, <1>3, <1>4, <1>5, <1>6

LEMMA LogoutSound ==
    ASSUME LoginInv, NEW p \in Processes, Logout(p) PROVE LoginInv'
<1> USE NoneIsNoLogin DEF LoginInv, LoginTypeOK, sessionVars, Logout, Goto, Hold
<1>1. PICK n \in Logins \cup {None} :
        /\ Loads(n) /\ Hold(p, n)
        /\ Goto(p, IF n # None THEN "leave" ELSE "forget")
  OBVIOUS
<1>2. LoginTypeOK'
  BY <1>1 DEF LoginPlaces
<1>3. PendingNamed' /\ OnlyApprovedSessions'
  BY DEF PendingNamed, OnlyApprovedSessions
<1>4. HandShape' /\ WorkShape'
  BY <1>1 DEF HandShape, WorkShape, EmptyHanded
<1>5. \A q \in alone' :
        /\ q = p /\ at'[q] \in {"leave", "forget"}
        /\ \A r \in Processes \ {q} : held'[r] = None
  BY <1>1
<1>6. out' => /\ file' = Absent /\ pending' = Absent
             /\ \A q \in Processes : held'[q] = None
  BY <1>1, NoSession DEF LogoutShape
<1>7. LogoutShape'
  BY <1>5, <1>6 DEF LogoutShape
<1> QED
  BY <1>2, <1>3, <1>4, <1>7

LEMMA EndSessionSound ==
    ASSUME LoginInv, NEW p \in Processes, EndSession(p) PROVE LoginInv'
<1> USE NoneIsNoLogin DEF LoginInv, LoginTypeOK, sessionVars, loginProcesses,
                          loginHistory, Goto, EndSession, Hold, LoginEnds
<1>1. LoginTypeOK'
  BY DEF Contents, LoginPlaces, LoginVerdicts
<1>2. PendingNamed'
  BY DEF PendingNamed, HandShape, EmptyHanded
<1>3. HandShape'
  BY DEF HandShape, EmptyHanded
<1>4. WorkShape'
  BY DEF WorkShape, HandShape, EmptyHanded
<1>5. LogoutShape'
  BY DEF LogoutShape, HandShape, EmptyHanded, Absent
<1>6. OnlyApprovedSessions'
  BY DEF OnlyApprovedSessions, WorkShape
<1> QED
  BY <1>1, <1>2, <1>3, <1>4, <1>5, <1>6

LEMMA ForgetKeychainSound ==
    ASSUME LoginInv, NEW p \in Processes, ForgetKeychain(p) PROVE LoginInv'
<1> USE NoneIsNoLogin DEF LoginInv, LoginTypeOK, sessionVars, loginProcesses,
                          loginHistory, Goto, ForgetKeychain
<1>1. LoginTypeOK'
  BY DEF Contents, LoginPlaces, LoginVerdicts
<1>2. PendingNamed'
  BY DEF PendingNamed, HandShape, EmptyHanded
<1>3. HandShape'
  BY DEF HandShape, EmptyHanded
<1>4. WorkShape'
  BY DEF WorkShape, HandShape, EmptyHanded
<1>5. LogoutShape'
  BY DEF LogoutShape, HandShape, EmptyHanded, Absent
<1>6. OnlyApprovedSessions'
  BY DEF OnlyApprovedSessions, WorkShape
<1> QED
  BY <1>1, <1>2, <1>3, <1>4, <1>5, <1>6

LEMMA RemoveFileSound ==
    ASSUME LoginInv, NEW p \in Processes, RemoveFile(p) PROVE LoginInv'
<1> USE NoneIsNoLogin DEF LoginInv, LoginTypeOK, sessionVars, loginProcesses,
                          loginHistory, Goto, RemoveFile, Absent
<1>1. LoginTypeOK'
  BY DEF Contents, LoginPlaces, LoginVerdicts
<1>2. PendingNamed'
  BY DEF PendingNamed, HandShape, EmptyHanded
<1>3. HandShape'
  BY DEF HandShape, EmptyHanded
<1>4. WorkShape'
  BY DEF WorkShape, HandShape, EmptyHanded
<1>5. LogoutShape'
  BY DEF LogoutShape, HandShape, EmptyHanded
<1>6. OnlyApprovedSessions'
  BY DEF OnlyApprovedSessions, WorkShape
<1> QED
  BY <1>1, <1>2, <1>3, <1>4, <1>5, <1>6

\* Here out becomes true: the file is gone, and whoever else there is has nothing
\* to save.
LEMMA ClearPendingSound ==
    ASSUME LoginInv, NEW p \in Processes, ClearPending(p) PROVE LoginInv'
<1> USE NoneIsNoLogin DEF LoginInv, sessionVars, loginHistory, ClearPending
<1>1. LoginEnds(p) /\ UNCHANGED <<api, saved>>
  OBVIOUS
<1>2. LoginTypeOK'
  BY <1>1, LoginEndFrees, SessionContentsFit DEF LoginTypeOK
<1>3. PendingNamed'
  BY DEF PendingNamed, Absent, Damaged
<1>4. HandShape' /\ WorkShape'
  BY <1>1, EndShape
<1>5. LogoutShape'
  BY <1>1, LoginEndFrees DEF LogoutShape, HandShape, EmptyHanded, LoginTypeOK
<1>6. OnlyApprovedSessions'
  BY DEF OnlyApprovedSessions, Absent, Damaged
<1> QED
  BY <1>2, <1>3, <1>4, <1>5, <1>6

\* The API decides what is pending and ends what is approved, and takes nothing
\* back.
LEMMA ApiSound ==
    ASSUME LoginInv, NEW n \in Logins, DecideLogin(n) \/ SessionExpires(n)
    PROVE  LoginInv'
<1> USE NoneIsNoLogin DEF LoginInv, DecideLogin, SessionExpires, sessionVars,
                          loginProcesses, loginHistory
<1>1. LoginTypeOK'
  BY DEF LoginTypeOK, LoginVerdicts
<1>2. PendingNamed' /\ HandShape' /\ LogoutShape'
  BY DEF PendingNamed, HandShape, LogoutShape
<1>3. \A m \in Logins :
        /\ api[m] \in {"approved", "ended"} => api'[m] \in {"approved", "ended"}
        /\ api[m] \in {"refused", "ended"} => api'[m] \in {"refused", "ended"}
  BY DEF LoginTypeOK, LoginVerdicts
<1>4. WorkShape'
  BY <1>3 DEF LoginTypeOK, WorkShape, HandShape, EmptyHanded
<1>5. OnlyApprovedSessions'
  BY <1>3 DEF OnlyApprovedSessions
<1> QED
  BY <1>1, <1>2, <1>4, <1>5

LEMMA LoginInitSound == LoginInit => LoginInv
<1> SUFFICES ASSUME LoginInit PROVE LoginInv
  OBVIOUS
<1>1. LoginTypeOK
  BY SessionContentsFit DEF LoginInit, LoginTypeOK, LoginPlaces, LoginVerdicts
<1>2. PendingNamed /\ HandShape /\ WorkShape /\ LogoutShape
  BY DEF LoginInit, PendingNamed, HandShape, WorkShape, LogoutShape, EmptyHanded,
         Absent
<1>3. OnlyApprovedSessions
  BY NoneIsNoLogin DEF LoginInit, OnlyApprovedSessions, Absent
<1> QED
  BY <1>1, <1>2, <1>3 DEF LoginInv

LEMMA LoginStepSound == LoginInv /\ [LoginNext]_loginVars => LoginInv'
<1> SUFFICES ASSUME LoginInv, [LoginNext]_loginVars PROVE LoginInv'
  OBVIOUS
<1>1. ASSUME NEW p \in Processes, Login(p) \/ LoginStep(p) PROVE LoginInv'
  BY <1>1, LoginSound, LoginProfileSound, AuthorizeSound, StorePendingSound
  DEF LoginStep
<1>2. ASSUME NEW p \in Processes, Status(p) \/ OperatorStatusStep(p) PROVE LoginInv'
  BY <1>2, StatusSound, RereadSound, PollApprovedSound, PollRefusedSound, QuitSound,
     SaveKeychainSound, SaveFileSound, DropPendingSound
  DEF OperatorStatusStep
<1>3. ASSUME NEW p \in Processes, Logout(p) \/ LogoutStep(p) PROVE LoginInv'
  BY <1>3, LogoutSound, EndSessionSound, ForgetKeychainSound, RemoveFileSound,
     ClearPendingSound
  DEF LogoutStep
<1>4. ASSUME NEW p \in Processes, LoginTrouble(p) PROVE LoginInv'
  BY <1>4, QuitSound
<1>5. ASSUME NEW n \in Logins, DecideLogin(n) \/ SessionExpires(n) PROVE LoginInv'
  BY <1>5, ApiSound
<1>6. CASE UNCHANGED loginVars
  BY <1>6
  DEF loginVars, sessionVars, loginProcesses, loginHistory, LoginInv, LoginTypeOK,
      PendingNamed,
      HandShape, WorkShape, LogoutShape, OnlyApprovedSessions
<1> QED
  BY <1>1, <1>2, <1>3, <1>4, <1>5, <1>6 DEF LoginNext

\* The inductive invariant holds in every reachable state.
THEOREM LoginInvariance == LoginSpec => []LoginInv
<1>1. LoginInit => LoginInv
  BY LoginInitSound
<1>2. LoginInv /\ [LoginNext]_loginVars => LoginInv'
  BY LoginStepSound
<1> QED
  BY <1>1, <1>2, PTL DEF LoginSpec

\* Every file, keychain entry and process stays in its type.
THEOREM LoginTypes == LoginSpec => []LoginTypeOK
<1>1. LoginInv => LoginTypeOK
  BY DEF LoginInv
<1> QED
  BY <1>1, LoginInvariance, PTL

\* A token that can be loaded belongs to a login the operator has approved.
THEOREM SessionsAreApproved == LoginSpec => []OnlyApprovedSessions
<1>1. LoginInv => OnlyApprovedSessions
  BY DEF LoginInv
<1> QED
  BY <1>1, LoginInvariance, PTL

\* After a logout that met no other command at work nothing can be loaded and no
\* login be finished until somebody begins a new one.
THEOREM LogoutLasts == LoginSpec => []LoggedOutStaysOut
<1>1. LoginInv => LoggedOutStaysOut
  BY NoSession DEF LoginInv, LogoutShape, LoggedOutStaysOut, Absent
<1> QED
  BY <1>1, LoginInvariance, PTL

\* An approved login goes only when its session has been saved or another command
\* takes its place.
THEOREM ApprovedLoginLasts == LoginSpec => ApprovedLoginIsKept
<1> DEFINE Kept == \A n \in Logins :
             pending = Holds(n) /\ pending' # pending /\ api[n] = "approved" =>
                 n \in saved \/ \E p \in Processes : DisplacesLogin(p, n)
<1>1. LoginInv /\ [LoginNext]_loginVars => [Kept]_loginVars
  <2> SUFFICES ASSUME LoginInv, LoginNext, NEW n \in Logins, pending = Holds(n),
                      pending' # pending, api[n] = "approved"
               PROVE  n \in saved \/ \E p \in Processes : DisplacesLogin(p, n)
    OBVIOUS
  <2>1. PICK p \in Processes :
          StorePending(p) \/ TearPending(p) \/ DropPending(p) \/ ClearPending(p)
    BY DEF LoginNext, LoginStep, OperatorStatusStep, LogoutStep, LoginTrouble,
           sessionVars, Login,
           LoginProfile, Authorize, Status, Reread, PollApproved, PollLoginPending,
           PollRefused, SaveSessionKeychain, SaveSessionFile, Logout, EndSession,
           ForgetKeychain, RemoveFile, LoginFails, TearFile, DecideLogin,
           SessionExpires
  <2> at \in [Processes -> LoginPlaces]
    BY DEF LoginInv, LoginTypeOK
  <2>2. CASE StorePending(p) \/ TearPending(p) \/ ClearPending(p)
    BY <2>2 DEF StorePending, TearPending, ClearPending, LoginEnds, Goto, DisplacesLogin
  <2>3. CASE DropPending(p) /\ held[p] # n
    BY <2>3 DEF DropPending, LoginEnds, Goto, DisplacesLogin
  <2>4. CASE DropPending(p) /\ held[p] = n
    BY <2>4 DEF DropPending, LoginInv, WorkShape
  <2> QED
    BY <2>1, <2>2, <2>3, <2>4
<1> QED
  BY <1>1, LoginInvariance, PTL DEF LoginSpec, ApprovedLoginIsKept

------------------------------------------------------------------------------
(* AgentActivation.                                                         *)

LEMMA NoneIsNeither == None \notin Keys /\ None \notin Claims
  BY DEF None, Keys, Claims

\* What the files are given is what they may hold, and they hold nothing else.
LEMMA KeyContentsFit ==
    /\ Absent.kind = "absent" /\ Absent.n = None
    /\ Damaged.kind = "damaged" /\ Damaged.n = None
    /\ InKeychain.kind = "keychain" /\ InKeychain.n = None
    /\ \A n : Holds(n).kind = "holds" /\ Holds(n).n = n
    /\ Absent \in Contents({"absent", "damaged", "keychain", "holds"}, Keys)
    /\ Damaged \in Contents({"absent", "damaged", "keychain", "holds"}, Keys)
    /\ InKeychain \in Contents({"absent", "damaged", "keychain", "holds"}, Keys)
    /\ \A n \in Keys \cup {None} :
         Holds(n) \in Contents({"absent", "damaged", "keychain", "holds"}, Keys)
    /\ Absent \in Contents({"absent", "damaged", "holds"}, Claims)
    /\ Damaged \in Contents({"absent", "damaged", "holds"}, Claims)
    /\ \A n \in Claims \cup {None} :
         Holds(n) \in Contents({"absent", "damaged", "holds"}, Claims)
  BY DEF Contents, Absent, Damaged, InKeychain, Holds

\* A process that ends has nothing in its hands.
LEMMA ActivationEndFrees ==
    ASSUME ActivationTypeOK, NEW p \in Processes, ActivationEnds(p)
    PROVE  /\ at' \in [Processes -> ActivationPlaces]
           /\ waits' \in [Processes -> BOOLEAN]
           /\ key' \in [Processes -> Keys \cup {None}]
           /\ claim' \in [Processes -> Claims \cup {None}]
           /\ at'[p] = "idle" /\ key'[p] = None /\ claim'[p] = None
           /\ \A q \in Processes \ {p} :
                at'[q] = at[q] /\ key'[q] = key[q] /\ claim'[q] = claim[q]
  BY DEF ActivationTypeOK, ActivationEnds, Goto, ActivationPlaces

\* A process that goes on.
LEMMA GotoMoves ==
    ASSUME ActivationTypeOK, NEW p \in Processes, NEW place \in ActivationPlaces,
           Goto(p, place)
    PROVE  /\ at' \in [Processes -> ActivationPlaces] /\ at'[p] = place
           /\ \A q \in Processes \ {p} : at'[q] = at[q]
  BY DEF ActivationTypeOK, Goto

------------------------------------------------------------------------------
(* Every variable stays in its type.                                       *)

LEMMA InitTyped == ActivationInit => ActivationTypeOK /\ KeysInHand
<1> SUFFICES ASSUME ActivationInit PROVE ActivationTypeOK /\ KeysInHand
  OBVIOUS
<1>1. key \in [Processes -> Keys \cup {None}]
      /\ claim \in [Processes -> Claims \cup {None}]
  BY DEF ActivationInit
<1>2. claims \in [Claims -> [key : Keys \cup {None}, verdict : ClaimVerdicts]]
  BY DEF ActivationInit, ClaimVerdicts
<1>3. 0 \in 0 .. MaxKeys
  BY ActivationAssumption
<1>4. ActivationTypeOK
  BY <1>1, <1>2, <1>3, KeyContentsFit DEF ActivationInit, ActivationTypeOK,
                                          ActivationPlaces
<1>5. KeysInHand
  BY DEF ActivationInit, KeysInHand, Saving, Keyed
<1> QED
  BY <1>4, <1>5

LEMMA StepTyped == ActivationTypeOK /\ KeysInHand
     /\ [ActivationNext]_activationVars => ActivationTypeOK' /\ KeysInHand'
<1> SUFFICES ASSUME ActivationTypeOK, KeysInHand, [ActivationNext]_activationVars
             PROVE ActivationTypeOK' /\ KeysInHand'
  OBVIOUS
<1> USE DEF agentVars, apiVars, activationHistory, activationProcesses, KeysInHand,
    Saving, Keyed
<1>1. {"idle", "generate", "keep", "refer", "write", "config", "enroll",
       "authenticate", "create", "store", "poll", "drop"} = ActivationPlaces
  BY DEF ActivationPlaces
<1>2. Stored \in Keys \cup {None}
  BY DEF Stored, ActivationTypeOK, Contents
<1>3. ASSUME NEW p \in Processes, FindIdentity(p)
      PROVE ActivationTypeOK' /\ KeysInHand'
  BY <1>1, <1>2, <1>3 DEF FindIdentity, Goto, ActivationTypeOK
<1>4. ASSUME NEW p \in Processes, Generate(p) PROVE ActivationTypeOK' /\ KeysInHand'
  <2>1. keys + 1 \in Keys /\ keys' \in 0 .. MaxKeys
    BY <1>4, ActivationAssumption DEF Generate, ActivationTypeOK, Keys
  <2>2. raced' \in BOOLEAN
    BY <1>4 DEF Generate
  <2> QED
    BY <1>1, <1>4, <2>1, <2>2, NoneIsNeither DEF Generate, Goto, ActivationTypeOK
<1>5. ASSUME NEW p \in Processes, SaveKeyKeychain(p)
      PROVE ActivationTypeOK' /\ KeysInHand'
  BY <1>1, <1>5 DEF SaveKeyKeychain, Goto, ActivationTypeOK
<1>6. ASSUME NEW p \in Processes, SaveKeyFile(p)
      PROVE ActivationTypeOK' /\ KeysInHand'
  <2>1. key[p] \in Keys \cup {None}
    BY DEF ActivationTypeOK
  <2>2. file' \in Contents({"absent", "damaged", "keychain", "holds"}, Keys)
    BY <1>6, <2>1, KeyContentsFit DEF SaveKeyFile
  <2> QED
    BY <1>1, <1>6, <2>2 DEF SaveKeyFile, Goto, ActivationTypeOK
<1>7. ASSUME NEW p \in Processes, LoadConfig(p) PROVE ActivationTypeOK' /\ KeysInHand'
  <2>1. CASE ActivationEnds(p)
    BY <1>7, <2>1, ActivationEndFrees DEF LoadConfig, ActivationTypeOK
  <2>2. CASE \E next \in {"enroll", "authenticate"} :
               Goto(p, next) /\ UNCHANGED <<waits, key, claim>>
    BY <1>1, <1>7, <2>2 DEF LoadConfig, Goto, ActivationTypeOK
  <2> QED
    BY <1>7, <2>1, <2>2 DEF LoadConfig
<1>8. ASSUME NEW p \in Processes, Enroll(p) PROVE ActivationTypeOK' /\ KeysInHand'
  <2>1. key[p] \in Keys
    BY <1>8 DEF Enroll, ActivationTypeOK
  <2>2. CASE ActivationEnds(p)
    BY <1>8, <2>1, <2>2, ActivationEndFrees DEF Enroll, ActivationTypeOK
  <2>3. CASE Goto(p, "drop") /\ UNCHANGED <<waits, key, claim>>
    BY <1>1, <1>8, <2>1, <2>3 DEF Enroll, Goto, ActivationTypeOK
  <2> QED
    BY <1>8, <2>2, <2>3 DEF Enroll
<1>9. ASSUME NEW p \in Processes, Authenticate(p)
      PROVE ActivationTypeOK' /\ KeysInHand'
  BY <1>1, <1>9 DEF Authenticate, Goto, ActivationTypeOK
<1>10. ASSUME NEW p \in Processes, CreateClaim(p)
       PROVE ActivationTypeOK' /\ KeysInHand'
  <2>1. key[p] \in Keys
    BY <1>10 DEF CreateClaim, ActivationTypeOK
  <2>2. PICK c \in Claims :
          /\ claims' = [claims EXCEPT ![c] = [key |-> key[p], verdict |-> "pending"]]
          /\ \/ /\ claim' = [claim EXCEPT ![p] = c]
                /\ Goto(p, "store") /\ UNCHANGED <<waits, key>>
             \/ ActivationEnds(p)
    BY <1>10 DEF CreateClaim
  <2>3. /\ claims' \in [Claims -> [key : Keys \cup {None}, verdict : ClaimVerdicts]]
        /\ \A d \in Claims : claims'[d].verdict # "unknown" => claims'[d].key # None
    BY <2>1, <2>2, NoneIsNeither DEF ActivationTypeOK, ClaimVerdicts
  <2>4. CASE ActivationEnds(p)
    BY <1>10, <2>1, <2>3, <2>4, ActivationEndFrees DEF CreateClaim, ActivationTypeOK
  <2>5. CASE /\ claim' = [claim EXCEPT ![p] = c]
             /\ Goto(p, "store") /\ UNCHANGED <<waits, key>>
    BY <1>1, <1>10, <2>1, <2>3, <2>5 DEF CreateClaim, Goto, ActivationTypeOK
  <2> QED
    BY <2>2, <2>4, <2>5
<1>11. ASSUME NEW p \in Processes, StoreClaim(p) \/ DropClaim(p)
       PROVE ActivationTypeOK' /\ KeysInHand'
  <2>1. claimFile' \in Contents({"absent", "damaged", "holds"}, Claims)
    BY <1>11, KeyContentsFit DEF StoreClaim, DropClaim, ActivationTypeOK
  <2> QED
    BY <1>11, <2>1, ActivationEndFrees DEF StoreClaim, DropClaim, ActivationTypeOK
<1>12. ASSUME NEW p \in Processes, ClaimStatus(p)
       PROVE ActivationTypeOK' /\ KeysInHand'
  <2>1. claimFile.n \in Claims \cup {None}
    BY DEF ActivationTypeOK, Contents
  <2>2. waits' \in [Processes -> BOOLEAN]
    BY <1>12 DEF ClaimStatus, ActivationTypeOK
  <2> QED
    BY <1>1, <1>12, <2>1, <2>2 DEF ClaimStatus, Goto, ActivationTypeOK
<1>13. ASSUME NEW p \in Processes, PollFinal(p) PROVE ActivationTypeOK' /\ KeysInHand'
  BY <1>1, <1>13 DEF PollFinal, Goto, ActivationTypeOK
<1>14. ASSUME NEW p \in Processes, PollClaimPending(p) \/ ActivationFails(p)
       PROVE ActivationTypeOK' /\ KeysInHand'
  BY <1>14, ActivationEndFrees DEF PollClaimPending, ActivationFails, ActivationTypeOK
<1>15. ASSUME NEW p \in Processes, Tear(p) PROVE ActivationTypeOK' /\ KeysInHand'
  <2>1. /\ file' \in Contents({"absent", "damaged", "keychain", "holds"}, Keys)
        /\ claimFile' \in Contents({"absent", "damaged", "holds"}, Claims)
        /\ config' \in {"absent", "damaged", "whole"}
    BY <1>15, KeyContentsFit DEF Tear, ActivationTypeOK
  <2> QED
    BY <1>15, <2>1, ActivationEndFrees DEF Tear, ActivationTypeOK
<1>16. ASSUME NEW c \in Claims, DecideClaim(c) PROVE ActivationTypeOK' /\ KeysInHand'
  <2>1. PICK verdict \in {"approved", "refused"} :
          /\ claims' = [claims EXCEPT ![c].verdict = verdict]
          /\ agents' = IF verdict = "approved"
               THEN agents \cup {claims[c].key} ELSE agents
    BY <1>16 DEF DecideClaim
  <2>2. /\ claims[c] \in [key : Keys \cup {None}, verdict : ClaimVerdicts]
        /\ claims[c].key # None
    BY <1>16 DEF DecideClaim, ActivationTypeOK
  <2>3. agents' \subseteq Keys
    BY <2>1, <2>2 DEF ActivationTypeOK
  <2>4. /\ claims' \in [Claims -> [key : Keys \cup {None}, verdict : ClaimVerdicts]]
        /\ \A d \in Claims : claims'[d].key = claims[d].key
        /\ \A d \in Claims : claims'[d].verdict # "unknown"
             => claims[d].verdict # "unknown"
    BY <1>16, <2>1, <2>2 DEF DecideClaim, ActivationTypeOK, ClaimVerdicts
  <2> QED
    BY <1>16, <2>3, <2>4 DEF DecideClaim, ActivationTypeOK
<1>17. CASE UNCHANGED activationVars
  BY <1>17 DEF activationVars, ActivationTypeOK
<1> QED
  BY <1>3, <1>4, <1>5, <1>6, <1>7, <1>8, <1>9, <1>10, <1>11, <1>12, <1>13, <1>14,
     <1>15, <1>16, <1>17
  DEF ActivationNext, InitStep, ClaimStatusStep

------------------------------------------------------------------------------
(* One key.                                                                *)

\* A step that leaves the identity, the keys in hand and the race as they are,
\* and moves no process to a place that uses a key it did not use before.
LEMMA KeysStay ==
    ASSUME ActivationTypeOK, KeysAgree, UNCHANGED <<file, keychain, known, raced>>,
           \A p \in Processes :
             /\ at'[p] \in Saving => at[p] \in Saving /\ key'[p] = key[p]
             /\ at'[p] = "refer" => at[p] = "refer"
             /\ at'[p] \in Keyed
                  => key'[p] = Stored \/ (at[p] \in Keyed /\ key'[p] = key[p])
    PROVE  KeysAgree'
<1>1. Stored' = Stored
  BY DEF Stored
<1>2. "refer" \in Saving
  BY DEF Saving
<1> QED
  BY <1>1, <1>2 DEF KeysAgree, KnownKeyIsKept

\* What a process with a key, or without an identity, makes of the others.
LEMMA KeysFacts ==
    ASSUME ActivationTypeOK, KeysInHand, KeysAgree, ~raced
    PROVE  /\ file = Absent \/ file = Damaged => Stored = None
           /\ Stored = None => known = {} /\ \A p \in Processes : at[p] \notin Keyed
           /\ \A p \in Processes : at[p] \in Saving => Stored = None
<1>1. file = Absent \/ file = Damaged => Stored = None
  BY KeyContentsFit DEF Stored
<1>2. Stored = None => known = {} /\ \A p \in Processes : at[p] \notin Keyed
  BY NoneIsNeither DEF KeysAgree, KnownKeyIsKept, KeysInHand, ActivationTypeOK
<1> QED
  BY <1>1, <1>2 DEF KeysAgree

LEMMA StepOneKey == ActivationTypeOK /\ KeysInHand /\ KeysAgree
     /\ [ActivationNext]_activationVars => KeysAgree'
<1> SUFFICES ASSUME ActivationTypeOK, KeysInHand, KeysAgree,
                    [ActivationNext]_activationVars PROVE KeysAgree'
  OBVIOUS
<1> USE DEF agentVars, apiVars, activationHistory, activationProcesses
<1>1. {"idle", "generate", "keep", "refer", "write", "config", "enroll",
       "authenticate", "create", "store", "poll", "drop"} = ActivationPlaces
  BY DEF ActivationPlaces
<1>2. ASSUME NEW p \in Processes, FindIdentity(p) PROVE KeysAgree'
  BY <1>1, <1>2, KeysStay, GotoMoves DEF FindIdentity, ActivationTypeOK, Saving, Keyed
<1>3. ASSUME NEW p \in Processes, Generate(p) PROVE KeysAgree'
  <2> SUFFICES ASSUME ~raced' PROVE KeysAgree'
    BY DEF KeysAgree
  <2>1. ~raced /\ \A q \in Processes : at[q] \notin Saving
    BY <1>3 DEF Generate, Saving
  <2>2. /\ file' = Absent /\ Stored' = None /\ Stored = None /\ known' = known
        /\ known = {} /\ \A q \in Processes : at[q] \notin Keyed
    BY <1>3, <2>1, KeysFacts, KeyContentsFit DEF Generate, MayGenerate, Stored
  <2>3. at'[p] = "keep" /\ \A q \in Processes \ {p} : at'[q] = at[q]
    BY <1>1, <1>3, GotoMoves DEF Generate
  <2> QED
    BY <2>1, <2>2, <2>3 DEF KeysAgree, KnownKeyIsKept, Saving, Keyed
<1>4. ASSUME NEW p \in Processes, SaveKeyKeychain(p) PROVE KeysAgree'
  <2> SUFFICES ASSUME ~raced' PROVE KeysAgree'
    BY DEF KeysAgree
  <2>1. ~raced /\ at[p] \in Saving /\ UNCHANGED <<file, key, known>>
    BY <1>4 DEF SaveKeyKeychain, Saving
  <2>2. /\ file = Absent /\ Stored = None /\ Stored' = None
        /\ known = {} /\ \A q \in Processes : at[q] \notin Keyed
    BY <2>1, KeysFacts, KeyContentsFit DEF KeysAgree, Stored
  <2>3. \A q \in Processes \ {p} : at[q] \notin Saving
    BY <2>1 DEF KeysAgree
  <2>4. /\ at'[p] \in {"refer", "write"}
        /\ at'[p] = "refer" => keychain' = key[p]
        /\ \A q \in Processes \ {p} : at'[q] = at[q]
    BY <1>1, <1>4, GotoMoves DEF SaveKeyKeychain
  <2> QED
    BY <2>1, <2>2, <2>3, <2>4 DEF KeysAgree, KnownKeyIsKept, Saving, Keyed
<1>5. ASSUME NEW p \in Processes, SaveKeyFile(p) PROVE KeysAgree'
  <2> SUFFICES ASSUME ~raced' PROVE KeysAgree'
    BY DEF KeysAgree
  <2>1. ~raced /\ at[p] \in {"refer", "write"} /\ UNCHANGED <<keychain, key, known>>
    BY <1>5 DEF SaveKeyFile
  <2>2. known = {} /\ \A q \in Processes : at[q] \notin Keyed
    BY <2>1, KeysFacts DEF KeysAgree, Saving
  <2>3. \A q \in Processes \ {p} : at[q] \notin Saving
    BY <2>1 DEF KeysAgree, Saving
  <2>4. Stored' = key[p]
    BY <1>5, <2>1, KeyContentsFit DEF SaveKeyFile, KeysAgree, Stored
  <2>5. at'[p] = "config" /\ \A q \in Processes \ {p} : at'[q] = at[q]
    BY <1>1, <1>5, GotoMoves DEF SaveKeyFile
  <2> QED
    BY <2>1, <2>2, <2>3, <2>4, <2>5 DEF KeysAgree, KnownKeyIsKept, Saving, Keyed
<1>6. ASSUME NEW p \in Processes, Enroll(p) \/ CreateClaim(p) PROVE KeysAgree'
  <2> SUFFICES ASSUME ~raced' PROVE KeysAgree'
    BY DEF KeysAgree
  <2>1. /\ ~raced /\ at[p] \in Keyed /\ known' = known \cup {key[p]}
        /\ UNCHANGED <<file, keychain>>
    BY <1>6 DEF Enroll, CreateClaim, Keyed
  <2>2. Stored = key[p] /\ Stored' = Stored
    BY <2>1 DEF KeysAgree, Stored
  <2>3. /\ at'[p] \in {"idle", "drop", "store"}
        /\ \A q \in Processes \ {p} : at'[q] = at[q] /\ key'[q] = key[q]
    <3>1. CASE ActivationEnds(p)
      BY <3>1, ActivationEndFrees
    <3>2. CASE Goto(p, "drop") /\ UNCHANGED key
      BY <1>1, <3>2, GotoMoves
    <3>3. CASE Goto(p, "store") /\ UNCHANGED key
      BY <1>1, <3>3, GotoMoves
    <3> QED
      BY <1>6, <3>1, <3>2, <3>3 DEF Enroll, CreateClaim
  <2> QED
    BY <2>1, <2>2, <2>3 DEF KeysAgree, KnownKeyIsKept, Saving, Keyed
<1>7. ASSUME NEW p \in Processes, LoadConfig(p) PROVE KeysAgree'
  <2>1. CASE ActivationEnds(p)
    BY <1>7, <2>1, KeysStay, ActivationEndFrees DEF LoadConfig, Saving, Keyed
  <2>2. CASE \E next \in {"enroll", "authenticate"} :
               Goto(p, next) /\ UNCHANGED <<waits, key, claim>>
    BY <1>1, <1>7, <2>2, KeysStay, GotoMoves DEF LoadConfig, Saving, Keyed
  <2> QED
    BY <1>7, <2>1, <2>2 DEF LoadConfig
<1>8. ASSUME NEW p \in Processes, Authenticate(p) \/ ClaimStatus(p) \/ PollFinal(p)
      PROVE  KeysAgree'
  BY <1>1, <1>8, KeysStay, GotoMoves DEF Authenticate, ClaimStatus, PollFinal,
                                         Saving, Keyed
<1>9. ASSUME NEW p \in Processes,
             StoreClaim(p) \/ DropClaim(p) \/ PollClaimPending(p)
             \/ ActivationFails(p)
      PROVE  KeysAgree'
  BY <1>9, KeysStay, ActivationEndFrees DEF StoreClaim, DropClaim,
                                            PollClaimPending, ActivationFails, Saving, Keyed
<1>10. ASSUME NEW p \in Processes, Tear(p) PROVE KeysAgree'
  <2>1. CASE file' = file
    BY <1>10, <2>1, KeysStay, ActivationEndFrees DEF Tear, Saving, Keyed
  <2>2. CASE file' # file
    <3> SUFFICES ASSUME ~raced' PROVE KeysAgree'
      BY DEF KeysAgree
    <3>1. /\ ~raced /\ at[p] \in Saving /\ file' = Damaged /\ ActivationEnds(p)
          /\ UNCHANGED <<keychain, known>>
      BY <1>10, <2>2 DEF Tear, Saving
    <3>2. known = {} /\ \A q \in Processes : at[q] \notin Keyed
      BY <3>1, KeysFacts
    <3>3. \A q \in Processes \ {p} : at[q] \notin Saving
      BY <3>1 DEF KeysAgree
    <3> QED
      BY <3>1, <3>2, <3>3, ActivationEndFrees
      DEF KeysAgree, KnownKeyIsKept, Saving, Keyed
  <2> QED
    BY <2>1, <2>2
<1>11. ASSUME NEW c \in Claims, DecideClaim(c) PROVE KeysAgree'
  BY <1>11, KeysStay DEF DecideClaim
<1>12. CASE UNCHANGED activationVars
  BY <1>12, KeysStay DEF activationVars
<1> QED
  BY <1>2, <1>3, <1>4, <1>5, <1>6, <1>7, <1>8, <1>9, <1>10, <1>11, <1>12
  DEF ActivationNext, InitStep, ClaimStatusStep

------------------------------------------------------------------------------
(* The pending claim.                                                      *)

\* No step takes back what the API has decided.
LEMMA DecidedStays ==
    ASSUME ActivationTypeOK, [ActivationNext]_activationVars
    PROVE  \A c \in Claims : claims[c].verdict \in {"approved", "refused"} =>
             claims'[c].verdict \in {"approved", "refused"}
<1> USE DEF agentVars, apiVars, activationHistory, activationProcesses
<1>1. ASSUME NEW p \in Processes, CreateClaim(p), NEW c \in Claims,
             claims[c].verdict \in {"approved", "refused"}
      PROVE  claims'[c] = claims[c]
  BY <1>1 DEF CreateClaim, ActivationTypeOK, Claims
<1>2. ASSUME NEW d \in Claims, DecideClaim(d), NEW c \in Claims,
             claims[c].verdict \in {"approved", "refused"}
      PROVE  claims'[c] = claims[c]
  BY <1>2 DEF DecideClaim, ActivationTypeOK
<1>3. \/ claims' = claims \/ \E p \in Processes : CreateClaim(p)
      \/ \E d \in Claims : DecideClaim(d)
  BY DEF ActivationNext, activationVars, InitStep, ClaimStatusStep, FindIdentity,
         Generate, SaveKeyKeychain, SaveKeyFile,
         LoadConfig, Enroll, Authenticate, StoreClaim, ClaimStatus, PollFinal,
         PollClaimPending, DropClaim, ActivationFails, Tear
<1> QED
  BY <1>1, <1>2, <1>3

\* A step that ends a process, or moves one without a claim among the places that
\* need none.
LEMMA ClaimsStay ==
    ASSUME ActivationTypeOK, [ActivationNext]_activationVars, ClaimsAreDecided,
           claimFile'.kind = "holds" => claimFile'.n # None,
           \A p \in Processes :
             \/ at'[p] = at[p] /\ claim'[p] = claim[p]
             \/ at'[p] \notin {"store", "poll"} /\ claim'[p] = None
             \/ at'[p] \in {"store", "poll"} /\ claim'[p] # None
             \/ /\ at'[p] = "drop" /\ claim'[p] = claim[p]
                /\ claims[claim[p]].verdict \in {"approved", "refused"}
    PROVE  ClaimsAreDecided'
<1>1. \A p \in Processes : claim[p] # None => claim[p] \in Claims
  BY DEF ActivationTypeOK
<1> QED
  BY <1>1, DecidedStays DEF ClaimsAreDecided

LEMMA StepDecided == ActivationTypeOK /\ ClaimsAreDecided
     /\ [ActivationNext]_activationVars => ClaimsAreDecided'
<1> SUFFICES ASSUME ActivationTypeOK, ClaimsAreDecided,
                    [ActivationNext]_activationVars PROVE ClaimsAreDecided'
  OBVIOUS
<1> USE DEF agentVars, apiVars, activationHistory, activationProcesses
<1>1. {"idle", "generate", "keep", "refer", "write", "config", "enroll",
       "authenticate", "create", "store", "poll", "drop"} = ActivationPlaces
  BY DEF ActivationPlaces
<1>2. ASSUME NEW p \in Processes,
             \/ FindIdentity(p) \/ Generate(p) \/ SaveKeyKeychain(p) \/ SaveKeyFile(p)
             \/ LoadConfig(p) \/ Enroll(p) \/ Authenticate(p)
      PROVE  ClaimsAreDecided'
  <2>1. claim[p] = None /\ claimFile' = claimFile
    BY <1>2 DEF ClaimsAreDecided, FindIdentity, Generate, SaveKeyKeychain,
                SaveKeyFile,
                LoadConfig, Enroll, Authenticate
  <2>2. /\ at'[p] \notin {"store", "poll"} /\ claim'[p] = None
        /\ \A q \in Processes \ {p} : at'[q] = at[q] /\ claim'[q] = claim[q]
    <3>1. CASE ActivationEnds(p)
      BY <3>1, ActivationEndFrees
    <3>2. CASE UNCHANGED claim
          /\ \E place \in ActivationPlaces \ {"store", "poll"} : Goto(p, place)
      BY <2>1, <3>2, GotoMoves
    <3> QED
      BY <1>1, <1>2, <3>1, <3>2
      DEF FindIdentity, Generate, SaveKeyKeychain, SaveKeyFile, LoadConfig, Enroll,
          Authenticate
  <2> QED
    BY <2>1, <2>2, ClaimsStay DEF ClaimsAreDecided
<1>3. ASSUME NEW p \in Processes, CreateClaim(p) \/ ClaimStatus(p)
      PROVE ClaimsAreDecided'
  <2>1. claimFile' = claimFile
    BY <1>3 DEF CreateClaim, ClaimStatus
  <2>2. CASE ActivationEnds(p)
    BY <2>1, <2>2, ActivationEndFrees, ClaimsStay DEF ClaimsAreDecided
  <2>3. CASE /\ \E c \in Claims : claim' = [claim EXCEPT ![p] = c]
             /\ Goto(p, "store") \/ Goto(p, "poll")
    <3>1. claim'[p] # None /\ \A q \in Processes \ {p} : claim'[q] = claim[q]
      BY <2>3, NoneIsNeither DEF ActivationTypeOK
    <3>2. at'[p] \in {"store", "poll"} /\ \A q \in Processes \ {p} : at'[q] = at[q]
      BY <1>1, <2>3, GotoMoves
    <3> QED
      BY <2>1, <3>1, <3>2, ClaimsStay DEF ClaimsAreDecided
  <2>4. ClaimStatus(p) => claimFile.n \in Claims
    BY DEF ClaimStatus, ClaimsAreDecided, ActivationTypeOK, Contents
  <2> QED
    BY <1>3, <2>2, <2>3, <2>4 DEF CreateClaim, ClaimStatus
<1>4. ASSUME NEW p \in Processes,
             StoreClaim(p) \/ DropClaim(p) \/ PollClaimPending(p)
             \/ ActivationFails(p) \/ Tear(p)
      PROVE  ClaimsAreDecided'
  <2>1. claimFile'.kind = "holds" => claimFile'.n # None
    BY <1>4, KeyContentsFit
    DEF StoreClaim, DropClaim, PollClaimPending, ActivationFails, Tear,
        ClaimsAreDecided
  <2>2. ActivationEnds(p)
    BY <1>4 DEF StoreClaim, DropClaim, PollClaimPending, ActivationFails, Tear
  <2> QED
    BY <2>1, <2>2, ActivationEndFrees, ClaimsStay
<1>5. ASSUME NEW p \in Processes, PollFinal(p) PROVE ClaimsAreDecided'
  <2>1. /\ claims[claim[p]].verdict \in {"approved", "refused"}
        /\ UNCHANGED <<claim, claimFile>> /\ Goto(p, "drop")
    BY <1>5 DEF PollFinal, Final
  <2> QED
    BY <1>1, <2>1, GotoMoves, ClaimsStay DEF ClaimsAreDecided
<1>6. CASE (\E c \in Claims : DecideClaim(c)) \/ UNCHANGED activationVars
  BY <1>6, ClaimsStay DEF DecideClaim, activationVars, ClaimsAreDecided
<1> QED
  BY <1>2, <1>3, <1>4, <1>5, <1>6 DEF ActivationNext, InitStep, ClaimStatusStep

------------------------------------------------------------------------------

\* The inductive invariant holds in every reachable state.
THEOREM ActivationInvariance == ActivationSpec => []ActivationInv
<1>1. ActivationInit => ActivationInv
  <2> SUFFICES ASSUME ActivationInit PROVE ActivationInv
    OBVIOUS
  <2>1. KeysAgree
    BY DEF ActivationInit, KeysAgree, KnownKeyIsKept, Saving, Keyed
  <2>2. ClaimsAreDecided
    BY KeyContentsFit DEF ActivationInit, ClaimsAreDecided
  <2> QED
    BY <2>1, <2>2, InitTyped DEF ActivationInv
<1>2. ActivationInv /\ [ActivationNext]_activationVars => ActivationInv'
  BY StepTyped, StepOneKey, StepDecided DEF ActivationInv
<1> QED
  BY <1>1, <1>2, PTL DEF ActivationSpec

\* The files, the keychain, the API and every process stay in their types.
THEOREM ActivationTypes == ActivationSpec => []ActivationTypeOK
<1>1. ActivationInv => ActivationTypeOK
  BY DEF ActivationInv
<1> QED
  BY <1>1, ActivationInvariance, PTL

\* No init replaces the key of an agent the API has been told of, wherever a
\* command was killed and whatever the keychain refused, unless two have saved
\* their first keys at the same moment.
THEOREM KnownKeyStays == ActivationSpec => []KnownKeyIsKept
<1>1. ActivationInv => KnownKeyIsKept
  BY DEF ActivationInv, KeysAgree, KnownKeyIsKept
<1> QED
  BY <1>1, ActivationInvariance, PTL

\* A claim that is still to be decided is deleted or overwritten only by a command
\* that works on another claim, or on none.
THEOREM PendingClaimStays == ActivationSpec => PendingClaimIsKept
<1> DEFINE Kept == \A c \in Claims :
             claimFile = Holds(c) /\ claimFile' # claimFile
                 /\ claims[c].verdict = "pending" =>
                 \E p \in Processes : DisplacesClaim(p, c)
<1>1. ActivationInv /\ [ActivationNext]_activationVars => [Kept]_activationVars
  <2> SUFFICES ASSUME ActivationInv, ActivationNext, NEW c \in Claims,
                      claimFile = Holds(c),
                      claimFile' # claimFile, claims[c].verdict = "pending"
               PROVE  \E p \in Processes : DisplacesClaim(p, c)
    OBVIOUS
  <2>1. PICK p \in Processes : StoreClaim(p) \/ Tear(p) \/ DropClaim(p)
    BY DEF ActivationNext, InitStep, ClaimStatusStep, agentVars, FindIdentity,
           Generate, SaveKeyKeychain,
           SaveKeyFile, LoadConfig, Enroll, Authenticate, CreateClaim, ClaimStatus,
           PollFinal, PollClaimPending, ActivationFails, DecideClaim
  <2> at \in [Processes -> ActivationPlaces]
    BY DEF ActivationInv, ActivationTypeOK
  <2>2. CASE StoreClaim(p) \/ Tear(p)
    BY <2>2 DEF StoreClaim, Tear, ActivationEnds, Goto, DisplacesClaim
  <2>3. CASE DropClaim(p)
    <3>1. at[p] = "drop" /\ at'[p] = "idle"
      BY <2>3 DEF DropClaim, ActivationEnds, Goto
    <3>2. claim[p] # c
      BY <3>1, NoneIsNeither DEF ActivationInv, ClaimsAreDecided
    <3> QED
      BY <3>1, <3>2 DEF DisplacesClaim
  <2> QED
    BY <2>1, <2>2, <2>3
<1> QED
  BY <1>1, ActivationInvariance, PTL DEF ActivationSpec, PendingClaimIsKept

===============================================================================
