-------------------------------- MODULE Updater --------------------------------
(***************************************************************************)
(* `aingle update` (crates/aingle-cli/src/update.rs): several installs of  *)
(* one executable, and the releases they come from, which change while     *)
(* they are being fetched.                                                 *)
(*                                                                         *)
(* A build is a record [reports, id]: what its --version prints and which  *)
(* build it is.  An archive is the build in it, and SHA-256 tells archives *)
(* apart.  id 0 is a download that was damaged on its way.                 *)
(*                                                                         *)
(* The releases come from .github/workflows/release.yml, which creates a   *)
(* release with its assets and, run again, uploads each of them again      *)
(* (--clobber).  It builds nothing whose version is not the tag's; what a  *)
(* maintainer does to a release by hand is external.                       *)
(***************************************************************************)
EXTENDS Naturals

CONSTANTS
    Installs,       \* processes that may run `aingle update` at once
    MaxVersion,     \* releases 1 .. MaxVersion
    MaxBuilds       \* builds made in one behaviour

ASSUME UpdaterAssumption == MaxVersion \in Nat /\ MaxBuilds \in Nat \ {0}

Versions == 0 .. MaxVersion
Builds == [reports : Versions, id : 0 .. MaxBuilds]

\* The executable before any update.
Shipped == [reports |-> 0, id |-> 1]

VARIABLES
    latest,         \* the version of the latest release
    built,          \* per version, the build its release should have
    archives,       \* per version, the archive asset
    checksums,      \* per version, the archive the .sha256 asset describes
    builds,         \* how many builds have been made
    executable,     \* the build installed
    step,           \* per install, where it is
    own,            \* the version of the program that runs it
    target,         \* the version it installs
    archive,        \* the archive it has downloaded
    vouched         \* history: builds that were ever described by the checksum
                    \* of the version they report

releaseVars == <<latest, built, archives, checksums, builds, vouched>>
installVars == <<executable, step, own, target, archive>>
updaterVars == <<releaseVars, installVars>>

Steps == {"idle", "listed", "downloaded", "checked", "staged"}

UpdaterTypeOK ==
    /\ latest \in Versions
    /\ built \in [Versions -> Builds] /\ archives \in [Versions -> Builds]
    /\ checksums \in [Versions -> Builds]
    /\ builds \in 1 .. MaxBuilds
    /\ executable \in Builds /\ vouched \subseteq Builds
    /\ step \in [Installs -> Steps]
    /\ own \in [Installs -> Versions] /\ target \in [Installs -> Versions]
    /\ archive \in [Installs -> Builds]

UpdaterInit ==
    /\ latest = 0
    /\ built = [v \in Versions |-> Shipped]
    /\ archives = built /\ checksums = built
    /\ builds = 1
    /\ vouched = {Shipped}
    /\ executable = Shipped
    /\ step = [i \in Installs |-> "idle"]
    /\ own = [i \in Installs |-> 0] /\ target = own
    /\ archive = [i \in Installs |-> Shipped]

------------------------------------------------------------------------------
(* The release workflow, and maintainers (external).                       *)

NewBuild(reports) == [reports |-> reports, id |-> builds + 1]

Vouch(version, build) ==
    vouched' = IF build.reports = version THEN vouched \cup {build} ELSE vouched

\* A new tag.  The workflow refuses one that is not the version it is about to
\* build, and gh creates the release with all of its assets.
Publish ==
    /\ latest < MaxVersion /\ builds < MaxBuilds
    /\ latest' = latest + 1
    /\ builds' = builds + 1
    /\ built' = [built EXCEPT ![latest'] = NewBuild(latest')]
    /\ archives' = [archives EXCEPT ![latest'] = NewBuild(latest')]
    /\ checksums' = [checksums EXCEPT ![latest'] = NewBuild(latest')]
    /\ Vouch(latest', NewBuild(latest'))
    /\ UNCHANGED installVars

\* There is another build for a tag; its assets come one by one.
BuildAgain(v, reports) ==
    /\ v \in 1 .. latest /\ builds < MaxBuilds
    /\ builds' = builds + 1
    /\ built' = [built EXCEPT ![v] = NewBuild(reports)]
    /\ UNCHANGED <<latest, archives, checksums, vouched, installVars>>

\* The workflow is run again for a tag, with the same check.
Rebuild(v) == BuildAgain(v, v)

\* A maintainer replaces the assets of a release by hand, with a build of another
\* version: the case verify_binary is there for.
BuildByHand(v) == \E reports \in Versions \ {v} : BuildAgain(v, reports)

UploadArchive(v) ==
    /\ archives[v] # built[v]
    /\ archives' = [archives EXCEPT ![v] = built[v]]
    /\ UNCHANGED <<latest, built, checksums, builds, vouched, installVars>>

UploadChecksum(v) ==
    /\ checksums[v] # built[v]
    /\ checksums' = [checksums EXCEPT ![v] = built[v]]
    /\ Vouch(v, built[v])
    /\ UNCHANGED <<latest, built, archives, builds, installVars>>

\* The latest release is withdrawn: the one before is the latest again.
Withdraw ==
    /\ latest > 0
    /\ latest' = latest - 1
    /\ UNCHANGED <<built, archives, checksums, builds, vouched, installVars>>

------------------------------------------------------------------------------
(* An install.                                                             *)

Step(i, place) == step' = [step EXCEPT ![i] = place]

\* Mutant of UpdateAvailable: any other version is an update.
UpdateDiffers(current) == latest # current

\* Mutant of UpdateAvailable: one release is skipped.
UpdateFarBehind(current) == latest > current + 1

\* status: the latest release against CARGO_PKG_VERSION.
UpdateAvailable(current) == latest > current

\* latest_release and status, by the program that is the executable now, whose
\* version stays what it is when another install replaces its file.
List(i) ==
    /\ step[i] = "idle"
    /\ own' = [own EXCEPT ![i] = executable.reports]
    /\ UpdateAvailable(executable.reports)     \* else nothing is done
    /\ target' = [target EXCEPT ![i] = latest]
    /\ Step(i, "listed")
    /\ UNCHANGED <<releaseVars, executable, archive>>

DownloadArchive(i) ==
    /\ step[i] = "listed"
    /\ archive' = [archive EXCEPT ![i] = archives[target[i]]]
    /\ Step(i, "downloaded")
    /\ UNCHANGED <<releaseVars, executable, own, target>>

\* download returns bytes that are not the asset's, without an error.
DownloadDamaged(i) ==
    /\ step[i] = "listed"
    /\ archive' = [archive EXCEPT ![i] = [reports |-> target[i], id |-> 0]]
    /\ Step(i, "downloaded")
    /\ UNCHANGED <<releaseVars, executable, own, target>>

\* Mutant of Described: that there is a checksum is enough.
DescribedByAnything(i) == TRUE

\* verify_checksum accepts: the checksum, downloaded after the archive and
\* perhaps after another upload, is the archive's.
Described(i) == checksums[target[i]] = archive[i]

VerifyChecksum(i) ==
    /\ step[i] = "downloaded" /\ Described(i)
    /\ Step(i, "checked")
    /\ UNCHANGED <<releaseVars, executable, own, target, archive>>

\* verify_binary accepts what extract_binary has staged.
ReportsTarget(i) == archive[i].reports = target[i]

Stage(i) ==
    /\ step[i] = "checked" /\ ReportsTarget(i)
    /\ Step(i, "staged")
    /\ UNCHANGED <<releaseVars, executable, own, target, archive>>

\* The process ends, and what it knew is gone.
InstallEnds(i) ==
    /\ Step(i, "idle")
    /\ own' = [own EXCEPT ![i] = 0]
    /\ target' = [target EXCEPT ![i] = 0]
    /\ archive' = [archive EXCEPT ![i] = Shipped]

\* self_replace puts the staged file in the place of the executable at once.
Replace(i) ==
    /\ step[i] = "staged"
    /\ executable' = archive[i]
    /\ InstallEnds(i)
    /\ UNCHANGED releaseVars

\* verify_checksum or verify_binary refuses.
Reject(i) ==
    /\ \/ step[i] = "downloaded" /\ ~Described(i)
       \/ step[i] = "checked" /\ ~ReportsTarget(i)
    /\ InstallEnds(i)
    /\ UNCHANGED <<releaseVars, executable>>

\* A request or a file operation fails, an asset is missing, too long or no
\* checksum, or the process is killed: at most the staging directory is left.
InstallFails(i) ==
    /\ step[i] # "idle"
    /\ InstallEnds(i)
    /\ UNCHANGED <<releaseVars, executable>>

------------------------------------------------------------------------------

Proceed(i) ==
    \/ DownloadArchive(i) \/ VerifyChecksum(i) \/ Stage(i)
    \/ Replace(i) \/ Reject(i)

InstallTrouble(i) == DownloadDamaged(i) \/ InstallFails(i)

Release ==
    \/ Publish \/ Withdraw
    \/ \E v \in Versions :
         Rebuild(v) \/ BuildByHand(v) \/ UploadArchive(v) \/ UploadChecksum(v)

UpdaterNext ==
    \/ Release
    \/ \E i \in Installs : List(i) \/ Proceed(i) \/ InstallTrouble(i)

UpdaterSpec == UpdaterInit /\ [][UpdaterNext]_updaterVars

\* An install that has begun goes on: its requests time out after 15 s.
UpdaterFairness ==
    \A i \in Installs : WF_updaterVars(Proceed(i) \/ InstallTrouble(i))

UpdaterFairSpec == UpdaterSpec /\ UpdaterFairness

------------------------------------------------------------------------------
(* What an update promises.                                                *)

\* The executable is at every moment a whole build whose checksum was published
\* under the version it reports, never a damaged download, a mix of two uploads
\* or a build that belongs to another release, whatever is uploaded meanwhile.
OnlyVouchedBuilds == executable \in vouched

\* README.md:120: update will "download, verify, and install the
\* current-platform release".  A replacement is newer than the program that
\* made it; what an overtaken install undoes is never more than what was
\* installed while it ran.
NewerThanItsRunner ==
    [][executable' # executable =>
         \E i \in Installs :
             step[i] = "staged" /\ own[i] < executable'.reports]_updaterVars

(* The inductive invariant, for CommandProofs. *)

\* A checksum that describes a build of its own version is in vouched.
ChecksumsVouch ==
    \A v \in Versions : checksums[v].reports = v => checksums[v] \in vouched

\* What an install has checked, and what it knows of the versions.
InstallsAreSound ==
    \A i \in Installs :
        /\ step[i] \in {"checked", "staged"} /\ archive[i].reports = target[i]
             => archive[i] \in vouched
        /\ step[i] = "staged" => archive[i].reports = target[i]
        /\ step[i] # "idle" => own[i] < target[i]

UpdaterInv ==
    UpdaterTypeOK /\ OnlyVouchedBuilds /\ ChecksumsVouch /\ InstallsAreSound

\* From some point on releases stand still, the latest one is sound, and no
\* install fails or is given a damaged file.
ReleasesSettle ==
    /\ <>[][~Release /\ \A i \in Installs : ~InstallTrouble(i)]_updaterVars
    /\ <>[](/\ built[latest].reports = latest
           /\ archives[latest] = built[latest]
           /\ checksums[latest] = built[latest])

\* Somebody goes on trying to update while there is an update.
KeepsUpdating == \A i \in Installs : WF_updaterVars(List(i))

\* Then the executable reaches the latest release and stays there, also when an
\* install that had listed an older one finishes last.
CatchesUp ==
    ReleasesSettle /\ KeepsUpdating => <>[](executable.reports >= latest)

===============================================================================
