---------------------------- MODULE AgentActivation ----------------------------
(***************************************************************************)
(* `aingle init` and `aingle claim status` (crates/aingle-cli/src/main.rs  *)
(* with identity.rs, config.rs, operator.rs and auth.rs of                 *)
(* crates/aingle-client): processes that share the agent's key, which is   *)
(* in a file or behind it in the OS keychain, config.toml and the file of  *)
(* a pending claim, and may be killed between any two steps.               *)
(*                                                                         *)
(* Keys and claims are numbered.  Signatures, nonces, display names and    *)
(* the enrollment token are left out.  The API is external: it activates   *)
(* the agent of a key when a claim is approved or an enrollment accepted.  *)
(***************************************************************************)
EXTENDS Credentials

CONSTANTS
    MaxKeys,        \* keys generated in one behaviour
    MaxClaims       \* claims the API creates

ASSUME ActivationAssumption == MaxKeys \in Nat /\ MaxClaims \in Nat

Keys == 1 .. MaxKeys
Claims == 1 .. MaxClaims

VARIABLES
    config,         \* config.toml
    claimFile,      \* agent-claim.json: what it holds, and the claim if it does
    keys,           \* how many keys have been generated
    claims,         \* per claim, its key and what the API thinks of it
    agents,         \* the keys whose agents are active
    key,            \* per process: the key in its memory
    claim,          \* per process: the claim it works on
    known,          \* history: keys the API has been told of
    raced           \* history: two processes have saved a new key at once

agentVars == <<file, keychain, config, claimFile>>
apiVars == <<claims, agents>>
activationProcesses == <<at, waits, key, claim>>
activationHistory == <<known, raced>>
activationVars ==
    <<agentVars, keys, apiVars, activationProcesses, activationHistory>>

\* "refused": denied or expired.
ClaimVerdicts == {"unknown", "pending", "approved", "refused"}

ActivationPlaces == {"idle",
           \* init
           "generate", "keep", "refer", "write", "config",
           "enroll", "authenticate", "create", "store",
           \* claim_status
           "poll",
           \* both
           "drop"}

ActivationTypeOK ==
    /\ file \in Contents({"absent", "damaged", "keychain", "holds"}, Keys)
    /\ keychain \in Keys \cup {None}
    /\ config \in {"absent", "damaged", "whole"}
    /\ claimFile \in Contents({"absent", "damaged", "holds"}, Claims)
    /\ keys \in 0 .. MaxKeys
    /\ claims \in [Claims -> [key : Keys \cup {None}, verdict : ClaimVerdicts]]
    /\ agents \subseteq Keys
    /\ at \in [Processes -> ActivationPlaces]
    /\ waits \in [Processes -> BOOLEAN]
    /\ key \in [Processes -> Keys \cup {None}]
    /\ claim \in [Processes -> Claims \cup {None}]
    /\ known \subseteq Keys /\ raced \in BOOLEAN

ActivationInit ==
    /\ file = Absent /\ keychain = None /\ config = "absent" /\ claimFile = Absent
    /\ keys = 0
    /\ claims = [c \in Claims |-> [key |-> None, verdict |-> "unknown"]]
    /\ agents = {}
    /\ at = [p \in Processes |-> "idle"]
    /\ waits = [p \in Processes |-> FALSE]
    /\ key = [p \in Processes |-> None] /\ claim = key
    /\ known = {} /\ raced = FALSE

------------------------------------------------------------------------------

\* The command returns, with or without an error, or is killed.
ActivationEnds(p) ==
    /\ Goto(p, "idle")
    /\ waits' = [waits EXCEPT ![p] = FALSE]
    /\ key' = [key EXCEPT ![p] = None]
    /\ claim' = [claim EXCEPT ![p] = None]

\* Every request and file operation may fail, and a process may die before any
\* of its steps.
ActivationFails(p) ==
    /\ at[p] # "idle"
    /\ ActivationEnds(p)
    /\ UNCHANGED <<agentVars, keys, apiVars, activationHistory>>

\* fs::write may end between its truncation and its write.
Tear(p) ==
    /\ \/ at[p] \in {"refer", "write"} /\ file' = Damaged
            /\ UNCHANGED <<config, claimFile>>
       \/ at[p] = "config" /\ config = "absent" /\ config' = "damaged"
            /\ UNCHANGED <<file, claimFile>>
       \/ at[p] = "store" /\ claimFile' = Damaged /\ UNCHANGED <<file, config>>
    /\ ActivationEnds(p)
    /\ UNCHANGED <<keychain, keys, apiVars, activationHistory>>

------------------------------------------------------------------------------
(* init                                                                    *)

\* An identity that is there but cannot be loaded ends the command (a locked
\* keychain is a stutter here).
FindIdentity(p) ==
    /\ at[p] = "idle"
    /\ \/ file = Absent /\ Goto(p, "generate") /\ UNCHANGED key
       \/ Stored # None /\ Goto(p, "config") /\ key' = [key EXCEPT ![p] = Stored]
    /\ UNCHANGED <<agentVars, keys, apiVars, waits, claim, activationHistory>>

\* Mutant of MayGenerate: init has looked already.
MayGenerateAnyway == TRUE

\* Identity::generate looks again; with a file it returns an error (Fail).
MayGenerate == file = Absent

Generate(p) ==
    /\ at[p] = "generate" /\ MayGenerate /\ keys < MaxKeys
    /\ keys' = keys + 1
    /\ key' = [key EXCEPT ![p] = keys + 1]
    /\ raced' = (raced \/ \E q \in Processes : at[q] \in {"keep", "refer", "write"})
    /\ Goto(p, "keep")
    /\ UNCHANGED <<agentVars, apiVars, waits, claim, known>>

\* Identity::save: the keychain, and then the file, with the key only if the
\* keychain has not taken it.
SaveKeyKeychain(p) ==
    /\ at[p] = "keep"
    /\ \/ keychain' = key[p] /\ Goto(p, "refer")
       \/ UNCHANGED keychain /\ Goto(p, "write")
    /\ UNCHANGED <<file, config, claimFile, keys, apiVars, waits, key, claim,
                   activationHistory>>

SaveKeyFile(p) ==
    /\ \/ at[p] = "refer" /\ file' = InKeychain
       \/ at[p] = "write" /\ file' = Holds(key[p])
    /\ Goto(p, "config")
    /\ UNCHANGED <<keychain, config, claimFile, keys, apiVars, waits, key, claim,
                   activationHistory>>

\* The configuration is loaded, or saved with its defaults; a damaged one ends
\* every command.  --offline ends here, --enrollment-token-stdin enrolls.
LoadConfig(p) ==
    /\ at[p] = "config" /\ config # "damaged"
    /\ config' = "whole"
    /\ \/ \E next \in {"enroll", "authenticate"} :
            Goto(p, next) /\ UNCHANGED <<waits, key, claim>>
       \/ ActivationEnds(p)
    /\ UNCHANGED <<file, keychain, claimFile, keys, apiVars, activationHistory>>

\* The API accepts; its answer may be lost.
Enroll(p) ==
    /\ at[p] = "enroll"
    /\ agents' = agents \cup {key[p]}
    /\ known' = known \cup {key[p]}
    /\ \/ Goto(p, "drop") /\ UNCHANGED <<waits, key, claim>>
       \/ ActivationEnds(p)
    /\ UNCHANGED <<agentVars, keys, claims, raced>>

\* An agent that cannot authenticate, for whatever reason, makes a claim.
Authenticate(p) ==
    /\ at[p] = "authenticate"
    /\ \/ key[p] \in agents /\ Goto(p, "drop")
       \/ Goto(p, "create")
    /\ UNCHANGED <<agentVars, keys, apiVars, waits, key, claim, activationHistory>>

\* create_claim, whose answer may be lost.
CreateClaim(p) ==
    /\ at[p] = "create"
    /\ known' = known \cup {key[p]}
    /\ \E c \in Claims :
         /\ \A d \in Claims : claims[d].verdict = "unknown" <=> d >= c
         /\ claims' = [claims EXCEPT ![c] =
                         [key |-> key[p], verdict |-> "pending"]]
         /\ \/ /\ claim' = [claim EXCEPT ![p] = c]
               /\ Goto(p, "store") /\ UNCHANGED <<waits, key>>
            \/ ActivationEnds(p)
    /\ UNCHANGED <<agentVars, keys, agents, raced>>

StoreClaim(p) ==
    /\ at[p] = "store"
    /\ claimFile' = Holds(claim[p])
    /\ ActivationEnds(p)
    /\ UNCHANGED <<file, keychain, config, keys, apiVars, activationHistory>>

------------------------------------------------------------------------------
(* claim_status                                                            *)

ClaimStatus(p) ==
    /\ at[p] = "idle" /\ config # "damaged" /\ claimFile.kind = "holds"
    /\ waits' \in {waits, [waits EXCEPT ![p] = TRUE]}
    /\ claim' = [claim EXCEPT ![p] = claimFile.n]
    /\ Goto(p, "poll")
    /\ UNCHANGED <<agentVars, keys, apiVars, key, activationHistory>>

\* Mutant of Final: whatever ends the command also ends the claim.
FinalUnlessWaiting(p) ==
    claims[claim[p]].verdict \in {"approved", "refused"} \/ ~waits[p]

Final(p) == claims[claim[p]].verdict \in {"approved", "refused"}

PollFinal(p) ==
    /\ at[p] = "poll" /\ Final(p)
    /\ Goto(p, "drop")
    /\ UNCHANGED <<agentVars, keys, apiVars, waits, key, claim, activationHistory>>

\* With --wait "pending" is asked again in two seconds.
PollClaimPending(p) ==
    /\ at[p] = "poll" /\ ~Final(p) /\ ~waits[p]
    /\ ActivationEnds(p)
    /\ UNCHANGED <<agentVars, keys, apiVars, activationHistory>>

\* PendingAgentClaim::delete removes the file, whichever claim it holds.
DropClaim(p) ==
    /\ at[p] = "drop"
    /\ claimFile' = Absent
    /\ ActivationEnds(p)
    /\ UNCHANGED <<file, keychain, config, keys, apiVars, activationHistory>>

------------------------------------------------------------------------------
(* The API (external).                                                     *)

DecideClaim(c) ==
    /\ claims[c].verdict = "pending"
    /\ \E verdict \in {"approved", "refused"} :
         /\ claims' = [claims EXCEPT ![c].verdict = verdict]
         /\ agents' = IF verdict = "approved" THEN agents \cup {claims[c].key}
                                              ELSE agents
    /\ UNCHANGED <<agentVars, keys, activationProcesses, activationHistory>>

------------------------------------------------------------------------------

InitStep(p) ==
    \/ Generate(p) \/ SaveKeyKeychain(p) \/ SaveKeyFile(p) \/ LoadConfig(p)
    \/ Enroll(p) \/ Authenticate(p) \/ CreateClaim(p) \/ StoreClaim(p)

ClaimStatusStep(p) == PollFinal(p) \/ PollClaimPending(p)

ActivationNext ==
    \/ \E p \in Processes :
         \/ FindIdentity(p) \/ InitStep(p) \/ ClaimStatus(p) \/ ClaimStatusStep(p)
         \/ DropClaim(p) \/ ActivationFails(p) \/ Tear(p)
    \/ \E c \in Claims : DecideClaim(c)

ActivationSpec == ActivationInit /\ [][ActivationNext]_activationVars

------------------------------------------------------------------------------
(* What the commands promise.                                              *)

\* The key of an agent the API has been told of is the one that is stored, and
\* stays so, wherever a command was killed and whatever the keychain refused:
\* no init replaces it.  Only two that save their first keys at the same moment
\* may (raced): the last one wins, after the other may have made its claim.
KnownKeyIsKept == ~raced => \A k \in known : Stored = k

\* A claim that is still to be decided stays pending here, unless init has made
\* another one or found the agent active, or a command still at work on another
\* claim deletes it.  It is p that does so, in this step.
DisplacesClaim(p, c) ==
    /\ at'[p] # at[p]
    /\ \/ at[p] = "store"
       \/ at[p] = "drop" /\ claim[p] # c

PendingClaimIsKept ==
    [][\A c \in Claims :
         claimFile = Holds(c) /\ claimFile' # claimFile
             /\ claims[c].verdict = "pending" =>
             \E p \in Processes : DisplacesClaim(p, c)]_activationVars

------------------------------------------------------------------------------
(* The inductive invariant.                                                *)

\* Identity::save is under way, and init has a key it has loaded or saved.
Saving == {"keep", "refer", "write"}
Keyed == {"config", "enroll", "authenticate", "create"}

KeysInHand ==
    /\ \A p \in Processes : at[p] \in Saving \cup Keyed => key[p] # None
    /\ \A c \in Claims : claims[c].verdict # "unknown" => claims[c].key # None

\* Without a race the first key is saved by one process while there is no
\* identity; every key in use after that is the stored one.
KeysAgree ==
    ~raced =>
        /\ \A p, q \in Processes : at[p] \in Saving /\ at[q] \in Saving => p = q
        /\ \A p \in Processes :
             /\ at[p] \in Saving => file = Absent
             /\ at[p] = "refer" => keychain = key[p]
             /\ at[p] \in Keyed => Stored = key[p]
        /\ KnownKeyIsKept

\* A command deletes the claim file without a claim of its own, or with one
\* that has been decided.
ClaimsAreDecided ==
    /\ claimFile.kind = "holds" => claimFile.n # None
    /\ \A p \in Processes :
         /\ at[p] \notin {"store", "poll", "drop"} => claim[p] = None
         /\ at[p] \in {"store", "poll"} => claim[p] # None
         /\ at[p] = "drop" /\ claim[p] # None =>
              claims[claim[p]].verdict \in {"approved", "refused"}

ActivationInv == ActivationTypeOK /\ KeysInHand /\ KeysAgree /\ ClaimsAreDecided

===============================================================================
