------------------------------ MODULE Credentials ------------------------------
(***************************************************************************)
(* What OperatorLogin and AgentActivation have in common: processes that   *)
(* run one command each, and a secret they share, which is in a file or    *)
(* behind a reference in the file in the OS keychain.  Identity (identity  *)
(* .rs) and OperatorSession (operator.rs of crates/aingle-client) keep     *)
(* theirs alike.  Secrets, and what else a file may name, are numbered.    *)
(***************************************************************************)
EXTENDS Naturals

CONSTANT Processes      \* commands that may run at once

VARIABLES
    file,           \* what the secret's file holds, and the secret if it does
    keychain,       \* the secret in the keychain
    at,             \* per process: where it is
    waits           \* --wait was given

None == 0           \* no secret

\* A file and what it holds, if it holds anything.
Contents(kinds, numbers) == [kind : kinds, n : numbers \cup {None}]
Absent == [kind |-> "absent", n |-> None]
Damaged == [kind |-> "damaged", n |-> None]
InKeychain == [kind |-> "keychain", n |-> None]
Holds(n) == [kind |-> "holds", n |-> n]

\* The secret that load returns when the keychain can be read.
Stored ==
    CASE file.kind = "holds" -> file.n
      [] file.kind = "keychain" -> keychain
      [] OTHER -> None

Goto(p, place) == at' = [at EXCEPT ![p] = place]

===============================================================================
