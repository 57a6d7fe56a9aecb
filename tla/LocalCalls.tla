------------------------------ MODULE LocalCalls ------------------------------
(***************************************************************************)
(* What a caller of `aingle session find, send, next, leave, cancel` or    *)
(* `close` may conclude from its outcome: "ok" means the worker performed  *)
(* the command, "refused" that it never will, and "unknown" leaves both    *)
(* open, also for later.  No command is performed twice.                   *)
(***************************************************************************)
EXTENDS Naturals, Sequences

CONSTANT Calls

VARIABLES
    effects,    \* the commands performed, in order
    outcome     \* per call, what its caller was told

Performed(c) == \E i \in DOMAIN effects : effects[i] = c

Init ==
    /\ effects = <<>>
    /\ outcome = [c \in Calls |-> "none"]

Perform(c) ==
    /\ ~Performed(c)
    /\ outcome[c] \in {"none", "unknown"}
    /\ effects' = Append(effects, c)
    /\ UNCHANGED outcome

Report(c) ==
    /\ outcome[c] = "none"
    /\ \E kind \in {"ok", "refused", "unknown"} :
         /\ kind = "ok" => Performed(c)
         /\ kind = "refused" => ~Performed(c)
         /\ outcome' = [outcome EXCEPT ![c] = kind]
    /\ UNCHANGED effects

Next == \E c \in Calls : Perform(c) \/ Report(c)

Spec == Init /\ [][Next]_<<effects, outcome>>
===============================================================================
