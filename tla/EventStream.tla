----------------------------- MODULE EventStream -----------------------------
(***************************************************************************)
(* What `session events` promises (README.md: "receive each event once"):  *)
(* one stream of numbered events, of which every reader that hands its     *)
(* next_cursor back receives longer and longer prefixes.  Nothing is lost, *)
(* repeated or reordered.                                                  *)
(***************************************************************************)
EXTENDS Naturals, Sequences

CONSTANT Readers

VARIABLES
    stream,     \* the events recorded so far, as their cursors
    received    \* per reader, the cursors its answers contained, in order

Init ==
    /\ stream = <<>>
    /\ received = [r \in Readers |-> <<>>]

Publish ==
    /\ stream' = Append(stream, Len(stream) + 1)
    /\ UNCHANGED received

Receive(r) ==
    /\ \E n \in Len(received[r]) .. Len(stream) :
         received' = [received EXCEPT ![r] = SubSeq(stream, 1, n)]
    /\ UNCHANGED stream

Next == Publish \/ \E r \in Readers : Receive(r)

Spec == Init /\ [][Next]_<<stream, received>>
===============================================================================
