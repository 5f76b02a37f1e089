------------------------------- MODULE BytePipe -------------------------------
(***************************************************************************)
(* What one direction of a forwarded connection promises its two ends: the *)
(* bytes that were sent, in their order, and an end of the stream that is  *)
(* told only after the last byte, unless a connection broke.               *)
(***************************************************************************)
EXTENDS Naturals, Sequences

CONSTANT Bytes

VARIABLES
    sent,          \* bytes the source has sent
    finished,      \* the source sends no more
    received,      \* bytes on the sink's side
    ended,         \* the sink has been told the end
    broken         \* a connection was reset

vars == <<sent, finished, received, ended, broken>>

Init == sent = <<>> /\ received = <<>> /\ {finished, ended, broken} = {FALSE}

Send ==
    /\ ~finished
    /\ \E b \in Bytes : sent' = Append(sent, b)
    /\ UNCHANGED <<finished, received, ended, broken>>

Finish == finished' = TRUE /\ UNCHANGED <<sent, received, ended, broken>>

Receive ==
    /\ ~ended /\ Len(received) < Len(sent)
    /\ received' = Append(received, sent[Len(received) + 1])
    /\ UNCHANGED <<sent, finished, ended, broken>>

Break == broken' = TRUE /\ UNCHANGED <<sent, finished, received, ended>>

End ==
    /\ (finished /\ received = sent) \/ broken
    /\ ended' = TRUE
    /\ UNCHANGED <<sent, finished, received, broken>>

Next == Send \/ Finish \/ Receive \/ Break \/ End

Spec == Init /\ [][Next]_vars
===============================================================================
