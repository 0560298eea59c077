------------------------------ MODULE Channel ------------------------------
(***************************************************************************)
(* What a message queue promises to the threads on its two ends: messages  *)
(* come out in the order they went in, each of them once.                  *)
(***************************************************************************)
EXTENDS Naturals, Sequences

CONSTANT Messages

VARIABLES
    sent,       \* messages pushed so far
    taken       \* messages popped so far

vars == <<sent, taken>>

Init == sent = <<>> /\ taken = <<>>

Send(m) == sent' = Append(sent, m) /\ UNCHANGED taken

Receive ==
    /\ Len(taken) < Len(sent)
    /\ taken' = Append(taken, sent[Len(taken) + 1])
    /\ UNCHANGED sent

Next == (\E m \in Messages : Send(m)) \/ Receive

Spec == Init /\ [][Next]_vars

=============================================================================
