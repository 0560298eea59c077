----------------------------- MODULE MCMsgQueue -----------------------------
(* An instance of MsgQueue for model checking.                             *)
EXTENDS MsgQueue

CONSTANTS p1, p2, c1, c2

=============================================================================
