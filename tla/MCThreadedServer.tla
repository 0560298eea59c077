-------------------------- MODULE MCThreadedServer --------------------------
(* Instances of ThreadedServer for model checking.                         *)
EXTENDS ThreadedServer, TLC

CONSTANTS c1, c2

Sym == Permutations(Clients)

=============================================================================
