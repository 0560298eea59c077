-------------------------- MODULE MCEpollServer --------------------------
EXTENDS EpollServer, TLC

CONSTANTS c1, c2, c3, f1, f2

Sym == Permutations(Conns) \cup Permutations(Fds)
=============================================================================
