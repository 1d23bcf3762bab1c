----------------------------- MODULE MCEpollDemo -----------------------------
(* Model-checking instances of the epoll server.                           *)
EXTENDS EpollDemo

Symmetry == Permutations(Client)
=============================================================================
