------------------------------ MODULE MCIdleEcho ------------------------------
(* Model-checking instances of the idle-connection server.                 *)
EXTENDS IdleEcho, TLC

Symmetry == Permutations(Conn)
=============================================================================
