------------------------------ MODULE MCIdleClock ------------------------------
(* Model-checking instances of the idle-connection server in seconds.      *)
EXTENDS IdleClock, TLC

Symmetry == Permutations(Conn)
=============================================================================
