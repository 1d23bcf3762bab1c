------------------------------ MODULE MCReactor ------------------------------
(* Model-checking instances of the reactor on standard input.              *)
EXTENDS Reactor
=============================================================================
