------------------------------ MODULE MCOneShot ------------------------------
(* The instance of the one-reply servers for TLC.                          *)
EXTENDS OneShot
=============================================================================
