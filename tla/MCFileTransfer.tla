---------------------------- MODULE MCFileTransfer ----------------------------
(* Model-checking instances of the file servers.                           *)
EXTENDS FileTransfer
=============================================================================
