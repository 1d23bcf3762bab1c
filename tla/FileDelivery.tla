---------------------------- MODULE FileDelivery ----------------------------
(***************************************************************************)
(* What the file servers promise, without chunks, buffers and callbacks:   *)
(* each client is sent a longer and longer beginning of the file; the      *)
(* server ends the delivery itself only when the whole file is out, or at  *)
(* once when there is no file.                                             *)
(***************************************************************************)
EXTENDS Naturals, Sequences

CONSTANTS Client, File

VARIABLES
  status,    \* status[c]: "new", "receiving", "finished", "refused" or "left"
  received   \* received[c]: what was sent to c so far

vars == <<status, received>>

Init == /\ status = [c \in Client |-> "new"]
        /\ received = [c \in Client |-> <<>>]

\* Some more of the file for c.  What is under way when c leaves may still go
\* out.
More(c) ==
  \E n \in Len(received[c])..Len(File) :
    received' = [received EXCEPT ![c] = SubSeq(File, 1, n)]

Deliver(c) ==
  /\ status[c] \in {"new", "receiving"}
  /\ More(c)
  /\ status' = [status EXCEPT ![c] = "receiving"]

Finish(c) ==
  /\ status[c] \in {"new", "receiving"}
  /\ received' = [received EXCEPT ![c] = File]
  /\ status' = [status EXCEPT ![c] = "finished"]

Refuse(c) == /\ status[c] = "new"
             /\ status' = [status EXCEPT ![c] = "refused"]
             /\ UNCHANGED received

Leave(c) == /\ status[c] \notin {"new", "left"}
            /\ status' = [status EXCEPT ![c] = "left"]
            /\ UNCHANGED received

Late(c) == status[c] = "left" /\ More(c) /\ UNCHANGED status

Next == \E c \in Client :
  Deliver(c) \/ Finish(c) \/ Refuse(c) \/ Leave(c) \/ Late(c)

\* A client that stays gets all of it.
Delivered ==
  \A c \in Client : status[c] = "receiving" ~> status[c] \in {"finished", "left"}

Spec == Init /\ [][Next]_vars /\ Delivered
=============================================================================
