---------------------------- MODULE RequestReply ----------------------------
(***************************************************************************)
(* What the sudoku servers and the protobuf query server promise, without  *)
(* buffers, threads and fragments: the server accepts requests of its      *)
(* clients and replies to each accepted one, once; it gives up a request   *)
(* only with its client.  The requests of a client are numbered as sent.   *)
(***************************************************************************)
EXTENDS Naturals, Sequences

CONSTANTS Client, Request

VARIABLES
  up,        \* clients whose conversation has not ended
  accepted,  \* accepted[c]: the requests the server accepted
  replies    \* replies[c]: the requests replied to, in the order of the replies

vars == <<up, accepted, replies>>

Init == /\ up = Client
        /\ accepted = [c \in Client |-> {}]
        /\ replies = [c \in Client |-> <<>>]

\* From one to the other the replies are extended, with none that has no
\* request and with none given twice.
Extends(new, old, requests) ==
  /\ Len(old) <= Len(new) /\ SubSeq(new, 1, Len(old)) = old
  /\ \A i \in (Len(old) + 1)..Len(new) :
       new[i] \in requests /\ \A j \in 1..(i - 1) : new[j] # new[i]

\* Some requests of a client are accepted, and some that were or are accepted
\* now are replied to; the same step may end the conversation, and a request
\* that comes too late is still accepted.
Serve(c) ==
  /\ \E new \in SUBSET Request : accepted' = [accepted EXCEPT ![c] = @ \cup new]
  /\ Extends(replies'[c], replies[c], accepted'[c])
  /\ replies' = [replies EXCEPT ![c] = replies'[c]]
  /\ up' \in {up, up \ {c}}

Next == \E c \in Client : Serve(c)

\* A request that was accepted is replied to, or its client's conversation
\* ends.
Served ==
  \A c \in Client : \A r \in Request :
    r \in accepted[c] ~> c \notin up \/ \E i \in DOMAIN replies[c] : replies[c][i] = r

Spec == Init /\ [][Next]_vars /\ Served
=============================================================================
