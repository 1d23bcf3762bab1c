------------------------------ MODULE MuduoConn ------------------------------
(***************************************************************************)
(* The part of muduo's TcpConnection that the servers of this repository   *)
(* rely on, as operators on a connection record.  The library is not in    *)
(* the repository: the record holds what its callers can observe.          *)
(*                                                                         *)
(*   state  the state_ of the connection                                   *)
(*   out    units in the output buffer, waiting for the socket             *)
(*   wire   units the socket has accepted, in order (never shrinks)        *)
(*   fin    TRUE once the write side of the socket has been shut down      *)
(*                                                                         *)
(* A socket write accepts any number of the offered units.  An operation   *)
(* with several outcomes is the set of them; an outcome also says whether  *)
(* the library queues a write-complete callback for it.                    *)
(***************************************************************************)
EXTENDS Naturals, Sequences

ConnState == {"kConnecting", "kConnected", "kDisconnecting", "kDisconnected"}

Connection(Unit) ==
  [state : ConnState, out : Seq(Unit), wire : Seq(Unit), fin : BOOLEAN]

\* The constructor leaves the connection kConnecting; connectEstablished()
\* makes it kConnected before the connection callback runs.
Connecting ==
  [state |-> "kConnecting", out |-> <<>>, wire |-> <<>>, fin |-> FALSE]

ConnectEstablished(k) == [k EXCEPT !.state = "kConnected"]

\* The channel waits for writability exactly while output is buffered.
Writing(k) == k.out # <<>>

Outcome(k, done) == [conn |-> k, complete |-> done]

\* The first n units of data go to the socket, the rest is buffered.
Write(k, data, n) ==
  [k EXCEPT !.wire = @ \o SubSeq(data, 1, n),
            !.out  = SubSeq(data, n + 1, Len(data))]

(***************************************************************************)
(* sendInLoop().  With nothing buffered the data is offered to the socket  *)
(* at once; a socket whose write side is shut, or (perhaps) whose peer is  *)
(* gone, refuses it with a fault and the data is dropped.                  *)
(***************************************************************************)
SendInLoop(k, data, peerGone) ==
  IF k.state = "kDisconnected" THEN {Outcome(k, FALSE)}
  ELSE IF Writing(k) THEN {Outcome([k EXCEPT !.out = @ \o data], FALSE)}
  ELSE (IF k.fin THEN {}
        ELSE {Outcome(Write(k, data, n), n = Len(data)) : n \in 0..Len(data)})
       \cup (IF k.fin \/ peerGone THEN {Outcome(k, FALSE)} ELSE {})

\* send() from the loop thread: only a connected connection sends.
Send(k, data, peerGone) ==
  IF k.state = "kConnected" THEN SendInLoop(k, data, peerGone)
                            ELSE {Outcome(k, FALSE)}

\* shutdownInLoop(): the write side is shut only when nothing is buffered.
ShutdownInLoop(k) == IF Writing(k) THEN k ELSE [k EXCEPT !.fin = TRUE]

\* shutdown(): a no-op unless connected.
Shutdown(k) ==
  IF k.state = "kConnected"
  THEN ShutdownInLoop([k EXCEPT !.state = "kDisconnecting"])
  ELSE k

(***************************************************************************)
(* handleWrite(): the socket takes n > 0 units of the buffer.  A drained   *)
(* buffer queues the write-complete callback and performs a shutdown that  *)
(* was waiting for it.                                                     *)
(***************************************************************************)
HandleWrite(k) ==
  IF k.state = "kDisconnected" THEN {}
  ELSE {LET w == Write(k, k.out, n)
            drained == n = Len(k.out)
        IN  Outcome(IF drained /\ k.state = "kDisconnecting"
                    THEN ShutdownInLoop(w) ELSE w,
                    drained) : n \in 1..Len(k.out)}

\* handleClose(): the peer closed; the callbacks run after this.
HandleClose(k) == [k EXCEPT !.state = "kDisconnected"]
=============================================================================
