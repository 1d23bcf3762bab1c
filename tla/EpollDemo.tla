------------------------------ MODULE EpollDemo ------------------------------
(***************************************************************************)
(* The hand-written server of 5_tcp_demo/epoll_demo/server.cc.  It waits   *)
(* with epoll for edges on a listening socket and on its clients' sockets, *)
(* makes one accept or one recv for each, and ends at the first hang-up.   *)
(* The sockets are blocking.                                               *)
(*                                                                         *)
(* The kernel keeps a list of the sockets on which something happened; a   *)
(* wait reports those that are still readable and empties the list.        *)
(* A definition with a suffix is a seeded fault of the one that follows.   *)
(***************************************************************************)
EXTENDS Naturals, SequencesExt, ListOps

CONSTANTS Client,     \* the clients that may connect
          Listener,   \* the listening socket
          BufLen,     \* sizeof(recvBuf)
          MaxSent     \* bound: units one client sends

ASSUME ListenerAssumption == Listener \notin Client
ASSUME SizeAssumption == BufLen \in Nat \ {0} /\ MaxSent \in Nat

VARIABLES
  phase,     \* "run", "blocked" in accept or recv, or "ended"
  backlog,   \* clients that are connected and not accepted, in order
  fd,        \* fd[c]: "none", "open" once accepted, "closed" by the server
  stream,    \* stream[c]: what the client did: "new", "up", "fin", "reset"
  written,   \* written[c]: units the client has sent
  unread,    \* unread[c]: how many of them the server has not read
  ready,     \* the kernel's list of sockets with an edge, oldest first
  batch,     \* events[i..]: reported and not handled yet, [fd, hup]
  owed,      \* arrivals that shared an edge, and failed accepts (history)
  short      \* clients whose last recv may have left something (history)

kernel == <<backlog, stream, written, unread, ready>>
epollVars == <<phase, fd, batch, owed, short, kernel>>

EpollInit ==
  /\ phase = "run"
  /\ backlog = <<>> /\ ready = <<>> /\ batch = <<>>
  /\ fd = [c \in Client |-> "none"]
  /\ stream = [c \in Client |-> "new"]
  /\ written = [c \in Client |-> 0] /\ unread = [c \in Client |-> 0]
  /\ owed = 0 /\ short = {}

Edge(list, s) == IF s \in ToSet(list) THEN list ELSE Append(list, s)

\* EPOLLIN: a recv would not wait.
Readable(c) == unread[c] > 0 \/ stream[c] \in {"fin", "reset"}
-----------------------------------------------------------------------------
(* The server.                                                             *)

Reported_FirstOnly(events) == SubSeq(events, 1, 1)

\* for (i = 0; i < ret; i++)
Reported(events) == events

\* epoll_wait returns.
EpollWait ==
  /\ phase = "run" /\ batch = <<>>
  /\ LET now == Kept(ready, {s \in Client : Readable(s)}
                              \cup {s \in {Listener} : backlog # <<>>})
     IN  /\ now # <<>>
         /\ batch' = Reported([i \in DOMAIN now |->
              [fd |-> now[i],
               hup |-> now[i] # Listener /\ stream[now[i]] = "reset"]])
  /\ ready' = <<>>
  /\ UNCHANGED <<phase, fd, owed, short, backlog, stream, written, unread>>

Turn(s) == phase = "run" /\ batch # <<>> /\ Head(batch).fd = s /\ batch' = Tail(batch)

\* EPOLLERR or EPOLLHUP, of whichever client: the program ends.
HangUp(s) ==
  /\ Turn(s) /\ Head(batch).hup
  /\ phase' = "ended"
  /\ UNCHANGED <<fd, owed, short, kernel>>

Accepts_All == Len(backlog) + 1

\* How often accept is called for an edge.
Accepts == 1

\* The clients accepted for this edge are registered; one on which something
\* happened already has its edge at once.
OnListener ==
  /\ Turn(Listener)
  /\ LET n == IF Accepts <= Len(backlog) THEN Accepts ELSE Len(backlog)
         new == SubSeq(backlog, 1, n) IN
     /\ backlog' = SubSeq(backlog, n + 1, Len(backlog))
     /\ fd' = [c \in Client |-> IF c \in ToSet(new) THEN "open" ELSE fd[c]]
     /\ ready' = ready \o Kept(new, {c \in Client : Readable(c)})
     /\ phase' = IF n < Accepts THEN "blocked" ELSE phase
  /\ UNCHANGED <<owed, short, stream, written, unread>>

\* accept fails, for want of descriptors say: the client stays where it is.
AcceptError ==
  /\ Turn(Listener)
  /\ owed' = owed + 1
  /\ UNCHANGED <<phase, fd, short, kernel>>

RecvLen_OneUnit(c) == IF unread[c] > 0 THEN 1 ELSE 0

\* What recv returns for the data there are.
RecvLen(c) == IF unread[c] < BufLen THEN unread[c] ELSE BufLen

Close(c) ==
  /\ fd' = [fd EXCEPT ![c] = "closed"]
  /\ ready' = Kept(ready, {Listener} \cup (Client \ {c}))

\* One recv.  End-of-file and errors close the descriptor.  A reset may come
\* after the wait that reported data: these can still be read, and the next
\* wait reports the hang-up.
OnClient(c) ==
  /\ Turn(c) /\ ~Head(batch).hup
  /\ IF unread[c] > 0
     THEN /\ unread' = [unread EXCEPT ![c] = @ - RecvLen(c)]
          /\ short' = IF RecvLen(c) = BufLen \/ stream[c] = "fin"
                      THEN short \cup {c} ELSE short \ {c}
          /\ UNCHANGED <<phase, fd, ready>>
     ELSE IF Readable(c)
     THEN Close(c) /\ UNCHANGED <<phase, unread, short>>
     ELSE phase' = "blocked" /\ UNCHANGED <<fd, ready, unread, short>>
  /\ UNCHANGED <<owed, backlog, stream, written>>
-----------------------------------------------------------------------------
(* The clients and the kernel.                                             *)

\* The handshake is done: an edge on the listening socket.
ClientConnects(c) ==
  /\ phase = "run" /\ stream[c] = "new"
  /\ stream' = [stream EXCEPT ![c] = "up"]
  /\ backlog' = Append(backlog, c)
  /\ owed' = IF Listener \in ToSet(ready) THEN owed + 1 ELSE owed
  /\ ready' = Edge(ready, Listener)
  /\ UNCHANGED <<phase, fd, batch, short, written, unread>>

\* Whatever comes in is an edge on a socket that is registered.
Happens(c) == ready' = IF fd[c] = "open" THEN Edge(ready, c) ELSE ready

\* A segment of n units arrives.
Segment(c, n) ==
  /\ phase = "run" /\ stream[c] = "up" /\ fd[c] # "closed"
  /\ written[c] + n <= MaxSent
  /\ written' = [written EXCEPT ![c] = @ + n]
  /\ unread' = [unread EXCEPT ![c] = @ + n]
  /\ Happens(c)
  /\ UNCHANGED <<phase, fd, batch, owed, short, backlog, stream>>

\* The client closes its socket, or resets the connection; what it sent
\* before stays readable.
Leave(c, how) ==
  /\ phase = "run" /\ stream[c] \in {"up", "fin"} /\ stream[c] # how
  /\ fd[c] # "closed"
  /\ stream' = [stream EXCEPT ![c] = how]
  /\ Happens(c)
  /\ UNCHANGED <<phase, fd, batch, owed, short, backlog, written, unread>>

EpollNext ==
  \/ EpollWait \/ OnListener \/ AcceptError
  \/ \E c \in Client : \/ HangUp(c) \/ OnClient(c) \/ ClientConnects(c)
                       \/ \E n \in 1..MaxSent : Segment(c, n)
                       \/ \E how \in {"fin", "reset"} : Leave(c, how)

EpollSpec == EpollInit /\ [][EpollNext]_epollVars
-----------------------------------------------------------------------------
(* Properties.                                                             *)

Reports(s) == s \in ToSet(ready) \/ \E i \in DOMAIN batch : batch[i].fd = s

\* accept and recv are called on blocking sockets, for events that may be
\* out of date; still neither ever waits, which would stop the whole server.
NeverBlocks == phase # "blocked"

\* With one accept for each edge the server never catches up: apart from the
\* edges under way it owes an accept to as many clients as ever arrived on
\* an edge that was already there, or met a failing accept.
AcceptDebt ==
  Len(backlog) = owed + (IF Listener \in ToSet(ready) THEN 1 ELSE 0)
                      + (IF \E i \in DOMAIN batch : batch[i].fd = Listener THEN 1 ELSE 0)

\* A socket stays readable, with no edge under way that would have it read,
\* only behind a recv that filled its buffer or that found end-of-file behind
\* the last data: more data wait there for the client's next segment, and the
\* descriptor of a client that has closed is never closed.
LeftBehindShortRead ==
  \A c \in Client :
    phase = "run" /\ fd[c] = "open" /\ Readable(c) /\ ~Reports(c) => c \in short
=============================================================================
