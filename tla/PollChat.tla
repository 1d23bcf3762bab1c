------------------------------- MODULE PollChat -------------------------------
(***************************************************************************)
(* The chat server of 4_reactor/multiplexing.py: one thread polls the      *)
(* listening socket and the clients' blocking sockets, level-triggered,    *)
(* and sends what it reads from one client to all of them.  No exception   *)
(* is caught, so one ends the server for everybody.                        *)
(* A definition with a suffix is a seeded fault of the one that follows.   *)
(***************************************************************************)
EXTENDS Naturals, SequencesExt, ListOps

CONSTANTS Client, Listener,
          BufLen,     \* what recv asks for
          Room,       \* units the sockets towards a client hold unread
          MaxSent     \* bound: units one client sends

ASSUME ClientAssumption == Listener \notin Client
ASSUME RoomAssumption == BufLen \in Nat \ {0} /\ Room >= BufLen /\ MaxSent \in Nat

VARIABLES
  pc,           \* "loop", "sending" inside the broadcast, or "dead"
  registered,   \* the clients poll looks at, in the order of registration
  connections,  \* the dict, in its order
  batch,        \* events that are not handled yet
  data, todo,   \* the broadcast: [from, units], and who is still to get it
  stream,       \* stream[c]: "new", "open", "half" once c has shut its writing
                \* side, "fin" once it closed its socket, "probed" if it was
                \* sent to since then; "reset", "finreset" after end-of-file
  sent, said,   \* units of c that were sent, and that were received by recv
  heard, lag,   \* heard[c]: all that was sent to c; the last lag[c] unread
  log, joined,  \* everything broadcast, and how much of it before c (history)
  backlog       \* connected and not accepted, in order

server == <<pc, registered, connections, batch, data, todo, log, joined, said>>
vars == <<server, stream, sent, heard, lag, backlog>>

Silence == [from |-> Listener, units |-> <<>>]

Init ==
  /\ pc = "loop" /\ batch = <<>> /\ todo = <<>> /\ data = Silence
  /\ registered = <<>> /\ connections = <<>> /\ backlog = <<>> /\ log = <<>>
  /\ stream = [c \in Client |-> "new"]
  /\ heard = [c \in Client |-> <<>>]
  /\ sent = [c \in Client |-> 0] /\ said = sent /\ lag = sent /\ joined = sent

Unread(c) == sent[c] - said[c]
Ended(c) == stream[c] \in {"half", "fin", "probed", "reset", "finreset"}
Broken(c) == stream[c] \in {"reset", "finreset"}
Readable(c) == Unread(c) > 0 \/ Ended(c)
Without(seq, c) == Kept(seq, Client \ {c})
-----------------------------------------------------------------------------
(* The server.                                                             *)

\* poll() returns; the listening socket was registered first.
Poll ==
  /\ pc = "loop" /\ batch = <<>>
  /\ batch' = (IF backlog # <<>> THEN <<Listener>> ELSE <<>>)
                \o Kept(registered, {c \in Client : Readable(c)})
  /\ batch' # <<>>
  /\ UNCHANGED <<pc, registered, connections, data, todo, log, joined, said,
                 stream, sent, heard, lag, backlog>>

Turn(s) == pc = "loop" /\ batch # <<>> /\ Head(batch) = s /\ batch' = Tail(batch)

Register_Forgotten(c) == registered

\* poll.register
Register(c) == Append(registered, c)

Accept ==
  /\ Turn(Listener)
  /\ LET c == Head(backlog) IN
     /\ registered' = Register(c)
     /\ connections' = Append(connections, c)
     /\ joined' = [joined EXCEPT ![c] = Len(log)]
  /\ backlog' = Tail(backlog)
  /\ UNCHANGED <<pc, data, todo, log, said, stream, sent, heard, lag>>

\* recv(4096)
Chunk(c) == IF Unread(c) < BufLen THEN Unread(c) ELSE BufLen

Audience_Others(c) == Without(connections, c)

\* for fn, sck in connections.items(): the one who spoke hears it as well.
Audience(c) == connections

Forget_KeepsSocket(c) == connections

\* del connections[fileno]
Forget(c) == Without(connections, c)

\* recv: data to pass on, an exception if the connection was reset before
\* its end-of-file, or end-of-file.
OnClient(c) ==
  /\ Turn(c)
  /\ IF Unread(c) > 0
     THEN LET units == [i \in 1..Chunk(c) |-> <<c, said[c] + i>>] IN
          /\ pc' = "sending" /\ todo' = Audience(c)
          /\ data' = [from |-> c, units |-> units]
          /\ log' = log \o units
          /\ said' = [said EXCEPT ![c] = @ + Chunk(c)]
          /\ UNCHANGED <<registered, connections>>
     ELSE /\ IF stream[c] = "reset" \/ c \notin ToSet(connections)
             THEN pc' = "dead" /\ UNCHANGED <<registered, connections>>
             ELSE /\ registered' = Without(registered, c)
                  /\ connections' = Forget(c)
                  /\ UNCHANGED pc
          /\ UNCHANGED <<data, todo, log, said>>
  /\ UNCHANGED <<joined, stream, sent, heard, lag, backlog>>

\* getpeername() or send() raises: the one who spoke or the one to be sent to
\* is reset, or its socket was closed by the server.
Raises(d) == Broken(data.from) \/ Broken(d) \/ d \notin ToSet(registered)

\* One turn of the broadcast.  Data for a client that closed its socket are
\* accepted and lost; for one that is slow to read, send waits for room.
SendTo(d) ==
  /\ pc = "sending" /\ Head(todo) = d
  /\ IF Raises(d) THEN pc' = "dead" /\ UNCHANGED <<todo, stream, heard, lag>>
     ELSE /\ IF stream[d] \in {"fin", "probed"}
             THEN stream' = [stream EXCEPT ![d] = "probed"] /\ UNCHANGED lag
             ELSE /\ lag[d] + Len(data.units) <= Room
                  /\ lag' = [lag EXCEPT ![d] = @ + Len(data.units)]
                  /\ UNCHANGED stream
          /\ heard' = [heard EXCEPT ![d] = @ \o data.units]
          /\ todo' = Tail(todo)
          /\ pc' = IF Tail(todo) = <<>> THEN "loop" ELSE "sending"
  /\ UNCHANGED <<registered, connections, batch, data, log, joined, said,
                 sent, backlog>>
-----------------------------------------------------------------------------
(* The clients.                                                            *)

Connect(c) ==
  /\ stream[c] = "new"
  /\ stream' = [stream EXCEPT ![c] = "open"]
  /\ backlog' = Append(backlog, c)
  /\ UNCHANGED <<server, sent, heard, lag>>

Say(c) ==
  /\ stream[c] = "open" /\ sent[c] < MaxSent
  /\ sent' = [sent EXCEPT ![c] = @ + 1]
  /\ UNCHANGED <<server, stream, heard, lag, backlog>>

Listen(c) ==
  /\ stream[c] \in {"open", "half"} /\ lag[c] > 0
  /\ lag' = [lag EXCEPT ![c] = 0]
  /\ UNCHANGED <<server, stream, sent, heard, backlog>>

HalfClose(c) ==
  /\ stream[c] = "open"
  /\ stream' = [stream EXCEPT ![c] = "half"]
  /\ UNCHANGED <<server, sent, heard, lag, backlog>>

Cut == [s \in {"open", "half", "probed"} |-> IF s = "open" THEN "reset" ELSE "finreset"]

\* A client closes its socket, which resets the connection if it has not
\* read everything.
Close(c) ==
  /\ stream[c] \in {"open", "half"}
  /\ stream' = [stream EXCEPT ![c] = IF lag[c] > 0 THEN Cut[@] ELSE "fin"]
  /\ UNCHANGED <<server, sent, heard, lag, backlog>>

\* What was sent to a closed socket is answered with a reset.
Reset(c) ==
  /\ stream[c] = "probed"
  /\ stream' = [stream EXCEPT ![c] = Cut[@]]
  /\ UNCHANGED <<server, sent, heard, lag, backlog>>

Serve == Poll \/ Accept \/ \E c \in Client : OnClient(c) \/ SendTo(c)

Next == Serve \/ \E c \in Client : \/ Connect(c) \/ Say(c) \/ Listen(c)
                                   \/ HalfClose(c) \/ Close(c) \/ Reset(c)

\* The server's one thread runs, and the clients that stay keep reading.
Spec == /\ Init /\ [][Next]_vars
        /\ WF_vars(Serve) /\ \A c \in Client : WF_vars(Listen(c))
-----------------------------------------------------------------------------
(* Properties.                                                             *)

\* Everybody takes part in the same conversation: a client has been sent
\* exactly what was broadcast since it was accepted, without the chunk that
\* is still on its way to it, and what each client says is in order.
SameConversation ==
  \A c \in ToSet(connections) :
    LET due == Len(log) - (IF pc # "loop" /\ c \in ToSet(todo)
                           THEN Len(data.units) ELSE 0)
    IN  /\ heard[c] = SubSeq(log, joined[c] + 1, due)
        /\ Kept(log, {c} \X (1..MaxSent)) = [i \in 1..said[c] |-> <<c, i>>]

\* An exception ends the server only when a client's connection was reset,
\* its own or in reply to a broadcast; the server never uses a socket that
\* it has closed, in whatever order clients come, speak and leave.
DiesOnlyByReset == pc = "dead" => \E c \in Client : Broken(c)

\* All that a client does is noticed in the end, if the others keep reading
\* and no connection is reset: what it said is broadcast, and when it left
\* it is forgotten.
EverythingNoticed ==
  \A c \in Client :
    /\ \A n \in 1..MaxSent : sent[c] >= n ~> said[c] >= n \/ pc = "dead"
    /\ Ended(c) ~> c \notin ToSet(connections \o backlog) \/ pc = "dead"
=============================================================================
