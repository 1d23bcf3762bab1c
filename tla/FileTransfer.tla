----------------------------- MODULE FileTransfer -----------------------------
(***************************************************************************)
(* The three file servers of 6_filetransfer.  Each accepted connection is  *)
(* sent a file and then shut down:                                         *)
(*   v1  reads the whole file into memory and sends it at once;            *)
(*   v2  sends one chunk, and the next when the write-complete callback    *)
(*       says it is gone; the context of the connection is a raw FILE*;    *)
(*   v3  is v2 with a shared_ptr context that closes the file.             *)
(*                                                                         *)
(* One thread runs muduo's event loop: an iteration first handles every    *)
(* ready channel, then runs the functors that were queued before it; what  *)
(* those queue waits for the next iteration.  So the end of a connection   *)
(* may be handled between the write that completes and its callback.       *)
(***************************************************************************)
EXTENDS Naturals, Sequences, FiniteSets, MuduoConn

CONSTANTS Conn,      \* the connections the server may ever accept
          Versions,  \* the programs considered: some of 1, 2 and 3
          FileLen,   \* length of the file
          BufLen     \* sizeof(buf): what one fread asks for

ASSUME VersionsAssumption == Versions \subseteq 1..3
ASSUME LengthAssumption == FileLen \in Nat /\ BufLen \in Nat \ {0}

VARIABLES
  version,  \* which of the three programs runs; it never changes
  conn,     \* conn[c]: the TcpConnection
  object,   \* object[c]: lifetime of that TcpConnection
  peer,     \* peer[c]: "open" until the client closes its socket
  handle,   \* handle[c]: what became of the FILE* opened for c
  pos,      \* pos[c]: its read offset
  ctx,      \* ctx[c]: context of c: "empty", "file", or "null"
  phase,    \* what the loop does: "events" or "functors"
  active,   \* active[c]: the event the last poll reported for c, or "none"
  queue,    \* pendingFunctors_
  batch     \* the functors of this iteration still to run

sockets == <<conn, object, peer>>
files == <<handle, pos, ctx>>
loop == <<phase, active, queue, batch>>
vars == <<version, sockets, files, loop>>

Functor(kind, c) == [kind |-> kind, conn |-> c]
Functors == [kind : {"writeComplete", "connectDestroyed"}, conn : Conn]

Content == [i \in 1..FileLen |-> i]

TypeOK ==
  /\ version \in Versions
  /\ conn \in [Conn -> Connection(1..FileLen)]
  /\ object \in [Conn -> {"unborn", "live", "doomed", "freed"}]
  /\ peer \in [Conn -> {"open", "closed"}]
  /\ handle \in [Conn -> {"none", "open", "closed", "twice"}]
  /\ pos \in [Conn -> 0..FileLen]
  /\ ctx \in [Conn -> {"empty", "file", "null"}]
  /\ phase \in {"events", "functors"}
  /\ active \in [Conn -> {"none", "readable", "writable"}]
  /\ queue \in Seq(Functors) /\ batch \in Seq(Functors)

Init ==
  /\ version \in Versions
  /\ conn = [c \in Conn |-> Connecting]
  /\ object = [c \in Conn |-> "unborn"]
  /\ peer = [c \in Conn |-> "open"]
  /\ handle = [c \in Conn |-> "none"]
  /\ pos = [c \in Conn |-> 0]
  /\ ctx = [c \in Conn |-> "empty"]
  /\ phase = "functors"
  /\ active = [c \in Conn |-> "none"]
  /\ queue = <<>> /\ batch = <<>>
-----------------------------------------------------------------------------
(* What a callback makes of one connection and its file: the handlers are  *)
(* sets of such results, one per outcome of the send they do.  A suffixed  *)
(* definition is a seeded fault of the one that follows it, unused here.   *)

Result(k, h, p, x, complete) ==
  [conn |-> k, handle |-> h, pos |-> p, ctx |-> x, complete |-> complete]

\* fclose, which must not come a second time.
Closed(h) == IF h = "open" THEN "closed" ELSE "twice"

NextPos(p) == IF p + BufLen < FileLen THEN p + BufLen ELSE FileLen

\* fread at offset p
Chunk(p) == SubSeq(Content, p + 1, NextPos(p))

\* v1: the content is empty when the file cannot be opened, and all of it
\* is sent.  No write-complete callback is set.
V1Up(k, gone, found) ==
  {Result(Shutdown(o.conn), IF found THEN "closed" ELSE "none", 0, "empty", FALSE) :
     o \in Send(k, IF found THEN Content ELSE <<>>, gone)}

NoFile_SaysSo(k) ==
  {Result(Shutdown(o.conn), "none", 0, "empty", o.complete) :
     o \in Send(k, <<1>>, FALSE)}

NoFile(k) == {Result(Shutdown(k), "none", 0, "empty", FALSE)}

SendChunk_CountsBuffer(k, gone, p) ==
  {Result(o.conn, "open", p + BufLen, "file", o.complete) :
     o \in Send(k, Chunk(p), gone)}

SendChunk_RestOfFile(k, gone, p) ==
  {Result(o.conn, "open", FileLen, "file", o.complete) :
     o \in Send(k, SubSeq(Content, p + 1, FileLen), gone)}

\* fread the next chunk and send it.
SendChunk(k, gone, p) ==
  {Result(o.conn, "open", NextPos(p), "file", o.complete) :
     o \in Send(k, Chunk(p), gone)}

\* v2: nothing is sent, and nothing shut down, if the file is empty.
V2Up(k, gone, found) ==
  IF ~found THEN NoFile(k)
  ELSE IF FileLen = 0 THEN {Result(k, "open", 0, "file", FALSE)}
  ELSE SendChunk(k, gone, 0)

\* v2, connection down: close the file but leave the pointer in the context.
V2Down(k, h, p, x) ==
  {Result(k, IF x = "file" THEN Closed(h) ELSE h, p, x, FALSE)}

V2WriteComplete_EagerShutdown(k, gone, h, p, x) ==
  IF x # "file" THEN {Result(k, h, p, x, FALSE)}
  ELSE IF NextPos(p) < FileLen THEN SendChunk(k, gone, p)
  ELSE {Result(Shutdown(k), Closed(h), p, "null", FALSE)}

V2WriteComplete_KeepsPointer(k, gone, h, p, x) ==
  IF x # "file" THEN {Result(k, h, p, x, FALSE)}
  ELSE IF h = "open" /\ p < FileLen THEN SendChunk(k, gone, p)
  ELSE {Result(Shutdown(k), Closed(h), p, x, FALSE)}

\* v2: send the next chunk; at the end close the file and shut down.  There
\* is no result without a context: any_cast throws, and the program ends.
\* A context that points to a closed file is read all the same: fread may
\* then report anything.
V2WriteComplete(k, gone, h, p, x) ==
  LET more == SendChunk(k, gone, p)
      done == {Result(Shutdown(k), Closed(h), p, "null", FALSE)}
  IN  CASE x = "empty" -> {}
        [] x = "null"  -> {Result(k, h, p, x, FALSE)}
        [] x = "file"  -> IF h # "open" THEN {[r EXCEPT !.handle = h] : r \in more} \cup done
                          ELSE IF p < FileLen THEN more ELSE done

V3Up(k, gone, found) == V2Up(k, gone, found)

V3WriteComplete_NoShutdown(k, gone, h, p, x) ==
  IF x # "file" THEN {Result(k, h, p, x, FALSE)}
  ELSE IF p < FileLen THEN SendChunk(k, gone, p)
  ELSE {Result(k, h, p, x, FALSE)}

\* v3: the same, but only the shared pointer closes the file, and the
\* context, once set, stays.
V3WriteComplete(k, gone, h, p, x) ==
  IF x # "file" THEN {}
  ELSE IF p < FileLen THEN SendChunk(k, gone, p)
  ELSE {Result(Shutdown(k), h, p, x, FALSE)}

Gone(c) == peer[c] = "closed"

OnConnectionUp(c, found) ==
  LET k == ConnectEstablished(conn[c]) IN
  CASE version = 1 -> V1Up(k, Gone(c), found)
    [] version = 2 -> V2Up(k, Gone(c), found)
    [] version = 3 -> V3Up(k, Gone(c), found)

OnConnectionDown_AlwaysCloses(c) ==
  V2Down(HandleClose(conn[c]), handle[c], pos[c], ctx[c])

OnConnectionDown(c) ==
  LET k == HandleClose(conn[c]) IN
  IF version = 2 THEN V2Down(k, handle[c], pos[c], ctx[c])
                 ELSE {Result(k, handle[c], pos[c], ctx[c], FALSE)}

OnWriteComplete(c) ==
  IF version = 2
  THEN V2WriteComplete(conn[c], Gone(c), handle[c], pos[c], ctx[c])
  ELSE V3WriteComplete(conn[c], Gone(c), handle[c], pos[c], ctx[c])
-----------------------------------------------------------------------------
(* The event loop.                                                         *)

\* Take result r for c.
Take(c, r) ==
  /\ conn' = [conn EXCEPT ![c] = r.conn]
  /\ handle' = [handle EXCEPT ![c] = r.handle]
  /\ pos' = [pos EXCEPT ![c] = r.pos]
  /\ ctx' = [ctx EXCEPT ![c] = r.ctx]

\* A completed write queues the callback, if the server has set one.
Completed(c, complete) ==
  IF complete /\ version # 1 THEN <<Functor("writeComplete", c)>> ELSE <<>>

\* Poll: end-of-file and resets are always reported, writability (W) only
\* for the sockets that have room.
Poll(W) ==
  /\ phase = "functors" /\ batch = <<>>
  /\ W \subseteq {c \in Conn : object[c] = "live" /\ Writing(conn[c])}
  /\ phase' = "events"
  /\ active' = [c \in Conn |-> IF object[c] = "live" /\ Gone(c) THEN "readable"
                               ELSE IF c \in W THEN "writable" ELSE "none"]
  /\ UNCHANGED <<version, sockets, files, queue, batch>>

\* The acceptor is ready: onConnection with the connection up.
Accept(c) ==
  /\ phase = "events"
  /\ object[c] = "unborn"
  /\ object' = [object EXCEPT ![c] = "live"]
  /\ \E found \in BOOLEAN : \E r \in OnConnectionUp(c, found) :
       Take(c, r) /\ queue' = queue \o Completed(c, r.complete)
  /\ UNCHANGED <<version, peer, phase, active, batch>>

\* End-of-file: onConnection with the connection down, then the library
\* queues connectDestroyed.
OnDown(c) ==
  /\ phase = "events" /\ active[c] = "readable"
  /\ active' = [active EXCEPT ![c] = "none"]
  /\ object' = [object EXCEPT ![c] = "doomed"]
  /\ \E r \in OnConnectionDown(c) : Take(c, r)
  /\ queue' = Append(queue, Functor("connectDestroyed", c))
  /\ UNCHANGED <<version, peer, phase, batch>>

\* The socket is writable; it may still fail if the peer closed meanwhile.
OnWritable(c) ==
  /\ phase = "events" /\ active[c] = "writable"
  /\ active' = [active EXCEPT ![c] = "none"]
  /\ \E o \in HandleWrite(conn[c])
             \cup (IF Gone(c) THEN {Outcome(conn[c], FALSE)} ELSE {}) :
       /\ conn' = [conn EXCEPT ![c] = o.conn]
       /\ queue' = queue \o Completed(c, o.complete)
  /\ UNCHANGED <<version, object, peer, files, phase, batch>>

\* doPendingFunctors swaps the queue out before it runs anything.
DoPendingFunctors ==
  /\ phase = "events"
  /\ \A c \in Conn : active[c] = "none"
  /\ phase' = "functors"
  /\ batch' = queue
  /\ queue' = <<>>
  /\ UNCHANGED <<version, sockets, files, active>>

RunWriteComplete(c) ==
  /\ phase = "functors" /\ batch # <<>>
  /\ Head(batch) = Functor("writeComplete", c)
  /\ batch' = Tail(batch)
  /\ \E r \in OnWriteComplete(c) :
       Take(c, r) /\ queue' = queue \o Completed(c, r.complete)
  /\ UNCHANGED <<version, object, peer, phase, active>>

V3Destroyed_Leaks(h, x) == h

\* The context of a destroyed connection goes with it: v3's closes the file.
V3Destroyed(h, x) == IF x = "file" THEN Closed(h) ELSE h

\* connectDestroyed holds the last reference to the connection.
ConnectDestroyed(c) ==
  /\ phase = "functors" /\ batch # <<>>
  /\ Head(batch) = Functor("connectDestroyed", c)
  /\ batch' = Tail(batch)
  /\ object' = [object EXCEPT ![c] = "freed"]
  /\ handle' = IF version = 3
               THEN [handle EXCEPT ![c] = V3Destroyed(@, ctx[c])] ELSE handle
  /\ UNCHANGED <<version, conn, peer, pos, ctx, phase, active, queue>>

\* A client may close at any time.
PeerClose(c) ==
  /\ object[c] = "live" /\ ~Gone(c)
  /\ peer' = [peer EXCEPT ![c] = "closed"]
  /\ UNCHANGED <<version, conn, object, files, loop>>

\* A client that reads end-of-file closes its side.
PeerSeesFin(c) == conn[c].fin /\ PeerClose(c)

Next ==
  \/ \E W \in SUBSET Conn : Poll(W)
  \/ DoPendingFunctors
  \/ \E c \in Conn : \/ Accept(c) \/ OnDown(c) \/ OnWritable(c)
                     \/ RunWriteComplete(c) \/ ConnectDestroyed(c)
                     \/ PeerClose(c)

Spec == Init /\ [][Next]_vars

\* The loop never stops and handles whatever a poll reports.
LoopFairness ==
  /\ WF_vars(\E W \in SUBSET Conn : Poll(W))
  /\ WF_vars(DoPendingFunctors)
  /\ \A c \in Conn : /\ WF_vars(OnDown(c))           /\ WF_vars(OnWritable(c))
                     /\ WF_vars(RunWriteComplete(c)) /\ WF_vars(ConnectDestroyed(c))

\* The clients keep reading, so buffered output finds room again and again,
\* and close when they see end-of-file.
ReaderFairness ==
  \A c \in Conn : /\ SF_vars(\E W \in SUBSET Conn : c \in W /\ Poll(W))
                 /\ WF_vars(PeerSeesFin(c))

FairSpec == Spec /\ LoopFairness /\ ReaderFairness
-----------------------------------------------------------------------------
(* Properties.                                                             *)

Pending(c, kind) == {i \in DOMAIN (batch \o queue) :
                       (batch \o queue)[i] = Functor(kind, c)}

\* v2 and v3 have at most one chunk under way: it is either in the output
\* buffer or its callback is pending, never both, and never two of them.
\* A client whose file was missing has none, for the callback would find no
\* context, which it does not ask for (filetransfer_v2.cc:108, v3.cc:93).
OneChunkInFlight ==
  version # 1 => \A c \in Conn :
    /\ Len(conn[c].out) <= BufLen
    /\ Cardinality(Pending(c, "writeComplete"))
         + (IF Writing(conn[c]) THEN 1 ELSE 0)
           <= (IF ctx[c] = "empty" THEN 0 ELSE 1)

\* onWriteComplete (filetransfer_v2.cc:109) reads whatever file its context
\* points to: while a callback is pending, that file is still open.
WriteCompleteFindsFileOpen ==
  \A c \in Conn : Pending(c, "writeComplete") # {} /\ ctx[c] = "file" =>
    handle[c] = "open"

\* With the shared pointer of v3 it is, whenever the client leaves.
SharedFileStaysOpen == version = 3 => WriteCompleteFindsFileOpen

\* A connection that is gone has left nothing behind: no callback that
\* would run on it and no open file, wherever in the file the client left.
\* The file was not closed twice either, but for a client that left version
\* 2 before the end of the delivery (filetransfer_v2.cc:96 and 119).
NothingLeftBehind ==
  \A c \in Conn : object[c] = "freed" =>
    /\ handle[c] # "open"
    /\ handle[c] = "twice" => version = 2 /\ ~conn[c].fin
    /\ Pending(c, "writeComplete") = {} /\ Pending(c, "connectDestroyed") = {}

\* Each of the three versions implements the delivery: whatever happens, what
\* a client is sent is the beginning of the file, the server shuts a client
\* down only after the whole file, and a client that stays gets all of it.
Delivery == INSTANCE FileDelivery WITH
  Client <- Conn,
  File <- Content,
  status <- [c \in Conn |-> IF object[c] = "unborn" THEN "new"
                           ELSE IF Gone(c) THEN "left"
                           ELSE IF ~conn[c].fin THEN "receiving"
                           ELSE IF handle[c] = "none" THEN "refused" ELSE "finished"],
  received <- [c \in Conn |-> conn[c].wire]

Delivers == Delivery!Spec

\* The same without the promise that a client gets all of it in the end.
DeliverySafety == Delivery!Init /\ [][Delivery!Next]_(Delivery!vars)

\* Every connection is released in the end, with its file closed.
ReleasedInTheEnd ==
  \A c \in Conn : object[c] = "live" ~> object[c] = "freed" /\ handle[c] # "open"
=============================================================================
