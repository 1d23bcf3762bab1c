-------------------------- MODULE FileTransferProofs --------------------------
(***************************************************************************)
(* Theorems about the file servers for any set of connections and any      *)
(* lengths: no callback and no open file outlives its connection, and the  *)
(* shared pointer of version 3 keeps the file open for every callback,     *)
(* files are closed once, and each version delivers the file as            *)
(* FileDelivery says, but for liveness.                                    *)
(***************************************************************************)
EXTENDS FileTransfer, SharedLemmas, FiniteSetTheorems

Datum == 1..FileLen

\* What the library knows of a connection follows the life of its object.
StateOf(o) == CASE o = "unborn" -> {"kConnecting"}
                [] o = "live" -> {"kConnected", "kDisconnecting"}
                [] o \in {"doomed", "freed"} -> {"kDisconnected"}

\* The file of a connection, by version v, lifetime o, handle h, context x.
FileOK(v, o, h, x) ==
  /\ v = 1 => h # "open" /\ x # "file"
  /\ v # 2 => h # "twice"
  /\ v = 2 => /\ h = "open" => o = "live" /\ x = "file"
              /\ h = "twice" => o # "live" /\ x # "file"
              /\ x = "file" => h # "none" /\ (o = "live" => h = "open")
  /\ v = 3 => /\ o # "freed" => (x = "file" <=> h = "open")
              /\ o = "freed" => h # "open"

\* A functor that waits, with the connections' lifetimes o: connectDestroyed
\* only for a doomed one, a write-complete callback also for a live one.
FunctorOK(f, o) ==
  o[f.conn] = "doomed" \/ (f.kind = "writeComplete" /\ o[f.conn] = "live")

\* g may wait behind f: nothing of a connection runs after its destruction.
MayFollow(f, g) == f.kind = "connectDestroyed" => g.conn # f.conn

\* The functors b of this iteration, before those of the next, q.
QueueOK(b, q, o) ==
  /\ \A i \in 1..Len(b) : FunctorOK(b[i], o)
  /\ \A i \in 1..Len(q) : FunctorOK(q[i], o)
  /\ \A i \in 1..Len(b), j \in 1..Len(b) : i < j => MayFollow(b[i], b[j])
  /\ \A i \in 1..Len(q), j \in 1..Len(q) : i < j => MayFollow(q[i], q[j])
  /\ \A i \in 1..Len(b), j \in 1..Len(q) : MayFollow(b[i], q[j])

FInv ==
  /\ TypeOK
  /\ phase = "events" => batch = <<>>
  /\ \A c \in Conn : /\ conn[c].state \in StateOf(object[c])
                     /\ FileOK(version, object[c], handle[c], ctx[c])
                     /\ active[c] # "none" => object[c] = "live"
  /\ QueueOK(batch, queue, object)
-----------------------------------------------------------------------------
(* The functor queues.                                                     *)

\* A live connection may queue a functor; it may be doomed in the same step.
LEMMA AddFunctor ==
  ASSUME NEW b \in Seq(Functors), NEW q \in Seq(Functors), NEW o, NEW p,
         QueueOK(b, q, o), NEW f \in Functors, o[f.conn] = "live",
         \A c \in Conn : p[c] = o[c] \/ (c = f.conn /\ p[c] = "doomed"),
         FunctorOK(f, p)
  PROVE  QueueOK(b, Append(q, f), p)
<1>1. ASSUME NEW g \in Functors, FunctorOK(g, o)
      PROVE  FunctorOK(g, p) /\ MayFollow(g, f)
  BY <1>1 DEF FunctorOK, MayFollow, Functors
<1>2. /\ Len(Append(q, f)) = Len(q) + 1 /\ Append(q, f)[Len(q) + 1] = f
      /\ \A i \in 1..Len(q) : Append(q, f)[i] = q[i]
      /\ Len(q) \in Nat
  OBVIOUS
<1>3. \A i \in 1..Len(q) : q[i] \in Functors /\ FunctorOK(q[i], o)
  BY DEF QueueOK
<1>4. \A i \in 1..Len(b) : b[i] \in Functors /\ FunctorOK(b[i], o)
  BY DEF QueueOK
<1> DEFINE r == Append(q, f)
<1> HIDE DEF r
<1>5. /\ Len(r) = Len(q) + 1 /\ r[Len(q) + 1] = f
      /\ \A i \in 1..Len(q) : r[i] = q[i]
  BY <1>2 DEF r
<1>6. ASSUME NEW i \in 1..Len(r) PROVE i \in 1..Len(q) \/ i = Len(q) + 1
  BY <1>2, <1>5
<1>7. \A i \in 1..Len(b) : FunctorOK(b[i], p) /\ MayFollow(b[i], f)
  BY <1>1, <1>4
<1>8. \A i \in 1..Len(q) : FunctorOK(q[i], p) /\ MayFollow(q[i], f)
  BY <1>1, <1>3
<1>9. \A i \in 1..Len(r) : FunctorOK(r[i], p)
  BY <1>5, <1>6, <1>8
<1>10. \A i \in 1..Len(b), j \in 1..Len(r) : MayFollow(b[i], r[j])
  BY <1>5, <1>6, <1>7 DEF QueueOK
<1>11. ASSUME NEW i \in 1..Len(r), NEW j \in 1..Len(r), i < j
       PROVE  MayFollow(r[i], r[j])
  <2>1. i \in 1..Len(q)
    BY <1>2, <1>5, <1>11
  <2>2. CASE j = Len(q) + 1
    BY <1>5, <1>8, <2>1, <2>2
  <2>3. CASE j \in 1..Len(q)
    BY <1>5, <1>11, <2>1, <2>3 DEF QueueOK
  <2>4. QED
    BY <1>6, <2>2, <2>3
<1>12. QueueOK(b, r, p)
  BY <1>7, <1>9, <1>10, <1>11 DEF QueueOK
<1>13. QED
  BY <1>12 DEF r

\* The functor at the head is taken out.
LEMMA DropHead ==
  ASSUME NEW b \in Seq(Functors), NEW q \in Seq(Functors), NEW o,
         QueueOK(b, q, o), b # <<>>
  PROVE  QueueOK(Tail(b), q, o) /\ FunctorOK(Head(b), o)
<1>1. /\ Len(Tail(b)) = Len(b) - 1 /\ Len(b) \in Nat \ {0}
      /\ \A i \in 1..Len(b) - 1 : Tail(b)[i] = b[i + 1]
      /\ Head(b) = b[1]
  BY HeadTailProperties, EmptySeq
<1> DEFINE t == Tail(b)
<1>2. /\ Len(t) = Len(b) - 1
      /\ \A i \in 1..Len(t) : i + 1 \in 1..Len(b) /\ t[i] = b[i + 1]
  BY <1>1
<1> HIDE DEF t
<1>3. \A i \in 1..Len(t) : FunctorOK(t[i], o)
  BY <1>2 DEF QueueOK
<1>4. \A i \in 1..Len(t), j \in 1..Len(q) : MayFollow(t[i], q[j])
  BY <1>2 DEF QueueOK
<1>5. ASSUME NEW i \in 1..Len(t), NEW j \in 1..Len(t), i < j
      PROVE  MayFollow(t[i], t[j])
  <2>1. i + 1 < j + 1 /\ i + 1 \in 1..Len(b) /\ j + 1 \in 1..Len(b)
    BY <1>1, <1>2, <1>5
  <2>2. MayFollow(b[i + 1], b[j + 1])
    BY <2>1 DEF QueueOK
  <2>3. QED
    BY <1>2, <2>2
<1>6. QueueOK(t, q, o)
  BY <1>3, <1>4, <1>5 DEF QueueOK
<1>7. FunctorOK(b[1], o)
  BY <1>1 DEF QueueOK
<1>8. QED
  BY <1>1, <1>6, <1>7 DEF t

\* Nothing of a connection is left in the queues when connectDestroyed runs.
LEMMA DestroyedIsLast ==
  ASSUME NEW b \in Seq(Functors), NEW q \in Seq(Functors), NEW o, NEW p,
         QueueOK(b, q, o), b # <<>>, NEW d \in Conn,
         Head(b) = Functor("connectDestroyed", d),
         \A c \in Conn \ {d} : p[c] = o[c]
  PROVE  QueueOK(Tail(b), q, p)
<1>1. /\ Len(Tail(b)) = Len(b) - 1 /\ Len(b) \in Nat \ {0}
      /\ \A i \in 1..Len(b) - 1 : Tail(b)[i] = b[i + 1]
      /\ Head(b) = b[1] /\ Tail(b) \in Seq(Functors)
  BY HeadTailProperties, EmptySeq
<1>2. QueueOK(Tail(b), q, o)
  BY DropHead
<1> DEFINE t == Tail(b)
<1>3. /\ t \in Seq(Functors)
      /\ \A i \in 1..Len(t) : /\ 1 < i + 1 /\ i + 1 \in 1..Len(b) /\ 1 \in 1..Len(b)
                              /\ t[i] = b[i + 1]
  BY <1>1
<1> HIDE DEF t
<1>4. ASSUME NEW g, MayFollow(b[1], g) PROVE g.conn # d
  BY <1>1, <1>4 DEF MayFollow, Functor
<1>5. ASSUME NEW i \in 1..Len(t) PROVE FunctorOK(t[i], p)
  <2>1. MayFollow(b[1], t[i])
    BY <1>3 DEF QueueOK
  <2>2. t[i] \in Functors /\ FunctorOK(t[i], o)
    BY <1>2, <1>3 DEF QueueOK, t
  <2>3. QED
    BY <1>4, <2>1, <2>2 DEF FunctorOK, Functors
<1>6. ASSUME NEW i \in 1..Len(q) PROVE FunctorOK(q[i], p)
  <2>1. MayFollow(b[1], q[i])
    BY <1>1 DEF QueueOK
  <2>2. q[i] \in Functors /\ FunctorOK(q[i], o)
    BY DEF QueueOK
  <2>3. QED
    BY <1>4, <2>1, <2>2 DEF FunctorOK, Functors
<1>7. QueueOK(t, q, p)
  BY <1>2, <1>5, <1>6 DEF QueueOK, t
<1>8. QED
  BY <1>7 DEF t

\* A connection that is accepted has no functors.
LEMMA BornWithoutFunctors ==
  ASSUME NEW b \in Seq(Functors), NEW q \in Seq(Functors), NEW o, NEW p,
         QueueOK(b, q, o), NEW d \in Conn, o[d] = "unborn",
         \A c \in Conn \ {d} : p[c] = o[c]
  PROVE  QueueOK(b, q, p)
<1>1. ASSUME NEW g \in Functors, FunctorOK(g, o) PROVE FunctorOK(g, p)
  BY <1>1 DEF FunctorOK, Functors
<1>2. \A i \in 1..Len(b) : b[i] \in Functors /\ FunctorOK(b[i], o)
  BY DEF QueueOK
<1>3. \A i \in 1..Len(q) : q[i] \in Functors /\ FunctorOK(q[i], o)
  BY DEF QueueOK
<1>4. QED
  BY <1>1, <1>2, <1>3 DEF QueueOK

\* What Completed() puts into the queue.
LEMMA CompletedIsAppended ==
  ASSUME NEW q \in Seq(Functors), NEW c \in Conn, NEW done
  PROVE  \/ q \o Completed(c, done) = q
         \/ /\ done
            /\ Functor("writeComplete", c) \in Functors
            /\ q \o Completed(c, done) = Append(q, Functor("writeComplete", c))
<1>1. Functor("writeComplete", c) \in Functors
  BY DEF Functor, Functors
<1>2. CASE done /\ version # 1
  <2>1. Completed(c, done) = <<Functor("writeComplete", c)>>
    BY <1>2 DEF Completed
  <2>2. ASSUME NEW f \in Functors PROVE q \o <<f>> = Append(q, f)
    OBVIOUS
  <2>3. QED
    BY <1>1, <1>2, <2>1, <2>2
<1>3. CASE ~(done /\ version # 1)
  <2>1. Completed(c, done) = <<>>
    BY <1>3, Zenon DEF Completed
  <2>2. QED
    BY <2>1, ConcatEmptySeq
<1>4. QED
  BY <1>2, <1>3, Zenon
-----------------------------------------------------------------------------
(* The callbacks of the servers.                                           *)

\* The types of a result, and what becomes of a connection with lifetime o.
ResultOK(r, o) ==
  /\ r.conn \in Connection(Datum) /\ r.conn.state \in StateOf(o)
  /\ r.handle \in {"none", "open", "closed", "twice"}
  /\ r.pos \in 0..FileLen
  /\ r.ctx \in {"empty", "file", "null"}
  /\ FileOK(version, o, r.handle, r.ctx)
  /\ r.complete => o = "live"

\* A chunk is a piece of the file, and the offset stays inside it.
LEMMA ChunkType ==
  ASSUME NEW p \in 0..FileLen
  PROVE  /\ Content \in Seq(Datum)
         /\ Chunk(p) \in Seq(Datum)
         /\ NextPos(p) \in 0..FileLen
<1>1. FileLen \in Nat /\ BufLen \in Nat /\ p \in Nat
  BY LengthAssumption
<1>2. NextPos(p) \in 0..FileLen
  BY <1>1 DEF NextPos
<1>3. \A i \in p + 1..NextPos(p) : Content[i] \in Datum
  BY <1>1, <1>2 DEF Content, Datum
<1>4. Chunk(p) \in Seq(Datum)
  BY <1>1, <1>2, <1>3, SubSeqProperties DEF Chunk
<1>5. Content \in Seq(Datum)
  BY <1>1 DEF Content, Datum
<1>6. QED
  BY <1>2, <1>4, <1>5

\* send() completes only on a connected connection.
LEMMA SendCompletes ==
  ASSUME NEW k, NEW data, NEW gone, NEW o \in Send(k, data, gone), o.complete
  PROVE  k.state = "kConnected"
BY DEF Send, Outcome

\* The next chunk is sent, for a live connection or for one that has gone.
LEMMA SendChunkResult ==
  ASSUME NEW k \in Connection(Datum), NEW gone, NEW p \in 0..FileLen,
         NEW r \in SendChunk(k, gone, p)
  PROVE  /\ r.conn \in Connection(Datum) /\ r.conn.state = k.state
         /\ r.handle = "open" /\ r.ctx = "file" /\ r.pos \in 0..FileLen
         /\ r.complete => k.state = "kConnected"
         /\ r = Result(r.conn, r.handle, r.pos, r.ctx, r.complete)
<1>1. PICK o \in Send(k, Chunk(p), gone) :
        r = Result(o.conn, "open", NextPos(p), "file", o.complete)
  BY DEF SendChunk
<1>2. Chunk(p) \in Seq(Datum) /\ NextPos(p) \in 0..FileLen
  BY ChunkType
<1>3. o.conn \in Connection(Datum) /\ o.conn.state = k.state
  BY <1>2, SendType
<1>4. o.complete => k.state = "kConnected"
  BY SendCompletes
<1>5. /\ r.conn = o.conn /\ r.handle = "open" /\ r.ctx = "file"
      /\ r.pos = NextPos(p) /\ r.complete = o.complete
  BY <1>1 DEF Result
<1>6. QED
  BY <1>1, <1>2, <1>3, <1>4, <1>5

\* onConnection of a new connection, whether its file is found or not.
LEMMA UpResult ==
  ASSUME TypeOK, NEW c \in Conn, conn[c].state = "kConnecting",
         NEW found \in BOOLEAN, NEW r \in OnConnectionUp(c, found)
  PROVE  ResultOK(r, "live")
<1> DEFINE k == ConnectEstablished(conn[c])
<1>1. k \in Connection(Datum) /\ k.state = "kConnected"
  BY DEF ConnectEstablished, TypeOK, Connection, ConnState, Datum
<1> HIDE DEF k
<1>2. /\ Shutdown(k) \in Connection(Datum)
      /\ Shutdown(k).state = "kDisconnecting"
  BY <1>1, ShutdownType
<1>3. 0 \in 0..FileLen
  BY LengthAssumption
<1>4. CASE version = 1
  <2> DEFINE data == IF found THEN Content ELSE <<>>
  <2>1. r \in V1Up(k, Gone(c), found)
    BY <1>4 DEF OnConnectionUp, k
  <2>2. PICK o \in Send(k, data, Gone(c)) :
          r = Result(Shutdown(o.conn), IF found THEN "closed" ELSE "none", 0, "empty", FALSE)
    BY <2>1 DEF V1Up
  <2>3. data \in Seq(Datum)
    BY <1>3, ChunkType, EmptySeq
  <2> HIDE DEF data
  <2>4. o.conn \in Connection(Datum) /\ o.conn.state = "kConnected"
    BY <1>1, <2>3, SendType
  <2>5. /\ Shutdown(o.conn) \in Connection(Datum)
        /\ Shutdown(o.conn).state = "kDisconnecting"
    BY <2>4, ShutdownType
  <2>6. QED
    BY <1>3, <1>4, <2>2, <2>5 DEF ResultOK, Result, StateOf, FileOK
<1>5. CASE version \in {2, 3}
  <2>1. r \in V2Up(k, Gone(c), found)
    BY <1>5 DEF OnConnectionUp, V3Up, k
  <2>2. CASE ~found
    <3>1. r = Result(Shutdown(k), "none", 0, "empty", FALSE)
      BY <2>1, <2>2 DEF V2Up, NoFile
    <3>2. QED
      BY <1>2, <1>3, <1>5, <3>1 DEF ResultOK, Result, StateOf, FileOK
  <2>3. CASE found /\ FileLen = 0
    <3>1. r = Result(k, "open", 0, "file", FALSE)
      BY <2>1, <2>3 DEF V2Up
    <3>2. QED
      BY <1>1, <1>3, <1>5, <3>1 DEF ResultOK, Result, StateOf, FileOK
  <2>4. CASE found /\ FileLen # 0
    <3>1. r \in SendChunk(k, Gone(c), 0)
      BY <2>1, <2>4 DEF V2Up
    <3>2. QED
      BY <1>1, <1>3, <1>5, <3>1, SendChunkResult DEF ResultOK, StateOf, FileOK
  <2>5. QED
    BY <2>2, <2>3, <2>4
<1>6. QED
  BY <1>4, <1>5, VersionsAssumption DEF TypeOK

\* onConnection of a connection that is down.
LEMMA DownResult ==
  ASSUME TypeOK, NEW c \in Conn, FileOK(version, "live", handle[c], ctx[c]),
         NEW r \in OnConnectionDown(c)
  PROVE  ResultOK(r, "doomed")
<1> DEFINE k == HandleClose(conn[c])
<1>1. k \in Connection(Datum) /\ k.state = "kDisconnected"
  BY ZenonT(60) DEF HandleClose, TypeOK, Connection, ConnState, Datum
<1> HIDE DEF k
<1>2. r = Result(k, IF version = 2 /\ ctx[c] = "file" THEN Closed(handle[c]) ELSE handle[c],
                 pos[c], ctx[c], FALSE)
  BY DEF OnConnectionDown, V2Down, k
<1>3. /\ handle[c] \in {"none", "open", "closed", "twice"} /\ pos[c] \in 0..FileLen
      /\ ctx[c] \in {"empty", "file", "null"} /\ version \in 1..3
  BY VersionsAssumption DEF TypeOK
<1>4. QED
  BY <1>1, <1>2, <1>3 DEF ResultOK, Result, StateOf, FileOK, Closed

\* The write-complete callback, for a live connection or a doomed one.
LEMMA WriteCompleteResult ==
  ASSUME TypeOK, NEW c \in Conn, NEW o \in {"live", "doomed"},
         conn[c].state \in StateOf(o), FileOK(version, o, handle[c], ctx[c]),
         NEW r \in OnWriteComplete(c)
  PROVE  ResultOK(r, o)
<1> DEFINE k == conn[c]
           h == handle[c]
           p == pos[c]
           x == ctx[c]
<1>1. /\ k \in Connection(Datum) /\ k.state \in StateOf(o)
      /\ h \in {"none", "open", "closed", "twice"} /\ p \in 0..FileLen
      /\ x \in {"empty", "file", "null"} /\ version \in 1..3
      /\ FileOK(version, o, h, x)
  BY VersionsAssumption DEF TypeOK, Datum
<1>2. IF version = 2 THEN r \in V2WriteComplete(k, Gone(c), h, p, x)
                     ELSE r \in V3WriteComplete(k, Gone(c), h, p, x)
  BY DEF OnWriteComplete
<1> HIDE DEF k, h, p, x
<1>3. /\ Shutdown(k) \in Connection(Datum) /\ Shutdown(k).state \in StateOf(o)
  BY <1>1, ShutdownType DEF StateOf
<1>4. CASE r = Result(k, h, p, x, FALSE)
  BY <1>1, <1>4 DEF ResultOK, Result
<1>5. ASSUME NEW m \in SendChunk(k, Gone(c), p), x = "file"
      PROVE  /\ m.conn \in Connection(Datum) /\ m.conn.state \in StateOf(o)
             /\ m.handle = "open" /\ m.ctx = "file" /\ m.pos \in 0..FileLen
             /\ m.complete => o = "live"
             /\ m = Result(m.conn, m.handle, m.pos, m.ctx, m.complete)
  BY <1>1, <1>5, SendChunkResult DEF StateOf
<1>6. CASE version = 2 /\ x = "file"
  <2>1. CASE h = "closed"
    <3>0. o = "doomed"
      BY <1>1, <1>6, <2>1 DEF FileOK
    <3>1. CASE r = Result(Shutdown(k), "twice", p, "null", FALSE)
      BY <1>1, <1>3, <1>6, <3>0, <3>1 DEF ResultOK, Result, FileOK
    <3>2. ASSUME NEW m \in SendChunk(k, Gone(c), p), r = [m EXCEPT !.handle = h]
          PROVE  ResultOK(r, o)
      <4>1. r = Result(m.conn, "closed", m.pos, m.ctx, m.complete)
        BY <1>5, <1>6, <2>1, <3>2 DEF Result
      <4>2. QED
        BY <1>5, <1>6, <3>0, <3>2, <4>1 DEF ResultOK, Result, FileOK
    <3>3. QED
      BY <1>2, <1>6, <2>1, <3>1, <3>2 DEF V2WriteComplete, Closed
  <2>2. CASE h = "open"
    <3>1. o = "live"
      BY <1>1, <1>6, <2>2 DEF FileOK
    <3>2. r \in SendChunk(k, Gone(c), p)
          \/ r = Result(Shutdown(k), "closed", p, "null", FALSE)
      BY <1>2, <1>6, <2>2 DEF V2WriteComplete, Closed
    <3>3. CASE r = Result(Shutdown(k), "closed", p, "null", FALSE)
      BY <1>1, <1>3, <1>6, <3>3 DEF ResultOK, Result, FileOK
    <3>4. CASE r \in SendChunk(k, Gone(c), p)
      BY <1>5, <1>6, <3>1, <3>4 DEF ResultOK, FileOK
    <3>5. QED
      BY <3>2, <3>3, <3>4
  <2>3. QED
    BY <1>1, <1>6, <2>1, <2>2 DEF FileOK
<1>7. CASE version = 3 /\ x = "file"
  <2>1. h = "open"
    BY <1>1, <1>7 DEF FileOK
  <2>2. r \in SendChunk(k, Gone(c), p) \/ r = Result(Shutdown(k), h, p, x, FALSE)
    <3>1. r \in V3WriteComplete(k, Gone(c), h, p, x)
      BY <1>2, <1>7
    <3>2. r \in IF p < FileLen THEN SendChunk(k, Gone(c), p)
                               ELSE {Result(Shutdown(k), h, p, x, FALSE)}
      BY <1>7, <3>1, Zenon DEF V3WriteComplete
    <3>3. QED
      BY <3>2, Zenon
  <2>3. CASE r = Result(Shutdown(k), h, p, x, FALSE)
    BY <1>1, <1>3, <2>3 DEF ResultOK, Result
  <2>4. CASE r \in SendChunk(k, Gone(c), p)
    BY <1>5, <1>7, <2>4 DEF ResultOK, FileOK
  <2>5. QED
    BY <2>2, <2>3, <2>4
<1>8. CASE x # "file"
  <2>1. x = "empty" \/ x = "null"
    BY <1>1, <1>8
  <2>2. r = Result(k, h, p, x, FALSE)
    BY <1>2, <2>1 DEF V2WriteComplete, V3WriteComplete
  <2>3. QED
    BY <1>4, <2>2
<1>9. QED
  BY <1>1, <1>6, <1>7, <1>8 DEF FileOK
-----------------------------------------------------------------------------
(* The steps of the event loop.                                            *)

\* A result taken for c is well typed, and the other connections keep theirs.
LEMMA Taken ==
  ASSUME TypeOK, NEW c \in Conn, NEW o, NEW r, ResultOK(r, o), Take(c, r)
  PROVE  /\ conn' \in [Conn -> Connection(Datum)]
         /\ handle' \in [Conn -> {"none", "open", "closed", "twice"}]
         /\ pos' \in [Conn -> 0..FileLen]
         /\ ctx' \in [Conn -> {"empty", "file", "null"}]
         /\ conn'[c].state \in StateOf(o)
         /\ FileOK(version, o, handle'[c], ctx'[c])
         /\ \A d \in Conn \ {c} :
              conn'[d] = conn[d] /\ handle'[d] = handle[d] /\ ctx'[d] = ctx[d]
BY DEF TypeOK, Take, ResultOK, Datum

\* Nothing is queued and no file is open when the server starts.
LEMMA FInvInit == Init => FInv
<1> SUFFICES ASSUME Init PROVE FInv
  OBVIOUS
<1>1. Connecting \in Connection(Datum) /\ Connecting.state = "kConnecting"
  <2>1. <<>> \in Seq(Datum)
    OBVIOUS
  <2>2. QED
    BY <2>1 DEF Connecting, Connection, ConnState
<1>2. version \in 1..3
  BY VersionsAssumption DEF Init
<1>3. TypeOK
  BY <1>1, LengthAssumption DEF Init, TypeOK, Datum
<1>4. \A c \in Conn : /\ conn[c].state \in StateOf(object[c])
                      /\ FileOK(version, object[c], handle[c], ctx[c])
                      /\ active[c] = "none"
  BY <1>1, <1>2 DEF Init, StateOf, FileOK
<1>5. Len(batch) = 0 /\ Len(queue) = 0
  BY DEF Init
<1>6. QED
  BY <1>3, <1>4, <1>5 DEF FInv, QueueOK, Init

\* A new connection.
LEMMA AcceptFInv ==
  ASSUME FInv, NEW c \in Conn, Accept(c)
  PROVE  FInv'
<1>0. TypeOK /\ version' = version
  BY DEF FInv, Accept
<1>1. PICK found \in BOOLEAN : \E r \in OnConnectionUp(c, found) :
        Take(c, r) /\ queue' = queue \o Completed(c, r.complete)
  BY DEF Accept
<1>2. PICK r \in OnConnectionUp(c, found) :
        Take(c, r) /\ queue' = queue \o Completed(c, r.complete)
  BY <1>1
<1>3. object[c] = "unborn" /\ conn[c].state = "kConnecting"
  BY DEF Accept, FInv, StateOf
<1>4. ResultOK(r, "live")
  BY <1>0, <1>3, UpResult
<1>5. /\ object' \in [Conn -> {"unborn", "live", "doomed", "freed"}]
      /\ object'[c] = "live" /\ \A d \in Conn \ {c} : object'[d] = object[d]
  BY <1>0 DEF Accept, TypeOK
<1>6. batch \in Seq(Functors) /\ queue \in Seq(Functors)
  BY <1>0 DEF TypeOK
<1>7. QueueOK(batch, queue, object')
  BY <1>3, <1>5, <1>6, BornWithoutFunctors DEF FInv
<1>8. queue' \in Seq(Functors) /\ QueueOK(batch, queue', object')
  <2>1. CASE queue' = queue
    BY <1>6, <1>7, <2>1
  <2>2. CASE /\ Functor("writeComplete", c) \in Functors
             /\ queue' = Append(queue, Functor("writeComplete", c))
    <3>1. FunctorOK(Functor("writeComplete", c), object')
      BY <1>5 DEF FunctorOK, Functor
    <3>2. Functor("writeComplete", c).conn = c
      BY DEF Functor
    <3>3. QueueOK(batch, Append(queue, Functor("writeComplete", c)), object')
      BY <1>5, <1>6, <1>7, <2>2, <3>1, <3>2, AddFunctor
    <3>4. QED
      BY <1>6, <2>2, <3>3
  <2>3. QED
    BY <1>2, <1>6, <2>1, <2>2, CompletedIsAppended
<1>9. batch' = batch /\ phase' = phase /\ active' = active /\ peer' = peer
  BY DEF Accept
<1>10. TypeOK'
  BY <1>0, <1>2, <1>4, <1>5, <1>6, <1>8, <1>9, Taken DEF TypeOK, Datum
<1>11. ASSUME NEW d \in Conn
       PROVE  /\ conn'[d].state \in StateOf(object'[d])
              /\ FileOK(version', object'[d], handle'[d], ctx'[d])
              /\ active'[d] # "none" => object'[d] = "live"
  BY <1>0, <1>2, <1>4, <1>5, <1>9, Taken DEF FInv
<1>12. QED
  BY <1>8, <1>9, <1>10, <1>11 DEF FInv

\* The end of a connection.
LEMMA OnDownFInv ==
  ASSUME FInv, NEW c \in Conn, OnDown(c)
  PROVE  FInv'
<1>0. TypeOK /\ version' = version
  BY DEF FInv, OnDown
<1>1. PICK r \in OnConnectionDown(c) : Take(c, r)
  BY DEF OnDown
<1>2. object[c] = "live"
  BY DEF OnDown, FInv
<1>3. ResultOK(r, "doomed")
  BY <1>0, <1>2, DownResult DEF FInv
<1>4. /\ object' \in [Conn -> {"unborn", "live", "doomed", "freed"}]
      /\ object'[c] = "doomed" /\ \A d \in Conn \ {c} : object'[d] = object[d]
  BY <1>0 DEF OnDown, TypeOK
<1>5. /\ active' \in [Conn -> {"none", "readable", "writable"}]
      /\ active'[c] = "none" /\ \A d \in Conn \ {c} : active'[d] = active[d]
  BY <1>0 DEF OnDown, TypeOK
<1>6. batch \in Seq(Functors) /\ queue \in Seq(Functors)
  BY <1>0 DEF TypeOK
<1>7. /\ Functor("connectDestroyed", c) \in Functors
      /\ Functor("connectDestroyed", c).conn = c
      /\ FunctorOK(Functor("connectDestroyed", c), object')
  BY <1>4 DEF Functor, Functors, FunctorOK
<1>8. /\ queue' = Append(queue, Functor("connectDestroyed", c))
      /\ batch' = batch /\ phase' = phase /\ peer' = peer
  BY DEF OnDown
<1>9. QueueOK(batch, queue, object)
  BY DEF FInv
<1>10. queue' \in Seq(Functors) /\ QueueOK(batch, queue', object')
  BY <1>2, <1>4, <1>6, <1>7, <1>8, <1>9, AddFunctor
<1>11. TypeOK'
  BY <1>0, <1>1, <1>3, <1>4, <1>5, <1>6, <1>8, <1>10, Taken DEF TypeOK, Datum
<1>12. ASSUME NEW d \in Conn
       PROVE  /\ conn'[d].state \in StateOf(object'[d])
              /\ FileOK(version', object'[d], handle'[d], ctx'[d])
              /\ active'[d] # "none" => object'[d] = "live"
  <2>1. /\ conn'[c].state \in StateOf("doomed")
        /\ FileOK(version, "doomed", handle'[c], ctx'[c])
        /\ \A e \in Conn \ {c} :
             conn'[e] = conn[e] /\ handle'[e] = handle[e] /\ ctx'[e] = ctx[e]
    BY <1>0, <1>1, <1>3, Taken
  <2>2. CASE d = c
    BY <1>0, <1>4, <1>5, <2>1, <2>2
  <2>3. CASE d # c
    BY <1>0, <1>4, <1>5, <2>1, <2>3 DEF FInv
  <2>4. QED
    BY <2>2, <2>3
<1>13. QED
  BY <1>8, <1>10, <1>11, <1>12 DEF FInv

\* A writable socket.
LEMMA OnWritableFInv ==
  ASSUME FInv, NEW c \in Conn, OnWritable(c)
  PROVE  FInv'
<1>0. /\ TypeOK /\ version' = version /\ object' = object /\ peer' = peer
      /\ handle' = handle /\ pos' = pos /\ ctx' = ctx
      /\ phase' = phase /\ batch' = batch
  BY DEF FInv, OnWritable, files
<1>1. PICK o \in HandleWrite(conn[c])
                 \cup (IF Gone(c) THEN {Outcome(conn[c], FALSE)} ELSE {}) :
        /\ conn' = [conn EXCEPT ![c] = o.conn]
        /\ queue' = queue \o Completed(c, o.complete)
  BY DEF OnWritable
<1>2. conn[c] \in Connection(Datum) /\ object[c] = "live"
  BY DEF OnWritable, FInv, TypeOK, Datum
<1>3. o.conn \in Connection(Datum) /\ o.conn.state = conn[c].state
  <2>1. CASE o \in HandleWrite(conn[c])
    BY <1>2, <2>1, HandleWriteType
  <2>2. CASE o = Outcome(conn[c], FALSE)
    BY <1>2, <2>2 DEF Outcome
  <2>3. QED
    BY <1>1, <2>1, <2>2
<1>4. /\ conn' \in [Conn -> Connection(Datum)]
      /\ \A d \in Conn : conn'[d].state = conn[d].state
  BY <1>0, <1>1, <1>3 DEF TypeOK, Datum
<1>5. /\ active' \in [Conn -> {"none", "readable", "writable"}]
      /\ \A d \in Conn : active'[d] # "none" => active[d] # "none"
  BY <1>0 DEF OnWritable, TypeOK
<1>6. batch \in Seq(Functors) /\ queue \in Seq(Functors) /\ QueueOK(batch, queue, object)
  BY <1>0 DEF TypeOK, FInv
<1>7. queue' \in Seq(Functors) /\ QueueOK(batch, queue', object)
  <2>1. CASE queue' = queue
    BY <1>6, <2>1
  <2>2. CASE /\ Functor("writeComplete", c) \in Functors
             /\ queue' = Append(queue, Functor("writeComplete", c))
    <3>1. /\ FunctorOK(Functor("writeComplete", c), object)
          /\ Functor("writeComplete", c).conn = c
      BY <1>2 DEF FunctorOK, Functor
    <3>2. QueueOK(batch, Append(queue, Functor("writeComplete", c)), object)
      BY <1>2, <1>6, <2>2, <3>1, AddFunctor
    <3>3. QED
      BY <1>6, <2>2, <3>2
  <2>3. QED
    BY <1>1, <1>6, <2>1, <2>2, CompletedIsAppended
<1>8. TypeOK'
  BY <1>0, <1>4, <1>5, <1>7 DEF TypeOK, Datum
<1>9. QED
  BY <1>0, <1>4, <1>5, <1>7, <1>8 DEF FInv

\* A write-complete callback.
LEMMA RunWriteCompleteFInv ==
  ASSUME FInv, NEW c \in Conn, RunWriteComplete(c)
  PROVE  FInv'
<1>0. /\ TypeOK /\ version' = version /\ object' = object /\ peer' = peer
      /\ phase' = phase /\ active' = active
  BY DEF FInv, RunWriteComplete
<1>1. PICK r \in OnWriteComplete(c) :
        Take(c, r) /\ queue' = queue \o Completed(c, r.complete)
  BY DEF RunWriteComplete
<1>2. /\ batch \in Seq(Functors) /\ queue \in Seq(Functors) /\ batch # <<>>
      /\ QueueOK(batch, queue, object) /\ batch' = Tail(batch)
  BY <1>0 DEF RunWriteComplete, TypeOK, FInv
<1>3. QueueOK(batch', queue, object) /\ FunctorOK(Head(batch), object)
  BY <1>2, DropHead
<1>4. object[c] \in {"live", "doomed"}
  BY <1>3 DEF RunWriteComplete, FunctorOK, Functor
<1>5. ResultOK(r, object[c])
  BY <1>0, <1>4, WriteCompleteResult DEF FInv
<1>6. batch' \in Seq(Functors)
  BY <1>2, HeadTailProperties
<1>7. queue' \in Seq(Functors) /\ QueueOK(batch', queue', object)
  <2>1. CASE queue' = queue
    BY <1>2, <1>3, <2>1
  <2>2. CASE /\ r.complete
             /\ Functor("writeComplete", c) \in Functors
             /\ queue' = Append(queue, Functor("writeComplete", c))
    <3>1. object[c] = "live"
      BY <1>5, <2>2 DEF ResultOK
    <3>2. /\ FunctorOK(Functor("writeComplete", c), object)
          /\ Functor("writeComplete", c).conn = c
      BY <3>1 DEF FunctorOK, Functor
    <3>3. QueueOK(batch', Append(queue, Functor("writeComplete", c)), object)
      BY <1>2, <1>3, <1>6, <2>2, <3>1, <3>2, AddFunctor
    <3>4. QED
      BY <1>2, <2>2, <3>3
  <2>3. QED
    BY <1>1, <1>2, <2>1, <2>2, CompletedIsAppended
<1>8. TypeOK'
  BY <1>0, <1>1, <1>5, <1>6, <1>7, Taken DEF TypeOK, Datum
<1>9. ASSUME NEW d \in Conn
      PROVE  /\ conn'[d].state \in StateOf(object[d])
             /\ FileOK(version, object[d], handle'[d], ctx'[d])
  BY <1>0, <1>1, <1>5, Taken DEF FInv
<1>10. phase' = "functors"
  BY DEF RunWriteComplete
<1>11. QED
  BY <1>0, <1>7, <1>8, <1>9, <1>10 DEF FInv

\* connectDestroyed.
LEMMA ConnectDestroyedFInv ==
  ASSUME FInv, NEW c \in Conn, ConnectDestroyed(c)
  PROVE  FInv'
<1>0. /\ TypeOK /\ version' = version /\ conn' = conn /\ peer' = peer
      /\ pos' = pos /\ ctx' = ctx /\ phase' = phase /\ phase = "functors"
      /\ active' = active /\ queue' = queue
  BY DEF FInv, ConnectDestroyed
<1>1. /\ batch \in Seq(Functors) /\ queue \in Seq(Functors) /\ batch # <<>>
      /\ QueueOK(batch, queue, object) /\ batch' = Tail(batch)
      /\ Head(batch) = Functor("connectDestroyed", c)
  BY <1>0 DEF ConnectDestroyed, TypeOK, FInv
<1>2. object[c] = "doomed"
  <2>1. FunctorOK(Functor("connectDestroyed", c), object)
    BY <1>1, DropHead
  <2>2. QED
    BY <2>1 DEF FunctorOK, Functor
<1>3. /\ object' \in [Conn -> {"unborn", "live", "doomed", "freed"}]
      /\ object'[c] = "freed" /\ \A d \in Conn \ {c} : object'[d] = object[d]
  BY <1>0 DEF ConnectDestroyed, TypeOK
<1>4. batch' \in Seq(Functors)
  BY <1>1, HeadTailProperties
<1>5. QueueOK(batch', queue, object')
  BY <1>1, <1>3, DestroyedIsLast
<1>6. /\ handle' \in [Conn -> {"none", "open", "closed", "twice"}]
      /\ \A d \in Conn \ {c} : handle'[d] = handle[d]
      /\ FileOK(version, "freed", handle'[c], ctx[c])
  BY <1>0, <1>2 DEF ConnectDestroyed, V3Destroyed, Closed, FileOK, TypeOK, FInv
<1>7. TypeOK'
  BY <1>0, <1>3, <1>4, <1>6 DEF TypeOK
<1>8. conn[c].state \in StateOf("freed") /\ active[c] = "none"
  BY <1>2 DEF FInv, StateOf
<1>9. ASSUME NEW d \in Conn
      PROVE  /\ conn[d].state \in StateOf(object'[d])
             /\ FileOK(version, object'[d], handle'[d], ctx[d])
             /\ active[d] # "none" => object'[d] = "live"
  BY <1>3, <1>6, <1>8 DEF FInv
<1>10. QED
  BY <1>0, <1>5, <1>7, <1>9 DEF FInv

\* The loop itself.
LEMMA LoopFInv ==
  ASSUME FInv, (\E W \in SUBSET Conn : Poll(W)) \/ DoPendingFunctors
               \/ (\E c \in Conn : PeerClose(c)) \/ UNCHANGED vars
  PROVE  FInv'
<1>0. TypeOK
  BY DEF FInv
<1>1. ASSUME NEW W \in SUBSET Conn, Poll(W) PROVE FInv'
  <2>1. /\ active' \in [Conn -> {"none", "readable", "writable"}]
        /\ \A d \in Conn : active'[d] # "none" => object[d] = "live"
    BY <1>1 DEF Poll
  <2>2. TypeOK'
    BY <1>0, <1>1, <2>1 DEF Poll, sockets, files, TypeOK
  <2>3. QED
    BY <1>1, <2>1, <2>2 DEF FInv, Poll, sockets, files
<1>2. CASE DoPendingFunctors
  <2>1. /\ queue \in Seq(Functors) /\ batch = <<>> /\ Len(batch) = 0
        /\ batch' = queue /\ queue' = <<>> /\ Len(queue') = 0
    BY <1>0, <1>2 DEF DoPendingFunctors, TypeOK, FInv
  <2>2. QueueOK(batch', queue', object)
    BY <2>1 DEF QueueOK, FInv
  <2>3. TypeOK'
    BY <1>0, <1>2, <2>1, EmptySeq DEF DoPendingFunctors, sockets, files, TypeOK
  <2>4. QED
    BY <1>2, <2>2, <2>3 DEF FInv, DoPendingFunctors, sockets, files
<1>3. ASSUME NEW c \in Conn, PeerClose(c) PROVE FInv'
  <2>1. TypeOK'
    BY <1>0, <1>3 DEF PeerClose, files, loop, TypeOK
  <2>2. QED
    BY <1>3, <2>1 DEF FInv, PeerClose, files, loop
<1>4. CASE UNCHANGED vars
  <2>1. TypeOK'
    BY <1>0, <1>4 DEF vars, sockets, files, loop, TypeOK
  <2>2. QED
    BY <1>4, <2>1 DEF FInv, vars, sockets, files, loop
<1>5. QED
  BY <1>1, <1>2, <1>3, <1>4

\* Every step keeps queues, lifetimes and files in order.
LEMMA FInvStep == FInv /\ [Next]_vars => FInv'
BY AcceptFInv, OnDownFInv, OnWritableFInv, RunWriteCompleteFInv,
   ConnectDestroyedFInv, LoopFInv DEF Next
-----------------------------------------------------------------------------
(* The theorems.                                                           *)

\* What is pending is in one of the two queues.
LEMMA PendingIsQueued ==
  ASSUME TypeOK, NEW c \in Conn, NEW kind, NEW i \in Pending(c, kind)
  PROVE  \/ \E j \in 1..Len(batch) : batch[j] = Functor(kind, c)
         \/ \E j \in 1..Len(queue) : queue[j] = Functor(kind, c)
<1>1. batch \in Seq(Functors) /\ queue \in Seq(Functors)
  BY DEF TypeOK
<1>2. i \in 1..Len(batch) + Len(queue) /\ (batch \o queue)[i] = Functor(kind, c)
  BY <1>1, ConcatProperties, LenProperties DEF Pending
<1>3. CASE i <= Len(batch)
  BY <1>1, <1>2, <1>3, ConcatProperties
<1>4. CASE ~(i <= Len(batch))
  <2>1. (batch \o queue)[i] = queue[i - Len(batch)]
    BY <1>1, <1>2, <1>4, ConcatProperties
  <2>2. i - Len(batch) \in 1..Len(queue)
    BY <1>1, <1>2, <1>4
  <2>3. QED
    BY <1>2, <2>1, <2>2
<1>5. QED
  BY <1>3, <1>4

\* Whoever has a functor pending is live or doomed.
LEMMA PendingIsAlive ==
  ASSUME FInv, NEW c \in Conn, NEW kind, Pending(c, kind) # {}
  PROVE  object[c] \in {"live", "doomed"}
<1>1. PICK i : i \in Pending(c, kind)
  OBVIOUS
<1>2. FunctorOK(Functor(kind, c), object)
  BY <1>1, PendingIsQueued DEF FInv, QueueOK
<1>3. QED
  BY <1>2 DEF FunctorOK, Functor

\* Type correctness for any constants.
THEOREM FileTransferType == Spec => []TypeOK
<1>1. FInv => TypeOK
  BY DEF FInv
<1>2. QED
  BY <1>1, FInvInit, FInvStep, PTL DEF Spec

\* The shared pointer of version 3 keeps the file open for every callback.
THEOREM SharedFileIsOpen == Spec => []SharedFileStaysOpen
<1>1. ASSUME FInv, version = 3, NEW c \in Conn,
             Pending(c, "writeComplete") # {}, ctx[c] = "file"
      PROVE  handle[c] = "open"
  <2>1. object[c] # "freed"
    BY <1>1, PendingIsAlive
  <2>2. QED
    BY <1>1, <2>1 DEF FInv, FileOK
<1>2. FInv => SharedFileStaysOpen
  BY <1>1 DEF SharedFileStaysOpen, WriteCompleteFindsFileOpen
<1>3. QED
  BY <1>2, FInvInit, FInvStep, PTL DEF Spec
-----------------------------------------------------------------------------
(* One chunk in flight: a second invariant, of what waits and is buffered. *)

\* f waits in one of the queues b and q.
In(f, b, q) == (\E i \in 1..Len(b) : b[i] = f) \/ (\E i \in 1..Len(q) : q[i] = f)

\* No write-complete callback waits twice.
Differ(f, g) == f.kind = "writeComplete" => g # f

WaitsOnce(b, q) ==
  /\ \A i \in 1..Len(b), j \in 1..Len(b) : i < j => Differ(b[i], b[j])
  /\ \A i \in 1..Len(q), j \in 1..Len(q) : i < j => Differ(q[i], q[j])
  /\ \A i \in 1..Len(b), j \in 1..Len(q) : Differ(b[i], q[j])

\* The output of a connection: a chunk at most, nothing if a callback waits.
\* Without a context there is neither output nor a callback.
FlightOK(c) ==
  /\ object[c] = "unborn" => conn[c].out = <<>>
  /\ version # 1 => /\ Len(conn[c].out) <= BufLen
                    /\ ctx[c] = "empty" => conn[c].out = <<>>
  /\ In(Functor("writeComplete", c), batch, queue) =>
       conn[c].out = <<>> /\ ctx[c] # "empty"

GInv == FInv /\ WaitsOnce(batch, queue) /\ \A c \in Conn : FlightOK(c)

\* A functor that waits is one that may.
LEMMA WaitingIsOK ==
  ASSUME NEW b, NEW q, NEW o, QueueOK(b, q, o), NEW f, In(f, b, q)
  PROVE  FunctorOK(f, o)
BY DEF QueueOK, In

\* A callback that does not wait yet may be queued.
LEMMA AddOnce ==
  ASSUME NEW b \in Seq(Functors), NEW q \in Seq(Functors), WaitsOnce(b, q),
         NEW f \in Functors, f.kind = "writeComplete" => ~In(f, b, q)
  PROVE  /\ WaitsOnce(b, Append(q, f))
         /\ \A g : In(g, b, Append(q, f)) => In(g, b, q) \/ g = f
<1> DEFINE r == Append(q, f)
<1>1. /\ Len(r) = Len(q) + 1 /\ r[Len(q) + 1] = f
      /\ \A i \in 1..Len(q) : r[i] = q[i]
      /\ Len(q) \in Nat
  OBVIOUS
<1> HIDE DEF r
<1>2. ASSUME NEW i \in 1..Len(r) PROVE i \in 1..Len(q) \/ i = Len(q) + 1
  BY <1>1
<1>3. ASSUME NEW g, In(g, b, q) PROVE Differ(g, f)
  BY <1>3 DEF Differ
<1>4. /\ \A i \in 1..Len(b) : Differ(b[i], f)
      /\ \A i \in 1..Len(q) : Differ(q[i], f)
  BY <1>3 DEF In
<1>5. \A i \in 1..Len(b), j \in 1..Len(r) : Differ(b[i], r[j])
  BY <1>1, <1>2, <1>4 DEF WaitsOnce
<1>6. ASSUME NEW i \in 1..Len(r), NEW j \in 1..Len(r), i < j
      PROVE  Differ(r[i], r[j])
  <2>1. i \in 1..Len(q)
    BY <1>1, <1>6
  <2>2. CASE j = Len(q) + 1
    BY <1>1, <1>4, <2>1, <2>2
  <2>3. CASE j \in 1..Len(q)
    BY <1>1, <1>6, <2>1, <2>3 DEF WaitsOnce
  <2>4. QED
    BY <1>2, <2>2, <2>3
<1>7. WaitsOnce(b, r)
  BY <1>5, <1>6 DEF WaitsOnce
<1>8. ASSUME NEW g, In(g, b, r) PROVE In(g, b, q) \/ g = f
  BY <1>1, <1>2, <1>8 DEF In
<1>9. QED
  BY <1>7, <1>8 DEF r

\* A callback that runs waits no more.
LEMMA DropOnce ==
  ASSUME NEW b \in Seq(Functors), NEW q \in Seq(Functors), WaitsOnce(b, q), b # <<>>
  PROVE  /\ WaitsOnce(Tail(b), q)
         /\ \A g : In(g, Tail(b), q) => In(g, b, q) /\ Differ(Head(b), g)
<1> DEFINE t == Tail(b)
<1>1. /\ Len(t) = Len(b) - 1 /\ Len(b) \in Nat \ {0} /\ Head(b) = b[1]
      /\ \A i \in 1..Len(t) : t[i] = b[i + 1]
  BY HeadTailProperties, EmptySeq
<1> HIDE DEF t
<1>2. \A i \in 1..Len(t) : 1 < i + 1 /\ i + 1 \in 1..Len(b) /\ 1 \in 1..Len(b)
  BY <1>1
<1>3. ASSUME NEW i \in 1..Len(t), NEW j \in 1..Len(t), i < j
      PROVE  Differ(t[i], t[j])
  <2>1. i + 1 < j + 1
    BY <1>1, <1>3
  <2>2. Differ(b[i + 1], b[j + 1])
    BY <1>2, <2>1 DEF WaitsOnce
  <2>3. QED
    BY <1>1, <2>2
<1>4. \A i \in 1..Len(t), j \in 1..Len(q) : Differ(t[i], q[j])
  BY <1>1, <1>2 DEF WaitsOnce
<1>5. WaitsOnce(t, q)
  BY <1>3, <1>4 DEF WaitsOnce
<1>6. ASSUME NEW g, In(g, t, q) PROVE In(g, b, q) /\ Differ(Head(b), g)
  <2>1. ASSUME NEW i \in 1..Len(t), t[i] = g PROVE In(g, b, q) /\ Differ(b[1], g)
    BY <1>1, <1>2, <2>1 DEF In, WaitsOnce
  <2>2. ASSUME NEW i \in 1..Len(q), q[i] = g PROVE In(g, b, q) /\ Differ(b[1], g)
    <3>1. 1 \in 1..Len(b)
      BY <1>1
    <3>2. QED
      BY <2>2, <3>1 DEF In, WaitsOnce
  <2>3. QED
    BY <1>1, <1>6, <2>1, <2>2 DEF In
<1>7. QED
  BY <1>5, <1>6 DEF t

\* A result leaves a chunk at most, and nothing if the callback is to come.
OutputOK(r) ==
  /\ version # 1 => Len(r.conn.out) <= BufLen
  /\ version # 1 /\ r.complete => r.conn.out = <<>>
  /\ version # 1 /\ r.ctx = "empty" => r.conn.out = <<>> /\ ~r.complete

\* The chunk that is sent, from an empty buffer.
LEMMA SendChunkOutput ==
  ASSUME NEW k \in Connection(Datum), k.out = <<>>, NEW gone, NEW p \in 0..FileLen,
         NEW r \in SendChunk(k, gone, p)
  PROVE  Len(r.conn.out) <= BufLen /\ (r.complete => r.conn.out = <<>>)
<1>1. PICK o \in Send(k, Chunk(p), gone) :
        r = Result(o.conn, "open", NextPos(p), "file", o.complete)
  BY DEF SendChunk
<1>2. r.conn = o.conn /\ r.complete = o.complete
  BY <1>1 DEF Result
<1>3. Chunk(p) \in Seq(Datum) /\ NextPos(p) \in 0..FileLen
  BY ChunkType
<1>4. FileLen \in Nat /\ BufLen \in Nat
  BY LengthAssumption
<1>5. Len(Chunk(p)) <= BufLen
  <2>1. NextPos(p) <= p + BufLen
    BY <1>4 DEF NextPos
  <2>2. Len(Chunk(p)) = IF p + 1 <= NextPos(p) THEN NextPos(p) - (p + 1) + 1 ELSE 0
    <3>1. \A i \in p + 1..NextPos(p) : Content[i] \in Datum
      BY <1>3, <1>4 DEF Content, Datum
    <3>2. QED
      BY <1>3, <1>4, <3>1, SubSeqProperties DEF Chunk
  <2>3. QED
    BY <1>3, <1>4, <2>1, <2>2
<1>6. Len(o.conn.out) <= Len(Chunk(p)) /\ (o.complete => o.conn.out = <<>>)
  BY <1>3, SendFromEmpty
<1>7. o.conn \in Connection(Datum)
  BY <1>3, SendType
<1>8. Len(o.conn.out) \in Nat /\ Len(Chunk(p)) \in Nat
  BY <1>3, <1>7 DEF Connection
<1>9. QED
  BY <1>2, <1>4, <1>5, <1>6, <1>8

\* shutdown() leaves the output where it is.
LEMMA ShutdownOutput ==
  ASSUME NEW k \in Connection(Datum)
  PROVE  Shutdown(k).out = k.out
BY DEF Shutdown, ShutdownInLoop, Connection

\* What the connection callback leaves in the buffer: at most a chunk, and
\* nothing when a write-complete callback is queued.
LEMMA UpOutput ==
  ASSUME TypeOK, NEW c \in Conn, conn[c].out = <<>>,
         NEW found \in BOOLEAN, NEW r \in OnConnectionUp(c, found)
  PROVE  OutputOK(r)
<1> DEFINE k == ConnectEstablished(conn[c])
<1>1. k \in Connection(Datum) /\ k.out = <<>>
  <2>1. conn[c] \in Connection(Datum)
    BY DEF TypeOK, Datum
  <2>2. k.out = conn[c].out
    BY <2>1 DEF ConnectEstablished, Connection
  <2>3. k \in Connection(Datum)
    BY <2>1 DEF ConnectEstablished, Connection, ConnState
  <2>4. QED
    BY <2>2, <2>3
<1> HIDE DEF k
<1>2. Shutdown(k).out = <<>>
  BY <1>1, ShutdownOutput
<1>3. Len(<<>>) = 0 /\ BufLen \in Nat /\ 0 \in 0..FileLen
  BY LengthAssumption
<1>4. CASE version = 1
  BY <1>4 DEF OutputOK
<1>5. CASE version \in {2, 3}
  <2>1. r \in V2Up(k, Gone(c), found)
    BY <1>5 DEF OnConnectionUp, V3Up, k
  <2>2. CASE ~found
    BY <1>2, <1>3, <2>1, <2>2 DEF V2Up, NoFile, Result, OutputOK
  <2>3. CASE found /\ FileLen = 0
    BY <1>1, <1>3, <2>1, <2>3 DEF V2Up, Result, OutputOK
  <2>4. CASE found /\ FileLen # 0
    <3>1. r \in SendChunk(k, Gone(c), 0)
      BY <2>1, <2>4 DEF V2Up
    <3>2. r.ctx = "file"
      BY <1>1, <1>3, <3>1, SendChunkResult
    <3>3. QED
      BY <1>1, <1>3, <3>1, <3>2, SendChunkOutput DEF OutputOK
  <2>5. QED
    BY <2>2, <2>3, <2>4
<1>6. QED
  BY <1>4, <1>5, VersionsAssumption DEF TypeOK

\* The same of the write-complete callback.
LEMMA WriteCompleteOutput ==
  ASSUME TypeOK, NEW c \in Conn, conn[c].out = <<>>,
         NEW r \in OnWriteComplete(c)
  PROVE  OutputOK(r)
<1> DEFINE k == conn[c]
           h == handle[c]
           p == pos[c]
           x == ctx[c]
<1>1. /\ k \in Connection(Datum) /\ k.out = <<>> /\ p \in 0..FileLen
      /\ x \in {"empty", "file", "null"}
  BY DEF TypeOK, Datum
<1>2. r \in V2WriteComplete(k, Gone(c), h, p, x) \cup V3WriteComplete(k, Gone(c), h, p, x)
  BY DEF OnWriteComplete
<1> HIDE DEF k, h, p, x
<1>3. Shutdown(k).out = <<>> /\ Len(<<>>) = 0 /\ BufLen \in Nat
  BY <1>1, ShutdownOutput, LengthAssumption
<1>4. ASSUME NEW hh, NEW pp, NEW xx,
             r = Result(k, hh, pp, xx, FALSE) \/ r = Result(Shutdown(k), hh, pp, xx, FALSE)
      PROVE  OutputOK(r)
  BY <1>1, <1>3, <1>4 DEF OutputOK, Result
<1>5. ASSUME r \in SendChunk(k, Gone(c), p) PROVE OutputOK(r)
  BY <1>1, <1>5, SendChunkOutput, SendChunkResult DEF OutputOK
<1>6. ASSUME NEW m \in SendChunk(k, Gone(c), p), r = [m EXCEPT !.handle = h]
      PROVE  OutputOK(r)
  <2>1. m = Result(m.conn, m.handle, m.pos, m.ctx, m.complete)
    BY <1>1, SendChunkResult
  <2>2. r.conn = m.conn /\ r.complete = m.complete /\ r.ctx = "file"
    BY <1>1, <1>6, <2>1, SendChunkResult DEF Result
  <2>3. QED
    BY <1>1, <2>2, SendChunkOutput DEF OutputOK
<1>7. \/ r = Result(k, h, p, x, FALSE)
      \/ r = Result(Shutdown(k), h, p, x, FALSE)
      \/ r = Result(Shutdown(k), Closed(h), p, "null", FALSE)
      \/ r \in SendChunk(k, Gone(c), p)
      \/ \E m \in SendChunk(k, Gone(c), p) : r = [m EXCEPT !.handle = h]
  <2>1. ASSUME r \in V2WriteComplete(k, Gone(c), h, p, x)
        PROVE  \/ r = Result(k, h, p, x, FALSE)
               \/ r = Result(Shutdown(k), Closed(h), p, "null", FALSE)
               \/ r \in SendChunk(k, Gone(c), p)
               \/ \E m \in SendChunk(k, Gone(c), p) : r = [m EXCEPT !.handle = h]
    BY <1>1, <2>1 DEF V2WriteComplete
  <2>2. ASSUME r \in V3WriteComplete(k, Gone(c), h, p, x)
        PROVE  r = Result(Shutdown(k), h, p, x, FALSE) \/ r \in SendChunk(k, Gone(c), p)
    BY <2>2 DEF V3WriteComplete
  <2>3. QED
    BY <1>2, <2>1, <2>2, Zenon
<1>8. QED
  BY <1>4, <1>5, <1>6, <1>7

\* A callback is queued for c, if at all, only when none waits for it and its
\* buffer is empty.
LEMMA FlightAfter ==
  ASSUME NEW b \in Seq(Functors), NEW q \in Seq(Functors), NEW c \in Conn, NEW done,
         WaitsOnce(b, q), ~In(Functor("writeComplete", c), b, q),
         batch' = b, queue' = q \o Completed(c, done)
  PROVE  /\ WaitsOnce(batch', queue')
         /\ \A g : In(g, batch', queue') =>
              In(g, b, q) \/ (done /\ version # 1 /\ g = Functor("writeComplete", c))
<1>1. CASE done /\ version # 1
  <2>1. queue' = q \/ queue' = Append(q, Functor("writeComplete", c))
    BY CompletedIsAppended
  <2>2. CASE queue' = q
    BY <2>2
  <2>3. CASE queue' = Append(q, Functor("writeComplete", c))
    <3>1. Functor("writeComplete", c) \in Functors
      BY DEF Functor, Functors
    <3>2. QED
      BY <1>1, <2>3, <3>1, AddOnce
  <2>4. QED
    BY <2>1, <2>2, <2>3
<1>2. CASE ~(done /\ version # 1)
  <2>1. Completed(c, done) = <<>>
    BY <1>2, Zenon DEF Completed
  <2>2. queue' = q
    BY <2>1, ConcatEmptySeq
  <2>3. QED
    BY <2>2
<1>3. QED
  BY <1>1, <1>2, Zenon

\* No callback waits when the server starts.
LEMMA GInvInit == Init => GInv
<1> SUFFICES ASSUME Init PROVE GInv
  OBVIOUS
<1>1. Len(batch) = 0 /\ Len(queue) = 0 /\ BufLen \in Nat
  BY LengthAssumption DEF Init
<1>2. WaitsOnce(batch, queue)
  BY <1>1 DEF WaitsOnce
<1>3. ASSUME NEW c \in Conn PROVE conn[c].out = <<>> /\ Len(conn[c].out) = 0
  BY DEF Init, Connecting
<1>4. QED
  BY <1>1, <1>2, <1>3, FInvInit DEF GInv, FlightOK, In

\* The steps that queue no callback and leave the output alone.
LEMMA QuietStep ==
  ASSUME GInv, WaitsOnce(batch', queue'), version' = version,
         \A g : g.kind = "writeComplete" /\ In(g, batch', queue') => In(g, batch, queue),
         \A c \in Conn : conn'[c].out = conn[c].out /\ ctx'[c] = ctx[c]
                         /\ (object'[c] = "unborn" => object[c] = "unborn")
  PROVE  WaitsOnce(batch', queue') /\ \A c \in Conn : FlightOK(c)'
<1>1. \A c \in Conn : Functor("writeComplete", c).kind = "writeComplete"
  BY DEF Functor
<1>2. QED
  BY <1>1 DEF GInv, FlightOK

\* Every step keeps the callbacks distinct and their buffers empty.
LEMMA GInvStep == GInv /\ [Next]_vars => GInv'
<1> SUFFICES ASSUME GInv, [Next]_vars PROVE GInv'
  OBVIOUS
<1>0. /\ FInv /\ FInv' /\ TypeOK /\ TypeOK'
      /\ batch \in Seq(Functors) /\ queue \in Seq(Functors)
      /\ WaitsOnce(batch, queue) /\ QueueOK(batch, queue, object)
  BY FInvStep DEF GInv, FInv, TypeOK
<1> DEFINE Flight == WaitsOnce(batch', queue') /\ \A c \in Conn : FlightOK(c)'
           WC(c) == Functor("writeComplete", c)
<1>1. ASSUME NEW c \in Conn, Accept(c) PROVE Flight
  <2>1. PICK found \in BOOLEAN : \E r \in OnConnectionUp(c, found) :
          Take(c, r) /\ queue' = queue \o Completed(c, r.complete)
    BY <1>1 DEF Accept
  <2>2. PICK r \in OnConnectionUp(c, found) :
          Take(c, r) /\ queue' = queue \o Completed(c, r.complete)
    BY <2>1
  <2>3. /\ object[c] = "unborn" /\ conn[c].out = <<>> /\ batch' = batch
        /\ version' = version /\ object' = [object EXCEPT ![c] = "live"]
    BY <1>1 DEF Accept, GInv, FlightOK
  <2>4. OutputOK(r)
    BY <1>0, <2>3, UpOutput
  <2>5. ~In(WC(c), batch, queue)
    <3>1. ~FunctorOK(WC(c), object)
      BY <2>3 DEF FunctorOK, Functor
    <3>2. QED
      BY <1>0, <3>1, WaitingIsOK
  <2>6. /\ WaitsOnce(batch', queue')
        /\ \A g : In(g, batch', queue') =>
             In(g, batch, queue) \/ (r.complete /\ version # 1 /\ g = WC(c))
    BY <1>0, <2>2, <2>3, <2>5, FlightAfter
  <2>7. /\ conn'[c] = r.conn /\ ctx'[c] = r.ctx
        /\ \A d \in Conn \ {c} :
             conn'[d] = conn[d] /\ ctx'[d] = ctx[d] /\ object'[d] = object[d]
    BY <1>0, <2>2, <2>3 DEF Take, TypeOK
  <2>8. FlightOK(c)'
    <3>1. object'[c] = "live"
      BY <1>0, <2>3 DEF TypeOK
    <3>2. QED
      BY <2>3, <2>4, <2>5, <2>6, <2>7, <3>1 DEF FlightOK, OutputOK
  <2>9. ASSUME NEW d \in Conn \ {c} PROVE FlightOK(d)'
    <3>1. WC(d) # WC(c)
      BY DEF Functor
    <3>2. QED
      BY <2>3, <2>6, <2>7, <3>1 DEF FlightOK, GInv
  <2>10. QED
    BY <2>6, <2>8, <2>9
<1>2. ASSUME NEW c \in Conn, OnDown(c) PROVE Flight
  <2>1. PICK r \in OnConnectionDown(c) : Take(c, r)
    BY <1>2 DEF OnDown
  <2>2. r.conn = HandleClose(conn[c]) /\ r.ctx = ctx[c]
    BY <2>1 DEF OnConnectionDown, V2Down, Result
  <2>3. \A d \in Conn : conn'[d].out = conn[d].out /\ ctx'[d] = ctx[d]
    BY <1>0, <2>1, <2>2 DEF Take, TypeOK, HandleClose, Connection
  <2>4. /\ Functor("connectDestroyed", c) \in Functors
        /\ Functor("connectDestroyed", c).kind = "connectDestroyed"
    BY DEF Functor, Functors
  <2>5. batch' = batch /\ queue' = Append(queue, Functor("connectDestroyed", c))
    BY <1>2 DEF OnDown
  <2>6. /\ WaitsOnce(batch', queue')
        /\ \A g : In(g, batch', queue') =>
             In(g, batch, queue) \/ g = Functor("connectDestroyed", c)
    BY <1>0, <2>4, <2>5, AddOnce
  <2>7. \A d \in Conn : object'[d] = "unborn" => object[d] = "unborn"
    BY <1>0, <1>2 DEF OnDown, TypeOK
  <2>8. version' = version
    BY <1>2 DEF OnDown
  <2>9. QED
    BY <2>3, <2>4, <2>6, <2>7, <2>8, QuietStep
<1>3. ASSUME NEW c \in Conn, OnWritable(c) PROVE Flight
  <2>1. PICK o \in HandleWrite(conn[c])
                   \cup (IF Gone(c) THEN {Outcome(conn[c], FALSE)} ELSE {}) :
          /\ conn' = [conn EXCEPT ![c] = o.conn]
          /\ queue' = queue \o Completed(c, o.complete)
    BY <1>3 DEF OnWritable
  <2>2. conn[c] \in Connection(Datum) /\ batch' = batch
        /\ version' = version /\ object' = object /\ ctx' = ctx
    BY <1>0, <1>3 DEF TypeOK, Datum, OnWritable, files
  <2>3. conn'[c] = o.conn /\ \A d \in Conn \ {c} : conn'[d] = conn[d]
    BY <1>0, <2>1 DEF TypeOK
  <2>4. CASE o \in HandleWrite(conn[c])
    <3>1. /\ conn[c].out # <<>> /\ Len(o.conn.out) < Len(conn[c].out)
          /\ o.complete => o.conn.out = <<>>
      BY <2>2, <2>4, HandleWriteShrinks
    <3>2. ~In(WC(c), batch, queue) /\ object[c] # "unborn"
      BY <3>1 DEF GInv, FlightOK
    <3>3. /\ WaitsOnce(batch', queue')
          /\ \A g : In(g, batch', queue') =>
               In(g, batch, queue) \/ (o.complete /\ version # 1 /\ g = WC(c))
      BY <1>0, <2>1, <2>2, <3>2, FlightAfter
    <3>4. FlightOK(c)'
      <4>1. Len(o.conn.out) \in Nat /\ Len(conn[c].out) \in Nat /\ BufLen \in Nat
        BY <2>2, <2>4, HandleWriteType, LengthAssumption DEF Connection
      <4>2. QED
        BY <2>2, <2>3, <3>1, <3>2, <3>3, <4>1 DEF FlightOK, GInv
    <3>5. ASSUME NEW d \in Conn \ {c} PROVE FlightOK(d)'
      <4>1. WC(d) # WC(c)
        BY DEF Functor
      <4>2. QED
        BY <2>2, <2>3, <3>3, <4>1 DEF FlightOK, GInv
    <3>6. QED
      BY <3>3, <3>4, <3>5
  <2>5. CASE o = Outcome(conn[c], FALSE)
    <3>1. o.conn = conn[c] /\ ~o.complete
      BY <2>5 DEF Outcome
    <3>2. Completed(c, o.complete) = <<>>
      BY <3>1, Zenon DEF Completed
    <3>3. queue' = queue
      BY <1>0, <2>1, <3>2, ConcatEmptySeq
    <3>4. QED
      BY <1>0, <2>2, <2>3, <3>1, <3>3, QuietStep
  <2>6. QED
    BY <2>1, <2>4, <2>5
<1>4. ASSUME NEW c \in Conn, RunWriteComplete(c) PROVE Flight
  <2>1. PICK r \in OnWriteComplete(c) :
          Take(c, r) /\ queue' = queue \o Completed(c, r.complete)
    BY <1>4 DEF RunWriteComplete
  <2>2. /\ batch # <<>> /\ Head(batch) = WC(c) /\ batch' = Tail(batch)
        /\ version' = version /\ object' = object
    BY <1>4 DEF RunWriteComplete
  <2>3. /\ WaitsOnce(batch', queue) /\ batch' \in Seq(Functors)
        /\ \A g : In(g, batch', queue) => In(g, batch, queue) /\ Differ(WC(c), g)
    BY <1>0, <2>2, DropOnce, HeadTailProperties
  <2>4. ~In(WC(c), batch', queue)
    BY <2>3 DEF Differ, Functor
  <2>5. In(WC(c), batch, queue)
    <3>1. batch[1] = Head(batch) /\ 1 \in 1..Len(batch)
      BY <1>0, <2>2, EmptySeq
    <3>2. QED
      BY <2>2, <3>1 DEF In
  <2>6. conn[c].out = <<>> /\ object[c] # "unborn"
    <3>1. FunctorOK(WC(c), object)
      BY <1>0, <2>5, WaitingIsOK
    <3>2. QED
      BY <2>5, <3>1 DEF GInv, FlightOK, FunctorOK, Functor
  <2>7. OutputOK(r)
    BY <1>0, <2>6, WriteCompleteOutput
  <2>8. /\ WaitsOnce(batch', queue')
        /\ \A g : In(g, batch', queue') =>
             In(g, batch', queue) \/ (r.complete /\ version # 1 /\ g = WC(c))
    BY <1>0, <2>1, <2>3, <2>4, FlightAfter
  <2>9. /\ conn'[c] = r.conn /\ ctx'[c] = r.ctx
        /\ \A d \in Conn \ {c} : conn'[d] = conn[d] /\ ctx'[d] = ctx[d]
    BY <1>0, <2>1 DEF Take, TypeOK
  <2>10. FlightOK(c)'
    BY <2>2, <2>4, <2>6, <2>7, <2>8, <2>9 DEF FlightOK, OutputOK
  <2>11. ASSUME NEW d \in Conn \ {c} PROVE FlightOK(d)'
    <3>1. WC(d) # WC(c)
      BY DEF Functor
    <3>2. QED
      BY <2>2, <2>3, <2>8, <2>9, <3>1 DEF FlightOK, GInv
  <2>12. QED
    BY <2>8, <2>10, <2>11
<1>5. ASSUME NEW c \in Conn, ConnectDestroyed(c) PROVE Flight
  <2>1. /\ batch # <<>> /\ batch' = Tail(batch) /\ queue' = queue
        /\ version' = version /\ conn' = conn /\ ctx' = ctx
    BY <1>5 DEF ConnectDestroyed
  <2>2. \A d \in Conn : object'[d] = "unborn" => object[d] = "unborn"
    BY <1>0, <1>5 DEF ConnectDestroyed, TypeOK
  <2>3. /\ WaitsOnce(batch', queue')
        /\ \A g : In(g, batch', queue') => In(g, batch, queue)
    BY <1>0, <2>1, DropOnce
  <2>4. QED
    BY <2>1, <2>2, <2>3, QuietStep
<1>6. ASSUME DoPendingFunctors PROVE Flight
  <2>1. batch = <<>> /\ batch' = queue /\ queue' = <<>> /\ Len(batch) = 0 /\ Len(queue') = 0
    BY <1>0, <1>6 DEF DoPendingFunctors, FInv
  <2>2. /\ WaitsOnce(batch', queue')
        /\ \A g : In(g, batch', queue') => In(g, batch, queue)
    BY <1>0, <2>1 DEF WaitsOnce, In
  <2>3. version' = version /\ conn' = conn /\ object' = object /\ ctx' = ctx
    BY <1>6 DEF DoPendingFunctors, sockets, files
  <2>4. QED
    BY <2>2, <2>3, QuietStep
<1>7. ASSUME UNCHANGED <<version, conn, object, ctx, queue, batch>> PROVE Flight
  BY <1>0, <1>7, QuietStep
<1>8. ASSUME \/ \E W \in SUBSET Conn : Poll(W)
             \/ \E c \in Conn : PeerClose(c)
             \/ UNCHANGED vars
      PROVE  Flight
  <2>1. UNCHANGED <<version, conn, object, ctx, queue, batch>>
    BY <1>8 DEF Poll, PeerClose, vars, sockets, files, loop
  <2>2. QED
    BY <1>7, <2>1
<1> HIDE DEF Flight
<1>9. Flight
  BY <1>1, <1>2, <1>3, <1>4, <1>5, <1>6, <1>8 DEF Next
<1>10. QED
  BY <1>0, <1>9 DEF GInv, Flight

\* Versions 2 and 3 have one chunk under way at most, for any file and buffer,
\* and none without a context for its callback.
THEOREM OneChunkUnderWay == Spec => []OneChunkInFlight
<1>1. ASSUME GInv, version # 1, NEW c \in Conn
      PROVE  /\ Len(conn[c].out) <= BufLen
             /\ Cardinality(Pending(c, "writeComplete"))
                  + (IF Writing(conn[c]) THEN 1 ELSE 0)
                    <= (IF ctx[c] = "empty" THEN 0 ELSE 1)
  <2> DEFINE P == Pending(c, "writeComplete")
  <2>1. TypeOK /\ batch \in Seq(Functors) /\ queue \in Seq(Functors)
    BY <1>1 DEF GInv, FInv, TypeOK
  <2>2. ASSUME NEW i \in P PROVE In(Functor("writeComplete", c), batch, queue)
    BY <2>1, PendingIsQueued DEF In
  <2>3. P # {} => conn[c].out = <<>> /\ ctx[c] # "empty"
    BY <1>1, <2>2 DEF GInv, FlightOK
  <2>4. ASSUME NEW i \in P, NEW j \in P, i < j PROVE FALSE
    <3> DEFINE f == Functor("writeComplete", c)
    <3>1. /\ i \in 1..Len(batch) + Len(queue) /\ j \in 1..Len(batch) + Len(queue)
          /\ (batch \o queue)[i] = f /\ (batch \o queue)[j] = f
      BY <2>1, ConcatProperties, LenProperties DEF Pending
    <3>2. Len(batch) \in Nat /\ Len(queue) \in Nat /\ ~Differ(f, f)
      BY <2>1, LenProperties DEF Differ, Functor
    <3>3. \A n \in 1..Len(batch) + Len(queue) :
            (batch \o queue)[n] = IF n <= Len(batch) THEN batch[n] ELSE queue[n - Len(batch)]
      BY <2>1, ConcatProperties
    <3>4. CASE j <= Len(batch)
      <4>1. i \in 1..Len(batch) /\ j \in 1..Len(batch) /\ batch[i] = f /\ batch[j] = f
        BY <2>4, <3>1, <3>2, <3>3, <3>4
      <4>2. QED
        BY <1>1, <2>4, <3>2, <4>1 DEF GInv, WaitsOnce
    <3>5. CASE i <= Len(batch) /\ ~(j <= Len(batch))
      <4>1. /\ i \in 1..Len(batch) /\ j - Len(batch) \in 1..Len(queue)
            /\ batch[i] = f /\ queue[j - Len(batch)] = f
        BY <3>1, <3>2, <3>3, <3>5
      <4>2. QED
        BY <1>1, <3>2, <4>1 DEF GInv, WaitsOnce
    <3>6. CASE ~(i <= Len(batch))
      <4>1. /\ i - Len(batch) \in 1..Len(queue) /\ j - Len(batch) \in 1..Len(queue)
            /\ i - Len(batch) < j - Len(batch)
            /\ queue[i - Len(batch)] = f /\ queue[j - Len(batch)] = f
        BY <2>4, <3>1, <3>2, <3>3, <3>6
      <4>2. QED
        BY <1>1, <3>2, <4>1 DEF GInv, WaitsOnce
    <3>7. QED
      BY <3>4, <3>5, <3>6
  <2>5. P = {} \/ \E i : P = {i}
    <3>1. ASSUME NEW i \in P, NEW j \in P PROVE i = j
      <4>1. i \in Int /\ j \in Int
        BY <2>1, ConcatProperties, LenProperties DEF Pending
      <4>2. QED
        BY <2>4, <4>1
    <3>2. QED
      BY <3>1
  <2>6. \/ P = {} /\ Cardinality(P) = 0
        \/ P # {} /\ Cardinality(P) = 1
    <3>1. CASE P = {}
      BY <3>1, FS_EmptySet
    <3>2. ASSUME NEW i, P = {i} PROVE P # {} /\ Cardinality(P) = 1
      <4>1. Cardinality({i}) = 1
        BY FS_Singleton
      <4>2. QED
        BY <3>2, <4>1, Zenon
    <3>3. QED
      BY <2>5, <3>1, <3>2
  <2>7. QED
    BY <1>1, <2>3, <2>6 DEF GInv, FlightOK, Writing
<1>2. GInv => OneChunkInFlight
  BY <1>1 DEF OneChunkInFlight
<1>3. QED
  BY <1>2, GInvInit, GInvStep, PTL DEF Spec

-----------------------------------------------------------------------------
(* The servers implement the delivery of FileDelivery: what a client is    *)
(* sent is always the beginning of the file, and the server ends the       *)
(* conversation only after all of it.                                      *)

\* The beginning of the file.
Begins(w) == Len(w) <= FileLen /\ \A i \in 1..Len(w) : w[i] = i

\* A client may be sent v after w.
Longer(w, v) == Begins(v) /\ Len(w) <= Len(v)

\* A piece from the front of a beginning is a beginning.
LEMMA BeginsFront ==
  ASSUME NEW w \in Seq(Datum), NEW q \in Seq(Datum), Begins(w \o q)
  PROVE  Begins(w) /\ Len(w \o q) = Len(w) + Len(q)
<1>1. /\ Len(w \o q) = Len(w) + Len(q) /\ Len(w) \in Nat /\ Len(q) \in Nat
      /\ \A i \in 1..Len(w) + Len(q) :
           (w \o q)[i] = IF i <= Len(w) THEN w[i] ELSE q[i - Len(w)]
  BY ConcatProperties, LenProperties
<1>2. Len(w) <= FileLen
  BY <1>1, LengthAssumption DEF Begins
<1>3. ASSUME NEW i \in 1..Len(w) PROVE w[i] = i
  <2>1. i \in 1..Len(w) + Len(q) /\ i <= Len(w)
    BY <1>1
  <2>2. (w \o q)[i] = i
    BY <1>1, <2>1 DEF Begins
  <2>3. QED
    BY <1>1, <2>1, <2>2
<1>4. QED
  BY <1>1, <1>2, <1>3 DEF Begins

\* The chunk at the offset reached continues a beginning.
LEMMA BeginsMore ==
  ASSUME NEW w \in Seq(Datum), Begins(w)
  PROVE  /\ Begins(w \o Chunk(Len(w)))
         /\ Len(w \o Chunk(Len(w))) = NextPos(Len(w))
<1> DEFINE p == Len(w)
           e == NextPos(p)
           q == Chunk(p)
<1>1. p \in 0..FileLen /\ p \in Nat /\ FileLen \in Nat /\ BufLen \in Nat
  BY LengthAssumption, LenProperties DEF Begins
<1>2. e \in 0..FileLen /\ e >= p /\ q \in Seq(Datum)
  BY <1>1, ChunkType DEF NextPos
<1>3. /\ Len(q) = e - p
      /\ \A i \in 1..e - p : q[i] = p + i
  <2>1. \A i \in p + 1..e : Content[i] = i /\ Content[i] \in Datum
    BY <1>1, <1>2 DEF Content, Datum
  <2>2. /\ Len(q) = IF p + 1 <= e THEN e - (p + 1) + 1 ELSE 0
        /\ \A i \in 1..e - (p + 1) + 1 : q[i] = Content[(p + 1) + i - 1]
    BY <1>1, <1>2, <2>1, SubSeqProperties DEF Chunk
  <2> HIDE DEF p, e, q
  <2>3. ASSUME NEW i \in 1..e - p PROVE q[i] = p + i
    <3>1. i \in 1..e - (p + 1) + 1 /\ (p + 1) + i - 1 = p + i /\ p + i \in p + 1..e
      BY <1>1, <1>2
    <3>2. q[i] = Content[p + i]
      BY <2>2, <3>1
    <3>3. QED
      BY <2>1, <3>1, <3>2
  <2>4. QED
    BY <1>1, <1>2, <2>2, <2>3
<1> HIDE DEF e, q
<1>4. /\ Len(w \o q) = Len(w) + Len(q)
      /\ \A i \in 1..Len(w) + Len(q) :
           (w \o q)[i] = IF i <= Len(w) THEN w[i] ELSE q[i - Len(w)]
  BY <1>2, ConcatProperties
<1>5. Len(w \o q) = e
  BY <1>1, <1>2, <1>3, <1>4
<1>6. ASSUME NEW i \in 1..e PROVE (w \o q)[i] = i
  <2>0. i \in 1..Len(w) + Len(q)
    BY <1>4, <1>5
  <2>1. CASE i <= Len(w)
    <3>1. i \in 1..Len(w) /\ (w \o q)[i] = w[i]
      BY <1>1, <1>4, <2>0, <2>1
    <3>2. QED
      BY <3>1 DEF Begins
  <2>2. CASE ~(i <= Len(w))
    <3>1. i - Len(w) \in 1..e - p /\ p + (i - Len(w)) = i
      BY <1>1, <1>2, <2>2
    <3>2. (w \o q)[i] = q[i - Len(w)]
      BY <1>4, <2>0, <2>2
    <3>3. QED
      BY <1>3, <3>1, <3>2
  <2>3. QED
    BY <2>1, <2>2
<1>7. QED
  BY <1>2, <1>5, <1>6 DEF Begins, e, q

\* A beginning is given by its length; the whole file is the longest.
LEMMA BeginsIs ==
  ASSUME NEW w \in Seq(Datum), Begins(w)
  PROVE  /\ Len(w) \in 0..FileLen
         /\ w = SubSeq(Content, 1, Len(w))
         /\ Len(w) = FileLen => w = Content
<1>1. Len(w) \in 0..FileLen /\ FileLen \in Nat
  BY LengthAssumption, LenProperties DEF Begins
<1>2. Content \in Seq(Datum) /\ Len(Content) = FileLen
  BY <1>1 DEF Content, Datum
<1>3. w = SubSeq(Content, 1, Len(w))
  <2> DEFINE n == Len(w)
             v == SubSeq(Content, 1, n)
  <2>1. \A i \in 1..n : Content[i] = i /\ Content[i] \in Datum
    BY <1>1 DEF Content, Datum
  <2>2. /\ v \in Seq(Datum) /\ Len(v) = IF 1 <= n THEN n - 1 + 1 ELSE 0
        /\ \A i \in 1..n - 1 + 1 : v[i] = Content[1 + i - 1]
    BY <1>1, <2>1, SubSeqProperties
  <2> HIDE DEF v
  <2>3. Len(v) = Len(w)
    BY <1>1, <2>2
  <2>4. ASSUME NEW i \in 1..Len(w) PROVE v[i] = w[i]
    <3>1. i \in 1..n - 1 + 1 /\ 1 + i - 1 = i
      BY <1>1
    <3>2. v[i] = Content[i]
      BY <2>2, <3>1
    <3>3. QED
      BY <2>1, <3>2 DEF Begins
  <2>5. w = v
    BY <2>2, <2>3, <2>4, SeqEqual
  <2>6. QED
    BY <2>5 DEF v
<1>4. Len(w) = FileLen => w = Content
  BY <1>2, <1>3, SubSeqFull
<1>5. QED
  BY <1>1, <1>3, <1>4
-----------------------------------------------------------------------------
(* What a step makes of one connection.                                    *)

\* A send from a connected connection takes all the data or drops all of it,
\* and the socket never takes anything back.
LEMMA SendKeeps ==
  ASSUME NEW k \in Connection(Datum), k.state = "kConnected", ~k.fin,
         NEW data \in Seq(Datum), NEW gone \in BOOLEAN, NEW o \in Send(k, data, gone)
  PROVE  /\ \/ o.conn = k /\ ~o.complete /\ gone
            \/ Total(o.conn) = Total(k) \o data
         /\ Len(k.wire) <= Len(o.conn.wire)
<1>1. k.wire \in Seq(Datum) /\ Len(k.wire) \in Nat
  BY LenProperties DEF Connection
<1>2. CASE o = Outcome(k, FALSE) /\ gone
  BY <1>1, <1>2 DEF Outcome
<1>3. CASE ~(o = Outcome(k, FALSE) /\ gone)
  <2>1. o \in Send(k, data, FALSE)
    BY <1>3 DEF Send, SendInLoop
  <2>2. Total(o.conn) = Total(k) \o data
    BY <2>1, SendTotal
  <2>3. ASSUME NEW n \in 0..Len(data), o.conn = Write(k, data, n)
        PROVE  Len(k.wire) <= Len(o.conn.wire)
    <3>1. SubSeq(data, 1, n) \in Seq(Datum)
      BY SubSeqProperties
    <3>2. o.conn.wire = k.wire \o SubSeq(data, 1, n)
      BY <2>3 DEF Write, Connection
    <3>3. ASSUME NEW w \in Seq(Datum), NEW q \in Seq(Datum) PROVE Len(w) <= Len(w \o q)
      BY ConcatProperties, LenProperties
    <3>4. QED
      BY <1>1, <3>1, <3>2, <3>3
  <2>4. \/ o.conn.wire = k.wire
        \/ \E n \in 0..Len(data) : o.conn = Write(k, data, n)
    BY <2>1 DEF Send, SendInLoop, Outcome, Connection
  <2>5. QED
    BY <1>1, <2>2, <2>3, <2>4
<1>4. QED
  BY <1>2, <1>3

\* Nor does a writable socket.
LEMMA HandleWriteGrows ==
  ASSUME NEW k \in Connection(Datum), NEW o \in HandleWrite(k)
  PROVE  Len(k.wire) <= Len(o.conn.wire)
<1>1. k.state # "kDisconnected" /\ k.wire \in Seq(Datum) /\ k.out \in Seq(Datum)
  BY DEF HandleWrite, Connection
<1>2. PICK n \in 1..Len(k.out) :
        o.conn = IF n = Len(k.out) /\ k.state = "kDisconnecting"
                 THEN ShutdownInLoop(Write(k, k.out, n)) ELSE Write(k, k.out, n)
  BY <1>1 DEF HandleWrite, Outcome
<1>3. n \in 0..Len(k.out)
  BY <1>2
<1>4. Write(k, k.out, n) \in Connection(Datum)
  BY <1>1, <1>3, WriteType
<1>5. o.conn.wire = Write(k, k.out, n).wire
  BY <1>2, <1>4 DEF ShutdownInLoop, Connection
<1>6. SubSeq(k.out, 1, n) \in Seq(Datum)
  BY <1>1, <1>3, SubSeqProperties
<1>7. o.conn.wire = k.wire \o SubSeq(k.out, 1, n)
  BY <1>5 DEF Write, Connection
<1>8. ASSUME NEW w \in Seq(Datum), NEW q \in Seq(Datum) PROVE Len(w) <= Len(w \o q)
  BY ConcatProperties, LenProperties
<1>9. QED
  BY <1>1, <1>6, <1>7, <1>8

\* What was sent from the connection, if its client is still there: nothing
\* without a file, everything when it ends, and nothing waits for a shutdown
\* that a later chunk would come behind; a file in use is open.
Served(k, h, x) ==
  /\ h = "none" => k.fin
  /\ h # "none" /\ (version = 1 \/ k.fin) => Len(Total(k)) = FileLen
  /\ version # 1 /\ k.state = "kDisconnecting" => k.out = <<>>
  /\ x = "file" => h = "open"

\* The data of a connection.
DataOK(k) ==
  /\ Drained(k)
  /\ k.fin => k.state # "kConnected"
  /\ Begins(Total(k))

\* The connection callback starts a delivery, or refuses it at once.
LEMMA UpData ==
  ASSUME TypeOK, NEW c \in Conn, conn[c] = Connecting,
         NEW found \in BOOLEAN, NEW r \in OnConnectionUp(c, found), ~Gone(c)
  PROVE  /\ DataOK(r.conn) /\ Served(r.conn, r.handle, r.ctx)
         /\ version # 1 => Len(Total(r.conn)) = r.pos
         /\ r.handle = "none" => r.conn.wire = <<>>
<1> DEFINE k == ConnectEstablished(conn[c])
<1>1. /\ k \in Connection(Datum) /\ k.state = "kConnected" /\ ~k.fin
      /\ k.out = <<>> /\ k.wire = <<>>
  <2>1. Connecting.out = <<>> /\ Connecting.wire = <<>> /\ ~Connecting.fin
    BY DEF Connecting
  <2>2. conn[c] \in Connection(Datum)
    BY DEF TypeOK, Datum
  <2>3. conn[c].out = <<>> /\ conn[c].wire = <<>> /\ ~conn[c].fin
    BY <2>1, Zenon
  <2>4. QED
    BY <2>2, <2>3 DEF ConnectEstablished, Connection, ConnState
<1>2. Total(k) = <<>> /\ Len(<<>>) = 0 /\ Begins(<<>>) /\ Drained(k)
  BY <1>1, LengthAssumption DEF Total, Begins, Drained
<1> HIDE DEF k
<1>3. ASSUME NEW j \in Connection(Datum), j.state = "kConnected", Drained(j)
      PROVE  /\ Shutdown(j).wire = j.wire /\ Shutdown(j).out = j.out
             /\ Drained(Shutdown(j)) /\ Total(Shutdown(j)) = Total(j)
             /\ Shutdown(j).state = "kDisconnecting"
             /\ Shutdown(j).fin <=> (j.fin \/ j.out = <<>>)
  BY <1>3, ShutdownTotal, ShutdownType DEF Shutdown, ShutdownInLoop, Writing, Connection
<1>4. ASSUME NEW data \in Seq(Datum), NEW o \in Send(k, data, Gone(c))
      PROVE  /\ o.conn \in Connection(Datum) /\ o.conn.state = "kConnected"
             /\ ~o.conn.fin /\ Total(o.conn) = data /\ Drained(o.conn)
  <2>1. o.conn \in Connection(Datum) /\ o.conn.state = "kConnected" /\ ~o.conn.fin
    BY <1>1, <1>4, SendType
  <2>2. Total(o.conn) = <<>> \o data
    BY <1>1, <1>2, <1>4, SendTotal
  <2>3. <<>> \o data = data
    BY <1>4, ConcatEmptySeq
  <2>4. QED
    BY <2>1, <2>2, <2>3 DEF Drained
<1>5. ASSUME r = Result(Shutdown(k), "none", 0, "empty", FALSE)
      PROVE  /\ DataOK(r.conn) /\ Served(r.conn, r.handle, r.ctx)
             /\ version # 1 => Len(Total(r.conn)) = r.pos
             /\ r.handle = "none" => r.conn.wire = <<>>
  <2>1. r.conn = Shutdown(k) /\ r.handle = "none" /\ r.pos = 0 /\ r.ctx = "empty"
    BY <1>5 DEF Result
  <2>2. QED
    BY <1>1, <1>2, <1>3, <2>1 DEF DataOK, Served
<1>6. CASE version = 1
  <2> DEFINE data == IF found THEN Content ELSE <<>>
  <2>1. r \in V1Up(k, Gone(c), found)
    BY <1>6 DEF OnConnectionUp, k
  <2>2. PICK o \in Send(k, data, Gone(c)) :
          r = Result(Shutdown(o.conn), IF found THEN "closed" ELSE "none", 0, "empty", FALSE)
    BY <2>1 DEF V1Up
  <2>3. /\ data \in Seq(Datum)
        /\ found => data = Content
        /\ ~found => data = <<>>
    BY ChunkType, LengthAssumption, EmptySeq
  <2> HIDE DEF data
  <2>4. /\ o.conn \in Connection(Datum) /\ o.conn.state = "kConnected"
        /\ ~o.conn.fin /\ Total(o.conn) = data /\ Drained(o.conn)
    BY <1>4, <2>2, <2>3
  <2>5. Begins(Content) /\ Len(Content) = FileLen
    BY LengthAssumption DEF Begins, Content
  <2>6. /\ r.conn = Shutdown(o.conn) /\ r.ctx = "empty"
        /\ r.handle = (IF found THEN "closed" ELSE "none")
    BY <2>2 DEF Result
  <2>7. /\ Drained(r.conn) /\ Total(r.conn) = data /\ r.conn.state = "kDisconnecting"
        /\ r.conn.wire = o.conn.wire /\ (r.conn.fin <=> o.conn.out = <<>>)
    BY <1>3, <2>4, <2>6
  <2>8. CASE found
    BY <1>6, <2>3, <2>5, <2>6, <2>7, <2>8 DEF DataOK, Served
  <2>9. CASE ~found
    <3>1. o.conn.wire = <<>> /\ o.conn.out = <<>>
      <4>1. ASSUME NEW w \in Seq(Datum), NEW q \in Seq(Datum), w \o q = <<>>
            PROVE  w = <<>> /\ q = <<>>
        <5>1. Len(w \o q) = Len(w) + Len(q) /\ Len(w) \in Nat /\ Len(q) \in Nat
          BY ConcatProperties, LenProperties
        <5>2. Len(w) = 0 /\ Len(q) = 0
          BY <1>2, <4>1, <5>1
        <5>3. QED
          BY <5>2, EmptySeq
      <4>2. o.conn.wire \in Seq(Datum) /\ o.conn.out \in Seq(Datum)
        BY <2>4 DEF Connection
      <4>3. QED
        BY <2>3, <2>4, <2>9, <4>1, <4>2 DEF Total
    <3>2. QED
      BY <1>2, <1>6, <2>3, <2>6, <2>7, <2>9, <3>1 DEF DataOK, Served
  <2>10. QED
    BY <2>8, <2>9
<1>7. CASE version \in {2, 3}
  <2>1. r \in V2Up(k, Gone(c), found)
    BY <1>7 DEF OnConnectionUp, V3Up, k
  <2>2. CASE ~found
    BY <1>5, <2>1, <2>2 DEF V2Up, NoFile
  <2>3. CASE found /\ FileLen = 0
    <3>1. r = Result(k, "open", 0, "file", FALSE)
      BY <2>1, <2>3 DEF V2Up
    <3>2. r.conn = k /\ r.handle = "open" /\ r.pos = 0
      BY <3>1 DEF Result
    <3>3. QED
      BY <1>1, <1>2, <1>7, <3>2 DEF DataOK, Served
  <2>4. CASE found /\ FileLen # 0
    <3>1. r \in SendChunk(k, Gone(c), 0)
      BY <2>1, <2>4 DEF V2Up
    <3>2. PICK o \in Send(k, Chunk(0), Gone(c)) :
            r = Result(o.conn, "open", NextPos(0), "file", o.complete)
      BY <3>1 DEF SendChunk
    <3>3. r.conn = o.conn /\ r.handle = "open" /\ r.pos = NextPos(0)
      BY <3>2 DEF Result
    <3>4. Chunk(0) \in Seq(Datum)
      BY ChunkType, LengthAssumption
    <3>5. /\ o.conn.state = "kConnected" /\ ~o.conn.fin
          /\ Total(o.conn) = Chunk(0) /\ Drained(o.conn)
      BY <1>4, <3>2, <3>4
    <3>6. Begins(Chunk(0)) /\ Len(Chunk(0)) = NextPos(0)
      <4>1. <<>> \o Chunk(0) = Chunk(0)
        BY <3>4, ConcatEmptySeq
      <4>2. <<>> \in Seq(Datum)
        BY EmptySeq
      <4>3. QED
        BY <1>2, <4>1, <4>2, BeginsMore
    <3>7. QED
      BY <1>7, <3>3, <3>5, <3>6 DEF DataOK, Served
  <2>5. QED
    BY <2>2, <2>3, <2>4
<1>8. QED
  BY <1>6, <1>7, VersionsAssumption DEF TypeOK

\* The write-complete callback continues it with the next chunk, or ends it
\* when there is none.
LEMMA WriteCompleteData ==
  ASSUME TypeOK, NEW c \in Conn, NEW o \in {"live", "doomed"},
         conn[c].state \in StateOf(o), FileOK(version, o, handle[c], ctx[c]),
         conn[c].out = <<>>, DataOK(conn[c]),
         version # 1 => Len(Total(conn[c])) = pos[c],
         o = "doomed" => Gone(c), ~Gone(c) => Served(conn[c], handle[c], ctx[c]),
         NEW r \in OnWriteComplete(c)
  PROVE  /\ DataOK(r.conn)
         /\ version # 1 /\ (r.conn.out # <<>> \/ r.complete) => Len(Total(r.conn)) = r.pos
         /\ ~Gone(c) => Served(r.conn, r.handle, r.ctx)
         /\ Len(conn[c].wire) <= Len(r.conn.wire)
         /\ r.handle = "none" <=> handle[c] = "none"
         /\ conn[c].fin => r.conn.fin /\ r.conn.wire = conn[c].wire
<1> DEFINE k == conn[c]
           h == handle[c]
           p == pos[c]
           x == ctx[c]
           G == Gone(c)
           Good(m) == /\ DataOK(m.conn)
                      /\ (version # 1 /\ (m.conn.out # <<>> \/ m.complete)) =>
                            Len(Total(m.conn)) = m.pos
                      /\ ~G => Served(m.conn, m.handle, m.ctx)
                      /\ Len(k.wire) <= Len(m.conn.wire)
                      /\ m.handle = "none" <=> h = "none"
                      /\ k.fin => m.conn.fin /\ m.conn.wire = k.wire
<1>1. /\ k \in Connection(Datum) /\ k.state \in StateOf(o) /\ k.out = <<>>
      /\ p \in 0..FileLen /\ version \in 1..3 /\ FileOK(version, o, h, x)
      /\ DataOK(k) /\ (version # 1 => Len(Total(k)) = p)
      /\ ~G => Served(k, h, x) /\ k.state \in {"kConnected", "kDisconnecting"}
      /\ G \in BOOLEAN
  BY VersionsAssumption DEF TypeOK, Datum, Gone, StateOf
<1>0. h \in {"none", "open", "closed", "twice"} /\ x \in {"empty", "file", "null"}
  BY DEF TypeOK
<1>2. \/ r \in V2WriteComplete(k, G, h, p, x) /\ version = 2
      \/ r \in V3WriteComplete(k, G, h, p, x) /\ version # 2
  BY DEF OnWriteComplete
<1> HIDE DEF k, h, p, x, G
<1>3. k.wire \in Seq(Datum) /\ Len(k.wire) \in Nat /\ Total(k) = k.wire
  BY <1>1, ConcatEmptySeq, LenProperties DEF Connection, Total
<1>4. ASSUME NEW m, NEW y, m = Result(k, h, y, x, FALSE) PROVE Good(m)
  <2>1. m.conn = k /\ m.handle = h /\ m.ctx = x /\ ~m.complete
    BY <1>4 DEF Result
  <2>2. QED
    BY <1>1, <1>3, <2>1
<1>5. x = "file" => h # "none" /\ version # 1 /\ (h = "closed" => version = 2 /\ G)
  BY <1>1 DEF FileOK, Served
<1>6. ASSUME x = "file", NEW m, NEW y, NEW z, NEW g, g # "none",
             m = Result(Shutdown(k), g, y, z, FALSE), z = "file" => g = "open",
             ~G => k.state # "kConnected" \/ p = FileLen
      PROVE  Good(m)
  <2>1. m.conn = Shutdown(k) /\ m.handle = g /\ m.ctx = z /\ m.complete = FALSE
    BY <1>6 DEF Result
  <2>0. h # "none" /\ g # "none"
    BY <1>5, <1>6
  <2>2. CASE k.state # "kConnected"
    <3>1. Shutdown(k) = k
      BY <1>1, <2>2, ShutdownType
    <3>2. ~G => Served(k, g, z)
      BY <1>1, <1>5, <1>6 DEF Served
    <3>3. QED
      BY <1>1, <1>3, <2>0, <2>1, <3>1, <3>2
  <2>3. CASE k.state = "kConnected"
    <3>1. /\ Shutdown(k).wire = k.wire /\ Shutdown(k).out = <<>> /\ Shutdown(k).fin
          /\ Shutdown(k).state = "kDisconnecting" /\ Drained(Shutdown(k))
          /\ Total(Shutdown(k)) = Total(k)
      BY <1>1, <2>3, ShutdownType, ShutdownTotal
         DEF Shutdown, ShutdownInLoop, Writing, Connection, DataOK
    <3>2. ~G => Len(Total(k)) = FileLen
      BY <1>1, <1>5, <1>6, <2>3
    <3>3. DataOK(Shutdown(k)) /\ ~k.fin
      BY <1>1, <2>3, <3>1 DEF DataOK
    <3>4. ~G => Served(Shutdown(k), g, z)
      BY <1>6, <3>1, <3>2 DEF Served
    <3>5. QED
      BY <1>3, <2>0, <2>1, <3>1, <3>3, <3>4
  <2>4. QED
    BY <2>2, <2>3
<1>7. ASSUME x = "file", NEW m, NEW g, g # "none", NEW e \in Send(k, Chunk(p), G),
             m = Result(e.conn, g, NextPos(p), "file", e.complete), ~G => g = "open"
      PROVE  Good(m)
  <2>1. /\ m.conn = e.conn /\ m.handle = g /\ m.complete = e.complete
        /\ m.pos = NextPos(p) /\ m.ctx = "file"
    BY <1>7 DEF Result
  <2>2. CASE k.state # "kConnected"
    <3>1. e.conn = k /\ ~e.complete
      BY <1>7, <2>2 DEF Send, Outcome
    <3>2. ~G => Served(k, g, "file")
      BY <1>1, <1>5, <1>7 DEF Served
    <3>3. QED
      BY <1>1, <1>3, <1>5, <1>7, <2>1, <3>1, <3>2
  <2>3. CASE k.state = "kConnected"
    <3>1. ~k.fin /\ Chunk(p) \in Seq(Datum)
      BY <1>1, <2>3, ChunkType DEF DataOK
    <3>2. e.conn \in Connection(Datum) /\ e.conn.state = "kConnected" /\ ~e.conn.fin
      BY <1>1, <1>7, <2>3, <3>1, SendType
    <3>3. /\ \/ e.conn = k /\ ~e.complete
             \/ Total(e.conn) = Total(k) \o Chunk(p)
          /\ Len(k.wire) <= Len(e.conn.wire)
      BY <1>1, <1>7, <2>3, <3>1, SendKeeps
    <3>4. Len(Total(k)) = p /\ Total(k) \in Seq(Datum) /\ Begins(Total(k))
      BY <1>1, <1>3, <1>5, <1>7 DEF DataOK
    <3>5. /\ Begins(Total(k) \o Chunk(p))
          /\ Len(Total(k) \o Chunk(p)) = NextPos(p)
      BY <3>4, BeginsMore
    <3>6. DataOK(e.conn)
      BY <1>1, <3>2, <3>3, <3>5 DEF DataOK, Drained
    <3>7. ~G => Served(e.conn, g, "file")
      BY <1>5, <1>7, <3>2 DEF Served
    <3>8. e.conn.out # <<>> \/ e.complete => Len(Total(e.conn)) = NextPos(p)
      BY <1>1, <3>3, <3>5
    <3>9. QED
      BY <1>5, <1>7, <2>1, <3>1, <3>3, <3>6, <3>7, <3>8
  <2>4. QED
    BY <2>2, <2>3
<1>8. ASSUME NEW m \in SendChunk(k, G, p), x = "file"
      PROVE  /\ Good(m)
             /\ h = "closed" => Good([m EXCEPT !.handle = h])
  <2>1. PICK e \in Send(k, Chunk(p), G) :
          m = Result(e.conn, "open", NextPos(p), "file", e.complete)
    BY <1>8 DEF SendChunk
  <2>2. [m EXCEPT !.handle = h] = Result(e.conn, h, NextPos(p), "file", e.complete)
    BY <2>1 DEF Result
  <2> HIDE DEF Good
  <2>3. h # "none" /\ (h = "closed" => G)
    BY <1>5, <1>8
  <2>4. QED
    BY <1>7, <1>8, <2>1, <2>2, <2>3
<1>9. Good(r)
  <2> HIDE DEF Good
  <2>1. CASE x # "file"
    <3>1. x = "empty" \/ x = "null"
      BY <1>0, <2>1
    <3>2. r = Result(k, h, p, x, FALSE)
      BY <1>2, <3>1 DEF V2WriteComplete, V3WriteComplete
    <3>3. QED
      BY <1>4, <3>2
  <2>2. CASE x = "file" /\ version = 2 /\ h = "closed"
    <3>1. G
      BY <1>5, <2>2
    <3>2. \/ r = Result(Shutdown(k), "twice", p, "null", FALSE)
          \/ \E m \in SendChunk(k, G, p) : r = [m EXCEPT !.handle = h]
      BY <1>2, <2>2 DEF V2WriteComplete, Closed
    <3>3. QED
      <4>1. ASSUME r = Result(Shutdown(k), "twice", p, "null", FALSE) PROVE Good(r)
        <5>1. "twice" # "none" /\ ("null" = "file" => "twice" = "open")
          OBVIOUS
        <5>2. QED
          BY <1>6, <2>2, <3>1, <4>1, <5>1, Zenon
      <4>2. QED
        BY <1>8, <2>2, <3>2, <4>1
  <2>3. CASE x = "file" /\ ~(version = 2 /\ h = "closed")
    <3>1. \/ \E g : \E z : /\ g # "none" /\ ~(p < FileLen) /\ (z = "file" => g = "open")
                        /\ r = Result(Shutdown(k), g, p, z, FALSE)
          \/ r \in SendChunk(k, G, p)
      <4>1. h # "closed"
        BY <1>5, <2>3
      <4>3. h = "open"
        BY <1>0, <1>1, <2>3, <4>1 DEF FileOK
      <4>2. \/ r = Result(Shutdown(k), "closed", p, "null", FALSE) /\ ~(p < FileLen)
            \/ r = Result(Shutdown(k), h, p, x, FALSE) /\ ~(p < FileLen)
            \/ r \in SendChunk(k, G, p)
        BY <1>2, <2>3, <4>3 DEF V2WriteComplete, V3WriteComplete, Closed
      <4>4. QED
        BY <4>2, <4>3
    <3>2. ~(p < FileLen) => p = FileLen
      BY <1>1, LengthAssumption
    <3>3. QED
      BY <1>6, <1>8, <2>3, <3>1, <3>2
  <2>4. QED
    BY <2>1, <2>2, <2>3
<1>10. QED
  BY <1>9 DEF k, h, p, x, G
-----------------------------------------------------------------------------
(* The invariant, and the abstract view of a client.                       *)

WC(c) == Functor("writeComplete", c)

\* The state of c's delivery.  While output or a callback waits, all up to the
\* file's offset was sent.
ClientOK(c) ==
  /\ object[c] = "unborn" => conn[c] = Connecting /\ ~Gone(c)
  /\ object[c] \in {"doomed", "freed"} \/ active[c] = "readable" => Gone(c)
  /\ DataOK(conn[c])
  /\ version # 1 /\ (conn[c].out # <<>> \/ In(WC(c), batch, queue)) =>
       Len(Total(conn[c])) = pos[c]
  /\ object[c] = "live" /\ ~Gone(c) => Served(conn[c], handle[c], ctx[c])

DInv == GInv /\ \A c \in Conn : ClientOK(c)

\* The status that FileDelivery gives to a client.
StatusOf(c) == IF object[c] = "unborn" THEN "new"
               ELSE IF Gone(c) THEN "left"
               ELSE IF ~conn[c].fin THEN "receiving"
               ELSE IF handle[c] = "none" THEN "refused" ELSE "finished"

\* What a step may make of status s and received data w.
Advances(s, w, t, v) ==
  \/ t = s /\ v = w
  \/ s \in {"new", "receiving"} /\ t = "receiving" /\ Longer(w, v)
  \/ s \in {"new", "receiving"} /\ t = "finished" /\ v = Content
  \/ s = "new" /\ t = "refused" /\ v = w
  \/ s \notin {"new", "left"} /\ t = "left" /\ v = w
  \/ s = "left" /\ t = "left" /\ Longer(w, v)

\* What is on the wire of a connection is the beginning of the file; with
\* nothing buffered it is all that was sent.
LEMMA WireBegins ==
  ASSUME NEW k \in Connection(Datum), Begins(Total(k))
  PROVE  /\ Begins(k.wire)
         /\ k.out = <<>> => Total(k) = k.wire
         /\ k.out = <<>> /\ Len(Total(k)) = FileLen => k.wire = Content
<1>1. k.wire \in Seq(Datum) /\ k.out \in Seq(Datum)
  BY DEF Connection
<1>2. Begins(k.wire)
  <2>1. ASSUME NEW w \in Seq(Datum), NEW q \in Seq(Datum), Begins(w \o q) PROVE Begins(w)
    BY <2>1, BeginsFront
  <2>2. QED
    BY <1>1, <2>1 DEF Total
<1>3. k.out = <<>> => Total(k) = k.wire
  BY <1>1, ConcatEmptySeq DEF Total
<1>4. Len(k.wire) = FileLen => k.wire = Content
  BY <1>1, <1>2, BeginsIs
<1>5. QED
  BY <1>2, <1>3, <1>4

\* A step of the server on a connection that stays alive.
LEMMA LiveAdvances ==
  ASSUME NEW k \in Connection(Datum), NEW j \in Connection(Datum), NEW h, NEW g,
         NEW x, NEW y, DataOK(k), DataOK(j), Served(k, h, x), Served(j, g, y),
         Len(k.wire) <= Len(j.wire), g = "none" <=> h = "none",
         k.fin => j.fin /\ j.wire = k.wire
  PROVE  Advances(IF ~k.fin THEN "receiving" ELSE IF h = "none" THEN "refused" ELSE "finished",
                  k.wire,
                  IF ~j.fin THEN "receiving" ELSE IF g = "none" THEN "refused" ELSE "finished",
                  j.wire)
<1>1. k.fin \in BOOLEAN /\ j.fin \in BOOLEAN
  BY DEF Connection
<1>2. CASE k.fin
  BY <1>2 DEF Advances
<1>3. CASE ~k.fin /\ ~j.fin
  BY <1>3, WireBegins DEF Advances, Longer, DataOK
<1>4. CASE ~k.fin /\ j.fin
  <2>1. h # "none" /\ g # "none"
    BY <1>4 DEF Served
  <2>2. j.wire = Content
    BY <1>4, <2>1, WireBegins DEF Served, DataOK, Drained
  <2>3. QED
    BY <1>4, <2>1, <2>2 DEF Advances
<1>5. QED
  BY <1>1, <1>2, <1>3, <1>4

\* A step that advances one client and leaves the others alone is a step of
\* the delivery, or none.
LEMMA AbstractStep ==
  ASSUME TypeOK, TypeOK', NEW c \in Conn,
         \A d \in Conn \ {c} : StatusOf(d)' = StatusOf(d) /\ conn'[d].wire = conn[d].wire,
         Advances(StatusOf(c), conn[c].wire, StatusOf(c)', conn'[c].wire)
  PROVE  [Delivery!Next]_(Delivery!vars)
<1> DEFINE st == [d \in Conn |-> StatusOf(d)]
           rc == [d \in Conn |-> conn[d].wire]
           sp == [d \in Conn |-> StatusOf(d)']
           rp == [d \in Conn |-> conn'[d].wire]
<1>1. /\ st' = sp /\ rc' = rp
      /\ \A d \in Conn : /\ st[d] = StatusOf(d) /\ sp[d] = StatusOf(d)'
                         /\ rc[d] = conn[d].wire /\ rp[d] = conn'[d].wire
  OBVIOUS
<1>2. sp = [st EXCEPT ![c] = sp[c]] /\ rp = [rc EXCEPT ![c] = rp[c]]
  OBVIOUS
<1>3. rp[c] \in Seq(Datum) /\ Len(rc[c]) \in Nat
  BY LenProperties DEF TypeOK, Connection, Datum
<1>4. Len(Content) = FileLen /\ FileLen \in Nat
  BY LengthAssumption DEF Content
<1>5. Longer(rc[c], rp[c]) =>
        \E n \in Len(rc[c])..Len(Content) : rp[c] = SubSeq(Content, 1, n)
  <2>1. ASSUME Longer(rc[c], rp[c])
        PROVE  Len(rp[c]) \in Len(rc[c])..Len(Content) /\ rp[c] = SubSeq(Content, 1, Len(rp[c]))
    BY <1>3, <1>4, <2>1, BeginsIs DEF Longer
  <2>2. QED
    BY <2>1
<1>6. Advances(st[c], rc[c], sp[c], rp[c])
  BY <1>1
<1> DEFINE More == \E n \in Len(rc[c])..Len(Content) :
                     rp = [rc EXCEPT ![c] = SubSeq(Content, 1, n)]
           Steps == \/ st[c] \in {"new", "receiving"} /\ More
                         /\ sp = [st EXCEPT ![c] = "receiving"]
                    \/ st[c] \in {"new", "receiving"} /\ rp = [rc EXCEPT ![c] = Content]
                         /\ sp = [st EXCEPT ![c] = "finished"]
                    \/ st[c] = "new" /\ sp = [st EXCEPT ![c] = "refused"] /\ rp = rc
                    \/ st[c] \notin {"new", "left"} /\ sp = [st EXCEPT ![c] = "left"] /\ rp = rc
                    \/ st[c] = "left" /\ More /\ sp = st
                    \/ sp = st /\ rp = rc
<1>7. Steps
  <2>1. rp[c] = rc[c] => rp = rc
    BY <1>1
  <2>2. sp[c] = st[c] => sp = st
    BY <1>1
  <2>3. Longer(rc[c], rp[c]) => More
    BY <1>2, <1>5
  <2> HIDE DEF st, rc, sp, rp, More
  <2>4. QED
    BY <1>2, <1>6, <2>1, <2>2, <2>3 DEF Advances
<1>8. Steps => [Delivery!Next]_(Delivery!vars)
  BY <1>1 DEF StatusOf, Delivery!Next, Delivery!vars, Delivery!Deliver, Delivery!Finish,
              Delivery!Refuse, Delivery!Leave, Delivery!Late, Delivery!More
<1>9. QED
  BY <1>7, <1>8
-----------------------------------------------------------------------------
(* The steps.                                                              *)

\* A client that a step does not concern.
LEMMA OthersKeep ==
  ASSUME NEW d \in Conn, ClientOK(d), version' = version,
         conn'[d] = conn[d], handle'[d] = handle[d], pos'[d] = pos[d], ctx'[d] = ctx[d],
         object'[d] = object[d], peer'[d] = peer[d],
         active'[d] = "readable" => active[d] = "readable" \/ Gone(d),
         In(WC(d), batch', queue') => In(WC(d), batch, queue)
  PROVE  /\ ClientOK(d)'
         /\ StatusOf(d)' = StatusOf(d) /\ conn'[d].wire = conn[d].wire
<1>1. Gone(d)' = Gone(d)
  BY DEF Gone
<1>2. /\ DataOK(conn[d])' = DataOK(conn[d]) /\ Total(conn[d])' = Total(conn[d])
      /\ Served(conn[d], handle[d], ctx[d])' = Served(conn[d], handle[d], ctx[d])
      /\ WC(d)' = WC(d)
  BY DEF DataOK, Served, Total, Drained, Begins, WC, Functor
<1>3. In(WC(d), batch, queue)' => In(WC(d), batch, queue)
  BY <1>2 DEF In
<1>4. ClientOK(d)'
  BY <1>1, <1>2, <1>3 DEF ClientOK
<1>5. QED
  BY <1>1, <1>4 DEF StatusOf

\* The same of a result that is taken for another client.
LEMMA TakenByOne ==
  ASSUME TypeOK, NEW c \in Conn, NEW r, Take(c, r)
  PROVE  /\ conn'[c] = r.conn /\ handle'[c] = r.handle
         /\ pos'[c] = r.pos /\ ctx'[c] = r.ctx
         /\ \A d \in Conn \ {c} : /\ conn'[d] = conn[d] /\ handle'[d] = handle[d]
                                  /\ pos'[d] = pos[d] /\ ctx'[d] = ctx[d]
BY DEF TypeOK, Take

\* Callbacks that are queued for c are not queued for others.
LEMMA QueuedForOne ==
  ASSUME NEW c \in Conn, NEW d \in Conn \ {c}
  PROVE  WC(d) # WC(c) /\ WC(d) # Functor("connectDestroyed", c)
BY DEF WC, Functor

\* A functor that a step queues for c, or none.
LEMMA CompletedIn ==
  ASSUME TypeOK, NEW c \in Conn, NEW done, NEW b,
         queue' = queue \o Completed(c, done), batch' = b
  PROVE  \A g : In(g, batch', queue') =>
           In(g, b, queue) \/ (done /\ version # 1 /\ g = WC(c))
<1>1. queue \in Seq(Functors) /\ WC(c) \in Functors
  BY DEF TypeOK, WC, Functor, Functors
<1>2. CASE done /\ version # 1
  <2>1. queue' = queue \/ queue' = Append(queue, WC(c))
    BY CompletedIsAppended, <1>1 DEF WC
  <2>2. ASSUME queue' = Append(queue, WC(c)), NEW g, In(g, b, queue')
        PROVE  In(g, b, queue) \/ g = WC(c)
    <3>1. /\ Len(queue') = Len(queue) + 1 /\ queue'[Len(queue) + 1] = WC(c)
          /\ \A i \in 1..Len(queue) : queue'[i] = queue[i]
          /\ Len(queue) \in Nat
      BY <1>1, <2>2
    <3>2. ASSUME NEW i \in 1..Len(queue') PROVE i \in 1..Len(queue) \/ i = Len(queue) + 1
      BY <3>1
    <3>3. QED
      BY <2>2, <3>1, <3>2 DEF In
  <2>3. QED
    BY <1>2, <2>1, <2>2
<1>3. CASE ~(done /\ version # 1)
  <2>1. Completed(c, done) = <<>>
    BY <1>3, Zenon DEF Completed
  <2>2. queue' = queue
    BY <1>1, <2>1, ConcatEmptySeq
  <2>3. QED
    BY <2>2
<1>4. QED
  BY <1>2, <1>3, Zenon

\* What one step makes of the invariant and of the abstract state.
Good == (\A d \in Conn : ClientOK(d)') /\ [Delivery!Next]_(Delivery!vars)

\* A step concerns client c only.
LEMMA OneClient ==
  ASSUME TypeOK, TypeOK', NEW c \in Conn, ClientOK(c)',
         Advances(StatusOf(c), conn[c].wire, StatusOf(c)', conn'[c].wire),
         \A d \in Conn \ {c} :
           ClientOK(d)' /\ StatusOf(d)' = StatusOf(d) /\ conn'[d].wire = conn[d].wire
  PROVE  Good
BY AbstractStep DEF Good

\* A client is accepted: it is refused, or its delivery starts.
LEMMA AcceptGood ==
  ASSUME DInv, GInv', NEW c \in Conn, Accept(c)
  PROVE  Good
<1>0. /\ TypeOK /\ TypeOK' /\ FInv /\ ClientOK(c) /\ \A d \in Conn : ClientOK(d)
      /\ QueueOK(batch, queue, object)
  BY DEF DInv, GInv, FInv
<1>1. PICK found \in BOOLEAN : \E r \in OnConnectionUp(c, found) :
        Take(c, r) /\ queue' = queue \o Completed(c, r.complete)
  BY DEF Accept
<1>2. PICK r \in OnConnectionUp(c, found) :
        Take(c, r) /\ queue' = queue \o Completed(c, r.complete)
  BY <1>1
<1>3. /\ object[c] = "unborn" /\ object' = [object EXCEPT ![c] = "live"]
      /\ UNCHANGED <<version, peer, active, batch>>
  BY DEF Accept
<1>4. conn[c] = Connecting /\ ~Gone(c)
  BY <1>0, <1>3 DEF ClientOK
<1>5. /\ DataOK(r.conn) /\ Served(r.conn, r.handle, r.ctx)
      /\ version # 1 => Len(Total(r.conn)) = r.pos
      /\ r.handle = "none" => r.conn.wire = <<>>
  BY <1>0, <1>4, UpData
<1>6. /\ conn'[c] = r.conn /\ handle'[c] = r.handle
      /\ pos'[c] = r.pos /\ ctx'[c] = r.ctx
      /\ \A d \in Conn \ {c} : /\ conn'[d] = conn[d] /\ handle'[d] = handle[d]
                               /\ pos'[d] = pos[d] /\ ctx'[d] = ctx[d]
  BY <1>0, <1>2, TakenByOne
<1>7. object'[c] = "live" /\ \A d \in Conn \ {c} : object'[d] = object[d]
  BY <1>0, <1>3 DEF TypeOK
<1>8. Gone(c)' = Gone(c)
  BY <1>3 DEF Gone
<1>9. ClientOK(c)'
  <2>1. active[c] # "readable"
    BY <1>0, <1>4 DEF ClientOK
  <2>2. /\ DataOK(conn[c])' /\ Served(conn[c], handle[c], ctx[c])'
        /\ version' # 1 => Len(Total(conn[c])') = pos'[c]
    BY <1>3, <1>5, <1>6 DEF DataOK, Served, Total, Drained, Begins
  <2>3. QED
    BY <1>3, <1>7, <2>1, <2>2 DEF ClientOK
<1>10. Advances(StatusOf(c), conn[c].wire, StatusOf(c)', conn'[c].wire)
  <2>1. StatusOf(c) = "new" /\ conn[c].wire = <<>> /\ Len(<<>>) = 0
    <3>1. Connecting.wire = <<>>
      BY DEF Connecting
    <3>2. QED
      BY <1>3, <1>4, <3>1 DEF StatusOf
  <2>2. r.conn \in Connection(Datum)
    BY <1>0, <1>6 DEF TypeOK, Datum
  <2>3. Begins(r.conn.wire) /\ Len(r.conn.wire) \in Nat
    BY <1>5, <2>2, WireBegins, LenProperties DEF DataOK, Connection
  <2>4. StatusOf(c)' = IF ~r.conn.fin THEN "receiving"
                       ELSE IF r.handle = "none" THEN "refused" ELSE "finished"
    BY <1>4, <1>6, <1>7, <1>8 DEF StatusOf
  <2>5. CASE ~r.conn.fin
    BY <1>6, <2>1, <2>3, <2>4, <2>5 DEF Advances, Longer
  <2>6. CASE r.conn.fin /\ r.handle = "none"
    BY <1>5, <1>6, <2>1, <2>4, <2>6 DEF Advances
  <2>7. CASE r.conn.fin /\ r.handle # "none"
    <3>1. r.conn.wire = Content
      BY <1>5, <2>2, <2>7, WireBegins DEF DataOK, Served, Drained
    <3>2. QED
      BY <1>6, <2>1, <2>4, <2>7, <3>1 DEF Advances
  <2>8. QED
    BY <2>5, <2>6, <2>7
<1>11. ASSUME NEW d \in Conn \ {c}
       PROVE  ClientOK(d)' /\ StatusOf(d)' = StatusOf(d) /\ conn'[d].wire = conn[d].wire
  <2>1. In(WC(d), batch', queue') => In(WC(d), batch, queue)
    BY <1>0, <1>2, <1>3, CompletedIn, QueuedForOne
  <2>2. QED
    BY <1>0, <1>3, <1>6, <1>7, <2>1, OthersKeep
<1>12. QED
  BY <1>0, <1>9, <1>10, <1>11, OneClient

\* The connection goes down: its client has left.
LEMMA OnDownGood ==
  ASSUME DInv, GInv', NEW c \in Conn, OnDown(c)
  PROVE  Good
<1>0. TypeOK /\ TypeOK' /\ ClientOK(c) /\ \A d \in Conn : ClientOK(d)
  BY DEF DInv, GInv, FInv
<1>1. PICK r \in OnConnectionDown(c) : Take(c, r)
  BY DEF OnDown
<1>2. /\ active[c] = "readable" /\ active' = [active EXCEPT ![c] = "none"]
      /\ object' = [object EXCEPT ![c] = "doomed"]
      /\ queue' = Append(queue, Functor("connectDestroyed", c))
      /\ UNCHANGED <<version, peer, batch>>
  BY DEF OnDown
<1>3. r.conn = HandleClose(conn[c]) /\ r.pos = pos[c]
  BY <1>1 DEF OnConnectionDown, V2Down, Result
<1>4. /\ conn'[c] = r.conn /\ pos'[c] = r.pos
      /\ \A d \in Conn \ {c} : /\ conn'[d] = conn[d] /\ handle'[d] = handle[d]
                               /\ pos'[d] = pos[d] /\ ctx'[d] = ctx[d]
  BY <1>0, <1>1, TakenByOne
<1>5. /\ object'[c] = "doomed" /\ active'[c] = "none"
      /\ \A d \in Conn \ {c} : object'[d] = object[d] /\ active'[d] = active[d]
  BY <1>0, <1>2 DEF TypeOK
<1>6. Gone(c) /\ Gone(c)'
  BY <1>0, <1>2 DEF ClientOK, Gone
<1>7. /\ conn'[c].wire = conn[c].wire /\ conn'[c].out = conn[c].out
      /\ conn'[c].fin = conn[c].fin /\ conn'[c].state = "kDisconnected"
  <2>1. conn[c] \in Connection(Datum)
    BY <1>0 DEF TypeOK, Datum
  <2>2. QED
    BY <1>3, <1>4, <2>1 DEF HandleClose, Connection
<1>8. \A g : In(g, batch', queue') => In(g, batch, queue) \/ g = Functor("connectDestroyed", c)
  <2>1. queue \in Seq(Functors) /\ Functor("connectDestroyed", c) \in Functors
    BY <1>0 DEF TypeOK, Functor, Functors
  <2>2. /\ Len(queue') = Len(queue) + 1
        /\ queue'[Len(queue) + 1] = Functor("connectDestroyed", c)
        /\ \A i \in 1..Len(queue) : queue'[i] = queue[i]
        /\ Len(queue) \in Nat
    BY <1>2, <2>1
  <2>3. ASSUME NEW i \in 1..Len(queue') PROVE i \in 1..Len(queue) \/ i = Len(queue) + 1
    BY <2>2
  <2>4. QED
    BY <1>2, <2>2, <2>3 DEF In
<1>9. ClientOK(c)'
  <2>1. WC(c) # Functor("connectDestroyed", c) /\ WC(c)' = WC(c)
    BY DEF WC, Functor
  <2>2. /\ Total(conn[c])' = Total(conn[c]) /\ DataOK(conn[c])'
    BY <1>0, <1>7 DEF ClientOK, DataOK, Total, Drained, Begins
  <2>3. In(WC(c), batch, queue)' => In(WC(c), batch, queue)
    BY <1>8, <2>1 DEF In
  <2>4. version' # 1 /\ (conn'[c].out # <<>> \/ In(WC(c), batch, queue)')
          => Len(Total(conn[c])') = pos'[c]
    BY <1>0, <1>2, <1>3, <1>4, <1>7, <2>2, <2>3 DEF ClientOK
  <2>5. QED
    BY <1>5, <1>6, <2>2, <2>4 DEF ClientOK
<1>10. Advances(StatusOf(c), conn[c].wire, StatusOf(c)', conn'[c].wire)
  <2>1. object[c] # "unborn"
    BY <1>0, <1>6 DEF ClientOK
  <2>2. StatusOf(c) = "left" /\ StatusOf(c)' = "left"
    BY <1>5, <1>6, <2>1 DEF StatusOf
  <2>3. QED
    BY <1>7, <2>2 DEF Advances
<1>11. ASSUME NEW d \in Conn \ {c}
       PROVE  ClientOK(d)' /\ StatusOf(d)' = StatusOf(d) /\ conn'[d].wire = conn[d].wire
  <2>1. In(WC(d), batch', queue') => In(WC(d), batch, queue)
    BY <1>8, QueuedForOne
  <2>2. peer' = peer /\ version' = version
    BY <1>2
  <2>3. QED
    BY <1>0, <1>4, <1>5, <2>1, <2>2, OthersKeep
<1>12. QED
  BY <1>0, <1>9, <1>10, <1>11, OneClient

\* The next state of a client that stays connected or not, from the data.
LEMMA LiveGood ==
  ASSUME TypeOK, TypeOK', NEW c \in Conn, ClientOK(c), object[c] \in {"live", "doomed"},
         object' = object, peer' = peer,
         active'[c] = "readable" => active[c] = "readable",
         DataOK(conn'[c]),
         version' # 1 /\ (conn'[c].out # <<>> \/ In(WC(c), batch', queue')) =>
           Len(Total(conn'[c])) = pos'[c],
         version' = version,
         object[c] = "live" /\ ~Gone(c) => Served(conn'[c], handle'[c], ctx'[c]),
         Len(conn[c].wire) <= Len(conn'[c].wire),
         handle'[c] = "none" <=> handle[c] = "none",
         conn[c].fin => conn'[c].fin /\ conn'[c].wire = conn[c].wire
  PROVE  /\ ClientOK(c)'
         /\ Advances(StatusOf(c), conn[c].wire, StatusOf(c)', conn'[c].wire)
<1>1. Gone(c)' = Gone(c) /\ WC(c)' = WC(c) /\ object'[c] = object[c]
  BY DEF Gone, WC, Functor
<1>2. /\ DataOK(conn[c])' = DataOK(conn'[c]) /\ Total(conn[c])' = Total(conn'[c])
      /\ In(WC(c), batch, queue)' = In(WC(c), batch', queue')
      /\ Served(conn[c], handle[c], ctx[c])' = Served(conn'[c], handle'[c], ctx'[c])
  BY <1>1 DEF DataOK, Total, Drained, Begins, In, Served
<1>3. ClientOK(c)'
  BY <1>1, <1>2 DEF ClientOK
<1>4. conn[c] \in Connection(Datum) /\ conn'[c] \in Connection(Datum)
  BY DEF TypeOK, Datum
<1>5. CASE Gone(c)
  <2>1. StatusOf(c) = "left" /\ StatusOf(c)' = "left"
    BY <1>1, <1>5 DEF StatusOf
  <2>2. Begins(conn'[c].wire)
    BY <1>4, WireBegins DEF DataOK
  <2>3. QED
    BY <1>3, <2>1, <2>2 DEF Advances, Longer
<1>6. CASE ~Gone(c)
  <2>1. object[c] = "live"
    BY <1>6 DEF ClientOK
  <2>2. Served(conn[c], handle[c], ctx[c]) /\ DataOK(conn[c])
    BY <1>6, <2>1 DEF ClientOK
  <2>3. Advances(IF ~conn[c].fin THEN "receiving"
                 ELSE IF handle[c] = "none" THEN "refused" ELSE "finished",
                 conn[c].wire,
                 IF ~conn'[c].fin THEN "receiving"
                 ELSE IF handle'[c] = "none" THEN "refused" ELSE "finished",
                 conn'[c].wire)
    BY <1>4, <1>6, <2>1, <2>2, LiveAdvances
  <2>4. /\ StatusOf(c) = IF ~conn[c].fin THEN "receiving"
                         ELSE IF handle[c] = "none" THEN "refused" ELSE "finished"
        /\ StatusOf(c)' = IF ~conn'[c].fin THEN "receiving"
                          ELSE IF handle'[c] = "none" THEN "refused" ELSE "finished"
    BY <1>1, <1>6, <2>1 DEF StatusOf
  <2>5. QED
    BY <1>3, <2>3, <2>4, Zenon
<1>7. QED
  BY <1>5, <1>6

\* The socket takes more of what is buffered.
LEMMA OnWritableGood ==
  ASSUME DInv, GInv', NEW c \in Conn, OnWritable(c)
  PROVE  Good
<1>0. /\ TypeOK /\ TypeOK' /\ ClientOK(c) /\ \A d \in Conn : ClientOK(d)
      /\ conn[c].state \in StateOf(object[c])
      /\ active[c] # "none" => object[c] = "live"
  BY DEF DInv, GInv, FInv
<1>1. PICK o \in HandleWrite(conn[c])
                 \cup (IF Gone(c) THEN {Outcome(conn[c], FALSE)} ELSE {}) :
        conn' = [conn EXCEPT ![c] = o.conn] /\ queue' = queue \o Completed(c, o.complete)
  BY DEF OnWritable
<1>2. /\ active[c] = "writable" /\ active' = [active EXCEPT ![c] = "none"]
      /\ object[c] = "live"
      /\ UNCHANGED <<version, object, peer, handle, pos, ctx, batch>>
  BY <1>0 DEF OnWritable, files
<1>3. /\ conn'[c] = o.conn /\ active'[c] = "none"
      /\ \A d \in Conn \ {c} : conn'[d] = conn[d] /\ active'[d] = active[d]
  BY <1>0, <1>1, <1>2 DEF TypeOK
<1>4. /\ conn[c] \in Connection(Datum) /\ DataOK(conn[c]) /\ Drained(conn[c])
      /\ Len(conn[c].wire) \in Nat
  <2>1. conn[c] \in Connection(Datum)
    BY <1>0 DEF TypeOK, Datum
  <2>2. conn[c].wire \in Seq(Datum)
    BY <2>1 DEF Connection
  <2>3. QED
    BY <1>0, <2>1, <2>2, LenProperties DEF ClientOK, DataOK
<1>5. \A g : In(g, batch', queue') =>
        In(g, batch, queue) \/ (o.complete /\ version # 1 /\ g = WC(c))
  BY <1>0, <1>1, <1>2, CompletedIn
<1>6. ASSUME NEW d \in Conn \ {c}
      PROVE  ClientOK(d)' /\ StatusOf(d)' = StatusOf(d) /\ conn'[d].wire = conn[d].wire
  <2>1. In(WC(d), batch', queue') => In(WC(d), batch, queue)
    BY <1>5, QueuedForOne
  <2>2. QED
    BY <1>0, <1>2, <1>3, <2>1, OthersKeep
<1>7. CASE o \in HandleWrite(conn[c])
  <2>1. conn[c].out # <<>> /\ ~conn[c].fin
    BY <1>4, <1>7, HandleWriteShrinks DEF Drained
  <2>2. o.conn \in Connection(Datum) /\ o.conn.state = conn[c].state
    BY <1>4, <1>7, HandleWriteType
  <2>3. /\ Total(o.conn) = Total(conn[c]) /\ Drained(o.conn)
        /\ o.conn.fin => conn[c].state = "kDisconnecting"
    BY <1>4, <1>7, HandleWriteTotal
  <2>4. Len(conn[c].wire) <= Len(o.conn.wire)
    BY <1>4, <1>7, HandleWriteGrows
  <2>5. DataOK(o.conn)
    BY <1>4, <2>2, <2>3 DEF DataOK
  <2>6. version # 1 => Len(Total(o.conn)) = pos[c]
    BY <1>0, <2>1, <2>3 DEF ClientOK
  <2>7. ~Gone(c) => Served(o.conn, handle[c], ctx[c])
    <3>1. ASSUME ~Gone(c) PROVE Served(conn[c], handle[c], ctx[c])
      BY <1>0, <1>2, <3>1 DEF ClientOK
    <3>2. QED
      BY <2>1, <2>2, <2>3, <3>1 DEF Served
  <2>8. /\ ClientOK(c)'
        /\ Advances(StatusOf(c), conn[c].wire, StatusOf(c)', conn'[c].wire)
    BY <1>0, <1>2, <1>3, <2>1, <2>4, <2>5, <2>6, <2>7, LiveGood
  <2>9. QED
    BY <1>0, <1>6, <2>8, OneClient
<1>8. CASE o = Outcome(conn[c], FALSE)
  <2>1. o.conn = conn[c] /\ ~o.complete
    BY <1>8 DEF Outcome
  <2>2. In(WC(c), batch', queue') => In(WC(c), batch, queue)
    BY <1>5, <2>1
  <2>3. /\ ClientOK(c)' /\ StatusOf(c)' = StatusOf(c) /\ conn'[c].wire = conn[c].wire
    BY <1>0, <1>2, <1>3, <2>1, <2>2, OthersKeep
  <2>4. Advances(StatusOf(c), conn[c].wire, StatusOf(c)', conn'[c].wire)
    BY <2>3 DEF Advances
  <2>5. QED
    BY <1>0, <1>6, <2>3, <2>4, OneClient
<1>9. QED
  BY <1>1, <1>7, <1>8

\* The write-complete callback runs, on a connection that may be down.
LEMMA RunWriteCompleteGood ==
  ASSUME DInv, GInv', NEW c \in Conn, RunWriteComplete(c)
  PROVE  Good
<1>0. /\ TypeOK /\ TypeOK' /\ ClientOK(c) /\ \A d \in Conn : ClientOK(d)
      /\ conn[c].state \in StateOf(object[c]) /\ FlightOK(c)
      /\ FileOK(version, object[c], handle[c], ctx[c])
      /\ WaitsOnce(batch, queue) /\ QueueOK(batch, queue, object)
  BY DEF DInv, GInv, FInv
<1>1. PICK r \in OnWriteComplete(c) :
        Take(c, r) /\ queue' = queue \o Completed(c, r.complete)
  BY DEF RunWriteComplete
<1>2. /\ batch # <<>> /\ Head(batch) = WC(c) /\ batch' = Tail(batch)
      /\ UNCHANGED <<version, object, peer, active>>
  BY DEF RunWriteComplete, WC
<1>3. /\ conn'[c] = r.conn /\ handle'[c] = r.handle
      /\ pos'[c] = r.pos /\ ctx'[c] = r.ctx
      /\ \A d \in Conn \ {c} : /\ conn'[d] = conn[d] /\ handle'[d] = handle[d]
                               /\ pos'[d] = pos[d] /\ ctx'[d] = ctx[d]
  BY <1>0, <1>1, TakenByOne
<1>4. In(WC(c), batch, queue)
  <2>1. batch[1] = Head(batch) /\ 1 \in 1..Len(batch)
    BY <1>0, <1>2, EmptySeq DEF TypeOK
  <2>2. QED
    BY <1>2, <2>1 DEF In
<1>5. /\ conn[c].out = <<>> /\ object[c] \in {"live", "doomed"}
      /\ version # 1 => Len(Total(conn[c])) = pos[c]
  <2>1. FunctorOK(WC(c), object)
    BY <1>0, <1>4, WaitingIsOK
  <2>2. QED
    BY <1>0, <1>4, <2>1 DEF FlightOK, FunctorOK, ClientOK, WC, Functor
<1>6. /\ DataOK(conn[c]) /\ (object[c] = "doomed" => Gone(c))
      /\ ~Gone(c) => Served(conn[c], handle[c], ctx[c])
  BY <1>0, <1>5 DEF ClientOK
<1>7. /\ DataOK(r.conn)
      /\ version # 1 /\ (r.conn.out # <<>> \/ r.complete) => Len(Total(r.conn)) = r.pos
      /\ ~Gone(c) => Served(r.conn, r.handle, r.ctx)
      /\ Len(conn[c].wire) <= Len(r.conn.wire)
      /\ r.handle = "none" <=> handle[c] = "none"
      /\ conn[c].fin => r.conn.fin /\ r.conn.wire = conn[c].wire
  BY <1>0, <1>1, <1>5, <1>6, WriteCompleteData
<1>8. /\ \A g : In(g, batch', queue) => In(g, batch, queue) /\ Differ(WC(c), g)
      /\ \A g : In(g, batch', queue') =>
           In(g, batch', queue) \/ (r.complete /\ version # 1 /\ g = WC(c))
  <2>1. batch \in Seq(Functors) /\ queue \in Seq(Functors)
    BY <1>0 DEF TypeOK
  <2>2. \A g : In(g, batch', queue) => In(g, batch, queue) /\ Differ(WC(c), g)
    BY <1>0, <1>2, <2>1, DropOnce
  <2>3. QED
    BY <1>0, <1>1, <2>2, CompletedIn
<1>9. In(WC(c), batch', queue') => r.complete
  <2>1. ~Differ(WC(c), WC(c))
    BY DEF Differ, WC, Functor
  <2>2. QED
    BY <1>8, <2>1
<1>10. /\ ClientOK(c)'
       /\ Advances(StatusOf(c), conn[c].wire, StatusOf(c)', conn'[c].wire)
  BY <1>0, <1>2, <1>3, <1>5, <1>7, <1>9, LiveGood
<1>11. ASSUME NEW d \in Conn \ {c}
       PROVE  ClientOK(d)' /\ StatusOf(d)' = StatusOf(d) /\ conn'[d].wire = conn[d].wire
  <2>1. In(WC(d), batch', queue') => In(WC(d), batch, queue)
    BY <1>8, QueuedForOne
  <2>2. QED
    BY <1>0, <1>2, <1>3, <2>1, OthersKeep
<1>12. QED
  BY <1>0, <1>10, <1>11, OneClient

\* The last reference to a connection is dropped: its client has left.
LEMMA ConnectDestroyedGood ==
  ASSUME DInv, GInv', NEW c \in Conn, ConnectDestroyed(c)
  PROVE  Good
<1>0. /\ TypeOK /\ TypeOK' /\ ClientOK(c) /\ \A d \in Conn : ClientOK(d)
      /\ WaitsOnce(batch, queue) /\ QueueOK(batch, queue, object)
      /\ batch \in Seq(Functors) /\ queue \in Seq(Functors)
  BY DEF DInv, GInv, FInv, TypeOK
<1>1. /\ batch # <<>> /\ Head(batch) = Functor("connectDestroyed", c)
      /\ batch' = Tail(batch) /\ object' = [object EXCEPT ![c] = "freed"]
      /\ UNCHANGED <<version, conn, peer, pos, ctx, active, queue>>
      /\ \A d \in Conn \ {c} : handle'[d] = handle[d]
  BY <1>0 DEF ConnectDestroyed, TypeOK
<1>2. object'[c] = "freed" /\ \A d \in Conn \ {c} : object'[d] = object[d]
  BY <1>0, <1>1 DEF TypeOK
<1>3. \A g : In(g, batch', queue') => In(g, batch, queue)
  BY <1>0, <1>1, DropOnce
<1>4. Gone(c) /\ Gone(c)' /\ object[c] # "unborn"
  <2>1. FunctorOK(Functor("connectDestroyed", c), object)
    BY <1>0, <1>1, DropHead
  <2>2. object[c] = "doomed"
    BY <2>1 DEF FunctorOK, Functor
  <2>3. QED
    BY <1>0, <1>1, <2>2 DEF ClientOK, Gone
<1>5. ClientOK(c)'
  <2>1. /\ DataOK(conn[c])' = DataOK(conn[c]) /\ Total(conn[c])' = Total(conn[c])
        /\ WC(c)' = WC(c)
    BY <1>1 DEF DataOK, Total, Drained, Begins, WC, Functor
  <2>2. In(WC(c), batch, queue)' => In(WC(c), batch, queue)
    BY <1>3, <2>1 DEF In
  <2>3. QED
    BY <1>0, <1>1, <1>2, <1>4, <2>1, <2>2 DEF ClientOK
<1>6. Advances(StatusOf(c), conn[c].wire, StatusOf(c)', conn'[c].wire)
  BY <1>1, <1>2, <1>4 DEF StatusOf, Advances
<1>7. ASSUME NEW d \in Conn \ {c}
      PROVE  ClientOK(d)' /\ StatusOf(d)' = StatusOf(d) /\ conn'[d].wire = conn[d].wire
  BY <1>0, <1>1, <1>2, <1>3, OthersKeep
<1>8. QED
  BY <1>0, <1>5, <1>6, <1>7, OneClient

\* A client leaves.
LEMMA PeerCloseGood ==
  ASSUME DInv, GInv', NEW c \in Conn, PeerClose(c)
  PROVE  Good
<1>0. /\ TypeOK /\ TypeOK' /\ ClientOK(c) /\ \A d \in Conn : ClientOK(d)
  BY DEF DInv, GInv, FInv
<1>1. /\ object[c] = "live" /\ ~Gone(c) /\ peer' = [peer EXCEPT ![c] = "closed"]
      /\ UNCHANGED <<version, conn, object, handle, pos, ctx, active, queue, batch>>
  BY DEF PeerClose, files, loop
<1>2. Gone(c)' /\ \A d \in Conn \ {c} : peer'[d] = peer[d]
  BY <1>0, <1>1 DEF TypeOK, Gone
<1>3. ClientOK(c)'
  <2>1. /\ DataOK(conn[c])' = DataOK(conn[c]) /\ Total(conn[c])' = Total(conn[c])
        /\ WC(c)' = WC(c)
    BY <1>1 DEF DataOK, Total, Drained, Begins, WC, Functor
  <2>2. In(WC(c), batch, queue)' => In(WC(c), batch, queue)
    BY <1>1, <2>1 DEF In
  <2>3. QED
    BY <1>0, <1>1, <1>2, <2>1, <2>2 DEF ClientOK
<1>4. Advances(StatusOf(c), conn[c].wire, StatusOf(c)', conn'[c].wire)
  BY <1>1, <1>2 DEF StatusOf, Advances
<1>5. ASSUME NEW d \in Conn \ {c}
      PROVE  ClientOK(d)' /\ StatusOf(d)' = StatusOf(d) /\ conn'[d].wire = conn[d].wire
  BY <1>0, <1>1, <1>2, OthersKeep
<1>6. QED
  BY <1>0, <1>3, <1>4, <1>5, OneClient

\* The loop goes round, or nothing happens.
LEMMA LoopGood ==
  ASSUME DInv, GInv',
         (\E W \in SUBSET Conn : Poll(W)) \/ DoPendingFunctors \/ UNCHANGED vars
  PROVE  Good
<1>0. TypeOK /\ TypeOK' /\ (\A d \in Conn : ClientOK(d)) /\ (phase = "events" => batch = <<>>)
  BY DEF DInv, GInv, FInv
<1>1. UNCHANGED <<version, conn, object, peer, handle, pos, ctx>>
  BY DEF Poll, DoPendingFunctors, vars, sockets, files
<1>2. \A g : In(g, batch', queue') => In(g, batch, queue)
  <2>1. CASE UNCHANGED <<queue, batch>>
    BY <2>1 DEF In
  <2>2. CASE DoPendingFunctors
    <3>1. batch' = queue /\ queue' = <<>> /\ Len(queue') = 0
      BY <2>2 DEF DoPendingFunctors
    <3>2. QED
      BY <3>1 DEF In
  <2>3. QED
    BY <2>1, <2>2 DEF Poll, vars, loop
<1>3. ASSUME NEW d \in Conn PROVE active'[d] = "readable" => active[d] = "readable" \/ Gone(d)
  BY DEF Poll, DoPendingFunctors, vars, loop
<1>4. ASSUME NEW d \in Conn
      PROVE  ClientOK(d)' /\ StatusOf(d)' = StatusOf(d) /\ conn'[d].wire = conn[d].wire
  BY <1>0, <1>1, <1>2, <1>3, OthersKeep
<1>5. UNCHANGED Delivery!vars
  <2>1. [d \in Conn |-> StatusOf(d)]' = [d \in Conn |-> StatusOf(d)]
    BY <1>4
  <2>2. [d \in Conn |-> conn[d].wire]' = [d \in Conn |-> conn[d].wire]
    BY <1>1
  <2>3. QED
    BY <2>1, <2>2 DEF StatusOf, Delivery!vars
<1>6. QED
  BY <1>4, <1>5 DEF Good

\* Every step keeps the invariant and is a step of the delivery, or none.
LEMMA DStep == DInv /\ [Next]_vars => DInv' /\ [Delivery!Next]_(Delivery!vars)
<1> SUFFICES ASSUME DInv, [Next]_vars
             PROVE  DInv' /\ [Delivery!Next]_(Delivery!vars)
  OBVIOUS
<1>1. GInv'
  BY GInvStep DEF DInv
<1>2. Good
  BY <1>1, AcceptGood, OnDownGood, OnWritableGood, RunWriteCompleteGood,
     ConnectDestroyedGood, PeerCloseGood, LoopGood DEF Next
<1>3. QED
  BY <1>1, <1>2 DEF Good, DInv

\* Before the first client nothing was sent.
LEMMA DInit == Init => DInv /\ Delivery!Init
<1> SUFFICES ASSUME Init PROVE DInv /\ Delivery!Init
  OBVIOUS
<1>1. GInv
  BY GInvInit
<1>2. /\ Connecting.wire = <<>> /\ Connecting.out = <<>> /\ ~Connecting.fin
      /\ Total(Connecting) = <<>> /\ Drained(Connecting) /\ Len(<<>>) = 0
  BY DEF Connecting, Total, Drained
<1>3. DataOK(Connecting)
  BY <1>2, LengthAssumption DEF DataOK, Begins
<1>4. ASSUME NEW c \in Conn PROVE ClientOK(c) /\ StatusOf(c) = "new" /\ conn[c].wire = <<>>
  <2>1. /\ object[c] = "unborn" /\ conn[c] = Connecting /\ active[c] = "none"
        /\ peer[c] = "open" /\ Len(batch) = 0 /\ Len(queue) = 0
    BY <1>2 DEF Init
  <2>2. ~In(WC(c), batch, queue)
    BY <2>1 DEF In
  <2>3. QED
    BY <1>2, <1>3, <2>1, <2>2 DEF ClientOK, StatusOf, Gone
<1>5. QED
  BY <1>1, <1>4 DEF DInv, StatusOf, Delivery!Init

\* Each version implements the delivery: whatever the sockets take and whenever
\* clients leave, a client is sent longer and longer beginnings of the file,
\* and end-of-file only after all of it (the safety part of Delivers).
THEOREM ServersDeliver == Spec => DeliverySafety
BY DInit, DStep, PTL DEF Spec, DeliverySafety
-----------------------------------------------------------------------------
(* Files are closed once.                                                  *)

\* Version 2: the file is open until the server ends the delivery; a file
\* that its context outlives was closed because the client left before that.
EndsOnce(k, h, x) ==
  /\ h = "open" => k.state = "kConnected" /\ ~k.fin
  /\ h = "twice" \/ (h = "closed" /\ x = "file") => k.state = "kDisconnected" /\ ~k.fin

CInv == DInv /\ (version = 2 => \A c \in Conn : EndsOnce(conn[c], handle[c], ctx[c]))

\* A connection that starts.
LEMMA UpEndsOnce ==
  ASSUME TypeOK, version = 2, NEW c \in Conn, conn[c] = Connecting,
         NEW found \in BOOLEAN, NEW r \in OnConnectionUp(c, found)
  PROVE  EndsOnce(r.conn, r.handle, r.ctx)
<1> DEFINE k == ConnectEstablished(conn[c])
<1>1. k \in Connection(Datum) /\ k.state = "kConnected" /\ ~k.fin
  <2>1. conn[c] \in Connection(Datum) /\ ~Connecting.fin
    BY DEF TypeOK, Datum, Connecting
  <2>2. ~conn[c].fin
    BY <2>1, Zenon
  <2>3. QED
    BY <2>1, <2>2 DEF ConnectEstablished, Connection, ConnState
<1>2. r \in V2Up(k, Gone(c), found)
  BY DEF OnConnectionUp
<1> HIDE DEF k
<1>3. CASE ~found
  BY <1>2, <1>3 DEF V2Up, NoFile, Result, EndsOnce
<1>4. CASE found /\ FileLen = 0
  BY <1>1, <1>2, <1>4 DEF V2Up, Result, EndsOnce
<1>5. CASE found /\ FileLen # 0
  <2>1. PICK o \in Send(k, Chunk(0), Gone(c)) :
          r = Result(o.conn, "open", NextPos(0), "file", o.complete)
    BY <1>2, <1>5 DEF V2Up, SendChunk
  <2>2. Chunk(0) \in Seq(Datum)
    BY ChunkType, LengthAssumption
  <2>3. o.conn.state = "kConnected" /\ ~o.conn.fin
    BY <1>1, <2>1, <2>2, SendType
  <2>4. QED
    BY <2>1, <2>3 DEF Result, EndsOnce
<1>6. QED
  BY <1>3, <1>4, <1>5

\* A connection that ends.
LEMMA DownEndsOnce ==
  ASSUME TypeOK, version = 2, NEW c \in Conn, FileOK(2, "live", handle[c], ctx[c]),
         EndsOnce(conn[c], handle[c], ctx[c]), NEW r \in OnConnectionDown(c)
  PROVE  EndsOnce(r.conn, r.handle, r.ctx)
<1> DEFINE k == HandleClose(conn[c])
<1>1. k.state = "kDisconnected" /\ k.fin = conn[c].fin
  BY DEF HandleClose, TypeOK, Connection, ConnState
<1>2. r = Result(k, IF ctx[c] = "file" THEN Closed(handle[c]) ELSE handle[c],
                 pos[c], ctx[c], FALSE)
  BY DEF OnConnectionDown, V2Down
<1> HIDE DEF k
<1>3. QED
  BY <1>1, <1>2 DEF Result, Closed, FileOK, EndsOnce

\* The callback: it ends an open file once, and may end a closed one again.
LEMMA WriteCompleteEndsOnce ==
  ASSUME TypeOK, version = 2, NEW c \in Conn, NEW o \in {"live", "doomed"},
         FileOK(2, o, handle[c], ctx[c]), EndsOnce(conn[c], handle[c], ctx[c]),
         NEW r \in OnWriteComplete(c)
  PROVE  EndsOnce(r.conn, r.handle, r.ctx)
<1> DEFINE k == conn[c]
           h == handle[c]
           p == pos[c]
           x == ctx[c]
<1>1. /\ k \in Connection(Datum) /\ p \in 0..FileLen
      /\ h \in {"none", "open", "closed", "twice"} /\ x \in {"empty", "file", "null"}
      /\ FileOK(2, o, h, x) /\ EndsOnce(k, h, x)
      /\ r \in V2WriteComplete(k, Gone(c), h, p, x)
  BY DEF TypeOK, Datum, OnWriteComplete
<1> HIDE DEF k, h, p, x
<1>2. ASSUME NEW m \in SendChunk(k, Gone(c), p)
      PROVE  /\ m.conn.state = k.state /\ m.conn.fin = k.fin /\ m.ctx = "file"
             /\ m = Result(m.conn, "open", m.pos, "file", m.complete)
  <2>1. PICK e \in Send(k, Chunk(p), Gone(c)) :
          m = Result(e.conn, "open", NextPos(p), "file", e.complete)
    BY <1>2 DEF SendChunk
  <2>2. e.conn.state = k.state /\ e.conn.fin = k.fin
    BY <1>1, <2>1, ChunkType, SendType
  <2>3. QED
    BY <2>1, <2>2 DEF Result
<1>3. CASE x # "file"
  <2>1. r = Result(k, h, p, x, FALSE)
    BY <1>1, <1>3 DEF V2WriteComplete
  <2>2. r.conn = k /\ r.handle = h /\ r.ctx = x
    BY <2>1 DEF Result
  <2>3. QED
    BY <1>1, <2>2
<1>4. CASE x = "file" /\ h = "open"
  <2>1. \/ r \in SendChunk(k, Gone(c), p)
        \/ r = Result(Shutdown(k), "closed", p, "null", FALSE)
    BY <1>1, <1>4 DEF V2WriteComplete, Closed
  <2>2. CASE r \in SendChunk(k, Gone(c), p)
    <3>1. r.handle = "open" /\ r.conn.state = k.state /\ r.conn.fin = k.fin
      BY <1>2, <2>2 DEF Result
    <3>2. QED
      BY <1>1, <1>4, <3>1 DEF EndsOnce
  <2>3. CASE r = Result(Shutdown(k), "closed", p, "null", FALSE)
    BY <2>3 DEF Result, EndsOnce
  <2>4. QED
    BY <2>1, <2>2, <2>3
<1>5. CASE x = "file" /\ h = "closed"
  <2>1. k.state = "kDisconnected" /\ ~k.fin /\ Shutdown(k) = k
    BY <1>1, <1>5, ShutdownType DEF EndsOnce
  <2>2. \/ \E m \in SendChunk(k, Gone(c), p) : r = [m EXCEPT !.handle = h]
        \/ r = Result(Shutdown(k), "twice", p, "null", FALSE)
    BY <1>1, <1>5 DEF V2WriteComplete, Closed
  <2>3. ASSUME NEW m \in SendChunk(k, Gone(c), p), r = [m EXCEPT !.handle = h]
        PROVE  EndsOnce(r.conn, r.handle, r.ctx)
    <3>1. r = Result(m.conn, h, m.pos, "file", m.complete)
      BY <1>2, <2>3 DEF Result
    <3>2. r.conn = m.conn /\ r.handle = h
      BY <3>1 DEF Result
    <3>3. QED
      BY <1>2, <1>5, <2>1, <3>2 DEF EndsOnce
  <2>4. CASE r = Result(Shutdown(k), "twice", p, "null", FALSE)
    BY <2>1, <2>4 DEF Result, EndsOnce
  <2>5. QED
    BY <2>2, <2>3, <2>4
<1>6. QED
  BY <1>1, <1>3, <1>4, <1>5 DEF FileOK

\* Every step of version 2 keeps what is known of closed files.
LEMMA CInvStep == CInv /\ [Next]_vars => CInv'
<1> SUFFICES ASSUME CInv, [Next]_vars PROVE CInv'
  OBVIOUS
<1>1. DInv' /\ DInv /\ FInv /\ TypeOK /\ version' = version
  BY DStep DEF CInv, DInv, GInv, FInv, Next, vars, Poll, DoPendingFunctors, Accept,
               OnDown, OnWritable, RunWriteComplete, ConnectDestroyed, PeerClose
<1> SUFFICES ASSUME version = 2, NEW d \in Conn
             PROVE  EndsOnce(conn'[d], handle'[d], ctx'[d])
  BY <1>1 DEF CInv, EndsOnce
<1>2. /\ EndsOnce(conn[d], handle[d], ctx[d]) /\ ClientOK(d)
      /\ conn[d].state \in StateOf(object[d])
      /\ FileOK(2, object[d], handle[d], ctx[d])
      /\ active[d] # "none" => object[d] = "live"
  BY <1>1 DEF CInv, DInv, FInv
<1>3. CASE conn'[d] = conn[d] /\ handle'[d] = handle[d] /\ ctx'[d] = ctx[d]
  BY <1>2, <1>3 DEF EndsOnce
<1>4. ASSUME NEW c \in Conn, NEW r, Take(c, r), c # d \/ EndsOnce(r.conn, r.handle, r.ctx)
      PROVE  EndsOnce(conn'[d], handle'[d], ctx'[d])
  <2>1. /\ conn'[c] = r.conn /\ handle'[c] = r.handle /\ ctx'[c] = r.ctx
        /\ c # d => conn'[d] = conn[d] /\ handle'[d] = handle[d] /\ ctx'[d] = ctx[d]
    BY <1>1, <1>4, TakenByOne
  <2>2. CASE c = d
    BY <1>4, <2>1, <2>2 DEF EndsOnce
  <2>3. QED
    BY <1>3, <2>1, <2>2
<1>5. ASSUME NEW c \in Conn, Accept(c) PROVE EndsOnce(conn'[d], handle'[d], ctx'[d])
  <2>1. PICK found \in BOOLEAN : \E r \in OnConnectionUp(c, found) : Take(c, r)
    BY <1>5 DEF Accept
  <2>2. PICK r \in OnConnectionUp(c, found) : Take(c, r)
    BY <2>1
  <2>3. ClientOK(c) /\ object[c] = "unborn"
    BY <1>1, <1>5 DEF Accept, DInv
  <2>4. conn[c] = Connecting
    BY <2>3 DEF ClientOK
  <2>5. EndsOnce(r.conn, r.handle, r.ctx)
    BY <1>1, <2>4, UpEndsOnce
  <2>6. QED
    BY <1>4, <2>2, <2>5
<1>6. ASSUME NEW c \in Conn, OnDown(c) PROVE EndsOnce(conn'[d], handle'[d], ctx'[d])
  <2>1. PICK r \in OnConnectionDown(c) : Take(c, r)
    BY <1>6 DEF OnDown
  <2>2. c = d => EndsOnce(r.conn, r.handle, r.ctx)
    <3>1. active[c] # "none"
      BY <1>6 DEF OnDown
    <3>2. QED
      BY <1>1, <1>2, <3>1, DownEndsOnce
  <2>3. QED
    BY <1>4, <2>1, <2>2
<1>7. ASSUME NEW c \in Conn, OnWritable(c) PROVE EndsOnce(conn'[d], handle'[d], ctx'[d])
  <2>1. /\ handle' = handle /\ ctx' = ctx /\ active[c] = "writable"
    BY <1>7 DEF OnWritable, files
  <2>2. PICK o \in HandleWrite(conn[c])
                   \cup (IF Gone(c) THEN {Outcome(conn[c], FALSE)} ELSE {}) :
          conn' = [conn EXCEPT ![c] = o.conn]
    BY <1>7 DEF OnWritable
  <2>3. /\ conn'[c] = o.conn
        /\ c # d => conn'[d] = conn[d]
    BY <1>1, <2>2 DEF TypeOK
  <2>4. CASE c = d /\ o \in HandleWrite(conn[c])
    <3>1. conn[d] \in Connection(Datum) /\ Drained(conn[d]) /\ object[d] = "live"
      BY <1>1, <1>2, <2>1, <2>4 DEF TypeOK, Datum, ClientOK, DataOK
    <3>2. conn[d].state # "kDisconnected"
      BY <1>2, <3>1 DEF StateOf
    <3>3. o.conn.state = conn[d].state /\ (o.conn.fin => conn[d].state = "kDisconnecting")
      BY <2>4, <3>1, HandleWriteType, HandleWriteTotal
    <3>4. QED
      BY <1>2, <2>1, <2>3, <2>4, <3>2, <3>3 DEF EndsOnce
  <2>5. CASE c = d /\ o = Outcome(conn[c], FALSE)
    <3>1. o.conn = conn[c]
      BY <2>5 DEF Outcome
    <3>2. QED
      BY <1>3, <2>1, <2>3, <2>5, <3>1
  <2>6. QED
    BY <1>3, <2>1, <2>2, <2>3, <2>4, <2>5
<1>8. ASSUME NEW c \in Conn, RunWriteComplete(c)
      PROVE  EndsOnce(conn'[d], handle'[d], ctx'[d])
  <2>1. PICK r \in OnWriteComplete(c) : Take(c, r)
    BY <1>8 DEF RunWriteComplete
  <2>2. object[c] \in {"live", "doomed"}
    <3>1. /\ batch \in Seq(Functors) /\ queue \in Seq(Functors)
          /\ QueueOK(batch, queue, object) /\ batch # <<>>
          /\ Head(batch) = Functor("writeComplete", c)
      BY <1>1, <1>8 DEF RunWriteComplete, FInv, TypeOK
    <3>2. FunctorOK(Functor("writeComplete", c), object)
      BY <3>1, DropHead
    <3>3. QED
      BY <3>2 DEF FunctorOK, Functor
  <2>3. c = d => EndsOnce(r.conn, r.handle, r.ctx)
    BY <1>1, <1>2, <2>2, WriteCompleteEndsOnce
  <2>4. QED
    BY <1>4, <2>1, <2>3
<1>9. ASSUME \/ \E c \in Conn : ConnectDestroyed(c) \/ PeerClose(c)
             \/ \E W \in SUBSET Conn : Poll(W)
             \/ DoPendingFunctors
             \/ UNCHANGED vars
      PROVE  EndsOnce(conn'[d], handle'[d], ctx'[d])
  <2>1. UNCHANGED <<conn, handle, ctx>>
    BY <1>9 DEF ConnectDestroyed, PeerClose, Poll, DoPendingFunctors, vars, sockets, files
  <2>2. QED
    BY <1>3, <2>1
<1>10. QED
  BY <1>5, <1>6, <1>7, <1>8, <1>9 DEF Next

\* When a connection is released no functor can still run on it and its file
\* is closed, and closed once, for any number of clients and however its end
\* is interleaved; in version 2 a client that left early may have it closed
\* again.
THEOREM LeavesNothing == Spec => []NothingLeftBehind
<1>1. Init => CInv
  BY DInit DEF CInv, EndsOnce, Init
<1>2. ASSUME CInv, NEW c \in Conn, object[c] = "freed"
      PROVE  /\ handle[c] # "open"
             /\ handle[c] = "twice" => version = 2 /\ ~conn[c].fin
             /\ Pending(c, "writeComplete") = {} /\ Pending(c, "connectDestroyed") = {}
  <2>1. FInv /\ version \in 1..3 /\ FileOK(version, "freed", handle[c], ctx[c])
    BY <1>2, VersionsAssumption DEF CInv, DInv, GInv, FInv, TypeOK
  <2>2. handle[c] # "open"
    BY <2>1 DEF FileOK
  <2>3. handle[c] = "twice" => version = 2 /\ ~conn[c].fin
    BY <1>2, <2>1 DEF CInv, FileOK, EndsOnce
  <2>4. QED
    BY <1>2, <2>1, <2>2, <2>3, PendingIsAlive
<1>3. CInv => NothingLeftBehind
  BY <1>2 DEF NothingLeftBehind
<1>4. QED
  BY <1>1, <1>3, CInvStep, PTL DEF Spec
=============================================================================
