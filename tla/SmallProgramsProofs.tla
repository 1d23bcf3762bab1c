-------------------------- MODULE SmallProgramsProofs --------------------------
(***************************************************************************)
(* Theorems about three small programs that have nothing to do with each   *)
(* other: the servers and the client of OneShot, the Reactor, and the      *)
(* EpollDemo.                                                              *)
(*                                                                         *)
(* The one reply of the servers is whole, for any lengths, any number of   *)
(* lines and any way the input is cut; and the time client reads the time  *)
(* that was sent, for any byte and any seconds.  The reactor loses no line *)
(* and leaves one behind only as Reactor says.  The epoll server's calls on*)
(* blocking sockets never wait, and what one accept and one recv for each  *)
(* edge leave behind is exactly what EpollDemo says.                       *)
(***************************************************************************)
EXTENDS OneShot, Reactor, EpollDemo, SharedLemmas

Programs == {"time", "daytime", "finger03", "finger04", "finger05", "finger06"}

\* What a reply is made of.
Unit == {HostToNetwork32(t)[i] : t \in Times, i \in 1..4}
          \cup {"t", "e", "x", "CR", "LF"}

TypeInv ==
  /\ program \in Programs /\ clock \in Times
  /\ conn \in Connection(Unit)
  /\ client \in {"new", "up", "done", "left"}
  /\ sent \in Seq(Name)

\* The reply that a client is owed.
Owed == ReplyTo(IF Waits THEN sent[1] ELSE "")

Starting == conn.state \in {"kConnecting", "kConnected"}

\* Before the server speaks nothing is sent and no line was found; when it has
\* spoken, a client that is there was told its whole reply.
Inv ==
  /\ TypeInv
  /\ Drained(conn)
  /\ Starting => Total(conn) = <<>> /\ ~conn.fin /\ (Waits => kept = 0)
  /\ ~Starting /\ client # "left" =>
       Total(conn) = Owed /\ (Waits => sent # <<>>)
  /\ client = "done" => conn.fin

\* A reply is a sequence of units.
LEMMA ReplyType ==
  ASSUME program \in Programs, clock \in Times, NEW name
  PROVE  ReplyTo(name) \in Seq(Unit)
<1>1. HostToNetwork32(clock) \in Seq(Unit)
  <2> DEFINE h == HostToNetwork32(clock)
  <2>1. h[1] \in Unit /\ h[2] \in Unit /\ h[3] \in Unit /\ h[4] \in Unit
    BY DEF Unit
  <2>2. h = <<h[1], h[2], h[3], h[4]>>
    BY DEF HostToNetwork32
  <2> HIDE DEF h
  <2>3. <<h[1], h[2], h[3], h[4]>> \in Seq(Unit)
    BY <2>1
  <2>4. h \in Seq(Unit)
    BY <2>2, <2>3, Zenon
  <2>5. QED
    BY <2>4 DEF h
<1>2. "t" \in Unit /\ "e" \in Unit /\ "x" \in Unit /\ "CR" \in Unit /\ "LF" \in Unit
  BY DEF Unit
<1> HIDE DEF Unit
<1>3. Text \in Seq(Unit) /\ CRLF \in Seq(Unit) /\ <<>> \in Seq(Unit)
  BY <1>2 DEF Text, CRLF
<1>4. GetUser(name) \o CRLF \in Seq(Unit)
  <2>1. GetUser(name) \in Seq(Unit)
    BY <1>3 DEF GetUser
  <2>2. QED
    BY <1>3, <2>1, ConcatProperties
<1>5. QED
  BY <1>1, <1>3, <1>4 DEF ReplyTo, Programs

\* As long as nothing was retrieved, the first line is the first one found.
LEMMA FirstLineIsFirst ==
  ASSUME TypeInv, NEW g \in Nat, kept = 0, FindCRLF(g)
  PROVE  FirstLine(g) = 1 /\ sent # <<>>
<1> DEFINE Found(n) == /\ kept < n * LineLen - 1 /\ n * LineLen <= g
                       /\ \A m \in 1..(n - 1) : m * LineLen - 1 <= kept
<1>1. LineLen \in Nat /\ LineLen >= 2 /\ Len(sent) \in Nat
  BY OneShotAssumption, LenProperties DEF TypeInv
<1>2. PICK n \in 1..Len(sent) : n * LineLen <= g
  BY DEF FindCRLF
<1>3. 1 * LineLen = LineLen /\ LineLen <= n * LineLen
  <2>1. n \in Nat /\ n >= 1
    BY <1>1
  <2>2. n * LineLen = LineLen + (n - 1) * LineLen
    BY <1>1, <2>1
  <2>3. (n - 1) * LineLen \in Nat
    BY <1>1, <2>1
  <2>4. QED
    BY <1>1, <2>2, <2>3
<1>4. 1 \in 1..Len(sent) /\ Found(1)
  BY <1>1, <1>2, <1>3
<1>5. ASSUME NEW m \in 1..Len(sent), Found(m) PROVE m = 1
  <2>1. m > 1 => 1 \in 1..(m - 1)
    BY <1>1
  <2>2. ~(1 * LineLen - 1 <= kept)
    BY <1>1, <1>3
  <2>3. QED
    BY <1>1, <1>5, <2>1, <2>2
<1>6. FirstLine(g) = 1
  BY <1>4, <1>5 DEF FirstLine
<1>7. sent # <<>>
  BY <1>1, <1>2
<1>8. QED
  BY <1>6, <1>7

\* What the server makes of a connection on which nothing was sent: it has
\* the whole reply, unless the client is gone, and is being shut down.
LEMMA SayResult ==
  ASSUME TypeInv, NEW k \in Connection(Unit), k.state = "kConnected", ~k.fin,
         Total(k) = <<>>, NEW name, NEW r \in Say(k, name)
  PROVE  /\ r \in Connection(Unit) /\ r.state = "kDisconnecting" /\ Drained(r)
         /\ ~Gone => Total(r) = ReplyTo(name)
<1>1. PICK o \in Send(k, ReplyTo(name), Gone) : r = Shutdown(o.conn)
  BY DEF Say
<1>2. ReplyTo(name) \in Seq(Unit)
  BY ReplyType DEF TypeInv
<1>3. /\ o.conn \in Connection(Unit) /\ o.conn.state = "kConnected"
      /\ Drained(o.conn)
  BY <1>2, SendType DEF Drained
<1>4. /\ r \in Connection(Unit) /\ r.state = "kDisconnecting"
      /\ Drained(r) /\ Total(r) = Total(o.conn)
  BY <1>1, <1>3, ShutdownType, ShutdownTotal
<1>5. ASSUME ~Gone PROVE Total(o.conn) = ReplyTo(name)
  <2>1. Total(o.conn) = Total(k) \o ReplyTo(name)
    BY <1>2, <1>5, SendTotal
  <2>2. ASSUME NEW q, q = ReplyTo(name) PROVE <<>> \o q = q
    BY <1>2, <2>2, ConcatEmptySeq
  <2>3. QED
    BY <2>1, <2>2, Zenon
<1>6. QED
  BY <1>4, <1>5, Zenon

\* Once the server has spoken, speaking again changes nothing.
LEMMA SayAgain ==
  ASSUME NEW k, k.state # "kConnected", NEW name, NEW r \in Say(k, name)
  PROVE  r = k
BY DEF Say, Send, Outcome, Shutdown
-----------------------------------------------------------------------------
\* Nothing has been said when the server starts.
LEMMA InvInit == Init => Inv
<1> SUFFICES ASSUME Init PROVE Inv
  OBVIOUS
<1>1. /\ Connecting.state = "kConnecting" /\ ~Connecting.fin
      /\ Total(Connecting) = <<>> /\ Drained(Connecting)
  BY DEF Connecting, Total, Drained
<1>2. Connecting \in Connection(Unit) /\ <<>> \in Seq(Name)
  <2>1. <<>> \in Seq(Unit) /\ <<>> \in Seq(Name)
    OBVIOUS
  <2>2. QED
    BY <2>1 DEF Connecting, Connection, ConnState
<1>3. TypeInv
  BY <1>2 DEF Init, TypeInv, Programs
<1>4. QED
  BY <1>1, <1>3 DEF Init, Inv, Starting

\* The steps of the server in which it speaks.
LEMMA SpeakStep ==
  ASSUME Inv, TypeInv', NEW k \in Connection(Unit), k.state = "kConnected", ~k.fin,
         Total(k) = <<>>, Starting, NEW name, conn' \in Say(k, name),
         program' = program, clock' = clock, client' = client, sent' = sent,
         name = IF Waits THEN sent[1] ELSE "", Waits => sent # <<>>
  PROVE  Inv'
<1>1. /\ conn' \in Connection(Unit) /\ conn'.state = "kDisconnecting"
      /\ Drained(conn') /\ (~Gone => Total(conn') = ReplyTo(name))
  BY SayResult DEF Inv
<1>2. client # "done"
  BY DEF Inv
<1>3. Owed' = ReplyTo(name) /\ (Waits' <=> Waits)
  BY DEF Owed, ReplyTo, Waits
<1>4. ~Starting'
  BY <1>1 DEF Starting
<1>5. client' # "left" => Total(conn)' = Owed'
  BY <1>1, <1>2, <1>3 DEF Gone, Total
<1>6. QED
  BY <1>1, <1>2, <1>3, <1>4, <1>5 DEF Inv, Drained

\* The steps that leave the connection alone, or end it.
LEMMA SilentStep ==
  ASSUME Inv, TypeInv', program' = program, clock' = clock,
         Total(conn') = Total(conn), Drained(conn'), conn.fin => conn'.fin,
         Starting' => Starting /\ ~conn'.fin,
         Starting /\ ~Starting' => client' = "left",
         client' # "left" => client # "left",
         client' = "done" => conn'.fin,
         Starting' /\ Waits => kept' = kept,
         sent # <<>> => sent' # <<>> /\ sent'[1] = sent[1]
  PROVE  Inv'
<1>1. Waits' <=> Waits
  BY DEF Waits
<1>2. ASSUME ~Starting', client' # "left"
      PROVE  Total(conn') = Owed' /\ (Waits' => sent' # <<>>)
  <2>1. ~Starting /\ client # "left"
    BY <1>2
  <2>2. Total(conn) = Owed /\ (Waits => sent # <<>>)
    BY <2>1 DEF Inv
  <2>3. Owed' = Owed
    BY <1>1, <2>2 DEF Owed, ReplyTo
  <2>4. QED
    BY <1>1, <2>2, <2>3
<1>3. Total(conn)' = Total(conn') /\ Drained(conn)' = Drained(conn')
  BY DEF Total, Drained
<1>4. QED
  BY <1>1, <1>2, <1>3 DEF Inv
-----------------------------------------------------------------------------
\* The connection callback.
LEMMA OnConnectionStep == Inv /\ OnConnection => Inv'
<1> SUFFICES ASSUME Inv, OnConnection PROVE Inv'
  OBVIOUS
<1> DEFINE k == ConnectEstablished(conn)
<1>1. /\ k \in Connection(Unit) /\ k.state = "kConnected" /\ k.fin = conn.fin
      /\ Total(k) = Total(conn)
      /\ Drained(conn) => Drained(k)
  BY DEF Inv, TypeInv, ConnectEstablished, Connection, ConnState, Total, Drained
<1>2. /\ Starting /\ Total(conn) = <<>> /\ ~conn.fin /\ client # "done"
      /\ Drained(conn)
  BY DEF OnConnection, Inv, Starting
<1>3. UNCHANGED <<program, clock, client, sent, kept>>
  BY DEF OnConnection
<1> HIDE DEF k
<1>4. CASE program \in {"time", "daytime", "finger03"}
  <2>1. conn' \in Say(k, "")
    BY <1>4 DEF OnConnection, k
  <2>2. conn' \in Connection(Unit)
    BY <1>1, <1>2, <2>1, SayResult DEF Inv
  <2>3. TypeInv'
    BY <1>3, <2>2 DEF Inv, TypeInv
  <2>4. ~Waits
    BY <1>4 DEF Waits
  <2>5. QED
    BY <1>1, <1>2, <1>3, <2>1, <2>3, <2>4, SpeakStep
<1>5. CASE program \notin {"time", "daytime", "finger03"}
  <2>1. conn' = k
    BY <1>5 DEF OnConnection, k
  <2>2. TypeInv'
    BY <1>1, <1>3, <2>1 DEF Inv, TypeInv
  <2>3. QED
    BY <1>1, <1>2, <1>3, <2>1, <2>2, SilentStep DEF Starting
<1>6. QED
  BY <1>4, <1>5

\* The message callback: the first line that is found is the first line, and
\* when another one is found nothing more is said.
LEMMA OnMessageStep ==
  ASSUME Inv, NEW g \in Nat, OnMessage(g)
  PROVE  Inv'
<1>1. UNCHANGED <<program, clock, client, sent>>
  BY DEF OnMessage
<1>2. /\ conn.state \in {"kConnected", "kDisconnecting"}
      /\ conn \in Connection(Unit) /\ Drained(conn)
  BY DEF OnMessage, Inv, TypeInv
<1> DEFINE name == sent[FirstLine(g)]
<1>3. CASE Waits /\ FindCRLF(g)
  <2>1. conn' \in Say(conn, name)
    BY <1>3 DEF OnMessage, Waits
  <2>2. CASE conn.state = "kConnected"
    <3>1. Starting /\ Total(conn) = <<>> /\ ~conn.fin /\ kept = 0
      BY <1>3, <2>2 DEF Inv, Starting
    <3>2. FirstLine(g) = 1 /\ sent # <<>>
      BY <1>3, <3>1, FirstLineIsFirst DEF Inv
    <3>3. name = IF Waits THEN sent[1] ELSE ""
      BY <1>3, <3>2
    <3> HIDE DEF name
    <3>4. conn' \in Connection(Unit)
      BY <1>2, <2>1, <2>2, <3>1, SayResult DEF Inv
    <3>5. TypeInv'
      BY <1>1, <3>4 DEF Inv, TypeInv
    <3>6. QED
      BY <1>1, <1>2, <2>1, <2>2, <3>1, <3>2, <3>3, <3>5, SpeakStep
  <2>3. CASE conn.state = "kDisconnecting"
    <3> HIDE DEF name
    <3>1. conn' = conn
      BY <2>1, <2>3, SayAgain
    <3>2. TypeInv'
      BY <1>1, <3>1 DEF Inv, TypeInv
    <3>3. ~Starting /\ ~Starting'
      BY <2>3, <3>1 DEF Starting
    <3>4. client = "done" => conn.fin
      BY DEF Inv
    <3>5. QED
      BY <1>1, <1>2, <3>1, <3>2, <3>3, <3>4, SilentStep
  <2>4. QED
    BY <1>2, <2>2, <2>3
<1>4. CASE ~(Waits /\ FindCRLF(g))
  <2>1. conn' = conn
    BY <1>4 DEF OnMessage, Waits
  <2>2. Waits => kept' = kept
    BY <1>4 DEF OnMessage, Retrieve, Waits
  <2>3. TypeInv'
    BY <1>1, <2>1 DEF Inv, TypeInv
  <2>4. (Starting' <=> Starting) /\ (Starting => ~conn.fin) /\ (client = "done" => conn.fin)
    BY <2>1 DEF Inv, Starting
  <2>5. QED
    BY <1>1, <1>2, <2>1, <2>2, <2>3, <2>4, SilentStep
<1>5. QED
  BY <1>3, <1>4

\* The socket takes more of the reply.
LEMMA OnWritableStep == Inv /\ OnWritable => Inv'
<1> SUFFICES ASSUME Inv, OnWritable PROVE Inv'
  OBVIOUS
<1>1. UNCHANGED <<program, clock, client, sent, kept>>
  BY DEF OnWritable
<1>2. conn \in Connection(Unit) /\ Drained(conn)
  BY DEF Inv, TypeInv
<1>3. PICK o \in HandleWrite(conn) : conn' = o.conn
  BY DEF OnWritable
<1>4. conn' \in Connection(Unit) /\ conn'.state = conn.state
  BY <1>2, <1>3, HandleWriteType
<1>5. /\ Total(conn') = Total(conn) /\ Drained(conn')
      /\ conn'.fin => conn.state = "kDisconnecting"
  BY <1>2, <1>3, HandleWriteTotal
<1>6. conn.fin => conn'.fin
  <2>1. conn.out # <<>>
    BY <1>2, <1>3, HandleWriteShrinks
  <2>2. QED
    BY <1>2, <2>1 DEF Drained
<1>7. TypeInv'
  BY <1>1, <1>4 DEF Inv, TypeInv
<1>8. (Starting' <=> Starting) /\ (Starting => ~conn'.fin)
  BY <1>4, <1>5 DEF Starting
<1>9. client = "done" => conn.fin
  BY DEF Inv
<1>10. QED
  BY <1>1, <1>5, <1>6, <1>7, <1>8, <1>9, SilentStep

\* The connection goes down: before the reply only because the client left.
LEMMA OnDownStep == Inv /\ OnDown => Inv'
<1> SUFFICES ASSUME Inv, OnDown PROVE Inv'
  OBVIOUS
<1>1. UNCHANGED <<program, clock, client, sent, kept>> /\ client \in {"done", "left"}
  BY DEF OnDown, Gone
<1>2. conn \in Connection(Unit) /\ Drained(conn) /\ conn' = HandleClose(conn)
  BY DEF Inv, TypeInv, OnDown
<1>3. /\ conn' \in Connection(Unit) /\ conn'.state = "kDisconnected"
      /\ Total(conn') = Total(conn) /\ Drained(conn') /\ conn'.fin = conn.fin
  BY <1>2 DEF HandleClose, Connection, ConnState, Total, Drained
<1>4. TypeInv'
  BY <1>1, <1>3 DEF Inv, TypeInv
<1>5. ~Starting' /\ (client = "done" => conn.fin) /\ (Starting => ~conn.fin)
  BY <1>3 DEF Inv, Starting
<1>6. QED
  BY <1>1, <1>3, <1>4, <1>5, SilentStep

\* The steps of the client.
LEMMA ClientStep ==
  Inv /\ (Connect \/ SendLine \/ ClientReads \/ ClientSeesFin \/ ClientLeaves) => Inv'
<1> SUFFICES ASSUME Inv, Connect \/ SendLine \/ ClientReads \/ ClientSeesFin \/ ClientLeaves
             PROVE  Inv'
  OBVIOUS
<1>1. UNCHANGED <<program, clock, conn, kept>>
  BY DEF Connect, SendLine, ClientReads, ClientOnMessage, ClientSeesFin, ClientLeaves
<1>2. (Starting' <=> Starting) /\ (Starting => ~conn.fin) /\ Drained(conn)
  BY <1>1 DEF Inv, Starting
<1>3. /\ sent' \in Seq(Name)
      /\ sent # <<>> => sent' # <<>> /\ sent'[1] = sent[1]
  <2>1. sent \in Seq(Name)
    BY DEF Inv, TypeInv
  <2>2. CASE SendLine
    <3>1. PICK name \in Name : sent' = Append(sent, name)
      BY <2>2 DEF SendLine
    <3>2. sent # <<>> => Len(sent) >= 1
      BY <2>1
    <3>3. sent # <<>> => Append(sent, name)[1] = sent[1]
      BY <2>1, <3>2, AppendProperties
    <3>4. Append(sent, name) \in Seq(Name) /\ Append(sent, name) # <<>>
      BY <2>1, AppendProperties
    <3>5. QED
      BY <3>1, <3>3, <3>4
  <2>3. CASE ~SendLine
    <3>1. sent' = sent
      BY <2>3 DEF Connect, ClientReads, ClientOnMessage, ClientSeesFin, ClientLeaves
    <3>2. QED
      BY <2>1, <3>1
  <2>4. QED
    BY <2>2, <2>3
<1>4. /\ client' \in {"new", "up", "done", "left"}
      /\ client' # "left" => client # "left"
      /\ client' = "done" => conn.fin
  BY DEF Inv, TypeInv, Connect, SendLine, ClientReads, ClientOnMessage,
         ClientSeesFin, ClientLeaves
<1>5. TypeInv'
  BY <1>1, <1>3, <1>4 DEF Inv, TypeInv
<1>6. QED
  BY <1>1, <1>2, <1>3, <1>4, <1>5, SilentStep

\* A step that changes nothing keeps the invariant.
LEMMA Stutter == Inv /\ UNCHANGED vars => Inv'
BY DEF vars, Inv, TypeInv, Starting, Total, Drained, Owed, Waits, ReplyTo

\* Every step keeps the invariant.
LEMMA InvStep == Inv /\ [Next]_vars => Inv'
<1>1. Inv /\ ServerReads => Inv'
  <2> SUFFICES ASSUME Inv, NEW g \in 1..(MaxLines * LineLen), OnMessage(g) PROVE Inv'
    BY DEF ServerReads
  <2>1. MaxLines * LineLen \in Nat
    BY OneShotAssumption
  <2>2. g \in Nat
    BY <2>1
  <2>3. QED
    BY <2>2, OnMessageStep
<1>2. QED
  BY <1>1, OnConnectionStep, OnWritableStep, OnDownStep, ClientStep, Stutter, Zenon
     DEF Next

\* What the invariant says of a client that is there.
LEMMA InvImplies == Inv => OneWholeReply
<1> SUFFICES ASSUME Inv, client # "left"
             PROVE  /\ conn.wire \o conn.out # <<>> => conn.wire \o conn.out = Owed
                    /\ conn.fin => conn.wire = Owed
  BY DEF OneWholeReply, Owed
<1>1. Total(conn) # <<>> => Total(conn) = Owed
  BY DEF Inv
<1>2. ASSUME conn.fin PROVE conn.wire = Owed
  <2>1. Total(conn) = Owed
    BY <1>2 DEF Inv
  <2>2. conn.out = <<>> /\ conn.wire \in Seq(Unit)
    BY <1>2 DEF Inv, Drained, TypeInv, Connection
  <2>3. ASSUME NEW w \in Seq(Unit) PROVE w \o <<>> = w
    BY <2>3, ConcatEmptySeq
  <2>4. Total(conn) = conn.wire
    BY <2>2, <2>3 DEF Total
  <2>5. QED
    BY <2>1, <2>4
<1>3. QED
  BY <1>1, <1>2 DEF Total

\* However the input is cut and the socket takes its data, a client that does
\* not leave is told the one whole reply to its first line (OneWholeReply).
THEOREM ReplyIsWhole == Spec => []OneWholeReply
<1>1. Spec => []Inv
  BY InvInit, InvStep, PTL DEF Spec
<1>2. QED
  BY <1>1, InvImplies, PTL
-----------------------------------------------------------------------------
(* Four bytes of time.                                                     *)

\* Division with remainder.
LEMMA DivMod ==
  ASSUME NEW n \in Nat, NEW b \in Nat, b > 0
  PROVE  /\ n \div b \in Nat /\ n % b \in 0..(b - 1)
         /\ n = (n \div b) * b + (n % b)
<1> DEFINE q == n \div b
           r == n % b
<1>1. q \in Nat
  OBVIOUS
<1>2. r \in 0..(b - 1)
  OBVIOUS
<1>3. r = n - b * q
  OBVIOUS
<1> HIDE DEF q, r
<1>4. b * q = q * b /\ b * q \in Nat
  BY <1>1
<1>5. n = q * b + r
  BY <1>2, <1>3, <1>4
<1>6. QED
  BY <1>1, <1>2, <1>5, Zenon DEF q, r

\* Division with remainder is unique.
LEMMA DivModUnique ==
  ASSUME NEW n \in Nat, NEW b \in Nat, b > 0, NEW q \in Nat, NEW r \in 0..(b - 1),
         n = q * b + r
  PROVE  n \div b = q /\ n % b = r
<1> DEFINE p == n \div b
           s == n % b
<1>1. p \in Nat /\ s \in 0..(b - 1) /\ n = p * b + s
  BY DivMod
<1> HIDE DEF p, s
<1>2. (p - q) * b = r - s
  <2>1. (p - q) * b = p * b - q * b
    BY <1>1
  <2>2. p * b \in Int /\ q * b \in Int
    BY <1>1
  <2>3. QED
    BY <1>1, <2>1, <2>2
<1>3. p - q >= 1 => (p - q) * b >= b
  BY <1>1
<1>4. q - p >= 1 => (p - q) * b <= -b
  BY <1>1
<1>5. (p - q) * b \in Int
  BY <1>1
<1>6. p = q
  BY <1>1, <1>2, <1>3, <1>4, <1>5
<1>7. r = s
  BY <1>1, <1>2, <1>6
<1>8. QED
  BY <1>6, <1>7 DEF p, s

\* One more digit: what is left after dividing by a is divided by b.
LEMMA NextDigit ==
  ASSUME NEW a \in Nat, a > 0, NEW b \in Nat, b > 0,
         NEW n \in Nat, NEW p \in Nat, NEW r \in 0..(a - 1), n = p * a + r,
         NEW q \in Nat, NEW s \in 0..(b - 1), p = q * b + s
  PROVE  /\ b * a \in Nat /\ b * a > 0
         /\ s * a + r \in 0..(b * a - 1)
         /\ n = q * (b * a) + (s * a + r)
<1>1. b * a \in Nat /\ b * a > 0
  OBVIOUS
<1>2. n = q * (b * a) + (s * a + r)
  <2>1. p * a = (q * b) * a + s * a
    OBVIOUS
  <2>2. (q * b) * a = q * (b * a)
    OBVIOUS
  <2>3. s * a \in Int /\ q * (b * a) \in Int /\ p * a \in Int
    OBVIOUS
  <2>4. ASSUME NEW w \in Int, NEW x \in Int, NEW y \in Int, NEW z \in Int,
               n = x + w, x = y + z
        PROVE  n = y + (z + w)
    BY <2>4
  <2>5. p * a = q * (b * a) + s * a
    BY <2>1, <2>2
  <2>6. QED
    BY <2>3, <2>4, <2>5
<1>3. s * a + r \in 0..(b * a - 1)
  <2>1. s * a >= 0 /\ s * a \in Int
    OBVIOUS
  <2>2. (b - 1 - s) * a >= 0
    OBVIOUS
  <2>3. (b - 1 - s) * a = b * a - a - s * a
    OBVIOUS
  <2>4. QED
    BY <1>1, <2>1, <2>2, <2>3
<1>4. QED
  BY <1>1, <1>2, <1>3

\* Dividing twice is dividing once by the product.
LEMMA DivDiv ==
  ASSUME NEW n \in Nat, NEW a \in Nat, a > 0, NEW b \in Nat, b > 0
  PROVE  b * a \in Nat /\ b * a > 0 /\ n \div (b * a) = (n \div a) \div b
<1> DEFINE p == n \div a
           q == p \div b
<1>1. PICK r \in 0..(a - 1) : p \in Nat /\ n = p * a + r
  BY DivMod
<1>2. PICK s \in 0..(b - 1) : q \in Nat /\ p = q * b + s
  BY <1>1, DivMod
<1> HIDE DEF p, q
<1>3. b * a \in Nat /\ b * a > 0 /\ n \div (b * a) = q
  BY <1>1, <1>2, NextDigit, DivModUnique
<1>4. QED
  BY <1>3 DEF p, q

\* The values of a word.
LEMMA WordType == Word \in Nat /\ Word > 0
<1>1. Byte \in Nat /\ Byte > 0
  BY OneShotAssumption
<1>2. Byte * Byte \in Nat /\ Byte * Byte > 0
  BY <1>1
<1> DEFINE b == Byte * Byte
<1> HIDE DEF b
<1>3. b * Byte \in Nat /\ b * Byte > 0
  BY <1>1, <1>2 DEF b
<1> DEFINE c == b * Byte
<1> HIDE DEF c
<1>4. c * Byte \in Nat /\ c * Byte > 0
  BY <1>1, <1>3 DEF c
<1>5. QED
  BY <1>4 DEF b, c, Word

\* The four bytes put together again are the number, as far as a word goes.
LEMMA BytesOfWord ==
  ASSUME NEW t \in Nat
  PROVE  PeekInt32(HostToNetwork32(t)) = Int32(t)
<1>1. Byte \in Nat /\ Byte > 0
  BY OneShotAssumption
<1> DEFINE q1 == t \div Byte
           q2 == q1 \div Byte
           q3 == q2 \div Byte
           q4 == q3 \div Byte
           r0 == t % Byte
           r1 == q1 % Byte
           r2 == q2 % Byte
           r3 == q3 % Byte
           Digit == 0..(Byte - 1)
<1>2. q1 \in Nat /\ r0 \in Digit /\ t = q1 * Byte + r0
  BY <1>1, DivMod
<1>3. q2 \in Nat /\ r1 \in Digit /\ q1 = q2 * Byte + r1
  <2> HIDE DEF q1
  <2> QED
    BY <1>1, <1>2, DivMod
<1>4. q3 \in Nat /\ r2 \in Digit /\ q2 = q3 * Byte + r2
  <2> HIDE DEF q2
  <2> QED
    BY <1>1, <1>3, DivMod
<1>5. q4 \in Nat /\ r3 \in Digit /\ q3 = q4 * Byte + r3
  <2> HIDE DEF q3
  <2> QED
    BY <1>1, <1>4, DivMod
<1>6. HostToNetwork32(t) = <<r3, r2, r1, r0>>
  <2>1. Byte * Byte \in Nat /\ Byte * Byte > 0 /\ t \div (Byte * Byte) = q2
    BY <1>1, DivDiv
  <2>2. t \div (Byte * (Byte * Byte)) = (t \div (Byte * Byte)) \div Byte
    BY <1>1, <2>1, DivDiv
  <2>3. Byte * Byte * Byte = Byte * (Byte * Byte)
    BY <1>1
  <2>4. t \div (Byte * Byte * Byte) = q3
    BY <2>1, <2>2, <2>3, Zenon
  <2>5. QED
    BY <2>1, <2>4, Zenon DEF HostToNetwork32
<1> HIDE DEF q1, q2, q3, q4, r0, r1, r2, r3
<1> DEFINE v2 == r3 * Byte + r2
           v3 == v2 * Byte + r1
           v4 == v3 * Byte + r0
<1>7. /\ Byte * Byte \in Nat /\ Byte * Byte > 0
      /\ v2 \in 0..(Byte * Byte - 1) /\ q2 = q4 * (Byte * Byte) + v2
  BY <1>1, <1>3, <1>4, <1>5, NextDigit
<1> HIDE DEF v2
<1>8. /\ Byte * Byte * Byte \in Nat /\ Byte * Byte * Byte > 0
      /\ v3 \in 0..(Byte * Byte * Byte - 1) /\ q1 = q4 * (Byte * Byte * Byte) + v3
  <2> DEFINE b == Byte * Byte
  <2>1. b \in Nat /\ b > 0 /\ v2 \in 0..(b - 1) /\ q2 = q4 * b + v2
    BY <1>7
  <2> HIDE DEF b
  <2>2. /\ b * Byte \in Nat /\ b * Byte > 0
        /\ v3 \in 0..(b * Byte - 1) /\ q1 = q4 * (b * Byte) + v3
    BY <1>1, <1>2, <1>3, <1>5, <2>1, NextDigit
  <2>3. QED
    BY <2>2, Zenon DEF b
<1> HIDE DEF v3
<1>9. /\ Word \in Nat /\ Word > 0 /\ v4 \in 0..(Word - 1) /\ t = q4 * Word + v4
  <2> DEFINE b == Byte * Byte * Byte
  <2>1. b \in Nat /\ b > 0 /\ v3 \in 0..(b - 1) /\ q1 = q4 * b + v3
    BY <1>8
  <2> HIDE DEF b
  <2>2. /\ b * Byte \in Nat /\ b * Byte > 0
        /\ v4 \in 0..(b * Byte - 1) /\ t = q4 * (b * Byte) + v4
    BY <1>1, <1>2, <1>5, <2>1, NextDigit
  <2>3. QED
    BY <2>2, Zenon DEF b, Word
<1>10. PeekInt32(HostToNetwork32(t)) = Int32(v4)
  <2>1. ASSUME NEW h, h = <<r3, r2, r1, r0>> PROVE PeekInt32(h) = Int32(v4)
    <3>1. h[1] = r3 /\ h[2] = r2 /\ h[3] = r1 /\ h[4] = r0
      BY <2>1
    <3>2. QED
      BY <3>1, Zenon DEF PeekInt32, v4, v3, v2
  <2>2. QED
    BY <1>6, <2>1, Zenon
<1> HIDE DEF v4
<1>11. t % Word = v4 /\ v4 % Word = v4
  <2> HIDE DEF Word
  <2>1. v4 = 0 * Word + v4 /\ v4 \in Nat
    BY <1>9
  <2>2. QED
    BY <1>5, <1>9, <2>1, DivModUnique
<1>12. QED
  BY <1>10, <1>11, Zenon DEF Int32
-----------------------------------------------------------------------------
(* The client.                                                             *)

\* What the client has logged once it has read the four bytes.
Logged == IF program = "time" /\ read >= 4 THEN <<Int32(clock)>> ELSE <<>>

\* How far the client has read, and that it logs a time with the fourth byte.
ReadInv ==
  /\ read \in Nat
  /\ shown = Logged
  /\ client = "new" => read = 0
  /\ client = "up" => read <= Len(conn.wire)
  /\ client = "done" /\ program = "time" => read >= 4

\* On the wire of a time server are at most the four bytes of its time.
LEMMA WireOfTime ==
  ASSUME Inv, program = "time", client # "left"
  PROVE  /\ Len(conn.wire) \in 0..4
         /\ conn.fin => Len(conn.wire) = 4
         /\ \A i \in 1..Len(conn.wire) : conn.wire[i] = HostToNetwork32(clock)[i]
<1>1. conn.wire \in Seq(Unit) /\ conn.out \in Seq(Unit)
  BY DEF Inv, TypeInv, Connection
<1> DEFINE w == conn.wire
           o == conn.out
           h == HostToNetwork32(clock)
<1>2. Len(h) = 4
  BY DEF HostToNetwork32
<1>3. w \o o = <<>> \/ w \o o = h
  BY DEF Inv, Total, Owed, ReplyTo
<1>4. conn.fin => w \o o = h /\ o = <<>>
  BY DEF Inv, Drained, Total, Owed, ReplyTo
<1> HIDE DEF w, o, h
<1>5. w \in Seq(Unit) /\ o \in Seq(Unit)
  BY <1>1 DEF w, o
<1>6. /\ Len(w) \in Nat /\ Len(o) \in Nat /\ Len(w \o o) = Len(w) + Len(o)
      /\ \A i \in 1..Len(w) : (w \o o)[i] = w[i]
  BY <1>5, ConcatProperties, LenProperties
<1>7. Len(w) \in 0..4 /\ (conn.fin => Len(w) = 4)
  <2>1. Len(w \o o) = 0 \/ Len(w \o o) = 4
    BY <1>2, <1>3, EmptySeq
  <2>2. conn.fin => Len(w \o o) = 4 /\ Len(o) = 0
    BY <1>2, <1>4, EmptySeq
  <2>3. ASSUME NEW a \in Nat, NEW b \in Nat, NEW c, c = a + b, c = 0 \/ c = 4,
               conn.fin => c = 4 /\ b = 0
        PROVE  a \in 0..4 /\ (conn.fin => a = 4)
    BY <2>3
  <2>4. Len(w) \in Nat /\ Len(o) \in Nat /\ Len(w \o o) = Len(w) + Len(o)
    BY <1>6
  <2>5. QED
    BY <2>1, <2>2, <2>3, <2>4, Zenon
<1>8. \A i \in 1..Len(w) : w[i] = h[i]
  BY <1>3, <1>6
<1>9. QED
  BY <1>7, <1>8 DEF w, h

\* Nothing has been read when the server starts.
LEMMA ReadInit == Init => ReadInv
BY DEF Init, ReadInv, Logged

\* The steps that leave alone what the client has read.
LEMMA ReadSame ==
  ASSUME Inv, ReadInv, Inv', program' = program, clock' = clock, read' = read,
         shown' = shown, client' # "new" \/ client = "new",
         client' = "up" =>
           /\ client \in {"new", "up"}
           /\ Len(conn'.wire) >= Len(conn.wire) \/ Total(conn) = <<>>,
         client' = "done" /\ program = "time" => read >= 4
  PROVE  ReadInv'
<1>1. Logged' = Logged
  BY DEF Logged
<1>2. ASSUME client' = "up" PROVE read <= Len(conn'.wire)
  <2>1. conn.wire \in Seq(Unit) /\ conn.out \in Seq(Unit) /\ conn'.wire \in Seq(Unit)
    BY DEF Inv, TypeInv, Connection, Unit
  <2>2. Len(conn.wire) \in Nat /\ Len(conn'.wire) \in Nat /\ read \in Nat
    BY <2>1, LenProperties DEF ReadInv
  <2>3. read <= Len(conn.wire)
    BY <1>2, <2>2 DEF ReadInv
  <2>4. Total(conn) = <<>> => Len(conn.wire) = 0
    BY <2>1 DEF Total
  <2>5. QED
    BY <1>2, <2>2, <2>3, <2>4
<1>3. QED
  BY <1>1, <1>2 DEF ReadInv

\* What the server does to a connection never takes back what is on the wire.
LEMMA ReadServer ==
  ASSUME Inv, ReadInv, Inv', OnConnection \/ ServerReads \/ OnWritable \/ OnDown
  PROVE  ReadInv'
<1>1. UNCHANGED <<program, clock, client, read, shown>>
  BY DEF OnConnection, ServerReads, OnMessage, OnWritable, OnDown
<1>2. Len(conn'.wire) >= Len(conn.wire) \/ Total(conn) = <<>>
  <2>1. conn \in Connection(Unit) /\ Len(conn.wire) \in Nat
    BY LenProperties DEF Inv, TypeInv, Connection
  <2>2. CASE OnConnection
    BY <2>2 DEF OnConnection, Inv, Starting
  <2>3. ASSUME NEW g \in 1..(MaxLines * LineLen), OnMessage(g)
        PROVE  Len(conn'.wire) >= Len(conn.wire) \/ Total(conn) = <<>>
    <3>1. CASE conn.state = "kConnected"
      BY <3>1 DEF Inv, Starting
    <3>2. CASE conn.state # "kConnected"
      <4>1. conn' = conn
        BY <2>3, <3>2, SayAgain DEF OnMessage
      <4>2. QED
        BY <2>1, <4>1
    <3>3. QED
      BY <3>1, <3>2
  <2>4. CASE OnWritable
    <3>1. PICK o \in HandleWrite(conn) : conn' = o.conn
      BY <2>4 DEF OnWritable
    <3>2. PICK y \in Seq(Unit) : conn'.wire = conn.wire \o y
      BY <2>1, <3>1, HandleWriteWire DEF Grown
    <3>3. conn.wire \in Seq(Unit)
      BY <2>1 DEF Connection
    <3>4. Len(conn.wire \o y) = Len(conn.wire) + Len(y) /\ Len(y) \in Nat
      BY <3>3, ConcatProperties, LenProperties
    <3>5. QED
      BY <2>1, <3>2, <3>4
  <2>5. CASE OnDown
    BY <2>1, <2>5 DEF OnDown, HandleClose, Connection
  <2>6. QED
    BY <2>2, <2>3, <2>4, <2>5 DEF ServerReads
<1>3. client = "done" /\ program = "time" => read >= 4
  BY DEF ReadInv
<1>4. QED
  BY <1>1, <1>2, <1>3, ReadSame

\* The client reads on: with the fourth byte it has the whole time.
LEMMA ReadMore ==
  ASSUME Inv, ReadInv, NEW n \in Nat, ClientOnMessage(n)
  PROVE  ReadInv'
<1>1. /\ UNCHANGED <<program, clock, conn, client>> /\ client = "up"
      /\ read' = n /\ read < n /\ n <= Len(conn.wire) /\ read \in Nat
  BY DEF ClientOnMessage, ReadInv
<1>2. shown' = Logged'
  <2>1. CASE program # "time"
    BY <1>1, <2>1 DEF ClientOnMessage, ReadInv, Logged
  <2>2. CASE program = "time"
    <3>1. /\ Len(conn.wire) \in 0..4
          /\ \A i \in 1..Len(conn.wire) : conn.wire[i] = HostToNetwork32(clock)[i]
      BY <1>1, <2>2, WireOfTime
    <3>2. read < 4 /\ shown = <<>> /\ n <= 4
      BY <1>1, <2>2, <3>1 DEF ReadInv, Logged
    <3>3. Len(shown) = 0
      BY <3>2
    <3>4. CASE n < 4
      BY <1>1, <2>2, <3>2, <3>3, <3>4 DEF ClientOnMessage, Enough, Logged
    <3>5. CASE n = 4
      <4> DEFINE h == HostToNetwork32(clock)
                 b == [i \in 1..4 |-> IF 4 * Len(shown) + i <= n
                                      THEN conn.wire[4 * Len(shown) + i] ELSE 0]
      <4>1. shown' = Append(shown, PeekInt32(b))
        BY <2>2, <3>3, <3>5 DEF ClientOnMessage, Enough
      <4>2. b[1] = h[1] /\ b[2] = h[2] /\ b[3] = h[3] /\ b[4] = h[4]
        <5>1. ASSUME NEW i \in 1..4 PROVE b[i] = conn.wire[i] /\ conn.wire[i] = h[i]
          BY <1>1, <3>1, <3>3, <3>5
        <5> HIDE DEF b, h
        <5>2. QED
          BY <5>1
      <4> HIDE DEF b, h
      <4>3. PeekInt32(b) = PeekInt32(h)
        BY <4>2, Zenon DEF PeekInt32
      <4>4. PeekInt32(h) = Int32(clock)
        BY BytesOfWord, OneShotAssumption DEF h, Inv, TypeInv
      <4>5. shown' = <<Int32(clock)>>
        BY <3>2, <4>1, <4>3, <4>4
      <4>6. QED
        BY <1>1, <2>2, <3>5, <4>5 DEF Logged
    <3>6. QED
      BY <1>1, <3>2, <3>4, <3>5
  <2>3. QED
    BY <2>1, <2>2
<1>3. QED
  BY <1>1, <1>2 DEF ReadInv

\* Every step keeps what is known of the client.
LEMMA ReadStep == Inv /\ ReadInv /\ Inv' /\ [Next]_vars => ReadInv'
<1> SUFFICES ASSUME Inv, ReadInv, Inv', [Next]_vars PROVE ReadInv'
  OBVIOUS
<1>1. Len(conn.wire) \in Nat
  BY LenProperties DEF Inv, TypeInv, Connection
<1>2. CASE ClientReads
  BY <1>2, ReadMore DEF ClientReads
<1>3. CASE ClientSeesFin
  <2>1. /\ UNCHANGED <<program, clock, read, shown>> /\ client' = "done"
        /\ client = "up" /\ conn.fin /\ read = Len(conn.wire)
    BY <1>3 DEF ClientSeesFin
  <2>2. ASSUME program = "time" PROVE read >= 4
    <3>1. Len(conn.wire) = 4
      BY <2>1, <2>2, WireOfTime
    <3>2. QED
      BY <2>1, <3>1
  <2>3. QED
    BY <2>1, <2>2, ReadSame
<1>4. CASE Connect \/ SendLine \/ ClientLeaves \/ UNCHANGED vars
  <2>1. /\ UNCHANGED <<program, clock, conn, read, shown>>
        /\ client' # "new" \/ client = "new"
        /\ client' = "up" => client \in {"new", "up"}
        /\ client' = "done" => client = "done"
    BY <1>4 DEF Connect, SendLine, ClientLeaves, vars
  <2>2. client = "done" /\ program = "time" => read >= 4
    BY DEF ReadInv
  <2>3. QED
    BY <1>1, <2>1, <2>2, ReadSame
<1>5. QED
  BY <1>2, <1>3, <1>4, ReadServer DEF Next

\* Seconds below the sign bit of the word are read as they are.
LEMMA SmallWord ==
  ASSUME NEW t \in Nat, t < Word \div 2
  PROVE  Int32(t) = t
<1>1. Word \in Nat /\ Word > 0
  BY WordType
<1>2. t < Word
  <2> HIDE DEF Word
  <2>1. ASSUME NEW x \in Nat, t < x \div 2 PROVE t < x
    <3> DEFINE h == x \div 2
    <3>1. PICK r \in 0..1 : h \in Nat /\ x = h * 2 + r
      BY DivMod
    <3> HIDE DEF h
    <3>2. t < h
      BY <2>1 DEF h
    <3>3. QED
      BY <3>1, <3>2
  <2>2. QED
    BY <1>1, <2>1
<1>3. t % Word = t
  <2> HIDE DEF Word
  <2>1. t = 0 * Word + t /\ t \in 0..(Word - 1)
    BY <1>1, <1>2
  <2>2. QED
    BY <1>1, <2>1, DivModUnique
<1>4. QED
  BY <1>3, Zenon DEF Int32

\* The time client logs one time, the server's, once it has all four bytes,
\* and has logged it when it reads end-of-file; the time is right as long as the
\* seconds stay below the sign bit (TimeShown).
THEOREM TimeIsRight == Spec => []TimeShown
<1>1. Spec => [](Inv /\ ReadInv)
  <2>1. Inv /\ ReadInv /\ [Next]_vars => (Inv /\ ReadInv)'
    BY InvStep, ReadStep
  <2>2. QED
    BY <2>1, InvInit, ReadInit, PTL DEF Spec
<1>2. ASSUME Inv, ReadInv PROVE TimeShown
  <2>1. clock \in Nat
    BY <1>2, OneShotAssumption DEF Inv, TypeInv
  <2>2. shown \in {<<>>, <<Int32(clock)>>}
    BY <1>2 DEF ReadInv, Logged
  <2>3. program = "time" /\ client = "done" => shown # <<>>
    BY <1>2 DEF ReadInv, Logged
  <2>4. clock < Word \div 2 => Int32(clock) = clock
    BY <2>1, SmallWord
  <2>5. QED
    BY <2>2, <2>3, <2>4 DEF TimeShown
<1>3. QED
  BY <1>1, <1>2, PTL
-----------------------------------------------------------------------------
(* The reactor.                                                            *)

\* Pieces of lines, and those that hold a newline.
Piece == [line : Nat, end : BOOLEAN]
Whole == [line : Nat, end : {TRUE}]

\* The complete lines of a sequence.
LEMMA LinesKept == ASSUME NEW s PROVE Lines(s) = Kept(s, Whole)
BY DEF Lines, Whole

\* s ends with a line, or is empty.
Closed(s) == s = <<>> \/ s[Len(s)].end

\* The line that a piece after s belongs to, if those of s begin with line x.
NextLine(s, x) ==
  IF s = <<>> THEN x
  ELSE IF s[Len(s)].end THEN s[Len(s)].line + 1 ELSE s[Len(s)].line

\* s holds the pieces of consecutive lines, the first of them x.
Chain(s, x) ==
  /\ s # <<>> => s[1].line = x
  /\ \A i \in 1..(Len(s) - 1) :
       s[i + 1].line = IF s[i].end THEN s[i].line + 1 ELSE s[i].line

\* The empty chain.
LEMMA ChainEmpty ==
  ASSUME NEW x
  PROVE  Chain(<<>>, x) /\ NextLine(<<>>, x) = x /\ Closed(<<>>)
BY DEF Chain, NextLine, Closed

\* One more piece.
LEMMA ChainAppend ==
  ASSUME NEW s \in Seq(Piece), NEW e \in Piece, NEW x
  PROVE  /\ Chain(Append(s, e), x) <=> Chain(s, x) /\ e.line = NextLine(s, x)
         /\ NextLine(Append(s, e), x) = IF e.end THEN e.line + 1 ELSE e.line
         /\ Closed(Append(s, e)) <=> e.end
<1> DEFINE a == Append(s, e)
<1>1. /\ Len(a) = Len(s) + 1 /\ Len(s) \in Nat /\ a # <<>>
      /\ \A i \in 1..Len(s) : a[i] = s[i]
      /\ a[Len(s) + 1] = e
  BY AppendProperties, LenProperties
<1>2. s = <<>> <=> Len(s) = 0
  BY EmptySeq
<1> HIDE DEF a
<1> DEFINE Follows(q, i) == q[i + 1].line = IF q[i].end THEN q[i].line + 1 ELSE q[i].line
<1>3. CASE s = <<>>
  <2>1. Len(s) = 0 /\ a[1] = e /\ Len(a) = 1
    BY <1>1, <1>2, <1>3
  <2>2. Chain(s, x) /\ NextLine(s, x) = x
    BY <1>3, ChainEmpty
  <2>3. Chain(a, x) <=> e.line = x
    BY <1>1, <2>1 DEF Chain
  <2>4. QED
    BY <1>1, <2>1, <2>2, <2>3 DEF a, NextLine, Closed
<1>4. CASE s # <<>>
  <2> DEFINE n == Len(s)
  <2>1. n \in Nat /\ n >= 1
    BY <1>1, <1>2, <1>4
  <2>2. \A i \in 1..(n - 1) : Follows(a, i) <=> Follows(s, i)
    <3>1. \A i \in 1..(n - 1) : i \in 1..Len(s) /\ i + 1 \in 1..Len(s)
      BY <2>1
    <3>2. QED
      BY <1>1, <3>1
  <2>3. Follows(a, n) <=> e.line = NextLine(s, x)
    BY <1>1, <1>4, <2>1 DEF NextLine
  <2>4. Chain(a, x) <=> a[1].line = x /\ \A i \in 1..n : Follows(a, i)
    BY <1>1, <2>1 DEF Chain
  <2>5. Chain(s, x) <=> s[1].line = x /\ \A i \in 1..(n - 1) : Follows(s, i)
    BY <1>4 DEF Chain
  <2>6. a[1] = s[1]
    BY <1>1, <2>1
  <2> HIDE DEF Follows, n
  <2>7. (\A i \in 1..n : Follows(a, i)) <=> Follows(a, n) /\ \A i \in 1..(n - 1) : Follows(a, i)
    BY <2>1
  <2>8. Chain(a, x) <=> Chain(s, x) /\ e.line = NextLine(s, x)
    BY <2>2, <2>3, <2>4, <2>5, <2>6, <2>7
  <2>9. QED
    BY <1>1, <2>8 DEF a, NextLine, Closed
<1>5. QED
  BY <1>3, <1>4

\* A chain after a chain.
LEMMA ChainConcat ==
  ASSUME NEW s \in Seq(Piece), NEW t \in Seq(Piece), NEW x
  PROVE  /\ Chain(s \o t, x) <=> Chain(s, x) /\ Chain(t, NextLine(s, x))
         /\ NextLine(s \o t, x) = NextLine(t, NextLine(s, x))
         /\ Closed(s \o t) <=> IF t = <<>> THEN Closed(s) ELSE Closed(t)
<1> DEFINE y == NextLine(s, x)
           S == {q \in Seq(Piece) :
                   /\ Chain(s \o q, x) <=> Chain(s, x) /\ Chain(q, y)
                   /\ NextLine(s \o q, x) = NextLine(q, y)
                   /\ Closed(s \o q) <=> IF q = <<>> THEN Closed(s) ELSE Closed(q)}
<1>1. <<>> \in S
  BY ChainEmpty, ConcatEmptySeq, EmptySeq
<1>2. ASSUME NEW q \in Seq(Piece), NEW e \in Piece, q \in S PROVE Append(q, e) \in S
  <2>1. s \o Append(q, e) = Append(s \o q, e) /\ s \o q \in Seq(Piece)
    BY ConcatAppend, ConcatProperties
  <2>2. Append(q, e) \in Seq(Piece) /\ Append(q, e) # <<>>
    BY AppendProperties
  <2> DEFINE z == s \o q
             a == Append(q, e)
  <2> HIDE DEF y
  <2>3. /\ Chain(a, y) <=> Chain(q, y) /\ e.line = NextLine(q, y)
        /\ NextLine(a, y) = IF e.end THEN e.line + 1 ELSE e.line
        /\ Closed(a) <=> e.end
    BY ChainAppend
  <2>4. /\ Chain(Append(z, e), x) <=> Chain(z, x) /\ e.line = NextLine(z, x)
        /\ NextLine(Append(z, e), x) = IF e.end THEN e.line + 1 ELSE e.line
        /\ Closed(Append(z, e)) <=> e.end
    BY <2>1, ChainAppend
  <2>5. Chain(z, x) <=> Chain(s, x) /\ Chain(q, y)
    BY <1>2
  <2>6. NextLine(z, x) = NextLine(q, y)
    BY <1>2
  <2>7. s \o a = Append(z, e)
    BY <2>1
  <2> HIDE DEF z, a
  <2>8. Chain(s \o a, x) <=> Chain(s, x) /\ Chain(a, y)
    BY <2>3, <2>4, <2>5, <2>6, <2>7
  <2>9. NextLine(s \o a, x) = NextLine(a, y)
    BY <2>3, <2>4, <2>7
  <2>10. Closed(s \o a) <=> Closed(a)
    BY <2>3, <2>4, <2>7
  <2>11. a \in Seq(Piece) /\ a # <<>>
    BY <2>2 DEF a
  <2>12. a \in S
    BY <2>8, <2>9, <2>10, <2>11
  <2>13. QED
    BY <2>12 DEF a
<1> HIDE DEF S
<1>3. Seq(Piece) \subseteq S
  BY <1>1, <1>2, SeqSetInduction, Zenon
<1>4. t \in S
  BY <1>3
<1>5. QED
  BY <1>4, Zenon DEF S

\* The lines of a chain are numbered on from its first.
LEMMA ChainLines ==
  ASSUME NEW s \in Seq(Piece), NEW x \in Nat, Chain(s, x)
  PROVE  /\ NextLine(s, x) = x + Len(Lines(s))
         /\ \A i \in 1..Len(Lines(s)) : Lines(s)[i].line = x + i - 1
<1> DEFINE L(q) == Kept(q, Whole)
           S == {q \in Seq(Piece) :
                   Chain(q, x) =>
                     /\ NextLine(q, x) = x + Len(L(q))
                     /\ \A i \in 1..Len(L(q)) : L(q)[i].line = x + i - 1}
<1>1. <<>> \in S
  <2>1. L(<<>>) = <<>> /\ Len(<<>>) = 0 /\ <<>> \in Seq(Piece)
    BY KeptEmpty, EmptySeq
  <2>2. \A n \in Nat : n = 0 => x = x + n /\ 1..n = {}
    OBVIOUS
  <2> HIDE DEF L
  <2>3. NextLine(<<>>, x) = x
    BY ChainEmpty
  <2>4. QED
    BY <2>1, <2>2, <2>3
<1>2. ASSUME NEW q \in Seq(Piece), NEW e \in Piece, q \in S PROVE Append(q, e) \in S
  <2> DEFINE a == Append(q, e)
             k == L(q)
  <2>1. a \in Seq(Piece)
    BY AppendProperties
  <2>2. L(a) = IF e \in Whole THEN Append(k, e) ELSE k
    BY KeptAppend
  <2>3. e \in Whole <=> e.end
    BY DEF Piece, Whole
  <2>4. k \in Seq(Piece) /\ Len(k) \in Nat
    BY KeptType, LenProperties
  <2>5. ASSUME Chain(a, x)
        PROVE  /\ NextLine(a, x) = x + Len(L(a))
               /\ \A i \in 1..Len(L(a)) : L(a)[i].line = x + i - 1
    <3>1. /\ Chain(q, x) /\ e.line = NextLine(q, x)
          /\ NextLine(a, x) = IF e.end THEN e.line + 1 ELSE e.line
      BY <2>5, ChainAppend
    <3>2. e.line = x + Len(k) /\ \A i \in 1..Len(k) : k[i].line = x + i - 1
      BY <1>2, <3>1
    <3>3. CASE e.end
      <4>1. L(a) = Append(k, e)
        BY <2>2, <2>3, <3>3
      <4>2. /\ Len(L(a)) = Len(k) + 1 /\ L(a)[Len(k) + 1] = e
            /\ \A i \in 1..Len(k) : L(a)[i] = k[i]
        BY <2>4, <4>1, AppendProperties
      <4> HIDE DEF L, k, a
      <4>3. NextLine(a, x) = x + Len(L(a))
        BY <2>4, <3>1, <3>2, <3>3, <4>2
      <4>4. ASSUME NEW i \in 1..Len(L(a)) PROVE L(a)[i].line = x + i - 1
        <5>1. i \in 1..Len(k) \/ i = Len(k) + 1
          BY <2>4, <4>2
        <5>2. CASE i \in 1..Len(k)
          BY <3>2, <4>2, <5>2
        <5>3. CASE i = Len(k) + 1
          BY <2>4, <3>2, <4>2, <5>3
        <5>4. QED
          BY <5>1, <5>2, <5>3
      <4>5. QED
        BY <4>3, <4>4
    <3>4. CASE ~e.end
      <4>1. L(a) = k
        BY <2>2, <2>3, <3>4
      <4> HIDE DEF L, k, a
      <4>2. QED
        BY <3>1, <3>2, <3>4, <4>1
    <3>5. QED
      BY <3>3, <3>4
  <2> HIDE DEF a, L
  <2>6. a \in S
    BY <2>1, <2>5
  <2>7. QED
    BY <2>6 DEF a
<1> HIDE DEF S
<1>3. Seq(Piece) \subseteq S
  BY <1>1, <1>2, SeqSetInduction, Zenon
<1>4. s \in S /\ Lines(s) = L(s)
  BY <1>3, LinesKept
<1> HIDE DEF L
<1>5. QED
  BY <1>4, Zenon DEF S

\* There are no lines in what holds no newline.
LEMMA NoLines ==
  ASSUME NEW s \in Seq(Piece)
  PROVE  /\ Lines(s) \in Seq(Piece)
         /\ Lines(s) = <<>> <=> \A i \in 1..Len(s) : ~s[i].end
<1> DEFINE k == Kept(s, Whole)
<1>1. k \in Seq(Piece)
  BY KeptType
<1>2. \A y : IsIn(y, k) <=> IsIn(y, s) /\ y \in Whole
  BY KeptIn
<1> HIDE DEF k
<1>3. \A i \in 1..Len(s) : s[i] \in Piece
  BY LenProperties
<1>4. \A y \in Piece : y \in Whole <=> y.end
  BY DEF Piece, Whole
<1>5. ASSUME k = <<>>, NEW i \in 1..Len(s) PROVE ~s[i].end
  <2>1. Len(k) = 0 /\ 1..0 = {}
    BY <1>5, EmptySeq
  <2>2. ~IsIn(s[i], k)
    BY <2>1, Zenon DEF IsIn
  <2>3. IsIn(s[i], s)
    BY DEF IsIn
  <2>4. QED
    BY <1>2, <1>3, <1>4, <2>2, <2>3
<1>6. ASSUME k # <<>> PROVE \E i \in 1..Len(s) : s[i].end
  <2>1. 1 \in 1..Len(k)
    BY <1>1, <1>6, EmptySeq
  <2>2. IsIn(k[1], k)
    BY <2>1 DEF IsIn
  <2>3. IsIn(k[1], s) /\ k[1] \in Whole
    BY <1>2, <2>2
  <2>4. PICK i \in 1..Len(s) : s[i] = k[1]
    BY <2>3 DEF IsIn
  <2>5. QED
    BY <1>3, <1>4, <2>3, <2>4
<1>7. Lines(s) = k
  BY LinesKept DEF k
<1>8. QED
  BY <1>1, <1>5, <1>6, <1>7

\* What getline takes is one line, and the rest is left.
LEMMA FirstLineTakes ==
  ASSUME NEW s \in Seq(Piece), Lines(s) # <<>>
  PROVE  LET f == LineRead(s) IN
         /\ f \in Seq(Piece) /\ f # <<>> /\ f[1] = s[1]
         /\ After(s, f) \in Seq(Piece) /\ f \o After(s, f) = s
         /\ f[Len(f)].end /\ \A i \in 1..(Len(f) - 1) : ~f[i].end
         /\ Len(Lines(f)) = 1
         /\ Len(f) \in 1..Len(s) /\ s[Len(f)].end
<1> DEFINE D == {i \in 1..Len(s) : s[i].end}
           First(n) == s[n].end /\ \A m \in 1..(n - 1) : ~s[m].end
           c == CHOOSE n \in 1..Len(s) : First(n)
<1>1. Len(s) \in Nat /\ (\A i \in 1..Len(s) : s[i] \in Piece) /\ DOMAIN s = 1..Len(s)
  BY LenProperties
<1>2. D # {} /\ D \subseteq Nat
  <2>1. D # {}
    BY NoLines
  <2>2. D \subseteq Nat
    BY <1>1
  <2>3. QED
    BY <2>1, <2>2
<1>3. PICK d \in D : \A y \in D : d <= y
  <2> HIDE DEF D
  <2> QED
    BY <1>2, LeastExists
<1>4. d \in 1..Len(s) /\ First(d)
  <2>1. ASSUME NEW m \in 1..(d - 1) PROVE ~s[m].end
    <3>1. m \in 1..Len(s) /\ ~(d <= m)
      BY <1>1
    <3>2. QED
      BY <1>3, <3>1
  <2>2. QED
    BY <2>1
<1>5. c \in 1..Len(s) /\ First(c)
  BY <1>4
<1>6. LineRead(s) = SubSeq(s, 1, c)
  BY <1>1, Zenon DEF LineRead
<1> HIDE DEF c, D
<1> DEFINE f == SubSeq(s, 1, c)
           g == SubSeq(s, 1, c - 1)
           r == SubSeq(s, c + 1, Len(s))
<1>7. c \in Nat /\ c >= 1 /\ c <= Len(s) /\ s[c] \in Piece
  BY <1>1, <1>5
<1>8. /\ f \in Seq(Piece) /\ Len(f) = c
      /\ \A i \in 1..c : f[i] = s[i]
  <2>1. \A i \in 1..c : s[i] \in Piece
    BY <1>1, <1>7
  <2>2. /\ f \in Seq(Piece) /\ Len(f) = IF 1 <= c THEN c - 1 + 1 ELSE 0
        /\ \A i \in 1..(c - 1 + 1) : f[i] = s[1 + i - 1]
    BY <1>7, <2>1, SubSeqProperties
  <2> HIDE DEF f
  <2>3. QED
    BY <1>7, <2>2
<1>9. /\ g \in Seq(Piece) /\ Len(g) = c - 1
      /\ \A i \in 1..(c - 1) : g[i] = s[i]
  <2>1. \A i \in 1..(c - 1) : s[i] \in Piece
    BY <1>1, <1>7
  <2>2. /\ g \in Seq(Piece) /\ Len(g) = IF 1 <= c - 1 THEN c - 1 - 1 + 1 ELSE 0
        /\ \A i \in 1..(c - 1 - 1 + 1) : g[i] = s[1 + i - 1]
    BY <1>7, <2>1, SubSeqProperties
  <2> HIDE DEF g
  <2>3. QED
    BY <1>7, <2>2
<1>10. r \in Seq(Piece) /\ f \o r = s
  <2>1. \A i \in (c + 1)..Len(s) : s[i] \in Piece
    BY <1>1, <1>7
  <2>2. r \in Seq(Piece)
    BY <1>1, <1>7, <2>1, SubSeqProperties
  <2>3. SubSeq(s, 1, c) \o SubSeq(s, c + 1, Len(s)) = SubSeq(s, 1, Len(s))
    <3>1. 1 \in 1..Len(s) + 1 /\ c \in (1 - 1)..Len(s) /\ Len(s) \in c..Len(s)
      BY <1>1, <1>7
    <3>2. QED
      BY <3>1, ConcatAdjacentSubSeq, Zenon
  <2>4. SubSeq(s, 1, Len(s)) = s
    BY SubSeqFull
  <2>5. QED
    BY <2>2, <2>3, <2>4
<1>11. After(s, f) = r
  BY <1>8, Zenon DEF After, r
<1>12. f = Append(g, s[c])
  <2>1. f = g \o <<s[c]>>
    <3>1. c \in 1..Len(s) /\ 1 \in 1..Len(s) /\ c \in 1..Len(s)
      BY <1>1, <1>7
    <3>2. QED
      BY <1>7, <3>1, SubSeqRecursiveSecond
  <2>2. Append(g, s[c]) = g \o <<s[c]>>
    BY <1>7, <1>9, AppendIsConcat
  <2>3. QED
    BY <2>1, <2>2
<1> HIDE DEF f, g, r
<1>13. Len(Lines(f)) = 1
  <2>1. \A i \in 1..Len(g) : ~g[i].end
    BY <1>5, <1>9
  <2>2. Lines(g) = <<>>
    BY <1>9, <2>1, NoLines
  <2>3. Kept(g, Whole) = <<>>
    BY <2>2, LinesKept, Zenon
  <2>4. s[c] \in Whole
    BY <1>5, <1>7 DEF Piece, Whole
  <2>5. Kept(f, Whole) = Append(<<>>, s[c])
    BY <1>7, <1>9, <1>12, <2>3, <2>4, KeptAppend
  <2>6. Len(Append(<<>>, s[c])) = 0 + 1
    BY <1>7, AppendProperties, EmptySeq
  <2>7. Lines(f) = Kept(f, Whole)
    BY LinesKept, Zenon
  <2>8. QED
    BY <2>5, <2>6, <2>7
<1>14. /\ f # <<>> /\ f[1] = s[1] /\ f[Len(f)].end
       /\ \A i \in 1..(Len(f) - 1) : ~f[i].end
       /\ Len(f) \in 1..Len(s) /\ s[Len(f)].end
  <2>1. f # <<>>
    BY <1>7, <1>8, EmptySeq
  <2>2. 1 \in 1..c /\ c \in 1..c
    BY <1>7
  <2>3. \A i \in 1..(c - 1) : i \in 1..c
    BY <1>7
  <2>4. QED
    BY <1>5, <1>8, <2>1, <2>2, <2>3
<1>15. QED
  BY <1>6, <1>8, <1>10, <1>11, <1>13, <1>14 DEF f
-----------------------------------------------------------------------------
\* The invariant of the reactor.

RType ==
  /\ kind \in {"tty", "pipe"} /\ pc \in {"wait", "getline"}
  /\ input \in Seq(Piece) /\ buffer \in Seq(Piece)
  /\ begun \in Nat /\ handled \in Seq(Nat) /\ lastRead \in Nat

\* What was handled, what is buffered and what is still to be read are the
\* lines up to the last one begun.
Consecutive ==
  LET p == buffer \o input
      x == Len(handled) + 1
  IN  /\ \A i \in 1..Len(handled) : handled[i] = i
      /\ Chain(p, x)
      /\ NextLine(p, x) = IF Closed(p) THEN begun + 1 ELSE begun

\* The last read() brought no more than the line getline is about to return.
ReadAhead ==
  /\ lastRead <= Len(handled) + 1
  /\ pc = "wait" \/ Lines(buffer) = <<>> => lastRead <= Len(handled)
  /\ Lines(buffer) # <<>> => lastRead >= 1

\* A terminal never leaves a line behind.
OneAtATime ==
  kind = "tty" => \A i \in 1..Len(buffer) :
                    buffer[i].end => i = Len(buffer) /\ pc = "getline"

RInv == RType /\ Consecutive /\ ReadAhead /\ OneAtATime

\* Nothing has been read when the reactor starts.
LEMMA ReactorBegins == ReactorInit => RInv
<1> SUFFICES ASSUME ReactorInit PROVE RInv
  OBVIOUS
<1>1. /\ kind \in {"tty", "pipe"} /\ pc = "wait" /\ input = <<>> /\ buffer = <<>>
      /\ handled = <<>> /\ begun = 0 /\ lastRead = 0
  BY DEF ReactorInit
<1>2. <<>> \in Seq(Piece) /\ <<>> \in Seq(Nat) /\ Len(<<>>) = 0
  BY EmptySeq
<1>3. Lines(<<>>) = <<>> /\ <<>> \o <<>> = <<>>
  BY <1>2, LinesKept, KeptEmpty, ConcatEmptySeq
<1>4. RType
  BY <1>1, <1>2 DEF RType
<1>5. Chain(<<>>, 1) /\ NextLine(<<>>, 1) = 1 /\ Closed(<<>>)
  BY ChainEmpty
<1>6. Consecutive
  BY <1>1, <1>2, <1>3, <1>5 DEF Consecutive
<1>7. ReadAhead /\ OneAtATime
  BY <1>1, <1>2, <1>3 DEF ReadAhead, OneAtATime
<1>8. QED
  BY <1>4, <1>6, <1>7 DEF RInv

\* One more line is handled.
LEMMA HandledMore ==
  ASSUME NEW h \in Seq(Nat), \A i \in 1..Len(h) : h[i] = i
  PROVE  LET a == Append(h, Len(h) + 1) IN
         /\ a \in Seq(Nat) /\ Len(a) = Len(h) + 1
         /\ \A i \in 1..Len(a) : a[i] = i
<1> DEFINE a == Append(h, Len(h) + 1)
<1>1. Len(h) \in Nat
  BY LenProperties
<1>2. /\ a \in Seq(Nat) /\ Len(a) = Len(h) + 1 /\ a[Len(h) + 1] = Len(h) + 1
      /\ \A i \in 1..Len(h) : a[i] = h[i]
  BY <1>1, AppendProperties
<1> HIDE DEF a
<1>3. \A i \in 1..Len(a) : a[i] = i
  <2>1. \A i \in 1..Len(a) : i \in 1..Len(h) \/ i = Len(h) + 1
    BY <1>1, <1>2
  <2>2. QED
    BY <1>2, <2>1
<1>4. QED
  BY <1>2, <1>3 DEF a

\* A read() moves pieces from one buffer to the other.
LEMMA ReactorReads ==
  ASSUME RInv, Read
  PROVE  RInv'
<1> DEFINE b == buffer
           r == ReadResult
           z == After(input, r)
           x == Len(handled) + 1
<1>1. /\ pc = "getline" /\ Lines(b) = <<>> /\ input # <<>>
      /\ kind = "tty" => Lines(input) # <<>>
      /\ buffer' = b \o r /\ input' = z
      /\ lastRead' = IF Lines(r) = <<>> THEN lastRead ELSE Lines(r)[1].line
      /\ UNCHANGED <<kind, pc, begun, handled>>
  BY DEF Read
<1>2. /\ b \in Seq(Piece) /\ input \in Seq(Piece) /\ Len(handled) \in Nat
      /\ begun \in Nat /\ lastRead \in Nat
  BY LenProperties DEF RInv, RType
<1>3. /\ r \in Seq(Piece) /\ z \in Seq(Piece) /\ r \o z = input
      /\ kind = "tty" => \A i \in 1..(Len(r) - 1) : ~r[i].end
  <2>1. CASE kind = "tty"
    BY <1>1, <1>2, <2>1, FirstLineTakes DEF ReadResult
  <2>2. CASE kind # "tty"
    <3>1. r = input
      BY <2>2 DEF ReadResult
    <3>2. z = <<>>
      <4>1. After(input, input) = <<>>
        BY <1>2, LenProperties, SubSeqEmpty DEF After
      <4>2. QED
        BY <3>1, <4>1
    <3>3. QED
      BY <1>2, <2>2, <3>1, <3>2, EmptySeq, ConcatEmptySeq
  <2>3. QED
    BY <2>1, <2>2
<1> HIDE DEF r, z
<1>4. /\ b \o r \in Seq(Piece) /\ (b \o r) \o z = b \o input
      /\ Len(b \o r) = Len(b) + Len(r) /\ Len(b) \in Nat /\ Len(r) \in Nat
      /\ \A i \in 1..(Len(b) + Len(r)) :
           (b \o r)[i] = IF i <= Len(b) THEN b[i] ELSE r[i - Len(b)]
  <2>1. ASSUME NEW u \in Seq(Piece), NEW v \in Seq(Piece), NEW w \in Seq(Piece)
        PROVE  (u \o v) \o w = u \o (v \o w)
    BY ConcatAssociative
  <2>2. (b \o r) \o z = b \o input
    BY <1>2, <1>3, <2>1, Zenon
  <2>3. QED
    BY <1>2, <1>3, <2>2, ConcatProperties, LenProperties
<1>5. Chain(b \o r, x)
  <2>1. Chain((b \o r) \o z, x)
    BY <1>4 DEF RInv, Consecutive
  <2>2. QED
    BY <1>3, <1>4, <2>1, ChainConcat
<1>6. Lines(b \o r) = Lines(r) /\ Lines(r) \in Seq(Piece)
  <2>1. Kept(b \o r, Whole) = Kept(b, Whole) \o Kept(r, Whole)
    BY <1>2, <1>3, KeptConcat
  <2>2. Kept(b, Whole) = <<>>
    BY <1>1, LinesKept
  <2>3. Kept(r, Whole) \in Seq(Piece)
    BY <1>3, KeptType
  <2>4. <<>> \o Kept(r, Whole) = Kept(r, Whole)
    BY <2>3, ConcatEmptySeq
  <2>5. QED
    BY <2>1, <2>2, <2>3, <2>4, LinesKept, Zenon
<1>7. ASSUME Lines(r) # <<>> PROVE lastRead' = x
  <2>1. 1 \in 1..Len(Lines(r))
    BY <1>6, <1>7, EmptySeq
  <2>2. \A i \in 1..Len(Lines(b \o r)) : Lines(b \o r)[i].line = x + i - 1
    <3>1. x \in Nat
      BY <1>2
    <3> HIDE DEF x
    <3>2. QED
      BY <1>4, <1>5, <3>1, ChainLines, Zenon
  <2>3. Lines(r)[1].line = x + 1 - 1
    BY <1>6, <2>1, <2>2
  <2>4. QED
    BY <1>1, <1>2, <1>7, <2>3
<1>8. RType'
  <2>1. lastRead' \in Nat
    BY <1>1, <1>2, <1>7
  <2>2. QED
    BY <1>1, <1>3, <1>4, <2>1 DEF RInv, RType
<1>9. Consecutive'
  <2>1. (buffer \o input)' = buffer \o input
    BY <1>1, <1>4
  <2>2. QED
    BY <1>1, <2>1 DEF RInv, Consecutive
<1>10. ReadAhead'
  <2>1. lastRead <= Len(handled)
    BY <1>1 DEF RInv, ReadAhead
  <2>2. Lines(buffer)' = Lines(buffer')
    BY DEF Lines
  <2>3. Lines(buffer') = Lines(r)
    BY <1>1, <1>6
  <2>4. CASE Lines(r) = <<>>
    BY <1>1, <1>2, <2>1, <2>2, <2>3, <2>4 DEF ReadAhead
  <2>5. CASE Lines(r) # <<>>
    BY <1>1, <1>2, <1>7, <2>2, <2>3, <2>5 DEF ReadAhead
  <2>6. QED
    BY <2>4, <2>5
<1>11. OneAtATime'
  <2> SUFFICES ASSUME kind = "tty", NEW i \in 1..Len(b \o r), (b \o r)[i].end
               PROVE  i = Len(b \o r)
    BY <1>1 DEF OneAtATime
  <2>1. \A j \in 1..Len(b) : ~b[j].end
    BY <1>1, <1>2, NoLines
  <2>2. i > Len(b) /\ r[i - Len(b)].end /\ i - Len(b) \in 1..Len(r)
    BY <1>4, <2>1
  <2>3. ~(i - Len(b) \in 1..(Len(r) - 1))
    BY <1>3, <2>2
  <2>4. QED
    BY <1>4, <2>2, <2>3
<1>12. QED
  BY <1>8, <1>9, <1>10, <1>11 DEF RInv

\* getline returns the first line of its buffer.
LEMMA GetLineStep ==
  ASSUME RInv, GetLine
  PROVE  RInv'
<1> DEFINE b == buffer
           f == LineRead(b)
           z == After(b, f)
           x == Len(handled) + 1
<1>1. /\ pc' = "wait" /\ Lines(b) # <<>>
      /\ handled' = Append(handled, f[1].line) /\ buffer' = z
      /\ UNCHANGED <<kind, input, begun, lastRead>>
  BY DEF GetLine, Handle, Rest
<1>2. /\ b \in Seq(Piece) /\ input \in Seq(Piece) /\ handled \in Seq(Nat)
      /\ Len(handled) \in Nat /\ begun \in Nat /\ lastRead \in Nat
  BY LenProperties DEF RInv, RType
<1>3. /\ f \in Seq(Piece) /\ f # <<>> /\ z \in Seq(Piece) /\ f \o z = b
      /\ f[Len(f)].end /\ Len(Lines(f)) = 1
      /\ Len(f) \in 1..Len(b) /\ b[Len(f)].end
  BY <1>1, <1>2, FirstLineTakes
<1>4. kind = "tty" => z = <<>>
  <2>1. kind = "tty" => Len(f) = Len(b)
    BY <1>3 DEF RInv, OneAtATime
  <2>2. Len(b) \in Nat
    BY <1>2, LenProperties
  <2>3. Len(f) = Len(b) => SubSeq(b, Len(f) + 1, Len(b)) = <<>>
    BY <2>2, SubSeqEmpty
  <2>4. QED
    BY <2>1, <2>3, Zenon DEF After, z
<1> HIDE DEF f, z
<1> DEFINE t == z \o input
<1>5. t \in Seq(Piece) /\ f \o t = b \o input
  <2>1. (f \o z) \o input = f \o t
    <3>1. ASSUME NEW u \in Seq(Piece), NEW v \in Seq(Piece), NEW w \in Seq(Piece)
          PROVE  (u \o v) \o w = u \o (v \o w)
      BY ConcatAssociative
    <3>2. QED
      BY <1>2, <1>3, <3>1, ZenonT(60)
  <2>2. QED
    BY <1>2, <1>3, <2>1, ConcatProperties
<1> HIDE DEF t
<1>6. /\ Chain(f \o t, x)
      /\ NextLine(f \o t, x) = IF Closed(f \o t) THEN begun + 1 ELSE begun
      /\ \A i \in 1..Len(handled) : handled[i] = i
  BY <1>5 DEF RInv, Consecutive
<1>7. Chain(f, x) /\ Chain(t, NextLine(f, x))
  <2>1. Chain(f \o t, x) <=> Chain(f, x) /\ Chain(t, NextLine(f, x))
    BY <1>3, <1>5, ChainConcat, Zenon
  <2>2. QED
    BY <1>6, <2>1, Zenon
<1>8. NextLine(f, x) = x + 1 /\ f[1].line = x
  <2>1. NextLine(f, x) = x + 1
    <3>1. x \in Nat
      BY <1>2
    <3>2. NextLine(f, x) = x + Len(Lines(f))
      <4> HIDE DEF x
      <4> QED
        BY <1>3, <1>7, <3>1, ChainLines, Zenon
    <3>3. QED
      BY <1>3, <3>2
  <2>2. QED
    BY <1>3, <1>7, <2>1 DEF Chain
<1>9. /\ NextLine(f \o t, x) = NextLine(t, x + 1)
      /\ Closed(f \o t) <=> IF t = <<>> THEN Closed(f) ELSE Closed(t)
  <2>1. NextLine(f \o t, x) = NextLine(t, NextLine(f, x))
    BY <1>3, <1>5, ChainConcat, Zenon
  <2>2. Closed(f \o t) <=> IF t = <<>> THEN Closed(f) ELSE Closed(t)
    BY <1>3, <1>5, ChainConcat, Zenon
  <2>3. QED
    BY <1>8, <2>1, <2>2, Zenon
<1>10. NextLine(t, x + 1) = IF Closed(t) THEN begun + 1 ELSE begun
  BY <1>3, <1>6, <1>9 DEF Closed
<1>11. /\ handled' \in Seq(Nat) /\ Len(handled') = Len(handled) + 1
       /\ \A i \in 1..Len(handled') : handled'[i] = i
  BY <1>1, <1>2, <1>6, <1>8, HandledMore
<1>12. RType'
  BY <1>1, <1>3, <1>11 DEF RInv, RType
<1>13. Consecutive'
  <2>1. (buffer \o input)' = t /\ (Len(handled) + 1)' = x + 1
    BY <1>1, <1>11 DEF t
  <2>2. Chain(t, x + 1)
    BY <1>7, <1>8
  <2>3. begun' = begun
    BY <1>1
  <2>4. QED
    BY <1>10, <1>11, <2>1, <2>2, <2>3 DEF Consecutive
<1>14. ReadAhead'
  <2>1. lastRead <= Len(handled) + 1 /\ lastRead >= 1
    BY <1>1 DEF RInv, ReadAhead
  <2>2. QED
    BY <1>1, <1>2, <1>11, <2>1 DEF ReadAhead
<1>15. OneAtATime'
  <2>1. Len(<<>>) = 0 /\ 1..0 = {}
    BY EmptySeq
  <2>2. kind = "tty" => buffer' = <<>>
    BY <1>1, <1>4
  <2>3. QED
    BY <1>1, <2>1, <2>2 DEF OneAtATime
<1>16. QED
  BY <1>12, <1>13, <1>14, <1>15 DEF RInv

\* The end of the input: a line begun is handled as it is.
LEMMA AtEndStep ==
  ASSUME RInv, AtEnd
  PROVE  RInv'
<1> DEFINE b == buffer
           x == Len(handled) + 1
<1>1. /\ pc' = "wait" /\ Lines(b) = <<>> /\ input = <<>>
      /\ IF b # <<>> THEN handled' = Append(handled, b[1].line) /\ buffer' = After(b, b)
                     ELSE UNCHANGED <<handled, buffer>>
      /\ UNCHANGED <<kind, input, begun, lastRead>>
  BY DEF AtEnd, Handle, Rest
<1>2. /\ b \in Seq(Piece) /\ handled \in Seq(Nat) /\ Len(b) \in Nat
      /\ Len(handled) \in Nat /\ begun \in Nat /\ lastRead \in Nat
  BY LenProperties DEF RInv, RType
<1>3. buffer' = <<>>
  <2>1. After(b, b) = <<>>
    BY <1>2, SubSeqEmpty DEF After
  <2>2. QED
    BY <1>1, <2>1
<1>4. /\ <<>> \in Seq(Piece) /\ Len(<<>>) = 0 /\ <<>> \o <<>> = <<>> /\ b \o <<>> = b
      /\ Lines(<<>>) = <<>>
  BY <1>2, EmptySeq, ConcatEmptySeq, LinesKept, KeptEmpty
<1>5. /\ Chain(b, x) /\ NextLine(b, x) = (IF Closed(b) THEN begun + 1 ELSE begun)
      /\ \A i \in 1..Len(handled) : handled[i] = i
  BY <1>1, <1>4 DEF RInv, Consecutive
<1>6. lastRead <= Len(handled)
  BY <1>1 DEF RInv, ReadAhead
<1>7. /\ handled' \in Seq(Nat) /\ Len(handled') \in Nat /\ Len(handled') = begun
      /\ Len(handled') >= Len(handled)
      /\ \A i \in 1..Len(handled') : handled'[i] = i
  <2>1. CASE b = <<>>
    <3>1. NextLine(b, x) = x /\ Closed(b)
      BY <2>1, ChainEmpty
    <3>2. QED
      BY <1>1, <1>2, <1>5, <2>1, <3>1
  <2>2. CASE b # <<>>
    <3>1. b[1].line = x
      BY <1>5, <2>2 DEF Chain
    <3>2. /\ handled' \in Seq(Nat) /\ Len(handled') = Len(handled) + 1
          /\ \A i \in 1..Len(handled') : handled'[i] = i
      BY <1>1, <1>2, <1>5, <2>2, <3>1, HandledMore
    <3>3. ~Closed(b)
      <4>1. Len(b) \in 1..Len(b)
        BY <1>2, <2>2, EmptySeq
      <4>2. QED
        BY <1>1, <1>2, <2>2, <4>1, NoLines DEF Closed
    <3>4. NextLine(b, x) = x
      <4>1. NextLine(b, x) = x + Len(Lines(b))
        BY <1>2, <1>5, ChainLines
      <4>2. QED
        BY <1>1, <1>2, <1>4, <4>1
    <3>5. QED
      BY <1>2, <1>5, <3>2, <3>3, <3>4
  <2>3. QED
    BY <2>1, <2>2
<1>8. RType'
  BY <1>1, <1>3, <1>4, <1>7 DEF RInv, RType
<1>9. Consecutive'
  <2>1. (buffer \o input)' = <<>> /\ (Len(handled) + 1)' = begun + 1 /\ begun' = begun
    BY <1>1, <1>3, <1>4, <1>7
  <2>2. Chain(<<>>, begun + 1) /\ NextLine(<<>>, begun + 1) = begun + 1 /\ Closed(<<>>)
    BY ChainEmpty
  <2>3. QED
    BY <1>7, <2>1, <2>2 DEF Consecutive
<1>10. ReadAhead' /\ OneAtATime'
  <2>1. Lines(buffer)' = Lines(buffer')
    BY DEF Lines
  <2>2. 1..0 = {}
    OBVIOUS
  <2>3. QED
    BY <1>1, <1>2, <1>3, <1>4, <1>6, <1>7, <2>1, <2>2 DEF ReadAhead, OneAtATime
<1>11. QED
  BY <1>8, <1>9, <1>10 DEF RInv

\* The other side writes a piece.
LEMMA TypeStep ==
  ASSUME RInv, Type
  PROVE  RInv'
<1> DEFINE p == buffer \o input
           x == Len(handled) + 1
<1>1. /\ input \in Seq(Piece) /\ buffer \in Seq(Piece) /\ p \in Seq(Piece)
      /\ begun \in Nat /\ Len(handled) \in Nat
  BY LenProperties, ConcatProperties DEF RInv, RType
<1>2. MidLine <=> ~Closed(p)
  BY DEF MidLine, Closed
<1>3. PICK e \in Piece : /\ e.line = IF Closed(p) THEN begun + 1 ELSE begun
                         /\ Feed(e)
  <2>1. \A n \in Nat, v \in BOOLEAN :
          [line |-> n, end |-> v] \in Piece /\ [line |-> n, end |-> v].line = n
    BY DEF Piece
  <2>2. CASE Closed(p)
    <3>1. \E v \in BOOLEAN : Feed([line |-> begun + 1, end |-> v])
      BY <1>2, <2>2 DEF Type
    <3>2. begun + 1 \in Nat
      BY <1>1
    <3>3. QED
      BY <2>1, <2>2, <3>1, <3>2
  <2>3. CASE ~Closed(p)
    BY <1>1, <1>2, <2>1, <2>3 DEF Type
  <2>4. QED
    BY <2>2, <2>3
<1>4. /\ input' = Append(input, e) /\ begun' = e.line
      /\ UNCHANGED <<kind, pc, buffer, handled, lastRead>>
  BY <1>3 DEF Feed
<1>5. input' \in Seq(Piece) /\ begun' \in Nat
  BY <1>1, <1>4, AppendProperties DEF Piece
<1>6. (buffer \o input)' = Append(p, e)
  BY <1>1, <1>4, ConcatAppend
<1>7. Consecutive'
  <2>1. /\ Chain(p, x) /\ e.line = NextLine(p, x)
        /\ \A i \in 1..Len(handled) : handled[i] = i
    BY <1>3 DEF RInv, Consecutive
  <2>2. /\ Chain(Append(p, e), x)
        /\ NextLine(Append(p, e), x) = IF e.end THEN e.line + 1 ELSE e.line
        /\ Closed(Append(p, e)) <=> e.end
    BY <1>1, <2>1, ChainAppend
  <2>3. QED
    BY <1>4, <1>6, <2>1, <2>2 DEF Consecutive
<1>8. RType'
  BY <1>4, <1>5 DEF RInv, RType
<1>9. ReadAhead' /\ OneAtATime'
  <2>1. Lines(buffer)' = Lines(buffer')
    BY DEF Lines
  <2>2. QED
    BY <1>4, <2>1 DEF RInv, ReadAhead, OneAtATime
<1>10. QED
  BY <1>7, <1>8, <1>9 DEF RInv

\* Every step of the reactor keeps the invariant.
LEMMA ReactorStep == RInv /\ [ReactorNext]_(reactorVars) => RInv'
<1> SUFFICES ASSUME RInv, [ReactorNext]_(reactorVars) PROVE RInv'
  OBVIOUS
<1>1. CASE Wait
  <2>1. pc' = "getline" /\ UNCHANGED <<kind, input, begun, buffer, handled, lastRead>>
    BY <1>1 DEF Wait
  <2>2. Lines(buffer)' = Lines(buffer)
    BY <2>1 DEF Lines
  <2>3. QED
    BY <2>1, <2>2 DEF RInv, RType, Consecutive, ReadAhead, OneAtATime
<1>2. CASE CloseInput \/ UNCHANGED reactorVars
  <2>1. UNCHANGED <<kind, pc, input, begun, buffer, handled, lastRead>>
    BY <1>2 DEF CloseInput, reactorVars
  <2>2. Lines(buffer)' = Lines(buffer)
    BY <2>1 DEF Lines
  <2>3. QED
    BY <2>1, <2>2 DEF RInv, RType, Consecutive, ReadAhead, OneAtATime
<1>3. QED
  BY <1>1, <1>2, ReactorReads, GetLineStep, AtEndStep, TypeStep DEF ReactorNext, Run

\* No line is lost, repeated or overtaken in the reactor's two buffers, and one
\* waits while the reactor sleeps only behind a line that came in the same read()
\* (WaitsBehindItsRead).
THEOREM LinesWaitTheirTurn == ReactorSpec => []WaitsBehindItsRead
<1>1. ASSUME RInv PROVE WaitsBehindItsRead
  <2> DEFINE p == buffer \o input
             k == Lines(p)
             x == Len(handled) + 1
  <2>1. RType /\ Consecutive /\ ReadAhead /\ OneAtATime
    BY <1>1 DEF RInv
  <2>2. p \in Seq(Piece) /\ Len(handled) \in Nat /\ handled \in Seq(Nat) /\ buffer \in Seq(Piece)
    BY <2>1, ConcatProperties, LenProperties DEF RType
  <2>3. handled = [i \in 1..Len(handled) |-> i]
    <3>1. \A i \in 1..Len(handled) : handled[i] = i
      BY <2>1 DEF Consecutive
    <3>2. handled \in [1..Len(handled) -> Nat]
      BY <2>2, LenProperties
    <3>3. QED
      BY <3>1, <3>2
  <2>4. [i \in DOMAIN k |-> k[i].line] = [i \in DOMAIN k |-> Len(handled) + i]
    <3>1. k \in Seq(Piece)
      BY <2>2, NoLines
    <3>2. DOMAIN k = 1..Len(k)
      BY <3>1, LenProperties
    <3>3. \A i \in 1..Len(k) : k[i].line = x + i - 1
      <4>1. x \in Nat /\ Chain(p, x)
        BY <2>1, <2>2 DEF Consecutive
      <4> HIDE DEF p, x
      <4>2. QED
        BY <2>2, <4>1, ChainLines, Zenon
    <3> HIDE DEF k
    <3>4. \A i \in DOMAIN k : k[i].line = Len(handled) + i
      BY <2>2, <3>2, <3>3
    <3>5. QED
      BY <3>4
  <2>5. ASSUME pc = "wait", Lines(buffer) # <<>>
        PROVE  kind = "pipe" /\ lastRead \in 1..Len(handled)
    <3>1. lastRead \in 1..Len(handled)
      BY <2>1, <2>2, <2>5 DEF RType, ReadAhead
    <3>2. PICK i \in 1..Len(buffer) : buffer[i].end
      BY <2>2, <2>5, NoLines
    <3>3. kind # "tty"
      BY <2>1, <2>5, <3>2 DEF OneAtATime
    <3>4. QED
      BY <2>1, <3>1, <3>3 DEF RType
  <2>6. QED
    BY <2>3, <2>4, <2>5 DEF WaitsBehindItsRead
<1>2. QED
  BY <1>1, ReactorBegins, ReactorStep, PTL DEF ReactorSpec
-----------------------------------------------------------------------------
(* The epoll server.                                                       *)

Sockets == Client \cup {Listener}
EdgeEvent == [fd : Sockets, hup : BOOLEAN]

\* The sockets reported and not handled yet.
Fds(events) == [i \in 1..Len(events) |-> events[i].fd]

EpollType ==
  /\ phase \in {"run", "blocked", "ended"}
  /\ backlog \in Seq(Client) /\ ready \in Seq(Sockets) /\ batch \in Seq(EdgeEvent)
  /\ fd \in [Client -> {"none", "open", "closed"}]
  /\ stream \in [Client -> {"new", "up", "fin", "reset"}]
  /\ written \in [Client -> Nat] /\ unread \in [Client -> Nat]
  /\ owed \in Nat /\ short \in SUBSET Client

\* Each client comes once.
BacklogOK ==
  /\ Distinct(backlog)
  /\ \A c \in Client : /\ IsIn(c, backlog) => fd[c] = "none"
                       /\ stream[c] = "new" => fd[c] = "none" /\ ~IsIn(c, backlog)

\* A socket has one edge at most, and is open.
EdgesOK ==
  /\ Distinct(ready)
  /\ \A c \in Client : IsIn(c, ready) => fd[c] = "open"

\* What was reported stays true: nobody else reads from the socket.
EventsOK ==
  /\ Distinct(Fds(batch))
  /\ \A c \in Client : IsIn(c, Fds(batch)) => fd[c] = "open" /\ Readable(c)

One(b) == IF b THEN 1 ELSE 0

Debt == Len(backlog) = owed + One(IsIn(Listener, ready)) + One(IsIn(Listener, Fds(batch)))

Behind ==
  \A c \in Client :
    phase = "run" /\ fd[c] = "open" /\ Readable(c)
      /\ ~IsIn(c, ready) /\ ~IsIn(c, Fds(batch)) => c \in short

HupIn(x, events) == \E i \in 1..Len(events) : events[i].fd = x /\ events[i].hup

\* A reset is an edge, or it is reported as a hang-up.
ResetSeen ==
  \A c \in Client :
    phase = "run" /\ fd[c] = "open" /\ stream[c] = "reset" =>
      IsIn(c, ready) \/ HupIn(c, batch)

IInv == /\ EpollType /\ NeverBlocks
        /\ BacklogOK /\ EdgesOK /\ EventsOK /\ Debt /\ Behind /\ ResetSeen
-----------------------------------------------------------------------------
(* The lists of the model.                                                 *)

LEMMA FdsType ==
  ASSUME NEW b \in Seq(EdgeEvent)
  PROVE  /\ Fds(b) \in Seq(Sockets) /\ Len(Fds(b)) = Len(b)
         /\ \A i \in 1..Len(b) : Fds(b)[i] = b[i].fd
<1>1. Len(b) \in Nat /\ \A i \in 1..Len(b) : b[i] \in EdgeEvent
  BY LenProperties
<1>2. \A i \in 1..Len(b) : b[i].fd \in Sockets
  BY <1>1 DEF EdgeEvent
<1>3. QED
  BY <1>1, <1>2 DEF Fds

\* The server handles the oldest event: its socket is not reported any more.
LEMMA TurnTakes ==
  ASSUME EpollType, EventsOK, NEW s, Turn(s)
  PROVE  /\ batch' \in Seq(EdgeEvent) /\ phase = "run" /\ batch # <<>> /\ Head(batch) \in EdgeEvent
         /\ Distinct(Fds(batch'))
         /\ IsIn(s, Fds(batch)) /\ ~IsIn(s, Fds(batch'))
         /\ \A x : x # s => (IsIn(x, Fds(batch')) <=> IsIn(x, Fds(batch)))
         /\ \A x : x # s /\ HupIn(x, batch) => HupIn(x, batch')
         /\ HupIn(s, batch) => Head(batch).hup
<1>1. /\ batch \in Seq(EdgeEvent) /\ batch # <<>> /\ batch' = Tail(batch)
      /\ Head(batch).fd = s /\ phase = "run"
  BY DEF EpollType, Turn
<1>2. PICK b \in Seq(EdgeEvent) : b = batch
  BY <1>1
<1> DEFINE f == Fds(b)
           t == Fds(Tail(b))
<1>3. /\ Tail(b) \in Seq(EdgeEvent) /\ Head(b) \in EdgeEvent
      /\ Len(b) \in Nat /\ Len(b) # 0 /\ Len(Tail(b)) = Len(b) - 1
      /\ \A i \in 1..(Len(b) - 1) : Tail(b)[i] = b[i + 1]
      /\ b[1] = Head(b)
  BY <1>1, <1>2, HeadTailProperties, LenProperties, EmptySeq
<1>4. /\ f \in Seq(Sockets) /\ Len(f) = Len(b) /\ \A i \in 1..Len(b) : f[i] = b[i].fd
      /\ t \in Seq(Sockets) /\ Len(t) = Len(b) - 1
      /\ \A i \in 1..(Len(b) - 1) : t[i] = Tail(b)[i].fd
  BY <1>3, FdsType
<1> HIDE DEF f, t
<1>5. f # <<>> /\ Head(f) = s
  <2>1. f # <<>>
    BY <1>3, <1>4, EmptySeq
  <2>2. Head(f) = f[1] /\ 1 \in 1..Len(b)
    BY <1>3, <1>4, <2>1
  <2>3. QED
    BY <1>1, <1>2, <1>3, <1>4, <2>1, <2>2
<1>6. t = Tail(f)
  <2>1. /\ Tail(f) \in Seq(Sockets) /\ Len(Tail(f)) = Len(b) - 1
        /\ \A i \in 1..(Len(b) - 1) : Tail(f)[i] = f[i + 1]
    BY <1>4, <1>5, HeadTailProperties
  <2>2. ASSUME NEW i \in 1..(Len(b) - 1) PROVE t[i] = Tail(f)[i]
    <3>1. i + 1 \in 1..Len(b)
      BY <1>3
    <3>2. QED
      BY <1>3, <1>4, <2>1, <3>1
  <2>3. QED
    BY <1>4, <2>1, <2>2, SeqEqual
<1>7. /\ IsIn(s, f) /\ \A x : IsIn(x, f) <=> x = s \/ IsIn(x, t)
      /\ Distinct(f) => Distinct(t) /\ ~IsIn(s, t)
  BY <1>4, <1>5, <1>6, TailIn
<1>8. Distinct(f)
  BY <1>2 DEF EventsOK, f
<1>9. f = Fds(batch) /\ t = Fds(batch')
  BY <1>1, <1>2 DEF f, t
<1>11. ASSUME NEW x, HupIn(x, b)
       PROVE  IF x = s THEN Head(b).hup ELSE HupIn(x, Tail(b))
  <2>1. PICK i \in 1..Len(b) : b[i].fd = x /\ b[i].hup
    BY <1>11 DEF HupIn
  <2>2. CASE i = 1
    BY <1>1, <1>2, <1>3, <2>1, <2>2
  <2>3. CASE i # 1
    <3>1. i - 1 \in 1..(Len(b) - 1) /\ Tail(b)[i - 1] = b[i]
      BY <1>3, <2>3
    <3>2. HupIn(x, Tail(b))
      BY <1>3, <2>1, <3>1 DEF HupIn
    <3>3. x # s
      <4>1. t[i - 1] = x /\ i - 1 \in 1..Len(t)
        BY <1>4, <2>1, <3>1
      <4>2. IsIn(x, t) /\ ~IsIn(s, t)
        BY <1>7, <1>8, <4>1 DEF IsIn
      <4>3. QED
        BY <4>2
    <3>4. QED
      BY <3>2, <3>3
  <2>4. QED
    BY <2>2, <2>3
<1>10. QED
  BY <1>1, <1>2, <1>3, <1>7, <1>8, <1>9, <1>11

LEMMA EdgeAdds ==
  ASSUME NEW list \in Seq(Sockets), NEW s \in Sockets
  PROVE  /\ Edge(list, s) \in Seq(Sockets)
         /\ \A x : IsIn(x, Edge(list, s)) <=> x = s \/ IsIn(x, list)
         /\ Distinct(list) => Distinct(Edge(list, s))
<1>1. s \in ToSet(list) <=> IsIn(s, list)
  BY LenProperties DEF ToSet, IsIn
<1>2. CASE IsIn(s, list)
  BY <1>1, <1>2 DEF Edge
<1>3. CASE ~IsIn(s, list)
  BY <1>1, <1>3, InAppend, DistinctAppend, AppendProperties DEF Edge
<1>4. QED
  BY <1>2, <1>3
-----------------------------------------------------------------------------
(* The inductive invariant.                                                *)

LEMMA InitInv == ASSUME EpollInit PROVE IInv
<1>1. Fds(<<>>) = <<>> /\ Len(<<>>) = 0 /\ \A x : ~IsIn(x, <<>>)
  BY DEF Fds, IsIn
<1>2. EpollType /\ NeverBlocks /\ BacklogOK
  BY <1>1, EmptySeq DEF EpollInit, EpollType, NeverBlocks, BacklogOK, Distinct
<1>3. EdgesOK /\ EventsOK /\ Debt /\ Behind /\ ResetSeen
  BY <1>1 DEF EpollInit, EdgesOK, EventsOK, Distinct, Debt, Behind, ResetSeen, One, Readable
<1>4. QED
  BY <1>2, <1>3 DEF IInv

LEMMA WaitInv == ASSUME IInv, EpollWait PROVE IInv'
<1>1. /\ EpollType /\ EdgesOK /\ BacklogOK /\ EventsOK /\ Debt /\ Behind /\ NeverBlocks
      /\ ResetSeen
  BY DEF IInv
<1> DEFINE seen == {s \in Client : Readable(s)} \cup {s \in {Listener} : backlog # <<>>}
<1>2. PICK now : now = Kept(ready, seen)
  OBVIOUS
<1>3. /\ phase = "run" /\ batch = <<>> /\ ready' = <<>>
      /\ batch' = [i \in DOMAIN now |->
                     [fd |-> now[i], hup |-> now[i] # Listener /\ stream[now[i]] = "reset"]]
      /\ UNCHANGED <<phase, fd, owed, short, backlog, stream, written, unread>>
  BY <1>2 DEF EpollWait, Reported
<1>4. ready \in Seq(Sockets) /\ Distinct(ready)
  BY <1>1 DEF EpollType, EdgesOK
<1>5. now \in Seq(Sockets) /\ Distinct(now)
  BY <1>2, <1>4, KeptType, KeptDistinct
<1>6. \A x : IsIn(x, now) <=> IsIn(x, ready) /\ x \in seen
  BY <1>2, <1>4, KeptIn
<1>7. Len(now) \in Nat /\ DOMAIN now = 1..Len(now) /\ \A i \in 1..Len(now) : now[i] \in Sockets
  BY <1>5, LenProperties
<1>8. batch' \in Seq(EdgeEvent)
  BY <1>3, <1>7 DEF EdgeEvent
<1>9. Fds(batch') = now
  <2>1. Fds(batch') \in Seq(Sockets) /\ Len(Fds(batch')) = Len(batch')
        /\ \A i \in 1..Len(batch') : Fds(batch')[i] = batch'[i].fd
    BY <1>8, FdsType
  <2>2. Len(batch') = Len(now) /\ \A i \in 1..Len(now) : batch'[i].fd = now[i]
    BY <1>3, <1>7
  <2>3. QED
    BY <1>5, <1>7, <2>1, <2>2, SeqEqual
<1>10. \A x : ~IsIn(x, <<>>) /\ Distinct(<<>>)
  BY DEF IsIn, Distinct
<1>11. Fds(batch) = <<>>
  BY <1>3 DEF Fds
<1>12. EpollType' /\ NeverBlocks'
  BY <1>1, <1>3, <1>8, EmptySeq DEF EpollType, NeverBlocks
<1>13. BacklogOK'
  BY <1>1, <1>3 DEF BacklogOK
<1>14. EdgesOK'
  BY <1>3, <1>10 DEF EdgesOK
<1>15. EventsOK'
  BY <1>1, <1>3, <1>5, <1>6, <1>9, ListenerAssumption DEF EventsOK, EdgesOK, Readable
<1>16. Debt'
  <2>1. Len(backlog) = owed + One(IsIn(Listener, ready)) /\ owed \in Nat
    BY <1>1, <1>10, <1>11 DEF Debt, One, EpollType
  <2>2. IsIn(Listener, ready) => backlog # <<>>
    BY <2>1 DEF One
  <2>3. IsIn(Listener, now) <=> IsIn(Listener, ready)
    BY <1>6, <2>2
  <2>4. QED
    BY <1>3, <1>9, <1>10, <2>1, <2>3 DEF Debt, One
<1>17. Behind'
  <2>1. ASSUME NEW c \in Client, fd[c] = "open", Readable(c), ~IsIn(c, now)
        PROVE  c \in short
    BY <1>1, <1>3, <1>6, <1>10, <1>11, <2>1 DEF Behind
  <2>2. QED
    BY <1>3, <1>9, <2>1 DEF Behind, Readable
<1>18. ResetSeen'
  <2>1. ASSUME NEW c \in Client, fd[c] = "open", stream[c] = "reset" PROVE HupIn(c, batch')
    <3>1. ~HupIn(c, batch)
      BY <1>3 DEF HupIn
    <3>2. IsIn(c, now)
      BY <1>1, <1>3, <1>6, <2>1, <3>1 DEF ResetSeen, Readable
    <3>3. PICK i \in 1..Len(now) : now[i] = c
      BY <3>2 DEF IsIn
    <3>4. i \in 1..Len(batch')
      BY <1>3, <1>7, <3>3
    <3>5. c # Listener
      BY <2>1, ListenerAssumption
    <3>6. batch'[i].fd = c /\ batch'[i].hup
      <4>1. /\ batch'[i].fd = now[i]
            /\ batch'[i].hup = (now[i] # Listener /\ stream[now[i]] = "reset")
        BY <1>3, <1>7, <3>3, SMT
      <4>2. now[i] # Listener /\ stream[now[i]] = "reset"
        BY <2>1, <3>3, <3>5, Zenon
      <4>3. QED
        BY <3>3, <4>1, <4>2, Zenon
    <3>7. QED
      BY <3>4, <3>6 DEF HupIn
  <2>2. QED
    BY <1>3, <2>1 DEF ResetSeen, HupIn
<1>19. QED
  BY <1>12, <1>13, <1>14, <1>15, <1>16, <1>17, <1>18 DEF IInv

\* Handling an event of a client that leaves backlog and edges alone.
LEMMA HangUpInv == ASSUME IInv, NEW c \in Client, HangUp(c) PROVE IInv'
<1>1. /\ EpollType /\ EdgesOK /\ BacklogOK /\ EventsOK /\ Debt /\ Behind /\ NeverBlocks
      /\ ResetSeen
  BY DEF IInv
<1>2. /\ Turn(c) /\ phase' = "ended"
      /\ UNCHANGED <<fd, owed, short, backlog, stream, written, unread, ready>>
  BY DEF HangUp, kernel
<1>3. /\ batch' \in Seq(EdgeEvent) /\ Distinct(Fds(batch'))
      /\ \A x : x # c => (IsIn(x, Fds(batch')) <=> IsIn(x, Fds(batch)))
      /\ ~IsIn(c, Fds(batch'))
  BY <1>1, <1>2, TurnTakes
<1>4. EpollType' /\ NeverBlocks'
  BY <1>1, <1>2, <1>3 DEF EpollType, NeverBlocks
<1>5. BacklogOK' /\ EdgesOK' /\ Behind' /\ ResetSeen'
  BY <1>1, <1>2 DEF BacklogOK, EdgesOK, Behind, ResetSeen
<1>6. EventsOK'
  BY <1>1, <1>2, <1>3 DEF EventsOK, Readable
<1>7. Debt'
  BY <1>1, <1>2, <1>3, ListenerAssumption DEF Debt, One
<1>8. QED
  BY <1>4, <1>5, <1>6, <1>7 DEF IInv

LEMMA AcceptErrorInv == ASSUME IInv, AcceptError PROVE IInv'
<1>1. /\ EpollType /\ EdgesOK /\ BacklogOK /\ EventsOK /\ Debt /\ Behind /\ NeverBlocks
      /\ ResetSeen
  BY DEF IInv
<1>2. /\ Turn(Listener) /\ owed' = owed + 1
      /\ UNCHANGED <<phase, fd, short, backlog, stream, written, unread, ready>>
  BY DEF AcceptError, kernel
<1>3. /\ batch' \in Seq(EdgeEvent) /\ Distinct(Fds(batch'))
      /\ IsIn(Listener, Fds(batch)) /\ ~IsIn(Listener, Fds(batch'))
      /\ \A x : x # Listener => (IsIn(x, Fds(batch')) <=> IsIn(x, Fds(batch)))
      /\ \A x : x # Listener /\ HupIn(x, batch) => HupIn(x, batch')
  BY <1>1, <1>2, TurnTakes
<1>4. EpollType' /\ NeverBlocks'
  BY <1>1, <1>2, <1>3 DEF EpollType, NeverBlocks
<1>5. BacklogOK' /\ EdgesOK'
  BY <1>1, <1>2 DEF BacklogOK, EdgesOK
<1>6. EventsOK' /\ Behind'
  BY <1>1, <1>2, <1>3, ListenerAssumption DEF EventsOK, Behind, Readable
<1>7. Debt'
  BY <1>1, <1>2, <1>3 DEF Debt, One, EpollType
<1>8. ResetSeen'
  BY <1>1, <1>2, <1>3, ListenerAssumption DEF ResetSeen
<1>9. QED
  BY <1>4, <1>5, <1>6, <1>7, <1>8 DEF IInv

LEMMA OnListenerInv == ASSUME IInv, OnListener PROVE IInv'
<1>1. /\ EpollType /\ EdgesOK /\ BacklogOK /\ EventsOK /\ Debt /\ Behind /\ NeverBlocks
      /\ ResetSeen
  BY DEF IInv
<1>2. Turn(Listener) /\ UNCHANGED <<owed, short, stream, written, unread>>
  BY DEF OnListener
<1>3. /\ batch' \in Seq(EdgeEvent) /\ Distinct(Fds(batch'))
      /\ IsIn(Listener, Fds(batch)) /\ ~IsIn(Listener, Fds(batch'))
      /\ \A x : x # Listener => (IsIn(x, Fds(batch')) <=> IsIn(x, Fds(batch)))
      /\ \A x : x # Listener /\ HupIn(x, batch) => HupIn(x, batch')
  BY <1>1, <1>2, TurnTakes
<1>4. backlog \in Seq(Client) /\ backlog # <<>>
  <2>1. Len(backlog) # 0 /\ backlog \in Seq(Client)
    BY <1>1, <1>3 DEF Debt, One, EpollType
  <2>2. QED
    BY <2>1
<1>5. PICK h \in Client, rest \in Seq(Client) : h = Head(backlog) /\ rest = Tail(backlog)
  BY <1>4, HeadTailProperties
<1>6. /\ Len(backlog) \in Nat /\ Len(backlog) >= 1 /\ Len(rest) = Len(backlog) - 1
      /\ \A x : IsIn(x, backlog) <=> x = h \/ IsIn(x, rest)
      /\ Distinct(rest) /\ ~IsIn(h, rest)
  BY <1>1, <1>4, <1>5, TailIn DEF BacklogOK
<1> DEFINE new == SubSeq(backlog, 1, 1)
<1>7. new \in Seq(Client) /\ Len(new) = 1 /\ new[1] = h
  BY <1>4, <1>5, <1>6
<1>8. SubSeq(backlog, 2, Len(backlog)) = rest
  BY <1>4, <1>5, TailIsSubSeq
<1>9. /\ backlog' = rest /\ phase' = phase
      /\ fd' = [c \in Client |-> IF c \in ToSet(new) THEN "open" ELSE fd[c]]
      /\ ready' = ready \o Kept(new, {c \in Client : Readable(c)})
  BY <1>6, <1>8 DEF OnListener, Accepts
<1> HIDE DEF new
<1>10. \A x : (IsIn(x, new) <=> x = h) /\ (x \in ToSet(new) <=> x = h)
  BY <1>7 DEF IsIn, ToSet
<1>11. fd' = [fd EXCEPT ![h] = "open"]
  BY <1>1, <1>9, <1>10 DEF EpollType
<1> DEFINE add == Kept(new, {c \in Client : Readable(c)})
<1>12. /\ add \in Seq(Client) /\ Distinct(add)
       /\ \A x : IsIn(x, add) <=> x = h /\ Readable(h)
  <2>1. Distinct(new)
    BY <1>7 DEF Distinct
  <2>2. QED
    BY <1>7, <1>10, <2>1, KeptType, KeptDistinct, KeptIn
<1>13. ready' = ready \o add
  BY <1>9
<1> HIDE DEF add
<1>14. fd[h] = "none" /\ stream[h] # "new"
  BY <1>1, <1>6 DEF BacklogOK
<1>15. /\ ready' \in Seq(Sockets) /\ Distinct(ready')
       /\ \A x : IsIn(x, ready') <=> IsIn(x, ready) \/ (x = h /\ Readable(h))
  <2>1. ready \in Seq(Sockets) /\ add \in Seq(Sockets) /\ Distinct(ready)
    BY <1>1, <1>12 DEF EpollType, EdgesOK, Sockets
  <2>2. \A x : ~(IsIn(x, ready) /\ IsIn(x, add))
    BY <1>1, <1>12, <1>14 DEF EdgesOK
  <2>3. QED
    BY <1>12, <1>13, <2>1, <2>2, ConcatIn
<1>16. /\ fd'[h] = "open" /\ \A c \in Client : c # h => fd'[c] = fd[c]
  BY <1>1, <1>11 DEF EpollType
<1>17. EpollType' /\ NeverBlocks'
  BY <1>1, <1>2, <1>3, <1>9, <1>11, <1>15 DEF EpollType, NeverBlocks
<1>18. BacklogOK'
  BY <1>1, <1>2, <1>6, <1>9, <1>14, <1>16 DEF BacklogOK
<1>19. EdgesOK'
  BY <1>1, <1>15, <1>16 DEF EdgesOK
<1>20. EventsOK'
  BY <1>1, <1>2, <1>3, <1>14, <1>16, ListenerAssumption DEF EventsOK, Readable
<1>21. Debt'
  <2>1. IsIn(Listener, ready') <=> IsIn(Listener, ready)
    BY <1>15, ListenerAssumption
  <2>2. QED
    BY <1>1, <1>2, <1>3, <1>6, <1>9, <2>1 DEF Debt, One, EpollType
<1>22. Behind'
  BY <1>1, <1>2, <1>3, <1>9, <1>15, <1>16, ListenerAssumption DEF Behind, Readable
<1>23. ResetSeen'
  BY <1>1, <1>2, <1>3, <1>9, <1>15, <1>16, ListenerAssumption DEF ResetSeen, Readable
<1>24. QED
  BY <1>17, <1>18, <1>19, <1>20, <1>21, <1>22, <1>23 DEF IInv

LEMMA OnClientInv == ASSUME IInv, NEW c \in Client, OnClient(c) PROVE IInv'
<1>1. /\ EpollType /\ EdgesOK /\ BacklogOK /\ EventsOK /\ Debt /\ Behind /\ NeverBlocks
      /\ ResetSeen
  BY DEF IInv
<1>2. Turn(c) /\ ~Head(batch).hup /\ UNCHANGED <<owed, backlog, stream, written>>
  BY DEF OnClient
<1>3. /\ batch' \in Seq(EdgeEvent) /\ phase = "run" /\ Distinct(Fds(batch'))
      /\ IsIn(c, Fds(batch)) /\ ~IsIn(c, Fds(batch'))
      /\ \A x : x # c => (IsIn(x, Fds(batch')) <=> IsIn(x, Fds(batch)))
      /\ \A x : x # c /\ HupIn(x, batch) => HupIn(x, batch')
      /\ ~HupIn(c, batch)
  BY <1>1, <1>2, TurnTakes
<1>4. Readable(c) /\ fd[c] = "open"
  BY <1>1, <1>3 DEF EventsOK
<1>5. IsIn(Listener, Fds(batch')) <=> IsIn(Listener, Fds(batch))
  BY <1>3, ListenerAssumption
<1>6. CASE unread[c] > 0
  <2>1. /\ unread' = [unread EXCEPT ![c] = @ - RecvLen(c)]
        /\ short' = IF RecvLen(c) = BufLen \/ stream[c] = "fin"
                    THEN short \cup {c} ELSE short \ {c}
        /\ UNCHANGED <<phase, fd, ready>>
    BY <1>6 DEF OnClient
  <2>2. unread[c] \in Nat /\ BufLen \in Nat \ {0}
    BY <1>1, SizeAssumption DEF EpollType
  <2>3. /\ RecvLen(c) \in Nat /\ RecvLen(c) <= unread[c]
        /\ RecvLen(c) # BufLen => RecvLen(c) = unread[c]
    BY <2>2 DEF RecvLen
  <2>4. /\ unread'[c] \in Nat /\ (RecvLen(c) # BufLen => unread'[c] = 0)
        /\ \A d \in Client : d # c => unread'[d] = unread[d]
    BY <1>1, <2>1, <2>2, <2>3 DEF EpollType
  <2>5. EpollType' /\ NeverBlocks'
    <3>1. unread' \in [Client -> Nat]
      BY <1>1, <2>1, <2>4 DEF EpollType
    <3>2. QED
      BY <1>1, <1>2, <1>3, <2>1, <3>1 DEF EpollType, NeverBlocks
  <2>6. BacklogOK' /\ EdgesOK' /\ Debt'
    BY <1>1, <1>2, <1>5, <2>1 DEF BacklogOK, EdgesOK, Debt, One
  <2>7. EventsOK'
    BY <1>1, <1>2, <1>3, <2>1, <2>4 DEF EventsOK, Readable
  <2>8. Behind'
    <3>1. ASSUME NEW d \in Client, fd[d] = "open", Readable(d)',
                 ~IsIn(d, ready), ~IsIn(d, Fds(batch'))
          PROVE  d \in short'
      <4>1. CASE d = c
        <5>1. RecvLen(c) = BufLen \/ stream[c] = "fin"
          <6>1. stream[c] # "reset"
            BY <1>1, <1>3, <3>1, <4>1 DEF ResetSeen
          <6>2. QED
            BY <1>2, <1>6, <2>4, <3>1, <4>1, <6>1 DEF Readable
        <5>2. QED
          BY <2>1, <4>1, <5>1
      <4>2. CASE d # c
        <5>1. Readable(d)
          BY <1>2, <2>4, <3>1, <4>2 DEF Readable
        <5>2. d \in short
          BY <1>1, <1>3, <3>1, <4>2, <5>1 DEF Behind
        <5>3. QED
          BY <2>1, <4>2, <5>2
      <4>3. QED
        BY <4>1, <4>2
    <3>2. QED
      BY <2>1, <3>1 DEF Behind
  <2>9. ResetSeen'
    <3>1. ASSUME NEW d \in Client, fd[d] = "open", stream[d] = "reset", ~IsIn(d, ready)
          PROVE  HupIn(d, batch')
      BY <1>1, <1>3, <3>1 DEF ResetSeen
    <3>2. QED
      BY <1>2, <2>1, <3>1 DEF ResetSeen, HupIn
  <2>10. QED
    BY <2>5, <2>6, <2>7, <2>8, <2>9 DEF IInv
<1>7. CASE ~(unread[c] > 0)
  <2>1. /\ fd' = [fd EXCEPT ![c] = "closed"]
        /\ ready' = Kept(ready, {Listener} \cup (Client \ {c}))
        /\ UNCHANGED <<phase, unread, short>>
    BY <1>4, <1>7 DEF OnClient, Close
  <2>2. ready \in Seq(Sockets) /\ Distinct(ready)
    BY <1>1 DEF EpollType, EdgesOK
  <2>3. /\ ready' \in Seq(Sockets) /\ Distinct(ready')
        /\ \A x : IsIn(x, ready') <=> IsIn(x, ready) /\ x \in {Listener} \cup (Client \ {c})
    BY <2>1, <2>2, KeptType, KeptDistinct, KeptIn
  <2>4. /\ IsIn(Listener, ready') <=> IsIn(Listener, ready)
        /\ ~IsIn(c, ready')
        /\ \A d \in Client : d # c => (IsIn(d, ready') <=> IsIn(d, ready))
    BY <2>3, ListenerAssumption
  <2>5. fd'[c] = "closed" /\ \A d \in Client : d # c => fd'[d] = fd[d]
    BY <1>1, <2>1 DEF EpollType
  <2>6. EpollType' /\ NeverBlocks'
    BY <1>1, <1>2, <1>3, <2>1, <2>3 DEF EpollType, NeverBlocks
  <2>7. BacklogOK'
    BY <1>1, <1>2, <1>4, <2>5 DEF BacklogOK
  <2>8. EdgesOK'
    BY <1>1, <2>3, <2>4, <2>5 DEF EdgesOK
  <2>9. EventsOK'
    BY <1>1, <1>2, <1>3, <2>1, <2>5 DEF EventsOK, Readable
  <2>10. Debt'
    BY <1>1, <1>2, <1>5, <2>4 DEF Debt, One
  <2>11. Behind'
    BY <1>1, <1>2, <1>3, <2>1, <2>4, <2>5 DEF Behind, Readable
  <2>12. ResetSeen'
    <3>1. ASSUME NEW d \in Client, d # c, fd[d] = "open", stream[d] = "reset", ~IsIn(d, ready)
          PROVE  HupIn(d, batch')
      BY <1>1, <1>3, <3>1 DEF ResetSeen
    <3>2. QED
      BY <1>2, <2>4, <2>5, <3>1 DEF ResetSeen, HupIn
  <2>13. QED
    BY <2>6, <2>7, <2>8, <2>9, <2>10, <2>11, <2>12 DEF IInv
<1>8. QED
  BY <1>6, <1>7

LEMMA ConnectInv == ASSUME IInv, NEW c \in Client, ClientConnects(c) PROVE IInv'
<1>1. /\ EpollType /\ EdgesOK /\ BacklogOK /\ EventsOK /\ Debt /\ Behind /\ NeverBlocks
      /\ ResetSeen
  BY DEF IInv
<1>2. /\ stream[c] = "new" /\ stream' = [stream EXCEPT ![c] = "up"]
      /\ backlog' = Append(backlog, c)
      /\ owed' = IF Listener \in ToSet(ready) THEN owed + 1 ELSE owed
      /\ ready' = Edge(ready, Listener)
      /\ UNCHANGED <<phase, fd, batch, short, written, unread>>
  BY DEF ClientConnects
<1>3. /\ fd[c] = "none" /\ ~IsIn(c, backlog)
  BY <1>1, <1>2 DEF BacklogOK
<1>4. /\ backlog \in Seq(Client) /\ ready \in Seq(Sockets) /\ Listener \in Sockets
      /\ Distinct(backlog) /\ Distinct(ready)
  BY <1>1 DEF EpollType, BacklogOK, EdgesOK, Sockets
<1>5. /\ backlog' \in Seq(Client) /\ Len(backlog') = Len(backlog) + 1 /\ Distinct(backlog')
      /\ \A x : IsIn(x, backlog') <=> x = c \/ IsIn(x, backlog)
  BY <1>2, <1>3, <1>4, InAppend, DistinctAppend, AppendProperties
<1>6. /\ ready' \in Seq(Sockets) /\ Distinct(ready')
      /\ \A x : IsIn(x, ready') <=> x = Listener \/ IsIn(x, ready)
  BY <1>2, <1>4, EdgeAdds
<1>7. Listener \in ToSet(ready) <=> IsIn(Listener, ready)
  BY <1>4, LenProperties DEF ToSet, IsIn
<1>8. /\ stream'[c] = "up" /\ \A d \in Client : d # c => stream'[d] = stream[d]
  BY <1>1, <1>2 DEF EpollType
<1>9. EpollType' /\ NeverBlocks'
  BY <1>1, <1>2, <1>5, <1>6 DEF EpollType, NeverBlocks
<1>10. BacklogOK'
  BY <1>1, <1>2, <1>3, <1>5, <1>8 DEF BacklogOK
<1>11. EdgesOK'
  BY <1>1, <1>2, <1>6, ListenerAssumption DEF EdgesOK
<1>12. EventsOK'
  BY <1>1, <1>2, <1>3, <1>8 DEF EventsOK, Readable
<1>13. Debt'
  BY <1>1, <1>2, <1>4, <1>5, <1>6, <1>7, LenProperties DEF Debt, One, EpollType
<1>14. Behind'
  BY <1>1, <1>2, <1>3, <1>6, <1>8, ListenerAssumption DEF Behind, Readable
<1>15. ResetSeen'
  BY <1>1, <1>2, <1>3, <1>6, <1>8 DEF ResetSeen, HupIn
<1>16. QED
  BY <1>9, <1>10, <1>11, <1>12, <1>13, <1>14, <1>15 DEF IInv

\* Something happens on the socket of a client.
LEMMA ArrivalInv ==
  ASSUME IInv, NEW c \in Client, Happens(c), UNCHANGED <<phase, fd, batch, owed, short, backlog>>,
         stream' \in [Client -> {"new", "up", "fin", "reset"}],
         written' \in [Client -> Nat], unread' \in [Client -> Nat],
         stream[c] # "new", Readable(c)',
         \A d \in Client : d # c => stream'[d] = stream[d] /\ unread'[d] = unread[d],
         stream'[c] # "new"
  PROVE  IInv'
<1>1. /\ EpollType /\ EdgesOK /\ BacklogOK /\ EventsOK /\ Debt /\ Behind /\ NeverBlocks
      /\ ResetSeen
  BY DEF IInv
<1>2. ready \in Seq(Sockets) /\ c \in Sockets /\ Distinct(ready)
  BY <1>1 DEF EpollType, EdgesOK, Sockets
<1>3. /\ ready' \in Seq(Sockets) /\ Distinct(ready')
      /\ \A x : x # c => (IsIn(x, ready') <=> IsIn(x, ready))
      /\ fd[c] = "open" => IsIn(c, ready')
      /\ fd[c] # "open" => ready' = ready
  BY <1>2, EdgeAdds DEF Happens
<1>4. IsIn(Listener, ready') <=> IsIn(Listener, ready)
  BY <1>3, ListenerAssumption
<1>5. EpollType' /\ NeverBlocks'
  BY <1>1, <1>3 DEF EpollType, NeverBlocks
<1>6. BacklogOK'
  BY <1>1 DEF BacklogOK
<1>7. EdgesOK'
  BY <1>1, <1>3 DEF EdgesOK
<1>8. EventsOK'
  BY <1>1 DEF EventsOK, Readable
<1>9. Debt'
  BY <1>1, <1>4 DEF Debt, One
<1>10. Behind'
  BY <1>1, <1>3 DEF Behind, Readable
<1>11. ResetSeen'
  BY <1>1, <1>3 DEF ResetSeen, HupIn
<1>12. QED
  BY <1>5, <1>6, <1>7, <1>8, <1>9, <1>10, <1>11 DEF IInv

LEMMA SegmentInv ==
  ASSUME IInv, NEW c \in Client, NEW n \in 1..MaxSent, Segment(c, n) PROVE IInv'
<1>1. /\ written \in [Client -> Nat] /\ unread \in [Client -> Nat] /\ n \in Nat /\ n > 0
      /\ stream \in [Client -> {"new", "up", "fin", "reset"}]
  BY SizeAssumption DEF IInv, EpollType
<1>2. /\ Happens(c) /\ stream[c] = "up"
      /\ UNCHANGED <<phase, fd, batch, owed, short, backlog, stream>>
      /\ written' = [written EXCEPT ![c] = @ + n]
      /\ unread' = [unread EXCEPT ![c] = @ + n]
  BY DEF Segment
<1>3. /\ unread'[c] > 0 /\ written' \in [Client -> Nat] /\ unread' \in [Client -> Nat]
      /\ \A d \in Client : d # c => unread'[d] = unread[d]
  BY <1>1, <1>2
<1>4. Readable(c)'
  BY <1>3 DEF Readable
<1>5. QED
  BY <1>1, <1>2, <1>3, <1>4, ArrivalInv

LEMMA LeaveInv ==
  ASSUME IInv, NEW c \in Client, NEW how \in {"fin", "reset"}, Leave(c, how) PROVE IInv'
<1>1. /\ written \in [Client -> Nat] /\ unread \in [Client -> Nat]
      /\ stream \in [Client -> {"new", "up", "fin", "reset"}]
  BY DEF IInv, EpollType
<1>2. /\ Happens(c) /\ stream[c] # "new"
      /\ UNCHANGED <<phase, fd, batch, owed, short, backlog, written, unread>>
      /\ stream' = [stream EXCEPT ![c] = how]
  BY DEF Leave
<1>3. /\ stream'[c] = how /\ stream' \in [Client -> {"new", "up", "fin", "reset"}]
      /\ unread' \in [Client -> Nat]
      /\ \A d \in Client : d # c => stream'[d] = stream[d] /\ unread'[d] = unread[d]
  BY <1>1, <1>2
<1>4. Readable(c)' /\ stream'[c] # "new"
  BY <1>3 DEF Readable
<1>5. QED
  BY <1>1, <1>2, <1>3, <1>4, ArrivalInv

LEMMA NextInv == ASSUME IInv, [EpollNext]_epollVars PROVE IInv'
<1>1. CASE UNCHANGED epollVars
  <2>1. UNCHANGED <<phase, fd, batch, owed, short, backlog, stream, written, unread, ready>>
    BY <1>1 DEF epollVars, kernel
  <2>2. EpollType' /\ NeverBlocks' /\ BacklogOK' /\ EdgesOK' /\ EventsOK' /\ Debt' /\ Behind'
        /\ ResetSeen'
    BY <2>1 DEF IInv, EpollType, NeverBlocks, BacklogOK, EdgesOK, EventsOK, Debt, Behind, Readable,
                ResetSeen, HupIn
  <2>3. QED
    BY <2>2 DEF IInv
<1>2. CASE EpollWait
  BY <1>2, WaitInv
<1>3. CASE OnListener
  BY <1>3, OnListenerInv
<1>4. CASE AcceptError
  BY <1>4, AcceptErrorInv
<1>5. ASSUME NEW c \in Client, HangUp(c) PROVE IInv'
  BY <1>5, HangUpInv
<1>6. ASSUME NEW c \in Client, OnClient(c) PROVE IInv'
  BY <1>6, OnClientInv
<1>7. ASSUME NEW c \in Client, ClientConnects(c) PROVE IInv'
  BY <1>7, ConnectInv
<1>8. ASSUME NEW c \in Client, NEW n \in 1..MaxSent, Segment(c, n) PROVE IInv'
  BY <1>8, SegmentInv
<1>9. ASSUME NEW c \in Client, NEW how \in {"fin", "reset"}, Leave(c, how) PROVE IInv'
  BY <1>9, LeaveInv
<1>10. QED
  BY <1>1, <1>2, <1>3, <1>4, <1>5, <1>6, <1>7, <1>8, <1>9 DEF EpollNext

LEMMA Invariance == EpollSpec => []IInv
<1>1. EpollInit => IInv
  BY InitInv
<1>2. IInv /\ [EpollNext]_epollVars => IInv'
  BY NextInv
<1>3. QED
  BY <1>1, <1>2, PTL DEF EpollSpec
-----------------------------------------------------------------------------
(* Theorems.                                                               *)

\* Reports and AcceptDebt speak of the lists as IInv does.
LEMMA ListsAsSets ==
  ASSUME EpollType, NEW s
  PROVE  /\ s \in ToSet(ready) <=> IsIn(s, ready)
         /\ (\E i \in DOMAIN batch : batch[i].fd = s) <=> IsIn(s, Fds(batch))
<1>1. ready \in Seq(Sockets) /\ batch \in Seq(EdgeEvent)
  BY DEF EpollType
<1>2. DOMAIN ready = 1..Len(ready) /\ DOMAIN batch = 1..Len(batch)
  BY <1>1, LenProperties
<1>3. Len(Fds(batch)) = Len(batch) /\ \A i \in 1..Len(batch) : Fds(batch)[i] = batch[i].fd
  BY <1>1, FdsType
<1>4. QED
  BY <1>2, <1>3 DEF ToSet, IsIn

\* accept and recv are only called for events that are still true, so that
\* no call on a blocking socket ever stops the server.
THEOREM CallsNeverWait == EpollSpec => []NeverBlocks
<1>1. IInv => NeverBlocks
  BY DEF IInv
<1>2. QED
  BY <1>1, Invariance, PTL

\* One accept for each edge: the clients that are connected and wait are the
\* edges under way and those that shared an edge or met a failing accept.
THEOREM NeverCatchesUp == EpollSpec => []AcceptDebt
<1>1. ASSUME IInv PROVE AcceptDebt
  <2>1. EpollType /\ Debt
    BY <1>1 DEF IInv
  <2>2. QED
    BY <2>1, ListsAsSets DEF Debt, One, AcceptDebt
<1>2. QED
  BY <1>1, Invariance, PTL

\* A socket is left readable, with no edge under way, only behind a recv
\* that filled its buffer or found end-of-file behind the last data.
THEOREM ReadsAllItCan == EpollSpec => []LeftBehindShortRead
<1>1. ASSUME IInv PROVE LeftBehindShortRead
  <2>1. EpollType /\ Behind
    BY <1>1 DEF IInv
  <2>2. QED
    BY <2>1, ListsAsSets DEF Behind, LeftBehindShortRead, Reports
<1>2. QED
  BY <1>1, Invariance, PTL
=============================================================================
