------------------------------- MODULE OneShot -------------------------------
(***************************************************************************)
(* The servers that say one thing and end the conversation: time.cc and    *)
(* daytime.cc of 5_tcp_demo and the stages finger03 to finger06 of         *)
(* 2_finger, with the client of time_client.cc and others like it.  They   *)
(* share nothing between connections, so there is one.                     *)
(*                                                                         *)
(* The client's input is a number of lines of LineLen bytes, a user's name *)
(* and CRLF, that arrive cut anywhere.  A reply is the sequence of its     *)
(* bytes; those of the time server are digits to the base Byte.            *)
(* A definition with a suffix is a seeded fault of the one that follows.   *)
(***************************************************************************)
EXTENDS Integers, Sequences, MuduoConn

CONSTANTS Byte,       \* the values of a byte: 256
          Times,      \* what ::time() may return
          LineLen,    \* bytes of a line
          MaxLines    \* bound: lines the client sends

ASSUME OneShotAssumption ==
  Byte \in Nat \ {0, 1} /\ Times \subseteq Nat /\ LineLen \in Nat \ {0, 1} /\ MaxLines \in Nat

VARIABLES
  program,   \* which server runs; never changes
  clock,     \* ::time() when the connection came up
  conn,      \* the server's TcpConnection
  client,    \* "new", "up", then "done" if it read end-of-file, else "left"
  sent,      \* the lines the client has sent, by their names
  got, kept, \* bytes that came into the server's input buffer, first one kept
  read,      \* bytes of the reply the client has read
  shown      \* the times the client has logged

vars == <<program, clock, conn, client, sent, got, kept, read, shown>>

Init ==
  /\ program \in {"time", "daytime", "finger03", "finger04", "finger05", "finger06"}
  /\ clock \in Times
  /\ conn = Connecting /\ client = "new"
  /\ sent = <<>> /\ got = 0 /\ kept = 0 /\ read = 0 /\ shown = <<>>
-----------------------------------------------------------------------------
(* Four bytes of time.                                                     *)

Word == Byte * Byte * Byte * Byte

\* static_cast<int32_t>
Int32(n) == IF n % Word < Word \div 2 THEN n % Word ELSE (n % Word) - Word

HostToNetwork32(n) ==
  <<(n \div (Byte * Byte * Byte)) % Byte, (n \div (Byte * Byte)) % Byte,
    (n \div Byte) % Byte, n % Byte>>

\* peekInt32
PeekInt32(b) == Int32(((b[1] * Byte + b[2]) * Byte + b[3]) * Byte + b[4])
-----------------------------------------------------------------------------
(* The server.                                                             *)

Gone == client \in {"done", "left"}

Text == <<"t", "e", "x", "t">>
CRLF == <<"CR", "LF">>
Name == {"yqq", "nobody"}

\* getUser, with the one user that main inserts
GetUser(name) == IF name = "yqq" THEN Text ELSE <<>>

\* What the program has to say, finger03 and finger04 nothing.
ReplyTo(name) == CASE program = "time" -> HostToNetwork32(clock)
                   [] program \in {"daytime", "finger05"} -> Text
                   [] program = "finger06" -> GetUser(name) \o CRLF
                   [] program \in {"finger03", "finger04"} -> <<>>

Say_ShutdownFirst(k, name) ==
  {o.conn : o \in Send(Shutdown(k), ReplyTo(name), Gone)}

Say_NoShutdown(k, name) == {o.conn : o \in Send(k, ReplyTo(name), Gone)}

\* send, where there is something to send, and shutdown.
Say(k, name) == {Shutdown(o.conn) : o \in Send(k, ReplyTo(name), Gone)}

\* onConnection
OnConnection ==
  /\ client # "new" /\ conn.state = "kConnecting"
  /\ LET k == ConnectEstablished(conn) IN
     conn' \in (IF program \in {"time", "daytime", "finger03"} THEN Say(k, "") ELSE {k})
  /\ UNCHANGED <<program, clock, client, sent, got, kept, read, shown>>

\* findCRLF() in the bytes from the kept-th to the g-th
FindCRLF(g) == \E n \in 1..Len(sent) : kept < n * LineLen - 1 /\ n * LineLen <= g

\* the first line whose end is in the input buffer
FirstLine(g) == CHOOSE n \in 1..Len(sent) :
  /\ kept < n * LineLen - 1 /\ n * LineLen <= g
  /\ \A m \in 1..(n - 1) : m * LineLen - 1 <= kept

\* What the message callback retrieves: finger04 all, inside a log statement
\* that the default level evaluates, finger05 nothing, finger06 the line.  The
\* default callback of the others discards all.
Retrieve(g) ==
  CASE program \in {"time", "daytime", "finger03"} -> g
    [] program = "finger04" -> IF FindCRLF(g) THEN g ELSE kept
    [] program = "finger05" -> kept
    [] program = "finger06" -> IF FindCRLF(g) THEN FirstLine(g) * LineLen ELSE kept

\* onMessage
OnMessage(g) ==
  /\ conn.state \in {"kConnected", "kDisconnecting"}
  /\ got < g /\ g <= Len(sent) * LineLen
  /\ got' = g
  /\ kept' = Retrieve(g)
  /\ conn' \in (IF program \in {"finger04", "finger05", "finger06"} /\ FindCRLF(g)
                THEN Say(conn, sent[FirstLine(g)]) ELSE {conn})
  /\ UNCHANGED <<program, clock, client, sent, read, shown>>

OnWritable ==
  /\ \E o \in HandleWrite(conn) : conn' = o.conn
  /\ UNCHANGED <<program, clock, client, sent, got, kept, read, shown>>

OnDown ==
  /\ Gone /\ conn.state \in {"kConnected", "kDisconnecting"}
  /\ conn' = HandleClose(conn)
  /\ UNCHANGED <<program, clock, client, sent, got, kept, read, shown>>
-----------------------------------------------------------------------------
(* The client.                                                             *)

Connect ==
  /\ client = "new" /\ client' = "up"
  /\ UNCHANGED <<program, clock, conn, sent, got, kept, read, shown>>

SendLine ==
  /\ client = "up" /\ Len(sent) < MaxLines
  /\ \E name \in Name : sent' = Append(sent, name)
  /\ UNCHANGED <<program, clock, conn, client, got, kept, read, shown>>

Enough_AnyBytes(n) == n > 0

\* readableBytes() >= sizeof(int32_t)
Enough(n) == n >= 4

\* onMessage of the time client, with the reply up to the n-th byte; bytes
\* that it does not retrieve stay in its buffer.
ClientOnMessage(n) ==
  LET retrieved == 4 * Len(shown) IN
  /\ client = "up" /\ read < n /\ n <= Len(conn.wire)
  /\ read' = n
  /\ shown' = IF program = "time" /\ Enough(n - retrieved)
              THEN Append(shown, PeekInt32([i \in 1..4 |->
                     IF retrieved + i <= n THEN conn.wire[retrieved + i] ELSE 0]))
              ELSE shown
  /\ UNCHANGED <<program, clock, conn, client, sent, got, kept>>

\* Its connection ends when it reads end-of-file, or at any time.
ClientSeesFin ==
  /\ client = "up" /\ conn.fin /\ read = Len(conn.wire)
  /\ client' = "done"
  /\ UNCHANGED <<program, clock, conn, sent, got, kept, read, shown>>

ClientLeaves ==
  /\ client = "up" /\ client' = "left"
  /\ UNCHANGED <<program, clock, conn, sent, got, kept, read, shown>>

\* The longest reply
MaxReply == Len(Text) + Len(CRLF)

ServerReads == \E g \in 1..(MaxLines * LineLen) : OnMessage(g)
ClientReads == \E n \in 1..MaxReply : ClientOnMessage(n)

Next == \/ OnConnection \/ ServerReads \/ OnWritable \/ OnDown
        \/ Connect \/ SendLine \/ ClientReads \/ ClientSeesFin \/ ClientLeaves

\* Both loops serve what is ready.
Spec == /\ Init /\ [][Next]_vars
        /\ WF_vars(OnConnection) /\ WF_vars(ServerReads) /\ WF_vars(OnWritable)
        /\ WF_vars(ClientReads) /\ WF_vars(ClientSeesFin)
-----------------------------------------------------------------------------
(* Properties.                                                             *)

\* The programs that wait for a line.
Waits == program \in {"finger04", "finger05", "finger06"}

\* However the input is cut, however many lines it has and however slowly
\* the client reads, it is told the one reply to its first line, never part of
\* it and never a second one, and end-of-file comes after all of it.
OneWholeReply ==
  client # "left" =>
    LET reply == ReplyTo(IF Waits THEN sent[1] ELSE "") IN
    /\ conn.wire \o conn.out # <<>> => conn.wire \o conn.out = reply
    /\ conn.fin => conn.wire = reply

\* The client logs one time at most and it is the server's, until the seconds
\* outgrow 31 bits: then it is too small by the whole range of the word.  If
\* the server ended the conversation, the client has logged a time.
TimeShown ==
  /\ shown # <<>> => shown = <<Int32(clock)>>
  /\ clock < Word \div 2 => shown \in {<<>>, <<clock>>}
  /\ program = "time" /\ client = "done" => shown # <<>>

\* A client that stays, and sends a line if the server waits for one, reads
\* end-of-file.
ConversationEnds ==
  client = "up" /\ (Waits => sent # <<>>) ~> client # "up"
=============================================================================
