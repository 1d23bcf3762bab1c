------------------------------- MODULE IdleEcho -------------------------------
(***************************************************************************)
(* The echo server of 10_idleconnections/echo.cc: it echoes every message  *)
(* and kicks out idle connections with a timing wheel.  The wheel is a     *)
(* circular buffer of buckets of shared pointers to Entry objects; each    *)
(* connection has one Entry, and its context holds a weak pointer to it.   *)
(* The last shared pointer to go runs ~Entry, which shuts the connection   *)
(* down.  A timer pushes an empty bucket, overwriting the oldest one.      *)
(*                                                                         *)
(* Everything runs in one loop thread, so a callback is one action.  The   *)
(* messages of a client are numbered 1, 2, ...                             *)
(***************************************************************************)
EXTENDS Naturals, Sequences, FiniteSets, MuduoConn

CONSTANTS Conn,       \* the connections the server may ever accept
          NBuckets,   \* nIdleSeconds, the capacity of _m_connBuckets
          MaxMsgs     \* bound: messages one client sends

ASSUME NBucketsAssumption == NBuckets \in Nat \ {0}
ASSUME MaxMsgsAssumption == MaxMsgs \in Nat

VARIABLES
  buckets,   \* _m_connBuckets: buckets[NBuckets] is back(), buckets[1] front()
  conn,      \* conn[c]: the TcpConnection
  object,    \* object[c]: lifetime of that TcpConnection
  peer,      \* peer[c]: "open" until the client closes its socket
  sent,      \* sent[c]: messages the client has sent
  read,      \* read[c]: messages onMessage has read
  accepted,  \* accepted[c]: messages read while connected (history)
  quiet      \* quiet[c]: timer ticks since the last message (history)

vars == <<buckets, conn, object, peer, sent, read, accepted, quiet>>

Bucket == 1..NBuckets
Message == 1..MaxMsgs

\* TcpServer holds a live connection, the queued connectDestroyed a doomed one.
Lifetime == {"unborn", "live", "doomed", "freed"}

TypeOK ==
  /\ buckets \in [Bucket -> SUBSET Conn]
  /\ conn \in [Conn -> Connection(Message)]
  /\ object \in [Conn -> Lifetime]
  /\ peer \in [Conn -> {"open", "closed"}]
  /\ sent \in [Conn -> 0..MaxMsgs]
  /\ read \in [Conn -> 0..MaxMsgs]
  /\ accepted \in [Conn -> 0..MaxMsgs]
  /\ quiet \in [Conn -> 0..NBuckets]

Init ==
  /\ buckets = [i \in Bucket |-> {}]
  /\ conn = [c \in Conn |-> Connecting]
  /\ object = [c \in Conn |-> "unborn"]
  /\ peer = [c \in Conn |-> "open"]
  /\ sent = [c \in Conn |-> 0]
  /\ read = [c \in Conn |-> 0]
  /\ accepted = [c \in Conn |-> 0]
  /\ quiet = [c \in Conn |-> 0]
-----------------------------------------------------------------------------
(* The wheel.  An Entry is named by its connection.  A definition whose    *)
(* name has a suffix is a seeded fault of the one that follows it; no      *)
(* specification uses it.                                                  *)

EntryAlive_NoLock(c) == TRUE

\* weakEntry.lock() succeeds while some bucket owns the Entry.
EntryAlive(c) == \E i \in Bucket : c \in buckets[i]

InsertBack_Front(c) == [buckets EXCEPT ![1] = @ \cup {c}]

InsertBack_Forgotten(c) == IF EntryAlive(c) THEN buckets
                           ELSE [buckets EXCEPT ![NBuckets] = @ \cup {c}]

\* _m_connBuckets.back().insert(entry)
InsertBack(c) == [buckets EXCEPT ![NBuckets] = @ \cup {c}]

PushBucket_Grows ==
  [i \in 1..NBuckets + 1 |-> IF i <= NBuckets THEN buckets[i] ELSE {}]

\* _m_connBuckets.push_back(Bucket()) on the full circular buffer
PushBucket == [i \in Bucket |-> IF i < NBuckets THEN buckets[i + 1] ELSE {}]

Dying_RawPointers == buckets[1]

\* The entries whose only owner is the bucket that is overwritten.
Dying == {c \in buckets[1] : \A i \in Bucket \ {1} : c \notin buckets[i]}

EntryDtor_SkipsBusy(c) ==
  IF object[c] # "freed" /\ ~Writing(conn[c]) THEN Shutdown(conn[c]) ELSE conn[c]

EntryDtor_CutsSocket(c) ==
  IF object[c] = "live" THEN [conn[c] EXCEPT !.state = "kDisconnecting", !.fin = TRUE]
                        ELSE conn[c]

EntryDtor_Unchecked(c) ==
  IF object[c] # "freed" THEN ShutdownInLoop([conn[c] EXCEPT !.state = "kDisconnecting"])
                         ELSE conn[c]

\* ~Entry: shut the connection down if the weak pointer still locks.
EntryDtor(c) == IF object[c] # "freed" THEN Shutdown(conn[c]) ELSE conn[c]
-----------------------------------------------------------------------------
(* The callbacks of the server.                                            *)

\* A client connects: onConnection with the connection up.
Accept(c) ==
  /\ object[c] = "unborn"
  /\ object' = [object EXCEPT ![c] = "live"]
  /\ conn' = [conn EXCEPT ![c] = ConnectEstablished(@)]
  /\ buckets' = InsertBack(c)
  /\ quiet' = [quiet EXCEPT ![c] = 0]
  /\ UNCHANGED <<peer, sent, read, accepted>>

Unread_OnlyFirst(c) == <<read[c] + 1>>

\* All unread messages, as retrieveAllAsString returns them.
Unread(c) == [i \in 1..(sent[c] - read[c]) |-> read[c] + i]

\* onMessage: echo what was read, then put the entry in the last bucket if
\* it still exists.
OnMessage(c) ==
  /\ object[c] = "live"
  /\ read[c] < sent[c]
  /\ \E o \in Send(conn[c], Unread(c), peer[c] = "closed") :
       conn' = [conn EXCEPT ![c] = o.conn]
  /\ buckets' = IF EntryAlive(c) THEN InsertBack(c) ELSE buckets
  /\ quiet' = [quiet EXCEPT ![c] = 0]
  /\ read' = [read EXCEPT ![c] = sent[c]]
  /\ accepted' = [accepted EXCEPT
                    ![c] = IF conn[c].state = "kConnected" THEN sent[c] ELSE @]
  /\ UNCHANGED <<object, peer, sent>>

\* onConnection with the connection down, after end-of-file or a reset (a
\* reset discards what is still unread).  It only logs; the library then
\* drops the connection from the server and queues connectDestroyed.
OnDown(c) ==
  /\ object[c] = "live"
  /\ peer[c] = "closed"
  /\ conn' = [conn EXCEPT ![c] = HandleClose(@)]
  /\ object' = [object EXCEPT ![c] = "doomed"]
  /\ UNCHANGED <<buckets, peer, sent, read, accepted, quiet>>

\* connectDestroyed runs and releases the last reference.
ConnectDestroyed(c) ==
  /\ object[c] = "doomed"
  /\ object' = [object EXCEPT ![c] = "freed"]
  /\ UNCHANGED <<buckets, conn, peer, sent, read, accepted, quiet>>

\* The socket is writable and takes some of the output buffer.
OnWritable(c) ==
  /\ object[c] = "live"
  /\ \E o \in HandleWrite(conn[c]) : conn' = [conn EXCEPT ![c] = o.conn]
  /\ UNCHANGED <<buckets, object, peer, sent, read, accepted, quiet>>

\* onTimer: push an empty bucket; the entries that die close their
\* connections inside the same call.
OnTimer ==
  /\ buckets' = PushBucket
  /\ conn' = [c \in Conn |-> IF c \in Dying THEN EntryDtor(c) ELSE conn[c]]
  /\ quiet' = [c \in Conn |-> IF object[c] # "unborn" /\ quiet[c] < NBuckets
                              THEN quiet[c] + 1 ELSE quiet[c]]
  /\ UNCHANGED <<object, peer, sent, read, accepted>>
-----------------------------------------------------------------------------
(* The clients.                                                            *)

PeerSend(c) ==
  /\ object[c] = "live" /\ peer[c] = "open"
  /\ sent[c] < MaxMsgs
  /\ sent' = [sent EXCEPT ![c] = @ + 1]
  /\ UNCHANGED <<buckets, conn, object, peer, read, accepted, quiet>>

\* A client may close at any time.
PeerClose(c) ==
  /\ object[c] = "live" /\ peer[c] = "open"
  /\ peer' = [peer EXCEPT ![c] = "closed"]
  /\ UNCHANGED <<buckets, conn, object, sent, read, accepted, quiet>>

\* A client that reads end-of-file closes its side (muduo's clients do).
PeerSeesFin(c) == conn[c].fin /\ PeerClose(c)

Next ==
  \/ OnTimer
  \/ \E c \in Conn : \/ Accept(c) \/ OnMessage(c) \/ OnDown(c)
                     \/ ConnectDestroyed(c) \/ OnWritable(c)
                     \/ PeerSend(c) \/ PeerClose(c)

Spec == Init /\ [][Next]_vars

\* The loop serves every ready channel and functor, and the clients read what
\* they are sent and close when they see end-of-file.
Cooperation ==
  \A c \in Conn : /\ WF_vars(OnMessage(c))   /\ WF_vars(OnDown(c))
                  /\ WF_vars(OnWritable(c))  /\ WF_vars(ConnectDestroyed(c))
                  /\ WF_vars(PeerSeesFin(c))
-----------------------------------------------------------------------------
(* Properties.                                                             *)

Connected(c) == conn[c].state = "kConnected"

\* The wheel tells the time: the newest bucket that owns the entry of a
\* connected client is as many ticks old as the client has been silent, and
\* no entry, of a live or a dead connection, survives NBuckets silent ticks.
WheelTellsAge ==
  \A c \in Conn :
    /\ Connected(c) => quiet[c] < NBuckets /\ c \in buckets[NBuckets - quiet[c]]
    /\ \A i \in Bucket : c \in buckets[i] => i + quiet[c] <= NBuckets

\* A connection that the wheel has given up never gets back into a bucket,
\* however many messages it still sends: the weak pointer stays expired.
ExpiredStaysOut ==
  \A c \in Conn : conn[c].state = "kDisconnecting" => ~EntryAlive(c)

\* The server starts closing a connection only in the timer tick that makes
\* NBuckets ticks since the connection's last message, never earlier; and
\* never once it is down.  The entry may outlive the end of the connection by
\* many ticks and die before the connection is destroyed: ~Entry (echo.cc:101)
\* then locks it and calls shutdown(), which must leave it alone.
ClosesInItsTick ==
  [][\A c \in Conn :
       /\ Connected(c) /\ conn'[c].state = "kDisconnecting" =>
            quiet[c] = NBuckets - 1 /\ quiet'[c] = NBuckets
       /\ conn[c].state = "kDisconnected" => conn'[c] = conn[c]]_vars

\* Echo: while the client is there, the socket and the output buffer hold
\* exactly the messages read while connected, in order, none twice.
EchoFaithful ==
  \A c \in Conn : peer[c] = "open" =>
    conn[c].wire \o conn[c].out = [i \in 1..accepted[c] |-> i]

\* The write side is shut only after every echo owed to the client went out,
\* also when the wheel gave up a client that was slow to read.
FinAfterEcho ==
  \A c \in Conn : conn[c].fin =>
    /\ ~Connected(c)
    /\ peer[c] = "open" => Len(conn[c].wire) = accepted[c]

\* With clients that read and answer end-of-file, every connection object
\* is released in the end.
EventuallyReleased ==
  Cooperation => \A c \in Conn : Connected(c) ~> object[c] = "freed"
-----------------------------------------------------------------------------
(* The wheel implements the countdown of IdleTimeout.                      *)

PhaseOf(c) ==
  IF conn[c].state = "kConnecting" THEN "absent"
  ELSE IF Connected(c) THEN "live"
  ELSE IF conn[c].state = "kDisconnecting" THEN "closing" ELSE "gone"

\* The ticks left are the number of the newest bucket that owns the entry.
NewestBucket(c) ==
  CHOOSE i \in Bucket : /\ c \in buckets[i]
                        /\ \A j \in Bucket : c \in buckets[j] => j <= i

Countdown == INSTANCE IdleTimeout WITH
  N <- NBuckets,
  phase <- [c \in Conn |-> PhaseOf(c)],
  left <- [c \in Conn |-> IF Connected(c) THEN NewestBucket(c) ELSE 0]

\* Refinement: the timing wheel with its reference-counted entries behaves
\* like one countdown per connection.
CountdownSpec == Countdown!Spec

\* The safety part of it: each step is a step of the countdowns or a stutter.
CountdownSafety == Countdown!Init /\ [][Countdown!Next]_(Countdown!vars)
-----------------------------------------------------------------------------
(* The inductive invariant behind these properties.                        *)

\* The library's connection state follows the lifetime of the object.
StateFollowsObject ==
  \A c \in Conn :
    /\ object[c] = "unborn" => conn[c].state = "kConnecting"
    /\ object[c] = "live" => conn[c].state \in {"kConnected", "kDisconnecting"}
    /\ object[c] \in {"doomed", "freed"} => conn[c].state = "kDisconnected"

\* No entry exists before its connection does.
UnbornHasNoEntry == \A c \in Conn : object[c] = "unborn" => ~EntryAlive(c)

IInv == TypeOK /\ WheelTellsAge /\ ExpiredStaysOut
        /\ StateFollowsObject /\ UnbornHasNoEntry
=============================================================================
