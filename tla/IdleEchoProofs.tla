---------------------------- MODULE IdleEchoProofs ----------------------------
(***************************************************************************)
(* Theorems about the idle-connection server for any set of connections,   *)
(* any number of buckets and any number of messages.  IInv is inductive,   *)
(* and so is EInv, of the echoed data: in each one step per callback.      *)
(* CInv ties the ticks of IInv to the seconds of IdleClock, for a timer of *)
(* any period.                                                             *)
(***************************************************************************)
EXTENDS IdleClock, SharedLemmas

\* The steps that leave the wheel and the connection records alone.
Bystander == \E c \in Conn : ConnectDestroyed(c) \/ PeerSend(c) \/ PeerClose(c)

\* The messages echoed by one onMessage are messages.
LEMMA UnreadType ==
  ASSUME TypeOK, NEW c \in Conn, read[c] < sent[c]
  PROVE  Unread(c) \in Seq(Message)
<1>1. read[c] \in Nat /\ sent[c] \in Nat /\ sent[c] <= MaxMsgs /\ MaxMsgs \in Nat
  BY MaxMsgsAssumption DEF TypeOK
<1>2. sent[c] - read[c] \in Nat
  BY <1>1
<1>3. \A i \in 1..(sent[c] - read[c]) : read[c] + i \in Message
  BY <1>1 DEF Message
<1>4. QED
  BY <1>2, <1>3 DEF Unread

\* What onMessage makes of the connection: its state never changes.
LEMMA OnMessageConn ==
  ASSUME TypeOK, NEW c \in Conn, OnMessage(c)
  PROVE  \E k \in Connection(Message) :
            /\ k.state = conn[c].state
            /\ conn' = [conn EXCEPT ![c] = k]
<1>1. Unread(c) \in Seq(Message)
  BY UnreadType DEF OnMessage
<1>2. PICK o \in Send(conn[c], Unread(c), peer[c] = "closed") :
        conn' = [conn EXCEPT ![c] = o.conn]
  BY DEF OnMessage
<1>3. conn[c] \in Connection(Message)
  BY DEF TypeOK
<1>4. /\ o.conn \in Connection(Message)
      /\ o.conn.state = conn[c].state
  BY <1>1, <1>2, <1>3, SendType
<1>5. QED
  BY <1>2, <1>4

\* A writable socket does not change the state of its connection either.
LEMMA OnWritableConn ==
  ASSUME TypeOK, NEW c \in Conn, OnWritable(c)
  PROVE  \E k \in Connection(Message) :
            /\ k.state = conn[c].state
            /\ conn' = [conn EXCEPT ![c] = k]
<1>1. PICK o \in HandleWrite(conn[c]) : conn' = [conn EXCEPT ![c] = o.conn]
  BY DEF OnWritable
<1>2. conn[c] \in Connection(Message)
  BY DEF TypeOK
<1>3. QED
  BY <1>1, <1>2, HandleWriteType

\* What a timer tick makes of each connection.
LEMMA OnTimerConn ==
  ASSUME TypeOK, OnTimer, NEW c \in Conn
  PROVE  /\ conn'[c] \in Connection(Message)
         /\ conn'[c] = IF c \in Dying /\ object[c] # "freed"
                       THEN Shutdown(conn[c]) ELSE conn[c]
<1>1. conn[c] \in Connection(Message)
  BY DEF TypeOK
<1>2. Shutdown(conn[c]) \in Connection(Message)
  BY <1>1, ShutdownType
<1>3. QED
  BY <1>1, <1>2 DEF OnTimer, EntryDtor
-----------------------------------------------------------------------------
\* The initial state has the right types.
LEMMA TypeInit == Init => TypeOK
<1>1. <<>> \in Seq(Message)
  OBVIOUS
<1>2. Connecting \in Connection(Message)
  BY <1>1 DEF Connecting, Connection, ConnState
<1>3. QED
  BY <1>2, NBucketsAssumption, MaxMsgsAssumption
  DEF Init, TypeOK, Lifetime, Bucket

\* Every step keeps the types.
LEMMA TypeStep == TypeOK /\ [Next]_vars => TypeOK'
<1> SUFFICES ASSUME TypeOK, [Next]_vars PROVE TypeOK'
  OBVIOUS
<1> USE NBucketsAssumption, MaxMsgsAssumption
<1>1. CASE OnTimer
  <2>1. buckets' \in [Bucket -> SUBSET Conn]
    BY <1>1 DEF OnTimer, PushBucket, TypeOK, Bucket
  <2>2. conn' = [c \in Conn |-> conn'[c]]
    BY <1>1 DEF OnTimer
  <2>3. conn' \in [Conn -> Connection(Message)]
    BY <1>1, <2>2, OnTimerConn
  <2>4. quiet' \in [Conn -> 0..NBuckets]
    BY <1>1 DEF OnTimer, TypeOK
  <2>5. QED
    BY <1>1, <2>1, <2>3, <2>4 DEF OnTimer, TypeOK
<1>2. ASSUME NEW c \in Conn, Accept(c) PROVE TypeOK'
  <2>1. conn' \in [Conn -> Connection(Message)]
    BY <1>2 DEF Accept, ConnectEstablished, TypeOK, Connection, ConnState
  <2>2. buckets' \in [Bucket -> SUBSET Conn]
    BY <1>2 DEF Accept, InsertBack, TypeOK, Bucket
  <2>3. QED
    BY <1>2, <2>1, <2>2 DEF Accept, TypeOK, Lifetime
<1>3. ASSUME NEW c \in Conn, OnMessage(c) PROVE TypeOK'
  <2>1. conn' \in [Conn -> Connection(Message)]
    BY <1>3, OnMessageConn DEF TypeOK
  <2>2. buckets' \in [Bucket -> SUBSET Conn]
    BY <1>3 DEF OnMessage, InsertBack, TypeOK, Bucket
  <2>3. /\ read' \in [Conn -> 0..MaxMsgs]
        /\ accepted' \in [Conn -> 0..MaxMsgs]
        /\ quiet' \in [Conn -> 0..NBuckets]
    BY <1>3 DEF OnMessage, TypeOK
  <2>4. QED
    BY <1>3, <2>1, <2>2, <2>3 DEF OnMessage, TypeOK
<1>4. ASSUME NEW c \in Conn, OnDown(c) PROVE TypeOK'
  BY <1>4 DEF OnDown, HandleClose, TypeOK, Connection, ConnState, Lifetime
<1>5. ASSUME NEW c \in Conn, OnWritable(c) PROVE TypeOK'
  <2>1. conn' \in [Conn -> Connection(Message)]
    BY <1>5, OnWritableConn DEF TypeOK
  <2>2. QED
    BY <1>5, <2>1 DEF OnWritable, TypeOK
<1>6. CASE Bystander
  <2>1. ASSUME NEW c \in Conn, ConnectDestroyed(c) PROVE TypeOK'
    BY <2>1 DEF ConnectDestroyed, TypeOK, Lifetime
  <2>2. ASSUME NEW c \in Conn, PeerSend(c) PROVE TypeOK'
    BY <2>2 DEF PeerSend, TypeOK
  <2>3. ASSUME NEW c \in Conn, PeerClose(c) PROVE TypeOK'
    BY <2>3 DEF PeerClose, TypeOK
  <2>4. QED
    BY <1>6, <2>1, <2>2, <2>3 DEF Bystander
<1>7. CASE UNCHANGED vars
  BY <1>7 DEF vars, TypeOK
<1>8. QED
  BY <1>1, <1>2, <1>3, <1>4, <1>5, <1>6, <1>7 DEF Next, Bystander

\* Every variable of the server keeps its type, for any constants.
THEOREM TypeCorrect == Spec => []TypeOK
<1>1. QED
  BY TypeInit, TypeStep, PTL DEF Spec
-----------------------------------------------------------------------------
(* The wheel.                                                              *)

\* Inserting at the back adds one entry to one bucket.
LEMMA InsertBackAt ==
  ASSUME TypeOK, NEW c \in Conn, NEW d \in Conn, NEW i \in Bucket
  PROVE  d \in InsertBack(c)[i] <=> d \in buckets[i] \/ (d = c /\ i = NBuckets)
BY NBucketsAssumption DEF InsertBack, TypeOK, Bucket

\* A tick moves every entry one bucket towards the front and empties the back.
LEMMA PushBucketAt ==
  ASSUME TypeOK, NEW d \in Conn, NEW i \in Bucket
  PROVE  d \in PushBucket[i] <=> i < NBuckets /\ d \in buckets[i + 1]
BY NBucketsAssumption DEF PushBucket, TypeOK, Bucket

\* An entry dies in the tick exactly if the tick leaves it in no bucket.
LEMMA DyingMeansGone ==
  ASSUME TypeOK, NEW d \in Conn, EntryAlive(d)
  PROVE  d \in Dying <=> \A i \in Bucket : d \notin PushBucket[i]
<1> USE NBucketsAssumption
<1>1. ASSUME d \in Dying, NEW i \in Bucket PROVE d \notin PushBucket[i]
  <2>1. i < NBuckets => i + 1 \in Bucket \ {1}
    BY DEF Bucket
  <2>2. QED
    BY <1>1, <2>1, PushBucketAt DEF Dying
<1>2. ASSUME d \notin Dying PROVE \E i \in Bucket : d \in PushBucket[i]
  <2>1. PICK j \in Bucket \ {1} : d \in buckets[j]
    BY <1>2 DEF Dying, EntryAlive
  <2>2. j - 1 \in Bucket /\ j - 1 < NBuckets /\ (j - 1) + 1 = j
    BY DEF Bucket
  <2>3. d \in PushBucket[j - 1]
    BY <2>1, <2>2, PushBucketAt
  <2>4. QED
    BY <2>2, <2>3
<1>3. QED
  BY <1>1, <1>2

\* A connection dies connected only after NBuckets - 1 silent ticks.
LEMMA DyingIsOld ==
  ASSUME IInv, NEW d \in Conn, Connected(d), EntryAlive(d)
  PROVE  d \in Dying <=> quiet[d] = NBuckets - 1
<1> USE NBucketsAssumption
<1>1. /\ quiet[d] \in Nat /\ quiet[d] < NBuckets
      /\ NBuckets - quiet[d] \in Bucket
      /\ d \in buckets[NBuckets - quiet[d]]
      /\ \A i \in Bucket : d \in buckets[i] => i + quiet[d] <= NBuckets
  BY DEF IInv, TypeOK, WheelTellsAge, Bucket
<1>2. ASSUME quiet[d] = NBuckets - 1 PROVE d \in Dying
  BY <1>1, <1>2 DEF Dying, Bucket
<1>3. ASSUME quiet[d] # NBuckets - 1 PROVE d \notin Dying
  BY <1>1, <1>3 DEF Dying, Bucket
<1>4. QED
  BY <1>2, <1>3
-----------------------------------------------------------------------------
(* The inductive invariant, one connection at a time.                      *)

Consistent(d) ==
  /\ Connected(d) => quiet[d] < NBuckets /\ d \in buckets[NBuckets - quiet[d]]
  /\ \A i \in Bucket : d \in buckets[i] => i + quiet[d] <= NBuckets
  /\ conn[d].state = "kDisconnecting" => ~EntryAlive(d)
  /\ object[d] = "unborn" => conn[d].state = "kConnecting" /\ ~EntryAlive(d)
  /\ object[d] = "live" => conn[d].state \in {"kConnected", "kDisconnecting"}
  /\ object[d] \in {"doomed", "freed"} => conn[d].state = "kDisconnected"

\* The invariant speaks of one connection at a time.
LEMMA IInvPerConnection == IInv <=> TypeOK /\ \A d \in Conn : Consistent(d)
BY DEF IInv, Consistent, WheelTellsAge, ExpiredStaysOut, StateFollowsObject,
       UnbornHasNoEntry

\* A connection that a step does not touch stays consistent.
LEMMA Untouched ==
  ASSUME NEW d \in Conn, Consistent(d),
         conn'[d].state = conn[d].state, object'[d] = object[d],
         quiet'[d] = quiet[d],
         \A i \in Bucket : d \in buckets'[i] <=> d \in buckets[i],
         quiet[d] \in Nat
  PROVE  Consistent(d)'
<1>1. EntryAlive(d)' <=> EntryAlive(d)
  BY DEF EntryAlive
<1>2. quiet[d] < NBuckets => NBuckets - quiet[d] \in Bucket
  BY NBucketsAssumption DEF Bucket
<1>3. QED
  BY <1>1, <1>2 DEF Consistent, Connected

\* A client is accepted: its only entry is the one inserted now.
LEMMA AcceptStep ==
  ASSUME TypeOK, NEW c \in Conn, Accept(c), NEW d \in Conn, Consistent(d)
  PROVE  Consistent(d)'
<1> USE NBucketsAssumption
<1>1. \A i \in Bucket :
        d \in buckets'[i] <=> d \in buckets[i] \/ (d = c /\ i = NBuckets)
  BY InsertBackAt DEF Accept
<1>2. CASE d # c
  BY <1>1, <1>2, Untouched DEF Accept, TypeOK
<1>3. CASE d = c
  <2>1. /\ conn'[d].state = "kConnected" /\ object'[d] = "live"
        /\ quiet'[d] = 0
    BY <1>3 DEF Accept, ConnectEstablished, TypeOK, Connection
  <2>2. ~EntryAlive(d)
    BY <1>3 DEF Accept, Consistent
  <2>3. \A i \in Bucket : d \in buckets'[i] <=> i = NBuckets
    BY <1>1, <1>3, <2>2 DEF EntryAlive
  <2>4. QED
    BY <2>1, <2>3 DEF Consistent, Connected, Bucket
<1>4. QED
  BY <1>2, <1>3

\* A message puts the entry into the newest bucket.
LEMMA OnMessageStep ==
  ASSUME TypeOK, NEW c \in Conn, OnMessage(c), NEW d \in Conn, Consistent(d)
  PROVE  Consistent(d)'
<1> USE NBucketsAssumption
<1>1. PICK k \in Connection(Message) : /\ k.state = conn[c].state
                                      /\ conn' = [conn EXCEPT ![c] = k]
  BY OnMessageConn
<1>2. conn'[d].state = conn[d].state /\ object' = object
  BY <1>1 DEF OnMessage, TypeOK
<1>3. \A i \in Bucket :
        d \in buckets'[i] <=> \/ d \in buckets[i]
                              \/ d = c /\ i = NBuckets /\ EntryAlive(c)
  BY InsertBackAt DEF OnMessage
<1>4. CASE d # c
  BY <1>2, <1>3, <1>4, Untouched DEF OnMessage, TypeOK
<1>5. CASE d = c
  <2>1. quiet'[d] = 0
    BY <1>5 DEF OnMessage, TypeOK, IInv
  <2>2. EntryAlive(d)' <=> EntryAlive(d)
    BY <1>3 DEF EntryAlive
  <2>3. Connected(d) => EntryAlive(d)
    BY DEF Consistent, EntryAlive, Bucket, TypeOK
  <2>4. Connected(d) => d \in buckets'[NBuckets]
    BY <1>3, <1>5, <2>3 DEF Bucket
  <2>5. \A i \in Bucket : i + 0 <= NBuckets
    BY DEF Bucket
  <2>6. Connected(d)' <=> Connected(d)
    BY <1>2 DEF Connected
  <2>7. QED
    BY <1>2, <2>1, <2>2, <2>4, <2>5, <2>6 DEF Consistent
<1>6. QED
  BY <1>4, <1>5

\* The end of a connection leaves the wheel alone.
LEMMA OnDownStep ==
  ASSUME TypeOK, NEW c \in Conn, OnDown(c), NEW d \in Conn, Consistent(d)
  PROVE  Consistent(d)'
<1>1. CASE d # c
  BY <1>1, Untouched DEF OnDown, TypeOK
<1>2. CASE d = c
  <2>1. /\ conn'[d].state = "kDisconnected" /\ object'[d] = "doomed"
        /\ buckets' = buckets /\ quiet' = quiet
    BY <1>2 DEF OnDown, HandleClose, TypeOK, Connection
  <2>2. QED
    BY <2>1 DEF Consistent, Connected
<1>3. QED
  BY <1>1, <1>2

\* A tick makes every bucket one older and drops the oldest.
LEMMA OnTimerStep ==
  ASSUME IInv, OnTimer, NEW d \in Conn, Consistent(d)
  PROVE  Consistent(d)'
<1> USE NBucketsAssumption
<1>0. TypeOK /\ object' = object
  BY DEF IInv, OnTimer
<1>1. \A i \in Bucket : d \in buckets'[i] <=> i < NBuckets /\ d \in buckets[i + 1]
  BY <1>0, PushBucketAt DEF OnTimer
<1>2. /\ quiet[d] \in 0..NBuckets
      /\ quiet'[d] = IF object[d] # "unborn" /\ quiet[d] < NBuckets
                     THEN quiet[d] + 1 ELSE quiet[d]
  BY <1>0 DEF OnTimer, TypeOK
<1>3. EntryAlive(d)' => EntryAlive(d)
  <2>1. \A i \in Bucket : i < NBuckets => i + 1 \in Bucket
    BY DEF Bucket
  <2>2. QED
    BY <1>1, <2>1 DEF EntryAlive
<1>4. \A i \in Bucket : d \in buckets'[i] => i + quiet'[d] <= NBuckets
  <2>1. SUFFICES ASSUME NEW i \in Bucket, d \in buckets'[i]
                 PROVE  i + quiet'[d] <= NBuckets
    OBVIOUS
  <2>2. i + 1 \in Bucket /\ d \in buckets[i + 1]
    BY <1>1, <2>1 DEF Bucket
  <2>3. (i + 1) + quiet[d] <= NBuckets
    BY <2>2 DEF Consistent
  <2>4. QED
    BY <1>2, <2>3 DEF Bucket
<1>5. conn[d] \in Connection(Message)
  BY <1>0 DEF TypeOK
<1>6. conn'[d] = IF d \in Dying /\ object[d] # "freed"
                 THEN Shutdown(conn[d]) ELSE conn[d]
  BY <1>0, OnTimerConn
<1>7. CASE Connected(d)
  <2>1. EntryAlive(d) /\ object[d] = "live"
    BY <1>0, <1>7 DEF Consistent, EntryAlive, Connected, Bucket, TypeOK, Lifetime
  <2>2. CASE d \in Dying
    <3>1. conn'[d].state = "kDisconnecting"
      BY <1>5, <1>6, <1>7, <2>1, <2>2, ShutdownType DEF Connected
    <3>2. ~EntryAlive(d)'
      BY <1>0, <2>1, <2>2, DyingMeansGone DEF OnTimer, EntryAlive
    <3>3. QED
      BY <1>0, <1>4, <2>1, <3>1, <3>2 DEF Consistent, Connected
  <2>3. CASE d \notin Dying
    <3>1. conn'[d] = conn[d]
      BY <1>6, <2>3
    <3>2. quiet[d] < NBuckets - 1 /\ d \in buckets[NBuckets - quiet[d]]
      <4>1. quiet[d] # NBuckets - 1
        BY <1>7, <2>1, <2>3, DyingIsOld
      <4>2. QED
        BY <1>2, <1>7, <4>1 DEF Consistent
    <3>3. quiet'[d] = quiet[d] + 1
      BY <1>2, <2>1, <3>2
    <3>4. NBuckets - quiet'[d] \in Bucket /\ NBuckets - quiet'[d] < NBuckets
          /\ (NBuckets - quiet'[d]) + 1 = NBuckets - quiet[d]
      BY <1>2, <3>2, <3>3 DEF Bucket
    <3>5. d \in buckets'[NBuckets - quiet'[d]]
      BY <1>1, <3>2, <3>4
    <3>6. QED
      BY <1>0, <1>2, <1>4, <1>7, <2>1, <3>1, <3>2, <3>3, <3>5
      DEF Consistent, Connected
  <2>4. QED
    BY <2>2, <2>3
<1>8. CASE ~Connected(d)
  <2>1. conn'[d] = conn[d]
    BY <1>5, <1>6, <1>8, ShutdownType DEF Connected
  <2>2. QED
    BY <1>0, <1>3, <1>4, <1>8, <2>1 DEF Consistent, Connected
<1>9. QED
  BY <1>7, <1>8

\* Without clients there is nothing in the wheel.
LEMMA IInvInit == Init => IInv
<1> SUFFICES ASSUME Init PROVE IInv
  OBVIOUS
<1>1. TypeOK
  BY TypeInit
<1>2. ASSUME NEW d \in Conn PROVE Consistent(d)
  BY <1>2 DEF Init, Consistent, Connected, EntryAlive, Connecting, Bucket
<1>3. QED
  BY <1>1, <1>2, IInvPerConnection

\* Every step keeps the wheel and the histories in agreement.
LEMMA IInvStep == IInv /\ [Next]_vars => IInv'
<1> SUFFICES ASSUME IInv, [Next]_vars PROVE IInv'
  OBVIOUS
<1>1. TypeOK /\ TypeOK'
  BY TypeStep DEF IInv
<1>2. ASSUME NEW d \in Conn PROVE Consistent(d)'
  <2>1. Consistent(d)
    BY IInvPerConnection
  <2>2. CASE OnTimer
    BY <2>1, <2>2, OnTimerStep
  <2>3. ASSUME NEW c \in Conn, Accept(c) PROVE Consistent(d)'
    BY <1>1, <2>1, <2>3, AcceptStep
  <2>4. ASSUME NEW c \in Conn, OnMessage(c) PROVE Consistent(d)'
    BY <1>1, <2>1, <2>4, OnMessageStep
  <2>5. ASSUME NEW c \in Conn, OnDown(c) PROVE Consistent(d)'
    BY <1>1, <2>1, <2>5, OnDownStep
  <2>6. ASSUME NEW c \in Conn, OnWritable(c) PROVE Consistent(d)'
    <3>1. conn'[d].state = conn[d].state
      BY <1>1, <2>6, OnWritableConn DEF TypeOK
    <3>2. QED
      BY <1>1, <2>1, <2>6, <3>1, Untouched DEF OnWritable, TypeOK
  <2>7. ASSUME NEW c \in Conn, ConnectDestroyed(c) PROVE Consistent(d)'
    <3>1. CASE d = c
      BY <1>1, <2>1, <2>7, <3>1
      DEF ConnectDestroyed, Consistent, Connected, EntryAlive, TypeOK
    <3>2. CASE d # c
      BY <1>1, <2>1, <2>7, <3>2, Untouched DEF ConnectDestroyed, TypeOK
    <3>3. QED
      BY <3>1, <3>2
  <2>8. ASSUME NEW c \in Conn, PeerSend(c) \/ PeerClose(c) PROVE Consistent(d)'
    BY <1>1, <2>1, <2>8, Untouched DEF PeerSend, PeerClose, TypeOK
  <2>9. CASE UNCHANGED vars
    BY <1>1, <2>1, <2>9, Untouched DEF vars, TypeOK
  <2>10. QED
    BY <2>2, <2>3, <2>4, <2>5, <2>6, <2>7, <2>8, <2>9 DEF Next
<1>3. QED
  BY <1>1, <1>2 DEF IInv, Consistent, WheelTellsAge, ExpiredStaysOut,
                    StateFollowsObject, UnbornHasNoEntry
-----------------------------------------------------------------------------
(* The theorems.                                                           *)

\* The wheel tells the age of every connected client: its newest bucket is
\* as old as the client's silence, for any number of clients and buckets.
THEOREM WheelTells == Spec => []WheelTellsAge
<1>1. IInv => WheelTellsAge
  BY DEF IInv
<1>2. QED
  BY <1>1, IInvInit, IInvStep, PTL DEF Spec

\* The expired weak pointer of a connection being closed stays expired.
THEOREM ExpiredStays == Spec => []ExpiredStaysOut
<1>1. IInv => ExpiredStaysOut
  BY DEF IInv
<1>2. QED
  BY <1>1, IInvInit, IInvStep, PTL DEF Spec

\* Only a timer tick starts to close a connection, and of a connected client
\* only when it has been silent for NBuckets - 1 ticks before.
LEMMA OnlyTimerCloses ==
  ASSUME IInv, [Next]_vars, NEW d \in Conn,
         Connected(d), conn'[d].state = "kDisconnecting"
  PROVE  OnTimer /\ quiet[d] = NBuckets - 1 /\ quiet'[d] = NBuckets
<1>0. TypeOK /\ Consistent(d)
  BY IInvPerConnection
<1>1. conn'[d] # conn[d]
  BY DEF Connected
<1>2. ASSUME NEW c \in Conn, Accept(c) PROVE FALSE
  BY <1>0, <1>1, <1>2
  DEF Accept, ConnectEstablished, TypeOK, Connection, Connected
<1>3. ASSUME NEW c \in Conn, OnMessage(c) PROVE FALSE
  BY <1>0, <1>3, OnMessageConn DEF TypeOK, Connected
<1>4. ASSUME NEW c \in Conn, OnDown(c) PROVE FALSE
  BY <1>0, <1>1, <1>4 DEF OnDown, HandleClose, TypeOK, Connection, Connected
<1>5. ASSUME NEW c \in Conn, OnWritable(c) PROVE FALSE
  BY <1>0, <1>5, OnWritableConn DEF TypeOK, Connected
<1>6. ASSUME UNCHANGED conn PROVE FALSE
  BY <1>1, <1>6
<1>7. OnTimer
  BY <1>2, <1>3, <1>4, <1>5, <1>6
  DEF Next, vars, ConnectDestroyed, PeerSend, PeerClose
<1>8. d \in Dying
  BY <1>0, <1>1, <1>7, OnTimerConn
<1>9. EntryAlive(d)
  BY <1>0, NBucketsAssumption DEF Consistent, EntryAlive, Bucket, TypeOK
<1>10. quiet[d] = NBuckets - 1
  BY <1>8, <1>9, DyingIsOld
<1>11. object[d] = "live"
  BY <1>0 DEF Consistent, Connected, TypeOK, Lifetime
<1>12. QED
  BY <1>7, <1>10, <1>11, NBucketsAssumption DEF OnTimer

\* Nothing happens to a connection that is down, also when its entry dies
\* between the end of the connection and its destruction.
LEMMA DownIsFinal ==
  ASSUME IInv, [Next]_vars, NEW d \in Conn, conn[d].state = "kDisconnected"
  PROVE  conn'[d] = conn[d]
<1>1. TypeOK /\ object[d] \in {"doomed", "freed"}
  BY DEF IInv, StateFollowsObject, TypeOK, Lifetime
<1>2. ASSUME NEW c \in Conn, Accept(c) \/ OnMessage(c) \/ OnDown(c) \/ OnWritable(c)
      PROVE  conn'[d] = conn[d]
  <2>1. object[c] \in {"unborn", "live"} /\ c # d
    BY <1>1, <1>2 DEF Accept, OnMessage, OnDown, OnWritable
  <2>2. \E k : conn' = [conn EXCEPT ![c] = k]
    BY <1>2 DEF Accept, OnMessage, OnDown, OnWritable
  <2>3. QED
    BY <1>1, <2>1, <2>2 DEF TypeOK
<1>3. CASE OnTimer
  <2>1. Shutdown(conn[d]) = conn[d]
    BY DEF Shutdown
  <2>2. QED
    BY <1>3, <2>1 DEF OnTimer, EntryDtor
<1>4. CASE Bystander \/ UNCHANGED vars
  BY <1>4 DEF Bystander, ConnectDestroyed, PeerSend, PeerClose, vars
<1>5. QED
  BY <1>2, <1>3, <1>4 DEF Next, Bystander

\* No connection is closed by the server before its NBuckets-th silent tick,
\* nor once it is down.
THEOREM NoPrematureClose == Spec => ClosesInItsTick
<1>1. IInv /\ [Next]_vars =>
        [\A c \in Conn :
           /\ Connected(c) /\ conn'[c].state = "kDisconnecting" =>
                quiet[c] = NBuckets - 1 /\ quiet'[c] = NBuckets
           /\ conn[c].state = "kDisconnected" => conn'[c] = conn[c]]_vars
  BY OnlyTimerCloses, DownIsFinal
<1>2. QED
  BY <1>1, IInvInit, IInvStep, PTL DEF Spec, ClosesInItsTick
-----------------------------------------------------------------------------
(* Refinement: every step of the wheel is a step of the countdowns.        *)

\* The newest bucket is well defined by being an upper bound.
LEMMA NewestOf ==
  ASSUME NEW w, NEW d, NEW b \in Bucket, d \in w[b],
         \A j \in Bucket : d \in w[j] => j <= b
  PROVE  (CHOOSE i \in Bucket : /\ d \in w[i]
                                /\ \A j \in Bucket : d \in w[j] => j <= i) = b
<1>1. \A i \in Bucket :
        d \in w[i] /\ (\A j \in Bucket : d \in w[j] => j <= i) => i = b
  BY NBucketsAssumption DEF Bucket
<1>2. QED
  BY <1>1

\* The countdown of a connected client, before and after a step.
LEMMA LeftNow ==
  ASSUME TypeOK, NEW d \in Conn, Consistent(d), Connected(d)
  PROVE  NewestBucket(d) = NBuckets - quiet[d]
<1>1. /\ NBuckets - quiet[d] \in Bucket /\ d \in buckets[NBuckets - quiet[d]]
      /\ \A j \in Bucket : d \in buckets[j] => j <= NBuckets - quiet[d]
  BY NBucketsAssumption DEF Consistent, Bucket, TypeOK
<1>2. QED
  BY <1>1, NewestOf DEF NewestBucket

\* The same in the next state.
LEMMA LeftNext ==
  ASSUME TypeOK', NEW d \in Conn, Consistent(d)', Connected(d)'
  PROVE  NewestBucket(d)' = NBuckets - quiet'[d]
<1>1. /\ NBuckets - quiet'[d] \in Bucket /\ d \in buckets'[NBuckets - quiet'[d]]
      /\ \A j \in Bucket : d \in buckets'[j] => j <= NBuckets - quiet'[d]
  BY NBucketsAssumption DEF Consistent, Bucket, TypeOK
<1>2. QED
  BY <1>1, NewestOf DEF NewestBucket

\* The abstract view of one connection.
Left(d) == IF Connected(d) THEN NBuckets - quiet[d] ELSE 0

\* The refinement mapping in terms of that view, before and after a step.
LEMMA AbstractState ==
  ASSUME IInv, IInv'
  PROVE  /\ [c \in Conn |-> IF Connected(c) THEN NewestBucket(c) ELSE 0]
               = [c \in Conn |-> Left(c)]
         /\ [c \in Conn |-> IF Connected(c) THEN NewestBucket(c) ELSE 0]'
               = [c \in Conn |-> Left(c)']
<1>1. ASSUME NEW c \in Conn, Connected(c) PROVE NewestBucket(c) = Left(c)
  BY <1>1, LeftNow, IInvPerConnection DEF Left, IInv
<1>2. ASSUME NEW c \in Conn, Connected(c)' PROVE NewestBucket(c)' = Left(c)'
  <2>1. Consistent(c)' /\ TypeOK'
    BY DEF IInv, Consistent, WheelTellsAge, ExpiredStaysOut,
           StateFollowsObject, UnbornHasNoEntry
  <2>2. QED
    BY <1>2, <2>1, LeftNext DEF Left
<1>3. \A c \in Conn : (IF Connected(c) THEN NewestBucket(c) ELSE 0) = Left(c)
  BY <1>1 DEF Left
<1>4. \A c \in Conn :
        (IF Connected(c)' THEN NewestBucket(c)' ELSE 0) = Left(c)'
  BY <1>2 DEF Left
<1>5. QED
  BY <1>3, <1>4

\* A step that changes nobody's phase and nobody's countdown is a stutter; one
\* that changes those of c alone is named by what becomes of c.
LEMMA AbstractStep ==
  ASSUME IInv, [Next]_vars, IInv'
  PROVE  [Countdown!Next]_(Countdown!vars)
<1> DEFINE ph == [c \in Conn |-> PhaseOf(c)]
           lf == [c \in Conn |-> IF Connected(c) THEN NewestBucket(c) ELSE 0]
<1>1. /\ lf = [c \in Conn |-> Left(c)]
      /\ lf' = [c \in Conn |-> Left(c)']
  BY AbstractState
<1>2. /\ ph = [c \in Conn |-> PhaseOf(c)]
      /\ ph' = [c \in Conn |-> PhaseOf(c)']
  OBVIOUS
<1>3. TypeOK /\ TypeOK' /\ \A d \in Conn : Consistent(d)
  BY IInvPerConnection DEF IInv
<1> USE NBucketsAssumption
<1>4. CASE OnTimer
  <2>1. ASSUME NEW d \in Conn
        PROVE  /\ PhaseOf(d)' = IF PhaseOf(d) = "live" /\ Left(d) = 1
                                THEN "closing" ELSE PhaseOf(d)
               /\ Left(d)' = IF PhaseOf(d) = "live" THEN Left(d) - 1 ELSE 0
    <3>1. conn[d] \in Connection(Message)
      BY <1>3 DEF TypeOK
    <3>2. conn'[d] = IF d \in Dying /\ object[d] # "freed"
                     THEN Shutdown(conn[d]) ELSE conn[d]
      BY <1>3, <1>4, OnTimerConn
    <3>3. CASE Connected(d)
      <4>1. EntryAlive(d) /\ object[d] = "live" /\ quiet[d] \in 0..(NBuckets - 1)
        <5>1. quiet[d] \in 0..(NBuckets - 1) /\ NBuckets - quiet[d] \in Bucket
          BY <1>3, <3>3 DEF Consistent, Bucket, TypeOK
        <5>2. EntryAlive(d)
          BY <1>3, <3>3, <5>1 DEF Consistent, EntryAlive
        <5>3. object[d] = "live"
          BY <1>3, <3>3 DEF Consistent, Connected, TypeOK, Lifetime
        <5>4. QED
          BY <5>1, <5>2, <5>3
      <4>2. d \in Dying <=> quiet[d] = NBuckets - 1
        BY <3>3, <4>1, DyingIsOld
      <4>3. quiet'[d] = quiet[d] + 1
        BY <1>4, <4>1 DEF OnTimer
      <4>4. conn'[d].state = IF quiet[d] = NBuckets - 1
                             THEN "kDisconnecting" ELSE "kConnected"
        BY <3>1, <3>2, <3>3, <4>1, <4>2, ShutdownType DEF Connected
      <4>5. QED
        BY <3>3, <4>1, <4>3, <4>4 DEF PhaseOf, Left, Connected
    <3>4. CASE ~Connected(d)
      <4>1. conn'[d] = conn[d]
        BY <3>1, <3>2, <3>4, ShutdownType DEF Connected
      <4>2. QED
        BY <3>1, <3>4, <4>1 DEF PhaseOf, Left, Connected, Connection, ConnState
    <3>5. QED
      BY <3>3, <3>4
  <2>2. /\ ph' = [d \in Conn |-> IF ph[d] = "live" /\ lf[d] = 1
                                 THEN "closing" ELSE ph[d]]
        /\ lf' = [d \in Conn |-> IF ph[d] = "live" THEN lf[d] - 1 ELSE 0]
    BY <1>1, <1>2, <2>1
  <2>3. QED
    BY <2>2 DEF Countdown!Next, Countdown!Tick
<1>5. ASSUME NEW c \in Conn, NEW p, NEW l,
             PhaseOf(c)' = p, Left(c)' = l,
             \A d \in Conn \ {c} : conn'[d] = conn[d] /\ quiet'[d] = quiet[d]
      PROVE  /\ ph' = [ph EXCEPT ![c] = p]
             /\ lf' = [lf EXCEPT ![c] = l]
  <2>1. \A d \in Conn \ {c} : PhaseOf(d)' = PhaseOf(d) /\ Left(d)' = Left(d)
    BY <1>5 DEF PhaseOf, Left, Connected
  <2>2. ph'[c] = p /\ lf'[c] = l
    BY <1>1, <1>2, <1>5
  <2>3. QED
    BY <1>1, <1>2, <2>1, <2>2, ZenonT(60)
<1>6. ASSUME NEW c \in Conn, Accept(c) PROVE Countdown!Next
  <2>1. /\ conn'[c].state = "kConnected" /\ quiet'[c] = 0
        /\ \A d \in Conn \ {c} : conn'[d] = conn[d] /\ quiet'[d] = quiet[d]
    BY <1>3, <1>6 DEF Accept, ConnectEstablished, TypeOK, Connection
  <2>2. PhaseOf(c) = "absent"
    BY <1>3, <1>6 DEF Accept, Consistent, PhaseOf
  <2>3. PhaseOf(c)' = "live" /\ Left(c)' = NBuckets
    BY <2>1 DEF PhaseOf, Left, Connected
  <2>4. /\ ph' = [ph EXCEPT ![c] = "live"]
        /\ lf' = [lf EXCEPT ![c] = NBuckets]
    BY <1>5, <2>1, <2>3
  <2>5. QED
    BY <2>2, <2>4 DEF Countdown!Next, Countdown!Arrive
<1>7. ASSUME NEW c \in Conn, OnDown(c) PROVE Countdown!Next
  <2>1. /\ conn'[c].state = "kDisconnected"
        /\ \A d \in Conn \ {c} : conn'[d] = conn[d] /\ quiet'[d] = quiet[d]
    BY <1>3, <1>7 DEF OnDown, HandleClose, TypeOK, Connection
  <2>2. PhaseOf(c) \in {"live", "closing"}
    BY <1>3, <1>7 DEF OnDown, Consistent, PhaseOf, Connected
  <2>3. PhaseOf(c)' = "gone" /\ Left(c)' = 0
    BY <2>1 DEF PhaseOf, Left, Connected
  <2>4. /\ ph' = [ph EXCEPT ![c] = "gone"]
        /\ lf' = [lf EXCEPT ![c] = 0]
    BY <1>5, <2>1, <2>3
  <2>5. QED
    BY <2>2, <2>4 DEF Countdown!Next, Countdown!Leave
<1>8. ASSUME \A d \in Conn : /\ conn'[d].state = conn[d].state
                             /\ Connected(d) => quiet'[d] = quiet[d]
      PROVE  UNCHANGED Countdown!vars
  <2>1. \A d \in Conn : PhaseOf(d)' = PhaseOf(d) /\ Left(d)' = Left(d)
    BY <1>8 DEF PhaseOf, Left, Connected
  <2>2. ph' = ph /\ lf' = lf
    BY <1>1, <1>2, <2>1
  <2>3. QED
    BY <2>2 DEF Countdown!vars
<1>9. ASSUME NEW c \in Conn, OnMessage(c)
      PROVE  Countdown!Next \/ UNCHANGED Countdown!vars
  <2>1. /\ \A d \in Conn : conn'[d].state = conn[d].state
        /\ quiet'[c] = 0
        /\ \A d \in Conn \ {c} : conn'[d] = conn[d] /\ quiet'[d] = quiet[d]
    <3>1. PICK k \in Connection(Message) :
            k.state = conn[c].state /\ conn' = [conn EXCEPT ![c] = k]
      BY <1>3, <1>9, OnMessageConn
    <3>2. quiet' = [quiet EXCEPT ![c] = 0]
      BY <1>9 DEF OnMessage
    <3>3. conn \in [Conn -> Connection(Message)] /\ quiet \in [Conn -> 0..NBuckets]
      BY <1>3 DEF TypeOK
    <3>4. QED
      BY <3>1, <3>2, <3>3
  <2>2. CASE Connected(c)
    <3>1. PhaseOf(c) = "live" /\ PhaseOf(c)' = "live" /\ Left(c)' = NBuckets
      BY <2>1, <2>2 DEF PhaseOf, Left, Connected
    <3>2. /\ ph' = [ph EXCEPT ![c] = "live"]
          /\ lf' = [lf EXCEPT ![c] = NBuckets]
      BY <1>5, <2>1, <3>1
    <3>3. ph' = ph
      BY <3>1, <3>2
    <3>4. QED
      BY <3>1, <3>2, <3>3 DEF Countdown!Next, Countdown!Activity
  <2>3. CASE ~Connected(c)
    BY <1>8, <2>1, <2>3
  <2>4. QED
    BY <2>2, <2>3
<1>10. ASSUME NEW c \in Conn, OnWritable(c) PROVE UNCHANGED Countdown!vars
  <2>1. \A d \in Conn : conn'[d].state = conn[d].state
    BY <1>3, <1>10, OnWritableConn DEF TypeOK
  <2>2. QED
    BY <1>8, <1>10, <2>1 DEF OnWritable
<1>11. ASSUME conn' = conn /\ quiet' = quiet PROVE UNCHANGED Countdown!vars
  BY <1>8, <1>11
<1>12. QED
  BY <1>4, <1>6, <1>7, <1>9, <1>10, <1>11
  DEF Next, vars, ConnectDestroyed, PeerSend, PeerClose

\* Safety refinement: for any constants, the wheel takes only the steps that
\* one countdown per connection could take.
THEOREM WheelIsCountdown == Spec => CountdownSafety
<1>1. Init => Countdown!Init
  <2> SUFFICES ASSUME Init PROVE Countdown!Init
    OBVIOUS
  <2>1. \A c \in Conn : PhaseOf(c) = "absent" /\ ~Connected(c)
    BY DEF Init, Connecting, PhaseOf, Connected
  <2>2. QED
    BY <2>1 DEF Countdown!Init
<1>2. QED
  BY <1>1, IInvInit, IInvStep, AbstractStep, PTL DEF Spec, CountdownSafety
-----------------------------------------------------------------------------
(* The echo: a second inductive invariant, of the data of each connection. *)

\* The messages 1, 2, ..., n.
Upto(n) == [i \in 1..n |-> i]

\* Nothing is shut over unsent data or while connected; a client whose
\* connection is not yet being closed had everything accepted that was read;
\* and a client that is there has been echoed exactly what was accepted.
Echoed(c) ==
  /\ Drained(conn[c])
  /\ conn[c].fin => conn[c].state \in {"kDisconnecting", "kDisconnected"}
  /\ conn[c].state \in {"kConnecting", "kConnected"} => accepted[c] = read[c]
  /\ peer[c] = "open" => Total(conn[c]) = Upto(accepted[c])

EInv == IInv /\ \A c \in Conn : Echoed(c)

\* Numbers that continue 1, 2, ..., Len(p) after p.
LEMMA UptoContinues ==
  ASSUME NEW p \in Seq(Nat), \A i \in 1..Len(p) : p[i] = i,
         NEW u \in Seq(Nat), \A i \in 1..Len(u) : u[i] = Len(p) + i,
         NEW q \in Seq(Nat), \A i \in 1..Len(q) : q[i] = i,
         Len(q) = Len(p) + Len(u)
  PROVE  p \o u = q
<1>1. /\ p \o u \in Seq(Nat) /\ Len(p \o u) = Len(p) + Len(u)
      /\ \A i \in 1..Len(p) + Len(u) :
           (p \o u)[i] = IF i <= Len(p) THEN p[i] ELSE u[i - Len(p)]
  BY ConcatProperties
<1>2. ASSUME NEW i \in 1..Len(p) + Len(u) PROVE (p \o u)[i] = q[i]
  <2>1. CASE i <= Len(p)
    BY <1>1, <2>1
  <2>2. CASE ~(i <= Len(p))
    <3>1. i - Len(p) \in 1..Len(u)
      BY <2>2
    <3>2. u[i - Len(p)] = i
      <4>1. u[i - Len(p)] = Len(p) + (i - Len(p))
        BY <3>1, Zenon
      <4>2. Len(p) \in Int /\ i \in Int
        OBVIOUS
      <4>3. QED
        BY <4>1, <4>2
    <3>3. (p \o u)[i] = u[i - Len(p)]
      BY <1>1, <2>2, Zenon
    <3>4. QED
      BY <3>2, <3>3
  <2>3. QED
    BY <2>1, <2>2
<1>3. QED
  BY <1>1, <1>2, SeqEqual

\* The first n messages are a sequence of length n.
LEMMA UptoSeq ==
  ASSUME NEW n \in Nat
  PROVE  Upto(n) \in Seq(Nat) /\ Len(Upto(n)) = n /\ \A i \in 1..n : Upto(n)[i] = i
BY DEF Upto

\* Unread messages continue the ones that were read.
LEMMA UnreadContinues ==
  ASSUME TypeOK, NEW c \in Conn, read[c] < sent[c]
  PROVE  Upto(read[c]) \o Unread(c) = Upto(sent[c])
<1>1. read[c] \in Nat /\ sent[c] \in Nat /\ sent[c] - read[c] \in Nat
  BY MaxMsgsAssumption DEF TypeOK
<1>2. /\ Unread(c) \in Seq(Nat) /\ Len(Unread(c)) = sent[c] - read[c]
      /\ \A i \in 1..(sent[c] - read[c]) : Unread(c)[i] = read[c] + i
  BY <1>1 DEF Unread
<1>3. ASSUME NEW p \in Seq(Nat), p = Upto(read[c]),
             NEW u \in Seq(Nat), u = Unread(c),
             NEW q \in Seq(Nat), q = Upto(sent[c])
      PROVE  p \o u = q
  <2>1. Len(p) = read[c] /\ \A i \in 1..Len(p) : p[i] = i
    BY <1>1, <1>3, UptoSeq
  <2>2. Len(q) = sent[c] /\ \A i \in 1..Len(q) : q[i] = i
    BY <1>1, <1>3, UptoSeq
  <2>3. Len(u) = sent[c] - read[c] /\ \A i \in 1..Len(u) : u[i] = Len(p) + i
    BY <1>2, <1>3, <2>1
  <2>4. Len(q) = Len(p) + Len(u)
    BY <1>1, <2>1, <2>2, <2>3
  <2>5. QED
    BY <2>1, <2>2, <2>3, <2>4, UptoContinues, Zenon
<1>4. QED
  BY <1>1, <1>2, <1>3, UptoSeq, Zenon

\* No connection has data at the start.
LEMMA EchoInit == Init => \A c \in Conn : Echoed(c)
<1>1. Total(Connecting) = Upto(0)
  BY DEF Connecting, Total, Upto
<1>2. Drained(Connecting) /\ ~Connecting.fin
  BY DEF Connecting, Drained
<1>3. QED
  BY <1>1, <1>2 DEF Init, Echoed

\* onMessage appends what it reads to what a connected client is echoed.
LEMMA OnMessageEcho ==
  ASSUME IInv, NEW c \in Conn, Echoed(c), OnMessage(c)
  PROVE  Echoed(c)'
<1>1. conn[c] \in Connection(Message) /\ Unread(c) \in Seq(Message)
  BY UnreadType DEF OnMessage, TypeOK, IInv
<1>2. PICK o \in Send(conn[c], Unread(c), peer[c] = "closed") :
        conn' = [conn EXCEPT ![c] = o.conn]
  BY DEF OnMessage
<1>3. conn'[c] = o.conn /\ peer' = peer /\ read'[c] = sent[c]
  BY <1>2 DEF OnMessage, TypeOK, IInv
<1>4. /\ o.conn.state = conn[c].state
      /\ o.conn.fin = conn[c].fin
  BY <1>1, <1>2, SendType
<1>5. CASE conn[c].state = "kConnected"
  <2>1. ~conn[c].fin /\ accepted[c] = read[c]
    BY <1>5 DEF Echoed
  <2>2. accepted'[c] = sent[c]
    BY <1>5 DEF OnMessage, TypeOK, IInv
  <2>3. ASSUME peer[c] = "open" PROVE Total(conn'[c]) = Upto(accepted'[c])
    <3>1. Total(conn[c]) = Upto(read[c])
      BY <2>1, <2>3 DEF Echoed
    <3>2. peer[c] # "closed"
      BY <2>3
    <3>3. Total(o.conn) = Total(conn[c]) \o Unread(c)
      BY <1>1, <1>2, <1>5, <2>1, <3>2, SendTotal
    <3>4. Upto(read[c]) \o Unread(c) = Upto(sent[c])
      BY UnreadContinues DEF OnMessage, IInv
    <3>5. QED
      BY <1>3, <2>2, <3>1, <3>3, <3>4, Zenon
  <2>4. QED
    BY <1>3, <1>4, <1>5, <2>1, <2>2, <2>3 DEF Echoed, Drained
<1>6. CASE conn[c].state # "kConnected"
  <2>1. o.conn = conn[c]
    BY <1>2, <1>6 DEF Send, Outcome
  <2>2. accepted'[c] = accepted[c]
    BY <1>6 DEF OnMessage, TypeOK, IInv
  <2>3. conn[c].state # "kConnecting"
    BY DEF OnMessage, IInv, StateFollowsObject
  <2>4. QED
    BY <1>3, <1>6, <2>1, <2>2, <2>3 DEF Echoed
<1>7. QED
  BY <1>5, <1>6

\* A step that leaves a connection's data alone leaves its echo alone.
LEMMA EchoUntouched ==
  ASSUME NEW d \in Conn, Echoed(d), conn'[d] = conn[d],
         read'[d] = read[d], accepted'[d] = accepted[d],
         peer'[d] = "open" => peer[d] = "open"
  PROVE  Echoed(d)'
BY DEF Echoed

\* Every step preserves it: one step per callback.
LEMMA EchoStep == EInv /\ [Next]_vars => EInv'
<1> SUFFICES ASSUME EInv, [Next]_vars PROVE EInv'
  OBVIOUS
<1>1. IInv /\ IInv' /\ TypeOK /\ TypeOK'
  BY IInvStep DEF EInv, IInv
<1>2. ASSUME NEW d \in Conn PROVE Echoed(d)'
  <2>0. Echoed(d) /\ conn[d] \in Connection(Message)
    BY <1>1 DEF EInv, TypeOK
  <2>1. CASE OnTimer
    <3>1. conn'[d] = conn[d] \/ conn'[d] = Shutdown(conn[d])
      BY <1>1, <2>1, OnTimerConn
    <3>2. read' = read /\ accepted' = accepted /\ peer' = peer
      BY <2>1 DEF OnTimer
    <3>3. CASE conn'[d] = Shutdown(conn[d])
      <4>1. Total(conn'[d]) = Total(conn[d]) /\ Drained(conn'[d])
        BY <2>0, <3>3, ShutdownTotal DEF Echoed
      <4>2. CASE Connected(d)
        BY <2>0, <3>2, <3>3, <4>1, <4>2, ShutdownType DEF Echoed, Connected
      <4>3. CASE ~Connected(d)
        <5>1. conn'[d] = conn[d]
          BY <2>0, <3>3, <4>3, ShutdownType DEF Connected
        <5>2. QED
          BY <2>0, <3>2, <5>1, EchoUntouched
      <4>4. QED
        BY <4>2, <4>3
    <3>4. QED
      BY <2>0, <3>1, <3>2, <3>3, EchoUntouched
  <2>2. ASSUME NEW c \in Conn, Accept(c) PROVE Echoed(d)'
    <3>1. CASE d = c
      <4>1. /\ conn'[c] = ConnectEstablished(conn[c])
            /\ read' = read /\ accepted' = accepted /\ peer' = peer
        BY <1>1, <2>2 DEF Accept, TypeOK
      <4>2. conn[c].state = "kConnecting"
        BY <1>1, <2>2 DEF Accept, IInv, StateFollowsObject
      <4>3. /\ conn'[c].state = "kConnected" /\ conn'[c].fin = conn[c].fin
            /\ conn'[c].wire = conn[c].wire /\ conn'[c].out = conn[c].out
        BY <2>0, <3>1, <4>1 DEF ConnectEstablished, Connection
      <4>4. Total(conn'[c]) = Total(conn[c])
        BY <4>3 DEF Total
      <4>5. QED
        BY <2>0, <3>1, <4>1, <4>2, <4>3, <4>4 DEF Echoed, Drained
    <3>2. CASE d # c
      BY <1>1, <2>0, <2>2, <3>2, EchoUntouched DEF Accept, TypeOK
    <3>3. QED
      BY <3>1, <3>2
  <2>3. ASSUME NEW c \in Conn, OnMessage(c) PROVE Echoed(d)'
    <3>1. CASE d = c
      BY <1>1, <2>0, <2>3, <3>1, OnMessageEcho
    <3>2. CASE d # c
      <4>1. conn'[d] = conn[d]
        BY <1>1, <2>3, <3>2, OnMessageConn DEF TypeOK
      <4>2. QED
        BY <1>1, <2>0, <2>3, <3>2, <4>1, EchoUntouched DEF OnMessage, TypeOK
    <3>3. QED
      BY <3>1, <3>2
  <2>4. ASSUME NEW c \in Conn, OnDown(c) PROVE Echoed(d)'
    <3>1. CASE d = c
      <4>1. /\ conn'[c] = HandleClose(conn[c])
            /\ peer'[c] = "closed"
        BY <1>1, <2>4 DEF OnDown, TypeOK
      <4>2. /\ conn'[c].state = "kDisconnected"
            /\ conn'[c].fin = conn[c].fin /\ conn'[c].out = conn[c].out
        BY <2>0, <3>1, <4>1 DEF HandleClose, Connection, ConnState
      <4>3. QED
        BY <2>0, <3>1, <4>1, <4>2 DEF Echoed, Drained
    <3>2. CASE d # c
      BY <1>1, <2>0, <2>4, <3>2, EchoUntouched DEF OnDown, TypeOK
    <3>3. QED
      BY <3>1, <3>2
  <2>5. ASSUME NEW c \in Conn, OnWritable(c) PROVE Echoed(d)'
    <3>0. read' = read /\ accepted' = accepted /\ peer' = peer
      BY <2>5 DEF OnWritable
    <3>1. CASE d = c
      <4>1. PICK o \in HandleWrite(conn[c]) : conn' = [conn EXCEPT ![c] = o.conn]
        BY <2>5 DEF OnWritable
      <4>2. conn'[c] = o.conn
        BY <1>1, <4>1 DEF TypeOK
      <4>3. /\ Total(o.conn) = Total(conn[c]) /\ Drained(o.conn)
            /\ o.conn.fin => conn[c].state = "kDisconnecting"
        BY <2>0, <3>1, <4>1, HandleWriteTotal DEF Echoed
      <4>4. o.conn.state = conn[c].state
        BY <2>0, <3>1, <4>1, HandleWriteType
      <4>5. QED
        BY <2>0, <3>0, <3>1, <4>2, <4>3, <4>4 DEF Echoed
    <3>2. CASE d # c
      <4>1. conn'[d] = conn[d]
        BY <1>1, <2>5, <3>2, OnWritableConn DEF TypeOK
      <4>2. QED
        BY <2>0, <3>0, <4>1, EchoUntouched
    <3>3. QED
      BY <3>1, <3>2
  <2>6. ASSUME NEW c \in Conn, ConnectDestroyed(c) \/ PeerSend(c) PROVE Echoed(d)'
    BY <2>0, <2>6, EchoUntouched DEF ConnectDestroyed, PeerSend
  <2>7. ASSUME NEW c \in Conn, PeerClose(c) PROVE Echoed(d)'
    BY <1>1, <2>0, <2>7, EchoUntouched DEF PeerClose, TypeOK
  <2>8. CASE UNCHANGED vars
    BY <2>0, <2>8, EchoUntouched DEF vars
  <2>9. QED
    BY <2>1, <2>2, <2>3, <2>4, <2>5, <2>6, <2>7, <2>8 DEF Next
<1>3. QED
  BY <1>1, <1>2 DEF EInv

\* Both invariants hold at the start.
LEMMA EInvInit == Init => EInv
BY IInvInit, EchoInit DEF EInv

\* While a client is there, what it has been and will be sent is exactly what
\* was read from it while connected, in order.
THEOREM EchoIsFaithful == Spec => []EchoFaithful
<1>1. EInv => EchoFaithful
  BY DEF EInv, Echoed, EchoFaithful, Total, Upto
<1>2. QED
  BY <1>1, EInvInit, EchoStep, PTL DEF Spec

\* The server's end-of-file comes after the last echo.
THEOREM FinComesLast == Spec => []FinAfterEcho
<1>1. ASSUME EInv, NEW c \in Conn, conn[c].fin
      PROVE  /\ ~Connected(c)
             /\ peer[c] = "open" => Len(conn[c].wire) = accepted[c]
  <2>1. Echoed(c) /\ TypeOK
    BY <1>1 DEF EInv, IInv
  <2>2. ~Connected(c) /\ conn[c].out = <<>>
    BY <1>1, <2>1 DEF Echoed, Drained, Connected
  <2>3. ASSUME peer[c] = "open" PROVE Len(conn[c].wire) = accepted[c]
    <3>1. conn[c].wire \o <<>> = conn[c].wire
      BY <2>1, ConcatEmptySeq DEF TypeOK, Connection
    <3>2. conn[c].wire \o conn[c].out = Upto(accepted[c])
      BY <2>1, <2>3 DEF Echoed, Total
    <3>3. conn[c].wire = Upto(accepted[c])
      BY <2>2, <3>1, <3>2, Zenon
    <3>4. accepted[c] \in Nat
      BY <2>1, MaxMsgsAssumption DEF TypeOK
    <3>5. QED
      BY <3>3, <3>4 DEF Upto
  <2>4. QED
    BY <2>2, <2>3
<1>2. EInv => FinAfterEcho
  BY <1>1 DEF FinAfterEcho
<1>3. QED
  BY <1>2, EInvInit, EchoStep, PTL DEF Spec
-----------------------------------------------------------------------------
(* The seconds of IdleClock.                                               *)

ClockType == elapsed \in 0..(TickSeconds - 1) /\ idle \in [Conn -> 0..MaxIdle]

\* A client has been silent for its ticks, the seconds since the last of them
\* and those of the first that had passed when it spoke.
Between(c) ==
  Connected(c) => /\ idle[c] <= quiet[c] * TickSeconds + elapsed
                  /\ quiet[c] * TickSeconds + elapsed <= idle[c] + (TickSeconds - 1)

CInv == IInv /\ ClockType /\ \A c \in Conn : Between(c)

\* The numbers of these, for any number of silent ticks below NBuckets.
LEMMA TickNumbers ==
  ASSUME NEW q \in 0..(NBuckets - 1)
  PROVE  /\ q * TickSeconds \in Nat
         /\ q * TickSeconds + TickSeconds <= NBuckets * TickSeconds
         /\ (q + 1) * TickSeconds = q * TickSeconds + TickSeconds
         /\ MaxIdle \in Nat /\ MaxIdle = NBuckets * TickSeconds + 1
<1>1. TickSeconds \in Nat /\ NBuckets \in Nat /\ q \in Nat
  BY TickSecondsAssumption, NBucketsAssumption
<1>2. NBuckets * TickSeconds \in Nat /\ q * TickSeconds \in Nat
  BY <1>1
<1>3. (q + 1) * TickSeconds = q * TickSeconds + TickSeconds
  BY <1>1
<1>4. (NBuckets - (q + 1)) * TickSeconds \in Nat
  BY <1>1
<1>5. (NBuckets - (q + 1)) * TickSeconds = NBuckets * TickSeconds - (q + 1) * TickSeconds
  BY <1>1
<1>6. q * TickSeconds + TickSeconds <= NBuckets * TickSeconds
  BY <1>1, <1>2, <1>3, <1>4, <1>5
<1>7. QED
  BY <1>2, <1>3, <1>6 DEF MaxIdle

\* A connected client exists, and one more second makes it a second older.
LEMMA OneSecond ==
  ASSUME CInv, NEW c \in Conn, Connected(c)
  PROVE  /\ object[c] = "live" /\ quiet[c] \in 0..(NBuckets - 1)
         /\ idle[c] \in Nat /\ elapsed \in Nat /\ Older[c] = idle[c] + 1
<1>1. object[c] = "live" /\ quiet[c] \in 0..(NBuckets - 1)
  BY NBucketsAssumption
     DEF CInv, IInv, TypeOK, WheelTellsAge, StateFollowsObject, Connected, Lifetime
<1>2. idle[c] \in 0..MaxIdle /\ elapsed \in 0..(TickSeconds - 1)
  BY DEF CInv, ClockType
<1>3. idle[c] <= quiet[c] * TickSeconds + elapsed
  BY DEF CInv, Between
<1>4. idle[c] < MaxIdle
  <2>1. ASSUME NEW p \in Nat, NEW m \in Nat, p + TickSeconds <= m, idle[c] <= p + elapsed
        PROVE  idle[c] < m + 1
    BY <1>2, <2>1, TickSecondsAssumption
  <2>2. NBuckets * TickSeconds \in Nat
    BY NBucketsAssumption, TickSecondsAssumption
  <2>3. QED
    BY <1>1, <1>3, <2>1, <2>2, TickNumbers
<1>5. QED
  BY <1>1, <1>2, <1>4 DEF Older

\* No second passes before the start.
LEMMA ClockInvInit == ClockInit => CInv
<1> SUFFICES ASSUME ClockInit PROVE CInv
  OBVIOUS
<1>1. IInv
  BY IInvInit DEF ClockInit
<1>2. NBuckets * TickSeconds \in Nat
  BY NBucketsAssumption, TickSecondsAssumption
<1>3. ClockType
  BY <1>2, TickSecondsAssumption DEF ClockInit, ClockType, MaxIdle
<1>4. \A c \in Conn : Between(c)
  BY DEF ClockInit, Init, Connecting, Between, Connected
<1>5. QED
  BY <1>1, <1>3, <1>4 DEF CInv

\* A second between two ticks.
LEMMA SecondStep ==
  ASSUME CInv, IInv', ClockType', Second
  PROVE  CInv'
<1>1. elapsed' = elapsed + 1 /\ idle' = Older /\ UNCHANGED <<conn, quiet>>
  BY DEF Second, vars
<1>2. ASSUME NEW c \in Conn PROVE Between(c)'
  <2> SUFFICES ASSUME Connected(c)
               PROVE  /\ idle'[c] <= quiet[c] * TickSeconds + elapsed'
                      /\ quiet[c] * TickSeconds + elapsed' <= idle'[c] + (TickSeconds - 1)
    BY <1>1 DEF Between, Connected
  <2>1. /\ quiet[c] \in 0..(NBuckets - 1) /\ idle[c] \in Nat /\ elapsed \in Nat
        /\ idle'[c] = idle[c] + 1
    BY <1>1, OneSecond
  <2>2. /\ idle[c] <= quiet[c] * TickSeconds + elapsed
        /\ quiet[c] * TickSeconds + elapsed <= idle[c] + (TickSeconds - 1)
    BY DEF CInv, Between
  <2>3. quiet[c] * TickSeconds \in Nat
    BY <2>1, TickNumbers
  <2>4. ASSUME NEW p \in Nat, idle[c] <= p + elapsed,
               p + elapsed <= idle[c] + (TickSeconds - 1)
        PROVE  /\ idle[c] + 1 <= p + (elapsed + 1)
               /\ p + (elapsed + 1) <= (idle[c] + 1) + (TickSeconds - 1)
    BY <2>1, <2>4, TickSecondsAssumption
  <2>5. QED
    BY <1>1, <2>1, <2>2, <2>3, <2>4
<1>3. QED
  BY <1>2 DEF CInv

\* The second of a tick.
LEMMA RunEveryStep ==
  ASSUME CInv, IInv', ClockType', RunEvery
  PROVE  CInv'
<1>1. elapsed + 1 = TickSeconds /\ elapsed' = 0 /\ idle' = Older /\ OnTimer
  BY DEF RunEvery
<1>2. ASSUME NEW c \in Conn PROVE Between(c)'
  <2> SUFFICES ASSUME conn'[c].state = "kConnected"
               PROVE  /\ idle'[c] <= quiet'[c] * TickSeconds + 0
                      /\ quiet'[c] * TickSeconds + 0 <= idle'[c] + (TickSeconds - 1)
    BY <1>1 DEF Between, Connected
  <2>1. Connected(c)
    <3>1. TypeOK
      BY DEF CInv, IInv
    <3>2. conn[c] \in Connection(Message)
      BY <3>1 DEF TypeOK
    <3>3. conn'[c] = conn[c] \/ conn'[c] = Shutdown(conn[c])
      BY <1>1, <3>1, OnTimerConn
    <3>4. QED
      BY <3>2, <3>3, ShutdownType DEF Connected
  <2>2. /\ quiet[c] \in 0..(NBuckets - 1) /\ idle[c] \in Nat /\ elapsed \in Nat
        /\ idle'[c] = idle[c] + 1 /\ object[c] = "live"
    BY <1>1, <2>1, OneSecond
  <2>3. quiet'[c] = quiet[c] + 1
    BY <1>1, <2>2, NBucketsAssumption DEF OnTimer
  <2>4. /\ idle[c] <= quiet[c] * TickSeconds + elapsed
        /\ quiet[c] * TickSeconds + elapsed <= idle[c] + (TickSeconds - 1)
    BY <2>1 DEF CInv, Between
  <2>5. /\ quiet[c] * TickSeconds \in Nat
        /\ quiet'[c] * TickSeconds = quiet[c] * TickSeconds + TickSeconds
    BY <2>2, <2>3, TickNumbers
  <2>6. ASSUME NEW p \in Nat, NEW z, z = p + TickSeconds, idle[c] <= p + elapsed,
               p + elapsed <= idle[c] + (TickSeconds - 1)
        PROVE  idle[c] + 1 <= z + 0 /\ z + 0 <= (idle[c] + 1) + (TickSeconds - 1)
    BY <1>1, <2>2, <2>6, TickSecondsAssumption
  <2>7. QED
    BY <2>2, <2>4, <2>5, <2>6
<1>3. QED
  BY <1>2 DEF CInv

\* What happens to one connection between two seconds.
LEMMA InstantStep ==
  ASSUME CInv, IInv', ClockType', NEW c \in Conn, Instant(c)
  PROVE  CInv'
<1>1. TypeOK /\ elapsed' = elapsed /\ elapsed \in 0..(TickSeconds - 1)
  BY DEF CInv, IInv, Instant, ClockType
<1>2. ASSUME NEW d \in Conn PROVE Between(d)'
  <2>1. CASE (Accept(c) \/ OnMessage(c)) /\ d = c
    <3>1. idle'[c] = 0 /\ quiet'[c] = 0
      <4>1. Accept(c) \/ OnMessage(c) => quiet'[c] = 0
        BY <1>1 DEF Accept, OnMessage, TypeOK
      <4>2. idle' = [idle EXCEPT ![c] = 0]
        BY <2>1 DEF Instant, Accept, OnMessage, OnDown, ConnectDestroyed, OnWritable,
                    PeerSend, PeerClose, TypeOK, CInv, IInv
      <4>3. QED
        BY <2>1, <4>1, <4>2 DEF CInv, ClockType
    <3>2. 0 * TickSeconds = 0
      BY TickSecondsAssumption
    <3>3. QED
      BY <1>1, <2>1, <3>1, <3>2, TickSecondsAssumption DEF Between
  <2>2. CASE ~((Accept(c) \/ OnMessage(c)) /\ d = c)
    <3>1. idle'[d] = idle[d] /\ quiet'[d] = quiet[d]
      <4>1. CASE Accept(c) \/ OnMessage(c)
        BY <1>1, <2>2, <4>1
           DEF Instant, Accept, OnMessage, TypeOK, CInv, ClockType
      <4>2. CASE ~(Accept(c) \/ OnMessage(c))
        BY <4>2 DEF Instant, OnDown, ConnectDestroyed, OnWritable, PeerSend, PeerClose
      <4>3. QED
        BY <4>1, <4>2
    <3>2. Connected(d)' => Connected(d)
      <4>1. ASSUME Accept(c) \/ OnMessage(c) PROVE conn'[d] = conn[d]
        BY <1>1, <2>2, <4>1 DEF Accept, OnMessage, TypeOK
      <4>2. ASSUME OnDown(c) PROVE Connected(d)' => Connected(d)
        BY <1>1, <4>2 DEF OnDown, HandleClose, TypeOK, Connection, Connected
      <4>3. ASSUME OnWritable(c) PROVE conn'[d].state = conn[d].state
        BY <1>1, <4>3, OnWritableConn DEF TypeOK
      <4>4. ASSUME ConnectDestroyed(c) \/ PeerSend(c) \/ PeerClose(c) PROVE conn' = conn
        BY <4>4 DEF ConnectDestroyed, PeerSend, PeerClose
      <4>5. QED
        BY <4>1, <4>2, <4>3, <4>4 DEF Instant, Connected
    <3>3. Between(d)
      BY DEF CInv
    <3>4. QED
      BY <1>1, <3>1, <3>2, <3>3 DEF Between
  <2>3. QED
    BY <2>1, <2>2
<1>3. QED
  BY <1>2 DEF CInv

\* The clock is a clock, whatever happens.
LEMMA ClockTypeStep ==
  ASSUME ClockType, [ClockNext]_clockVars
  PROVE  ClockType'
<1>1. MaxIdle \in Nat /\ TickSeconds \in Nat \ {0}
  BY NBucketsAssumption, TickSecondsAssumption DEF MaxIdle
<1>2. Older \in [Conn -> 0..MaxIdle]
  BY <1>1 DEF ClockType, Older
<1>3. CASE Second
  BY <1>1, <1>2, <1>3 DEF Second, ClockType
<1>4. CASE RunEvery
  BY <1>1, <1>2, <1>4 DEF RunEvery, ClockType
<1>5. ASSUME NEW c \in Conn, Instant(c) PROVE ClockType'
  BY <1>1, <1>5 DEF Instant, ClockType
<1>6. CASE UNCHANGED clockVars
  BY <1>6 DEF clockVars, ClockType
<1>7. QED
  BY <1>3, <1>4, <1>5, <1>6 DEF ClockNext

\* Every second and all that happens between two keeps the invariant.
LEMMA ClockStep ==
  ASSUME CInv, [ClockNext]_clockVars
  PROVE  [Next]_vars /\ CInv'
<1>1. [Next]_vars
  BY DEF ClockNext, Second, RunEvery, Instant, Next, clockVars
<1>2. IInv'
  BY <1>1, IInvStep DEF CInv
<1>3. ClockType'
  BY ClockTypeStep DEF CInv
<1>4. CASE UNCHANGED clockVars
  BY <1>2, <1>3, <1>4 DEF CInv, clockVars, vars, Between, Connected
<1>5. QED
  BY <1>1, <1>2, <1>3, <1>4, SecondStep, RunEveryStep, InstantStep DEF ClockNext

\* The server closes a silent connection after more than NBuckets - 1 and at
\* most NBuckets timer periods of real silence (CloseWindow).
THEOREM WindowOfSilence == ClockSpec => CloseWindow
<1> DEFINE Window ==
      \A c \in Conn : Connected(c) /\ conn'[c].state = "kDisconnecting"
        => /\ idle'[c] > (NBuckets - 1) * TickSeconds
           /\ idle'[c] <= NBuckets * TickSeconds
<1>1. ASSUME CInv, [ClockNext]_clockVars PROVE [Window]_clockVars
  <2> SUFFICES ASSUME NEW c \in Conn, Connected(c), conn'[c].state = "kDisconnecting"
               PROVE  /\ idle'[c] > (NBuckets - 1) * TickSeconds
                      /\ idle'[c] <= NBuckets * TickSeconds
    OBVIOUS
  <2>1. OnTimer /\ quiet[c] = NBuckets - 1
    BY <1>1, ClockStep, OnlyTimerCloses DEF CInv
  <2>2. elapsed + 1 = TickSeconds /\ idle' = Older
    <3>1. conn' # conn
      BY DEF Connected
    <3>2. ASSUME NEW d \in Conn, Instant(d) PROVE FALSE
      <4>1. TypeOK /\ object[c] = "live"
        BY <1>1, OneSecond DEF CInv, IInv
      <4>2. quiet'[c] = quiet[c] + 1
        BY <2>1, <4>1, NBucketsAssumption DEF OnTimer
      <4>3. quiet'[c] = quiet[c] \/ quiet'[c] = 0
        BY <3>2, <4>1 DEF Instant, Accept, OnMessage, OnDown, ConnectDestroyed,
                          OnWritable, PeerSend, PeerClose, TypeOK
      <4>4. quiet[c] \in Nat
        BY <2>1, NBucketsAssumption
      <4>5. QED
        BY <4>2, <4>3, <4>4
    <3>3. RunEvery
      BY <1>1, <3>1, <3>2 DEF ClockNext, Second, clockVars, vars
    <3>4. QED
      BY <3>3 DEF RunEvery
  <2>3. /\ quiet[c] \in 0..(NBuckets - 1) /\ idle[c] \in Nat /\ elapsed \in Nat
        /\ idle'[c] = idle[c] + 1
    BY <1>1, <2>2, OneSecond
  <2>4. /\ idle[c] <= (NBuckets - 1) * TickSeconds + elapsed
        /\ (NBuckets - 1) * TickSeconds + elapsed <= idle[c] + (TickSeconds - 1)
    BY <1>1, <2>1 DEF CInv, Between
  <2>5. /\ (NBuckets - 1) * TickSeconds \in Nat
        /\ NBuckets * TickSeconds = (NBuckets - 1) * TickSeconds + TickSeconds
    <3>1. NBuckets - 1 \in 0..(NBuckets - 1) /\ (NBuckets - 1) + 1 = NBuckets
      BY NBucketsAssumption
    <3>2. QED
      BY <3>1, TickNumbers
  <2>6. ASSUME NEW p \in Nat, NEW z, z = p + TickSeconds, idle[c] <= p + elapsed,
               p + elapsed <= idle[c] + (TickSeconds - 1)
        PROVE  idle[c] + 1 > p /\ idle[c] + 1 <= z
    BY <2>2, <2>3, <2>6, TickSecondsAssumption
  <2>7. QED
    BY <2>3, <2>4, <2>5, <2>6
<1>2. CInv /\ [ClockNext]_clockVars => CInv'
  BY ClockStep
<1>3. QED
  BY <1>1, <1>2, ClockInvInit, PTL DEF ClockSpec, CloseWindow
=============================================================================
