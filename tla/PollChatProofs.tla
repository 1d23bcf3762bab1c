---------------------------- MODULE PollChatProofs ----------------------------
(***************************************************************************)
(* Theorems about the chat server: all clients take part in the same       *)
(* conversation, and the server never uses a socket that it has closed.    *)
(***************************************************************************)
EXTENDS PollChat, SharedLemmas

Sockets == Client \cup {Listener}

\* A unit of the conversation, by its speaker and number.
Spoken == Client \X Nat
By(c) == {c} \X (1..MaxSent)
Lines(c, n) == [i \in 1..n |-> <<c, i>>]
After(c, n, k) == [i \in 1..k |-> <<c, n + i>>]

Streams == {"new", "open", "half", "fin", "probed", "reset", "finreset"}

TypeInv ==
  /\ pc \in {"loop", "sending", "dead"}
  /\ registered \in Seq(Client) /\ connections \in Seq(Client)
  /\ backlog \in Seq(Client) /\ todo \in Seq(Client)
  /\ batch \in Seq(Sockets)
  /\ data \in [from : Sockets, units : Seq(Spoken)]
  /\ stream \in [Client -> Streams]
  /\ sent \in [Client -> Nat] /\ said \in [Client -> Nat]
  /\ lag \in [Client -> Nat] /\ joined \in [Client -> Nat]
  /\ heard \in [Client -> Seq(Spoken)]
  /\ log \in Seq(Spoken)

\* poll and the dict know the same clients; each client comes once.
TablesOK ==
  /\ registered = connections
  /\ Distinct(connections) /\ Distinct(backlog)
  /\ \A c \in Client :
       /\ IsIn(c, backlog) => ~IsIn(c, connections)
       /\ stream[c] = "new" => ~IsIn(c, backlog) /\ ~IsIn(c, connections)
       /\ stream[c] = "new" \/ IsIn(c, backlog) => heard[c] = <<>>

\* An event is still true when it is handled.
BatchOK ==
  /\ Distinct(batch)
  /\ IsIn(Listener, batch) => backlog # <<>>
  /\ \A c \in Client : IsIn(c, batch) => Readable(c) /\ IsIn(c, connections)

\* The broadcast goes to clients in the tables; nobody leaves during it.
BroadcastOK ==
  /\ pc = "loop" => todo = <<>>
  /\ pc = "sending" => data.from \in Client /\ todo # <<>>
  /\ Distinct(todo)
  /\ \A c \in Client : IsIn(c, todo) => IsIn(c, connections)

\* The last chunk of the conversation is what is being broadcast; a client
\* has been sent all the rest that was said since it joined.
HeardOK ==
  /\ pc # "loop" /\ todo # <<>> =>
       /\ Len(data.units) <= Len(log)
       /\ SubSeq(log, Len(log) - Len(data.units) + 1, Len(log)) = data.units
  /\ \A c \in Client : IsIn(c, connections) =>
       /\ joined[c] <= Len(log)
       /\ ~IsIn(c, todo) => heard[c] = SubSeq(log, joined[c] + 1, Len(log))
       /\ IsIn(c, todo) =>
            /\ joined[c] <= Len(log) - Len(data.units)
            /\ heard[c] = SubSeq(log, joined[c] + 1, Len(log) - Len(data.units))

\* What a client said is in the conversation, in order.
SaidOK ==
  \A c \in Client : /\ said[c] <= sent[c] /\ sent[c] <= MaxSent
                    /\ Kept(log, By(c)) = Lines(c, said[c])

IInv == /\ TypeInv /\ TablesOK /\ BatchOK /\ BroadcastOK /\ HeardOK /\ SaidOK
        /\ DiesOnlyByReset
-----------------------------------------------------------------------------
(* Sequences of units.                                                     *)

LEMMA SubSeqJoin ==
  ASSUME NEW E, NEW s \in Seq(E), NEW j \in Nat, NEW k \in Nat, j <= k, k <= Len(s)
  PROVE  SubSeq(s, j + 1, k) \o SubSeq(s, k + 1, Len(s)) = SubSeq(s, j + 1, Len(s))
<1> DEFINE N == Len(s)
           a == SubSeq(s, j + 1, k)
           b == SubSeq(s, k + 1, N)
           r == a \o b
           t == SubSeq(s, j + 1, N)
<1>1. N \in Nat /\ \A i \in 1..N : s[i] \in E
  BY LenProperties
<1>2. /\ a \in Seq(E) /\ Len(a) = k - j /\ \A i \in 1..(k - j) : a[i] = s[j + i]
  BY <1>1
<1>3. /\ b \in Seq(E) /\ Len(b) = N - k /\ \A i \in 1..(N - k) : b[i] = s[k + i]
  BY <1>1
<1>4. /\ t \in Seq(E) /\ Len(t) = N - j /\ \A i \in 1..(N - j) : t[i] = s[j + i]
  BY <1>1
<1> HIDE DEF a, b, t
<1>a. /\ r \in Seq(E) /\ Len(r) = Len(a) + Len(b)
      /\ \A i \in 1..Len(a) + Len(b) : r[i] = IF i <= Len(a) THEN a[i] ELSE b[i - Len(a)]
  BY <1>2, <1>3, ConcatProperties
<1> HIDE DEF r
<1>6. Len(a) + Len(b) = N - j
  BY <1>1, <1>2, <1>3
<1>5. /\ r \in Seq(E) /\ Len(r) = N - j
      /\ \A i \in 1..(N - j) : r[i] = IF i <= k - j THEN a[i] ELSE b[i - (k - j)]
  BY <1>a, <1>2, <1>6
<1>7. ASSUME NEW i \in 1..(N - j) PROVE r[i] = t[i]
  <2>1. CASE i <= k - j
    <3>1. i \in 1..(k - j)
      BY <1>1, <2>1
    <3>2. QED
      BY <1>2, <1>4, <1>5, <2>1, <3>1
  <2>2. CASE i > k - j
    <3>1. i - (k - j) \in 1..(N - k) /\ k + (i - (k - j)) = j + i
      BY <1>1, <2>2
    <3>2. b[i - (k - j)] = s[j + i]
      BY <1>3, <3>1
    <3>3. QED
      BY <1>1, <1>4, <1>5, <2>2, <3>2
  <2>3. QED
    BY <1>1, <2>1, <2>2
<1>8. r = t
  BY <1>4, <1>5, <1>6, <1>7, SeqEqual
<1>9. QED
  BY <1>8 DEF r, t, a, b

\* Parts of one sequence behind another.
LEMMA SubSeqConcat ==
  ASSUME NEW E, NEW s \in Seq(E), NEW u \in Seq(E)
  PROVE  /\ s \o u \in Seq(E) /\ Len(s) \in Nat /\ Len(u) \in Nat
         /\ Len(s \o u) = Len(s) + Len(u)
         /\ \A j \in Nat : j <= Len(s) =>
              SubSeq(s \o u, j + 1, Len(s)) = SubSeq(s, j + 1, Len(s))
         /\ SubSeq(s \o u, Len(s) + 1, Len(s) + Len(u)) = u
<1> DEFINE r == s \o u
           N == Len(s)
           M == Len(u)
<1>1. /\ r \in Seq(E) /\ N \in Nat /\ M \in Nat /\ Len(r) = N + M
      /\ \A i \in 1..(N + M) : r[i] = IF i <= N THEN s[i] ELSE u[i - N]
      /\ \A i \in 1..N : s[i] \in E
      /\ \A i \in 1..M : u[i] \in E
  BY ConcatProperties, LenProperties
<1> HIDE DEF r
<1>2. ASSUME NEW j \in Nat, j <= N PROVE SubSeq(r, j + 1, N) = SubSeq(s, j + 1, N)
  <2> DEFINE a == SubSeq(r, j + 1, N)
             b == SubSeq(s, j + 1, N)
  <2>1. /\ b \in Seq(E) /\ Len(b) = N - j /\ \A i \in 1..(N - j) : b[i] = s[j + i]
    BY <1>1, <1>2
  <2>2. \A i \in 1..N : r[i] = s[i] /\ r[i] \in E
    BY <1>1
  <2>3. /\ a \in Seq(E) /\ Len(a) = N - j /\ \A i \in 1..(N - j) : a[i] = r[j + i]
    BY <1>1, <1>2, <2>2, SMTT(30)
  <2> HIDE DEF a, b
  <2>4. \A i \in 1..(N - j) : j + i \in 1..N
    BY <1>1, <1>2
  <2>5. a = b
    BY <2>1, <2>2, <2>3, <2>4, SeqEqual
  <2>6. QED
    BY <2>5 DEF a, b
<1>3. SubSeq(r, N + 1, N + M) = u
  <2> DEFINE a == SubSeq(r, N + 1, N + M)
  <2>1. \A i \in 1..M : N + i \in 1..(N + M) /\ r[N + i] = u[i] /\ r[N + i] \in E
    <3>1. ASSUME NEW i \in 1..M PROVE N + i \in 1..(N + M) /\ ~(N + i <= N) /\ (N + i) - N = i
      BY <1>1
    <3>2. QED
      BY <1>1, <3>1
  <2>2. /\ Len(a) = M /\ \A i \in 1..M : a[i] = r[N + i]
    BY <1>1
  <2>3. a \in Seq(E)
    BY <1>1
  <2> HIDE DEF a
  <2>4. a = u
    BY <1>1, <2>1, <2>2, <2>3, SeqEqual
  <2>5. QED
    BY <2>4 DEF a
<1>4. QED
  BY <1>1, <1>2, <1>3 DEF r

\* What c said, with a chunk of c's or of another's.
LEMMA KeptChunk ==
  ASSUME NEW c \in Client, NEW d \in Client, NEW s \in Seq(Spoken), NEW n \in Nat, NEW k \in Nat,
         n + k <= MaxSent, NEW m \in Nat, Kept(s, By(d)) = Lines(d, m),
         c = d => m = n, NEW u, u = After(c, n, k)
  PROVE  /\ u \in Seq(Spoken) /\ Len(u) = k
         /\ c # d => Kept(s \o u, By(d)) = Lines(d, m)
         /\ c = d => Kept(s \o u, By(d)) = Lines(d, n + k)
<1>1. u \in Seq(Spoken) /\ Len(u) = k /\ \A i \in 1..k : u[i] = <<c, n + i>>
  BY DEF Spoken, After
<1>2. Kept(s \o u, By(d)) = Kept(s, By(d)) \o Kept(u, By(d))
  BY <1>1, KeptConcat
<1>3. \A l \in Nat : /\ Lines(d, l) \in Seq(Spoken) /\ Len(Lines(d, l)) = l
                    /\ \A i \in 1..l : Lines(d, l)[i] = <<d, i>>
  BY DEF Lines, Spoken
<1>4. CASE c # d
  <2>1. \A i \in 1..Len(u) : u[i] \notin By(d)
    BY <1>1, <1>4 DEF By
  <2>2. Kept(u, By(d)) = <<>>
    BY <1>1, <2>1, KeptAllOrNone
  <2>3. Lines(d, m) \o <<>> = Lines(d, m)
    BY <1>3, ConcatEmptySeq
  <2>4. QED
    BY <1>1, <1>2, <1>4, <2>2, <2>3
<1>5. CASE c = d
  <2>1. ASSUME NEW i \in 1..Len(u) PROVE u[i] \in By(d)
    <3>1. n + i \in 1..MaxSent
      BY <1>1, RoomAssumption
    <3>2. u[i] = <<d, n + i>>
      BY <1>1, <1>5
    <3>3. QED
      BY <3>1, <3>2 DEF By
  <2>2. Kept(u, By(d)) = u
    BY <1>1, <2>1, KeptAllOrNone
  <2> DEFINE a == Lines(d, n)
             t == Lines(d, n + k)
             r == a \o u
  <2>3. /\ a \in Seq(Spoken) /\ Len(a) = n /\ \A i \in 1..n : a[i] = <<d, i>>
        /\ t \in Seq(Spoken) /\ Len(t) = n + k /\ \A i \in 1..(n + k) : t[i] = <<d, i>>
    BY <1>3
  <2> HIDE DEF a, t
  <2>b. /\ r \in Seq(Spoken) /\ Len(r) = Len(a) + Len(u)
        /\ \A i \in 1..Len(a) + Len(u) : r[i] = IF i <= Len(a) THEN a[i] ELSE u[i - Len(a)]
    <3>1. a \in Seq(Spoken) /\ u \in Seq(Spoken)
      BY <1>1, <2>3
    <3>2. QED
      BY <3>1, ConcatProperties
  <2> HIDE DEF r
  <2>4. /\ r \in Seq(Spoken) /\ Len(r) = n + k
        /\ \A i \in 1..(n + k) : r[i] = IF i <= n THEN a[i] ELSE u[i - n]
    BY <1>1, <2>3, <2>b
  <2>5. ASSUME NEW i \in 1..(n + k) PROVE r[i] = t[i]
    <3>1. t[i] = <<d, i>>
      BY <2>3
    <3>2. CASE i <= n
      <4>1. i \in 1..n
        BY <3>2
      <4>2. a[i] = <<d, i>> /\ r[i] = a[i]
        BY <2>3, <2>4, <3>2, <4>1
      <4>3. QED
        BY <3>1, <4>2, Zenon
    <3>3. CASE i > n
      <4>1. i - n \in 1..k /\ n + (i - n) = i
        BY <3>3
      <4>2. u[i - n] = <<d, i>>
        BY <1>1, <1>5, <4>1
      <4>3. r[i] = u[i - n]
        BY <2>4, <3>3
      <4>4. QED
        BY <3>1, <4>2, <4>3, Zenon
    <3>4. QED
      BY <3>2, <3>3
  <2>6. r = t
    BY <2>3, <2>4, <2>5, SeqEqual
  <2>7. Kept(s \o u, By(d)) = t
    BY <1>2, <1>5, <2>2, <2>6 DEF a, r
  <2>8. QED
    BY <1>1, <1>5, <2>7 DEF t
<1>6. QED
  BY <1>4, <1>5
-----------------------------------------------------------------------------
(* The inductive invariant.                                                *)

LEMMA Parts ==
  ASSUME IInv
  PROVE  TypeInv /\ TablesOK /\ BatchOK /\ BroadcastOK /\ HeardOK /\ SaidOK /\ DiesOnlyByReset
BY DEF IInv

LEMMA InitInv == ASSUME Init PROVE IInv
<1>1. Len(<<>>) = 0 /\ \A x : ~IsIn(x, <<>>)
  BY DEF IsIn
<1>2. TypeInv
  BY EmptySeq DEF Init, TypeInv, Silence, Sockets, Streams
<1>3. TablesOK /\ BatchOK /\ BroadcastOK /\ HeardOK /\ DiesOnlyByReset
  BY <1>1 DEF Init, TablesOK, BatchOK, BroadcastOK, HeardOK, DiesOnlyByReset, Distinct
<1>4. SaidOK
  <2>1. ASSUME NEW c \in Client PROVE Kept(<<>>, By(c)) = Lines(c, 0)
    BY KeptEmpty DEF Lines
  <2>2. QED
    BY <2>1, RoomAssumption DEF Init, SaidOK
<1>5. QED
  BY <1>2, <1>3, <1>4 DEF IInv

LEMMA PollInv == ASSUME IInv, Poll PROVE IInv'
<1>1. TypeInv /\ TablesOK /\ BatchOK /\ BroadcastOK /\ HeardOK /\ SaidOK /\ DiesOnlyByReset
  BY Parts
<1> DEFINE ready == {c \in Client : Readable(c)}
           l == IF backlog # <<>> THEN <<Listener>> ELSE <<>>
           r == Kept(registered, ready)
<1>2. batch' = l \o r
  BY DEF Poll
<1>3. UNCHANGED <<pc, registered, connections, data, todo, log, joined, said,
                  stream, sent, heard, lag, backlog>>
  BY DEF Poll
<1>4. /\ l \in Seq(Sockets) /\ Distinct(l)
      /\ \A x : IsIn(x, l) <=> x = Listener /\ backlog # <<>>
  <2>1. CASE backlog # <<>>
    <3> DEFINE e == <<Listener>>
    <3>1. l = e /\ e \in Seq(Sockets) /\ Len(e) = 1 /\ e[1] = Listener
      BY <2>1 DEF Sockets
    <3> HIDE DEF e, l
    <3>2. QED
      BY <2>1, <3>1 DEF Distinct, IsIn
  <2>2. CASE backlog = <<>>
    <3>1. l = <<>>
      BY <2>2
    <3> HIDE DEF l
    <3>2. QED
      BY <2>2, <3>1, EmptySeq DEF Distinct, IsIn
  <2>3. QED
    BY <2>1, <2>2
<1>5. registered \in Seq(Client) /\ Distinct(registered)
  BY <1>1 DEF TypeInv, TablesOK
<1>6. /\ r \in Seq(Client) /\ Distinct(r)
      /\ \A x : IsIn(x, r) <=> IsIn(x, registered) /\ x \in ready
  BY <1>5, KeptType, KeptDistinct, KeptIn
<1>7. r \in Seq(Sockets)
  BY <1>6 DEF Sockets
<1> HIDE DEF l, r
<1>8. /\ batch' \in Seq(Sockets) /\ Distinct(batch')
      /\ \A x : IsIn(x, batch') <=> IsIn(x, l) \/ IsIn(x, r)
  BY <1>2, <1>4, <1>6, <1>7, ClientAssumption, ConcatIn
<1>9. TypeInv'
  BY <1>1, <1>3, <1>8 DEF TypeInv
<1>10. BatchOK'
  BY <1>1, <1>3, <1>4, <1>6, <1>8, ClientAssumption
  DEF BatchOK, TablesOK, Readable, Unread, Ended
<1>11. TablesOK' /\ BroadcastOK' /\ HeardOK' /\ SaidOK' /\ DiesOnlyByReset'
  BY <1>1, <1>3 DEF TablesOK, BroadcastOK, HeardOK, SaidOK, DiesOnlyByReset, Broken
<1>12. QED
  BY <1>9, <1>10, <1>11 DEF IInv

\* The server handles the oldest event.
LEMMA TurnTakes ==
  ASSUME IInv, NEW s, Turn(s)
  PROVE  /\ batch' \in Seq(Sockets) /\ pc = "loop" /\ todo = <<>>
         /\ Distinct(batch') /\ IsIn(s, batch) /\ ~IsIn(s, batch')
         /\ \A x : IsIn(x, batch') => IsIn(x, batch)
<1>1. /\ batch \in Seq(Sockets) /\ batch # <<>> /\ Distinct(batch) /\ pc = "loop"
      /\ Head(batch) = s /\ batch' = Tail(batch) /\ todo = <<>>
  BY Parts DEF Turn, TypeInv, BatchOK, BroadcastOK
<1>2. QED
  BY <1>1, TailIn

LEMMA AcceptInv == ASSUME IInv, Accept PROVE IInv'
<1>1. TypeInv /\ TablesOK /\ BatchOK /\ BroadcastOK /\ HeardOK /\ SaidOK /\ DiesOnlyByReset
  BY Parts
<1>2. /\ Turn(Listener) /\ UNCHANGED <<pc, data, todo, log, said, stream, sent, heard, lag>>
  BY DEF Accept
<1>3. /\ batch' \in Seq(Sockets) /\ pc = "loop" /\ todo = <<>> /\ Distinct(batch')
      /\ IsIn(Listener, batch) /\ ~IsIn(Listener, batch')
      /\ \A x : IsIn(x, batch') => IsIn(x, batch)
  BY <1>2, TurnTakes
<1>4. backlog # <<>> /\ backlog \in Seq(Client) /\ Distinct(backlog)
  BY <1>1, <1>3 DEF BatchOK, TypeInv, TablesOK
<1>5. PICK c \in Client : c = Head(backlog)
  BY <1>4, HeadTailProperties
<1>6. /\ backlog' \in Seq(Client) /\ Distinct(backlog') /\ ~IsIn(c, backlog')
      /\ IsIn(c, backlog) /\ \A x : IsIn(x, backlog') => IsIn(x, backlog)
  <2>1. backlog' = Tail(backlog)
    BY DEF Accept
  <2>2. QED
    BY <1>4, <1>5, <2>1, TailIn
<1>7. /\ registered' = Append(registered, c) /\ connections' = Append(connections, c)
      /\ joined' = [joined EXCEPT ![c] = Len(log)]
  BY <1>5 DEF Accept, Register
<1>8. /\ connections \in Seq(Client) /\ registered = connections /\ Distinct(connections)
      /\ ~IsIn(c, connections) /\ stream[c] # "new" /\ heard[c] = <<>>
  BY <1>1, <1>6 DEF TypeInv, TablesOK
<1>9. /\ connections' \in Seq(Client) /\ registered' = connections' /\ Distinct(connections')
      /\ \A x : IsIn(x, connections') <=> x = c \/ IsIn(x, connections)
  BY <1>7, <1>8, InAppend, DistinctAppend, AppendProperties
<1>10. log \in Seq(Spoken) /\ Len(log) \in Nat /\ joined \in [Client -> Nat]
  BY <1>1, LenProperties DEF TypeInv
<1>11. /\ joined'[c] = Len(log) /\ joined' \in [Client -> Nat]
       /\ \A d \in Client : d # c => joined'[d] = joined[d]
  BY <1>7, <1>10
<1>12. TypeInv'
  BY <1>1, <1>2, <1>3, <1>6, <1>9, <1>11 DEF TypeInv
<1>13. TablesOK'
  BY <1>1, <1>2, <1>6, <1>8, <1>9 DEF TablesOK
<1>14. BatchOK'
  BY <1>1, <1>2, <1>3, <1>9 DEF BatchOK, Readable, Unread, Ended
<1>15. BroadcastOK'
  BY <1>1, <1>2, <1>9 DEF BroadcastOK
<1>16. HeardOK'
  <2>1. SubSeq(log, Len(log) + 1, Len(log)) = <<>>
    BY <1>10
  <2>2. \A x : ~IsIn(x, <<>>)
    BY DEF IsIn
  <2>3. ASSUME NEW d \in Client, IsIn(d, connections')
        PROVE  joined'[d] <= Len(log) /\ heard[d] = SubSeq(log, joined'[d] + 1, Len(log))
    <3>1. CASE d = c
      <4>1. joined'[d] = Len(log) /\ heard[d] = <<>> /\ Len(log) <= Len(log)
        BY <1>8, <1>10, <1>11, <3>1
      <4>2. QED
        BY <2>1, <4>1, Zenon
    <3>2. CASE d # c
      BY <1>1, <1>3, <1>9, <1>11, <2>2, <2>3, <3>2 DEF HeardOK
    <3>3. QED
      BY <3>1, <3>2
  <2>4. QED
    BY <1>2, <1>3, <2>2, <2>3 DEF HeardOK
<1>17. SaidOK' /\ DiesOnlyByReset'
  BY <1>1, <1>2 DEF SaidOK, DiesOnlyByReset, Broken
<1>18. QED
  BY <1>12, <1>13, <1>14, <1>15, <1>16, <1>17 DEF IInv

LEMMA OnClientInv == ASSUME IInv, NEW c \in Client, OnClient(c) PROVE IInv'
<1>1. TypeInv /\ TablesOK /\ BatchOK /\ BroadcastOK /\ HeardOK /\ SaidOK /\ DiesOnlyByReset
  BY Parts
<1>2. /\ Turn(c) /\ UNCHANGED <<joined, stream, sent, heard, lag, backlog>>
  BY DEF OnClient
<1>3. /\ batch' \in Seq(Sockets) /\ pc = "loop" /\ todo = <<>> /\ Distinct(batch')
      /\ IsIn(c, batch) /\ ~IsIn(c, batch') /\ \A x : IsIn(x, batch') => IsIn(x, batch)
  BY <1>2, TurnTakes
<1>4. Readable(c) /\ IsIn(c, connections)
  BY <1>1, <1>3 DEF BatchOK
<1>5. /\ log \in Seq(Spoken) /\ Len(log) \in Nat
      /\ said \in [Client -> Nat] /\ sent \in [Client -> Nat] /\ joined \in [Client -> Nat]
      /\ connections \in Seq(Client) /\ Distinct(connections)
  BY <1>1, LenProperties DEF TypeInv, TablesOK
<1>6. \A x : ~IsIn(x, <<>>)
  BY DEF IsIn
<1>7. CASE Unread(c) > 0
  <2>1. PICK k : k = Chunk(c)
    OBVIOUS
  <2>a. PICK n \in Nat : n = said[c]
    BY <1>5
  <2>2. PICK u : u = After(c, n, k)
    OBVIOUS
  <2>3. /\ pc' = "sending" /\ todo' = connections /\ log' = log \o u
        /\ data' = [from |-> c, units |-> u]
        /\ said' = [said EXCEPT ![c] = @ + k]
        /\ UNCHANGED <<registered, connections>>
    BY <1>7, <2>1, <2>2, <2>a DEF OnClient, Audience, After
  <2>4. k \in Nat /\ k <= sent[c] - said[c] /\ said[c] + k <= sent[c] /\ sent[c] <= MaxSent
    BY <1>1, <1>5, <1>7, <2>1, RoomAssumption DEF Chunk, Unread, SaidOK
  <2>5. said'[c] = said[c] + k /\ \A d \in Client : d # c => said'[d] = said[d]
    BY <1>5, <2>3
  <2>6. ASSUME NEW d \in Client
        PROVE  /\ u \in Seq(Spoken) /\ Len(u) = k
               /\ Kept(log', By(d)) = Lines(d, said'[d])
    <3>1. PICK m \in Nat : m = said[d]
      BY <1>5
    <3>2. Kept(log, By(d)) = Lines(d, m)
      BY <1>1, <3>1 DEF SaidOK
    <3>3. n + k <= MaxSent /\ (c = d => m = n)
      BY <1>5, <2>4, <2>a, <3>1, RoomAssumption, SMTT(30)
    <3>4. k \in Nat /\ log \in Seq(Spoken)
      BY <1>5, <2>4
    <3>5. /\ u \in Seq(Spoken) /\ Len(u) = k
          /\ c # d => Kept(log \o u, By(d)) = Lines(d, m)
          /\ c = d => Kept(log \o u, By(d)) = Lines(d, n + k)
      BY <2>2, <3>2, <3>3, <3>4, KeptChunk
    <3>6. QED
      BY <2>3, <2>5, <2>a, <3>1, <3>5
  <2>7. u \in Seq(Spoken) /\ Len(u) = k
    BY <2>6
  <2>8. /\ log' \in Seq(Spoken) /\ Len(log') = Len(log) + k
        /\ \A j \in Nat : j <= Len(log) =>
             SubSeq(log', j + 1, Len(log)) = SubSeq(log, j + 1, Len(log))
        /\ SubSeq(log', Len(log) + 1, Len(log) + k) = u
    BY <1>5, <2>3, <2>7, SubSeqConcat
  <2>9. Len(log') - k = Len(log) /\ k <= Len(log')
    BY <1>5, <2>4, <2>8
  <2>10. data'.from = c /\ data'.units = u /\ data' \in [from : Sockets, units : Seq(Spoken)]
    BY <2>3, <2>7 DEF Sockets
  <2>11. TypeInv'
    <3>1. said' \in [Client -> Nat]
      BY <1>5, <2>3, <2>4
    <3>2. QED
      BY <1>1, <1>2, <1>3, <2>3, <2>8, <2>10, <3>1 DEF TypeInv
  <2>12. TablesOK'
    BY <1>1, <1>2, <2>3 DEF TablesOK
  <2>13. BatchOK'
    <3>1. ASSUME NEW d \in Client, IsIn(d, batch') PROVE Readable(d)' /\ IsIn(d, connections)
      BY <1>1, <1>2, <1>3, <2>5, <3>1 DEF BatchOK, Readable, Unread, Ended
    <3>2. QED
      BY <1>1, <1>2, <1>3, <2>3, <3>1 DEF BatchOK
  <2>14. BroadcastOK'
    <3>1. connections # <<>>
      BY <1>4, <1>6
    <3>2. QED
      BY <1>5, <2>3, <2>10, <3>1 DEF BroadcastOK
  <2>15. HeardOK'
    <3>1. /\ Len(data'.units) <= Len(log')
          /\ SubSeq(log', Len(log') - Len(data'.units) + 1, Len(log')) = data'.units
      BY <2>7, <2>8, <2>9, <2>10
    <3>2. ASSUME NEW d \in Client, IsIn(d, connections)
          PROVE  /\ joined[d] <= Len(log') - Len(data'.units) /\ joined[d] <= Len(log')
                 /\ heard[d] = SubSeq(log', joined[d] + 1, Len(log') - Len(data'.units))
      <4>1. joined[d] <= Len(log) /\ heard[d] = SubSeq(log, joined[d] + 1, Len(log))
        BY <1>1, <1>3, <1>6, <3>2 DEF HeardOK
      <4>2. joined[d] \in Nat
        BY <1>5
      <4>3. Len(data'.units) = k
        BY <2>7, <2>10
      <4>4. Len(log') - Len(data'.units) = Len(log) /\ joined[d] <= Len(log')
        BY <1>5, <2>4, <2>8, <2>9, <4>1, <4>2, <4>3
      <4>5. SubSeq(log', joined[d] + 1, Len(log)) = SubSeq(log, joined[d] + 1, Len(log))
        BY <2>8, <4>1, <4>2
      <4>6. QED
        BY <4>1, <4>4, <4>5, Zenon
    <3>3. QED
      BY <1>2, <2>3, <3>1, <3>2 DEF HeardOK
  <2>16. SaidOK'
    <3>1. ASSUME NEW d \in Client PROVE said'[d] <= sent[d] /\ sent[d] <= MaxSent
      BY <1>1, <2>4, <2>5 DEF SaidOK
    <3>2. QED
      BY <1>2, <2>6, <3>1 DEF SaidOK
  <2>17. DiesOnlyByReset'
    BY <2>3 DEF DiesOnlyByReset
  <2>18. QED
    BY <2>11, <2>12, <2>13, <2>14, <2>15, <2>16, <2>17 DEF IInv
<1>8. CASE ~(Unread(c) > 0)
  <2>1. c \in ToSet(connections)
    BY <1>4, <1>5, LenProperties DEF IsIn, ToSet
  <2>2. UNCHANGED <<data, todo, log, said>>
    BY <1>8 DEF OnClient
  <2>3. CASE stream[c] = "reset"
    <3>1. pc' = "dead" /\ UNCHANGED <<registered, connections>>
      BY <1>8, <2>3 DEF OnClient
    <3>2. TypeInv' /\ TablesOK'
      BY <1>1, <1>2, <1>3, <2>2, <3>1 DEF TypeInv, TablesOK
    <3>3. BatchOK'
      BY <1>1, <1>2, <1>3, <2>2, <3>1 DEF BatchOK, Readable, Unread, Ended
    <3>4. BroadcastOK' /\ HeardOK' /\ SaidOK'
      BY <1>1, <1>2, <1>3, <2>2, <3>1 DEF BroadcastOK, HeardOK, SaidOK
    <3>5. DiesOnlyByReset'
      BY <1>2, <2>3 DEF DiesOnlyByReset, Broken
    <3>6. QED
      BY <3>2, <3>3, <3>4, <3>5 DEF IInv
  <2>4. CASE stream[c] # "reset"
    <3>1. /\ UNCHANGED pc /\ registered' = Kept(registered, Client \ {c})
          /\ connections' = Kept(connections, Client \ {c})
      BY <1>8, <2>1, <2>4 DEF OnClient, Forget, Without
    <3>2. registered = connections
      BY <1>1 DEF TablesOK
    <3>3. /\ connections' \in Seq(Client) /\ registered' = connections' /\ Distinct(connections')
          /\ \A x : IsIn(x, connections') <=> IsIn(x, connections) /\ x \in Client \ {c}
      BY <1>5, <3>1, <3>2, KeptType, KeptDistinct, KeptIn
    <3>4. TypeInv'
      BY <1>1, <1>2, <1>3, <2>2, <3>1, <3>3 DEF TypeInv
    <3>5. TablesOK'
      BY <1>1, <1>2, <3>3 DEF TablesOK
    <3>6. BatchOK'
      BY <1>1, <1>2, <1>3, <2>2, <3>3 DEF BatchOK, Readable, Unread, Ended
    <3>7. BroadcastOK'
      BY <1>1, <1>3, <1>6, <2>2, <3>1 DEF BroadcastOK
    <3>8. HeardOK' /\ SaidOK' /\ DiesOnlyByReset'
      BY <1>1, <1>2, <1>3, <2>2, <3>1, <3>3 DEF HeardOK, SaidOK, DiesOnlyByReset, Broken
    <3>9. QED
      BY <3>4, <3>5, <3>6, <3>7, <3>8 DEF IInv
  <2>5. QED
    BY <2>3, <2>4
<1>9. QED
  BY <1>7, <1>8

LEMMA SendToInv == ASSUME IInv, NEW d \in Client, SendTo(d) PROVE IInv'
<1>1. TypeInv /\ TablesOK /\ BatchOK /\ BroadcastOK /\ HeardOK /\ SaidOK /\ DiesOnlyByReset
  BY Parts
<1>2. /\ pc = "sending" /\ Head(todo) = d
      /\ UNCHANGED <<registered, connections, batch, data, log, joined, said, sent, backlog>>
  BY DEF SendTo
<1>3. /\ todo # <<>> /\ IsIn(d, todo) /\ Tail(todo) \in Seq(Client)
      /\ \A x : IsIn(x, todo) <=> x = d \/ IsIn(x, Tail(todo))
      /\ Distinct(Tail(todo)) /\ ~IsIn(d, Tail(todo))
  <2>1. todo \in Seq(Client) /\ todo # <<>> /\ Distinct(todo)
    BY <1>1, <1>2 DEF TypeInv, BroadcastOK
  <2>2. QED
    BY <1>2, <2>1, TailIn
<1>4. IsIn(d, connections) /\ registered = connections
  BY <1>1, <1>3 DEF BroadcastOK, TablesOK
<1>5. d \in ToSet(registered)
  BY <1>1, <1>4, LenProperties DEF IsIn, ToSet, TypeInv
<1>6. CASE Raises(d)
  <2>1. pc' = "dead" /\ UNCHANGED <<todo, stream, heard, lag>>
    BY <1>6 DEF SendTo
  <2>2. \E c \in Client : Broken(c)
    BY <1>1, <1>2, <1>5, <1>6 DEF Raises, BroadcastOK
  <2>3. TypeInv' /\ TablesOK' /\ BatchOK'
    BY <1>1, <1>2, <2>1 DEF TypeInv, TablesOK, BatchOK, Readable, Unread, Ended
  <2>4. BroadcastOK' /\ HeardOK' /\ SaidOK'
    BY <1>1, <1>2, <2>1 DEF BroadcastOK, HeardOK, SaidOK
  <2>5. DiesOnlyByReset'
    BY <1>2, <2>1, <2>2 DEF DiesOnlyByReset, Broken
  <2>6. QED
    BY <2>3, <2>4, <2>5 DEF IInv
<1>7. CASE ~Raises(d)
  <2>1. /\ heard' = [heard EXCEPT ![d] = @ \o data.units]
        /\ todo' = Tail(todo)
        /\ pc' = IF Tail(todo) = <<>> THEN "loop" ELSE "sending"
    BY <1>7 DEF SendTo
  <2>2. /\ \/ /\ stream[d] \in {"fin", "probed"} /\ UNCHANGED lag
              /\ stream' = [stream EXCEPT ![d] = "probed"]
           \/ lag' = [lag EXCEPT ![d] = @ + Len(data.units)] /\ UNCHANGED stream
    BY <1>7 DEF SendTo
  <2>3. /\ log \in Seq(Spoken) /\ Len(log) \in Nat
        /\ data.units \in Seq(Spoken) /\ Len(data.units) \in Nat
        /\ joined \in [Client -> Nat] /\ heard \in [Client -> Seq(Spoken)]
        /\ lag \in [Client -> Nat] /\ stream \in [Client -> Streams]
    BY <1>1, LenProperties DEF TypeInv
  <2>4. /\ heard'[d] = heard[d] \o data.units
        /\ \A c \in Client : c # d => heard'[c] = heard[c]
    BY <2>1, <2>3
  <2>5. heard' \in [Client -> Seq(Spoken)]
    <3>1. heard[d] \o data.units \in Seq(Spoken)
      BY <2>3, ConcatProperties
    <3>2. QED
      BY <2>1, <2>3, <3>1
  <2>6. /\ lag' \in [Client -> Nat] /\ stream' \in [Client -> Streams]
        /\ \A c \in Client : c # d => stream'[c] = stream[c]
        /\ stream'[d] = stream[d] \/ (stream[d] \in {"fin", "probed"} /\ stream'[d] = "probed")
    <3>1. CASE /\ stream[d] \in {"fin", "probed"} /\ UNCHANGED lag
               /\ stream' = [stream EXCEPT ![d] = "probed"]
      BY <2>3, <3>1 DEF Streams
    <3>2. CASE lag' = [lag EXCEPT ![d] = @ + Len(data.units)] /\ UNCHANGED stream
      BY <2>3, <3>2
    <3>3. QED
      BY <2>2, <3>1, <3>2
  <2>7. TypeInv'
    BY <1>1, <1>2, <1>3, <2>1, <2>5, <2>6 DEF TypeInv
  <2>8. TablesOK'
    BY <1>1, <1>2, <1>4, <2>4, <2>6 DEF TablesOK
  <2>9. BatchOK'
    <3>1. ASSUME NEW c \in Client, Readable(c) PROVE Readable(c)'
      BY <1>2, <2>6, <3>1 DEF Readable, Unread, Ended
    <3>2. QED
      BY <1>1, <1>2, <3>1 DEF BatchOK
  <2>10. BroadcastOK'
    BY <1>1, <1>2, <1>3, <2>1 DEF BroadcastOK
  <2>11. HeardOK'
    <3>1. /\ Len(data.units) <= Len(log)
          /\ SubSeq(log, Len(log) - Len(data.units) + 1, Len(log)) = data.units
      BY <1>1, <1>2, <1>3 DEF HeardOK
    <3>2. heard'[d] = SubSeq(log, joined[d] + 1, Len(log)) /\ joined[d] <= Len(log)
      <4>1. /\ joined[d] <= Len(log) - Len(data.units)
            /\ heard[d] = SubSeq(log, joined[d] + 1, Len(log) - Len(data.units))
        BY <1>1, <1>3, <1>4 DEF HeardOK
      <4>2. /\ joined[d] \in Nat /\ Len(log) - Len(data.units) \in Nat
            /\ Len(log) - Len(data.units) <= Len(log)
        BY <2>3, <3>1
      <4>3. PICK k \in Nat : k = Len(log) - Len(data.units)
        BY <4>2
      <4>4. SubSeq(log, joined[d] + 1, k) \o SubSeq(log, k + 1, Len(log))
              = SubSeq(log, joined[d] + 1, Len(log))
        BY <2>3, <4>1, <4>2, <4>3, SubSeqJoin
      <4>5. SubSeq(log, k + 1, Len(log)) = data.units
        BY <3>1, <4>3, Zenon
      <4>6. heard[d] = SubSeq(log, joined[d] + 1, k)
        BY <4>1, <4>3, Zenon
      <4>7. heard'[d] = SubSeq(log, joined[d] + 1, Len(log))
        BY <2>4, <4>4, <4>5, <4>6, Zenon
      <4>8. joined[d] <= Len(log)
        BY <2>3, <4>1, <4>2
      <4>9. QED
        BY <4>7, <4>8
    <3>3. ASSUME NEW c \in Client, IsIn(c, connections)
          PROVE  /\ joined[c] <= Len(log)
                 /\ ~IsIn(c, todo') => heard'[c] = SubSeq(log, joined[c] + 1, Len(log))
                 /\ IsIn(c, todo') =>
                      /\ joined[c] <= Len(log) - Len(data.units)
                      /\ heard'[c] = SubSeq(log, joined[c] + 1, Len(log) - Len(data.units))
      <4>1. CASE c = d
        BY <1>3, <2>1, <3>2, <4>1
      <4>2. CASE c # d
        BY <1>1, <1>3, <2>1, <2>4, <3>3, <4>2 DEF HeardOK
      <4>3. QED
        BY <4>1, <4>2
    <3>4. QED
      BY <1>2, <3>1, <3>3 DEF HeardOK
  <2>12. SaidOK' /\ DiesOnlyByReset'
    BY <1>1, <1>2, <2>1 DEF SaidOK, DiesOnlyByReset, Broken
  <2>13. QED
    BY <2>7, <2>8, <2>9, <2>10, <2>11, <2>12 DEF IInv
<1>8. QED
  BY <1>6, <1>7

LEMMA ConnectInv == ASSUME IInv, NEW c \in Client, Connect(c) PROVE IInv'
<1>1. TypeInv /\ TablesOK /\ BatchOK /\ BroadcastOK /\ HeardOK /\ SaidOK /\ DiesOnlyByReset
  BY Parts
<1>2. /\ stream[c] = "new" /\ stream' = [stream EXCEPT ![c] = "open"]
      /\ backlog' = Append(backlog, c)
      /\ UNCHANGED <<pc, registered, connections, batch, data, todo, log, joined, said,
                     sent, heard, lag>>
  BY DEF Connect, server
<1>3. /\ ~IsIn(c, backlog) /\ ~IsIn(c, connections) /\ heard[c] = <<>>
      /\ backlog \in Seq(Client) /\ Distinct(backlog)
  BY <1>1, <1>2 DEF TablesOK, TypeInv
<1>4. /\ backlog' \in Seq(Client) /\ Distinct(backlog') /\ backlog' # <<>>
      /\ \A x : IsIn(x, backlog') <=> x = c \/ IsIn(x, backlog)
  BY <1>2, <1>3, InAppend, DistinctAppend, AppendProperties
<1>5. /\ stream'[c] = "open" /\ stream' \in [Client -> Streams]
      /\ \A d \in Client : d # c => stream'[d] = stream[d]
  BY <1>1, <1>2 DEF TypeInv, Streams
<1>6. TypeInv'
  BY <1>1, <1>2, <1>4, <1>5 DEF TypeInv
<1>7. TablesOK'
  BY <1>1, <1>2, <1>3, <1>4, <1>5 DEF TablesOK
<1>8. BatchOK'
  BY <1>1, <1>2, <1>4, <1>5 DEF BatchOK, Readable, Unread, Ended
<1>9. BroadcastOK' /\ HeardOK' /\ SaidOK'
  BY <1>1, <1>2 DEF BroadcastOK, HeardOK, SaidOK
<1>10. DiesOnlyByReset'
  BY <1>1, <1>2, <1>5 DEF DiesOnlyByReset, Broken
<1>11. QED
  BY <1>6, <1>7, <1>8, <1>9, <1>10 DEF IInv

\* What a client does once it is there.
LEMMA ClientInv ==
  ASSUME IInv, UNCHANGED <<server, heard, backlog>>,
         stream' \in [Client -> Streams], sent' \in [Client -> Nat], lag' \in [Client -> Nat],
         \A c \in Client : /\ stream'[c] = "new" <=> stream[c] = "new"
                           /\ Ended(c) => Ended(c)'
                           /\ Broken(c) => Broken(c)'
                           /\ sent[c] <= sent'[c] /\ sent'[c] <= MaxSent
  PROVE  IInv'
<1>1. TypeInv /\ TablesOK /\ BatchOK /\ BroadcastOK /\ HeardOK /\ SaidOK /\ DiesOnlyByReset
  BY Parts
<1>2. UNCHANGED <<pc, registered, connections, batch, data, todo, log, joined, said,
                  heard, backlog>>
  BY DEF server
<1>3. TypeInv' /\ TablesOK'
  BY <1>1, <1>2 DEF TypeInv, TablesOK
<1>4. BatchOK'
  <2>1. ASSUME NEW c \in Client, Readable(c) PROVE Readable(c)'
    <3>1. sent[c] \in Nat /\ said[c] \in Nat /\ sent'[c] \in Nat
      BY <1>1 DEF TypeInv
    <3>2. QED
      BY <1>2, <2>1, <3>1 DEF Readable, Unread
  <2>2. QED
    BY <1>1, <1>2, <2>1 DEF BatchOK
<1>5. BroadcastOK' /\ HeardOK'
  BY <1>1, <1>2 DEF BroadcastOK, HeardOK
<1>6. SaidOK'
  <2>1. ASSUME NEW c \in Client PROVE said'[c] <= sent'[c]
    BY <1>1, <1>2 DEF SaidOK, TypeInv
  <2>2. QED
    BY <1>1, <1>2, <2>1 DEF SaidOK
<1>7. DiesOnlyByReset'
  BY <1>1, <1>2 DEF DiesOnlyByReset
<1>8. QED
  BY <1>3, <1>4, <1>5, <1>6, <1>7 DEF IInv

LEMMA SpeakInv ==
  ASSUME IInv, NEW c \in Client, Say(c) \/ Listen(c) \/ HalfClose(c) \/ Close(c) \/ Reset(c) PROVE IInv'
<1>1. /\ stream \in [Client -> Streams] /\ sent \in [Client -> Nat] /\ lag \in [Client -> Nat]
      /\ \A d \in Client : sent[d] <= MaxSent
  BY Parts DEF TypeInv, SaidOK
<1>2. UNCHANGED <<server, heard, backlog>>
  BY DEF Say, Listen, HalfClose, Close, Reset
<1>3. CASE Say(c)
  <2>1. /\ sent[c] < MaxSent /\ sent' = [sent EXCEPT ![c] = @ + 1]
        /\ UNCHANGED <<stream, lag>>
    BY <1>3 DEF Say
  <2>2. sent' \in [Client -> Nat] /\ \A d \in Client : sent[d] <= sent'[d] /\ sent'[d] <= MaxSent
    BY <1>1, <2>1, RoomAssumption
  <2>3. QED
    BY <1>1, <1>2, <2>1, <2>2, ClientInv DEF Ended, Broken
<1>4. CASE Listen(c)
  <2>1. lag' \in [Client -> Nat] /\ UNCHANGED <<stream, sent>>
    BY <1>1, <1>4 DEF Listen
  <2>2. \A d \in Client : sent[d] <= sent'[d] /\ sent'[d] <= MaxSent
    BY <1>1, <2>1
  <2>3. QED
    BY <1>1, <1>2, <2>1, <2>2, ClientInv DEF Ended, Broken
<1>5. CASE HalfClose(c) \/ Close(c) \/ Reset(c)
  <2>1. /\ stream[c] \in {"open", "half", "probed"} /\ UNCHANGED <<sent, lag>>
        /\ \E s \in {"half", "fin", "reset", "finreset"} : stream' = [stream EXCEPT ![c] = s]
    BY <1>5 DEF HalfClose, Close, Reset, Cut
  <2>2. /\ stream' \in [Client -> Streams]
        /\ stream'[c] \in {"half", "fin", "reset", "finreset"}
        /\ \A d \in Client : d # c => stream'[d] = stream[d]
    BY <1>1, <2>1 DEF Streams
  <2>3. \A d \in Client : /\ stream'[d] = "new" <=> stream[d] = "new"
                          /\ Ended(d) => Ended(d)'
                          /\ Broken(d) => Broken(d)'
                          /\ sent[d] <= sent'[d] /\ sent'[d] <= MaxSent
    BY <1>1, <2>1, <2>2 DEF Ended, Broken
  <2>4. QED
    BY <1>1, <1>2, <2>1, <2>2, <2>3, ClientInv
<1>6. QED
  BY <1>3, <1>4, <1>5

LEMMA NextInv == ASSUME IInv, [Next]_vars PROVE IInv'
<1>1. CASE UNCHANGED vars
  <2>1. UNCHANGED <<pc, registered, connections, batch, data, todo, log, joined, said,
                    stream, sent, heard, lag, backlog>>
    BY <1>1 DEF vars, server
  <2>2. TypeInv' /\ TablesOK' /\ BroadcastOK'
    BY <2>1, Parts DEF TypeInv, TablesOK, BroadcastOK
  <2>3. BatchOK' /\ HeardOK' /\ SaidOK' /\ DiesOnlyByReset'
    BY <2>1, Parts
    DEF BatchOK, HeardOK, SaidOK, DiesOnlyByReset, Readable, Unread, Ended, Broken
  <2>4. QED
    BY <2>2, <2>3 DEF IInv
<1>2. CASE Poll
  BY <1>2, PollInv
<1>3. CASE Accept
  BY <1>3, AcceptInv
<1>4. ASSUME NEW c \in Client, OnClient(c) PROVE IInv'
  BY <1>4, OnClientInv
<1>5. ASSUME NEW c \in Client, SendTo(c) PROVE IInv'
  BY <1>5, SendToInv
<1>6. ASSUME NEW c \in Client, Connect(c) PROVE IInv'
  BY <1>6, ConnectInv
<1>7. ASSUME NEW c \in Client, Say(c) \/ Listen(c) \/ HalfClose(c) \/ Close(c) \/ Reset(c) PROVE IInv'
  BY <1>7, SpeakInv
<1>8. QED
  BY <1>1, <1>2, <1>3, <1>4, <1>5, <1>6, <1>7 DEF Next, Serve

LEMMA Invariance == Spec => []IInv
<1>1. Init => IInv
  BY InitInv
<1>2. IInv /\ [Next]_vars => IInv'
  BY NextInv
<1>3. QED
  BY <1>1, <1>2, PTL DEF Spec
-----------------------------------------------------------------------------
(* Theorems.                                                               *)

\* Every client in the table has been sent exactly what was broadcast since
\* it was accepted, but for the chunk on its way to it, and what each client
\* says is passed on in order and without gaps.
THEOREM OneConversation == Spec => []SameConversation
<1>1. ASSUME IInv PROVE SameConversation
  <2>1. TypeInv /\ BroadcastOK /\ HeardOK /\ SaidOK
    BY <1>1, Parts
  <2>2. ASSUME NEW s \in Seq(Client), NEW x PROVE x \in ToSet(s) <=> IsIn(x, s)
    BY LenProperties DEF ToSet, IsIn
  <2>3. \A x : /\ x \in ToSet(connections) <=> IsIn(x, connections)
               /\ x \in ToSet(todo) <=> IsIn(x, todo)
    BY <2>1, <2>2 DEF TypeInv
  <2>4. ASSUME NEW c \in ToSet(connections) PROVE c \in Client
    BY <2>1, LenProperties DEF TypeInv, ToSet
  <2>5. Len(log) - 0 = Len(log)
    BY <2>1, LenProperties DEF TypeInv
  <2>6. \A x : ~IsIn(x, <<>>)
    BY DEF IsIn
  <2>7. ASSUME NEW c \in ToSet(connections)
        PROVE  /\ heard[c] = SubSeq(log, joined[c] + 1, Len(log) -
                               (IF pc # "loop" /\ c \in ToSet(todo) THEN Len(data.units) ELSE 0))
               /\ Kept(log, {c} \X (1..MaxSent)) = [i \in 1..said[c] |-> <<c, i>>]
    <3>1. c \in Client /\ IsIn(c, connections)
      BY <2>3, <2>4
    <3>2. Kept(log, {c} \X (1..MaxSent)) = [i \in 1..said[c] |-> <<c, i>>]
      BY <2>1, <3>1 DEF SaidOK, By, Lines
    <3>3. CASE IsIn(c, todo)
      <4>1. pc # "loop"
        BY <2>1, <2>6, <3>3 DEF BroadcastOK
      <4>2. QED
        BY <2>1, <2>3, <3>1, <3>2, <3>3, <4>1 DEF HeardOK
    <3>4. CASE ~IsIn(c, todo)
      BY <2>1, <2>3, <2>5, <3>1, <3>2, <3>4 DEF HeardOK
    <3>5. QED
      BY <3>3, <3>4
  <2>8. QED
    BY <2>7 DEF SameConversation
<1>2. QED
  BY <1>1, Invariance, PTL

\* An exception ends the server only after the reset of a connection: the
\* events, the broadcast and the tables never name a socket it has closed.
THEOREM NeverUsesClosedSocket == Spec => []DiesOnlyByReset
<1>1. IInv => DiesOnlyByReset
  BY Parts
<1>2. QED
  BY <1>1, Invariance, PTL
=============================================================================
