----------------------------- MODULE SudokuServer -----------------------------
(***************************************************************************)
(* The sudoku servers of 3_sudoku.  A client sends lines; the loop thread  *)
(* cuts them out of the input buffer and hands the good ones to a thread   *)
(* pool (thread_pool.cc), whose workers solve them and send the answers    *)
(* back.  Without a pool the loop thread solves each request itself, which *)
(* is basic.cc; a pool started with no threads does the same.              *)
(*                                                                         *)
(* A line counts as its length and whether it is a request that            *)
(* processRequest accepts.  The answer to line i of a connection is the    *)
(* unit i of its output; the unit 0 is an error text.                      *)
(***************************************************************************)
EXTENDS Integers, SequencesExt, ListOps, MuduoConn

CONSTANTS Conn,       \* the connections
          Workers,    \* the threads a pool may have
          Lines,      \* the lines a client may send: [len, good] with CRLF in len
          KCells,     \* kCells, the size of a puzzle
          TooLong,    \* the 100 of onMessage
          MaxLines    \* bound: lines one client sends

ASSUME LineAssumption ==
  /\ KCells \in Nat /\ TooLong \in Nat /\ MaxLines \in Nat
  /\ Lines \subseteq [len : Nat \ {0, 1}, good : BOOLEAN]

\* start() is told the number of threads.
ASSUME WorkersAssumption == IsFiniteSet(Workers)

VARIABLES
  pool,     \* the threads the program was started with; never changes
  conn,     \* conn[c]: the TcpConnection
  peer,     \* peer[c]: "open" until the client closes its socket
  sent,     \* sent[c]: the lines the client has sent
  got,      \* got[c]: bytes read into the input buffer so far
  used,     \* used[c]: lines retrieved from the input buffer so far
  tasks,    \* the queue of the thread pool
  worker,   \* worker[w]: what thread w is doing
  functors  \* pendingFunctors_ of the loop: sends posted by workers

vars == <<pool, conn, peer, sent, got, used, tasks, worker, functors>>

NoTask == [stage |-> "idle"]
Working(stage, t) == [stage |-> stage, task |-> t]

Init ==
  /\ pool \in SUBSET Workers
  /\ conn = [c \in Conn |-> ConnectEstablished(Connecting)]
  /\ peer = [c \in Conn |-> "open"]
  /\ sent = [c \in Conn |-> <<>>]
  /\ got = [c \in Conn |-> 0]
  /\ used = [c \in Conn |-> 0]
  /\ tasks = <<>> /\ functors = <<>>
  /\ worker = [w \in Workers |-> NoTask]

Connected(c) == conn[c].state = "kConnected"
Gone(c) == peer[c] = "closed"
-----------------------------------------------------------------------------
(* The input buffer always begins at a line.  A definition with a suffix   *)
(* is a seeded fault of the one that follows it, unused by the server.     *)

\* the bytes of the first n lines
Bytes(c, n) == AddUp([i \in 1..n |-> sent[c][i].len])

\* readableBytes() once g bytes came in and n lines were retrieved
Readable(c, g, n) == g - Bytes(c, n)

\* findCRLF() finds the end of line n + 1.
HasLine(c, g, n) ==
  n < Len(sent[c]) /\ Readable(c, g, n) >= sent[c][n + 1].len

Good(c, n) == sent[c][n].good

\* while (len > kCells + 2): fewer bytes than that are left for later.
Waits(c, g, n) == Readable(c, g, n) <= KCells + 2

StopsAfter_OneLine(c, g, n) ==
  n > used[c] \/ Waits(c, g, n) \/ ~HasLine(c, g, n)

\* onMessage leaves its loop when it has retrieved the lines up to n.
StopsAfter(c, g, n) == \/ Waits(c, g, n) \/ ~HasLine(c, g, n)
                       \/ n > used[c] /\ ~Good(c, n)

\* Where one call of onMessage stops.
LastLine(c, g) == CHOOSE n \in used[c]..Len(sent[c]) :
                    /\ StopsAfter(c, g, n)
                    /\ \A m \in used[c]..(n - 1) : ~StopsAfter(c, g, m)

Rejects_StaleLen(c, g, n) ==
  \/ n > used[c] /\ ~Good(c, n)
  \/ ~HasLine(c, g, n) /\ Readable(c, g, used[c]) > TooLong

\* The connection is told off and shut down: after a bad request, or when
\* an unfinished line is too long.
Rejects(c, g, n) ==
  \/ n > used[c] /\ ~Good(c, n)
  \/ ~Waits(c, g, n) /\ ~HasLine(c, g, n) /\ Readable(c, g, n) > TooLong

\* What sending the unit u may make of one of the connections ks.
AfterSend(ks, u, gone) ==
  UNION {{o.conn : o \in Send(q, <<u>>, gone)} : q \in ks}

\* What sending units one after the other may leave of a connection.
SendAll(k, units, gone) ==
  LET after[i \in 0..Len(units)] ==
        IF i = 0 THEN {k} ELSE AfterSend(after[i - 1], units[i], gone)
  IN  after[Len(units)]

\* The loop of onMessage ends at a bad request, so only the last line of a
\* call can be one.
LastGood(c, n) == IF n > used[c] /\ ~Good(c, n) THEN n - 1 ELSE n

Accepted_Reversed(c, n) ==
  [i \in 1..(LastGood(c, n) - used[c]) |-> LastGood(c, n) + 1 - i]

\* The lines of this call that processRequest accepts.
Accepted(c, n) == [i \in 1..(LastGood(c, n) - used[c]) |-> used[c] + i]

\* basic.cc: the answers are sent by onMessage itself.
Answer(c, n) == IF pool = {} THEN Accepted(c, n) ELSE <<>>

Dispatch_Twice(c, n) ==
  LET good == Accepted(c, n) IN
  [i \in 1..(2 * Len(good)) |-> [conn |-> c, line |-> good[(i + 1) \div 2]]]

\* thread_pool.cc: a task with copies of the connection and the request.
Dispatch(c, n) ==
  LET good == Accepted(c, n) IN
  IF pool = {} THEN <<>>
  ELSE [i \in DOMAIN good |-> [conn |-> c, line |-> good[i]]]

Tell_NoShutdown(k, gone) == {o.conn : o \in Send(k, <<0>>, gone)}

\* send the error text, then shutdown
Tell(k, gone) == {Shutdown(o.conn) : o \in Send(k, <<0>>, gone)}

\* onMessage, with the bytes up to the g-th in the buffer.
OnMessage(c, g) ==
  LET n == LastLine(c, g) IN
  /\ conn[c].state \in {"kConnected", "kDisconnecting"}
  /\ got[c] < g /\ g <= Bytes(c, Len(sent[c]))
  /\ got' = [got EXCEPT ![c] = g]
  /\ used' = [used EXCEPT ![c] = n]
  /\ tasks' = tasks \o Dispatch(c, n)
  /\ \E k \in SendAll(conn[c], Answer(c, n), Gone(c)) :
       \E q \in (IF Rejects(c, g, n) THEN Tell(k, Gone(c)) ELSE {k}) :
         conn' = [conn EXCEPT ![c] = q]
  /\ UNCHANGED <<pool, peer, sent, worker, functors>>
-----------------------------------------------------------------------------
(* The pool.                                                               *)

\* A thread takes a task and solves it.
WorkerTake(w) ==
  /\ w \in pool /\ worker[w] = NoTask /\ tasks # <<>>
  /\ worker' = [worker EXCEPT ![w] = Working("solving", Head(tasks))]
  /\ tasks' = Tail(tasks)
  /\ UNCHANGED <<pool, conn, peer, sent, got, used, functors>>

AfterCheck_Waits(w) ==
  IF Connected(worker[w].task.conn) THEN Working("posting", worker[w].task)
                                    ELSE worker[w]

\* send() from the worker: an unlocked look at the state of the connection.
AfterCheck(w) ==
  IF Connected(worker[w].task.conn) THEN Working("posting", worker[w].task)
                                    ELSE NoTask

WorkerCheck(w) ==
  /\ worker[w].stage = "solving"
  /\ worker' = [worker EXCEPT ![w] = AfterCheck(w)]
  /\ UNCHANGED <<pool, conn, peer, sent, got, used, tasks, functors>>

\* then the send is queued in the loop, whatever happened to the connection.
Post(w) == Append(functors, worker[w].task)

WorkerPost(w) ==
  /\ worker[w].stage = "posting"
  /\ functors' = Post(w)
  /\ worker' = [worker EXCEPT ![w] = NoTask]
  /\ UNCHANGED <<pool, conn, peer, sent, got, used, tasks>>

\* The loop runs the oldest queued send.
RunSend ==
  /\ functors # <<>>
  /\ LET t == Head(functors) IN
     \E o \in SendInLoop(conn[t.conn], <<t.line>>, Gone(t.conn)) :
       conn' = [conn EXCEPT ![t.conn] = o.conn]
  /\ functors' = Tail(functors)
  /\ UNCHANGED <<pool, peer, sent, got, used, tasks, worker>>
-----------------------------------------------------------------------------
(* The socket and the clients.                                             *)

OnWritable(c) ==
  /\ \E o \in HandleWrite(conn[c]) : conn' = [conn EXCEPT ![c] = o.conn]
  /\ UNCHANGED <<pool, peer, sent, got, used, tasks, worker, functors>>

OnDown(c) ==
  /\ Gone(c) /\ conn[c].state # "kDisconnected"
  /\ conn' = [conn EXCEPT ![c] = HandleClose(@)]
  /\ UNCHANGED <<pool, peer, sent, got, used, tasks, worker, functors>>

PeerSend(c, l) ==
  /\ ~Gone(c) /\ Len(sent[c]) < MaxLines
  /\ sent' = [sent EXCEPT ![c] = Append(@, l)]
  /\ UNCHANGED <<pool, conn, peer, got, used, tasks, worker, functors>>

PeerClose(c) ==
  /\ ~Gone(c)
  /\ peer' = [peer EXCEPT ![c] = "closed"]
  /\ UNCHANGED <<pool, conn, sent, got, used, tasks, worker, functors>>

Loop(c) == \/ OnWritable(c) \/ OnDown(c)
           \/ \E g \in 1..Bytes(c, Len(sent[c])) : OnMessage(c, g)
WorkerStep(w) == WorkerTake(w) \/ WorkerCheck(w) \/ WorkerPost(w)
PeerStep(c) == PeerClose(c) \/ \E l \in Lines : PeerSend(c, l)

Next == \/ RunSend
        \/ \E c \in Conn : Loop(c) \/ PeerStep(c)
        \/ \E w \in Workers : WorkerStep(w)

Spec == Init /\ [][Next]_vars

\* The loop and the threads of the pool run; clients read what they are sent.
FairSpec ==
  /\ Spec
  /\ WF_vars(RunSend)
  /\ \A c \in Conn : WF_vars(Loop(c))
  /\ \A w \in Workers : WF_vars(WorkerStep(w))
-----------------------------------------------------------------------------
(* Properties.                                                             *)

Output(c) == conn[c].wire \o conn[c].out

\* Line i of c is in the pool or on its way to the loop.
InPool(c, i) ==
  LET t == [conn |-> c, line |-> i] IN
  \/ t \in ToSet(tasks) \cup ToSet(functors)
  \/ \E w \in Workers : worker[w] # NoTask /\ worker[w].task = t

\* How often line i of c, or for 0 the error text, is in the output.
InOutput(c, i) == Cardinality({j \in DOMAIN Output(c) : Output(c)[j] = i})

\* Line i is complete, and with the bytes behind it there are more than a
\* bare request has.  Until then it waits, be it alone or the first of
\* several short lines.
Due(c, i) == Bytes(c, i) <= got[c] /\ got[c] - Bytes(c, i - 1) > KCells + 2

\* Which lines of a client are taken depends on how many bytes came and not
\* on how they were cut: those that are due, each of them good.  How the
\* input is cut may end a conversation only if a line has more bytes than
\* the limit before its last one; a client without such a line and
\* without a bad one is never told off.
CutsMatterOnlyToLongLines ==
  \A c \in Conn :
    /\ Connected(c) =>
         /\ \A i \in 1..Len(sent[c]) : i <= used[c] <=> Due(c, i)
         /\ \A i \in 1..used[c] : Good(c, i)
    /\ conn[c].state = "kDisconnecting" =>
         \E i \in 1..Len(sent[c]) :
           \/ i <= used[c] /\ ~Good(c, i)
           \/ i <= used[c] + 1 /\ sent[c][i].len - 1 > TooLong

\* The answers leave in the order of the requests: without a pool, or with
\* one worker.
AnswersInOrder ==
  Cardinality(pool) <= 1 => \A c \in Conn : \A i, j \in DOMAIN Output(c) :
    i < j /\ Output(c)[i] # 0 /\ Output(c)[j] # 0 => Output(c)[i] < Output(c)[j]

\* A client is told off at most once.  Without a pool nothing follows the
\* error text, and no request is passed over: an answer is sent only after
\* those to all good lines before it.
ErrorEndsConversation ==
  \A c \in Conn :
    /\ InOutput(c, 0) <= 1
    /\ pool = {} /\ ~Gone(c) => \A j \in DOMAIN Output(c) :
         IF Output(c)[j] = 0 THEN j = Len(Output(c))
         ELSE \A i \in 1..Output(c)[j] : Good(c, i) => InOutput(c, i) = 1

\* The pool drains: a request never stays in it for good, whatever becomes
\* of its connection.
PoolDrains ==
  \A c \in Conn : \A i \in 1..MaxLines : InPool(c, i) ~> ~InPool(c, i)

\* Whatever the interleaving of the loop and the workers and however the
\* input is cut, the server replies once to each line it accepted and to no
\* other, and it gives a request up only with the conversation.
Requests == INSTANCE RequestReply WITH
  Client <- Conn,
  Request <- 1..MaxLines,
  up <- {c \in Conn : Connected(c) /\ ~Gone(c)},
  accepted <- [c \in Conn |-> {i \in 1..used[c] : Good(c, i)}],
  replies <- [c \in Conn |-> Kept(conn[c].wire, 1..MaxLines)]

ServesRequests == Requests!Spec

\* Its safety half.
RequestsSafety == Requests!Init /\ [][Requests!Next]_(Requests!vars)
=============================================================================
