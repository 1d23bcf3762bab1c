-------------------------- MODULE SudokuServerProofs --------------------------
(***************************************************************************)
(* Theorems about the sudoku servers: no complete line stays unread in the *)
(* buffer of a connected client, the answers leave in the order of the     *)
(* requests unless several threads solve them, an error text ends the      *)
(* conversation, and the server replies once to each request it accepted.  *)
(***************************************************************************)
EXTENDS SudokuServer, SharedLemmas, FiniteSetTheorems

\* A request of a connection, as the pool and the loop pass it on.
Task == [conn : Conn, line : Nat \ {0}]
AsTask(c, i) == [conn |-> c, line |-> i]

\* What a connection is given to send: lines, by number, and the error text.
Units == Nat

Stages == {"solving", "posting"}

TypeInv ==
  /\ pool \in SUBSET Workers
  /\ conn \in [Conn -> Connection(Units)]
  /\ peer \in [Conn -> {"open", "closed"}]
  /\ sent \in [Conn -> Seq(Lines)]
  /\ got \in [Conn -> Nat] /\ used \in [Conn -> Nat]
  /\ tasks \in Seq(Task) /\ functors \in Seq(Task)
  /\ worker \in [Workers -> {NoTask} \cup [stage : Stages, task : Task]]
-----------------------------------------------------------------------------
(* The requests under way, as a pipeline: the tasks of the pool, then the  *)
(* workers, then the functors of the loop.                                 *)

\* With no or one thread there is one line of march.
OneLine == Cardinality(pool) <= 1

\* Request s is met before request t: in one line of march, those of a
\* connection keep their order.
Before(one, s, t) == s # t /\ (one /\ s.conn = t.conn => s.line < t.line)

Rising(one, s) == \A i, j \in 1..Len(s) : i < j => Before(one, s[i], s[j])

Busy(ws, w) == ws[w] # NoTask

Pipeline(one, fs, ws, ts) ==
  /\ Rising(one, fs) /\ Rising(one, ts)
  /\ \A i \in 1..Len(fs) : \A j \in 1..Len(ts) : Before(one, fs[i], ts[j])
  /\ \A w \in Workers : Busy(ws, w) =>
       /\ \A i \in 1..Len(fs) : Before(one, fs[i], ws[w].task)
       /\ \A j \in 1..Len(ts) : Before(one, ws[w].task, ts[j])
  /\ \A v, w \in Workers : v # w /\ Busy(ws, v) /\ Busy(ws, w) =>
       ~one /\ ws[v].task # ws[w].task

UnderWay(t, fs, ws, ts) ==
  \/ IsIn(t, fs) \/ IsIn(t, ts)
  \/ \E w \in Workers : Busy(ws, w) /\ ws[w].task = t

PoolOK ==
  /\ Pipeline(OneLine, functors, worker, tasks)
  /\ \A t \in Task : UnderWay(t, functors, worker, tasks) =>
       t.line <= used[t.conn] /\ Good(t.conn, t.line)
  /\ \A w \in Workers : Busy(worker, w) => w \in pool
  /\ pool = {} => tasks = <<>> /\ functors = <<>>
-----------------------------------------------------------------------------
(* What a connection has been sent.                                        *)

\* No unit twice, and in one line of march the answers in order.
UnitsOK(one, s) ==
  \A i, j \in 1..Len(s) : i < j =>
    s[i] # s[j] /\ (one /\ s[i] # 0 /\ s[j] # 0 => s[i] < s[j])

OutputOK(c) ==
  /\ UnitsOK(OneLine, Output(c))
  /\ IsIn(0, Output(c)) => ~Connected(c)
  /\ \A i \in 1..Len(Output(c)) : Output(c)[i] # 0 =>
       /\ Output(c)[i] <= used[c] /\ Good(c, Output(c)[i])
       /\ \A t \in Task : UnderWay(t, functors, worker, tasks) =>
            Before(OneLine, AsTask(c, Output(c)[i]), t)

ConnOK(c) ==
  /\ Drained(conn[c])
  /\ Connected(c) => ~conn[c].fin
  /\ used[c] <= Len(sent[c]) /\ Len(sent[c]) <= MaxLines
  /\ got[c] <= Bytes(c, Len(sent[c]))
  /\ Connected(c) => \A i \in 1..used[c] : Good(c, i)

UpTo(m) == [i \in 1..m |-> i]

\* basic.cc: the answers to the first lines, all good, and perhaps the error
\* text; a connected client has been answered all that was retrieved.
Answered(c, m) ==
  /\ \A i \in 1..m : Good(c, i)
  /\ \/ Output(c) = UpTo(m)
     \/ Output(c) = Append(UpTo(m), 0) /\ ~Connected(c)
  /\ Connected(c) => m = used[c]

AnsweredOK(c) ==
  pool = {} /\ ~Gone(c) => \E m \in 0..used[c] : Answered(c, m)

\* What CutsMatterOnlyToLongLines says beyond ConnOK.
TakenOK(c) ==
  /\ Connected(c) => \A i \in 1..Len(sent[c]) : i <= used[c] <=> Due(c, i)
  /\ conn[c].state = "kDisconnecting" =>
       \E i \in 1..Len(sent[c]) :
         \/ i <= used[c] /\ ~Good(c, i)
         \/ i <= used[c] + 1 /\ sent[c][i].len - 1 > TooLong

IInv ==
  /\ TypeInv
  /\ PoolOK
  /\ \A c \in Conn : OutputOK(c) /\ ConnOK(c) /\ AnsweredOK(c)
  /\ \A c \in Conn : TakenOK(c)
-----------------------------------------------------------------------------
(* How requests move through the pipeline.                                 *)

Threads == [Workers -> {NoTask} \cup [stage : Stages, task : Task]]

\* Nothing new is under way.
NoneNew(fn, wn, tn, fs, ws, ts) ==
  \A t : UnderWay(t, fn, wn, tn) => UnderWay(t, fs, ws, ts)

\* Only thread w does something else now.
SameBut(wn, ws, w) == \A v \in Workers : v # w => wn[v] = ws[v]

AllIdle(ws) == \A v \in Workers : ~Busy(ws, v)

\* A thread takes the oldest task.
LEMMA TakeMoves ==
  ASSUME NEW one, NEW fs \in Seq(Task), NEW ts \in Seq(Task), NEW ws \in Threads,
         Pipeline(one, fs, ws, ts), NEW w \in Workers, ~Busy(ws, w), ts # <<>>,
         one => AllIdle(ws),
         NEW wn, wn[w].task = Head(ts), Busy(wn, w), SameBut(wn, ws, w)
  PROVE  /\ Pipeline(one, fs, wn, Tail(ts))
         /\ NoneNew(fs, wn, Tail(ts), fs, ws, ts)
<1> DEFINE tl == Tail(ts)
<1>1. /\ Len(ts) \in Nat /\ 1 \in 1..Len(ts) /\ Head(ts) = ts[1]
      /\ \A i \in 1..Len(tl) : i + 1 \in 1..Len(ts) /\ tl[i] = ts[i + 1]
      /\ Len(tl) = Len(ts) - 1
  BY LenProperties, HeadTailProperties, EmptySeq
<1>2. /\ wn[w].task = ts[1] /\ Busy(wn, w)
      /\ \A v \in Workers : v # w => wn[v] = ws[v]
  BY <1>1 DEF SameBut
<1> HIDE DEF tl
<1>3. Rising(one, fs) /\ Rising(one, tl)
  <2>1. ASSUME NEW i \in 1..Len(tl), NEW j \in 1..Len(tl), i < j
        PROVE  Before(one, tl[i], tl[j])
    <3>1. i + 1 \in 1..Len(ts) /\ j + 1 \in 1..Len(ts) /\ i + 1 < j + 1
      BY <1>1, <2>1
    <3>2. Before(one, ts[i + 1], ts[j + 1])
      BY <3>1 DEF Pipeline, Rising
    <3>3. QED
      BY <1>1, <3>2
  <2>2. QED
    BY <2>1 DEF Pipeline, Rising
<1>4. \A i \in 1..Len(fs) : \A j \in 1..Len(tl) : Before(one, fs[i], tl[j])
  BY <1>1 DEF Pipeline
<1>5. ASSUME NEW v \in Workers, Busy(wn, v)
      PROVE  /\ \A i \in 1..Len(fs) : Before(one, fs[i], wn[v].task)
             /\ \A j \in 1..Len(tl) : Before(one, wn[v].task, tl[j])
  <2>1. CASE v = w
    <3>1. \A j \in 1..Len(tl) : Before(one, ts[1], ts[j + 1])
      <4>1. ASSUME NEW j \in 1..Len(tl) PROVE Before(one, ts[1], ts[j + 1])
        <5>1. j + 1 \in 1..Len(ts) /\ 1 < j + 1
          BY <1>1
        <5>2. QED
          BY <1>1, <5>1 DEF Pipeline, Rising
      <4>2. QED
        BY <4>1
    <3>2. QED
      BY <1>1, <1>2, <2>1, <3>1 DEF Pipeline
  <2>2. CASE v # w
    BY <1>1, <1>2, <1>5, <2>2 DEF Pipeline, Busy
  <2>3. QED
    BY <2>1, <2>2
<1>6. ASSUME NEW u \in Workers, NEW v \in Workers, u # v, Busy(wn, u), Busy(wn, v)
      PROVE  ~one /\ wn[u].task # wn[v].task
  <2>1. ASSUME NEW x \in Workers, x # w, Busy(ws, x) PROVE ~one /\ ws[x].task # ts[1]
    <3>1. Before(one, ws[x].task, ts[1])
      BY <1>1, <2>1 DEF Pipeline
    <3>2. QED
      BY <2>1, <3>1 DEF Before, AllIdle
  <2>2. QED
    BY <1>2, <1>6, <2>1 DEF Pipeline, Busy
<1>7. Pipeline(one, fs, wn, tl)
  BY <1>3, <1>4, <1>5, <1>6 DEF Pipeline
<1>8. ASSUME NEW t, UnderWay(t, fs, wn, tl) PROVE UnderWay(t, fs, ws, ts)
  <2>1. CASE IsIn(t, tl)
    BY <1>1, <2>1 DEF UnderWay, IsIn
  <2>2. ASSUME NEW v \in Workers, Busy(wn, v), wn[v].task = t PROVE UnderWay(t, fs, ws, ts)
    <3>1. CASE v = w
      BY <1>1, <1>2, <2>2, <3>1 DEF UnderWay, IsIn
    <3>2. CASE v # w
      BY <1>2, <2>2, <3>2 DEF UnderWay, Busy
    <3>3. QED
      BY <3>1, <3>2
  <2>3. QED
    BY <1>8, <2>1, <2>2 DEF UnderWay
<1>9. QED
  BY <1>7, <1>8 DEF tl, NoneNew

\* A thread keeps its task, or gives it up.
LEMMA CheckMoves ==
  ASSUME NEW one, NEW fs \in Seq(Task), NEW ts \in Seq(Task), NEW ws \in Threads,
         Pipeline(one, fs, ws, ts), NEW w \in Workers, Busy(ws, w),
         NEW x, x = NoTask \/ x.task = ws[w].task,
         NEW wn, wn = [ws EXCEPT ![w] = x]
  PROVE  /\ Pipeline(one, fs, wn, ts)
         /\ NoneNew(fs, wn, ts, fs, ws, ts)
<1>1. \A v \in Workers : Busy(wn, v) => Busy(ws, v) /\ wn[v].task = ws[v].task
  BY DEF Threads, Busy
<1>2. Pipeline(one, fs, wn, ts)
  BY <1>1 DEF Pipeline
<1>3. QED
  BY <1>1, <1>2 DEF UnderWay, NoneNew

\* A thread posts its task to the loop.
LEMMA PostMoves ==
  ASSUME NEW one, NEW fs \in Seq(Task), NEW ts \in Seq(Task), NEW ws \in Threads,
         Pipeline(one, fs, ws, ts), NEW w \in Workers, Busy(ws, w),
         NEW wn, ~Busy(wn, w), SameBut(wn, ws, w),
         NEW fn, fn = Append(fs, ws[w].task)
  PROVE  /\ Pipeline(one, fn, wn, ts)
         /\ NoneNew(fn, wn, ts, fs, ws, ts)
<1>1. ws[w].task \in Task
  BY DEF Threads, Busy, NoTask
<1>2. /\ Len(fs) \in Nat /\ Len(fn) = Len(fs) + 1
      /\ \A i \in 1..Len(fs) : fn[i] = fs[i]
      /\ fn[Len(fs) + 1] = ws[w].task
  BY <1>1, AppendProperties, LenProperties
<1>3. \A v \in Workers : Busy(wn, v) => v # w /\ Busy(ws, v) /\ wn[v] = ws[v]
  BY DEF Busy, SameBut
<1>4. \A i \in 1..Len(fn) : i \in 1..Len(fs) \/ i = Len(fs) + 1
  BY <1>2
<1>5. Rising(one, fn)
  <2>1. ASSUME NEW i \in 1..Len(fn), NEW j \in 1..Len(fn), i < j
        PROVE  Before(one, fn[i], fn[j])
    <3>1. i \in 1..Len(fs) /\ fn[i] = fs[i]
      BY <1>2, <2>1
    <3>2. CASE j \in 1..Len(fs)
      BY <1>2, <2>1, <3>1, <3>2 DEF Pipeline, Rising
    <3>3. CASE j = Len(fs) + 1
      BY <1>2, <3>1, <3>3 DEF Pipeline
    <3>4. QED
      BY <1>4, <3>2, <3>3
  <2>2. QED
    BY <2>1 DEF Rising
<1>6. \A i \in 1..Len(fn) : \A j \in 1..Len(ts) : Before(one, fn[i], ts[j])
  BY <1>2, <1>4 DEF Pipeline
<1>7. ASSUME NEW v \in Workers, Busy(wn, v)
      PROVE  /\ \A i \in 1..Len(fn) : Before(one, fn[i], wn[v].task)
             /\ \A j \in 1..Len(ts) : Before(one, wn[v].task, ts[j])
  <2>1. Before(one, ws[w].task, ws[v].task)
    BY <1>3, <1>7 DEF Pipeline, Before
  <2>2. QED
    BY <1>2, <1>3, <1>4, <1>7, <2>1 DEF Pipeline
<1>8. Pipeline(one, fn, wn, ts)
  BY <1>3, <1>5, <1>6, <1>7 DEF Pipeline
<1>9. ASSUME NEW t, UnderWay(t, fn, wn, ts) PROVE UnderWay(t, fs, ws, ts)
  <2>1. IsIn(t, fn) => UnderWay(t, fs, ws, ts)
    BY <1>2, <1>4 DEF UnderWay, IsIn
  <2>2. QED
    BY <1>3, <1>9, <2>1 DEF UnderWay
<1>10. QED
  BY <1>8, <1>9 DEF NoneNew

\* The loop runs the oldest functor: all others come after it.
LEMMA RunMoves ==
  ASSUME NEW one, NEW fs \in Seq(Task), NEW ts \in Seq(Task), NEW ws \in Threads,
         Pipeline(one, fs, ws, ts), fs # <<>>
  PROVE  /\ Pipeline(one, Tail(fs), ws, ts)
         /\ UnderWay(Head(fs), fs, ws, ts)
         /\ \A t : UnderWay(t, Tail(fs), ws, ts) =>
              UnderWay(t, fs, ws, ts) /\ Before(one, Head(fs), t)
<1> DEFINE tl == Tail(fs)
<1>1. /\ Len(fs) \in Nat /\ 1 \in 1..Len(fs) /\ Head(fs) = fs[1]
      /\ \A i \in 1..Len(tl) : i + 1 \in 1..Len(fs) /\ tl[i] = fs[i + 1]
      /\ Len(tl) = Len(fs) - 1
  BY LenProperties, HeadTailProperties, EmptySeq
<1> HIDE DEF tl
<1>2. ASSUME NEW i \in 1..Len(tl), NEW j \in 1..Len(tl), i < j
      PROVE  Before(one, tl[i], tl[j])
  <2>1. i + 1 \in 1..Len(fs) /\ j + 1 \in 1..Len(fs) /\ i + 1 < j + 1
    BY <1>1, <1>2
  <2>2. Before(one, fs[i + 1], fs[j + 1])
    BY <2>1 DEF Pipeline, Rising
  <2>3. QED
    BY <1>1, <2>2
<1>3. Pipeline(one, tl, ws, ts)
  BY <1>1, <1>2 DEF Pipeline, Rising
<1>4. ASSUME NEW i \in 1..Len(tl) PROVE Before(one, fs[1], tl[i])
  <2>1. i + 1 \in 1..Len(fs) /\ 1 < i + 1
    BY <1>1
  <2>2. QED
    BY <1>1, <2>1 DEF Pipeline, Rising
<1>5. ASSUME NEW t, UnderWay(t, tl, ws, ts)
      PROVE  UnderWay(t, fs, ws, ts) /\ Before(one, fs[1], t)
  <2>1. CASE IsIn(t, tl)
    BY <1>1, <1>4, <2>1 DEF UnderWay, IsIn
  <2>2. CASE IsIn(t, ts)
    BY <1>1, <2>2 DEF UnderWay, IsIn, Pipeline
  <2>3. CASE \E v \in Workers : Busy(ws, v) /\ ws[v].task = t
    BY <1>1, <2>3 DEF UnderWay, Pipeline
  <2>4. QED
    BY <1>5, <2>1, <2>2, <2>3 DEF UnderWay
<1>6. QED
  BY <1>1, <1>3, <1>5 DEF tl, UnderWay, IsIn

\* New tasks of a connection come last; the lines are beyond those under way.
LEMMA DispatchMoves ==
  ASSUME NEW one, NEW fs \in Seq(Task), NEW ts \in Seq(Task), NEW ws \in Threads,
         Pipeline(one, fs, ws, ts), NEW c \in Conn, NEW u \in Nat, NEW ns \in Seq(Task),
         \A i \in 1..Len(ns) : ns[i] = AsTask(c, u + i),
         \A t \in Task : UnderWay(t, fs, ws, ts) /\ t.conn = c => t.line <= u
  PROVE  /\ Pipeline(one, fs, ws, ts \o ns)
         /\ \A t : UnderWay(t, fs, ws, ts \o ns) =>
              UnderWay(t, fs, ws, ts) \/ IsIn(t, ns)
<1> DEFINE tn == ts \o ns
<1>1. /\ Len(ts) \in Nat /\ Len(ns) \in Nat /\ Len(tn) = Len(ts) + Len(ns)
      /\ \A i \in 1..Len(tn) : tn[i] = IF i <= Len(ts) THEN ts[i] ELSE ns[i - Len(ts)]
  BY ConcatProperties, LenProperties
<1>2. ASSUME NEW i \in 1..Len(tn)
      PROVE  \/ i \in 1..Len(ts) /\ tn[i] = ts[i]
             \/ i - Len(ts) \in 1..Len(ns) /\ tn[i] = ns[i - Len(ts)]
  BY <1>1
<1> HIDE DEF tn
<1>3. ASSUME NEW t \in Task, UnderWay(t, fs, ws, ts), NEW j \in 1..Len(ns)
      PROVE  Before(one, t, ns[j])
  <2>1. ns[j].conn = c /\ ns[j].line = u + j /\ t.line \in Nat /\ j \in Nat /\ j > 0
    <3>1. ns[j] = AsTask(c, u + j) /\ j \in Nat /\ j > 0
      BY <1>1
    <3>2. QED
      BY <3>1 DEF AsTask, Task
  <2>2. t.conn = c => t.line < u + j
    BY <1>3, <2>1
  <2>3. QED
    BY <2>1, <2>2 DEF Before
<1>4. ASSUME NEW i \in 1..Len(fs) PROVE fs[i] \in Task /\ UnderWay(fs[i], fs, ws, ts)
  BY LenProperties DEF UnderWay, IsIn
<1>5. ASSUME NEW i \in 1..Len(ts) PROVE ts[i] \in Task /\ UnderWay(ts[i], fs, ws, ts)
  BY LenProperties DEF UnderWay, IsIn
<1>6. ASSUME NEW v \in Workers, Busy(ws, v)
      PROVE  ws[v].task \in Task /\ UnderWay(ws[v].task, fs, ws, ts)
  BY <1>6 DEF UnderWay, Busy, Threads, NoTask
<1>7. ASSUME NEW i \in 1..Len(tn), NEW j \in 1..Len(tn), i < j
      PROVE  Before(one, tn[i], tn[j])
  <2>1. CASE i \in 1..Len(ts) /\ j \in 1..Len(ts)
    <3>1. Before(one, ts[i], ts[j])
      BY <1>7, <2>1 DEF Pipeline, Rising
    <3>2. QED
      BY <1>1, <2>1, <3>1
  <2>2. CASE i \in 1..Len(ts) /\ j - Len(ts) \in 1..Len(ns)
    BY <1>1, <1>3, <1>5, <2>2
  <2>3. CASE i - Len(ts) \in 1..Len(ns) /\ j - Len(ts) \in 1..Len(ns)
    <3>0. /\ tn[i] = ns[i - Len(ts)] /\ tn[j] = ns[j - Len(ts)]
          /\ \A k \in 1..Len(ns) : ns[k] = AsTask(c, u + k)
      BY <1>1, <2>3
    <3>1. /\ tn[i] = AsTask(c, u + (i - Len(ts)))
          /\ tn[j] = AsTask(c, u + (j - Len(ts)))
      BY <2>3, <3>0, Zenon
    <3>2. u + (i - Len(ts)) < u + (j - Len(ts))
      BY <1>1, <1>7
    <3>3. QED
      BY <3>1, <3>2 DEF Before, AsTask
  <2>4. QED
    BY <1>1, <1>2, <1>7, <2>1, <2>2, <2>3
<1>8. Pipeline(one, fs, ws, tn)
  <2>1. Rising(one, fs) /\ Rising(one, tn)
    BY <1>7 DEF Rising, Pipeline
  <2>2. \A i \in 1..Len(fs) : \A j \in 1..Len(tn) : Before(one, fs[i], tn[j])
    BY <1>2, <1>3, <1>4 DEF Pipeline
  <2>3. ASSUME NEW v \in Workers, Busy(ws, v)
        PROVE  /\ \A i \in 1..Len(fs) : Before(one, fs[i], ws[v].task)
               /\ \A j \in 1..Len(tn) : Before(one, ws[v].task, tn[j])
    BY <1>2, <1>3, <1>6, <2>3 DEF Pipeline
  <2>4. QED
    BY <2>1, <2>2, <2>3 DEF Pipeline
<1>9. ASSUME NEW t, UnderWay(t, fs, ws, tn) PROVE UnderWay(t, fs, ws, ts) \/ IsIn(t, ns)
  <2>1. IsIn(t, tn) => IsIn(t, ts) \/ IsIn(t, ns)
    BY <1>2 DEF IsIn
  <2>2. QED
    BY <1>9, <2>1 DEF UnderWay
<1>10. QED
  BY <1>8, <1>9 DEF tn
-----------------------------------------------------------------------------
(* What onMessage finds in the buffer.                                     *)

\* onMessage stops somewhere, and nowhere before.
LEMMA LastLineStops ==
  ASSUME TypeInv, NEW c \in Conn, NEW g \in Nat, used[c] <= Len(sent[c])
  PROVE  /\ LastLine(c, g) \in used[c]..Len(sent[c])
         /\ StopsAfter(c, g, LastLine(c, g))
         /\ \A m \in used[c]..(LastLine(c, g) - 1) : ~StopsAfter(c, g, m)
<1> DEFINE N == Len(sent[c])
           S == {n \in used[c]..N : StopsAfter(c, g, n)}
<1>1. used[c] \in Nat /\ N \in Nat
  BY LenProperties DEF TypeInv
<1>2. StopsAfter(c, g, N)
  BY DEF StopsAfter, HasLine
<1>3. N \in S /\ S \subseteq Nat
  BY <1>1, <1>2
<1> HIDE DEF S
<1>4. PICK n \in S : \A y \in S : n <= y
  BY <1>3, LeastExists, Zenon
<1>5. n \in used[c]..N /\ StopsAfter(c, g, n)
  BY <1>4 DEF S
<1>6. ASSUME NEW m \in used[c]..(n - 1), StopsAfter(c, g, m) PROVE FALSE
  <2>1. m \in S
    BY <1>1, <1>5, <1>6 DEF S
  <2>2. QED
    BY <1>1, <1>4, <1>5, <2>1
<1>7. \E k \in used[c]..Len(sent[c]) :
        /\ StopsAfter(c, g, k)
        /\ \A m \in used[c]..(k - 1) : ~StopsAfter(c, g, m)
  BY <1>5, <1>6
<1>8. QED
  BY <1>7, Zenon DEF LastLine

\* The lines before the last one are good, and so is what is accepted.
LEMMA AcceptedLines ==
  ASSUME TypeInv, NEW c \in Conn, NEW g \in Nat, used[c] <= Len(sent[c]),
         NEW n, n = LastLine(c, g)
  PROVE  /\ n \in used[c]..Len(sent[c]) /\ LastGood(c, n) \in used[c]..n
         /\ Accepted(c, n) \in Seq(Nat \ {0})
         /\ Len(Accepted(c, n)) = LastGood(c, n) - used[c]
         /\ \A i \in 1..Len(Accepted(c, n)) :
              Accepted(c, n)[i] = used[c] + i /\ Good(c, used[c] + i)
         /\ LastGood(c, n) = n \/ (LastGood(c, n) = n - 1 /\ Rejects(c, g, n))
<1>1. /\ n \in used[c]..Len(sent[c]) /\ StopsAfter(c, g, n)
      /\ \A m \in used[c]..(n - 1) : ~StopsAfter(c, g, m)
  BY LastLineStops
<1>2. used[c] \in Nat /\ n \in Nat
  BY <1>1, LenProperties DEF TypeInv
<1>3. LastGood(c, n) \in used[c]..n /\ LastGood(c, n) \in Nat
  BY <1>1, <1>2 DEF LastGood
<1>4. ASSUME NEW m \in (used[c] + 1)..LastGood(c, n) PROVE Good(c, m)
  <2>1. CASE m = n
    BY <1>2, <1>4, <2>1 DEF LastGood
  <2>2. CASE m # n
    <3>1. m \in used[c]..(n - 1) /\ m > used[c]
      BY <1>2, <1>3, <1>4, <2>2
    <3>2. QED
      BY <1>1, <3>1 DEF StopsAfter
  <2>3. QED
    BY <2>1, <2>2
<1> DEFINE k == LastGood(c, n) - used[c]
<1>5. k \in Nat
  BY <1>2, <1>3
<1>6. Accepted(c, n) = [i \in 1..k |-> used[c] + i]
  BY DEF Accepted
<1> HIDE DEF k
<1>7. /\ Accepted(c, n) \in Seq(Nat \ {0}) /\ Len(Accepted(c, n)) = k
      /\ \A i \in 1..k : Accepted(c, n)[i] = used[c] + i
  BY <1>2, <1>5, <1>6
<1>8. ASSUME NEW i \in 1..k PROVE Good(c, used[c] + i)
  <2>1. used[c] + i \in (used[c] + 1)..LastGood(c, n)
    BY <1>2, <1>3, <1>8 DEF k
  <2>2. QED
    BY <1>4, <2>1
<1>9. LastGood(c, n) = n \/ (LastGood(c, n) = n - 1 /\ Rejects(c, g, n))
  BY DEF LastGood, Rejects
<1>10. QED
  BY <1>1, <1>3, <1>7, <1>8, <1>9 DEF k

LEMMA BytesType ==
  ASSUME TypeInv, NEW c \in Conn, NEW n \in 0..Len(sent[c])
  PROVE  Bytes(c, n) \in Nat
<1>1. \A i \in 1..n : sent[c][i] \in Lines
  BY LenProperties DEF TypeInv
<1>2. \A i \in 1..n : sent[c][i].len \in Nat
  BY <1>1, LineAssumption
<1>3. n \in Nat
  BY LenProperties DEF TypeInv
<1>4. [i \in 1..n |-> sent[c][i].len] \in Seq(Nat)
  BY <1>2, <1>3
<1>5. QED
  BY <1>4, AddUpType DEF Bytes

\* The bytes of the lines, one line at a time.
LEMMA BytesStep ==
  ASSUME TypeInv, NEW c \in Conn
  PROVE  /\ Len(sent[c]) \in Nat /\ Bytes(c, 0) = 0
         /\ \A n \in 0..(Len(sent[c]) - 1) :
              /\ Bytes(c, n + 1) = Bytes(c, n) + sent[c][n + 1].len
              /\ sent[c][n + 1].len \in Nat \ {0, 1}
<1> DEFINE z(n) == [i \in 1..n |-> sent[c][i].len]
<1>1. /\ Len(sent[c]) \in Nat
      /\ \A i \in 1..Len(sent[c]) : sent[c][i] \in Lines
  BY LenProperties DEF TypeInv
<1>2. \A i \in 1..Len(sent[c]) : sent[c][i].len \in Nat \ {0, 1}
  BY <1>1, LineAssumption
<1>3. ASSUME NEW n \in 0..Len(sent[c]) PROVE z(n) \in Seq(Nat) /\ Len(z(n)) = n
  BY <1>1, <1>2
<1>4. Bytes(c, 0) = 0
  <2>1. z(0) = <<>>
    OBVIOUS
  <2>2. QED
    BY <2>1, AddUpEmpty DEF Bytes
<1>5. ASSUME NEW n \in 0..(Len(sent[c]) - 1)
      PROVE  /\ Bytes(c, n + 1) = Bytes(c, n) + sent[c][n + 1].len
             /\ sent[c][n + 1].len \in Nat \ {0, 1}
  <2>1. n \in 0..Len(sent[c]) /\ n + 1 \in 1..Len(sent[c]) /\ n + 1 \in 0..Len(sent[c]) /\ n \in Nat
    BY <1>1
  <2> DEFINE a == Append(z(n), sent[c][n + 1].len)
  <2>2. z(n) \in Seq(Nat) /\ Len(z(n)) = n /\ sent[c][n + 1].len \in Nat \ {0, 1}
    BY <1>2, <1>3, <2>1
  <2>3. /\ a \in Seq(Nat) /\ Len(a) = n + 1 /\ a[n + 1] = sent[c][n + 1].len
        /\ \A i \in 1..n : a[i] = z(n)[i]
    <3> HIDE DEF z
    <3>1. QED
      BY <2>2, AppendProperties
  <2>4. a = z(n + 1)
    <3>1. z(n + 1) \in Seq(Nat) /\ Len(z(n + 1)) = n + 1
      BY <1>3, <2>1
    <3>2. \A i \in 1..(n + 1) : z(n + 1)[i] = a[i]
      <4>1. \A i \in 1..(n + 1) : i \in 1..n \/ i = n + 1
        BY <2>1
      <4>2. \A i \in 1..n : z(n)[i] = sent[c][i].len
        OBVIOUS
      <4> HIDE DEF a
      <4>3. \A i \in 1..(n + 1) : z(n + 1)[i] = sent[c][i].len
        OBVIOUS
      <4>4. QED
        BY <2>3, <4>1, <4>2, <4>3
    <3> HIDE DEF a, z
    <3>3. QED
      BY <2>3, <3>1, <3>2, SeqEqual
  <2>5. AddUp(a) = AddUp(z(n)) + sent[c][n + 1].len
    <3> HIDE DEF z
    <3>1. QED
      BY <2>2, AddUpAppend
  <2>6. QED
    BY <2>2, <2>4, <2>5 DEF Bytes
<1>6. QED
  BY <1>1, <1>4, <1>5

LEMMA BytesRise ==
  ASSUME TypeInv, NEW c \in Conn, NEW m \in 0..Len(sent[c]), NEW n \in m..Len(sent[c])
  PROVE  Bytes(c, m) <= Bytes(c, n)
<1> DEFINE N == Len(sent[c])
           S == {d \in Nat : m + d <= N => Bytes(c, m) <= Bytes(c, m + d)}
<1>1. /\ N \in Nat
      /\ \A k \in 0..(N - 1) :
           Bytes(c, k + 1) = Bytes(c, k) + sent[c][k + 1].len /\ sent[c][k + 1].len \in Nat
  BY BytesStep
<1>2. \A k \in 0..N : Bytes(c, k) \in Nat
  BY BytesType
<1>3. 0 \in S
  BY <1>1, <1>2
<1>4. ASSUME NEW d \in Nat, d \in S PROVE d + 1 \in S
  <2>1. ASSUME m + (d + 1) <= N PROVE Bytes(c, m) <= Bytes(c, m + (d + 1))
    <3>1. /\ m + d \in 0..(N - 1) /\ m + d \in 0..N /\ m \in 0..N
          /\ (m + d) + 1 = m + (d + 1)
      BY <1>1, <2>1
    <3>2. Bytes(c, m) <= Bytes(c, m + d)
      BY <1>4, <3>1
    <3>3. /\ Bytes(c, m + (d + 1)) = Bytes(c, m + d) + sent[c][(m + d) + 1].len
          /\ sent[c][(m + d) + 1].len \in Nat
      BY <1>1, <3>1
    <3>4. Bytes(c, m) \in Nat /\ Bytes(c, m + d) \in Nat
      BY <1>2, <3>1
    <3>5. QED
      BY <3>2, <3>3, <3>4
  <2>2. QED
    BY <2>1
<1> HIDE DEF S
<1>5. Nat \subseteq S
  BY <1>3, <1>4, SetInduction
<1>6. n - m \in Nat /\ m + (n - m) = n /\ n <= N
  BY <1>1
<1>7. n - m \in S
  BY <1>5, <1>6
<1>8. QED
  BY <1>6, <1>7 DEF S
-----------------------------------------------------------------------------
(* Which lines are taken.                                                  *)

\* A call that does not end the conversation takes the lines that are due.
LEMMA TakesWhatIsDue ==
  ASSUME TypeInv, NEW c \in Conn, NEW g \in Nat, got[c] < g,
         \A i \in 1..Len(sent[c]) : i <= used[c] <=> Due(c, i),
         NEW n \in used[c]..Len(sent[c]), StopsAfter(c, g, n), ~Rejects(c, g, n),
         \A m \in used[c]..(n - 1) : ~StopsAfter(c, g, m),
         NEW i \in 1..Len(sent[c])
  PROVE  i <= n <=> Bytes(c, i) <= g /\ g - Bytes(c, i - 1) > KCells + 2
<1>1. /\ Len(sent[c]) \in Nat /\ used[c] \in Nat /\ got[c] \in Nat /\ n \in Nat
      /\ KCells \in Nat
  BY LenProperties, LineAssumption DEF TypeInv
<1>2. i \in Nat /\ i - 1 \in 0..(Len(sent[c]) - 1) /\ (i - 1) + 1 = i
  BY <1>1
<1>3. /\ Bytes(c, i) = Bytes(c, i - 1) + sent[c][i].len
      /\ sent[c][i].len \in Nat
  BY <1>2, BytesStep
<1>4. Bytes(c, i) \in Nat /\ Bytes(c, i - 1) \in Nat
  BY <1>1, <1>2, BytesType
<1>5. CASE i <= used[c]
  <2>1. Bytes(c, i) <= got[c] /\ got[c] - Bytes(c, i - 1) > KCells + 2
    BY <1>5 DEF Due
  <2>2. QED
    BY <1>1, <1>4, <1>5, <2>1, SMTT(30)
<1>6. CASE used[c] < i /\ i <= n
  <2>1. i - 1 \in used[c]..(n - 1)
    BY <1>1, <1>2, <1>6
  <2>2. ~Waits(c, g, i - 1) /\ HasLine(c, g, i - 1)
    BY <2>1 DEF StopsAfter
  <2>3. ~(g - Bytes(c, i - 1) <= KCells + 2) /\ g - Bytes(c, i - 1) >= sent[c][i].len
    BY <1>2, <2>2 DEF Waits, HasLine, Readable
  <2>4. QED
    BY <1>1, <1>3, <1>4, <1>6, <2>3, SMTT(30)
<1>7. CASE n < i
  <2>1. /\ n \in 0..(Len(sent[c]) - 1) /\ n \in 0..Len(sent[c]) /\ n + 1 \in 0..Len(sent[c])
        /\ i \in (n + 1)..Len(sent[c]) /\ i - 1 \in n..Len(sent[c])
    BY <1>1, <1>2, <1>7
  <2>2. Bytes(c, n + 1) <= Bytes(c, i) /\ Bytes(c, n) <= Bytes(c, i - 1)
    BY <2>1, BytesRise
  <2>3. Bytes(c, n + 1) = Bytes(c, n) + sent[c][n + 1].len /\ sent[c][n + 1].len \in Nat
    BY <2>1, BytesStep
  <2>4. Bytes(c, n) \in Nat
    BY <2>1, BytesType
  <2>5. Waits(c, g, n) \/ ~HasLine(c, g, n)
    BY DEF StopsAfter, Rejects
  <2>6. CASE Waits(c, g, n)
    <3>1. g - Bytes(c, n) <= KCells + 2
      BY <2>6 DEF Waits, Readable
    <3>2. QED
      BY <1>1, <1>4, <1>7, <2>2, <2>4, <3>1
  <2>7. CASE ~HasLine(c, g, n)
    <3>1. ~(g - Bytes(c, n) >= sent[c][n + 1].len)
      BY <1>1, <2>1, <2>7 DEF HasLine, Readable
    <3>2. QED
      BY <1>1, <1>4, <1>7, <2>2, <2>3, <2>4, <3>1, SMTT(30)
  <2>8. QED
    BY <2>5, <2>6, <2>7
<1>8. QED
  BY <1>1, <1>2, <1>5, <1>6, <1>7

\* A call ends the conversation over a bad line or over one with more bytes
\* than the limit before its last one.
LEMMA RejectsBadOrLong ==
  ASSUME TypeInv, NEW c \in Conn, NEW g \in Nat, g <= Bytes(c, Len(sent[c])),
         NEW n \in used[c]..Len(sent[c]), Rejects(c, g, n)
  PROVE  \E i \in 1..Len(sent[c]) :
           \/ i <= n /\ ~Good(c, i)
           \/ i <= n + 1 /\ sent[c][i].len - 1 > TooLong
<1>1. Len(sent[c]) \in Nat /\ used[c] \in Nat /\ n \in Nat /\ TooLong \in Nat
  BY LenProperties, LineAssumption DEF TypeInv
<1>2. CASE n > used[c] /\ ~Good(c, n)
  <2>1. n \in 1..Len(sent[c]) /\ n <= n
    BY <1>1, <1>2
  <2>2. QED
    BY <1>2, <2>1
<1>3. CASE ~HasLine(c, g, n) /\ Readable(c, g, n) > TooLong
  <2>1. Bytes(c, n) \in Nat
    BY <1>1, BytesType
  <2>2. n # Len(sent[c])
    BY <1>1, <1>3, <2>1 DEF Readable
  <2>3. n + 1 \in 1..Len(sent[c]) /\ n \in 0..(Len(sent[c]) - 1)
    BY <1>1, <2>2
  <2>4. sent[c][n + 1].len \in Nat
    BY <2>3, BytesStep
  <2>5. sent[c][n + 1].len - 1 > TooLong
    BY <1>1, <1>3, <2>1, <2>3, <2>4 DEF HasLine, Readable
  <2>6. QED
    BY <1>1, <2>3, <2>5
<1>4. QED
  BY <1>2, <1>3 DEF Rejects

\* A step that reads nothing.
LEMMA TakenKept ==
  ASSUME UNCHANGED <<sent, got, used>>, NEW c \in Conn, TakenOK(c),
         Connected(c)' => Connected(c),
         conn'[c].state = "kDisconnecting" => conn[c].state = "kDisconnecting"
  PROVE  TakenOK(c)'
BY DEF TakenOK, Due, Bytes, Good
-----------------------------------------------------------------------------
(* What sending makes of a connection.                                     *)

\* Two sequences of units with the second behind the first.
LEMMA UnitsConcat ==
  ASSUME NEW one, NEW s \in Seq(Units), NEW x \in Seq(Units), UnitsOK(one, s), UnitsOK(one, x),
         \A i \in 1..Len(s) : \A j \in 1..Len(x) :
           s[i] # x[j] /\ (one /\ s[i] # 0 /\ x[j] # 0 => s[i] < x[j])
  PROVE  UnitsOK(one, s \o x)
<1> DEFINE r == s \o x
<1>1. /\ Len(s) \in Nat /\ Len(x) \in Nat /\ Len(r) = Len(s) + Len(x)
      /\ \A i \in 1..Len(r) : r[i] = IF i <= Len(s) THEN s[i] ELSE x[i - Len(s)]
  BY ConcatProperties, LenProperties
<1> HIDE DEF r
<1>2. ASSUME NEW i \in 1..Len(r), NEW j \in 1..Len(r), i < j
      PROVE  r[i] # r[j] /\ (one /\ r[i] # 0 /\ r[j] # 0 => r[i] < r[j])
  <2>1. CASE j <= Len(s)
    <3>1. i \in 1..Len(s) /\ j \in 1..Len(s) /\ r[i] = s[i] /\ r[j] = s[j]
      BY <1>1, <1>2, <2>1
    <3>2. QED
      BY <1>2, <3>1 DEF UnitsOK
  <2>2. CASE i <= Len(s) /\ j > Len(s)
    <3>1. i \in 1..Len(s) /\ j - Len(s) \in 1..Len(x) /\ r[i] = s[i] /\ r[j] = x[j - Len(s)]
      BY <1>1, <1>2, <2>2
    <3>2. QED
      BY <3>1
  <2>3. CASE i > Len(s)
    <3>1. /\ i - Len(s) \in 1..Len(x) /\ j - Len(s) \in 1..Len(x)
          /\ i - Len(s) < j - Len(s)
          /\ r[i] = x[i - Len(s)] /\ r[j] = x[j - Len(s)]
      BY <1>1, <1>2, <2>3
    <3>2. QED
      BY <3>1 DEF UnitsOK
  <2>4. QED
    BY <1>1, <1>2, <2>1, <2>2, <2>3
<1>3. QED
  BY <1>2 DEF UnitsOK, r

\* The recursion of SendAll.
AfterRec(f, k, us, gone) ==
  f = [i \in 0..Len(us) |->
         IF i = 0 THEN {k} ELSE AfterSend(f[i - 1], us[i], gone)]

\* x: some of the first n of the units us, in their order.
Picked(x, us, n) ==
  /\ x \in Seq(Units)
  /\ \A j \in 1..Len(x) : \E m \in 1..n : x[j] = us[m]
  /\ \A i, j \in 1..Len(x) : i < j => x[i] < x[j]

\* q: what sending the first n of the units us may leave of k.
SentSome(k, q, us, n, gone) ==
  /\ q \in Connection(Units) /\ q.state = k.state /\ q.fin = k.fin /\ Drained(q)
  /\ k.state # "kConnected" => q = k
  /\ Grown(k, q, Units)
  /\ \E x : /\ Picked(x, us, n) /\ Total(q) = Total(k) \o x
            /\ k.state = "kConnected" /\ ~k.fin /\ ~gone => x = SubSeq(us, 1, n)

\* One more unit.
LEMMA SendOneMore ==
  ASSUME NEW k \in Connection(Units), NEW us \in Seq(Units), NEW gone, NEW n \in Nat, n < Len(us),
         \A i, j \in 1..Len(us) : i < j => us[i] < us[j],
         NEW q, SentSome(k, q, us, n, gone), NEW o \in Send(q, <<us[n + 1]>>, gone)
  PROVE  SentSome(k, o.conn, us, n + 1, gone)
<1> DEFINE e == us[n + 1]
           d == <<e>>
<1>1. /\ q \in Connection(Units) /\ q.state = k.state /\ q.fin = k.fin /\ Drained(q)
      /\ k.state # "kConnected" => q = k
  BY DEF SentSome
<1>2. Grown(k, q, Units)
  BY DEF SentSome
<1>3. PICK x : /\ Picked(x, us, n) /\ Total(q) = Total(k) \o x
               /\ k.state = "kConnected" /\ ~k.fin /\ ~gone => x = SubSeq(us, 1, n)
  BY DEF SentSome
<1>4. n + 1 \in 1..Len(us) /\ e \in Units /\ d \in Seq(Units) /\ Len(us) \in Nat
  BY LenProperties
<1>0. d = <<e>> /\ e = us[n + 1]
  OBVIOUS
<1>send. o \in Send(q, d, gone)
  OBVIOUS
<1> HIDE DEF e, d
<1>5. /\ o.conn \in Connection(Units) /\ o.conn.state = q.state /\ o.conn.fin = q.fin
  BY <1>send, <1>1, <1>4, SendType
<1>6. /\ Total(o.conn) = Total(q) \/ Total(o.conn) = Total(q) \o d
      /\ Drained(o.conn)
      /\ q.state # "kConnected" => o.conn = q
  BY <1>send, <1>1, <1>4, SendOutcome
<1>7. Grown(q, o.conn, Units)
  BY <1>send, <1>1, <1>4, SendOutcome
<1>8. Grown(k, o.conn, Units)
  BY <1>1, <1>2, <1>7, GrownAgain
<1>9. x \in Seq(Units) /\ Len(x) \in Nat /\ \A j \in 1..Len(x) : \E m \in 1..n : x[j] = us[m]
  BY <1>3, LenProperties DEF Picked
<1>10. Total(k) \in Seq(Units)
  BY ConcatProperties DEF Total, Connection
<1>11. Picked(x, us, n + 1)
  BY <1>3 DEF Picked
<1> DEFINE a == Append(x, e)
<1>12. /\ a \in Seq(Units) /\ Len(a) = Len(x) + 1 /\ a[Len(x) + 1] = e
       /\ \A j \in 1..Len(x) : a[j] = x[j]
  BY <1>4, <1>9, AppendProperties
<1>13. (Total(k) \o x) \o d = Total(k) \o a
  <2>1. Append(Total(k) \o x, e) = (Total(k) \o x) \o d
    <3>1. Total(k) \o x \in Seq(Units)
      BY <1>9, <1>10, ConcatProperties
    <3>2. QED
      BY <1>0, <1>4, <3>1, AppendIsConcat
  <2>2. Total(k) \o Append(x, e) = Append(Total(k) \o x, e)
    BY <1>4, <1>9, <1>10, ConcatAppend, SMTT(30)
  <2>3. QED
    BY <2>1, <2>2
<1> HIDE DEF a
<1>14. Picked(a, us, n + 1)
  <2>1. \A j \in 1..Len(a) : j \in 1..Len(x) \/ j = Len(x) + 1
    BY <1>9, <1>12
  <2>2. ASSUME NEW j \in 1..Len(a) PROVE \E m \in 1..(n + 1) : a[j] = us[m]
    <3>1. CASE j \in 1..Len(x)
      <4>1. PICK m \in 1..n : x[j] = us[m]
        BY <1>9, <3>1
      <4>2. QED
        BY <1>12, <3>1, <4>1
    <3>2. CASE j = Len(x) + 1
      BY <1>0, <1>12, <3>2
    <3>3. QED
      BY <2>1, <3>1, <3>2
  <2>3. ASSUME NEW i \in 1..Len(a), NEW j \in 1..Len(a), i < j PROVE a[i] < a[j]
    <3>1. i \in 1..Len(x) /\ a[i] = x[i]
      <4>1. i \in 1..Len(x)
        BY <1>9, <1>12, <2>3
      <4>2. QED
        BY <1>12, <4>1
    <3>2. CASE j \in 1..Len(x)
      BY <1>3, <1>12, <2>3, <3>1, <3>2 DEF Picked
    <3>3. CASE j = Len(x) + 1
      <4>1. PICK m \in 1..n : x[i] = us[m]
        BY <1>9, <3>1
      <4>2. m \in 1..Len(us) /\ m < n + 1
        BY <1>4
      <4>3. us[m] < us[n + 1]
        BY <1>4, <4>2
      <4>4. QED
        BY <1>0, <1>12, <3>1, <3>3, <4>1, <4>3
    <3>4. QED
      BY <2>1, <3>2, <3>3
  <2>4. QED
    BY <1>12, <2>2, <2>3 DEF Picked
<1>15. ASSUME k.state = "kConnected", ~k.fin, ~gone
       PROVE  a = SubSeq(us, 1, n + 1) /\ Total(o.conn) = Total(q) \o d
  <2>1. Total(o.conn) = Total(q) \o d
    BY <1>send, <1>1, <1>4, <1>15, SendTotal
  <2>2. SubSeq(us, 1, n + 1) = SubSeq(us, 1, (n + 1) - 1) \o <<us[n + 1]>>
    BY <1>4, SubSeqRecursiveSecond
  <2>3. (n + 1) - 1 = n
    OBVIOUS
  <2>4. Append(x, e) = x \o d
    BY <1>0, <1>4, <1>9, AppendIsConcat
  <2>5. QED
    BY <1>0, <1>3, <1>15, <2>1, <2>2, <2>3, <2>4 DEF a
<1>16. \E v : /\ Picked(v, us, n + 1) /\ Total(o.conn) = Total(k) \o v
              /\ k.state = "kConnected" /\ ~k.fin /\ ~gone => v = SubSeq(us, 1, n + 1)
  <2>1. CASE Total(o.conn) = Total(q) \o d
    BY <1>3, <1>13, <1>14, <1>15, <2>1
  <2>2. CASE Total(o.conn) # Total(q) \o d
    <3>1. Total(o.conn) = Total(k) \o x
      BY <1>3, <1>6, <2>2
    <3>2. ~(k.state = "kConnected" /\ ~k.fin /\ ~gone)
      BY <1>15, <2>2
    <3>3. QED
      BY <1>11, <3>1, <3>2
  <2>3. QED
    BY <2>1, <2>2
<1>17. QED
  BY <1>1, <1>5, <1>6, <1>8, <1>16 DEF SentSome

\* Sending units in rising order delivers some of them in that order, all of
\* them to a client that is there.
LEMMA SendAllOutcome ==
  ASSUME NEW k \in Connection(Units), Drained(k), NEW us \in Seq(Units), NEW gone,
         \A i, j \in 1..Len(us) : i < j => us[i] < us[j],
         NEW q \in SendAll(k, us, gone)
  PROVE  SentSome(k, q, us, Len(us), gone)
<1> DEFINE N == Len(us)
           X == SUBSET Connection(Units)
           F == [ix \in (1..N) \X X |-> AfterSend(ix[2], us[ix[1]], gone)]
           f == CHOOSE f : AfterRec(f, k, us, gone)
<1>1. N \in Nat /\ \A i \in 1..N : us[i] \in Units
  BY LenProperties
<1>2. F \in [(1..N) \X X -> X]
  <2>1. ASSUME NEW ix \in (1..N) \X X PROVE AfterSend(ix[2], us[ix[1]], gone) \in X
    <3>1. us[ix[1]] \in Units /\ ix[2] \subseteq Connection(Units)
      BY <1>1
    <3>2. ASSUME NEW p \in ix[2], NEW o \in Send(p, <<us[ix[1]]>>, gone)
          PROVE  o.conn \in Connection(Units)
      <4>1. <<us[ix[1]]>> \in Seq(Units) /\ p \in Connection(Units)
        BY <3>1
      <4>2. QED
        BY <4>1, SendType
    <3>3. QED
      BY <3>2 DEF AfterSend
  <2>2. QED
    BY <2>1
<1>3. {k} \in X
  OBVIOUS
<1>4. ASSUME NEW i \in 1..N, NEW ks \in X PROVE F[<<i, ks>>] = AfterSend(ks, us[i], gone)
  BY <1>4
<1> HIDE DEF F, N, X
<1>5. PICK h : StepsBy(h, X, {k}, N, F)
  BY <1>1, <1>2, <1>3, RecursionExists, Zenon
<1>6. ASSUME NEW i \in 0..N, i # 0 PROVE F[<<i, h[i - 1]>>] = AfterSend(h[i - 1], us[i], gone)
  <2>1. i \in 1..N /\ h[i - 1] \in X
    BY <1>1, <1>5, <1>6 DEF StepsBy
  <2>2. QED
    BY <1>4, <2>1
<1>7. AfterRec(h, k, us, gone)
  <2>1. ASSUME NEW i \in 0..N
        PROVE  h[i] = IF i = 0 THEN {k} ELSE AfterSend(h[i - 1], us[i], gone)
    <3>1. i # 0 => i \in 1..N
      BY <1>1
    <3>2. QED
      BY <1>5, <1>6, <3>1 DEF StepsBy
  <2>2. QED
    BY <1>5, <2>1 DEF AfterRec, N, StepsBy
<1>8. AfterRec(f, k, us, gone)
  BY <1>7
<1>9. SendAll(k, us, gone) = f[N]
  BY DEF SendAll, AfterRec, N
<1> HIDE DEF f
<1>10. f[0] = {k}
  BY <1>1, <1>8 DEF AfterRec, N
<1>11. ASSUME NEW i \in 1..N PROVE f[i] = AfterSend(f[i - 1], us[i], gone)
  <2>1. i \in 0..N /\ i # 0
    BY <1>1
  <2>2. QED
    BY <1>8, <2>1, Zenon DEF AfterRec, N
<1> DEFINE S == {n \in Nat : n <= N => \A p \in f[n] : SentSome(k, p, us, n, gone)}
<1>12. SentSome(k, k, us, 0, gone)
  <2>1. <<>> \in Seq(Units) /\ Total(k) = Total(k) \o <<>>
    BY EmptySeq, ConcatEmptySeq, ConcatProperties DEF Total, Connection
  <2>2. Picked(<<>>, us, 0)
    BY <2>1 DEF Picked
  <2>3. SubSeq(us, 1, 0) = <<>>
    BY SubSeqEmpty
  <2>4. \E x : /\ Picked(x, us, 0) /\ Total(k) = Total(k) \o x
               /\ k.state = "kConnected" /\ ~k.fin /\ ~gone => x = SubSeq(us, 1, 0)
    BY <2>1, <2>2, <2>3
  <2>5. Grown(k, k, Units)
    BY GrownSame
  <2>6. QED
    BY <2>4, <2>5 DEF SentSome
<1>13. 0 \in S
  BY <1>10, <1>12
<1>14. ASSUME NEW n \in Nat, n \in S PROVE n + 1 \in S
  <2>1. ASSUME n + 1 <= N, NEW p \in f[n + 1] PROVE SentSome(k, p, us, n + 1, gone)
    <3>1. n < N /\ n + 1 \in 1..N /\ (n + 1) - 1 = n
      BY <1>1, <2>1
    <3>2. f[n + 1] = AfterSend(f[n], us[n + 1], gone)
      BY <1>11, <3>1
    <3>3. PICK r \in f[n] : \E o \in Send(r, <<us[n + 1]>>, gone) : p = o.conn
      BY <2>1, <3>2 DEF AfterSend
    <3>4. SentSome(k, r, us, n, gone)
      BY <1>1, <1>14, <3>1
    <3>5. QED
      BY <3>1, <3>3, <3>4, SendOneMore DEF N
  <2>2. QED
    BY <2>1
<1> HIDE DEF S
<1>15. Nat \subseteq S
  BY <1>13, <1>14, SetInduction
<1>16. QED
  BY <1>1, <1>9, <1>15 DEF S, N

\* What a connection becomes when onMessage has sent the units us and, if it
\* rejects the client, told it off.
Told(k, r, us, rejects, gone) ==
  /\ r \in Connection(Units) /\ Drained(r) /\ Grown(k, r, Units)
  /\ k.state # "kConnected" => r = k
  /\ r.state = "kConnected" => k.state = "kConnected" /\ ~r.fin /\ ~rejects
  /\ r.state = "kDisconnecting" => k.state = "kDisconnecting" \/ rejects
  /\ k.state = "kConnected" => \E x :
       /\ Picked(x, us, Len(us)) /\ (~gone => x = us)
       /\ \/ Total(r) = Total(k) \o x
          \/ Total(r) = (Total(k) \o x) \o <<0>> /\ r.state # "kConnected"

\* What shutdown() does to a connection, in one place.
LEMMA ShutdownOutcome ==
  ASSUME NEW k \in Connection(Units), Drained(k)
  PROVE  /\ Shutdown(k) \in Connection(Units) /\ Drained(Shutdown(k))
         /\ Total(Shutdown(k)) = Total(k) /\ Grown(k, Shutdown(k), Units)
         /\ k.state # "kConnected" => Shutdown(k) = k
         /\ Shutdown(k).state # "kConnected"
<1>1. /\ Shutdown(k) \in Connection(Units)
      /\ k.state # "kConnected" => Shutdown(k) = k
      /\ Shutdown(k).state # "kConnected"
  BY ShutdownType
<1>2. Drained(Shutdown(k)) /\ Total(Shutdown(k)) = Total(k)
  BY ShutdownTotal
<1>3. Shutdown(k).wire = k.wire
  BY DEF Shutdown, ShutdownInLoop, Writing, Connection
<1>4. Grown(k, Shutdown(k), Units)
  BY <1>3, GrownSame
<1>5. QED
  BY <1>1, <1>2, <1>4

LEMMA MessageOutcome ==
  ASSUME NEW k \in Connection(Units), Drained(k), k.state = "kConnected" => ~k.fin,
         NEW us \in Seq(Units), \A i, j \in 1..Len(us) : i < j => us[i] < us[j],
         NEW gone, NEW rejects, NEW q \in SendAll(k, us, gone),
         NEW r, r \in IF rejects THEN Tell(q, gone) ELSE {q}
  PROVE  Told(k, r, us, rejects, gone)
<1>1. SentSome(k, q, us, Len(us), gone)
  BY SendAllOutcome
<1>2. /\ q \in Connection(Units) /\ q.state = k.state /\ q.fin = k.fin /\ Drained(q)
      /\ k.state # "kConnected" => q = k
      /\ Grown(k, q, Units)
  BY <1>1 DEF SentSome
<1>3. PICK x : /\ Picked(x, us, Len(us)) /\ Total(q) = Total(k) \o x
               /\ k.state = "kConnected" /\ ~k.fin /\ ~gone => x = SubSeq(us, 1, Len(us))
  BY <1>1 DEF SentSome
<1>4. SubSeq(us, 1, Len(us)) = us
  BY SubSeqFull
<1>5. CASE ~rejects
  <2>1. r = q
    BY <1>5
  <2>2. k.state = "kConnected" => \E z :
          /\ Picked(z, us, Len(us)) /\ (~gone => z = us)
          /\ \/ Total(r) = Total(k) \o z
             \/ Total(r) = (Total(k) \o z) \o <<0>> /\ r.state # "kConnected"
    BY <1>3, <1>4, <2>1
  <2>3. QED
    BY <1>2, <1>5, <2>1, <2>2 DEF Told
<1>6. CASE rejects
  <2> DEFINE d == <<0>>
  <2>1. PICK o \in Send(q, d, gone) : r = Shutdown(o.conn)
    BY <1>6 DEF Tell
  <2>2. d \in Seq(Units)
    BY DEF Units
  <2>3. d = <<0>>
    OBVIOUS
  <2> HIDE DEF d
  <2>4. /\ o.conn \in Connection(Units) /\ o.conn.state = q.state /\ o.conn.fin = q.fin
    BY <1>2, <2>1, <2>2, SendType
  <2>5. /\ Total(o.conn) = Total(q) \/ Total(o.conn) = Total(q) \o d
        /\ Drained(o.conn) /\ Grown(q, o.conn, Units)
        /\ q.state # "kConnected" => o.conn = q
    BY <1>2, <2>1, <2>2, SendOutcome
  <2>6. /\ r \in Connection(Units) /\ Drained(r)
        /\ Total(r) = Total(o.conn) /\ Grown(o.conn, r, Units)
        /\ o.conn.state # "kConnected" => r = o.conn
        /\ r.state # "kConnected"
    BY <2>1, <2>4, <2>5, ShutdownOutcome
  <2>7. Grown(k, o.conn, Units)
    BY <1>2, <2>5, GrownAgain
  <2>8. Grown(k, r, Units)
    BY <2>6, <2>7, GrownAgain
  <2>9. k.state = "kConnected" => \E z :
          /\ Picked(z, us, Len(us)) /\ (~gone => z = us)
          /\ \/ Total(r) = Total(k) \o z
             \/ Total(r) = (Total(k) \o z) \o d /\ r.state # "kConnected"
    BY <1>3, <1>4, <2>5, <2>6
  <2>10. QED
    BY <1>2, <1>6, <2>3, <2>4, <2>5, <2>6, <2>8, <2>9 DEF Told
<1>7. QED
  BY <1>5, <1>6
-----------------------------------------------------------------------------
(* The inductive invariant: where it begins, and the steps in which the    *)
(* connections and their lines stay as they are.                           *)

LEMMA InitInv == ASSUME Init PROVE IInv
<1>1. TypeInv
  <2>1. ConnectEstablished(Connecting) \in Connection(Units)
    BY EmptySeq DEF ConnectEstablished, Connecting, Connection, ConnState
  <2>2. <<>> \in Seq(Task) /\ <<>> \in Seq(Lines)
    BY EmptySeq
  <2>3. QED
    BY <2>1, <2>2 DEF Init, TypeInv, NoTask
<1>2. PoolOK
  BY EmptySeq DEF Init, PoolOK, Pipeline, Rising, UnderWay, IsIn, Busy
<1>3. ASSUME NEW c \in Conn PROVE /\ Output(c) = <<>> /\ conn[c].state = "kConnected"
                                  /\ ~conn[c].fin /\ conn[c].out = <<>>
                                  /\ sent[c] = <<>> /\ got[c] = 0 /\ used[c] = 0
  <2>1. <<>> \o <<>> = <<>>
    BY ConcatEmptySeq, EmptySeq, Zenon
  <2>2. QED
    BY <2>1 DEF Init, ConnectEstablished, Connecting, Output
<1>4. ASSUME NEW c \in Conn PROVE OutputOK(c) /\ ConnOK(c) /\ AnsweredOK(c)
  <2>1. Len(Output(c)) = 0 /\ Len(sent[c]) = 0
    BY <1>3
  <2>2. OutputOK(c)
    BY <2>1 DEF OutputOK, UnitsOK, IsIn
  <2>3. Bytes(c, 0) \in Nat
    BY <1>1, <2>1, BytesType
  <2>4. ConnOK(c)
    BY <1>3, <2>1, <2>3, LineAssumption DEF ConnOK, Drained
  <2>5. UpTo(0) = <<>>
    BY DEF UpTo
  <2>6. Answered(c, 0)
    BY <1>3, <2>5 DEF Answered
  <2>7. AnsweredOK(c)
    BY <1>3, <2>6 DEF AnsweredOK
  <2>8. QED
    BY <2>2, <2>4, <2>7
<1>5. ASSUME NEW c \in Conn PROVE TakenOK(c)
  BY <1>3 DEF TakenOK
<1>6. QED
  BY <1>1, <1>2, <1>4, <1>5 DEF IInv

\* A step of a thread of the pool.
LEMMA PoolStep ==
  ASSUME IInv, UNCHANGED <<pool, conn, peer, sent, got, used>>,
         tasks' \in Seq(Task), functors' \in Seq(Task), worker' \in Threads,
         Pipeline(OneLine, functors', worker', tasks'),
         NoneNew(functors', worker', tasks', functors, worker, tasks),
         \A w \in Workers : Busy(worker', w) => w \in pool,
         pool # {}
  PROVE  IInv'
<1>1. TypeInv'
  BY DEF IInv, TypeInv, Threads
<1>2. PoolOK'
  BY DEF IInv, PoolOK, OneLine, Good, NoneNew
<1>3. ASSUME NEW c \in Conn PROVE OutputOK(c)' /\ ConnOK(c)' /\ AnsweredOK(c)'
  <2>1. OutputOK(c)'
    BY DEF IInv, OutputOK, Output, OneLine, Connected, Good, NoneNew
  <2>2. ConnOK(c)'
    BY DEF IInv, ConnOK, Connected, Good, Bytes
  <2>3. AnsweredOK(c)'
    BY DEF AnsweredOK
  <2>4. QED
    BY <2>1, <2>2, <2>3
<1>4. ASSUME NEW c \in Conn PROVE TakenOK(c)'
  BY TakenKept DEF IInv, Connected
<1>5. QED
  BY <1>1, <1>2, <1>3, <1>4 DEF IInv

LEMMA WorkerTakeInv == ASSUME IInv, NEW w \in Workers, WorkerTake(w) PROVE IInv'
<1>1. TypeInv /\ PoolOK /\ w \in pool /\ worker[w] = NoTask /\ tasks # <<>>
  BY DEF IInv, WorkerTake
<1>2. /\ worker \in Threads /\ tasks \in Seq(Task) /\ functors \in Seq(Task)
      /\ Pipeline(OneLine, functors, worker, tasks) /\ ~Busy(worker, w)
  BY <1>1 DEF TypeInv, PoolOK, Threads, Busy
<1>3. ASSUME NEW v \in Workers, Busy(worker, v) PROVE ~OneLine
  <2>1. v \in pool /\ v # w
    BY <1>1, <1>3 DEF PoolOK, Busy
  <2>2. IsFiniteSet(pool)
    BY <1>1, WorkersAssumption, FS_Subset DEF TypeInv
  <2>3. Cardinality({v, w}) = 2
    <3>1. IsFiniteSet({v}) /\ Cardinality({v}) = 1
      BY FS_Singleton
    <3>2. Cardinality({v} \cup {w}) = Cardinality({v}) + 1
      BY <2>1, <3>1, FS_AddElement
    <3>3. {v, w} = {v} \cup {w}
      OBVIOUS
    <3>4. QED
      BY <3>1, <3>2, <3>3
  <2>4. {v, w} \subseteq pool
    BY <1>1, <2>1
  <2>5. /\ Cardinality({v, w}) <= Cardinality(pool) /\ Cardinality(pool) \in Nat
    BY <2>2, <2>4, FS_Subset, FS_CardinalityType
  <2>6. QED
    BY <2>3, <2>5 DEF OneLine
<1>4. /\ worker' = [worker EXCEPT ![w] = Working("solving", Head(tasks))]
      /\ tasks' = Tail(tasks) /\ functors' = functors
      /\ UNCHANGED <<pool, conn, peer, sent, got, used>>
  BY DEF WorkerTake
<1>b. OneLine => AllIdle(worker)
  BY <1>3 DEF AllIdle
<1>a. /\ worker'[w].task = Head(tasks) /\ Busy(worker', w)
      /\ SameBut(worker', worker, w)
  BY <1>2, <1>4 DEF Busy, Threads, Working, NoTask, SameBut
<1>5. /\ Pipeline(OneLine, functors, worker', Tail(tasks))
      /\ NoneNew(functors, worker', Tail(tasks), functors, worker, tasks)
  BY <1>1, <1>2, <1>a, <1>b, TakeMoves
<1>6. Head(tasks) \in Task /\ Tail(tasks) \in Seq(Task)
  BY <1>1, <1>2, HeadTailProperties
<1>7. worker' \in Threads
  BY <1>2, <1>4, <1>6 DEF Threads, Working, Stages
<1>8. \A v \in Workers : Busy(worker', v) => v \in pool
  BY <1>1, <1>2, <1>4 DEF PoolOK, Busy, Threads
<1>9. QED
  BY <1>1, <1>2, <1>4, <1>5, <1>6, <1>7, <1>8, PoolStep

LEMMA WorkerCheckInv == ASSUME IInv, NEW w \in Workers, WorkerCheck(w) PROVE IInv'
<1>1. TypeInv /\ PoolOK
  BY DEF IInv
<1>2. /\ worker \in Threads /\ tasks \in Seq(Task) /\ functors \in Seq(Task)
      /\ Pipeline(OneLine, functors, worker, tasks)
  BY <1>1 DEF TypeInv, PoolOK, Threads
<1>3. Busy(worker, w) /\ w \in pool
  BY <1>1 DEF WorkerCheck, Busy, NoTask, PoolOK
<1>4. /\ worker' = [worker EXCEPT ![w] = AfterCheck(w)]
      /\ tasks' = tasks /\ functors' = functors
      /\ UNCHANGED <<pool, conn, peer, sent, got, used>>
  BY DEF WorkerCheck
<1>5. AfterCheck(w) = NoTask \/ AfterCheck(w).task = worker[w].task
  BY DEF AfterCheck, Working
<1>6. /\ Pipeline(OneLine, functors, worker', tasks)
      /\ NoneNew(functors, worker', tasks, functors, worker, tasks)
  BY <1>2, <1>3, <1>4, <1>5, CheckMoves
<1>7. worker' \in Threads
  BY <1>2, <1>3, <1>4 DEF Threads, Working, Stages, AfterCheck, Busy
<1>8. \A v \in Workers : Busy(worker', v) => v \in pool
  BY <1>1, <1>2, <1>3, <1>4 DEF PoolOK, Busy, Threads
<1>9. QED
  BY <1>2, <1>3, <1>4, <1>6, <1>7, <1>8, PoolStep

LEMMA WorkerPostInv == ASSUME IInv, NEW w \in Workers, WorkerPost(w) PROVE IInv'
<1>1. TypeInv /\ PoolOK
  BY DEF IInv
<1>2. /\ worker \in Threads /\ tasks \in Seq(Task) /\ functors \in Seq(Task)
      /\ Pipeline(OneLine, functors, worker, tasks)
  BY <1>1 DEF TypeInv, PoolOK, Threads
<1>3. Busy(worker, w) /\ w \in pool
  BY <1>1 DEF WorkerPost, Busy, NoTask, PoolOK
<1>4. /\ worker' = [worker EXCEPT ![w] = NoTask]
      /\ tasks' = tasks /\ functors' = Append(functors, worker[w].task)
      /\ UNCHANGED <<pool, conn, peer, sent, got, used>>
  BY DEF WorkerPost, Post
<1>a. ~Busy(worker', w) /\ SameBut(worker', worker, w)
  BY <1>2, <1>4 DEF Busy, Threads, SameBut
<1>5. /\ Pipeline(OneLine, functors', worker', tasks)
      /\ NoneNew(functors', worker', tasks, functors, worker, tasks)
  BY <1>2, <1>3, <1>4, <1>a, PostMoves
<1>6. worker[w].task \in Task
  BY <1>2, <1>3 DEF Threads, Busy
<1>7. worker' \in Threads /\ functors' \in Seq(Task)
  BY <1>2, <1>4, <1>6, AppendProperties DEF Threads
<1>8. \A v \in Workers : Busy(worker', v) => v \in pool
  BY <1>1, <1>2, <1>4 DEF PoolOK, Busy, Threads
<1>9. QED
  BY <1>2, <1>3, <1>4, <1>5, <1>7, <1>8, PoolStep
-----------------------------------------------------------------------------
(* The steps of the socket and of the clients.                             *)

\* A step that moves no unit into or out of a connection.
LEMMA NoUnitMoves ==
  ASSUME IInv, UNCHANGED <<pool, peer, sent, got, used, tasks, worker, functors>>,
         NEW c \in Conn, NEW k \in Connection(Units), conn' = [conn EXCEPT ![c] = k],
         Total(k) = Total(conn[c]), Drained(k),
         k.state = "kConnected" => Connected(c) /\ ~k.fin,
         k.state = "kDisconnecting" => conn[c].state = "kDisconnecting"
  PROVE  IInv'
<1>1. TypeInv'
  BY DEF IInv, TypeInv
<1>2. PoolOK'
  BY DEF IInv, PoolOK, OneLine, Good
<1>3. /\ conn'[c] = k /\ \A d \in Conn : d # c => conn'[d] = conn[d]
  BY DEF IInv, TypeInv
<1>4. ASSUME NEW d \in Conn
      PROVE  /\ Output(d)' = Output(d) /\ (Connected(d)' => Connected(d))
             /\ Drained(conn'[d]) /\ (Connected(d)' => ~conn'[d].fin)
  <2>1. CASE d = c
    BY <1>3, <2>1 DEF Output, Total, Connected
  <2>2. CASE d # c
    BY <1>3, <2>2 DEF IInv, ConnOK, Output, Connected
  <2>3. QED
    BY <2>1, <2>2
<1>5. ASSUME NEW d \in Conn PROVE OutputOK(d)' /\ ConnOK(d)' /\ AnsweredOK(d)'
  <2>1. OutputOK(d) /\ ConnOK(d) /\ AnsweredOK(d)
    BY DEF IInv
  <2>2. OutputOK(d)'
    BY <1>4, <2>1 DEF OutputOK, OneLine, Good
  <2>3. ConnOK(d)'
    BY <1>4, <2>1 DEF ConnOK, Good, Bytes
  <2>4. AnsweredOK(d)'
    <3>1. ASSUME NEW m, Answered(d, m) PROVE Answered(d, m)'
      BY <1>4, <3>1 DEF Answered, Good
    <3>2. QED
      BY <2>1, <3>1 DEF AnsweredOK, Gone
  <2>5. QED
    BY <2>2, <2>3, <2>4
<1>6. ASSUME NEW d \in Conn PROVE TakenOK(d)'
  BY <1>3, <1>4, TakenKept DEF IInv
<1>7. QED
  BY <1>1, <1>2, <1>5, <1>6 DEF IInv

LEMMA OnWritableInv == ASSUME IInv, NEW c \in Conn, OnWritable(c) PROVE IInv'
<1>1. PICK o \in HandleWrite(conn[c]) : conn' = [conn EXCEPT ![c] = o.conn]
  BY DEF OnWritable
<1>2. conn[c] \in Connection(Units) /\ Drained(conn[c])
  BY DEF IInv, TypeInv, ConnOK
<1>3. /\ o.conn \in Connection(Units) /\ o.conn.state = conn[c].state
      /\ Total(o.conn) = Total(conn[c]) /\ Drained(o.conn)
      /\ o.conn.fin => conn[c].state = "kDisconnecting"
  BY <1>2, HandleWriteType, HandleWriteTotal
<1>4. o.conn.state = "kConnected" => Connected(c) /\ ~o.conn.fin
  BY <1>3 DEF Connected
<1>5. UNCHANGED <<pool, peer, sent, got, used, tasks, worker, functors>>
  BY DEF OnWritable
<1>6. QED
  BY <1>1, <1>3, <1>4, <1>5, NoUnitMoves

LEMMA OnDownInv == ASSUME IInv, NEW c \in Conn, OnDown(c) PROVE IInv'
<1> DEFINE k == HandleClose(conn[c])
<1>1. conn[c] \in Connection(Units) /\ Drained(conn[c])
  BY DEF IInv, TypeInv, ConnOK
<1>2. /\ k \in Connection(Units) /\ k.state = "kDisconnected"
      /\ k.out = conn[c].out /\ k.wire = conn[c].wire /\ k.fin = conn[c].fin
  BY <1>1 DEF HandleClose, Connection, ConnState
<1>3. conn' = [conn EXCEPT ![c] = k]
  BY DEF OnDown
<1> HIDE DEF k
<1>4. Total(k) = Total(conn[c]) /\ Drained(k)
  BY <1>1, <1>2 DEF Total, Drained
<1>5. UNCHANGED <<pool, peer, sent, got, used, tasks, worker, functors>>
  BY DEF OnDown
<1>6. QED
  BY <1>2, <1>3, <1>4, <1>5, NoUnitMoves

LEMMA PeerCloseInv == ASSUME IInv, NEW c \in Conn, PeerClose(c) PROVE IInv'
<1>1. UNCHANGED <<pool, conn, sent, got, used, tasks, worker, functors>>
  BY DEF PeerClose
<1>2. TypeInv'
  BY DEF IInv, TypeInv, PeerClose
<1>3. PoolOK'
  BY <1>1 DEF IInv, PoolOK, OneLine, Good
<1>4. ASSUME NEW d \in Conn PROVE OutputOK(d)' /\ ConnOK(d)' /\ AnsweredOK(d)'
  <2>1. OutputOK(d) /\ ConnOK(d) /\ AnsweredOK(d)
    BY DEF IInv
  <2>2. OutputOK(d)'
    BY <1>1, <2>1 DEF OutputOK, OneLine, Good, Output, Connected
  <2>3. ConnOK(d)'
    BY <1>1, <2>1 DEF ConnOK, Good, Bytes, Connected
  <2>4. Gone(d) => Gone(d)'
    BY DEF PeerClose, Gone, IInv, TypeInv
  <2>5. ASSUME NEW m, Answered(d, m) PROVE Answered(d, m)'
    BY <1>1, <2>5 DEF Answered, Good, Output, Connected
  <2>6. AnsweredOK(d)'
    BY <1>1, <2>1, <2>4, <2>5 DEF AnsweredOK
  <2>7. QED
    BY <2>2, <2>3, <2>6
<1>5. ASSUME NEW d \in Conn PROVE TakenOK(d)'
  BY <1>1, TakenKept DEF IInv, Connected
<1>6. QED
  BY <1>2, <1>3, <1>4, <1>5 DEF IInv

\* One more line leaves the bytes of the lines before it alone.
LEMMA PeerSendBytes ==
  ASSUME TypeInv, NEW c \in Conn, NEW l \in Lines, PeerSend(c, l), NEW d \in Conn
  PROVE  /\ sent'[d] \in Seq(Lines)
         /\ \A i \in 1..Len(sent[d]) : sent'[d][i] = sent[d][i]
         /\ \A n \in 0..Len(sent[d]) : Bytes(d, n)' = Bytes(d, n)
         /\ Len(sent[d]) <= Len(sent'[d])
         /\ Bytes(d, Len(sent[d])) <= Bytes(d, Len(sent[d]))'
         /\ Bytes(d, Len(sent[d])) \in Nat /\ Bytes(d, Len(sent[d]))' \in Nat
         /\ \/ Len(sent'[d]) = Len(sent[d])
            \/ /\ Len(sent'[d]) = Len(sent[d]) + 1
               /\ Bytes(d, Len(sent[d])) < Bytes(d, Len(sent[d]))'
         /\ Len(sent[d]) <= MaxLines => Len(sent'[d]) <= MaxLines
<1> DEFINE s == sent[d]
           r == sent'[d]
           N == Len(s)
<1>1. s \in Seq(Lines) /\ N \in Nat
  BY LenProperties DEF TypeInv
<1>2. r = s \/ (r = Append(s, l) /\ N < MaxLines)
  BY DEF PeerSend, TypeInv
<1>3. /\ r \in Seq(Lines) /\ N <= Len(r) /\ Len(r) \in Nat /\ Len(r) <= N + 1
      /\ \A i \in 1..N : r[i] = s[i]
      /\ N <= MaxLines => Len(r) <= MaxLines
  <2>1. CASE r = s
    BY <1>1, <2>1
  <2>2. CASE r = Append(s, l) /\ N < MaxLines
    BY <1>1, <2>2, AppendProperties, LineAssumption
  <2>3. QED
    BY <1>2, <2>1, <2>2
<1>4. \A q \in Lines : q.len \in Nat /\ q.len > 0
  BY LineAssumption
<1> DEFINE a == [i \in 1..N |-> s[i].len]
           b == [i \in 1..N |-> r[i].len]
           z == [i \in 1..Len(r) |-> r[i].len]
<1>5. ASSUME NEW n \in 0..N PROVE Bytes(d, n)' = Bytes(d, n)
  <2>1. [i \in 1..n |-> r[i].len] = [i \in 1..n |-> s[i].len]
    BY <1>1, <1>3
  <2>2. QED
    BY <2>1 DEF Bytes
<1>6. \/ Len(r) = N /\ AddUp(b) <= AddUp(z)
      \/ Len(r) = N + 1 /\ AddUp(b) < AddUp(z)
  <2>1. CASE Len(r) = N
    <3>1. b = z /\ b \in Seq(Nat)
      <4>1. \A i \in 1..N : r[i] \in Lines
        BY <1>3, <2>1, LenProperties
      <4>2. QED
        BY <1>1, <1>4, <2>1, <4>1
    <3>2. AddUp(b) \in Nat
      BY <3>1, AddUpType
    <3>3. QED
      BY <2>1, <3>1, <3>2
  <2>2. CASE Len(r) = N + 1
    <3>1. \A i \in 1..(N + 1) : r[i] \in Lines
      BY <1>3, <2>2, LenProperties
    <3>2. b \in Seq(Nat) /\ r[N + 1].len \in Nat /\ r[N + 1].len > 0
      BY <1>1, <1>4, <3>1
    <3>3. z = Append(b, r[N + 1].len)
      <4>1. /\ z \in Seq(Nat) /\ Len(z) = N + 1 /\ \A i \in 1..(N + 1) : z[i] = r[i].len
        BY <1>1, <1>4, <2>2, <3>1
      <4>2. Len(b) = N /\ \A i \in 1..N : b[i] = r[i].len
        BY <1>1
      <4> DEFINE y == Append(b, r[N + 1].len)
      <4>3. /\ y \in Seq(Nat) /\ Len(y) = N + 1 /\ y[N + 1] = r[N + 1].len
            /\ \A i \in 1..N : y[i] = b[i]
        BY <3>2, <4>2, AppendProperties
      <4> HIDE DEF y, z, b
      <4>4. ASSUME NEW i \in 1..(N + 1) PROVE y[i] = z[i]
        <5>1. i \in 1..N \/ i = N + 1
          BY <1>1
        <5>2. QED
          BY <4>1, <4>2, <4>3, <5>1
      <4>5. y = z
        BY <4>1, <4>3, <4>4, SeqEqual
      <4>6. QED
        BY <4>5 DEF y
    <3> HIDE DEF b, z
    <3>4. AddUp(z) = AddUp(b) + r[N + 1].len /\ AddUp(b) \in Nat
      BY <3>2, <3>3, AddUpAppend, AddUpType
    <3>5. QED
      BY <2>2, <3>2, <3>4
  <2>3. QED
    BY <1>1, <1>3, <2>1, <2>2
<1>7. Bytes(d, Len(sent[d])) = AddUp(b) /\ Bytes(d, Len(sent[d]))' = AddUp(z)
  <2>1. a = b
    BY <1>3
  <2>2. QED
    BY <2>1 DEF Bytes
<1>8. /\ Bytes(d, Len(sent[d])) <= Bytes(d, Len(sent[d]))'
      /\ \/ Len(r) = N
         \/ Len(r) = N + 1 /\ Bytes(d, Len(sent[d])) < Bytes(d, Len(sent[d]))'
      /\ Bytes(d, Len(sent[d])) \in Nat /\ Bytes(d, Len(sent[d]))' \in Nat
  <2>1. b \in Seq(Nat) /\ z \in Seq(Nat)
    <3>1. \A i \in 1..Len(r) : r[i] \in Lines
      BY <1>3, LenProperties
    <3>2. QED
      BY <1>1, <1>3, <1>4, <3>1
  <2> HIDE DEF b, z
  <2>2. QED
    BY <1>6, <1>7, <2>1, AddUpType
<1>9. QED
  BY <1>3, <1>5, <1>8

LEMMA PeerSendInv == ASSUME IInv, NEW c \in Conn, NEW l \in Lines, PeerSend(c, l) PROVE IInv'
<1>0. TypeInv /\ PoolOK
  BY DEF IInv
<1>1. UNCHANGED <<pool, conn, peer, got, used, tasks, worker, functors>>
  BY DEF PeerSend
<1>2. ASSUME NEW d \in Conn
      PROVE  /\ sent'[d] \in Seq(Lines)
             /\ \A i \in 1..Len(sent[d]) : Good(d, i)' = Good(d, i)
             /\ \A i \in 1..Len(sent[d]) : sent'[d][i] = sent[d][i]
             /\ \A n \in 0..Len(sent[d]) : Bytes(d, n)' = Bytes(d, n)
             /\ Len(sent[d]) <= Len(sent'[d])
             /\ Bytes(d, Len(sent[d])) <= Bytes(d, Len(sent[d]))'
             /\ Bytes(d, Len(sent[d])) \in Nat /\ Bytes(d, Len(sent[d]))' \in Nat
             /\ \/ Len(sent'[d]) = Len(sent[d])
                \/ /\ Len(sent'[d]) = Len(sent[d]) + 1
                   /\ Bytes(d, Len(sent[d])) < Bytes(d, Len(sent[d]))'
             /\ Len(sent[d]) <= MaxLines => Len(sent'[d]) <= MaxLines
             /\ Len(sent[d]) \in Nat /\ Len(sent'[d]) \in Nat
             /\ used[d] <= Len(sent[d]) /\ used[d] \in Nat
  <2>1. sent[d] \in Seq(Lines) /\ used[d] \in Nat
    BY <1>0 DEF TypeInv
  <2>2. used[d] <= Len(sent[d])
    BY DEF IInv, ConnOK
  <2>3. QED
    BY <1>0, <2>1, <2>2, PeerSendBytes, LenProperties DEF Good
<1>3. ASSUME NEW d \in Conn, NEW i \in Nat, i <= used[d], i # 0
      PROVE  i \in 1..Len(sent[d]) /\ Good(d, i)' = Good(d, i)
  BY <1>2, <1>3
<1>4. TypeInv'
  <2>1. sent' \in [Conn -> Seq(Lines)]
    <3>1. DOMAIN sent' = Conn /\ sent' = [d \in Conn |-> sent'[d]]
      BY <1>0 DEF PeerSend, TypeInv
    <3>2. QED
      BY <1>2, <3>1
  <2>2. QED
    BY <1>0, <1>1, <2>1 DEF TypeInv
<1>5. PoolOK'
  <2>1. ASSUME NEW t \in Task, UnderWay(t, functors, worker, tasks)
        PROVE  t.line <= used[t.conn] /\ Good(t.conn, t.line)'
    <3>1. t.conn \in Conn /\ t.line \in Nat /\ t.line # 0
      BY DEF Task
    <3>2. t.line <= used[t.conn] /\ Good(t.conn, t.line)
      BY <1>0, <2>1 DEF PoolOK
    <3>3. QED
      BY <1>3, <3>1, <3>2
  <2>2. QED
    BY <1>0, <1>1, <2>1 DEF PoolOK, OneLine
<1>6. ASSUME NEW d \in Conn PROVE OutputOK(d)' /\ ConnOK(d)' /\ AnsweredOK(d)'
  <2>1. OutputOK(d) /\ ConnOK(d) /\ AnsweredOK(d)
    BY DEF IInv
  <2>2. Output(d)' = Output(d) /\ Connected(d)' = Connected(d) /\ Gone(d)' = Gone(d)
    BY <1>1 DEF Output, Connected, Gone
  <2>3. Output(d) \in Seq(Units)
    BY <1>0, ConcatProperties DEF Output, TypeInv, Connection
  <2>4. OutputOK(d)'
    <3>1. ASSUME NEW i \in 1..Len(Output(d)), Output(d)[i] # 0
          PROVE  Output(d)[i] <= used[d] /\ Good(d, Output(d)[i])'
      <4>1. Output(d)[i] \in Nat
        BY <2>3, LenProperties DEF Units
      <4>2. Output(d)[i] <= used[d] /\ Good(d, Output(d)[i])
        BY <2>1, <3>1 DEF OutputOK
      <4>3. QED
        BY <1>3, <2>2, <3>1, <4>1, <4>2
    <3>2. QED
      BY <1>1, <2>1, <2>2, <3>1 DEF OutputOK, OneLine
  <2>5. ConnOK(d)'
    <3>1. \A i \in 1..used[d] : Good(d, i)' = Good(d, i)
      BY <1>2, <1>3
    <3>2. got[d] <= Bytes(d, Len(sent[d]))'
      <4>1. got[d] \in Nat
        BY <1>0 DEF TypeInv
      <4>2. QED
        BY <1>2, <2>1, <4>1 DEF ConnOK
    <3>3. QED
      BY <1>1, <1>2, <2>1, <2>2, <3>1, <3>2 DEF ConnOK
  <2>6. AnsweredOK(d)'
    <3>1. ASSUME NEW m \in 0..used[d], Answered(d, m) PROVE Answered(d, m)'
      <4>1. \A i \in 1..m : Good(d, i)' = Good(d, i)
        BY <1>2, <1>3
      <4>2. QED
        BY <1>1, <2>2, <3>1, <4>1 DEF Answered
    <3>2. QED
      BY <1>1, <2>1, <2>2, <3>1 DEF AnsweredOK
  <2>7. QED
    BY <2>4, <2>5, <2>6
<1>7. ASSUME NEW d \in Conn PROVE TakenOK(d)'
  <2>1. /\ TakenOK(d) /\ got'[d] = got[d] /\ used'[d] = used[d] /\ conn'[d] = conn[d]
        /\ Connected(d)' = Connected(d)
    BY <1>1 DEF IInv, Connected
  <2>2. ASSUME Connected(d), NEW i \in 1..Len(sent'[d])
        PROVE  i <= used[d] <=> Due(d, i)'
    <3>1. CASE i \in 1..Len(sent[d])
      <4>1. i \in 0..Len(sent[d]) /\ i - 1 \in 0..Len(sent[d])
        BY <1>2, <3>1
      <4>2. Due(d, i)' = Due(d, i)
        BY <1>2, <2>1, <4>1 DEF Due
      <4>3. QED
        BY <2>1, <2>2, <3>1, <4>2 DEF TakenOK
    <3>2. CASE i \notin 1..Len(sent[d])
      <4>1. i \in Nat /\ i > Len(sent[d]) /\ i = Len(sent'[d]) /\ i = Len(sent[d]) + 1
        BY <1>2, <3>2
      <4>2. got[d] \in Nat /\ got[d] <= Bytes(d, Len(sent[d]))
        BY <1>0 DEF IInv, ConnOK, TypeInv
      <4>3. Bytes(d, Len(sent[d])) < Bytes(d, i)'
        <5>1. /\ Len(sent[d]) \in Nat
              /\ \/ Len(sent'[d]) = Len(sent[d])
                 \/ /\ Len(sent'[d]) = Len(sent[d]) + 1
                    /\ Bytes(d, Len(sent[d])) < Bytes(d, Len(sent[d]))'
          BY <1>2, Zenon
        <5>2. Len(sent'[d]) # Len(sent[d])
          BY <4>1, <5>1
        <5>3. Bytes(d, Len(sent[d])) < Bytes(d, Len(sent[d]))'
          BY <5>1, <5>2, Zenon
        <5>4. QED
          BY <4>1, <5>3
      <4>4. /\ Bytes(d, Len(sent[d])) \in Nat /\ Bytes(d, Len(sent[d]))' \in Nat
            /\ used[d] <= Len(sent[d]) /\ used[d] \in Nat /\ Len(sent[d]) \in Nat
        BY <1>2
      <4>5. Bytes(d, i)' \in Nat
        BY <4>1, <4>4
      <4>6. ~(Bytes(d, i)' <= got'[d]) /\ ~(i <= used[d])
        BY <2>1, <4>1, <4>2, <4>3, <4>4, <4>5
      <4>7. QED
        BY <4>6 DEF Due
    <3>3. QED
      BY <3>1, <3>2
  <2>3. ASSUME conn[d].state = "kDisconnecting"
        PROVE  \E i \in 1..Len(sent'[d]) :
                 \/ i <= used[d] /\ ~Good(d, i)'
                 \/ i <= used[d] + 1 /\ sent'[d][i].len - 1 > TooLong
    <3>1. PICK i \in 1..Len(sent[d]) : \/ i <= used[d] /\ ~Good(d, i)
                                       \/ i <= used[d] + 1 /\ sent[d][i].len - 1 > TooLong
      BY <2>1, <2>3 DEF TakenOK
    <3>2. i \in 1..Len(sent'[d])
      BY <1>2
    <3>3. QED
      BY <1>2, <3>1, <3>2
  <2>4. QED
    BY <2>1, <2>2, <2>3 DEF TakenOK
<1>8. QED
  BY <1>4, <1>5, <1>6, <1>7 DEF IInv
-----------------------------------------------------------------------------
(* The loop runs a functor.                                                *)

\* A unit for the end of the output.
LEMMA UnitAtEnd ==
  ASSUME NEW one, NEW s \in Seq(Units), UnitsOK(one, s), NEW u \in Units,
         NEW x \in Seq(Units), Len(x) = 1, x[1] = u,
         \A i \in 1..Len(s) : s[i] # u /\ (one /\ s[i] # 0 /\ u # 0 => s[i] < u)
  PROVE  /\ UnitsOK(one, s \o x) /\ s \o x \in Seq(Units)
         /\ Len(s) \in Nat /\ Len(s \o x) = Len(s) + 1
         /\ \A i \in 1..Len(s) : (s \o x)[i] = s[i]
         /\ (s \o x)[Len(s) + 1] = u
<1>2. UnitsOK(one, x)
  BY DEF UnitsOK
<1>3. UnitsOK(one, s \o x)
  BY <1>2, UnitsConcat
<1>4. /\ s \o x \in Seq(Units) /\ Len(s) \in Nat /\ Len(s \o x) = Len(s) + 1
      /\ \A i \in 1..Len(s) : (s \o x)[i] = s[i]
      /\ (s \o x)[Len(s) + 1] = u
  <2> DEFINE r == s \o x
  <2>1. /\ r \in Seq(Units) /\ Len(s) \in Nat /\ Len(r) = Len(s) + Len(x)
        /\ \A i \in 1..Len(s) + Len(x) : r[i] = IF i <= Len(s) THEN s[i] ELSE x[i - Len(s)]
    BY ConcatProperties, LenProperties
  <2> HIDE DEF r
  <2>2. (Len(s) + 1) - Len(s) = 1
    BY <2>1
  <2>3. QED
    BY <2>1, <2>2 DEF r
<1>5. QED
  BY <1>3, <1>4

LEMMA RunSendInv == ASSUME IInv, RunSend PROVE IInv'
<1>0. TypeInv /\ PoolOK
  BY DEF IInv
<1>1. /\ functors # <<>> /\ functors' = Tail(functors)
      /\ UNCHANGED <<pool, peer, sent, got, used, tasks, worker>>
  BY DEF RunSend
<1>3. /\ worker \in Threads /\ tasks \in Seq(Task) /\ functors \in Seq(Task)
      /\ Pipeline(OneLine, functors, worker, tasks)
  BY <1>0 DEF TypeInv, PoolOK, Threads
<1>a. Head(functors) \in Task /\ functors' \in Seq(Task)
  BY <1>1, <1>3, HeadTailProperties
<1>4. PICK t \in Task : t = Head(functors)
  BY <1>a
<1>b. PICK c \in Conn : c = t.conn
  BY DEF Task
<1>5. t.line \in Units /\ t.line # 0 /\ t = AsTask(c, t.line)
  BY <1>b DEF Task, Units, AsTask
<1> DEFINE x == <<t.line>>
<1>2. PICK o \in SendInLoop(conn[c], x, Gone(c)) : conn' = [conn EXCEPT ![c] = o.conn]
  BY <1>4, <1>b DEF RunSend
<1>6. x \in Seq(Units) /\ Len(x) = 1 /\ x[1] = t.line
  BY <1>5
<1>7. /\ Pipeline(OneLine, functors', worker, tasks)
      /\ UnderWay(t, functors, worker, tasks)
      /\ \A r : UnderWay(r, functors', worker, tasks) =>
           UnderWay(r, functors, worker, tasks) /\ Before(OneLine, t, r)
  BY <1>1, <1>3, <1>4, RunMoves
<1>8. t.line <= used[c] /\ Good(c, t.line)
  BY <1>0, <1>4, <1>b, <1>7 DEF PoolOK
<1>9. pool # {}
  BY <1>0, <1>1 DEF PoolOK
<1>10. conn[c] \in Connection(Units) /\ Drained(conn[c]) /\ OutputOK(c) /\ ConnOK(c)
  BY <1>0, <1>5 DEF IInv, TypeInv, ConnOK
<1> HIDE DEF x
<1>12. o.conn \in Connection(Units) /\ o.conn.state = conn[c].state /\ o.conn.fin = conn[c].fin
  BY <1>2, <1>6, <1>10, SendInLoopType
<1>13. /\ Total(o.conn) = Total(conn[c]) \/ Total(o.conn) = Total(conn[c]) \o x
       /\ Drained(o.conn)
  BY <1>2, <1>6, <1>10, SendInLoopTotal
<1>14. /\ conn'[c] = o.conn /\ \A d \in Conn : d # c => conn'[d] = conn[d]
  BY <1>0, <1>2, <1>5 DEF TypeInv
<1>15. TypeInv'
  BY <1>0, <1>1, <1>2, <1>a, <1>12 DEF TypeInv
<1>16. PoolOK'
  BY <1>0, <1>1, <1>7, <1>9 DEF PoolOK, OneLine, Good
<1>17. ASSUME NEW d \in Conn
       PROVE  /\ Connected(d)' = Connected(d) /\ Drained(conn'[d])
              /\ conn'[d].fin = conn[d].fin
              /\ Output(d)' = Output(d) \/ (d = c /\ Output(d)' = Output(d) \o x)
  <2>1. CASE d = c
    BY <1>12, <1>13, <1>14, <2>1 DEF Output, Total, Connected
  <2>2. CASE d # c
    BY <1>14, <2>2 DEF IInv, ConnOK, Output, Connected
  <2>3. QED
    BY <2>1, <2>2
<1>18. ASSUME NEW d \in Conn PROVE OutputOK(d)'
  <2>1. OutputOK(d)
    BY DEF IInv
  <2>2. CASE Output(d)' = Output(d)
    BY <1>1, <1>7, <1>17, <2>1, <2>2 DEF OutputOK, OneLine, Good
  <2>3. CASE d = c /\ Output(d)' = Output(d) \o x
    <3> DEFINE s == Output(c)
               n == Output(c)'
    <3>1. s \in Seq(Units) /\ Len(s) \in Nat /\ \A i \in 1..Len(s) : s[i] \in Nat
      <4>1. s \in Seq(Units)
        BY <1>10, ConcatProperties DEF Output, Connection
      <4>2. QED
        BY <4>1, LenProperties DEF Units
    <3>2. /\ UnitsOK(OneLine, s) /\ (IsIn(0, s) => ~Connected(c))
          /\ \A i \in 1..Len(s) : s[i] # 0 =>
               /\ s[i] <= used[c] /\ Good(c, s[i])
               /\ \A r \in Task : UnderWay(r, functors, worker, tasks) =>
                    Before(OneLine, AsTask(c, s[i]), r)
      BY <1>10 DEF OutputOK
    <3>3. n = s \o x
      BY <2>3
    <3> HIDE DEF s, n
    <3>4. ASSUME NEW i \in 1..Len(s)
          PROVE  s[i] # t.line /\ (OneLine /\ s[i] # 0 /\ t.line # 0 => s[i] < t.line)
      <4>1. CASE s[i] # 0
        <5>1. Before(OneLine, AsTask(c, s[i]), AsTask(c, t.line))
          BY <1>4, <1>5, <1>7, <3>2, <4>1
        <5>2. QED
          BY <5>1 DEF Before, AsTask
      <4>2. CASE s[i] = 0
        BY <1>5, <4>2
      <4>3. QED
        BY <4>1, <4>2
    <3>5. /\ UnitsOK(OneLine, n) /\ n \in Seq(Units) /\ Len(n) = Len(s) + 1
          /\ \A i \in 1..Len(s) : n[i] = s[i]
          /\ n[Len(s) + 1] = t.line
      BY <1>5, <1>6, <3>1, <3>2, <3>3, <3>4, UnitAtEnd, SMTT(30)
    <3>6. ASSUME NEW i \in 1..Len(n) PROVE i \in 1..Len(s) \/ i = Len(s) + 1
      BY <3>1, <3>5
    <3>7. ASSUME NEW i \in 1..Len(n), n[i] # 0
          PROVE  /\ n[i] <= used[c] /\ Good(c, n[i])
                 /\ \A r \in Task : UnderWay(r, functors', worker, tasks) =>
                      Before(OneLine, AsTask(c, n[i]), r)
      <4>1. CASE i \in 1..Len(s)
        BY <1>7, <3>2, <3>5, <3>7, <4>1
      <4>2. CASE i = Len(s) + 1
        BY <1>5, <1>7, <1>8, <3>5, <4>2
      <4>3. QED
        BY <3>6, <4>1, <4>2
    <3>8. IsIn(0, n) => IsIn(0, s)
      BY <1>5, <3>5, <3>6 DEF IsIn
    <3>9. OutputOK(c)'
      BY <1>1, <1>5, <1>17, <3>2, <3>5, <3>7, <3>8 DEF OutputOK, OneLine, Good, n
    <3>10. QED
      BY <2>3, <3>9
  <2>4. QED
    BY <1>17, <2>2, <2>3
<1>19. ASSUME NEW d \in Conn PROVE ConnOK(d)' /\ AnsweredOK(d)'
  <2>1. ConnOK(d)'
    BY <1>1, <1>17 DEF IInv, ConnOK, Good, Bytes
  <2>2. AnsweredOK(d)'
    BY <1>1, <1>9 DEF AnsweredOK
  <2>3. QED
    BY <2>1, <2>2
<1>20. ASSUME NEW d \in Conn PROVE TakenOK(d)'
  <2>1. conn'[d].state = conn[d].state
    BY <1>12, <1>14
  <2>2. QED
    BY <1>1, <1>17, <2>1, TakenKept DEF IInv
<1>21. QED
  BY <1>15, <1>16, <1>18, <1>19, <1>20 DEF IInv
-----------------------------------------------------------------------------
(* The loop reads.                                                         *)

\* A further run of answers.
LEMMA UpToConcat ==
  ASSUME NEW m \in Nat, NEW us \in Seq(Units), \A i \in 1..Len(us) : us[i] = m + i
  PROVE  /\ UpTo(m) \in Seq(Units) /\ UpTo(m) \o us = UpTo(m + Len(us))
         /\ \A k \in Nat : UpTo(k) \in Seq(Units)
<1> DEFINE p == UpTo(m)
           r == p \o us
           t == UpTo(m + Len(us))
<1>1. Len(us) \in Nat
  BY LenProperties
<1>2. ASSUME NEW k \in Nat
      PROVE  UpTo(k) \in Seq(Units) /\ Len(UpTo(k)) = k /\ \A i \in 1..k : UpTo(k)[i] = i
  BY DEF UpTo, Units
<1>3. /\ t \in Seq(Units) /\ Len(t) = m + Len(us)
      /\ \A i \in 1..(m + Len(us)) : t[i] = i
  BY <1>1, <1>2
<1>a. p \in Seq(Units) /\ Len(p) = m /\ \A i \in 1..m : p[i] = i
  BY <1>2
<1> HIDE DEF p
<1>4. /\ r \in Seq(Units) /\ Len(r) = m + Len(us)
      /\ \A i \in 1..(m + Len(us)) : r[i] = IF i <= m THEN p[i] ELSE us[i - m]
  BY <1>1, <1>a, ConcatProperties
<1> HIDE DEF r, t
<1>5. ASSUME NEW i \in 1..(m + Len(us)) PROVE r[i] = t[i]
  <2>1. CASE i <= m
    BY <1>1, <1>a, <1>3, <1>4, <2>1
  <2>2. CASE i > m
    <3>1. i - m \in 1..Len(us) /\ m + (i - m) = i
      BY <1>1, <2>2
    <3>2. us[i - m] = i
      BY <3>1
    <3>3. QED
      BY <1>3, <1>4, <2>2, <3>2
  <2>3. QED
    BY <1>1, <2>1, <2>2
<1>6. r = t
  BY <1>3, <1>4, <1>5, SeqEqual
<1>7. QED
  BY <1>2, <1>6 DEF r, t, p

\* What a call of onMessage accepts, hands to the pool or answers, and what
\* it makes of the connection.
Read(c, g, n, lg, us, ns, r) ==
  /\ n \in Nat /\ lg \in Nat /\ used[c] <= lg /\ lg <= n /\ n <= Len(sent[c])
  /\ lg # n => Rejects(c, g, n)
  /\ \A i \in (used[c] + 1)..lg : Good(c, i)
  /\ StopsAfter(c, g, n) /\ \A m \in used[c]..(n - 1) : ~StopsAfter(c, g, m)
  /\ us \in Seq(Units) /\ Len(us) = IF pool = {} THEN lg - used[c] ELSE 0
  /\ \A i \in 1..Len(us) : us[i] = used[c] + i
  /\ ns \in Seq(Task) /\ Len(ns) = IF pool = {} THEN 0 ELSE lg - used[c]
  /\ \A i \in 1..Len(ns) : ns[i] = AsTask(c, used[c] + i)
  /\ Told(conn[c], r, us, Rejects(c, g, n), Gone(c))
  /\ got' = [got EXCEPT ![c] = g]
  /\ used' = [used EXCEPT ![c] = n]
  /\ tasks' = tasks \o ns
  /\ conn' = [conn EXCEPT ![c] = r]
  /\ UNCHANGED <<pool, peer, sent, worker, functors>>

LEMMA OnMessageReads ==
  ASSUME IInv, NEW c \in Conn, NEW g \in Nat, OnMessage(c, g)
  PROVE  \E n, lg, us, ns, r : Read(c, g, n, lg, us, ns, r)
<1>1. /\ TypeInv /\ used[c] <= Len(sent[c]) /\ used[c] \in Nat /\ Len(sent[c]) \in Nat
  BY LenProperties DEF IInv, ConnOK, TypeInv
<1>2. PICK n : n = LastLine(c, g)
  OBVIOUS
<1>3. PICK lg : lg = LastGood(c, n)
  OBVIOUS
<1>4. PICK a : a = Accepted(c, n)
  OBVIOUS
<1>5. /\ n \in used[c]..Len(sent[c]) /\ lg \in used[c]..n
      /\ a \in Seq(Nat \ {0}) /\ Len(a) = lg - used[c]
      /\ \A i \in 1..Len(a) : a[i] = used[c] + i /\ Good(c, used[c] + i)
      /\ lg = n \/ (lg = n - 1 /\ Rejects(c, g, n))
  BY <1>1, <1>2, <1>3, <1>4, AcceptedLines
<1>6. n \in Nat /\ lg \in Nat /\ used[c] <= lg /\ lg <= n /\ n <= Len(sent[c])
  BY <1>1, <1>5
<1>7. ASSUME NEW i \in (used[c] + 1)..lg PROVE Good(c, i)
  <2>1. i - used[c] \in 1..Len(a) /\ used[c] + (i - used[c]) = i
    BY <1>1, <1>5, <1>6, SMTT(30)
  <2>2. QED
    BY <1>5, <2>1
<1>8. PICK us : us = Answer(c, n)
  OBVIOUS
<1>9. /\ us \in Seq(Units) /\ Len(us) = IF pool = {} THEN lg - used[c] ELSE 0
      /\ \A i \in 1..Len(us) : us[i] = used[c] + i
  <2>1. CASE pool = {}
    <3>1. us = a
      BY <1>4, <1>8, <2>1 DEF Answer
    <3>2. a \in Seq(Units)
      BY <1>5 DEF Units
    <3>3. QED
      BY <1>5, <2>1, <3>1, <3>2
  <2>2. CASE pool # {}
    <3>1. us = <<>>
      BY <1>8, <2>2 DEF Answer
    <3>2. QED
      BY <2>2, <3>1, EmptySeq
  <2>3. QED
    BY <2>1, <2>2
<1>10. PICK ns : ns = Dispatch(c, n)
  OBVIOUS
<1>11. /\ ns \in Seq(Task) /\ Len(ns) = IF pool = {} THEN 0 ELSE lg - used[c]
       /\ \A i \in 1..Len(ns) : ns[i] = AsTask(c, used[c] + i)
  <2>1. CASE pool # {}
    <3>1. ns = [i \in 1..Len(a) |-> AsTask(c, a[i])]
      BY <1>4, <1>5, <1>10, <2>1, LenProperties DEF Dispatch, AsTask
    <3>2. Len(a) \in Nat /\ \A i \in 1..Len(a) : AsTask(c, a[i]) \in Task
      BY <1>5, LenProperties DEF AsTask, Task
    <3>3. /\ ns \in Seq(Task) /\ Len(ns) = Len(a)
          /\ \A i \in 1..Len(a) : ns[i] = AsTask(c, a[i])
      BY <3>1, <3>2
    <3>4. QED
      BY <1>5, <2>1, <3>3
  <2>2. CASE pool = {}
    <3>1. ns = <<>>
      BY <1>10, <2>2 DEF Dispatch
    <3>2. QED
      BY <2>2, <3>1, EmptySeq
  <2>3. QED
    BY <2>1, <2>2
<1>12. PICK q \in SendAll(conn[c], us, Gone(c)) :
         \E r \in (IF Rejects(c, g, n) THEN Tell(q, Gone(c)) ELSE {q}) :
           conn' = [conn EXCEPT ![c] = r]
  BY <1>2, <1>8, Zenon DEF OnMessage
<1>13. PICK r \in (IF Rejects(c, g, n) THEN Tell(q, Gone(c)) ELSE {q}) :
         conn' = [conn EXCEPT ![c] = r]
  BY <1>12
<1>14. Told(conn[c], r, us, Rejects(c, g, n), Gone(c))
  <2>1. conn[c] \in Connection(Units) /\ Drained(conn[c])
        /\ (conn[c].state = "kConnected" => ~conn[c].fin)
    BY <1>1 DEF IInv, ConnOK, Connected, TypeInv
  <2>2. \A i, j \in 1..Len(us) : i < j => us[i] < us[j]
    <3>1. Len(us) \in Nat
      BY <1>9, LenProperties
    <3>2. QED
      BY <1>1, <1>9, <3>1
  <2>3. QED
    BY <1>9, <1>12, <1>13, <2>1, <2>2, MessageOutcome
<1>15. StopsAfter(c, g, n) /\ \A m \in used[c]..(n - 1) : ~StopsAfter(c, g, m)
  BY <1>1, <1>2, LastLineStops
<1>16. /\ got' = [got EXCEPT ![c] = g]
       /\ used' = [used EXCEPT ![c] = n]
       /\ tasks' = tasks \o ns
       /\ UNCHANGED <<pool, peer, sent, worker, functors>>
  BY <1>2, <1>10 DEF OnMessage
<1>17. lg # n => Rejects(c, g, n)
  BY <1>5
<1>18. Read(c, g, n, lg, us, ns, r)
  BY <1>6, <1>7, <1>9, <1>11, <1>13, <1>14, <1>15, <1>16, <1>17 DEF Read
<1>19. QED
  BY <1>18

\* The pipeline afterwards.
LEMMA ReadPool ==
  ASSUME IInv, NEW c \in Conn, NEW g \in Nat, NEW n, NEW lg, NEW us, NEW ns, NEW r,
         Read(c, g, n, lg, us, ns, r)
  PROVE  /\ TypeInv' /\ PoolOK'
         /\ \A t \in Task : UnderWay(t, functors', worker', tasks') =>
              \/ UnderWay(t, functors, worker, tasks)
              \/ t.conn = c /\ t.line > used[c]
<1>1. TypeInv /\ PoolOK /\ used[c] \in Nat
  BY DEF IInv, TypeInv
<1>2. /\ worker \in Threads /\ tasks \in Seq(Task) /\ functors \in Seq(Task)
      /\ Pipeline(OneLine, functors, worker, tasks)
  BY <1>1 DEF TypeInv, PoolOK, Threads
<1>3. /\ ns \in Seq(Task) /\ \A i \in 1..Len(ns) : ns[i] = AsTask(c, used[c] + i)
      /\ tasks' = tasks \o ns
      /\ UNCHANGED <<pool, peer, sent, worker, functors>>
  BY DEF Read
<1>4. \A t \in Task : UnderWay(t, functors, worker, tasks) /\ t.conn = c => t.line <= used[c]
  BY <1>1 DEF PoolOK
<1>5. /\ Pipeline(OneLine, functors, worker, tasks \o ns)
      /\ \A t : UnderWay(t, functors, worker, tasks \o ns) =>
           UnderWay(t, functors, worker, tasks) \/ IsIn(t, ns)
  BY <1>1, <1>2, <1>3, <1>4, DispatchMoves
<1>6. ASSUME NEW t, IsIn(t, ns)
      PROVE  t.conn = c /\ t.line > used[c] /\ t.line <= lg /\ Good(c, t.line)
  <2>1. PICK i \in 1..Len(ns) : t = AsTask(c, used[c] + i)
    BY <1>3, <1>6 DEF IsIn
  <2>2. Len(ns) \in Nat /\ Len(ns) <= lg - used[c] /\ lg \in Nat /\ used[c] <= lg
    BY LenProperties DEF Read
  <2>3. used[c] + i \in (used[c] + 1)..lg /\ used[c] + i > used[c] /\ used[c] + i <= lg
    BY <1>1, <2>2
  <2>4. Good(c, used[c] + i)
    BY <2>3 DEF Read
  <2>5. QED
    BY <2>1, <2>3, <2>4 DEF AsTask
<1>7. TypeInv'
  <2>1. tasks' \in Seq(Task)
    BY <1>2, <1>3, ConcatProperties
  <2>2. r \in Connection(Units) /\ n \in Nat
    BY DEF Read, Told
  <2>3. conn' = [conn EXCEPT ![c] = r] /\ got' = [got EXCEPT ![c] = g]
        /\ used' = [used EXCEPT ![c] = n]
    BY DEF Read
  <2>4. QED
    BY <1>1, <1>3, <2>1, <2>2, <2>3 DEF TypeInv
<1>8. PoolOK'
  <2>1. ASSUME NEW t \in Task, UnderWay(t, functors, worker, tasks')
        PROVE  t.line <= used'[t.conn] /\ Good(t.conn, t.line)
    <3>1. used' = [used EXCEPT ![c] = n] /\ n \in Nat /\ used[c] <= n /\ lg <= n /\ lg \in Nat
      BY <1>1 DEF Read
    <3>2. t.conn \in Conn /\ t.line \in Nat /\ used \in [Conn -> Nat]
      BY <1>1 DEF Task, TypeInv
    <3>3. CASE UnderWay(t, functors, worker, tasks)
      <4>1. t.line <= used[t.conn] /\ Good(t.conn, t.line)
        BY <1>1, <3>3 DEF PoolOK
      <4>2. QED
        BY <3>1, <3>2, <4>1
    <3>4. CASE IsIn(t, ns)
      BY <1>6, <3>1, <3>2, <3>4
    <3>5. QED
      BY <1>3, <1>5, <2>1, <3>3, <3>4
  <2>2. pool = {} => tasks' = <<>>
    <3>1. ASSUME pool = {} PROVE tasks' = <<>>
      <4>1. tasks = <<>> /\ Len(ns) = 0
        BY <1>1, <3>1 DEF PoolOK, Read
      <4>2. ns = <<>>
        BY <1>3, <4>1, EmptySeq
      <4>3. QED
        BY <1>3, <4>1, <4>2, ConcatEmptySeq, EmptySeq, Zenon
    <3>2. QED
      BY <3>1
  <2>3. Pipeline(OneLine, functors, worker, tasks')
    BY <1>3, <1>5
  <2>4. QED
    BY <1>1, <1>3, <2>1, <2>2, <2>3 DEF PoolOK, OneLine, Good
<1>9. QED
  BY <1>3, <1>5, <1>6, <1>7, <1>8

\* What was sent afterwards.
LEMMA ReadOutput ==
  ASSUME IInv, NEW c \in Conn, NEW g \in Nat, NEW n, NEW lg, NEW us, NEW ns, NEW r,
         Read(c, g, n, lg, us, ns, r), NEW d \in Conn
  PROVE  OutputOK(d)'
<1>1. /\ TypeInv /\ OutputOK(d) /\ OutputOK(c) /\ used \in [Conn -> Nat]
  BY DEF IInv, TypeInv
<1>2. /\ n \in Nat /\ used[c] <= lg /\ lg <= n /\ lg \in Nat /\ used' = [used EXCEPT ![c] = n]
      /\ \A i \in (used[c] + 1)..lg : Good(c, i)
      /\ conn' = [conn EXCEPT ![c] = r]
      /\ UNCHANGED <<pool, peer, sent, worker, functors>>
  BY DEF Read
<1>3. \A t \in Task : UnderWay(t, functors', worker', tasks') =>
         \/ UnderWay(t, functors, worker, tasks)
         \/ t.conn = c /\ t.line > used[c]
  BY ReadPool
<1>4. \A e \in Conn : Output(e) \in Seq(Units)
  BY <1>1, ConcatProperties DEF Output, TypeInv, Connection
<1>5. ASSUME NEW e \in Conn, NEW i \in 1..Len(Output(e)), Output(e)[i] # 0
      PROVE  /\ Output(e)[i] \in Nat
             /\ Output(e)[i] <= used[e] /\ Output(e)[i] <= used'[e] /\ Good(e, Output(e)[i])
             /\ \A t \in Task : UnderWay(t, functors', worker', tasks') =>
                  Before(OneLine, AsTask(e, Output(e)[i]), t)
  <2> DEFINE u == Output(e)[i]
  <2>1. u \in Nat
    BY <1>4, LenProperties DEF Units
  <2>2. /\ u <= used[e] /\ Good(e, u)
        /\ \A t \in Task : UnderWay(t, functors, worker, tasks) =>
             Before(OneLine, AsTask(e, u), t)
    BY <1>5 DEF IInv, OutputOK
  <2> HIDE DEF u
  <2>3. u <= used'[e]
    BY <1>1, <1>2, <2>1, <2>2
  <2>4. ASSUME NEW t \in Task, t.conn = c, t.line > used[c]
        PROVE  Before(OneLine, AsTask(e, u), t)
    <3>1. t.line \in Nat /\ used[c] \in Nat
      BY <1>1 DEF Task
    <3>2. AsTask(e, u).conn = e /\ AsTask(e, u).line = u
      BY DEF AsTask
    <3>3. e = c => u < t.line
      BY <2>1, <2>2, <2>4, <3>1
    <3>4. QED
      BY <2>1, <2>4, <3>1, <3>2, <3>3 DEF Before
  <2>5. QED
    BY <1>3, <2>1, <2>2, <2>3, <2>4 DEF u
<1>6. CASE Output(d)' = Output(d) /\ (Connected(d)' => Connected(d))
  <2>1. \A i \in 1..Len(Output(d)) : Output(d)[i] # 0 => Good(d, Output(d)[i])'
    BY <1>2, <1>5, <1>6 DEF Good
  <2>2. QED
    BY <1>1, <1>2, <1>5, <1>6, <2>1 DEF OutputOK, OneLine
<1>7. CASE d # c
  BY <1>1, <1>2, <1>6, <1>7 DEF Output, Connected, TypeInv
<1>8. CASE d = c /\ conn[c].state # "kConnected"
  <2>1. r = conn[c]
    BY <1>8 DEF Read, Told
  <2>2. conn' = conn
    BY <1>1, <1>2, <2>1 DEF TypeInv
  <2>3. QED
    BY <1>6, <2>2 DEF Output, Connected
<1>9. CASE d = c /\ conn[c].state = "kConnected"
  <2> DEFINE s == Output(c)
             z == Output(c)'
  <2>1. PICK x : /\ Picked(x, us, Len(us))
                 /\ \/ Total(r) = Total(conn[c]) \o x
                    \/ Total(r) = (Total(conn[c]) \o x) \o <<0>> /\ r.state # "kConnected"
    BY <1>9 DEF Read, Told
  <2>2. /\ z = s \o x \/ (z = (s \o x) \o <<0>> /\ ~Connected(c)')
    BY <1>1, <1>2, <2>1 DEF Total, Output, Connected, TypeInv
  <2>3. /\ s \in Seq(Units) /\ Len(s) \in Nat /\ UnitsOK(OneLine, s)
        /\ \A i \in 1..Len(s) : s[i] \in Nat /\ s[i] # 0 /\ s[i] <= used[c]
    <3>1. s \in Seq(Units) /\ Len(s) \in Nat /\ \A i \in 1..Len(s) : s[i] \in Nat
      BY <1>4, LenProperties DEF Units
    <3>2. UnitsOK(OneLine, s) /\ ~IsIn(0, s)
      BY <1>1, <1>9 DEF OutputOK, Connected
    <3>3. QED
      BY <1>5, <3>1, <3>2 DEF IsIn
  <2>4. /\ x \in Seq(Units) /\ Len(x) \in Nat
        /\ \A j \in 1..Len(x) : /\ pool = {} /\ x[j] \in Nat
                                /\ used[c] < x[j] /\ x[j] <= lg /\ Good(c, x[j])
        /\ UnitsOK(OneLine, x)
    <3>1. x \in Seq(Units) /\ Len(x) \in Nat /\ UnitsOK(OneLine, x)
      <4>1. x \in Seq(Units) /\ Len(x) \in Nat /\ \A j \in 1..Len(x) : x[j] \in Nat
        BY <2>1, LenProperties DEF Picked, Units
      <4>2. \A i, j \in 1..Len(x) : i < j => x[i] < x[j]
        BY <2>1 DEF Picked
      <4>3. QED
        BY <4>1, <4>2 DEF UnitsOK
    <3>2. ASSUME NEW j \in 1..Len(x)
          PROVE  /\ pool = {} /\ x[j] \in Nat
                 /\ used[c] < x[j] /\ x[j] <= lg /\ Good(c, x[j])
      <4>1. PICK m \in 1..Len(us) : x[j] = us[m]
        BY <2>1 DEF Picked
      <4>2. pool = {} /\ us[m] = used[c] + m /\ Len(us) = lg - used[c]
        <5>1. /\ Len(us) = IF pool = {} THEN lg - used[c] ELSE 0
              /\ us[m] = used[c] + m
          BY Zenon DEF Read
        <5>2. Len(us) # 0
          OBVIOUS
        <5>3. QED
          BY <5>1, <5>2
      <4>3. x[j] \in (used[c] + 1)..lg
        BY <1>1, <1>2, <4>1, <4>2
      <4>4. QED
        BY <1>1, <1>2, <4>2, <4>3
    <3>3. QED
      BY <3>1, <3>2
  <2> DEFINE y == s \o x
  <2> HIDE DEF s, z
  <2>5. /\ y \in Seq(Units) /\ Len(y) \in Nat /\ Len(y) = Len(s) + Len(x)
        /\ \A i \in 1..(Len(s) + Len(x)) : y[i] = IF i <= Len(s) THEN s[i] ELSE x[i - Len(s)]
    BY <2>3, <2>4, ConcatProperties, LenProperties
  <2>6. UnitsOK(OneLine, y)
    <3>1. \A i \in 1..Len(s) : \A j \in 1..Len(x) :
            s[i] # x[j] /\ (OneLine /\ s[i] # 0 /\ x[j] # 0 => s[i] < x[j])
      BY <1>1, <2>3, <2>4
    <3>2. QED
      BY <2>3, <2>4, <3>1, UnitsConcat
  <2>7. ASSUME NEW i \in 1..Len(y)
        PROVE  \/ i \in 1..Len(s) /\ y[i] = s[i]
               \/ i - Len(s) \in 1..Len(x) /\ y[i] = x[i - Len(s)]
    BY <2>3, <2>4, <2>5
  <2> HIDE DEF y
  <2>8. pool = {} => \A t \in Task : ~UnderWay(t, functors', worker', tasks')
    <3>1. PoolOK'
      BY ReadPool
    <3>2. QED
      BY <1>2, <3>1, EmptySeq DEF PoolOK, UnderWay, IsIn
  <2>9. ASSUME NEW i \in 1..Len(y)
        PROVE  /\ y[i] \in Nat /\ y[i] # 0 /\ y[i] <= n /\ Good(c, y[i])
               /\ \A t \in Task : UnderWay(t, functors', worker', tasks') =>
                    Before(OneLine, AsTask(c, y[i]), t)
    <3>1. CASE i \in 1..Len(s) /\ y[i] = s[i]
      <4>1. y[i] \in Nat /\ y[i] # 0 /\ y[i] <= n
        BY <1>1, <1>2, <2>3, <3>1
      <4>2. /\ Good(c, s[i])
            /\ \A t \in Task : UnderWay(t, functors', worker', tasks') =>
                 Before(OneLine, AsTask(c, s[i]), t)
        BY <1>5, <2>3, <3>1 DEF s
      <4>3. QED
        BY <3>1, <4>1, <4>2
    <3>2. CASE i - Len(s) \in 1..Len(x) /\ y[i] = x[i - Len(s)]
      BY <1>1, <1>2, <2>4, <2>8, <3>2
    <3>3. QED
      BY <2>7, <3>1, <3>2
  <2>10. ASSUME UnitsOK(OneLine, z), IsIn(0, z) => ~Connected(c)',
                \A i \in 1..Len(z) : z[i] = 0 \/ IsIn(z[i], y)
         PROVE  OutputOK(c)'
    <3>1. used'[c] = n
      BY <1>1, <1>2
    <3>2. ASSUME NEW i \in 1..Len(z), z[i] # 0
          PROVE  /\ z[i] <= n /\ Good(c, z[i])
                 /\ \A t \in Task : UnderWay(t, functors', worker', tasks') =>
                      Before(OneLine, AsTask(c, z[i]), t)
      BY <2>9, <2>10, <3>2 DEF IsIn
    <3>3. QED
      BY <1>2, <2>10, <3>1, <3>2 DEF OutputOK, OneLine, Good, z
  <2>11. CASE z = y
    <3>1. ~IsIn(0, y)
      BY <2>9 DEF IsIn
    <3>2. \A i \in 1..Len(y) : IsIn(y[i], y)
      BY DEF IsIn
    <3>3. QED
      BY <1>9, <2>6, <2>10, <2>11, <3>1, <3>2
  <2>12. CASE z = y \o <<0>> /\ ~Connected(c)'
    <3> DEFINE o == <<0>>
    <3>1. o \in Seq(Units) /\ Len(o) = 1 /\ o[1] = 0 /\ 0 \in Units
      BY DEF Units
    <3> HIDE DEF o
    <3>2. \A i \in 1..Len(y) : y[i] # 0 /\ (OneLine /\ y[i] # 0 /\ 0 # 0 => y[i] < 0)
      BY <2>9
    <3>3. /\ UnitsOK(OneLine, y \o o) /\ Len(y \o o) = Len(y) + 1
          /\ \A i \in 1..Len(y) : (y \o o)[i] = y[i]
          /\ (y \o o)[Len(y) + 1] = 0
      BY <2>5, <2>6, <3>1, <3>2, UnitAtEnd
    <3>4. z = y \o o
      BY <2>12 DEF o
    <3>5. \A i \in 1..Len(z) : z[i] = 0 \/ IsIn(z[i], y)
      <4>1. ASSUME NEW i \in 1..Len(z) PROVE z[i] = 0 \/ IsIn(z[i], y)
        <5>1. i \in 1..Len(y) \/ i = Len(y) + 1
          BY <2>5, <3>3, <3>4
        <5>2. QED
          BY <3>3, <3>4, <5>1 DEF IsIn
      <4>2. QED
        BY <4>1
    <3>6. QED
      BY <1>9, <2>10, <2>12, <3>3, <3>4, <3>5
  <2>13. QED
    BY <2>2, <2>11, <2>12 DEF y, s, z
<1>10. QED
  BY <1>7, <1>8, <1>9

\* The buffer and the state of the connection afterwards.
LEMMA ReadConn ==
  ASSUME IInv, NEW c \in Conn, NEW g \in Nat, g <= Bytes(c, Len(sent[c])),
         NEW n, NEW lg, NEW us, NEW ns, NEW r,
         Read(c, g, n, lg, us, ns, r), NEW d \in Conn
  PROVE  ConnOK(d)' /\ (d # c => Connected(d)' = Connected(d))
<1>1. /\ TypeInv /\ ConnOK(d) /\ ConnOK(c) /\ used[c] \in Nat /\ used \in [Conn -> Nat]
  BY DEF IInv, TypeInv
<1>2. /\ n \in Nat /\ used[c] <= lg /\ lg <= n /\ lg \in Nat /\ n <= Len(sent[c])
      /\ \A i \in (used[c] + 1)..lg : Good(c, i)
      /\ lg # n => Rejects(c, g, n)
      /\ conn' = [conn EXCEPT ![c] = r] /\ used' = [used EXCEPT ![c] = n]
      /\ got' = [got EXCEPT ![c] = g]
      /\ UNCHANGED <<pool, peer, sent, worker, functors>>
      /\ Told(conn[c], r, us, Rejects(c, g, n), Gone(c))
  BY DEF Read
<1>3. CASE d # c
  <2>1. conn'[d] = conn[d] /\ used'[d] = used[d] /\ got'[d] = got[d]
    BY <1>1, <1>2, <1>3 DEF TypeInv
  <2>2. QED
    BY <1>1, <1>2, <2>1 DEF ConnOK, Connected, Good, Bytes
<1>4. CASE d = c
  <2>1. conn'[c] = r /\ used'[c] = n /\ got'[c] = g
    BY <1>1, <1>2 DEF TypeInv
  <2>2. /\ Drained(r)
        /\ r.state = "kConnected" => Connected(c) /\ ~r.fin /\ lg = n
    BY <1>2 DEF Told, Connected
  <2>3. ASSUME r.state = "kConnected", NEW i \in 1..n PROVE Good(c, i)
    <3>1. CASE i <= used[c]
      BY <1>1, <2>2, <2>3, <3>1 DEF ConnOK
    <3>2. CASE i > used[c]
      BY <1>1, <1>2, <2>2, <2>3, <3>2
    <3>3. QED
      BY <1>1, <3>1, <3>2
  <2>4. QED
    BY <1>1, <1>2, <1>4, <2>1, <2>2, <2>3 DEF ConnOK, Connected, Good, Bytes
<1>5. QED
  BY <1>3, <1>4

\* basic.cc: the answers afterwards.
LEMMA ReadAnswered ==
  ASSUME IInv, NEW c \in Conn, NEW g \in Nat, NEW n, NEW lg, NEW us, NEW ns, NEW r,
         Read(c, g, n, lg, us, ns, r), NEW d \in Conn
  PROVE  AnsweredOK(d)'
<1>1. /\ TypeInv /\ AnsweredOK(d) /\ AnsweredOK(c)
      /\ used[c] \in Nat /\ used \in [Conn -> Nat]
  BY DEF IInv, TypeInv
<1>2. /\ n \in Nat /\ used[c] <= lg /\ lg <= n /\ lg \in Nat
      /\ \A i \in (used[c] + 1)..lg : Good(c, i)
      /\ lg # n => Rejects(c, g, n)
      /\ conn' = [conn EXCEPT ![c] = r] /\ used' = [used EXCEPT ![c] = n]
      /\ UNCHANGED <<pool, peer, sent, worker, functors>>
      /\ Told(conn[c], r, us, Rejects(c, g, n), Gone(c))
      /\ us \in Seq(Units) /\ Len(us) = IF pool = {} THEN lg - used[c] ELSE 0
      /\ \A i \in 1..Len(us) : us[i] = used[c] + i
  BY DEF Read
<1> SUFFICES ASSUME pool = {}, ~Gone(d) PROVE \E m \in 0..used'[d] : Answered(d, m)'
  BY <1>2 DEF AnsweredOK, Gone
<1>3. PICK m \in 0..used[d] : Answered(d, m)
  BY DEF AnsweredOK, IInv
<1>4. used[d] <= used'[d] /\ used'[d] \in Nat /\ used[d] \in Nat /\ m \in 0..used'[d]
  BY <1>1, <1>2
<1>5. CASE d # c
  <2>1. conn'[d] = conn[d] /\ used'[d] = used[d]
    BY <1>1, <1>2, <1>5 DEF TypeInv
  <2>2. Answered(d, m)'
    BY <1>2, <1>3, <2>1 DEF Answered, Good, Output, Connected
  <2>3. QED
    BY <1>4, <2>2
<1>6. CASE d = c /\ conn[c].state # "kConnected"
  <2>1. conn'[c] = conn[c]
    BY <1>1, <1>2, <1>6 DEF Told, TypeInv
  <2>2. Answered(d, m)'
    BY <1>2, <1>3, <1>6, <2>1 DEF Answered, Good, Output, Connected
  <2>3. QED
    BY <1>4, <2>2
<1>7. CASE d = c /\ conn[c].state = "kConnected"
  <2>1. m = used[c] /\ Output(c) = UpTo(used[c]) /\ \A i \in 1..used[c] : Good(c, i)
    BY <1>3, <1>7 DEF Answered, Connected
  <2>2. /\ r.state = "kConnected" => ~Rejects(c, g, n)
        /\ \/ Total(r) = Total(conn[c]) \o us
           \/ Total(r) = (Total(conn[c]) \o us) \o <<0>> /\ r.state # "kConnected"
    BY <1>2, <1>7 DEF Told
  <2>3. conn'[c] = r /\ used'[c] = n
    BY <1>1, <1>2 DEF TypeInv
  <2>4. /\ Total(conn[c]) \o us = UpTo(lg) /\ UpTo(lg) \in Seq(Units)
    <3>1. UpTo(used[c]) \o us = UpTo(used[c] + Len(us)) /\ UpTo(lg) \in Seq(Units)
      BY <1>1, <1>2, UpToConcat
    <3>2. used[c] + Len(us) = lg
      BY <1>1, <1>2
    <3>3. QED
      BY <2>1, <3>1, <3>2 DEF Output, Total
  <2>5. UpTo(lg) \o <<0>> = Append(UpTo(lg), 0)
    <3>1. 0 \in Units
      BY DEF Units
    <3>2. Append(UpTo(lg), 0) = UpTo(lg) \o <<0>>
      BY <2>4, <3>1, AppendIsConcat
    <3>3. QED
      BY <3>2
  <2>6. /\ \/ Output(c)' = UpTo(lg)
           \/ Output(c)' = Append(UpTo(lg), 0) /\ ~Connected(c)'
        /\ Connected(c)' => lg = used'[c]
    BY <1>2, <2>2, <2>3, <2>4, <2>5 DEF Output, Total, Connected
  <2>7. ASSUME NEW i \in 1..lg PROVE Good(c, i)
    <3>1. i <= used[c] => i \in 1..used[c]
      BY <1>1, <1>2
    <3>2. i > used[c] => i \in (used[c] + 1)..lg
      BY <1>1, <1>2
    <3>3. QED
      BY <1>1, <1>2, <2>1, <3>1, <3>2
  <2>8. Answered(c, lg)'
    BY <1>2, <2>6, <2>7 DEF Answered, Good
  <2>9. lg \in 0..used'[c]
    BY <1>2, <2>3
  <2>10. QED
    BY <1>7, <2>8, <2>9
<1>8. QED
  BY <1>5, <1>6, <1>7

LEMMA OnMessageInv ==
  ASSUME IInv, NEW c \in Conn, NEW g \in 1..Bytes(c, Len(sent[c])), OnMessage(c, g)
  PROVE  IInv'
<1>1. /\ TypeInv /\ sent[c] \in Seq(Lines) /\ Len(sent[c]) \in Nat
  BY LenProperties DEF IInv, TypeInv
<1>2. Bytes(c, Len(sent[c])) \in Nat
  BY <1>1, BytesType
<1>3. g \in Nat /\ g <= Bytes(c, Len(sent[c]))
  BY <1>2
<1>4. PICK n, lg, us, ns, r : Read(c, g, n, lg, us, ns, r)
  BY <1>3, OnMessageReads, Zenon
<1>5. TypeInv' /\ PoolOK'
  BY <1>3, <1>4, ReadPool
<1>6. ASSUME NEW d \in Conn PROVE OutputOK(d)' /\ ConnOK(d)' /\ AnsweredOK(d)'
  BY <1>3, <1>4, ReadOutput, ReadConn, ReadAnswered
<1>7. ASSUME NEW d \in Conn PROVE TakenOK(d)'
  <2>1. /\ StopsAfter(c, g, n) /\ \A m \in used[c]..(n - 1) : ~StopsAfter(c, g, m)
        /\ n \in used[c]..Len(sent[c]) /\ n \in Nat /\ used[c] \in Nat /\ used[c] <= n
        /\ got' = [got EXCEPT ![c] = g]
        /\ used' = [used EXCEPT ![c] = n] /\ conn' = [conn EXCEPT ![c] = r]
        /\ sent' = sent /\ Told(conn[c], r, us, Rejects(c, g, n), Gone(c))
    BY <1>1, <1>4 DEF Read, TypeInv
  <2>2. CASE d # c
    <3>1. got'[d] = got[d] /\ used'[d] = used[d] /\ conn'[d] = conn[d]
      BY <1>1, <2>1, <2>2 DEF TypeInv
    <3>2. QED
      BY <2>1, <3>1 DEF IInv, TakenOK, Connected, Due, Good, Bytes
  <2>3. CASE d = c
    <3>1. got'[c] = g /\ used'[c] = n /\ conn'[c] = r /\ TakenOK(c) /\ got[c] < g
      BY <1>1, <2>1 DEF IInv, TypeInv, OnMessage
    <3>2. ASSUME Connected(c)', NEW i \in 1..Len(sent[c]) PROVE i <= n <=> Due(c, i)'
      <4>1. Connected(c) /\ ~Rejects(c, g, n)
        BY <2>1, <3>1, <3>2 DEF Told, Connected
      <4>2. \A j \in 1..Len(sent[c]) : j <= used[c] <=> Due(c, j)
        BY <3>1, <4>1 DEF TakenOK
      <4>3. i <= n <=> Bytes(c, i) <= g /\ g - Bytes(c, i - 1) > KCells + 2
        BY <1>1, <1>3, <2>1, <3>1, <4>1, <4>2, TakesWhatIsDue
      <4>4. QED
        BY <2>1, <3>1, <4>3 DEF Due, Bytes
    <3>3. ASSUME r.state = "kDisconnecting"
          PROVE  \E i \in 1..Len(sent[c]) :
                   \/ i <= n /\ ~Good(c, i)
                   \/ i <= n + 1 /\ sent[c][i].len - 1 > TooLong
      <4>1. CASE Rejects(c, g, n)
        BY <1>1, <1>3, <2>1, <4>1, RejectsBadOrLong
      <4>2. CASE conn[c].state = "kDisconnecting"
        <5>1. PICK i \in 1..Len(sent[c]) : \/ i <= used[c] /\ ~Good(c, i)
                                           \/ i <= used[c] + 1 /\ sent[c][i].len - 1 > TooLong
          BY <3>1, <4>2 DEF TakenOK
        <5>2. (i <= used[c] => i <= n) /\ (i <= used[c] + 1 => i <= n + 1)
          BY <1>1, <2>1
        <5>3. QED
          BY <5>1, <5>2
      <4>3. QED
        BY <2>1, <3>3, <4>1, <4>2 DEF Told
    <3>4. QED
      BY <2>1, <2>3, <3>1, <3>2, <3>3 DEF TakenOK, Good
  <2>4. QED
    BY <2>2, <2>3
<1>8. QED
  BY <1>5, <1>6, <1>7 DEF IInv

LEMMA NextInv == ASSUME IInv, [Next]_vars PROVE IInv'
<1>1. CASE UNCHANGED vars
  <2>1. TypeInv'
    BY <1>1 DEF IInv, TypeInv, vars
  <2>2. PoolOK'
    BY <1>1 DEF IInv, PoolOK, vars, OneLine, Good
  <2>3. ASSUME NEW c \in Conn PROVE OutputOK(c)' /\ ConnOK(c)' /\ AnsweredOK(c)'
    <3>1. OutputOK(c) /\ ConnOK(c) /\ AnsweredOK(c)
      BY DEF IInv
    <3>2. OutputOK(c)'
      BY <1>1, <3>1 DEF OutputOK, vars, OneLine, Good, Output, Connected
    <3>3. ConnOK(c)'
      BY <1>1, <3>1 DEF ConnOK, vars, Good, Connected, Bytes
    <3>4. AnsweredOK(c)'
      BY <1>1, <3>1 DEF AnsweredOK, Answered, vars, Good, Output, Connected, Gone
    <3>5. QED
      BY <3>2, <3>3, <3>4
  <2>4. ASSUME NEW c \in Conn PROVE TakenOK(c)'
    BY <1>1, TakenKept DEF IInv, vars, Connected
  <2>5. QED
    BY <2>1, <2>2, <2>3, <2>4 DEF IInv
<1>2. CASE RunSend
  BY <1>2, RunSendInv
<1>3. ASSUME NEW c \in Conn, OnWritable(c) PROVE IInv'
  BY <1>3, OnWritableInv
<1>4. ASSUME NEW c \in Conn, OnDown(c) PROVE IInv'
  BY <1>4, OnDownInv
<1>5. ASSUME NEW c \in Conn, NEW g \in 1..Bytes(c, Len(sent[c])), OnMessage(c, g)
      PROVE  IInv'
  BY <1>5, OnMessageInv
<1>6. ASSUME NEW c \in Conn, PeerClose(c) PROVE IInv'
  BY <1>6, PeerCloseInv
<1>7. ASSUME NEW c \in Conn, NEW l \in Lines, PeerSend(c, l) PROVE IInv'
  BY <1>7, PeerSendInv
<1>8. ASSUME NEW w \in Workers, WorkerTake(w) PROVE IInv'
  BY <1>8, WorkerTakeInv
<1>9. ASSUME NEW w \in Workers, WorkerCheck(w) PROVE IInv'
  BY <1>9, WorkerCheckInv
<1>10. ASSUME NEW w \in Workers, WorkerPost(w) PROVE IInv'
  BY <1>10, WorkerPostInv
<1>11. QED
  BY <1>1, <1>2, <1>3, <1>4, <1>5, <1>6, <1>7, <1>8, <1>9, <1>10
  DEF Next, Loop, PeerStep, WorkerStep
-----------------------------------------------------------------------------
(* Theorems.                                                               *)

LEMMA Invariance == Spec => []IInv
<1>1. Init => IInv
  BY InitInv
<1>2. IInv /\ [Next]_vars => IInv'
  BY NextInv
<1>3. QED
  BY <1>1, <1>2, PTL DEF Spec

\* The state has its type, and whatever the threads of the pool and the loop
\* do, no request is under way in two places; with one thread the requests of
\* a connection are under way in their order.
THEOREM PoolKeepsOrder == Spec => [](TypeInv /\ PoolOK)
<1>1. IInv => TypeInv /\ PoolOK
  BY DEF IInv
<1>2. QED
  BY <1>1, Invariance, PTL

\* Which lines of a connected client were taken depends on how many bytes
\* came, not on how they were cut, and onMessage ends a conversation only
\* over a bad line or one that is longer than the limit.
THEOREM CutsDoNotMatter == Spec => []CutsMatterOnlyToLongLines
<1>1. IInv => CutsMatterOnlyToLongLines
  BY DEF IInv, ConnOK, TakenOK, CutsMatterOnlyToLongLines
<1>2. QED
  BY <1>1, Invariance, PTL

\* Without a pool, or with one thread, the answers to the requests of a
\* connection leave in the order of the requests.
THEOREM OneThreadKeepsOrder == Spec => []AnswersInOrder
<1>1. ASSUME IInv PROVE AnswersInOrder
  <2>1. ASSUME OneLine, NEW c \in Conn, NEW i \in DOMAIN Output(c), NEW j \in DOMAIN Output(c),
               i < j, Output(c)[i] # 0, Output(c)[j] # 0
        PROVE  Output(c)[i] < Output(c)[j]
    <3>1. Output(c) \in Seq(Units)
      BY <1>1, ConcatProperties DEF Output, IInv, TypeInv, Connection
    <3>2. i \in 1..Len(Output(c)) /\ j \in 1..Len(Output(c))
      BY <3>1, LenProperties
    <3>3. UnitsOK(OneLine, Output(c))
      BY <1>1 DEF IInv, OutputOK
    <3>4. QED
      BY <2>1, <3>2, <3>3 DEF UnitsOK
  <2>2. QED
    BY <2>1 DEF AnswersInOrder, OneLine
<1>2. QED
  BY <1>1, Invariance, PTL

\* How often a value is in a sequence without repetition.
LEMMA OccursOnce ==
  ASSUME NEW one, NEW s \in Seq(Units), UnitsOK(one, s), NEW u
  PROVE  /\ Cardinality({j \in DOMAIN s : s[j] = u}) <= 1
         /\ IsIn(u, s) => Cardinality({j \in DOMAIN s : s[j] = u}) = 1
<1> DEFINE S == {j \in DOMAIN s : s[j] = u}
<1>1. DOMAIN s = 1..Len(s) /\ Len(s) \in Nat
  BY LenProperties
<1>2. CASE S = {}
  <2>1. ~IsIn(u, s)
    BY <1>1, <1>2 DEF IsIn
  <2>2. Cardinality(S) = 0
    BY <1>2, FS_EmptySet
  <2>3. QED
    BY <2>1, <2>2
<1>3. ASSUME NEW i \in S PROVE S = {i}
  <2>1. ASSUME NEW j \in S, j # i PROVE FALSE
    <3>1. i \in 1..Len(s) /\ j \in 1..Len(s) /\ s[i] = s[j]
      BY <1>1, <1>3, <2>1
    <3>2. i < j \/ j < i
      BY <1>1, <2>1, <3>1
    <3>3. QED
      BY <3>1, <3>2 DEF UnitsOK
  <2>2. QED
    BY <1>3, <2>1
<1>4. ASSUME NEW i \in S PROVE Cardinality(S) = 1
  BY <1>3, <1>4, FS_Singleton
<1>5. QED
  BY <1>2, <1>4

\* The error text is sent once; without a pool nothing follows it, and an
\* answer is sent only after those to all good lines before it.
THEOREM ErrorTextIsLast == Spec => []ErrorEndsConversation
<1>1. ASSUME IInv PROVE ErrorEndsConversation
  <2> SUFFICES ASSUME NEW c \in Conn
               PROVE  /\ InOutput(c, 0) <= 1
                      /\ pool = {} /\ ~Gone(c) => \A j \in DOMAIN Output(c) :
                           IF Output(c)[j] = 0 THEN j = Len(Output(c))
                           ELSE \A i \in 1..Output(c)[j] : Good(c, i) => InOutput(c, i) = 1
    BY DEF ErrorEndsConversation
  <2>1. Output(c) \in Seq(Units) /\ UnitsOK(OneLine, Output(c)) /\ AnsweredOK(c)
    BY <1>1, ConcatProperties DEF Output, IInv, TypeInv, Connection, OutputOK
  <2>2. ASSUME NEW i
        PROVE  InOutput(c, i) <= 1 /\ (IsIn(i, Output(c)) => InOutput(c, i) = 1)
    BY <2>1, OccursOnce DEF InOutput
  <2>3. ASSUME pool = {}, ~Gone(c), NEW j \in DOMAIN Output(c)
        PROVE  IF Output(c)[j] = 0 THEN j = Len(Output(c))
               ELSE \A i \in 1..Output(c)[j] : Good(c, i) => InOutput(c, i) = 1
    <3>1. PICK m \in 0..used[c] : Answered(c, m)
      BY <2>1, <2>3 DEF AnsweredOK
    <3>2. m \in Nat
      BY <1>1 DEF IInv, TypeInv
    <3> DEFINE s == Output(c)
    <3>3. UpTo(m) \in Seq(Units) /\ Len(UpTo(m)) = m /\ \A i \in 1..m : UpTo(m)[i] = i
      BY <3>2 DEF UpTo, Units
    <3>4. /\ \A i \in 1..m : i \in 1..Len(s) /\ s[i] = i
          /\ \A i \in 1..Len(s) : s[i] = 0 => i = Len(s)
          /\ \A i \in 1..Len(s) : s[i] # 0 => s[i] = i /\ i <= m
      <4>1. CASE s = UpTo(m)
        BY <3>2, <3>3, <4>1
      <4>2. CASE s = Append(UpTo(m), 0)
        <5> DEFINE a == Append(UpTo(m), 0)
        <5>1. 0 \in Units
          BY DEF Units
        <5>2. /\ Len(a) = m + 1 /\ a[m + 1] = 0 /\ \A i \in 1..m : a[i] = i
          BY <3>3, <5>1, AppendProperties
        <5>3. s = a
          BY <4>2
        <5> HIDE DEF a, s
        <5>4. \A i \in 1..(m + 1) : i \in 1..m \/ i = m + 1
          BY <3>2
        <5>5. QED
          BY <3>2, <5>2, <5>3, <5>4
      <4>3. QED
        BY <3>1, <4>1, <4>2 DEF Answered
    <3>5. j \in 1..Len(s)
      BY <2>1, <2>3, LenProperties
    <3> HIDE DEF s
    <3>6. CASE s[j] = 0
      BY <3>4, <3>5, <3>6 DEF s
    <3>7. CASE s[j] # 0
      <4>1. s[j] = j /\ j <= m
        BY <3>4, <3>5, <3>7
      <4>2. ASSUME NEW i \in 1..s[j] PROVE IsIn(i, s)
        BY <3>2, <3>4, <3>5, <4>1 DEF IsIn
      <4>3. QED
        BY <2>2, <3>7, <4>2 DEF s
    <3>8. QED
      BY <3>6, <3>7
  <2>4. QED
    BY <2>2, <2>3
<1>2. QED
  BY <1>1, Invariance, PTL
-----------------------------------------------------------------------------
(* The refinement of RequestReply, but for its liveness.                   *)

\* What a longer sequence begins with.
LEMMA ConcatBegins ==
  ASSUME NEW a \in Seq(Units), NEW b \in Seq(Units)
  PROVE  /\ Len(a) <= Len(a \o b) /\ SubSeq(a \o b, 1, Len(a)) = a
         /\ a \o b \in Seq(Units)
<1> DEFINE r == a \o b
           t == SubSeq(r, 1, Len(a))
<1>1. /\ Len(a) \in Nat /\ Len(b) \in Nat /\ r \in Seq(Units) /\ Len(r) = Len(a) + Len(b)
      /\ \A i \in 1..Len(a) : r[i] = a[i]
  BY ConcatProperties, LenProperties
<1>2. \A i \in 1..Len(a) : r[i] \in Units
  BY <1>1, LenProperties
<1> HIDE DEF r
<1>3. t \in Seq(Units) /\ Len(t) = Len(a) /\ \A i \in 1..Len(a) : t[i] = r[i]
  <2>1. /\ t \in Seq(Units)
        /\ Len(t) = IF 1 <= Len(a) THEN Len(a) - 1 + 1 ELSE 0
        /\ \A i \in 1..(Len(a) - 1 + 1) : t[i] = r[1 + i - 1]
    BY <1>1, <1>2, SubSeqProperties
  <2>2. QED
    BY <1>1, <2>1
<1> HIDE DEF t
<1>4. t = a
  BY <1>1, <1>3, SeqEqual
<1>5. QED
  BY <1>1, <1>4 DEF r, t

\* The answers among what the socket has accepted.
Replies(k) == Kept(k.wire, 1..MaxLines)
AcceptedSet(c) == {i \in 1..used[c] : Good(c, i)}

\* As the socket accepts more, the replies go on with new ones.
LEMMA RepliesExtend ==
  ASSUME TypeInv, IInv', NEW c \in Conn, Grown(conn[c], conn'[c], Units)
  PROVE  Requests!Extends(Replies(conn'[c]), Replies(conn[c]), AcceptedSet(c)')
<1> DEFINE T == 1..MaxLines
<1>1. PICK k : k = conn'[c]
  OBVIOUS
<1>2. PICK y \in Seq(Units) : k.wire = conn[c].wire \o y
  BY <1>1 DEF Grown
<1>3. PICK w \in Seq(Units) : w = conn[c].wire
  BY DEF TypeInv, Connection
<1>4. k \in Connection(Units) /\ Output(c)' = k.wire \o k.out
  BY <1>1 DEF IInv, TypeInv, Output
<1>5. k.wire \in Seq(Units) /\ k.out \in Seq(Units)
  BY <1>4 DEF Connection
<1>6. PICK v \in Seq(Units) : v = k.wire
  BY <1>5
<1>a. PICK x \in Seq(Units) : x = k.out
  BY <1>5
<1>7. PICK z : z = Output(c)'
  OBVIOUS
<1>8. UnitsOK(OneLine', z)
  BY <1>7 DEF IInv, OutputOK
<1>9. /\ Len(v) \in Nat /\ \A i \in 1..Len(v) : i \in 1..Len(z) /\ z[i] = v[i]
  <2>1. z = v \o x
    BY <1>4, <1>6, <1>7, <1>a
  <2>2. /\ Len(v) \in Nat /\ Len(x) \in Nat /\ Len(v \o x) = Len(v) + Len(x)
        /\ \A i \in 1..Len(v) + Len(x) : (v \o x)[i] = IF i <= Len(v) THEN v[i] ELSE x[i - Len(v)]
    BY ConcatProperties, LenProperties
  <2>3. QED
    BY <2>1, <2>2
<1>11. Distinct(v)
  <2>1. ASSUME NEW i \in 1..Len(v), NEW j \in 1..Len(v), v[i] = v[j], i < j PROVE FALSE
    BY <1>8, <1>9, <2>1 DEF UnitsOK
  <2>2. ASSUME NEW i \in 1..Len(v), NEW j \in 1..Len(v), v[i] = v[j] PROVE i = j
    <3>1. i \in Int /\ j \in Int
      OBVIOUS
    <3>2. ~(i < j) /\ ~(j < i)
      BY <2>1, <2>2
    <3>3. QED
      BY <3>1, <3>2
  <2>3. QED
    BY <2>2 DEF Distinct
<1>12. ASSUME NEW u \in T, IsIn(u, v) PROVE u \in AcceptedSet(c)'
  <2>1. PICK i \in 1..Len(v) : v[i] = u
    BY <1>12 DEF IsIn
  <2>2. i \in 1..Len(z) /\ z[i] = u /\ u # 0 /\ u \in Nat
    BY <1>9, <2>1
  <2>3. OutputOK(c)' /\ used'[c] \in Nat
    BY DEF IInv, TypeInv
  <2>4. u <= used'[c] /\ Good(c, u)'
    BY <1>7, <2>2, <2>3 DEF OutputOK, Good
  <2>5. QED
    BY <2>2, <2>3, <2>4 DEF AcceptedSet
<1> DEFINE a == Kept(w, T)
           b == Kept(y, T)
           r == Kept(v, T)
<1> HIDE DEF T
<1>13. r = a \o b
  <2>1. v = w \o y
    BY <1>2, <1>3, <1>6
  <2>2. Kept(w \o y, T) = Kept(w, T) \o Kept(y, T)
    BY KeptConcat
  <2>3. QED
    BY <2>1, <2>2
<1>14. a \in Seq(Units) /\ b \in Seq(Units)
  BY KeptType
<1>15. Distinct(r) /\ \A u : IsIn(u, r) => IsIn(u, v) /\ u \in T
  BY <1>11, KeptDistinct, KeptIn
<1> HIDE DEF a, b, r
<1>16. Len(a) <= Len(r) /\ SubSeq(r, 1, Len(a)) = a /\ r \in Seq(Units)
  BY <1>13, <1>14, ConcatBegins
<1>17. Len(a) \in Nat /\ Len(r) \in Nat
  BY <1>14, <1>16, LenProperties
<1>18. ASSUME NEW i \in (Len(a) + 1)..Len(r)
       PROVE  r[i] \in AcceptedSet(c)' /\ \A j \in 1..(i - 1) : r[j] # r[i]
  <2>1. i \in 1..Len(r) /\ IsIn(r[i], r)
    BY <1>17 DEF IsIn
  <2>2. r[i] \in AcceptedSet(c)'
    BY <1>12, <1>15, <2>1
  <2>3. ASSUME NEW j \in 1..(i - 1) PROVE r[j] # r[i]
    <3>1. j \in 1..Len(r) /\ j # i
      BY <1>17, <2>1
    <3>2. QED
      BY <1>15, <2>1, <3>1 DEF Distinct
  <2>4. QED
    BY <2>2, <2>3
<1>19. Replies(conn'[c]) = r /\ Replies(conn[c]) = a
  BY <1>1, <1>3, <1>6 DEF Replies, r, a, T
<1>20. QED
  BY <1>16, <1>18, <1>19 DEF Requests!Extends

\* A step of one connection serves it.
LEMMA ServeStep ==
  ASSUME IInv, IInv', NEW c \in Conn, Grown(conn[c], conn'[c], Units),
         \A d \in Conn : d # c => /\ conn'[d] = conn[d] /\ used'[d] = used[d]
                                  /\ peer'[d] = peer[d],
         used[c] <= used'[c],
         \A d \in Conn : \A i \in 1..used[d] : Good(d, i)' = Good(d, i),
         Connected(c)' => Connected(c), Gone(c) => Gone(c)'
  PROVE  Requests!Next
<1> DEFINE up == {d \in Conn : Connected(d) /\ ~Gone(d)}
           acc == [d \in Conn |-> {i \in 1..used[d] : Good(d, i)}]
           rep == [d \in Conn |-> Kept(conn[d].wire, 1..MaxLines)]
<1>1. TypeInv /\ TypeInv' /\ \A d \in Conn : used[d] \in Nat /\ used'[d] \in Nat
  BY DEF IInv, TypeInv
<1>2. \A d \in Conn : used'[d] <= MaxLines
  <2>1. ASSUME NEW d \in Conn PROVE used'[d] <= MaxLines
    <3>1. ConnOK(d)' /\ sent'[d] \in Seq(Lines)
      BY DEF IInv, TypeInv
    <3>2. QED
      BY <1>1, <3>1, LenProperties, LineAssumption DEF ConnOK
  <2>2. QED
    BY <2>1
<1>3. up' \in {up, up \ {c}}
  <2>1. \A d \in Conn : d # c => Connected(d)' = Connected(d) /\ Gone(d)' = Gone(d)
    BY DEF Connected, Gone
  <2>2. QED
    BY <2>1
<1>4. \A d \in Conn : d # c => acc'[d] = acc[d] /\ rep'[d] = rep[d]
  OBVIOUS
<1>5. acc[c] \subseteq acc'[c] /\ acc'[c] \in SUBSET (1..MaxLines)
  <2>1. acc[c] = {i \in 1..used[c] : Good(c, i)}
        /\ acc'[c] = {i \in 1..used'[c] : Good(c, i)'}
    OBVIOUS
  <2> HIDE DEF acc
  <2>2. ASSUME NEW i \in acc[c] PROVE i \in acc'[c]
    <3>1. i \in 1..used[c] /\ Good(c, i)
      BY <2>1, <2>2
    <3>2. i \in 1..used'[c] /\ Good(c, i)'
      BY <1>1, <3>1
    <3>3. QED
      BY <2>1, <3>2
  <2>3. ASSUME NEW i \in acc'[c] PROVE i \in 1..MaxLines
    BY <1>1, <1>2, <2>1, <2>3, LineAssumption
  <2>4. QED
    BY <2>2, <2>3
<1>6. /\ acc = [d \in Conn |-> acc[d]] /\ acc' = [d \in Conn |-> acc'[d]]
      /\ rep = [d \in Conn |-> rep[d]] /\ rep' = [d \in Conn |-> rep'[d]]
  OBVIOUS
<1> HIDE DEF acc, rep
<1>a. acc' = [acc EXCEPT ![c] = @ \cup acc'[c]]
  <2>1. acc[c] \cup acc'[c] = acc'[c]
    BY <1>5
  <2>2. QED
    BY <1>4, <1>6, <2>1
<1>7. rep' = [rep EXCEPT ![c] = rep'[c]]
  BY <1>4, <1>6
<1>b. /\ rep'[c] = Replies(conn'[c]) /\ rep[c] = Replies(conn[c])
      /\ acc'[c] = AcceptedSet(c)'
  BY DEF Replies, AcceptedSet, acc, rep
<1>8. Requests!Extends(rep'[c], rep[c], acc'[c])
  <2>1. Requests!Extends(Replies(conn'[c]), Replies(conn[c]), AcceptedSet(c)')
    BY <1>1, RepliesExtend
  <2>2. QED
    BY <1>b, <2>1
<1>9. \E new \in SUBSET (1..MaxLines) : acc' = [acc EXCEPT ![c] = @ \cup new]
  BY <1>5, <1>a
<1>10. Requests!Serve(c)
  BY <1>3, <1>7, <1>8, <1>9 DEF Requests!Serve, acc, rep
<1>11. QED
  BY <1>10 DEF Requests!Next

\* A step of one connection that reads no line.
LEMMA SameLines ==
  ASSUME IInv, IInv', NEW c \in Conn, UNCHANGED <<used, sent, peer>>,
         NEW k, conn' = [conn EXCEPT ![c] = k], Grown(conn[c], k, Units),
         k.state = "kConnected" => Connected(c)
  PROVE  Requests!Next
<1>1. conn'[c] = k /\ \A d \in Conn : d # c => conn'[d] = conn[d]
  BY DEF IInv, TypeInv
<1>2. Grown(conn[c], conn'[c], Units) /\ (Connected(c)' => Connected(c))
  BY <1>1 DEF Connected
<1>3. /\ Gone(c) => Gone(c)'
      /\ \A d \in Conn : \A i \in 1..used[d] : Good(d, i)' = Good(d, i)
  BY DEF Gone, Good
<1>4. used[c] \in Nat /\ used'[c] = used[c]
  BY DEF IInv, TypeInv
<1>5. QED
  BY <1>1, <1>2, <1>3, <1>4, ServeStep

LEMMA RunSendServes == ASSUME IInv, IInv', RunSend PROVE Requests!Next
<1>1. /\ functors # <<>> /\ functors \in Seq(Task)
      /\ UNCHANGED <<used, sent, peer>>
  BY DEF RunSend, IInv, TypeInv
<1>2. PICK t \in Task : t = Head(functors)
  BY <1>1, HeadTailProperties
<1>3. PICK c \in Conn : c = t.conn
  BY DEF Task
<1> DEFINE x == <<t.line>>
<1>4. PICK o \in SendInLoop(conn[c], x, Gone(c)) : conn' = [conn EXCEPT ![c] = o.conn]
  BY <1>2, <1>3 DEF RunSend
<1>5. x \in Seq(Units)
  BY DEF Task, Units
<1> HIDE DEF x
<1>6. conn[c] \in Connection(Units) /\ Drained(conn[c])
  BY DEF IInv, TypeInv, ConnOK
<1>7. o.conn.state = conn[c].state
  BY <1>4, <1>5, <1>6, SendInLoopType
<1>8. Grown(conn[c], o.conn, Units)
  BY <1>4, <1>5, <1>6, SendInLoopTotal
<1>9. QED
  BY <1>1, <1>4, <1>7, <1>8, SameLines DEF Connected

LEMMA OnWritableServes ==
  ASSUME IInv, IInv', NEW c \in Conn, OnWritable(c) PROVE Requests!Next
<1>1. PICK o \in HandleWrite(conn[c]) : conn' = [conn EXCEPT ![c] = o.conn]
  BY DEF OnWritable
<1>2. conn[c] \in Connection(Units) /\ UNCHANGED <<used, sent, peer>>
  BY DEF IInv, TypeInv, OnWritable
<1>3. o.conn.state = conn[c].state
  BY <1>1, <1>2, HandleWriteType
<1>4. Grown(conn[c], o.conn, Units)
  BY <1>1, <1>2, HandleWriteWire
<1>5. QED
  BY <1>1, <1>2, <1>3, <1>4, SameLines DEF Connected

LEMMA OnDownServes ==
  ASSUME IInv, IInv', NEW c \in Conn, OnDown(c) PROVE Requests!Next
<1> DEFINE k == HandleClose(conn[c])
<1>1. conn[c] \in Connection(Units) /\ UNCHANGED <<used, sent, peer>>
  BY DEF IInv, TypeInv, OnDown
<1>2. k.state = "kDisconnected" /\ k.wire = conn[c].wire
  BY <1>1 DEF HandleClose, Connection
<1>3. conn' = [conn EXCEPT ![c] = k]
  BY DEF OnDown
<1> HIDE DEF k
<1>4. Grown(conn[c], k, Units)
  BY <1>1, <1>2, GrownSame
<1>5. QED
  BY <1>1, <1>2, <1>3, <1>4, SameLines

LEMMA PeerCloseServes ==
  ASSUME IInv, IInv', NEW c \in Conn, PeerClose(c) PROVE Requests!Next
<1>1. UNCHANGED <<conn, used, sent>> /\ peer' = [peer EXCEPT ![c] = "closed"]
  BY DEF PeerClose
<1>2. /\ conn[c] \in Connection(Units) /\ used[c] \in Nat
      /\ peer'[c] = "closed" /\ \A d \in Conn : d # c => peer'[d] = peer[d]
  BY <1>1 DEF IInv, TypeInv
<1>3. Grown(conn[c], conn'[c], Units)
  BY <1>1, <1>2, GrownSame
<1>4. /\ Connected(c)' => Connected(c)
      /\ Gone(c) => Gone(c)'
      /\ \A d \in Conn : \A i \in 1..used[d] : Good(d, i)' = Good(d, i)
      /\ used[c] <= used'[c]
  BY <1>1, <1>2 DEF Connected, Gone, Good
<1>5. QED
  BY <1>1, <1>2, <1>3, <1>4, ServeStep

LEMMA OnMessageServes ==
  ASSUME IInv, IInv', NEW c \in Conn, NEW g \in 1..Bytes(c, Len(sent[c])), OnMessage(c, g)
  PROVE  Requests!Next
<1>1. sent[c] \in Seq(Lines) /\ Len(sent[c]) \in Nat
  BY LenProperties DEF IInv, TypeInv
<1>2. Bytes(c, Len(sent[c])) \in Nat /\ g \in Nat
  <2>1. Bytes(c, Len(sent[c])) \in Nat
    BY <1>1, BytesType DEF IInv
  <2>2. QED
    BY <2>1
<1>3. PICK n, lg, us, ns, r : Read(c, g, n, lg, us, ns, r)
  BY <1>2, OnMessageReads, Zenon
<1>4. /\ used' = [used EXCEPT ![c] = n] /\ conn' = [conn EXCEPT ![c] = r]
      /\ n \in Nat /\ lg \in Nat /\ used[c] <= lg /\ lg <= n
      /\ UNCHANGED <<sent, peer>>
      /\ Told(conn[c], r, us, Rejects(c, g, n), Gone(c))
  BY <1>3 DEF Read
<1>5. Grown(conn[c], r, Units) /\ (r.state = "kConnected" => Connected(c))
  BY <1>4 DEF Told, Connected
<1>6. /\ conn'[c] = r /\ used'[c] = n /\ used[c] \in Nat
      /\ \A d \in Conn : d # c => /\ conn'[d] = conn[d] /\ used'[d] = used[d]
                                  /\ peer'[d] = peer[d]
  BY <1>4 DEF IInv, TypeInv
<1>7. /\ Grown(conn[c], conn'[c], Units)
      /\ Connected(c)' => Connected(c)
      /\ used[c] <= used'[c]
      /\ Gone(c) => Gone(c)'
      /\ \A d \in Conn : \A i \in 1..used[d] : Good(d, i)' = Good(d, i)
  BY <1>4, <1>5, <1>6 DEF Connected, Gone, Good
<1>8. QED
  BY <1>6, <1>7, ServeStep

\* A step that touches neither the connections nor the lines shows nowhere.
LEMMA HiddenStep ==
  ASSUME UNCHANGED <<conn, used, peer>>,
         \A c \in Conn : \A i \in 1..used[c] : Good(c, i)' = Good(c, i)
  PROVE  UNCHANGED Requests!vars
<1>1. \A c \in Conn : {i \in 1..used'[c] : Good(c, i)'} = {i \in 1..used[c] : Good(c, i)}
  OBVIOUS
<1>2. [c \in Conn |-> {i \in 1..used[c] : Good(c, i)}]'
        = [c \in Conn |-> {i \in 1..used[c] : Good(c, i)}]
  BY <1>1
<1>3. {c \in Conn : Connected(c) /\ ~Gone(c)}' = {c \in Conn : Connected(c) /\ ~Gone(c)}
  BY DEF Connected, Gone
<1>4. QED
  BY <1>2, <1>3 DEF Requests!vars

LEMMA RequestsStep ==
  ASSUME IInv, IInv', [Next]_vars PROVE Requests!Next \/ UNCHANGED Requests!vars
<1>1. CASE UNCHANGED vars
  <2>1. /\ UNCHANGED <<conn, used, peer>>
        /\ \A c \in Conn : \A i \in 1..used[c] : Good(c, i)' = Good(c, i)
    BY <1>1 DEF vars, Good
  <2>2. QED
    BY <2>1, HiddenStep
<1>2. CASE RunSend
  BY <1>2, RunSendServes
<1>3. ASSUME NEW c \in Conn, OnWritable(c) PROVE Requests!Next
  BY <1>3, OnWritableServes
<1>4. ASSUME NEW c \in Conn, OnDown(c) PROVE Requests!Next
  BY <1>4, OnDownServes
<1>5. ASSUME NEW c \in Conn, NEW g \in 1..Bytes(c, Len(sent[c])), OnMessage(c, g)
      PROVE  Requests!Next
  BY <1>5, OnMessageServes
<1>6. ASSUME NEW c \in Conn, PeerClose(c) PROVE Requests!Next
  BY <1>6, PeerCloseServes
<1>7. ASSUME NEW c \in Conn, NEW l \in Lines, PeerSend(c, l) PROVE UNCHANGED Requests!vars
  <2>1. UNCHANGED <<conn, used, peer>>
    BY <1>7 DEF PeerSend
  <2>2. ASSUME NEW d \in Conn, NEW i \in 1..used[d] PROVE Good(d, i)' = Good(d, i)
    <3>1. /\ used[d] <= Len(sent[d]) /\ used[d] \in Nat /\ TypeInv
          /\ Len(sent[d]) \in Nat
      BY LenProperties DEF IInv, ConnOK, TypeInv
    <3>2. i \in 1..Len(sent[d])
      BY <3>1
    <3>3. sent'[d][i] = sent[d][i]
      BY <1>7, <3>1, <3>2, PeerSendBytes
    <3>4. QED
      BY <3>3 DEF Good
  <2>3. QED
    BY <2>1, <2>2, HiddenStep
<1>8. ASSUME NEW w \in Workers, WorkerStep(w) PROVE UNCHANGED Requests!vars
  <2>1. UNCHANGED <<conn, used, peer, sent>>
    BY <1>8 DEF WorkerStep, WorkerTake, WorkerCheck, WorkerPost
  <2>2. \A c \in Conn : \A i \in 1..used[c] : Good(c, i)' = Good(c, i)
    BY <2>1 DEF Good
  <2>3. QED
    BY <2>1, <2>2, HiddenStep
<1>9. QED
  BY <1>1, <1>2, <1>3, <1>4, <1>5, <1>6, <1>7, <1>8 DEF Next, Loop, PeerStep

LEMMA RequestsInit == ASSUME Init PROVE Requests!Init
<1>1. /\ conn = [c \in Conn |-> ConnectEstablished(Connecting)]
      /\ peer = [c \in Conn |-> "open"] /\ used = [c \in Conn |-> 0]
  BY DEF Init
<1>2. \A c \in Conn : conn[c].state = "kConnected" /\ conn[c].wire = <<>>
  BY <1>1 DEF ConnectEstablished, Connecting
<1>3. {c \in Conn : Connected(c) /\ ~Gone(c)} = Conn
  BY <1>1, <1>2 DEF Connected, Gone
<1>4. [c \in Conn |-> {i \in 1..used[c] : Good(c, i)}] = [c \in Conn |-> {}]
  BY <1>1
<1>5. \A T : Kept(<<>>, T) = <<>>
  BY KeptEmpty
<1>6. [c \in Conn |-> Kept(conn[c].wire, 1..MaxLines)] = [c \in Conn |-> <<>>]
  BY <1>2, <1>5
<1>7. QED
  BY <1>3, <1>4, <1>6 DEF Requests!Init

\* Whatever the interleaving of the loop and the workers, however the input
\* is cut and whatever the sockets take, the server only ever accepts lines
\* of a client and replies to them, at most once each (onMessage, the pool
\* and the sends queued in the loop): every step is one of RequestReply.
THEOREM ServesEachRequest == Spec => RequestsSafety
<1>1. Init => Requests!Init
  BY RequestsInit
<1>2. IInv /\ IInv' /\ [Next]_vars => [Requests!Next]_(Requests!vars)
  BY RequestsStep
<1>3. QED
  BY <1>1, <1>2, Invariance, PTL DEF Spec, RequestsSafety
=============================================================================
