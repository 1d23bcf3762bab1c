-------------------------- MODULE SudokuSolverProofs --------------------------
(***************************************************************************)
(* Theorems about the solver, for every set of puzzles and every size of   *)
(* board up to the program's: the links can always be restored and guide   *)
(* the search rightly, the search goes forward, and its answer is right.   *)
(*                                                                         *)
(* The inductive invariant SolverInv says how the links got where they     *)
(* are: the matrix is that of the constructor after covering, in turn, the *)
(* columns that each frame has taken (State).  From the cyclic order of a  *)
(* set of nodes follows what the links are then (Good: each list runs      *)
(* through what is left of it, in the order of creation), and from that,   *)
(* that each cover can be undone; so a step of the search is a longer or a *)
(* shorter sequence of covered columns.                                    *)
(*                                                                         *)
(* The answer is right for two reasons.  The rows of the frames cross no   *)
(* column twice, and all of them when none is left: the board written is a *)
(* solution.  And AnswerInv: wherever the rows of the frames agree with a  *)
(* solution, its row in the next column is still ahead (Pending), because  *)
(* rows are tried in ascending order and no covered column can have taken  *)
(* it away; so the search cannot fail while there is a solution.           *)
(***************************************************************************)
EXTENDS SudokuSolver, SharedLemmas, FiniteSetTheorems

-----------------------------------------------------------------------------
(* Doing a step for each element of a sequence, and undoing it.            *)

\* What a step does to the matrix m, for its second argument j.
Do(step, m, j) ==
  IF step = "detach" THEN Detach(m, j)
  ELSE IF step = "attach" THEN Attach(m, j)
  ELSE IF step = "hide" THEN HideRow(m, j)
  ELSE IF step = "show" THEN ShowRow(m, j)
  ELSE IF step = "cover" THEN Cover(m, j)
  ELSE Uncover(m, j)

\* f is the matrix m after each number of the steps for the elements of s.
Steps(f, step, m, s) ==
  f = [k \in 0..Len(s) |-> IF k = 0 THEN m ELSE Do(step, f[k - 1], s[k])]

\* What such a function is at each step.
LEMMA StepsOf ==
  ASSUME NEW f, NEW step, NEW m, NEW s, Steps(f, step, m, s), Len(s) \in Nat
  PROVE  f[0] = m /\ \A k \in 1..Len(s) : f[k] = Do(step, f[k - 1], s[k])
<1>1. \A k \in 0..Len(s) : f[k] = IF k = 0 THEN m ELSE Do(step, f[k - 1], s[k])
  BY DEF Steps
<1>2. QED
  BY <1>1

\* There is such a function.
LEMMA StepsExist ==
  ASSUME NEW step, NEW m, NEW s, Len(s) \in Nat
  PROVE  \E f : Steps(f, step, m, s)
<1> DEFINE Part(f, n) == f = [k \in 0..n |-> IF k = 0 THEN m ELSE Do(step, f[k - 1], s[k])]
           S == {n \in Nat : \E f : Part(f, n)}
<1>1. Part([k \in 0..0 |-> m], 0)
  OBVIOUS
<1>2. ASSUME NEW n \in Nat, n \in S PROVE n + 1 \in S
  <2>1. PICK f : Part(f, n)
    BY <1>2
  <2> DEFINE g == [k \in 0..(n + 1) |->
                     IF k = n + 1 THEN Do(step, f[n], s[n + 1]) ELSE f[k]]
  <2>2. \A k \in 0..n : g[k] = f[k]
    BY Z3
  <2>3. n \in 0..n /\ n + 1 \in 0..(n + 1) /\ g[n + 1] = Do(step, f[n], s[n + 1])
    OBVIOUS
  <2>4. g = [k \in 0..(n + 1) |-> g[k]]
    OBVIOUS
  <2>5. \A k \in 0..n : f[k] = IF k = 0 THEN m ELSE Do(step, f[k - 1], s[k])
    BY <2>1
  <2> HIDE DEF g, Part
  <2>6. ASSUME NEW k \in 0..(n + 1)
        PROVE  g[k] = IF k = 0 THEN m ELSE Do(step, g[k - 1], s[k])
    <3>1. CASE k = n + 1
      <4>1. k # 0 /\ k - 1 = n /\ g[k - 1] = f[n]
        BY <2>2, <2>3, <3>1
      <4>2. QED
        BY <2>3, <3>1, <4>1, Zenon
    <3>2. CASE k \in 0..n
      <4>1. k # 0 => k - 1 \in 0..n
        BY <3>2
      <4>2. k # 0 => g[k - 1] = f[k - 1]
        BY <2>2, <4>1
      <4>3. QED
        BY <2>2, <2>5, <3>2, <4>2, Zenon
    <3>3. QED
      BY <3>1, <3>2
  <2>7. Part(g, n + 1)
    BY <2>4, <2>6 DEF Part
  <2>8. QED
    BY <2>7
<1>3. 0 \in S
  BY <1>1
<1> HIDE DEF S
<1>4. Nat \subseteq S
  BY <1>2, <1>3, SetInduction
<1>5. QED
  BY <1>4 DEF S, Steps

\* Each(Detach, m, s) is the last of the steps; so for the other operators.
LEMMA EachDetach ==
  ASSUME NEW m, NEW s, Len(s) \in Nat
  PROVE  \E f : Steps(f, "detach", m, s) /\ Each(Detach, m, s) = f[Len(s)]
<1> DEFINE Rec(f) == f = [k \in 0..Len(s) |-> IF k = 0 THEN m ELSE Detach(f[k - 1], s[k])]
<1>1. Each(Detach, m, s) = (CHOOSE f : Rec(f))[Len(s)]
  BY DEF Each
<1>2. \A f : Rec(f) <=> Steps(f, "detach", m, s)
  BY DEF Steps, Do
<1> HIDE DEF Rec
<1>3. \E f : Rec(f)
  BY <1>2, StepsExist, Zenon
<1>4. QED
  BY <1>1, <1>2, <1>3, Zenon

LEMMA EachAttach ==
  ASSUME NEW m, NEW s, Len(s) \in Nat
  PROVE  \E f : Steps(f, "attach", m, s) /\ Each(Attach, m, s) = f[Len(s)]
<1> DEFINE Rec(f) == f = [k \in 0..Len(s) |-> IF k = 0 THEN m ELSE Attach(f[k - 1], s[k])]
<1>1. Each(Attach, m, s) = (CHOOSE f : Rec(f))[Len(s)]
  BY DEF Each
<1>2. \A f : Rec(f) <=> Steps(f, "attach", m, s)
  BY DEF Steps, Do
<1> HIDE DEF Rec
<1>3. \E f : Rec(f)
  BY <1>2, StepsExist, Zenon
<1>4. QED
  BY <1>1, <1>2, <1>3, Zenon

LEMMA EachHide ==
  ASSUME NEW m, NEW s, Len(s) \in Nat
  PROVE  \E f : Steps(f, "hide", m, s) /\ Each(HideRow, m, s) = f[Len(s)]
<1> DEFINE Rec(f) == f = [k \in 0..Len(s) |-> IF k = 0 THEN m ELSE HideRow(f[k - 1], s[k])]
<1>1. Each(HideRow, m, s) = (CHOOSE f : Rec(f))[Len(s)]
  BY DEF Each
<1>2. \A f : Rec(f) <=> Steps(f, "hide", m, s)
  BY DEF Steps, Do
<1> HIDE DEF Rec
<1>3. \E f : Rec(f)
  BY <1>2, StepsExist, Zenon
<1>4. QED
  BY <1>1, <1>2, <1>3, Zenon

LEMMA EachShow ==
  ASSUME NEW m, NEW s, Len(s) \in Nat
  PROVE  \E f : Steps(f, "show", m, s) /\ Each(ShowRow, m, s) = f[Len(s)]
<1> DEFINE Rec(f) == f = [k \in 0..Len(s) |-> IF k = 0 THEN m ELSE ShowRow(f[k - 1], s[k])]
<1>1. Each(ShowRow, m, s) = (CHOOSE f : Rec(f))[Len(s)]
  BY DEF Each
<1>2. \A f : Rec(f) <=> Steps(f, "show", m, s)
  BY DEF Steps, Do
<1> HIDE DEF Rec
<1>3. \E f : Rec(f)
  BY <1>2, StepsExist, Zenon
<1>4. QED
  BY <1>1, <1>2, <1>3, Zenon

LEMMA EachCover ==
  ASSUME NEW m, NEW s, Len(s) \in Nat
  PROVE  \E f : Steps(f, "cover", m, s) /\ Each(Cover, m, s) = f[Len(s)]
<1> DEFINE Rec(f) == f = [k \in 0..Len(s) |-> IF k = 0 THEN m ELSE Cover(f[k - 1], s[k])]
<1>1. Each(Cover, m, s) = (CHOOSE f : Rec(f))[Len(s)]
  BY DEF Each
<1>2. \A f : Rec(f) <=> Steps(f, "cover", m, s)
  BY DEF Steps, Do
<1> HIDE DEF Rec
<1>3. \E f : Rec(f)
  BY <1>2, StepsExist, Zenon
<1>4. QED
  BY <1>1, <1>2, <1>3, Zenon

LEMMA EachUncover ==
  ASSUME NEW m, NEW s, Len(s) \in Nat
  PROVE  \E f : Steps(f, "uncover", m, s) /\ Each(Uncover, m, s) = f[Len(s)]
<1> DEFINE Rec(f) == f = [k \in 0..Len(s) |-> IF k = 0 THEN m ELSE Uncover(f[k - 1], s[k])]
<1>1. Each(Uncover, m, s) = (CHOOSE f : Rec(f))[Len(s)]
  BY DEF Each
<1>2. \A f : Rec(f) <=> Steps(f, "uncover", m, s)
  BY DEF Steps, Do
<1> HIDE DEF Rec
<1>3. \E f : Rec(f)
  BY <1>2, StepsExist, Zenon
<1>4. QED
  BY <1>1, <1>2, <1>3, Zenon

\* The steps for a concatenation are those for its first part, then those for
\* its second.
LEMMA StepsConcat ==
  ASSUME NEW step, NEW m, NEW E, NEW s \in Seq(E), NEW t \in Seq(E),
         NEW f, Steps(f, step, m, s), NEW g, Steps(g, step, f[Len(s)], t),
         NEW h, Steps(h, step, m, s \o t)
  PROVE  h[Len(s \o t)] = g[Len(t)]
<1> DEFINE u == s \o t
<1>1. /\ Len(s) \in Nat /\ Len(t) \in Nat /\ Len(u) = Len(s) + Len(t)
      /\ \A k \in 1..Len(s) : u[k] = s[k]
      /\ \A k \in 1..Len(t) : u[Len(s) + k] = t[k]
  BY ConcatProperties, LenProperties
<1>2. Len(u) \in Nat
  BY <1>1
<1> HIDE DEF u
<1>3. f[0] = m /\ \A k \in 1..Len(s) : f[k] = Do(step, f[k - 1], s[k])
  BY <1>1, StepsOf
<1>4. g[0] = f[Len(s)] /\ \A k \in 1..Len(t) : g[k] = Do(step, g[k - 1], t[k])
  BY <1>1, StepsOf
<1>5. h[0] = m /\ \A k \in 1..Len(u) : h[k] = Do(step, h[k - 1], u[k])
  <2>1. Steps(h, step, m, u)
    BY DEF u
  <2>2. QED
    BY <1>2, <2>1, StepsOf
<1>6. h[Len(s)] = f[Len(s)]
  <2>1. ASSUME NEW n \in Nat, n < Len(s), h[n] = f[n] PROVE h[n + 1] = f[n + 1]
    <3>1. n + 1 \in 1..Len(s) /\ n + 1 \in 1..Len(u) /\ n + 1 - 1 = n /\ u[n + 1] = s[n + 1]
      BY <1>1, <2>1
    <3>2. QED
      BY <1>3, <1>5, <2>1, <3>1
  <2>2. QED
    BY <1>1, <1>3, <1>5, <2>1, SameSteps
<1> DEFINE r == [k \in Nat |-> h[Len(s) + k]]
<1>7. r[Len(t)] = g[Len(t)]
  <2>1. ASSUME NEW n \in Nat, n < Len(t), r[n] = g[n] PROVE r[n + 1] = g[n + 1]
    <3>1. /\ n + 1 \in 1..Len(t) /\ Len(s) + (n + 1) \in 1..Len(u) /\ n + 1 - 1 = n
          /\ u[Len(s) + (n + 1)] = t[n + 1] /\ Len(s) + (n + 1) - 1 = Len(s) + n
      BY <1>1, <2>1
    <3>2. r[n + 1] = h[Len(s) + (n + 1)] /\ r[n] = h[Len(s) + n]
      OBVIOUS
    <3> HIDE DEF r
    <3>3. r[n + 1] = Do(step, r[n], t[n + 1])
      BY <1>5, <3>1, <3>2
    <3>4. g[n + 1] = Do(step, g[n], t[n + 1])
      BY <1>4, <3>1
    <3>5. QED
      BY <2>1, <3>3, <3>4
  <2>2. r[0] = g[0]
    BY <1>1, <1>4, <1>6
  <2> HIDE DEF r
  <2>3. QED
    BY <1>1, <2>1, <2>2, SameSteps
<1>8. QED
  BY <1>1, <1>7 DEF u

\* If each step can be undone, the steps back, latest first, lead to where
\* the steps began.
Undoing(step, back, m, s, t, f, g) ==
  /\ Len(s) \in Nat /\ Len(t) = Len(s)
  /\ \A k \in 1..Len(s) : t[k] = s[Len(s) - k + 1]
  /\ Steps(f, step, m, s) /\ Steps(g, back, f[Len(s)], t)
  /\ \A k \in 1..Len(s) : Do(back, f[k], s[k]) = f[k - 1]

\* Undoing the steps backwards leads back to the start.
LEMMA StepsUndone ==
  ASSUME NEW step, NEW back, NEW m, NEW s, NEW t, NEW f, NEW g,
         Undoing(step, back, m, s, t, f, g)
  PROVE  g[Len(t)] = m
<1>0. /\ Len(s) \in Nat /\ Len(t) = Len(s)
      /\ \A k \in 1..Len(s) : t[k] = s[Len(s) - k + 1]
      /\ Steps(f, step, m, s) /\ Steps(g, back, f[Len(s)], t)
      /\ \A k \in 1..Len(s) : Do(back, f[k], s[k]) = f[k - 1]
  BY Zenon DEF Undoing
<1> USE <1>0
<1> DEFINE r == [k \in Nat |-> f[Len(s) - k]]
<1>1. f[0] = m /\ g[0] = f[Len(s)] /\ \A k \in 1..Len(s) : g[k] = Do(back, g[k - 1], t[k])
  BY StepsOf
<1>2. ASSUME NEW n \in Nat, n < Len(s), g[n] = r[n] PROVE g[n + 1] = r[n + 1]
  <2> DEFINE k == Len(s) - n
  <2>1. k \in 1..Len(s) /\ n + 1 \in 1..Len(s) /\ n + 1 - 1 = n /\ k - 1 = Len(s) - (n + 1)
        /\ Len(s) - (n + 1) + 1 = k
    BY <1>2
  <2>2. r[n] = f[k] /\ r[n + 1] = f[k - 1]
    BY <2>1
  <2> HIDE DEF r, k
  <2>3. t[n + 1] = s[k]
    BY <2>1
  <2>4. Do(back, f[k], s[k]) = f[k - 1]
    BY <2>1
  <2>5. QED
    BY <1>1, <1>2, <2>1, <2>2, <2>3, <2>4
<1>3. g[0] = r[0]
  BY <1>1
<1>4. r[Len(s)] = f[0]
  OBVIOUS
<1> HIDE DEF r
<1>5. QED
  BY <1>1, <1>2, <1>3, <1>4, SameSteps
-----------------------------------------------------------------------------
(* The cyclic order of a set of nodes.                                     *)

\* The numbers up to n.
LEMMA InitialSegment ==
  ASSUME NEW n \in Nat
  PROVE  IsFiniteSet(1..n) /\ Cardinality(1..n) = n
<1>1. 1 \in Int /\ n \in Int
  OBVIOUS
<1>2. IsFiniteSet(1..n) /\ Cardinality(1..n) = IF 1 > n THEN 0 ELSE n - 1 + 1
  BY <1>1, FS_Interval
<1>3. QED
  BY <1>2

\* The least and the greatest node of a set.
LEMMA Extremes ==
  ASSUME NEW N \in Nat, NEW S \in SUBSET (1..N), S # {}
  PROVE  /\ Min(S) \in S /\ \A y \in S : Min(S) <= y
         /\ Max(S) \in S /\ \A y \in S : y <= Max(S)
<1>1. PICK x \in S : \A y \in S : x <= y
  <2>1. S \subseteq Nat
    OBVIOUS
  <2>2. QED
    BY <2>1, LeastExists
<1> DEFINE T == {N - y : y \in S}
<1>2. PICK z \in T : \A y \in T : z <= y
  <2>1. T \subseteq Nat /\ T # {}
    OBVIOUS
  <2> HIDE DEF T
  <2>2. QED
    BY <2>1, LeastExists
<1>3. PICK x2 \in S : z = N - x2
  OBVIOUS
<1>4. ASSUME NEW y \in S PROVE y <= x2
  <2>1. N - y \in T
    OBVIOUS
  <2>2. N - x2 <= N - y
    BY <1>2, <1>3, <2>1
  <2>3. QED
    BY <2>2
<1>5. Min(S) \in S /\ \A y \in S : Min(S) <= y
  BY <1>1 DEF Min
<1>6. Max(S) \in S /\ \A y \in S : y <= Max(S)
  <2>1. \A y \in S : x2 >= y
    BY <1>4
  <2>2. Max(S) \in S /\ \A y \in S : Max(S) >= y
    BY <2>1, Zenon DEF Max
  <2>3. QED
    BY <2>2
<1>7. QED
  BY <1>5, <1>6

\* After: the least above, or else the least of all.
IsAfter(S, n, a) ==
  /\ a \in S
  /\ \/ a > n /\ \A k \in S : k > n => a <= k
     \/ (\A k \in S : k <= n) /\ \A k \in S : a <= k

\* Before: the greatest below, or else the greatest of all.
IsBefore(S, n, b) ==
  /\ b \in S
  /\ \/ b < n /\ \A k \in S : k < n => k <= b
     \/ (\A k \in S : n <= k) /\ \A k \in S : k <= b

\* The next node and the one before it, in words that the provers can use.
LEMMA AfterIs ==
  ASSUME NEW N \in Nat, NEW S \in SUBSET (1..N), S # {}, NEW n \in 1..N
  PROVE  IsAfter(S, n, After(S, n)) /\ IsBefore(S, n, Before(S, n))
<1> DEFINE T == {k \in S : k > n}
           U == {k \in S : k < n}
<1>1. ASSUME T # {} PROVE IsAfter(S, n, After(S, n))
  <2>1. T \in SUBSET (1..N) /\ After(S, n) = Min(T)
    BY <1>1 DEF After
  <2>2. Min(T) \in T /\ \A y \in T : Min(T) <= y
    BY <1>1, <2>1, Extremes, Zenon
  <2>3. QED
    BY <1>1, <2>1, <2>2 DEF IsAfter
<1>2. ASSUME T = {} PROVE IsAfter(S, n, After(S, n))
  <2>1. After(S, n) = Min(S)
    BY <1>2 DEF After
  <2>2. Min(S) \in S /\ \A y \in S : Min(S) <= y
    BY Extremes
  <2>3. QED
    BY <1>2, <2>1, <2>2 DEF IsAfter
<1>3. ASSUME U # {} PROVE IsBefore(S, n, Before(S, n))
  <2>1. U \in SUBSET (1..N) /\ Before(S, n) = Max(U)
    BY <1>3 DEF Before
  <2>2. Max(U) \in U /\ \A y \in U : y <= Max(U)
    BY <1>3, <2>1, Extremes, Zenon
  <2>3. QED
    BY <1>3, <2>1, <2>2 DEF IsBefore
<1>4. ASSUME U = {} PROVE IsBefore(S, n, Before(S, n))
  <2>1. Before(S, n) = Max(S)
    BY <1>4 DEF Before
  <2>2. Max(S) \in S /\ \A y \in S : y <= Max(S)
    BY Extremes
  <2>3. QED
    BY <1>4, <2>1, <2>2 DEF IsBefore
<1>5. QED
  BY <1>1, <1>2, <1>3, <1>4

\* There is one of each, and the two are inverse to each other.
LEMMA AfterUnique ==
  ASSUME NEW S \in SUBSET Int, NEW n \in Int, NEW a, NEW b
  PROVE  /\ IsAfter(S, n, a) /\ IsAfter(S, n, b) => a = b
         /\ IsBefore(S, n, a) /\ IsBefore(S, n, b) => a = b
<1>1. ASSUME a \in S, b \in S, ~(a <= b) PROVE b < a
  BY <1>1
<1>2. ASSUME a \in S, b \in S, a <= b, b <= a PROVE a = b
  BY <1>2
<1>3. ASSUME IsAfter(S, n, a), IsAfter(S, n, b) PROVE a <= b /\ b <= a
  BY <1>3 DEF IsAfter
<1>4. ASSUME IsBefore(S, n, a), IsBefore(S, n, b) PROVE a <= b /\ b <= a
  BY <1>4 DEF IsBefore
<1>5. QED
  BY <1>2, <1>3, <1>4 DEF IsAfter, IsBefore

\* a comes after n just when n comes before a.
LEMMA AfterBefore ==
  ASSUME NEW S \in SUBSET Int, NEW n \in S, NEW a \in S
  PROVE  IsAfter(S, n, a) <=> IsBefore(S, a, n)
<1>1. ASSUME IsAfter(S, n, a) PROVE IsBefore(S, a, n)
  <2>1. CASE a > n /\ \A k \in S : k > n => a <= k
    <3>1. ASSUME NEW k \in S, k < a PROVE k <= n
      BY <2>1, <3>1
    <3>2. QED
      BY <2>1, <3>1 DEF IsBefore
  <2>2. QED
    BY <1>1, <2>1 DEF IsAfter, IsBefore
<1>2. ASSUME IsBefore(S, a, n) PROVE IsAfter(S, n, a)
  <2>1. CASE n < a /\ \A k \in S : k < a => k <= n
    <3>1. ASSUME NEW k \in S, k > n PROVE a <= k
      BY <2>1, <3>1
    <3>2. QED
      BY <2>1, <3>1 DEF IsAfter
  <2>2. QED
    BY <1>2, <2>1 DEF IsAfter, IsBefore
<1>3. QED
  BY <1>1, <1>2

\* There and back again.
LEMMA ThereAndBack ==
  ASSUME NEW N \in Nat, NEW S \in SUBSET (1..N), NEW n \in S
  PROVE  /\ After(S, n) \in S /\ Before(S, n) \in S
         /\ Before(S, After(S, n)) = n
         /\ After(S, Before(S, n)) = n
<1>1. S # {} /\ n \in 1..N /\ S \in SUBSET Int
  OBVIOUS
<1>2. \A x \in S : /\ IsAfter(S, x, After(S, x)) /\ IsBefore(S, x, Before(S, x))
                   /\ After(S, x) \in S /\ Before(S, x) \in S
  <2>1. ASSUME NEW x \in S
        PROVE  IsAfter(S, x, After(S, x)) /\ IsBefore(S, x, Before(S, x))
    BY <1>1, AfterIs
  <2>2. QED
    BY <2>1 DEF IsAfter, IsBefore
<1>3. ASSUME NEW x \in S
      PROVE  IsBefore(S, After(S, x), x) /\ IsAfter(S, Before(S, x), x)
  BY <1>1, <1>2, AfterBefore
<1>4. ASSUME NEW x \in S, NEW a \in S, NEW b \in S
      PROVE  /\ IsAfter(S, x, a) /\ IsAfter(S, x, b) => a = b
             /\ IsBefore(S, x, a) /\ IsBefore(S, x, b) => a = b
  BY <1>1, AfterUnique
<1>5. QED
  BY <1>2, <1>3, <1>4

\* A set of nodes, whatever the largest is.
Nodes(S) == \E N \in Nat : S \in SUBSET (1..N)

\* One node less: its neighbours become neighbours.
LEMMA OneLess ==
  ASSUME NEW S, Nodes(S), NEW j \in S, NEW n \in S, n # j
  PROVE  /\ After(S \ {j}, n) = IF n = Before(S, j) THEN After(S, j) ELSE After(S, n)
         /\ Before(S \ {j}, n) = IF n = After(S, j) THEN Before(S, j) ELSE Before(S, n)
<1> DEFINE T == S \ {j}
<1>0. PICK N \in Nat : S \in SUBSET (1..N)
  BY DEF Nodes
<1> USE <1>0
<1>1. /\ S # {} /\ T # {} /\ T \in SUBSET (1..N) /\ n \in 1..N /\ j \in 1..N /\ n # j
      /\ T \in SUBSET Int /\ S \in SUBSET Int /\ n \in T /\ n \in S
      /\ \A k : k \in T <=> k \in S /\ k # j
  OBVIOUS
<1>2. /\ IsAfter(S, n, After(S, n)) /\ IsBefore(S, n, Before(S, n))
      /\ IsAfter(S, j, After(S, j)) /\ IsBefore(S, j, Before(S, j))
  BY <1>1, AfterIs
<1>3. IsAfter(T, n, After(T, n)) /\ IsBefore(T, n, Before(T, n))
  BY <1>1, AfterIs
<1>4. (n = Before(S, j) <=> After(S, n) = j) /\ (n = After(S, j) <=> Before(S, n) = j)
  BY <1>1, ThereAndBack
<1>5. \A a, b : /\ IsAfter(T, n, a) /\ IsAfter(T, n, b) => a = b
                /\ IsBefore(T, n, a) /\ IsBefore(T, n, b) => a = b
  BY <1>1, AfterUnique
<1> HIDE DEF T
<1>6. ASSUME NEW a, IsAfter(S, n, j), IsAfter(S, j, a) PROVE IsAfter(T, n, a)
  BY <1>1, <1>6 DEF IsAfter
<1>7. ASSUME NEW a, IsAfter(S, n, a), a # j PROVE IsAfter(T, n, a)
  BY <1>1, <1>7 DEF IsAfter
<1>8. ASSUME NEW a, IsBefore(S, n, j), IsBefore(S, j, a) PROVE IsBefore(T, n, a)
  BY <1>1, <1>8 DEF IsBefore
<1>9. ASSUME NEW a, IsBefore(S, n, a), a # j PROVE IsBefore(T, n, a)
  BY <1>1, <1>9 DEF IsBefore
<1>10. QED
  BY <1>2, <1>3, <1>4, <1>5, <1>6, <1>7, <1>8, <1>9 DEF T

\* w lists the nodes after n in a ring of links.
At(w, n, k) == IF k = 0 THEN n ELSE w[k]
Round(w, next, n) ==
  /\ Len(w) \in 0..Len(next)
  /\ w = [k \in 1..Len(w) |-> w[k]]
  /\ \A k \in 1..Len(w) : w[k] # n /\ next[At(w, n, k - 1)] = w[k]
  /\ next[At(w, n, Len(w))] = n

\* A list that follows the links round is what Others returns.
LEMMA OthersOf ==
  ASSUME NEW N \in Nat, NEW next \in Seq(1..N), Len(next) = N, NEW n \in 1..N,
         NEW w, Round(w, next, n)
  PROVE  Others(next, n) = w
<1> DEFINE Walk(f) == f = [k \in 0..Len(next) |-> IF k = 0 THEN n ELSE next[f[k - 1]]]
           walk == CHOOSE f : Walk(f)
           Last_(k) == /\ next[walk[k]] = n
                       /\ \A i \in 0..(k - 1) : next[walk[i]] # n
           last == CHOOSE k \in 0..Len(next) : Last_(k)
           L == Len(w)
           F == [kx \in (1..N) \X (1..N) |-> next[kx[2]]]
<1>1. L \in Nat /\ L \in 0..N /\ \A x \in 1..N : next[x] \in 1..N
  BY DEF Round
<1>10. /\ \A k \in 1..L : w[k] # n /\ next[At(w, n, k - 1)] = w[k]
       /\ next[At(w, n, L)] = n
  BY DEF Round
<1>2. Others(next, n) = [k \in 1..last |-> walk[k]]
  BY DEF Others
<1>3. Walk(walk)
  <2>1. F \in [(1..N) \X (1..N) -> 1..N]
    <3>1. ASSUME NEW kx \in (1..N) \X (1..N) PROVE next[kx[2]] \in 1..N
      BY <1>1
    <3>2. QED
      BY <3>1
  <2>2. \A k \in 1..N, x \in 1..N : F[<<k, x>>] = next[x]
    OBVIOUS
  <2> HIDE DEF F
  <2>3. PICK f : StepsBy(f, 1..N, n, N, F)
    BY <2>1, RecursionExists, Zenon
  <2>4. ASSUME NEW k \in 0..N
        PROVE  f[k] = IF k = 0 THEN n ELSE next[f[k - 1]]
    <3>1. f[0] = n /\ f \in [0..N -> 1..N] /\ \A i \in 1..N : f[i] = F[<<i, f[i - 1]>>]
      BY <2>3 DEF StepsBy
    <3>2. k # 0 => k \in 1..N /\ k - 1 \in 0..N
      OBVIOUS
    <3>3. k # 0 => f[k - 1] \in 1..N
      BY <3>1, <3>2
    <3>4. QED
      BY <2>2, <3>1, <3>2, <3>3, ZenonT(60)
  <2>5. f = [k \in 0..N |-> f[k]]
    BY <2>3 DEF StepsBy
  <2>6. Walk(f)
    BY <2>4, <2>5
  <2> HIDE DEF Walk
  <2>7. QED
    BY <2>6, Zenon
<1>4. walk[0] = n /\ \A k \in 1..N : walk[k] = next[walk[k - 1]]
  <2>1. \A k \in 0..N : walk[k] = IF k = 0 THEN n ELSE next[walk[k - 1]]
    BY <1>3
  <2> HIDE DEF walk
  <2>2. 0 \in 0..N /\ \A k \in 1..N : k \in 0..N /\ k # 0
    BY <1>1
  <2>3. QED
    BY <2>1, <2>2, Zenon
<1> HIDE DEF walk
<1> HIDE DEF L
<1>5. ASSUME NEW k \in 0..L PROVE walk[k] = At(w, n, k)
  <2> DEFINE S == {i \in Nat : i <= L => walk[i] = At(w, n, i)}
  <2>1. 0 \in S
    BY <1>4 DEF At
  <2>2. ASSUME NEW i \in Nat, i \in S PROVE i + 1 \in S
    <3>1. SUFFICES ASSUME i + 1 <= L PROVE walk[i + 1] = w[i + 1]
      BY DEF At
    <3>2. i + 1 \in 1..L /\ i + 1 \in 1..N /\ i + 1 - 1 = i
      BY <1>1, <3>1
    <3>3. next[At(w, n, i)] = w[i + 1]
      BY <1>10, <3>2
    <3>4. walk[i] = At(w, n, i) /\ walk[i + 1] = next[walk[i]]
      BY <1>1, <1>4, <2>2, <3>1, <3>2
    <3>5. QED
      BY <3>3, <3>4
  <2> HIDE DEF S
  <2>3. Nat \subseteq S
    BY <2>1, <2>2, SetInduction
  <2>4. QED
    BY <1>1, <2>3 DEF S
<1>6. Last_(L)
  <2>1. next[walk[L]] = n
    BY <1>1, <1>5, <1>10
  <2>2. ASSUME NEW i \in 0..(L - 1) PROVE next[walk[i]] # n
    <3>1. i \in 0..L /\ i + 1 \in 1..L /\ i + 1 - 1 = i
      BY <1>1
    <3>2. next[walk[i]] = w[i + 1] /\ w[i + 1] # n
      BY <1>5, <1>10, <3>1
    <3>3. QED
      BY <3>2
  <2>3. QED
    BY <2>1, <2>2
<1>7. last = L
  <2>1. last \in 0..Len(next) /\ Last_(last)
    BY <1>1, <1>6
  <2> HIDE DEF last
  <2>2. last \in Nat
    BY <1>1, <2>1
  <2>3. last < L => last \in 0..(L - 1)
    BY <1>1, <2>2
  <2>4. L < last => L \in 0..(last - 1)
    BY <1>1, <2>2
  <2>5. ~(last < L) /\ ~(L < last)
    BY <1>6, <2>1, <2>3, <2>4, Zenon
  <2>6. QED
    BY <1>1, <2>2, <2>5
<1>8. [k \in 1..L |-> walk[k]] = [k \in 1..L |-> w[k]]
  <2>1. ASSUME NEW k \in 1..L PROVE walk[k] = w[k]
    <3>1. k \in 0..L /\ k # 0
      BY <1>1
    <3>2. QED
      BY <1>5, <3>1 DEF At
  <2>2. QED
    BY <2>1
<1>9. w = [k \in 1..L |-> w[k]]
  BY DEF Round, L
<1>11. QED
  BY <1>2, <1>7, <1>8, <1>9, Zenon

\* The elements of T in their order.
Ascending(w, T) ==
  /\ w \in Seq(T)
  /\ \A i, j \in 1..Len(w) : i < j => w[i] < w[j]
  /\ \A x \in T : \E i \in 1..Len(w) : w[i] = x

\* The elements of a set of nodes can be listed in ascending order.
LEMMA AscendingExists ==
  ASSUME NEW N \in Nat, NEW T \in SUBSET (1..N)
  PROVE  \E w : Ascending(w, T) /\ Len(w) = Cardinality(T)
<1> DEFINE S == {n \in Nat : \A U \in SUBSET (1..n) :
                               \E w : Ascending(w, U) /\ Len(w) = Cardinality(U)}
<1>1. 0 \in S
  <2>1. Ascending(<<>>, {}) /\ Len(<<>>) = Cardinality({})
    BY EmptySeq, FS_EmptySet DEF Ascending
  <2>2. \A U \in SUBSET (1..0) : U = {}
    OBVIOUS
  <2>3. QED
    BY <2>1, <2>2
<1>2. ASSUME NEW n \in Nat, n \in S PROVE n + 1 \in S
  <2>1. SUFFICES ASSUME NEW U \in SUBSET (1..(n + 1))
                 PROVE  \E w : Ascending(w, U) /\ Len(w) = Cardinality(U)
    OBVIOUS
  <2> DEFINE V == U \ {n + 1}
  <2>2. V \in SUBSET (1..n)
    OBVIOUS
  <2>3. PICK w : Ascending(w, V) /\ Len(w) = Cardinality(V)
    BY <1>2, <2>2
  <2>4. CASE n + 1 \notin U
    BY <2>3, <2>4
  <2>5. CASE n + 1 \in U
    <3> DEFINE v == Append(w, n + 1)
    <3>1. U = V \cup {n + 1}
      BY <2>5
    <3>2. w \in Seq(U) /\ Len(w) \in Nat
      <4>1. w \in Seq(V) /\ V \subseteq U
        BY <2>3 DEF Ascending
      <4>2. QED
        BY <4>1, LenProperties
    <3>3. /\ v \in Seq(U) /\ Len(v) = Len(w) + 1 /\ v[Len(w) + 1] = n + 1
          /\ \A i \in 1..Len(w) : v[i] = w[i] /\ w[i] \in V
      <4>1. \A i \in 1..Len(w) : w[i] \in V
        BY <2>3, LenProperties DEF Ascending
      <4>2. QED
        BY <2>5, <3>2, <4>1, AppendProperties
    <3> HIDE DEF v
    <3>4. ASSUME NEW i \in 1..Len(v), NEW j \in 1..Len(v), i < j PROVE v[i] < v[j]
      <4>1. i \in 1..Len(w)
        BY <3>2, <3>3, <3>4
      <4>5. v[i] = w[i] /\ w[i] \in 1..n
        BY <2>2, <3>3, <4>1
      <4>2. CASE j = Len(w) + 1
        BY <3>3, <4>1, <4>2, <4>5
      <4>3. CASE j \in 1..Len(w)
        BY <2>3, <3>3, <3>4, <4>1, <4>3, <4>5 DEF Ascending
      <4>4. QED
        BY <3>2, <3>3, <4>2, <4>3
    <3>5. ASSUME NEW x \in U PROVE \E i \in 1..Len(v) : v[i] = x
      <4>1. CASE x = n + 1
        BY <3>2, <3>3, <4>1
      <4>2. CASE x \in V
        <5>1. PICK i \in 1..Len(w) : w[i] = x
          BY <2>3, <4>2 DEF Ascending
        <5>2. QED
          BY <3>2, <3>3, <5>1
      <4>3. QED
        BY <4>1, <4>2
    <3>6. IsFiniteSet(V)
      <4>1. IsFiniteSet(1..n)
        BY InitialSegment
      <4>2. QED
        BY <2>2, <4>1, FS_Subset
    <3>7. Cardinality(U) = Cardinality(V) + 1
      BY <3>1, <3>6, FS_AddElement
    <3>8. QED
      BY <2>3, <3>3, <3>4, <3>5, <3>7 DEF Ascending
  <2>6. QED
    BY <2>4, <2>5
<1> HIDE DEF S
<1>3. Nat \subseteq S
  BY <1>1, <1>2, SetInduction
<1>4. QED
  BY <1>3 DEF S

\* A function on 1..n is a sequence of length n.
LEMMA FunctionIsSeq ==
  ASSUME NEW E, NEW n \in Nat, NEW f \in [1..n -> E]
  PROVE  f \in Seq(E) /\ Len(f) = n
<1>1. f \in Seq(E)
  BY SeqDef
<1>2. Len(f) \in Nat /\ DOMAIN f = 1..Len(f) /\ DOMAIN f = 1..n
  BY <1>1, LenProperties
<1>3. QED
  BY <1>1, <1>2

\* w lists the nodes of S but its least, c, upwards.
RingOf(next, N, S, c, w) ==
  /\ N \in Nat /\ next \in [1..N -> 1..N]
  /\ S \in SUBSET (1..N) /\ c \in S /\ \A k \in S : c <= k
  /\ Ascending(w, S \ {c}) /\ Len(w) = Cardinality(S \ {c})

\* The walk round a set of nodes from its least one: upwards by After, and
\* downwards by Before.
LEMMA RingRound ==
  ASSUME NEW next, NEW N, NEW S, NEW c, NEW w, RingOf(next, N, S, c, w)
  PROVE  /\ (\A n \in S : next[n] = After(S, n)) => Others(next, c) = w
         /\ (\A n \in S : next[n] = Before(S, n)) => Others(next, c) = Reverse(w)
<1>0. /\ N \in Nat /\ S \in SUBSET (1..N) /\ c \in S /\ \A k \in S : c <= k
      /\ Ascending(w, S \ {c}) /\ Len(w) = Cardinality(S \ {c})
      /\ next \in Seq(1..N) /\ Len(next) = N
  <2>1. next \in Seq(1..N) /\ Len(next) = N
    BY FunctionIsSeq DEF RingOf
  <2>2. QED
    BY <2>1 DEF RingOf
<1> USE <1>0
<1> DEFINE L == Len(w)
<1>1. c \in 1..N /\ S \in SUBSET Int
  OBVIOUS
<1>2. /\ L \in Nat /\ w = [k \in 1..L |-> w[k]]
      /\ \A k \in 1..L : w[k] \in S /\ w[k] # c /\ w[k] \in Int /\ c < w[k]
  <2>1. w \in Seq(S \ {c})
    BY DEF Ascending
  <2>2. /\ L \in Nat /\ w = [k \in 1..L |-> w[k]]
        /\ \A k \in 1..L : w[k] \in S \ {c}
    BY <2>1, LenProperties
  <2>3. \A x \in S \ {c} : x \in Int /\ c < x
    BY <1>1
  <2>4. QED
    BY <2>2, <2>3
<1>3. L \in 0..N
  <2>1. IsFiniteSet(1..N) /\ Cardinality(1..N) = N
    BY InitialSegment
  <2>2. Cardinality(S \ {c}) <= Cardinality(1..N)
    BY <2>1, FS_Subset
  <2>3. QED
    BY <1>2, <2>1, <2>2
<1>4. /\ \A i, j \in 1..L : i < j => w[i] < w[j]
      /\ \A x \in S : x # c => \E i \in 1..L : w[i] = x
  BY DEF Ascending
<1>14. L \in Nat /\ c \in Int
  BY <1>1, <1>2
<1> HIDE DEF L
<1> USE <1>14
<1>5. ASSUME NEW k \in 1..L PROVE IsAfter(S, At(w, c, k - 1), w[k])
  <2>1. w[k] \in S /\ w[k] \in Int /\ c \in Int
    BY <1>1, <1>2
  <2>2. CASE k = 1
    <3>1. At(w, c, k - 1) = c
      BY <2>2 DEF At
    <3>2. ASSUME NEW x \in S, x > c PROVE w[k] <= x
      <4>0. x # c /\ x \in Int
        BY <1>1, <3>2
      <4>1. PICK i \in 1..L : w[i] = x
        BY <1>4, <4>0, Zenon
      <4>2. i = k \/ k < i
        BY <2>2
      <4>4. k < i => w[k] < w[i]
        BY <1>4
      <4>5. i = k => w[k] = w[i]
        OBVIOUS
      <4>3. QED
        BY <2>1, <4>0, <4>1, <4>2, <4>4, <4>5
    <3>3. w[k] > c
      BY <1>2
    <3>4. QED
      BY <2>1, <3>1, <3>2, <3>3 DEF IsAfter
  <2>3. CASE k # 1
    <3> DEFINE p == w[k - 1]
    <3>1. At(w, c, k - 1) = p /\ k - 1 \in 1..L
      BY <2>3 DEF At
    <3>5. p \in S /\ p \in Int /\ p # c
      BY <1>2, <3>1
    <3>6. k - 1 < k
      OBVIOUS
    <3>7. p < w[k]
      BY <1>4, <3>1, <3>6
    <3>2. p \in S /\ p \in Int /\ p < w[k] /\ p # c
      BY <3>5, <3>7
    <3> HIDE DEF p
    <3>3. ASSUME NEW x \in S, x > p PROVE w[k] <= x
      <4>1. x # c /\ x \in Int
        BY <1>1, <3>2, <3>3
      <4>2. PICK i \in 1..L : w[i] = x
        BY <1>4, <4>1
      <4>3. i # k - 1 /\ ~(i < k - 1)
        <5>1. i < k - 1 => w[i] < p
          BY <1>4, <3>1 DEF p
        <5>2. i = k - 1 => w[i] = p
          BY DEF p
        <5>3. QED
          BY <3>2, <3>3, <4>1, <4>2, <5>1, <5>2
      <4>4. i = k \/ k < i
        BY <4>3
      <4>6. k < i => w[k] < w[i]
        BY <1>4
      <4>7. i = k => w[k] = w[i]
        OBVIOUS
      <4>5. QED
        BY <2>1, <4>1, <4>2, <4>4, <4>6, <4>7
    <3>4. QED
      BY <2>1, <3>1, <3>2, <3>3 DEF IsAfter
  <2>4. QED
    BY <2>2, <2>3
<1>6. IsAfter(S, At(w, c, L), c)
  <2>1. ASSUME NEW x \in S PROVE x <= At(w, c, L)
    <3>1. CASE x = c
      <4>1. L # 0 => L \in 1..L
        OBVIOUS
      <4>2. L # 0 => At(w, c, L) = w[L] /\ c < w[L] /\ w[L] \in Int
        BY <1>2, <4>1 DEF At
      <4>3. L = 0 => At(w, c, L) = c
        BY DEF At
      <4>4. QED
        BY <3>1, <4>2, <4>3
    <3>2. CASE x # c
      <4>1. PICK i \in 1..L : w[i] = x
        BY <1>4, <3>2
      <4>2. At(w, c, L) = w[L] /\ L \in 1..L /\ (i = L \/ i < L)
        BY <1>2 DEF At
      <4>3. i < L => w[i] < w[L]
        BY <1>4, <4>2
      <4>4. w[L] \in Int
        BY <1>2, <4>2
      <4>5. QED
        BY <4>1, <4>2, <4>3, <4>4
    <3>3. QED
      BY <3>1, <3>2
  <2>2. QED
    BY <2>1 DEF IsAfter
<1>7. \A k \in 0..L : At(w, c, k) \in S
  <2>1. \A k \in 0..L : k # 0 => k \in 1..L
    OBVIOUS
  <2>2. QED
    BY <1>2, <2>1, Zenon DEF At
<1>8. \A x, a : x \in S /\ IsAfter(S, x, a) => a = After(S, x)
  <2>1. ASSUME NEW x \in S, NEW a, IsAfter(S, x, a) PROVE a = After(S, x)
    <3>1. S # {} /\ x \in 1..N
      OBVIOUS
    <3>2. IsAfter(S, x, After(S, x))
      BY <3>1, AfterIs
    <3>3. QED
      BY <1>1, <2>1, <3>1, <3>2, AfterUnique
  <2>2. QED
    BY <2>1
<1>9. /\ \A k \in 1..L : After(S, At(w, c, k - 1)) = w[k]
      /\ After(S, At(w, c, L)) = c
  <2>1. \A k \in 1..L : k - 1 \in 0..L
    OBVIOUS
  <2>2. L \in 0..L
    BY <1>2
  <2>3. QED
    BY <1>5, <1>6, <1>7, <1>8, <2>1, <2>2
<1>10. /\ \A k \in 1..L : Before(S, w[k]) = At(w, c, k - 1)
       /\ Before(S, c) = At(w, c, L)
  <2>1. \A x \in S : Before(S, After(S, x)) = x
    BY ThereAndBack
  <2>2. \A k \in 1..L : k - 1 \in 0..L
    OBVIOUS
  <2>3. L \in 0..L
    BY <1>2
  <2>4. QED
    BY <1>7, <1>9, <2>1, <2>2, <2>3
<1>11. ASSUME \A n \in S : next[n] = After(S, n) PROVE Round(w, next, c)
  <2>1. \A k \in 1..L : next[At(w, c, k - 1)] = w[k]
    <3>1. \A k \in 1..L : k - 1 \in 0..L
      OBVIOUS
    <3>2. QED
      BY <1>7, <1>9, <1>11, <3>1
  <2>2. next[At(w, c, L)] = c
    <3>1. L \in 0..L
      BY <1>2
    <3>2. QED
      BY <1>7, <1>9, <1>11, <3>1
  <2>3. QED
    BY <1>2, <1>3, <2>1, <2>2 DEF Round, L
<1>12. ASSUME \A n \in S : next[n] = Before(S, n) PROVE Round(Reverse(w), next, c)
  <2> DEFINE v == Reverse(w)
  <2>1. v = [k \in 1..L |-> w[L - k + 1]]
    BY DEF Reverse, L
  <2>2. Len(v) = L /\ \A k \in 1..L : v[k] = w[L - k + 1] /\ L - k + 1 \in 1..L
    <3>1. v \in [1..L -> S]
      <4>1. \A k \in 1..L : L - k + 1 \in 1..L
        OBVIOUS
      <4>2. QED
        BY <1>2, <2>1, <4>1
    <3>4. Len(v) = L
      BY <3>1, FunctionIsSeq
    <3>2. \A k \in 1..L : v[k] = w[L - k + 1] /\ L - k + 1 \in 1..L
      BY <2>1
    <3>3. QED
      BY <3>2, <3>4
  <2> HIDE DEF v
  <2>8. \A k : (k = 0 => At(v, c, k) = c /\ At(w, c, k) = c)
              /\ (k # 0 => At(v, c, k) = v[k] /\ At(w, c, k) = w[k])
    BY DEF At
  <2>3. ASSUME NEW k \in 1..L PROVE next[At(v, c, k - 1)] = v[k]
    <3>1. CASE k = 1
      <4>1. At(v, c, k - 1) = c /\ v[k] = w[L] /\ At(w, c, L) = w[L]
        <5>1. k - 1 = 0 /\ L # 0 /\ L - k + 1 = L
          BY <3>1
        <5>2. QED
          BY <2>2, <2>8, <5>1
      <4>2. QED
        BY <1>10, <1>12, <4>1
    <3>2. CASE k # 1
      <4> DEFINE i == L - k + 2
      <4>1. i \in 1..L /\ k - 1 \in 1..L /\ L - (k - 1) + 1 = i /\ i - 1 # 0
            /\ i - 1 = L - k + 1 /\ k - 1 # 0
        BY <3>2, <1>2
      <4> HIDE DEF i
      <4>2. v[k - 1] = w[i] /\ v[k] = w[i - 1]
        <5>1. v[k - 1] = w[L - (k - 1) + 1]
          BY <2>2, <4>1
        <5>2. v[k] = w[L - k + 1]
          BY <2>2
        <5>3. QED
          BY <4>1, <5>1, <5>2
      <4>3. At(v, c, k - 1) = v[k - 1] /\ At(w, c, i - 1) = w[i - 1]
        BY <2>8, <4>1
      <4>4. next[w[i]] = Before(S, w[i])
        BY <1>2, <1>12, <4>1
      <4>5. Before(S, w[i]) = At(w, c, i - 1)
        BY <1>10, <4>1
      <4>6. QED
        BY <4>2, <4>3, <4>4, <4>5
    <3>3. QED
      BY <3>1, <3>2
  <2>4. next[At(v, c, L)] = c
    <3>1. CASE L = 0
      BY <1>10, <1>12, <3>1 DEF At
    <3>2. CASE L # 0
      <4>1. At(v, c, L) = w[1] /\ 1 \in 1..L
        <5>1. L \in 1..L /\ L - L + 1 = 1 /\ 1 \in 1..L
          BY <3>2
        <5>2. QED
          BY <2>2, <2>8, <3>2, <5>1
      <4>2. Before(S, w[1]) = c
        <5>1. 1 - 1 = 0
          OBVIOUS
        <5>2. QED
          BY <1>10, <2>8, <4>1, <5>1
      <4>3. QED
        BY <1>2, <1>12, <4>1, <4>2
    <3>3. QED
      BY <3>1, <3>2
  <2>5. \A k \in 1..L : v[k] # c
    BY <1>2, <2>2, ZenonT(60)
  <2>6. v = [k \in 1..L |-> v[k]]
    BY <2>1, <2>2
  <2>7. Len(v) \in 0..Len(next) /\ v = [k \in 1..Len(v) |-> v[k]]
    BY <1>3, <2>2, <2>6
  <2>9. \A k \in 1..Len(v) : v[k] # c /\ next[At(v, c, k - 1)] = v[k]
    BY <2>2, <2>3, <2>5
  <2>10. next[At(v, c, Len(v))] = c
    BY <2>2, <2>4
  <2>11. Round(v, next, c)
    BY <2>7, <2>9, <2>10, Zenon DEF Round
  <2>12. QED
    BY <2>11 DEF v
<1>13. QED
  BY <1>1, <1>11, <1>12, OthersOf

\* The links of a set of nodes stay in it and are opposite to each other.
LEMMA NodesAfter ==
  ASSUME NEW S, Nodes(S), NEW n \in S
  PROVE  /\ After(S, n) \in S /\ Before(S, n) \in S
         /\ Before(S, After(S, n)) = n
         /\ After(S, Before(S, n)) = n
         /\ \A j \in S : j # n => After(S, n) # n /\ Before(S, n) # n
<1>1. PICK N \in Nat : S \in SUBSET (1..N)
  BY DEF Nodes
<1>2. /\ After(S, n) \in S /\ Before(S, n) \in S
      /\ Before(S, After(S, n)) = n
      /\ After(S, Before(S, n)) = n
  BY <1>1, ThereAndBack
<1>3. IsAfter(S, n, After(S, n)) /\ IsBefore(S, n, Before(S, n))
  <2>1. S # {} /\ n \in 1..N
    BY <1>1
  <2>2. QED
    BY <1>1, <2>1, AfterIs
<1>4. ASSUME NEW j \in S, j # n PROVE After(S, n) # n /\ Before(S, n) # n
  <2>1. n \in Int /\ j \in Int
    BY <1>1
  <2>2. QED
    BY <1>3, <1>4, <2>1 DEF IsAfter, IsBefore
<1>5. QED
  BY <1>2, <1>4
-----------------------------------------------------------------------------
(* The matrix: h headers, and then the rows of four nodes.                 *)

\* The first node of the row of node n, and the i-th node after n in it.
First(h, n) == n - ((n - h - 1) % 4)
RowAt(h, n, i) == First(h, n) + ((n - First(h, n) + i) % 4)
Band(h, n) == First(h, n)..(First(h, n) + 3)

\* N nodes are h headers and some rows.
Fits(h, N) == h \in Nat /\ \E q \in Nat : N = h + 4 * q

\* The band of a node is made of nodes of the same row.
LEMMA Rows ==
  ASSUME NEW h, NEW N, Fits(h, N), NEW n \in (h + 1)..N
  PROVE  /\ First(h, n) \in (h + 1)..(N - 3)
         /\ n \in Band(h, n)
         /\ \A k \in Band(h, n) : k \in (h + 1)..N /\ First(h, k) = First(h, n)
<1>5. PICK q \in Nat : N = h + 4 * q
  BY DEF Fits
<1>6. h \in Nat
  BY DEF Fits
<1> DEFINE p == (n - h - 1) % 4
           d == (n - h - 1) \div 4
<1>1. p \in 0..3 /\ d \in Nat /\ n = h + 1 + 4 * d + p /\ d < q
  BY <1>5, <1>6
<1>2. First(h, n) = h + 1 + 4 * d
  BY <1>1, <1>6 DEF First
<1> HIDE DEF p, d
<1>3. ASSUME NEW k \in (h + 1 + 4 * d)..(h + 1 + 4 * d + 3) PROVE First(h, k) = h + 1 + 4 * d
  BY <1>1, <1>6 DEF First
<1>4. QED
  BY <1>1, <1>2, <1>3, <1>5, <1>6 DEF Band

\* Once round the row.
LEMMA RowCycle ==
  ASSUME NEW h, NEW N, Fits(h, N), NEW n \in (h + 1)..N
  PROVE  /\ \A i \in 1..3 : RowAt(h, n, i) \in (h + 1)..N /\ RowAt(h, n, i) # n
         /\ RowAt(h, n, 1) # RowAt(h, n, 2) /\ RowAt(h, n, 1) # RowAt(h, n, 3)
         /\ RowAt(h, n, 2) # RowAt(h, n, 3)
         /\ RowAt(h, RowAt(h, n, 1), 1) = RowAt(h, n, 2)
         /\ RowAt(h, RowAt(h, n, 2), 1) = RowAt(h, n, 3)
         /\ RowAt(h, RowAt(h, n, 3), 1) = n
         /\ RowAt(h, RowAt(h, n, 3), 3) = RowAt(h, n, 2)
         /\ RowAt(h, RowAt(h, n, 2), 3) = RowAt(h, n, 1)
         /\ RowAt(h, RowAt(h, n, 1), 3) = n
         /\ Band(h, n) = {n, RowAt(h, n, 1), RowAt(h, n, 2), RowAt(h, n, 3)}
<1> DEFINE f == First(h, n)
<1>1. /\ f \in (h + 1)..(N - 3)
      /\ n \in f..(f + 3)
      /\ \A k \in f..(f + 3) : k \in (h + 1)..N /\ First(h, k) = f
  BY Rows DEF Band
<1> HIDE DEF f
<1>2. \A k \in f..(f + 3), i \in 1..3 : RowAt(h, k, i) = f + ((k - f + i) % 4)
  BY <1>1, Zenon DEF RowAt
<1>3. Band(h, n) = f..(f + 3)
  BY DEF Band, f
<1>4. f \in Int /\ n \in Int
  BY <1>1 DEF Fits
<1>5. ASSUME NEW k \in f..(f + 3)
      PROVE  /\ RowAt(h, k, 1) = IF k = f + 3 THEN f ELSE k + 1
             /\ RowAt(h, k, 2) = IF k = f + 3 THEN f + 1 ELSE IF k = f + 2 THEN f ELSE k + 2
             /\ RowAt(h, k, 3) = IF k = f THEN f + 3 ELSE k - 1
  <2>1. k = f \/ k = f + 1 \/ k = f + 2 \/ k = f + 3
    BY <1>4
  <2>2. /\ RowAt(h, k, 1) = f + ((k - f + 1) % 4)
        /\ RowAt(h, k, 2) = f + ((k - f + 2) % 4)
        /\ RowAt(h, k, 3) = f + ((k - f + 3) % 4)
    BY <1>2
  <2>3. QED
    BY <1>4, <2>1, <2>2
<1>6. n = f \/ n = f + 1 \/ n = f + 2 \/ n = f + 3
  BY <1>1, <1>4
<1>7. \A i \in 1..3 : i = 1 \/ i = 2 \/ i = 3
  OBVIOUS
<1>8. ASSUME NEW a \in Int, a = n - f PROVE a \in 0..3
  BY <1>1, <1>4, <1>8
<1>9. /\ RowAt(h, n, 1) = IF n = f + 3 THEN f ELSE n + 1
      /\ RowAt(h, n, 2) = IF n = f + 3 THEN f + 1 ELSE IF n = f + 2 THEN f ELSE n + 2
      /\ RowAt(h, n, 3) = IF n = f THEN f + 3 ELSE n - 1
  BY <1>1, <1>5
<1>10. \A i \in 1..3 : RowAt(h, n, i) \in f..(f + 3) /\ RowAt(h, n, i) # n
  BY <1>4, <1>6, <1>7, <1>9
<1>11. /\ RowAt(h, n, 1) # RowAt(h, n, 2) /\ RowAt(h, n, 1) # RowAt(h, n, 3)
       /\ RowAt(h, n, 2) # RowAt(h, n, 3)
  BY <1>4, <1>6, <1>9
<1>12. f..(f + 3) = {n, RowAt(h, n, 1), RowAt(h, n, 2), RowAt(h, n, 3)}
  BY <1>4, <1>6, <1>9
<1>13. /\ RowAt(h, RowAt(h, n, 1), 1) = RowAt(h, n, 2)
       /\ RowAt(h, RowAt(h, n, 1), 3) = n
  <2> DEFINE k == RowAt(h, n, 1)
  <2>1. k \in f..(f + 3)
    BY <1>10
  <2> HIDE DEF k
  <2>2. /\ RowAt(h, k, 1) = IF k = f + 3 THEN f ELSE k + 1
        /\ RowAt(h, k, 3) = IF k = f THEN f + 3 ELSE k - 1
    BY <1>5, <2>1
  <2>3. QED
    BY <1>4, <1>6, <1>9, <2>2 DEF k
<1>14. /\ RowAt(h, RowAt(h, n, 2), 1) = RowAt(h, n, 3)
       /\ RowAt(h, RowAt(h, n, 2), 3) = RowAt(h, n, 1)
  <2> DEFINE k == RowAt(h, n, 2)
  <2>1. k \in f..(f + 3)
    BY <1>10
  <2> HIDE DEF k
  <2>2. /\ RowAt(h, k, 1) = IF k = f + 3 THEN f ELSE k + 1
        /\ RowAt(h, k, 3) = IF k = f THEN f + 3 ELSE k - 1
    BY <1>5, <2>1
  <2>3. QED
    BY <1>4, <1>6, <1>9, <2>2 DEF k
<1>15. /\ RowAt(h, RowAt(h, n, 3), 1) = n
       /\ RowAt(h, RowAt(h, n, 3), 3) = RowAt(h, n, 2)
  <2> DEFINE k == RowAt(h, n, 3)
  <2>1. k \in f..(f + 3)
    BY <1>10
  <2> HIDE DEF k
  <2>2. /\ RowAt(h, k, 1) = IF k = f + 3 THEN f ELSE k + 1
        /\ RowAt(h, k, 3) = IF k = f THEN f + 3 ELSE k - 1
    BY <1>5, <2>1
  <2>3. QED
    BY <1>4, <1>6, <1>9, <2>2 DEF k
<1>16. QED
  BY <1>1, <1>3, <1>10, <1>11, <1>12, <1>13, <1>14, <1>15

\* The walk round a row, to the right and to the left.
LEMMA RowRound ==
  ASSUME NEW h, NEW N, Fits(h, N), NEW n \in (h + 1)..N,
         NEW next \in Seq(1..N), Len(next) = N
  PROVE  /\ (\A k \in (h + 1)..N : next[k] = RowAt(h, k, 1))
              => Others(next, n) = <<RowAt(h, n, 1), RowAt(h, n, 2), RowAt(h, n, 3)>>
         /\ (\A k \in (h + 1)..N : next[k] = RowAt(h, k, 3))
              => Others(next, n) = <<RowAt(h, n, 3), RowAt(h, n, 2), RowAt(h, n, 1)>>
<1> DEFINE X == (h + 1)..N
<1>1. N \in Nat /\ n \in 1..N /\ n \in X /\ 3 \in 0..N
  <2>1. PICK q \in Nat : N = h + 4 * q
    BY DEF Fits
  <2>2. h \in Nat /\ q # 0
    BY <2>1 DEF Fits
  <2>3. QED
    BY <2>1, <2>2
<1>3. ASSUME NEW a, NEW b, NEW c, next[n] = a, next[a] = b, next[b] = c, next[c] = n,
             a # n, b # n, c # n
      PROVE  Others(next, n) = <<a, b, c>>
  <2> DEFINE w == <<a, b, c>>
  <2>1. Len(w) = 3 /\ w[1] = a /\ w[2] = b /\ w[3] = c /\ w = [k \in 1..Len(w) |-> w[k]]
    OBVIOUS
  <2> HIDE DEF w
  <2>2. At(w, n, 0) = n /\ At(w, n, 1) = a /\ At(w, n, 2) = b /\ At(w, n, 3) = c
    BY <2>1 DEF At
  <2>3. ASSUME NEW k \in 1..3 PROVE w[k] # n /\ next[At(w, n, k - 1)] = w[k]
    <3>1. CASE k = 1
      <4>1. k - 1 = 0
        BY <3>1
      <4>2. QED
        BY <1>3, <2>1, <2>2, <3>1, <4>1, Zenon
    <3>2. CASE k = 2
      <4>1. k - 1 = 1
        BY <3>2
      <4>2. QED
        BY <1>3, <2>1, <2>2, <3>2, <4>1, Zenon
    <3>3. CASE k = 3
      <4>1. k - 1 = 2
        BY <3>3
      <4>2. QED
        BY <1>3, <2>1, <2>2, <3>3, <4>1, Zenon
    <3>4. QED
      BY <3>1, <3>2, <3>3
  <2>5. Round(w, next, n)
    BY <1>1, <1>3, <2>1, <2>2, <2>3 DEF Round
  <2>6. Others(next, n) = w
    BY <1>1, <2>5, OthersOf
  <2>7. QED
    BY <2>6 DEF w
<1> DEFINE r1 == RowAt(h, n, 1)
           r2 == RowAt(h, n, 2)
           r3 == RowAt(h, n, 3)
<1>4. /\ r1 \in X /\ r2 \in X /\ r3 \in X /\ r1 # n /\ r2 # n /\ r3 # n
      /\ RowAt(h, r1, 1) = r2 /\ RowAt(h, r2, 1) = r3 /\ RowAt(h, r3, 1) = n
      /\ RowAt(h, r3, 3) = r2 /\ RowAt(h, r2, 3) = r1 /\ RowAt(h, r1, 3) = n
  <2>1. /\ \A i \in 1..3 : RowAt(h, n, i) \in (h + 1)..N /\ RowAt(h, n, i) # n
        /\ RowAt(h, RowAt(h, n, 1), 1) = RowAt(h, n, 2)
        /\ RowAt(h, RowAt(h, n, 2), 1) = RowAt(h, n, 3)
        /\ RowAt(h, RowAt(h, n, 3), 1) = n
        /\ RowAt(h, RowAt(h, n, 3), 3) = RowAt(h, n, 2)
        /\ RowAt(h, RowAt(h, n, 2), 3) = RowAt(h, n, 1)
        /\ RowAt(h, RowAt(h, n, 1), 3) = n
    BY RowCycle
  <2>2. 1 \in 1..3 /\ 2 \in 1..3 /\ 3 \in 1..3
    OBVIOUS
  <2>3. QED
    BY <2>1, <2>2, Zenon
<1> HIDE DEF r1, r2, r3
<1>5. ASSUME \A k \in X : next[k] = RowAt(h, k, 1) PROVE Others(next, n) = <<r1, r2, r3>>
  <2>1. next[n] = r1
    BY <1>1, <1>5 DEF r1
  <2>2. next[r1] = r2 /\ next[r2] = r3 /\ next[r3] = n
    BY <1>4, <1>5
  <2>3. QED
    BY <1>3, <1>4, <2>1, <2>2
<1>6. ASSUME \A k \in X : next[k] = RowAt(h, k, 3) PROVE Others(next, n) = <<r3, r2, r1>>
  <2>1. next[n] = r3
    BY <1>1, <1>6 DEF r3
  <2>2. next[r3] = r2 /\ next[r2] = r1 /\ next[r1] = n
    BY <1>4, <1>6
  <2>3. QED
    BY <1>3, <1>4, <2>1, <2>2
<1>7. QED
  BY <1>5, <1>6 DEF r1, r2, r3

\* The columns of N nodes: a header is in its own, and the nodes of a row are
\* in four others than the root's.
Shape(col, h, N) ==
  /\ Fits(h, N) /\ h # 0
  /\ col \in [1..N -> 1..h]
  /\ \A n \in 1..h : col[n] = n
  /\ \A n \in (h + 1)..N : /\ col[n] # 1
                           /\ \A i \in 1..3 : col[RowAt(h, n, i)] # col[n]

IsMatrix(m, N) ==
  m \in [name : [1..N -> Int], col : [1..N -> 1..N],
         right : [1..N -> 1..N], left : [1..N -> 1..N],
         down : [1..N -> 1..N], up : [1..N -> 1..N], size : [1..N -> Int]]

\* The nodes of F in column c, and what their links and its size should be.
Lane(col, F, c) == {n \in F : col[n] = c}
Linked(m, h, F) ==
  /\ \A n \in F : /\ m.down[n] = After(Lane(m.col, F, m.col[n]), n)
                  /\ m.up[n] = Before(Lane(m.col, F, m.col[n]), n)
  /\ \A c \in F : c <= h => m.size[c] = Cardinality(Lane(m.col, F, c)) - 1

\* Only the links up and down, and the sizes, of column c differ.
OnlyIn(d, m, N, c) ==
  /\ d.name = m.name /\ d.col = m.col /\ d.right = m.right /\ d.left = m.left
  /\ \A n \in 1..N : m.col[n] # c =>
       d.down[n] = m.down[n] /\ d.up[n] = m.up[n] /\ d.size[n] = m.size[n]

\* What the columns of the nodes say of each node.
LEMMA ShapeFacts ==
  ASSUME NEW h, NEW N, NEW col, Shape(col, h, N)
  PROVE  /\ h \in Nat /\ N \in Nat /\ 1 \in 1..h /\ h <= N
         /\ \A n \in 1..N : n \in Int /\ col[n] \in 1..h /\ col[n] \in 1..N
         /\ \A n \in 1..h : n \in 1..N /\ col[n] = n
         /\ \A n \in (h + 1)..N : n \in 1..N /\ ~(n <= h) /\ col[n] # 1 /\ col[n] # n
                                  /\ ~(n \in 1..h)
<1>1. PICK q \in Nat : N = h + 4 * q
  BY DEF Shape, Fits
<1>2. h \in Nat \ {0} /\ N \in Nat /\ h <= N
  BY <1>1 DEF Shape, Fits
<1>3. col \in [1..N -> 1..h] /\ (\A n \in 1..h : col[n] = n)
      /\ \A n \in (h + 1)..N : col[n] # 1
  BY DEF Shape
<1>4. \A n \in (h + 1)..N : n \in 1..N /\ ~(n <= h) /\ ~(n \in 1..h)
  BY <1>2
<1>5. \A n \in 1..h : n \in 1..N
  BY <1>2
<1>6. \A n \in 1..N : col[n] \in 1..h
  BY <1>3
<1>7. QED
  BY <1>2, <1>3, <1>4, <1>5, <1>6

\* What Attach does to each field.
Spliced(d, a, b, c, j) == [d EXCEPT !.up[a] = j, !.down[b] = j, !.size[c] = @ + 1]
Put(f, x, e) == [f EXCEPT ![x] = e]
Fields(n, o, p, q, x, y, z) ==
  [name |-> n, col |-> o, right |-> p, left |-> q, down |-> x, up |-> y, size |-> z]

\* The fields that attach changes.
LEMMA AttachFields ==
  ASSUME NEW d, d = Fields(d.name, d.col, d.right, d.left, d.down, d.up, d.size),
         NEW a, NEW b, NEW c, NEW j
  PROVE  Spliced(d, a, b, c, j) =
           Fields(d.name, d.col, d.right, d.left, Put(d.down, b, j), Put(d.up, a, j),
                  Put(d.size, c, d.size[c] + 1))
<1> DEFINE n == d.name
           o == d.col
           p == d.right
           q == d.left
           x == d.down
           y == d.up
           z == d.size
<1>0. d = Fields(n, o, p, q, x, y, z)
  OBVIOUS
<1> HIDE DEF n, o, p, q, x, y, z
<1> DEFINE y1 == [y EXCEPT ![a] = j]
           x1 == [x EXCEPT ![b] = j]
           z1 == [z EXCEPT ![c] = @ + 1]
<1>1. [d EXCEPT !.up[a] = j] = [name |-> n, col |-> o, right |-> p, left |-> q,
                                 down |-> x, up |-> y1, size |-> z]
  <2>0. d = [name |-> n, col |-> o, right |-> p, left |-> q, down |-> x, up |-> y, size |-> z]
    BY <1>0 DEF Fields
  <2>1. [d EXCEPT !.up[a] = j] = [d EXCEPT !.up = y1]
    BY <2>0
  <2> HIDE DEF y1
  <2>2. QED
    BY <2>0, <2>1
<1> DEFINE d1 == [name |-> n, col |-> o, right |-> p, left |-> q,
                  down |-> x, up |-> y1, size |-> z]
<1>2. [d1 EXCEPT !.down[b] = j] = [name |-> n, col |-> o, right |-> p, left |-> q,
                                  down |-> x1, up |-> y1, size |-> z]
  <2>1. [d1 EXCEPT !.down[b] = j] = [d1 EXCEPT !.down = x1]
    OBVIOUS
  <2> HIDE DEF x1, y1
  <2>2. QED
    BY <2>1
<1> DEFINE d2 == [name |-> n, col |-> o, right |-> p, left |-> q,
                  down |-> x1, up |-> y1, size |-> z]
<1>3. [d2 EXCEPT !.size[c] = @ + 1] = [name |-> n, col |-> o, right |-> p, left |-> q,
                                  down |-> x1, up |-> y1, size |-> z1]
  <2>1. [d2 EXCEPT !.size[c] = @ + 1] = [d2 EXCEPT !.size = z1]
    OBVIOUS
  <2> HIDE DEF x1, y1, z1
  <2>2. QED
    BY <2>1
<1> DEFINE Up(r) == [r EXCEPT !.up[a] = j]
           Down(r) == [r EXCEPT !.down[b] = j]
           Size(r) == [r EXCEPT !.size[c] = @ + 1]
           all == [d EXCEPT !.up[a] = j, !.down[b] = j, !.size[c] = @ + 1]
           end == [name |-> n, col |-> o, right |-> p, left |-> q,
                   down |-> x1, up |-> y1, size |-> z1]
<1>4. all = Size(Down(Up(d)))
  OBVIOUS
<1>5. Up(d) = d1 /\ Down(d1) = d2 /\ Size(d2) = end
  BY <1>1, <1>2, <1>3
<1> HIDE DEF Up, Down, Size, d1, d2, all, end
<1>6. all = end
  BY <1>4, <1>5
<1>7. QED
  BY <1>6 DEF all, end, x1, y1, z1, n, o, p, q, x, y, z, Spliced, Fields, Put

\* A node other than a header leaves its column: the rest stays linked, and
\* the node can come back.
LEMMA DetachNode ==
  ASSUME NEW h, NEW N, NEW m, IsMatrix(m, N), Shape(m.col, h, N),
         NEW F \in SUBSET (1..N), NEW j \in F, j > h, m.col[j] \in F, Linked(m, h, F)
  PROVE  /\ IsMatrix(Detach(m, j), N)
         /\ OnlyIn(Detach(m, j), m, N, m.col[j])
         /\ Linked(Detach(m, j), h, F \ {j})
         /\ Attach(Detach(m, j), j) = m
<1> DEFINE c == m.col[j]
           S == Lane(m.col, F, c)
           a == m.down[j]
           b == m.up[j]
           d == Detach(m, j)
<1>1. /\ h \in Nat /\ N \in Nat /\ j \in 1..N /\ c \in 1..h /\ c \in 1..N /\ m.col[c] = c
      /\ j # c
  BY ShapeFacts
<1>2. S \in SUBSET (1..N) /\ j \in S /\ c \in S /\ IsFiniteSet(S) /\ Nodes(S)
  <2>1. S \in SUBSET (1..N) /\ j \in S /\ c \in S
    BY <1>1 DEF Lane
  <2>2. IsFiniteSet(1..N)
    <3>1. N \in Nat
      BY <1>1
    <3>2. QED
      BY <3>1, InitialSegment
  <2>3. Nodes(S)
    BY <1>1, <2>1 DEF Nodes
  <2>4. QED
    BY <2>1, <2>2, <2>3, FS_Subset
<1>3. a = After(S, j) /\ b = Before(S, j)
  BY DEF Linked
<1>4. a \in S /\ b \in S /\ Before(S, a) = j /\ After(S, b) = j /\ a # j /\ b # j
  <2>1. /\ After(S, j) \in S /\ Before(S, j) \in S
        /\ Before(S, After(S, j)) = j /\ After(S, Before(S, j)) = j
        /\ \A k \in S : k # j => After(S, j) # j /\ Before(S, j) # j
    BY <1>2, NodesAfter, Zenon
  <2>2. QED
    BY <1>1, <1>2, <1>3, <2>1, Zenon
<1>5. a # j /\ b # j
  BY <1>4
<1>6. a \in 1..N /\ b \in 1..N /\ m.col[a] = c /\ m.col[b] = c
  BY <1>2, <1>4 DEF Lane
<1>7. /\ m \in [name : [1..N -> Int], col : [1..N -> 1..N],
                right : [1..N -> 1..N], left : [1..N -> 1..N],
                down : [1..N -> 1..N], up : [1..N -> 1..N], size : [1..N -> Int]]
  BY DEF IsMatrix
<1>8. d = [m EXCEPT !.up[a] = b, !.down[b] = a, !.size[c] = @ - 1]
  BY DEF Detach
<1>9. /\ d.name = m.name /\ d.col = m.col /\ d.right = m.right /\ d.left = m.left
      /\ d.up = [m.up EXCEPT ![a] = b] /\ d.down = [m.down EXCEPT ![b] = a]
      /\ d.size = [m.size EXCEPT ![c] = @ - 1]
  BY <1>7, <1>8
<1>10. IsMatrix(d, N)
  <2>1. /\ [m.up EXCEPT ![a] = b] \in [1..N -> 1..N]
        /\ [m.down EXCEPT ![b] = a] \in [1..N -> 1..N]
        /\ [m.size EXCEPT ![c] = @ - 1] \in [1..N -> Int]
    <3>1. m.up \in [1..N -> 1..N] /\ m.down \in [1..N -> 1..N] /\ m.size \in [1..N -> Int]
      BY <1>7
    <3> HIDE DEF a, b, c, d
    <3>2. [m.up EXCEPT ![a] = b] \in [1..N -> 1..N]
      BY <1>6, <3>1
    <3>3. [m.down EXCEPT ![b] = a] \in [1..N -> 1..N]
      BY <1>6, <3>1
    <3>4. m.size[c] - 1 \in Int
      <4>1. m.size[c] \in Int
        BY <1>1, <3>1
      <4>2. \A i \in Int : i - 1 \in Int
        OBVIOUS
      <4>3. QED
        BY <4>1, <4>2, Zenon
    <3>5. [m.size EXCEPT ![c] = @ - 1] \in [1..N -> Int]
      BY <3>1, <3>4
    <3>6. QED
      BY <3>2, <3>3, <3>5
  <2> HIDE DEF a, b, c, d
  <2>2. d = [name |-> m.name, col |-> m.col, right |-> m.right, left |-> m.left,
             down |-> [m.down EXCEPT ![b] = a], up |-> [m.up EXCEPT ![a] = b],
             size |-> [m.size EXCEPT ![c] = @ - 1]]
    BY <1>7, <1>8
  <2>3. QED
    BY <1>7, <2>1, <2>2 DEF IsMatrix
<1>11. Attach(d, j) = m
  <2>1. d.down[j] = a /\ d.up[j] = b /\ d.col[j] = c
    BY <1>1, <1>5, <1>7, <1>9
  <2>2. Attach(d, j) = [d EXCEPT !.up[a] = j, !.down[b] = j, !.size[c] = @ + 1]
    BY <2>1 DEF Attach
  <2>3. m.up[a] = j /\ m.down[b] = j
    <3>1. Lane(m.col, F, m.col[a]) = S /\ Lane(m.col, F, m.col[b]) = S /\ a \in F /\ b \in F
      BY <1>4, <1>6 DEF Lane
    <3>2. QED
      BY <1>4, <3>1 DEF Linked
  <2>4. [d.up EXCEPT ![a] = j] = m.up
    BY <1>6, <1>7, <1>9, <2>3
  <2>5. [d.down EXCEPT ![b] = j] = m.down
    BY <1>6, <1>7, <1>9, <2>3
  <2>6. [d.size EXCEPT ![c] = @ + 1] = m.size
    <3>1. m.size \in [1..N -> Int] /\ m.size[c] \in Int
      BY <1>1, <1>7
    <3> DEFINE u == m.size
               v == d.size
               t == [v EXCEPT ![c] = @ + 1]
    <3>2. u \in [1..N -> Int] /\ v = [u EXCEPT ![c] = @ - 1] /\ c \in 1..N
      BY <1>1, <1>9, <3>1
    <3> HIDE DEF c, d, u, v
    <3>3. v \in [1..N -> Int] /\ v[c] = u[c] - 1 /\ \A n \in 1..N : n # c => v[n] = u[n]
      BY <3>2
    <3>4. t = [n \in 1..N |-> t[n]]
      BY <3>3
    <3>5. \A n \in 1..N : t[n] = u[n]
      BY <3>2, <3>3
    <3>6. u = [n \in 1..N |-> u[n]]
      BY <3>2
    <3> HIDE DEF t
    <3>7. t = u
      BY <3>4, <3>5, <3>6
    <3>8. QED
      BY <3>7 DEF t, u, v
  <2> HIDE DEF a, b, c, d
  <2>7. Attach(d, j) = [name |-> m.name, col |-> m.col, right |-> m.right, left |-> m.left,
                        down |-> m.down, up |-> m.up, size |-> m.size]
    <3>1. d = [name |-> m.name, col |-> m.col, right |-> m.right, left |-> m.left,
               down |-> d.down, up |-> d.up, size |-> d.size]
      BY <1>7, <1>8, <1>9
    <3>2. [d EXCEPT !.up[a] = j, !.down[b] = j, !.size[c] = @ + 1] =
            [name |-> m.name, col |-> m.col, right |-> m.right, left |-> m.left,
             down |-> [d.down EXCEPT ![b] = j], up |-> [d.up EXCEPT ![a] = j],
             size |-> [d.size EXCEPT ![c] = @ + 1]]
      <4>1. d = Fields(d.name, d.col, d.right, d.left, d.down, d.up, d.size)
        BY <1>9, <3>1 DEF Fields
      <4>2. Spliced(d, a, b, c, j) =
              Fields(d.name, d.col, d.right, d.left, Put(d.down, b, j), Put(d.up, a, j),
                     Put(d.size, c, d.size[c] + 1))
        BY <4>1, AttachFields
      <4>3. QED
        BY <1>9, <4>2, Zenon DEF Spliced, Fields, Put
    <3>3. QED
      BY <2>2, <2>4, <2>5, <2>6, <3>2
  <2>8. QED
    BY <1>7, <2>7
<1>12. OnlyIn(d, m, N, c)
  BY <1>1, <1>6, <1>7, <1>9 DEF OnlyIn
<1> HIDE DEF d
<1>13. Linked(d, h, F \ {j})
  <2> DEFINE G == F \ {j}
  <2>1. Lane(m.col, G, c) = S \ {j}
    BY DEF Lane
  <2>2. \A x : x # c => Lane(m.col, G, x) = Lane(m.col, F, x)
    BY DEF Lane
  <2>3. ASSUME NEW n \in G
        PROVE  /\ d.down[n] = After(Lane(m.col, G, m.col[n]), n)
               /\ d.up[n] = Before(Lane(m.col, G, m.col[n]), n)
    <3>1. n \in 1..N /\ n \in F /\ n # j
      OBVIOUS
    <3>2. CASE m.col[n] # c
      <4>1. d.down[n] = m.down[n] /\ d.up[n] = m.up[n]
        BY <1>12, <3>1, <3>2 DEF OnlyIn
      <4>2. Lane(m.col, G, m.col[n]) = Lane(m.col, F, m.col[n])
        BY <2>2, <3>2
      <4>3. QED
        BY <3>1, <4>1, <4>2 DEF Linked
    <3>3. CASE m.col[n] = c
      <4>1. n \in S \ {j}
        BY <3>1, <3>3 DEF Lane
      <4>2. /\ After(S \ {j}, n) = IF n = b THEN a ELSE After(S, n)
            /\ Before(S \ {j}, n) = IF n = a THEN b ELSE Before(S, n)
        <5> HIDE DEF S
        <5>1. /\ After(S \ {j}, n) = IF n = Before(S, j) THEN After(S, j) ELSE After(S, n)
              /\ Before(S \ {j}, n) = IF n = After(S, j) THEN Before(S, j) ELSE Before(S, n)
          BY <1>2, <4>1, OneLess
        <5>2. QED
          BY <1>3, <5>1, Zenon
      <4>3. m.down[n] = After(S, n) /\ m.up[n] = Before(S, n)
        BY <3>1, <3>3 DEF Linked
      <4>4. d.down[n] = (IF n = b THEN a ELSE m.down[n]) /\ d.up[n] = (IF n = a THEN b ELSE m.up[n])
        BY <1>7, <1>9, <3>1
      <4>5. QED
        BY <2>1, <3>3, <4>2, <4>3, <4>4
    <3>4. QED
      BY <3>2, <3>3
  <2>4. ASSUME NEW x \in G, x <= h PROVE d.size[x] = Cardinality(Lane(m.col, G, x)) - 1
    <3>1. x \in 1..N /\ m.col[x] = x /\ x \in F
      <4>1. x \in 1..h
        <5>1. x \in 1..N
          OBVIOUS
        <5>2. QED
          BY <1>1, <2>4, <5>1
      <4>2. QED
        BY <4>1, ShapeFacts
    <3>2. m.size[x] = Cardinality(Lane(m.col, F, x)) - 1
      BY <2>4, <3>1 DEF Linked
    <3>3. CASE x # c
      BY <1>12, <2>2, <3>1, <3>2, <3>3 DEF OnlyIn
    <3>4. CASE x = c
      <4>1. Cardinality(S \ {j}) = Cardinality(S) - 1 /\ Cardinality(S) \in Nat
        BY <1>2, FS_RemoveElement, FS_CardinalityType
      <4>2. d.size[c] = m.size[c] - 1
        BY <1>1, <1>7, <1>9
      <4>3. QED
        BY <2>1, <3>2, <3>4, <4>1, <4>2
    <3>5. QED
      BY <3>3, <3>4
  <2>5. d.col = m.col
    BY <1>9
  <2> HIDE DEF G
  <2>6. Linked(d, h, G)
    BY <2>3, <2>4, <2>5 DEF Linked
  <2>7. QED
    BY <2>6 DEF G
<1>14. QED
  BY <1>10, <1>11, <1>12, <1>13 DEF d

\* Three steps, in a row and one by one.
LEMMA ThreeSteps ==
  ASSUME NEW step, NEW m, NEW a, NEW b, NEW c, NEW f, Steps(f, step, m, <<a, b, c>>)
  PROVE  f[3] = Do(step, Do(step, Do(step, m, a), b), c)
<1> DEFINE s == <<a, b, c>>
<1>1. Len(s) = 3 /\ s[1] = a /\ s[2] = b /\ s[3] = c /\ Len(s) \in Nat
  OBVIOUS
<1>2. Steps(f, step, m, s)
  OBVIOUS
<1> HIDE DEF s
<1>3. f[0] = m /\ \A k \in 1..Len(s) : f[k] = Do(step, f[k - 1], s[k])
  BY <1>1, <1>2, StepsOf
<1>4. f[1] = Do(step, f[0], a)
  BY <1>1, <1>3
<1>5. f[2] = Do(step, f[1], b)
  BY <1>1, <1>3
<1>6. f[3] = Do(step, f[2], c)
  BY <1>1, <1>3
<1>7. QED
  BY <1>3, <1>4, <1>5, <1>6

\* What a kind of step does for the elements of s.
Run(step, m, s) ==
  CASE step = "detach" -> Each(Detach, m, s)
    [] step = "attach" -> Each(Attach, m, s)
    [] step = "hide" -> Each(HideRow, m, s)
    [] step = "show" -> Each(ShowRow, m, s)
    [] step = "cover" -> Each(Cover, m, s)
    [] step = "uncover" -> Each(Uncover, m, s)
Kinds == {"detach", "attach", "hide", "show", "cover", "uncover"}

\* Run is Each, for each kind of step.
LEMMA RunIs ==
  ASSUME NEW m, NEW s
  PROVE  /\ Run("detach", m, s) = Each(Detach, m, s)
         /\ Run("attach", m, s) = Each(Attach, m, s)
         /\ Run("hide", m, s) = Each(HideRow, m, s)
         /\ Run("show", m, s) = Each(ShowRow, m, s)
         /\ Run("cover", m, s) = Each(Cover, m, s)
         /\ Run("uncover", m, s) = Each(Uncover, m, s)
<1>1. Run("detach", m, s) = Each(Detach, m, s)
  BY DEF Run
<1>2. Run("attach", m, s) = Each(Attach, m, s)
  BY DEF Run
<1>3. Run("hide", m, s) = Each(HideRow, m, s)
  BY DEF Run
<1>4. Run("show", m, s) = Each(ShowRow, m, s)
  BY DEF Run
<1>5. Run("cover", m, s) = Each(Cover, m, s)
  BY DEF Run
<1>6. Run("uncover", m, s) = Each(Uncover, m, s)
  BY DEF Run
<1>7. QED
  BY <1>1, <1>2, <1>3, <1>4, <1>5, <1>6, Zenon

\* What a run returns is the last of its steps.
LEMMA RunSteps ==
  ASSUME NEW step \in Kinds, NEW m, NEW s, Len(s) \in Nat
  PROVE  \E f : Steps(f, step, m, s) /\ Run(step, m, s) = f[Len(s)]
<1>1. CASE step = "detach"
  <2>1. \E f : Steps(f, "detach", m, s) /\ Run("detach", m, s) = f[Len(s)]
    <3>1. PICK f : Steps(f, "detach", m, s) /\ Each(Detach, m, s) = f[Len(s)]
      BY EachDetach, Zenon
    <3>2. Run("detach", m, s) = Each(Detach, m, s)
      BY RunIs
    <3>3. QED
      BY <3>1, <3>2
  <2>2. QED
    BY <1>1, <2>1
<1>2. CASE step = "attach"
  <2>1. \E f : Steps(f, "attach", m, s) /\ Run("attach", m, s) = f[Len(s)]
    <3>1. PICK f : Steps(f, "attach", m, s) /\ Each(Attach, m, s) = f[Len(s)]
      BY EachAttach, Zenon
    <3>2. Run("attach", m, s) = Each(Attach, m, s)
      BY RunIs
    <3>3. QED
      BY <3>1, <3>2
  <2>2. QED
    BY <1>2, <2>1
<1>3. CASE step = "hide"
  <2>1. \E f : Steps(f, "hide", m, s) /\ Run("hide", m, s) = f[Len(s)]
    <3>1. PICK f : Steps(f, "hide", m, s) /\ Each(HideRow, m, s) = f[Len(s)]
      BY EachHide, Zenon
    <3>2. Run("hide", m, s) = Each(HideRow, m, s)
      BY RunIs
    <3>3. QED
      BY <3>1, <3>2
  <2>2. QED
    BY <1>3, <2>1
<1>4. CASE step = "show"
  <2>1. \E f : Steps(f, "show", m, s) /\ Run("show", m, s) = f[Len(s)]
    <3>1. PICK f : Steps(f, "show", m, s) /\ Each(ShowRow, m, s) = f[Len(s)]
      BY EachShow, Zenon
    <3>2. Run("show", m, s) = Each(ShowRow, m, s)
      BY RunIs
    <3>3. QED
      BY <3>1, <3>2
  <2>2. QED
    BY <1>4, <2>1
<1>5. CASE step = "cover"
  <2>1. \E f : Steps(f, "cover", m, s) /\ Run("cover", m, s) = f[Len(s)]
    <3>1. PICK f : Steps(f, "cover", m, s) /\ Each(Cover, m, s) = f[Len(s)]
      BY EachCover, Zenon
    <3>2. Run("cover", m, s) = Each(Cover, m, s)
      BY RunIs
    <3>3. QED
      BY <3>1, <3>2
  <2>2. QED
    BY <1>5, <2>1
<1>6. CASE step = "uncover"
  <2>1. \E f : Steps(f, "uncover", m, s) /\ Run("uncover", m, s) = f[Len(s)]
    <3>1. PICK f : Steps(f, "uncover", m, s) /\ Each(Uncover, m, s) = f[Len(s)]
      BY EachUncover, Zenon
    <3>2. Run("uncover", m, s) = Each(Uncover, m, s)
      BY RunIs
    <3>3. QED
      BY <3>1, <3>2
  <2>2. QED
    BY <1>6, <2>1
<1>7. QED
  BY <1>1, <1>2, <1>3, <1>4, <1>5, <1>6 DEF Kinds

\* A run of three steps.
LEMMA RunThree ==
  ASSUME NEW step \in Kinds, NEW m, NEW a, NEW b, NEW c, NEW s, s = <<a, b, c>>
  PROVE  Run(step, m, s) = Do(step, Do(step, Do(step, m, a), b), c)
<1>1. Len(s) = 3
  OBVIOUS
<1>2. PICK f : Steps(f, step, m, s) /\ Run(step, m, s) = f[3]
  <2>1. Len(s) \in Nat
    BY <1>1
  <2>2. QED
    BY <1>1, <2>1, RunSteps, Zenon
<1>3. f[3] = Do(step, Do(step, Do(step, m, a), b), c)
  BY <1>2, ThreeSteps
<1>4. QED
  BY <1>2, <1>3, Zenon

\* The links along the rows.
Rowed(m, h, N) ==
  \A n \in (h + 1)..N : m.right[n] = RowAt(h, n, 1) /\ m.left[n] = RowAt(h, n, 3)

\* The other nodes of n's row.
Siblings(h, n) == {RowAt(h, n, 1), RowAt(h, n, 2), RowAt(h, n, 3)}

\* Only columns other than c differ.
NotIn(d, m, N, c) ==
  /\ d.name = m.name /\ d.col = m.col /\ d.right = m.right /\ d.left = m.left
  /\ \A n \in 1..N : m.col[n] = c =>
       d.down[n] = m.down[n] /\ d.up[n] = m.up[n] /\ d.size[n] = m.size[n]

\* The nodes of a row are different, and so are their columns.
LEMMA RowFacts ==
  ASSUME NEW h, NEW N, NEW col, Shape(col, h, N), NEW r \in (h + 1)..N,
         NEW m, IsMatrix(m, N), Rowed(m, h, N)
  PROVE  /\ \A i \in 1..3 : RowAt(h, r, i) \in (h + 1)..N /\ RowAt(h, r, i) # r
                            /\ col[RowAt(h, r, i)] # col[r]
         /\ RowAt(h, r, 1) # RowAt(h, r, 2) /\ RowAt(h, r, 1) # RowAt(h, r, 3)
         /\ RowAt(h, r, 2) # RowAt(h, r, 3)
         /\ col[RowAt(h, r, 1)] # col[RowAt(h, r, 2)]
         /\ col[RowAt(h, r, 1)] # col[RowAt(h, r, 3)]
         /\ col[RowAt(h, r, 2)] # col[RowAt(h, r, 3)]
         /\ Others(m.right, r) = <<RowAt(h, r, 1), RowAt(h, r, 2), RowAt(h, r, 3)>>
         /\ Others(m.left, r) = <<RowAt(h, r, 3), RowAt(h, r, 2), RowAt(h, r, 1)>>
         /\ Band(h, r) = {r} \cup Siblings(h, r)
<1>1. Fits(h, N)
  BY DEF Shape
<1>2. h \in Nat /\ N \in Nat
  BY ShapeFacts
<1>3. /\ \A i \in 1..3 : RowAt(h, r, i) \in (h + 1)..N /\ RowAt(h, r, i) # r
      /\ RowAt(h, r, 1) # RowAt(h, r, 2) /\ RowAt(h, r, 1) # RowAt(h, r, 3)
      /\ RowAt(h, r, 2) # RowAt(h, r, 3)
      /\ RowAt(h, RowAt(h, r, 1), 1) = RowAt(h, r, 2)
      /\ RowAt(h, RowAt(h, r, 2), 1) = RowAt(h, r, 3)
      /\ RowAt(h, RowAt(h, r, 3), 3) = RowAt(h, r, 2)
      /\ RowAt(h, RowAt(h, r, 1), 3) = r
      /\ RowAt(h, RowAt(h, r, 3), 1) = r
      /\ Band(h, r) = {r, RowAt(h, r, 1), RowAt(h, r, 2), RowAt(h, r, 3)}
  BY <1>1, RowCycle
<1>4. \A n \in (h + 1)..N : \A i \in 1..3 : col[RowAt(h, n, i)] # col[n]
  BY DEF Shape
<1>5. RowAt(h, RowAt(h, r, 1), 2) = RowAt(h, r, 3)
  <2>1. RowAt(h, r, 1) \in (h + 1)..N
    BY <1>3
  <2>2. RowAt(h, RowAt(h, RowAt(h, r, 1), 1), 1) = RowAt(h, RowAt(h, r, 1), 2)
    BY <1>1, <2>1, RowCycle
  <2>3. QED
    BY <1>3, <2>2
<1>6. \A n \in (h + 1)..N : col[RowAt(h, n, 1)] # col[n] /\ col[RowAt(h, n, 2)] # col[n]
                            /\ col[RowAt(h, n, 3)] # col[n]
  BY <1>4
<1>7. /\ RowAt(h, r, 1) \in (h + 1)..N /\ RowAt(h, r, 2) \in (h + 1)..N
      /\ RowAt(h, r, 3) \in (h + 1)..N
  BY <1>3
<1>8. /\ col[RowAt(h, r, 1)] # col[RowAt(h, r, 2)]
      /\ col[RowAt(h, r, 1)] # col[RowAt(h, r, 3)]
      /\ col[RowAt(h, r, 2)] # col[RowAt(h, r, 3)]
  BY <1>3, <1>5, <1>6, <1>7
<1>9. /\ m.right \in Seq(1..N) /\ Len(m.right) = N
      /\ m.left \in Seq(1..N) /\ Len(m.left) = N
  <2>1. m.right \in [1..N -> 1..N] /\ m.left \in [1..N -> 1..N]
    BY DEF IsMatrix
  <2>2. QED
    BY <1>2, <2>1, FunctionIsSeq
<1>10. /\ \A k \in (h + 1)..N : m.right[k] = RowAt(h, k, 1)
       /\ \A k \in (h + 1)..N : m.left[k] = RowAt(h, k, 3)
  BY DEF Rowed
<1>11. Others(m.right, r) = <<RowAt(h, r, 1), RowAt(h, r, 2), RowAt(h, r, 3)>>
  BY <1>1, <1>9, <1>10, RowRound
<1>12. Others(m.left, r) = <<RowAt(h, r, 3), RowAt(h, r, 2), RowAt(h, r, 1)>>
  BY <1>1, <1>9, <1>10, RowRound
<1>13. QED
  BY <1>3, <1>4, <1>8, <1>11, <1>12 DEF Siblings

\* A row's other nodes leave their columns, and can come back.
LEMMA HideNodes ==
  ASSUME NEW h, NEW N, NEW m, IsMatrix(m, N), Shape(m.col, h, N), Rowed(m, h, N),
         NEW F \in SUBSET (1..N), NEW r \in (h + 1)..N, Linked(m, h, F),
         \A j \in Siblings(h, r) : j \in F /\ m.col[j] \in F
  PROVE  /\ IsMatrix(HideRow(m, r), N)
         /\ NotIn(HideRow(m, r), m, N, m.col[r])
         /\ Linked(HideRow(m, r), h, F \ Siblings(h, r))
         /\ ShowRow(HideRow(m, r), r) = m
<1> DEFINE j1 == RowAt(h, r, 1)
           j2 == RowAt(h, r, 2)
           j3 == RowAt(h, r, 3)
           x == Detach(m, j1)
           y == Detach(x, j2)
           z == Detach(y, j3)
<1>1. /\ j1 \in (h + 1)..N /\ j2 \in (h + 1)..N /\ j3 \in (h + 1)..N
      /\ m.col[j1] # m.col[r] /\ m.col[j2] # m.col[r] /\ m.col[j3] # m.col[r]
      /\ j1 # j2 /\ j1 # j3 /\ j2 # j3
      /\ Others(m.right, r) = <<j1, j2, j3>>
      /\ Others(m.left, r) = <<j3, j2, j1>>
  <2>1. \A i \in 1..3 : RowAt(h, r, i) \in (h + 1)..N /\ m.col[RowAt(h, r, i)] # m.col[r]
    BY RowFacts
  <2>2. QED
    BY <2>1, RowFacts
<1>2. /\ j1 \in F /\ j2 \in F /\ j3 \in F /\ Siblings(h, r) = {j1, j2, j3}
      /\ m.col[j1] \in F /\ m.col[j2] \in F /\ m.col[j3] \in F
  BY DEF Siblings
<1> HIDE DEF j1, j2, j3
<1>3. /\ j1 > h /\ j2 > h /\ j3 > h /\ r \in 1..N
      /\ \A k \in 1..N : m.col[k] \in 1..h /\ m.col[k] # j1 /\ m.col[k] # j2 /\ m.col[k] # j3
  <2>1. \A k \in 1..N : m.col[k] \in 1..h
    BY ShapeFacts
  <2>2. h \in Nat /\ N \in Nat
    BY ShapeFacts
  <2>3. QED
    BY <1>1, <2>1, <2>2
<1>4. F \subseteq 1..N
  OBVIOUS
<1>5. /\ IsMatrix(x, N) /\ OnlyIn(x, m, N, m.col[j1]) /\ Linked(x, h, F \ {j1})
      /\ Attach(x, j1) = m
  BY <1>2, <1>3, DetachNode
<1> HIDE DEF x
<1>6. x.col = m.col /\ Shape(x.col, h, N)
  BY <1>5 DEF OnlyIn
<1>7. j2 \in F \ {j1} /\ x.col[j2] \in F \ {j1} /\ F \ {j1} \in SUBSET (1..N)
  BY <1>1, <1>2, <1>3, <1>4, <1>6
<1>8. /\ IsMatrix(y, N) /\ OnlyIn(y, x, N, x.col[j2]) /\ Linked(y, h, (F \ {j1}) \ {j2})
      /\ Attach(y, j2) = x
  <2>1. \A G : /\ G \in SUBSET (1..N) /\ j2 \in G /\ x.col[j2] \in G /\ Linked(x, h, G)
              => /\ IsMatrix(Detach(x, j2), N) /\ OnlyIn(Detach(x, j2), x, N, x.col[j2])
                 /\ Linked(Detach(x, j2), h, G \ {j2}) /\ Attach(Detach(x, j2), j2) = x
    BY <1>3, <1>5, <1>6, DetachNode
  <2>2. QED
    BY <1>5, <1>7, <2>1
<1> HIDE DEF y
<1>9. y.col = m.col /\ Shape(y.col, h, N)
  BY <1>6, <1>8 DEF OnlyIn
<1>10. /\ j3 \in (F \ {j1}) \ {j2} /\ y.col[j3] \in (F \ {j1}) \ {j2}
       /\ (F \ {j1}) \ {j2} \in SUBSET (1..N)
  BY <1>1, <1>2, <1>3, <1>4, <1>9
<1>11. /\ IsMatrix(z, N) /\ OnlyIn(z, y, N, y.col[j3])
       /\ Linked(z, h, ((F \ {j1}) \ {j2}) \ {j3}) /\ Attach(z, j3) = y
  <2>1. \A G : /\ G \in SUBSET (1..N) /\ j3 \in G /\ y.col[j3] \in G /\ Linked(y, h, G)
              => /\ IsMatrix(Detach(y, j3), N) /\ OnlyIn(Detach(y, j3), y, N, y.col[j3])
                 /\ Linked(Detach(y, j3), h, G \ {j3}) /\ Attach(Detach(y, j3), j3) = y
    BY <1>3, <1>8, <1>9, DetachNode, ZenonT(60)
  <2>2. QED
    BY <1>8, <1>10, <2>1
<1>12. HideRow(m, r) = z
  <2> DEFINE s == Others(m.right, r)
  <2>1. "detach" \in Kinds /\ s = <<j1, j2, j3>>
    BY <1>1 DEF Kinds
  <2>2. HideRow(m, r) = Each(Detach, m, s)
    BY Zenon DEF HideRow
  <2> HIDE DEF s
  <2>3. Run("detach", m, s) = Do("detach", Do("detach", Do("detach", m, j1), j2), j3)
    BY <2>1, RunThree
  <2>4. Do("detach", Do("detach", Do("detach", m, j1), j2), j3) = z
    BY DEF Do, x, y, z
  <2>5. QED
    BY <2>2, <2>3, <2>4, RunIs, Zenon
<1> HIDE DEF z
<1>13. z.left = m.left /\ z.col = m.col
  BY <1>5, <1>8, <1>11 DEF OnlyIn
<1>14. ShowRow(z, r) = m
  <2>1. ShowRow(z, r) = Attach(Attach(Attach(z, j3), j2), j1)
    <3> DEFINE s == Others(z.left, r)
    <3>1. "attach" \in Kinds /\ s = <<j3, j2, j1>>
      BY <1>1, <1>13 DEF Kinds
    <3>2. ShowRow(z, r) = Each(Attach, z, s)
      BY Zenon DEF ShowRow
    <3> HIDE DEF s
    <3>3. Run("attach", z, s) = Do("attach", Do("attach", Do("attach", z, j3), j2), j1)
      BY <3>1, RunThree
    <3>4. Do("attach", Do("attach", Do("attach", z, j3), j2), j1)
            = Attach(Attach(Attach(z, j3), j2), j1)
      BY DEF Do
    <3>5. QED
      BY <3>2, <3>3, <3>4, RunIs, Zenon
  <2>2. QED
    BY <1>5, <1>8, <1>11, <2>1
<1>15. NotIn(z, m, N, m.col[r])
  BY <1>1, <1>5, <1>6, <1>8, <1>9, <1>11 DEF OnlyIn, NotIn
<1>16. ((F \ {j1}) \ {j2}) \ {j3} = F \ Siblings(h, r)
  BY <1>2
<1>17. QED
  BY <1>11, <1>12, <1>14, <1>15, <1>16

\* A row is the row of each of its nodes, which are in different columns.
LEMMA BandFacts ==
  ASSUME NEW h, NEW N, NEW col, Shape(col, h, N), NEW r \in (h + 1)..N
  PROVE  /\ Band(h, r) = {r} \cup Siblings(h, r)
         /\ r \in Band(h, r) /\ r \notin Siblings(h, r)
         /\ \A k \in Band(h, r) : k \in (h + 1)..N /\ k \in 1..N /\ Band(h, k) = Band(h, r)
         /\ \A k, l \in Band(h, r) : col[k] = col[l] => k = l
<1>1. Fits(h, N)
  BY DEF Shape
<1>2. h \in Nat
  BY <1>1 DEF Fits
<1>3. /\ r \in Band(h, r)
      /\ \A k \in Band(h, r) : k \in (h + 1)..N /\ First(h, k) = First(h, r)
  BY <1>1, Rows
<1>4. ASSUME NEW n \in (h + 1)..N
      PROVE  Band(h, n) = {n} \cup Siblings(h, n) /\ n \notin Siblings(h, n)
  <2>1. /\ \A i \in 1..3 : RowAt(h, n, i) # n
        /\ Band(h, n) = {n, RowAt(h, n, 1), RowAt(h, n, 2), RowAt(h, n, 3)}
    BY <1>1, RowCycle
  <2>2. QED
    BY <2>1 DEF Siblings
<1>5. ASSUME NEW n \in (h + 1)..N, NEW l \in Siblings(h, n) PROVE col[l] # col[n]
  <2>1. \A i \in 1..3 : col[RowAt(h, n, i)] # col[n]
    BY DEF Shape
  <2>2. QED
    BY <2>1 DEF Siblings
<1>6. \A k \in Band(h, r) : k \in (h + 1)..N /\ k \in 1..N /\ Band(h, k) = Band(h, r)
  <2>1. ASSUME NEW k \in Band(h, r) PROVE k \in 1..N
    BY <1>2, <1>3
  <2>2. QED
    BY <1>3, <2>1 DEF Band
<1>7. ASSUME NEW k \in Band(h, r), NEW l \in Band(h, r), col[k] = col[l] PROVE k = l
  <2>1. k \in (h + 1)..N /\ Band(h, k) = Band(h, r)
    BY <1>6
  <2>2. l \in {k} \cup Siblings(h, k)
    BY <1>4, <2>1
  <2>3. QED
    BY <1>5, <1>7, <2>1, <2>2
<1>8. QED
  BY <1>3, <1>4, <1>6, <1>7

\* The nodes that are linked when the columns C are covered: the others'
\* headers, and the rows that cross none of them.
Free(col, h, N, C) ==
  {n \in 1..N : col[n] \notin C /\ (n > h => \A k \in Band(h, n) : col[k] \notin C)}

\* The nodes that are still linked: each with its header and its row.
LEMMA FreeFacts ==
  ASSUME NEW h, NEW N, NEW col, Shape(col, h, N), NEW C \in SUBSET (2..h)
  PROVE  /\ Free(col, h, N, C) \in SUBSET (1..N)
         /\ \A n \in Free(col, h, N, C) :
              /\ col[n] \in Free(col, h, N, C) /\ col[n] \notin C
              /\ n > h => \A k \in Band(h, n) : k \in Free(col, h, N, C) /\ col[k] \notin C
         /\ \A c \in (1..h) \ C : c \in Free(col, h, N, C) /\ col[c] = c
<1> DEFINE F == Free(col, h, N, C)
<1>1. /\ h \in Nat /\ N \in Nat
      /\ \A n \in 1..N : col[n] \in 1..h /\ col[n] \in 1..N
      /\ \A n \in 1..h : n \in 1..N /\ col[n] = n
  BY ShapeFacts
<1>2. F \in SUBSET (1..N)
  BY DEF Free
<1>3. \A c \in (1..h) \ C : c \in F /\ col[c] = c
  BY <1>1 DEF Free
<1>4. ASSUME NEW n \in F PROVE col[n] \in F /\ col[n] \notin C
  BY <1>1, <1>3 DEF Free
<1>5. ASSUME NEW n \in F, n > h, NEW k \in Band(h, n) PROVE k \in F /\ col[k] \notin C
  <2>1. n \in (h + 1)..N
    BY <1>1, <1>5 DEF Free
  <2>2. k \in 1..N /\ Band(h, k) = Band(h, n)
    BY <2>1, BandFacts
  <2>3. \A x \in Band(h, n) : col[x] \notin C
    BY <1>5 DEF Free
  <2>4. QED
    BY <1>5, <2>2, <2>3 DEF Free
<1>6. QED
  BY <1>2, <1>3, <1>4, <1>5

\* The matrix when the columns C are covered.
Heads(h, C) == (1..h) \ C
Good(m, h, N, C) ==
  /\ C \in SUBSET (2..h)
  /\ IsMatrix(m, N) /\ Shape(m.col, h, N) /\ Rowed(m, h, N)
  /\ \A c \in Heads(h, C) : /\ m.right[c] = After(Heads(h, C), c)
                            /\ m.left[c] = Before(Heads(h, C), c)
  /\ Linked(m, h, Free(m.col, h, N, C))

\* The walk down a column that is not covered, and up.
Column(h, N, m, C, c) == Good(m, h, N, C) /\ c \in (1..h) \ C
ColumnList(h, N, m, c, S) ==
  /\ S \in SUBSET (1..N) /\ c \in S
  /\ \A n \in S : n # c => n \in (h + 1)..N
  /\ \E w : /\ Ascending(w, S \ {c}) /\ Len(w) = Cardinality(S \ {c})
           /\ Others(m.down, c) = w /\ Others(m.up, c) = Reverse(w)

\* The rows of a column that is not covered are its free nodes.
LEMMA ColumnRound ==
  ASSUME NEW h, NEW N, NEW m, NEW C, NEW c, Column(h, N, m, C, c)
  PROVE  ColumnList(h, N, m, c, Lane(m.col, Free(m.col, h, N, C), c))
<1> DEFINE F == Free(m.col, h, N, C)
           S == Lane(m.col, F, c)
<1>0. Good(m, h, N, C) /\ c \in (1..h) \ C
  BY DEF Column
<1>13. S = Lane(m.col, F, c)
  OBVIOUS
<1> HIDE DEF S
<1>1. /\ h \in Nat /\ N \in Nat
      /\ \A n \in 1..N : m.col[n] \in 1..h /\ n \in Int
      /\ \A n \in 1..h : n \in 1..N /\ m.col[n] = n
  BY <1>0, ShapeFacts DEF Good
<1>2. F \in SUBSET (1..N) /\ c \in F /\ m.col[c] = c
  BY <1>0, FreeFacts DEF Good
<1> HIDE DEF F
<1>3. S \in SUBSET (1..N) /\ c \in S
  BY <1>2, <1>13 DEF Lane, F
<1>4. \A n \in S : n # c => n \in (h + 1)..N
  <2>1. ASSUME NEW n \in S, n # c PROVE n \in (h + 1)..N
    <3>1. n \in 1..N /\ m.col[n] = c
      BY <1>3, <1>13 DEF Lane
    <3>2. ~(n \in 1..h)
      BY <1>1, <2>1, <3>1
    <3>3. QED
      BY <1>1, <3>1, <3>2
  <2>2. QED
    BY <2>1
<1>5. \A n \in S : c <= n
  BY <1>0, <1>1, <1>4
<1>6. S \ {c} \in SUBSET (1..N)
  BY <1>3
<1>7. PICK w : Ascending(w, S \ {c}) /\ Len(w) = Cardinality(S \ {c})
  BY <1>1, <1>6, AscendingExists
<1>8. RingOf(m.down, N, S, c, w) /\ RingOf(m.up, N, S, c, w)
  <2>1. m.down \in [1..N -> 1..N] /\ m.up \in [1..N -> 1..N]
    BY <1>0 DEF Good, IsMatrix
  <2>2. QED
    BY <1>1, <1>3, <1>5, <1>7, <2>1 DEF RingOf
<1>9. ASSUME NEW n \in S PROVE m.down[n] = After(S, n) /\ m.up[n] = Before(S, n)
  <2>1. n \in F /\ m.col[n] = c
    BY <1>13 DEF Lane
  <2>2. Linked(m, h, F)
    BY <1>0 DEF Good, F
  <2>3. QED
    BY <1>13, <2>1, <2>2 DEF Linked
<1>10. Others(m.down, c) = w
  <2>1. \A n \in S : m.down[n] = After(S, n)
    BY <1>9
  <2>2. QED
    BY <1>8, <2>1, RingRound
<1>11. Others(m.up, c) = Reverse(w)
  <2>1. \A n \in S : m.up[n] = Before(S, n)
    BY <1>9
  <2>2. QED
    BY <1>8, <2>1, RingRound
<1>12. QED
  BY <1>3, <1>4, <1>7, <1>10, <1>11, <1>13 DEF ColumnList, F

\* The other nodes of the first k rows of w.
Gone(h, w, k) == UNION {Siblings(h, w[i]) : i \in 1..k}

\* After the first k rows of column c have been hidden.
Hidden(x, m, h, N, F, c, w, k) ==
  /\ IsMatrix(x, N) /\ NotIn(x, m, N, c)
  /\ Linked(x, h, F \ Gone(h, w, k))

\* Hiding one row after the other.
HidingAll(h, N, m, C, c, w, f) ==
  /\ IsMatrix(m, N) /\ Shape(m.col, h, N) /\ Rowed(m, h, N)
  /\ C \in SUBSET (2..h) /\ c \in (1..h) \ C
  /\ Linked(m, h, Free(m.col, h, N, C))
  /\ Ascending(w, Lane(m.col, Free(m.col, h, N, C), c) \ {c}) /\ Len(w) \in Nat
  /\ \A i \in 1..Len(w) : w[i] \in (h + 1)..N
  /\ Steps(f, "hide", m, w)

\* Every row of the column is hidden, and each can be shown again.
LEMMA HideAll ==
  ASSUME NEW h, NEW N, NEW m, NEW C, NEW c, NEW w, NEW f, HidingAll(h, N, m, C, c, w, f)
  PROVE  /\ \A k \in 0..Len(w) : Hidden(f[k], m, h, N, Free(m.col, h, N, C), c, w, k)
         /\ \A k \in 1..Len(w) : ShowRow(f[k], w[k]) = f[k - 1]
<1>0. /\ IsMatrix(m, N) /\ Shape(m.col, h, N) /\ Rowed(m, h, N)
      /\ C \in SUBSET (2..h) /\ c \in (1..h) \ C
      /\ Linked(m, h, Free(m.col, h, N, C))
      /\ Ascending(w, Lane(m.col, Free(m.col, h, N, C), c) \ {c}) /\ Len(w) \in Nat
      /\ \A i \in 1..Len(w) : w[i] \in (h + 1)..N
      /\ Steps(f, "hide", m, w)
  BY Zenon DEF HidingAll
<1> USE <1>0
<1> DEFINE F == Free(m.col, h, N, C)
           L == Len(w)
<1>1. /\ h \in Nat /\ N \in Nat
      /\ F \in SUBSET (1..N)
      /\ \A n \in F : /\ m.col[n] \in F
                      /\ n > h => \A k \in Band(h, n) : k \in F
      /\ \A n \in 1..N : m.col[n] \in 1..h
  BY ShapeFacts, FreeFacts
<1>2. f[0] = m /\ \A k \in 1..L : f[k] = HideRow(f[k - 1], w[k])
  <2>1. f[0] = m /\ \A k \in 1..L : f[k] = Do("hide", f[k - 1], w[k])
    BY StepsOf
  <2>2. QED
    BY <2>1 DEF Do
<1>3. \A i \in 1..L : w[i] \in F /\ m.col[w[i]] = c /\ w[i] \in (h + 1)..N
  <2>1. w \in Seq(Lane(m.col, F, c) \ {c})
    BY DEF Ascending
  <2>2. \A i \in 1..L : w[i] \in Lane(m.col, F, c)
    BY <2>1, ElementOfSeq
  <2>3. QED
    BY <2>2 DEF Lane
<1>4. \A i, j \in 1..L : i < j => w[i] < w[j]
  BY DEF Ascending
<1> HIDE DEF F, L
<1>5. L \in Nat
  BY DEF L
<1>6. ASSUME NEW k \in Nat, k + 1 <= L, Hidden(f[k], m, h, N, F, c, w, k)
      PROVE  /\ Hidden(f[k + 1], m, h, N, F, c, w, k + 1)
             /\ ShowRow(f[k + 1], w[k + 1]) = f[k]
  <2> DEFINE r == w[k + 1]
             G == F \ Gone(h, w, k)
             x == f[k]
  <2>1. k + 1 \in 1..L
    BY <1>5, <1>6
  <2>2. r \in F /\ m.col[r] = c /\ r \in (h + 1)..N /\ f[k + 1] = HideRow(x, r)
    BY <1>2, <1>3, <2>1
  <2>3. IsMatrix(x, N) /\ NotIn(x, m, N, c) /\ Linked(x, h, G)
    BY <1>6 DEF Hidden
  <2>4. x.col = m.col /\ x.name = m.name /\ x.right = m.right /\ x.left = m.left
    BY <2>3 DEF NotIn
  <2>5. Shape(x.col, h, N) /\ Rowed(x, h, N)
    BY <2>4 DEF Rowed
  <2> HIDE DEF r, x
  <2>6. /\ Band(h, r) = {r} \cup Siblings(h, r)
        /\ \A l \in Band(h, r) : l \in (h + 1)..N /\ Band(h, l) = Band(h, r)
        /\ \A l1, l2 \in Band(h, r) : m.col[l1] = m.col[l2] => l1 = l2
    BY <2>2, BandFacts
  <2>7. ASSUME NEW j \in Siblings(h, r), j \in Gone(h, w, k) PROVE FALSE
    <3>1. PICK i \in 1..k : j \in Siblings(h, w[i])
      BY <2>7 DEF Gone
    <3>2. i \in 1..L /\ i < k + 1
      BY <1>5, <1>6
    <3>3. w[i] < r /\ w[i] \in (h + 1)..N /\ m.col[w[i]] = c
      BY <1>3, <1>4, <2>1, <3>2 DEF r
    <3>4. /\ Band(h, w[i]) = {w[i]} \cup Siblings(h, w[i])
          /\ \A l \in Band(h, w[i]) : Band(h, l) = Band(h, w[i])
      BY <3>3, BandFacts
    <3>5. w[i] \in Band(h, r)
      BY <2>6, <3>1, <3>4
    <3>6. w[i] = r
      BY <2>2, <2>6, <3>3, <3>5
    <3>7. QED
      BY <2>2, <3>3, <3>6
  <2>8. ASSUME NEW n \in 1..h PROVE n \notin Gone(h, w, k)
    <3>1. ASSUME NEW i \in 1..k, n \in Siblings(h, w[i]) PROVE FALSE
      <4>1. i \in 1..L
        BY <1>5, <1>6
      <4>2. n \in (h + 1)..N
        BY <1>3, <3>1, <4>1, BandFacts
      <4>3. QED
        BY <1>1, <4>2
    <3>2. QED
      BY <3>1 DEF Gone
  <2>9. \A j \in Siblings(h, r) : j \in G /\ x.col[j] \in G
    <3>1. ASSUME NEW j \in Siblings(h, r) PROVE j \in G /\ x.col[j] \in G
      <4>1. r > h
        BY <1>1, <2>2
      <4>2. j \in F
        BY <1>1, <2>2, <2>6, <4>1
      <4>3. x.col[j] \in F /\ x.col[j] \in 1..h
        BY <1>1, <2>4, <4>2
      <4>4. QED
        BY <2>7, <2>8, <4>2, <4>3
    <3>2. QED
      BY <3>1
  <2>10. G \in SUBSET (1..N)
    BY <1>1
  <2> HIDE DEF G
  <2>11. /\ IsMatrix(HideRow(x, r), N) /\ NotIn(HideRow(x, r), x, N, x.col[r])
         /\ Linked(HideRow(x, r), h, G \ Siblings(h, r))
         /\ ShowRow(HideRow(x, r), r) = x
    BY <2>2, <2>3, <2>5, <2>9, <2>10, HideNodes, ZenonT(60)
  <2>12. NotIn(HideRow(x, r), m, N, c)
    BY <2>2, <2>3, <2>4, <2>11 DEF NotIn
  <2>13. G \ Siblings(h, r) = F \ Gone(h, w, k + 1)
    <3>1. Gone(h, w, k + 1) = Gone(h, w, k) \cup Siblings(h, r)
      <4>1. 1..(k + 1) = (1..k) \cup {k + 1}
        OBVIOUS
      <4>2. QED
        BY <4>1 DEF Gone, r
    <3>2. QED
      BY <3>1 DEF G
  <2>14. QED
    BY <2>2, <2>11, <2>12, <2>13 DEF Hidden, r, x
<1> DEFINE P == {k \in Nat : k <= L => Hidden(f[k], m, h, N, F, c, w, k)}
<1>7. 0 \in P
  <2>1. Gone(h, w, 0) = {}
    BY DEF Gone
  <2>2. F \ Gone(h, w, 0) = F /\ NotIn(m, m, N, c) /\ Linked(m, h, F)
    BY <2>1 DEF NotIn, F
  <2>3. QED
    BY <1>2, <2>2 DEF Hidden
<1>8. ASSUME NEW k \in Nat, k \in P PROVE k + 1 \in P
  BY <1>5, <1>6, <1>8
<1> HIDE DEF P
<1>9. Nat \subseteq P
  BY <1>7, <1>8, SetInduction
<1>10. \A k \in 0..L : Hidden(f[k], m, h, N, F, c, w, k)
  BY <1>5, <1>9 DEF P
<1>11. ASSUME NEW k \in 1..L PROVE ShowRow(f[k], w[k]) = f[k - 1]
  <2>1. k - 1 \in Nat /\ k - 1 + 1 = k /\ k - 1 + 1 <= L /\ k - 1 \in 0..L
    BY <1>5
  <2>2. QED
    BY <1>6, <1>10, <2>1
<1>12. QED
  BY <1>10, <1>11 DEF F, L

\* A column's header leaves the header list, and comes back.
Back(m, a, b, c) == [m EXCEPT !.left[a] = c, !.right[b] = c]
Away(m, c) == [m EXCEPT !.left[m.right[c]] = m.left[c],
                        !.right[m.left[c]] = m.right[c]]

\* Only the header list changes when a header leaves it.
LEMMA HeaderAway ==
  ASSUME NEW h, NEW N, NEW m, NEW C, Good(m, h, N, C),
         NEW c \in (2..h) \ C
  PROVE  /\ IsMatrix(Away(m, c), N) /\ Rowed(Away(m, c), h, N)
         /\ \A n \in Heads(h, C \cup {c}) :
              /\ Away(m, c).right[n] = After(Heads(h, C \cup {c}), n)
              /\ Away(m, c).left[n] = Before(Heads(h, C \cup {c}), n)
         /\ Away(m, c).name = m.name /\ Away(m, c).col = m.col
         /\ Away(m, c).down = m.down /\ Away(m, c).up = m.up /\ Away(m, c).size = m.size
         /\ Away(m, c).right[c] = m.right[c] /\ Away(m, c).left[c] = m.left[c]
         /\ Back(Away(m, c), m.right[c], m.left[c], c) = m
<1> DEFINE H == Heads(h, C)
           a == m.right[c]
           b == m.left[c]
           d == Away(m, c)
<1>1. /\ h \in Nat /\ N \in Nat /\ h <= N /\ 1 \in 1..h
      /\ \A n \in (h + 1)..N : n \in 1..N /\ ~(n \in 1..h)
  BY ShapeFacts DEF Good
<1>2. H \in SUBSET (1..N) /\ H \in SUBSET (1..h) /\ c \in H /\ 1 \in H /\ c # 1
      /\ Heads(h, C \cup {c}) = H \ {c} /\ Nodes(H)
  <2>1. C \in SUBSET (2..h)
    BY DEF Good
  <2>2. H \in SUBSET (1..N) /\ H \in SUBSET (1..h) /\ c \in H /\ 1 \in H /\ c # 1
        /\ Heads(h, C \cup {c}) = H \ {c}
    BY <1>1, <2>1 DEF Heads
  <2>3. QED
    BY <1>1, <2>2 DEF Nodes
<1>3. \A n \in H : m.right[n] = After(H, n) /\ m.left[n] = Before(H, n)
  BY DEF Good
<1>4. a = After(H, c) /\ b = Before(H, c)
  BY <1>2, <1>3
<1>5. a \in H /\ b \in H /\ Before(H, a) = c /\ After(H, b) = c /\ a # c /\ b # c
  <2>1. /\ After(H, c) \in H /\ Before(H, c) \in H
        /\ Before(H, After(H, c)) = c /\ After(H, Before(H, c)) = c
        /\ \A j \in H : j # c => After(H, c) # c /\ Before(H, c) # c
    BY <1>2, NodesAfter, Zenon
  <2>2. QED
    BY <1>2, <1>4, <2>1, Zenon
<1>6. a # c /\ b # c
  BY <1>5
<1>7. m.left[a] = c /\ m.right[b] = c
  BY <1>3, <1>5
<1>8. a \in 1..N /\ b \in 1..N /\ a \in 1..h /\ b \in 1..h /\ c \in 1..N
  BY <1>2, <1>5
<1>9. /\ m \in [name : [1..N -> Int], col : [1..N -> 1..N],
                right : [1..N -> 1..N], left : [1..N -> 1..N],
                down : [1..N -> 1..N], up : [1..N -> 1..N], size : [1..N -> Int]]
  BY DEF Good, IsMatrix
<1>10. d = [m EXCEPT !.left[a] = b, !.right[b] = a]
  BY DEF Away
<1>11. /\ d.name = m.name /\ d.col = m.col /\ d.down = m.down /\ d.up = m.up
       /\ d.size = m.size
       /\ d.left = [m.left EXCEPT ![a] = b] /\ d.right = [m.right EXCEPT ![b] = a]
  BY <1>9, <1>10
<1>12. IsMatrix(d, N)
  <2> DEFINE n == m.name
             o == m.col
             y == m.right
             z == m.left
             p == m.down
             q == m.up
             t == m.size
             u == [z EXCEPT ![a] = b]
             v == [y EXCEPT ![b] = a]
  <2>1. /\ n \in [1..N -> Int] /\ o \in [1..N -> 1..N]
        /\ y \in [1..N -> 1..N] /\ z \in [1..N -> 1..N]
        /\ p \in [1..N -> 1..N] /\ q \in [1..N -> 1..N] /\ t \in [1..N -> Int]
        /\ d = [name |-> n, col |-> o, right |-> v, left |-> u, down |-> p, up |-> q,
                size |-> t]
    BY <1>9, <1>10
  <2> HIDE DEF a, b, d, n, o, p, q, t, y, z
  <2>2. u \in [1..N -> 1..N] /\ v \in [1..N -> 1..N]
    BY <1>8, <2>1
  <2> HIDE DEF u, v
  <2>3. QED
    BY <2>1, <2>2 DEF IsMatrix
<1>13. d.right[c] = a /\ d.left[c] = b
  BY <1>6, <1>8, <1>9, <1>11
<1>14. Back(d, a, b, c) = m
  <2> DEFINE e == Back(d, a, b, c)
             y == m.right
             z == m.left
             u == d.left
             v == d.right
  <2>1. [u EXCEPT ![a] = c] = z
    BY <1>7, <1>8, <1>9, <1>11
  <2>2. [v EXCEPT ![b] = c] = y
    BY <1>7, <1>8, <1>9, <1>11
  <2>3. d = [name |-> m.name, col |-> m.col, right |-> v, left |-> u,
             down |-> m.down, up |-> m.up, size |-> m.size]
    BY <1>9, <1>10, <1>11
  <2>4. m = [name |-> m.name, col |-> m.col, right |-> y, left |-> z,
             down |-> m.down, up |-> m.up, size |-> m.size]
    BY <1>9
  <2> HIDE DEF a, b, d, u, v, y, z
  <2>5. e = [name |-> m.name, col |-> m.col, right |-> [v EXCEPT ![b] = c],
             left |-> [u EXCEPT ![a] = c],
             down |-> m.down, up |-> m.up, size |-> m.size]
    <3> DEFINE U == [u EXCEPT ![a] = c]
               V == [v EXCEPT ![b] = c]
    <3>1. d.left = u /\ d.right = v
      BY <2>3
    <3>2. e = [d EXCEPT !.left = U, !.right = V]
      <4>1. e = [[d EXCEPT !.left = [d.left EXCEPT ![a] = c]] EXCEPT
                   !.right = [d.right EXCEPT ![b] = c]]
        BY <2>3 DEF Back
      <4>2. QED
        BY <3>1, <4>1
    <3> HIDE DEF U, V
    <3>3. QED
      BY <2>3, <3>2 DEF U, V
  <2>6. QED
    BY <2>1, <2>2, <2>4, <2>5, Zenon
<1> HIDE DEF d
<1>15. Rowed(d, h, N)
  <2>1. ASSUME NEW n \in (h + 1)..N
        PROVE  d.right[n] = m.right[n] /\ d.left[n] = m.left[n]
    <3>1. n \in 1..N /\ n # a /\ n # b
      BY <1>1, <1>8
    <3>2. QED
      BY <1>9, <1>11, <3>1
  <2>2. Rowed(m, h, N)
    BY DEF Good
  <2>3. QED
    BY <2>1, <2>2 DEF Rowed
<1>16. ASSUME NEW n \in H \ {c}
       PROVE  d.right[n] = After(H \ {c}, n) /\ d.left[n] = Before(H \ {c}, n)
  <2>1. /\ After(H \ {c}, n) = IF n = b THEN a ELSE After(H, n)
        /\ Before(H \ {c}, n) = IF n = a THEN b ELSE Before(H, n)
    <3> DEFINE K == H
    <3>1. Nodes(K) /\ c \in K /\ n \in K /\ n # c
      BY <1>2
    <3> HIDE DEF K
    <3>2. /\ After(K \ {c}, n) = IF n = Before(K, c) THEN After(K, c) ELSE After(K, n)
          /\ Before(K \ {c}, n) = IF n = After(K, c) THEN Before(K, c) ELSE Before(K, n)
      BY <3>1, OneLess
    <3>3. QED
      BY <1>4, <3>2 DEF K
  <2>2. n \in 1..N /\ m.right[n] = After(H, n) /\ m.left[n] = Before(H, n)
    BY <1>2, <1>3
  <2>3. d.right[n] = (IF n = b THEN a ELSE m.right[n])
        /\ d.left[n] = (IF n = a THEN b ELSE m.left[n])
    BY <1>9, <1>11, <2>2
  <2>4. QED
    BY <2>1, <2>2, <2>3
<1>17. QED
  BY <1>2, <1>11, <1>12, <1>13, <1>14, <1>15, <1>16 DEF d

\* Covering a column, and uncovering it.
LEMMA CoverNode ==
  ASSUME NEW h, NEW N, NEW m, NEW C, Good(m, h, N, C),
         NEW c \in (2..h) \ C
  PROVE  /\ Good(Cover(m, c), h, N, C \cup {c})
         /\ Uncover(Cover(m, c), c) = m
         /\ Cover(m, c).name = m.name /\ Cover(m, c).col = m.col
         /\ \A n \in 1..N : m.col[n] = c => /\ Cover(m, c).down[n] = m.down[n]
                                            /\ Cover(m, c).up[n] = m.up[n]
<1> DEFINE F == Free(m.col, h, N, C)
           S == Lane(m.col, F, c)
           x == Away(m, c)
           D == C \cup {c}
<1>1. /\ IsMatrix(x, N) /\ Rowed(x, h, N)
      /\ \A n \in Heads(h, D) : /\ x.right[n] = After(Heads(h, D), n)
                                /\ x.left[n] = Before(Heads(h, D), n)
      /\ x.name = m.name /\ x.col = m.col
      /\ x.down = m.down /\ x.up = m.up /\ x.size = m.size
      /\ x.right[c] = m.right[c] /\ x.left[c] = m.left[c]
      /\ Back(x, m.right[c], m.left[c], c) = m
  BY HeaderAway
<1>2. IsMatrix(m, N) /\ Shape(m.col, h, N) /\ Linked(m, h, F)
  BY DEF Good
<1>3. Shape(x.col, h, N) /\ Linked(x, h, F) /\ F = Free(x.col, h, N, C)
  BY <1>1, <1>2 DEF Linked
<1>4. c \in (1..h) \ C /\ C \in SUBSET (2..h) /\ D \in SUBSET (2..h)
  BY DEF Good
<1>5. PICK w : /\ S \in SUBSET (1..N) /\ c \in S
               /\ \A n \in S : n # c => n \in (h + 1)..N
               /\ Ascending(w, S \ {c}) /\ Len(w) = Cardinality(S \ {c})
               /\ Others(m.down, c) = w /\ Others(m.up, c) = Reverse(w)
  <2>1. S = Lane(m.col, Free(m.col, h, N, C), c)
    OBVIOUS
  <2>2. Column(h, N, m, C, c)
    BY <1>4 DEF Column
  <2>3. ColumnList(h, N, m, c, S)
    BY <2>2, ColumnRound
  <2> HIDE DEF S
  <2>4. QED
    BY <2>3 DEF ColumnList
<1>6. Cover(m, c) = Each(HideRow, x, w)
  BY <1>5 DEF Cover, Away
<1>7. /\ w \in Seq(S \ {c}) /\ Len(w) \in Nat
      /\ \A i \in 1..Len(w) : w[i] \in S /\ w[i] \in (h + 1)..N
      /\ \A n \in S : n # c => \E i \in 1..Len(w) : w[i] = n
  <2>1. w \in Seq(S \ {c})
    BY <1>5 DEF Ascending
  <2>2. Len(w) \in Nat /\ \A i \in 1..Len(w) : w[i] \in S \ {c}
    BY <2>1, LenProperties, ElementOfSeq
  <2>3. \A n \in S : n # c => \E i \in 1..Len(w) : w[i] = n
    BY <1>5 DEF Ascending
  <2>4. QED
    BY <1>5, <2>1, <2>2, <2>3
<1>8. PICK f : Steps(f, "hide", x, w) /\ Each(HideRow, x, w) = f[Len(w)]
  BY <1>7, EachHide
<1> DEFINE d == f[Len(w)]
           G == F \ Gone(h, w, Len(w))
<1>9. /\ \A k \in 0..Len(w) : Hidden(f[k], x, h, N, F, c, w, k)
      /\ \A k \in 1..Len(w) : ShowRow(f[k], w[k]) = f[k - 1]
  <2>1. HidingAll(h, N, x, C, c, w, f)
    <3>1. Ascending(w, Lane(x.col, Free(x.col, h, N, C), c) \ {c})
      BY <1>1, <1>5
    <3>2. Linked(x, h, Free(x.col, h, N, C))
      BY <1>3
    <3> HIDE DEF x
    <3>3. QED
      BY <1>1, <1>3, <1>4, <1>7, <1>8, <3>1, <3>2, Zenon DEF HidingAll
  <2>2. F = Free(x.col, h, N, C)
    BY <1>3
  <2> HIDE DEF x, F
  <2>3. QED
    BY <2>1, <2>2, HideAll
<1>10. /\ IsMatrix(d, N) /\ d.name = m.name /\ d.col = m.col
       /\ d.right = x.right /\ d.left = x.left
       /\ \A n \in 1..N : m.col[n] = c => d.down[n] = m.down[n] /\ d.up[n] = m.up[n]
       /\ Linked(d, h, G)
  <2>1. Hidden(d, x, h, N, F, c, w, Len(w))
    BY <1>7, <1>9
  <2>2. QED
    BY <1>1, <2>1 DEF Hidden, NotIn
<1>11. Cover(m, c) = d
  BY <1>6, <1>8
<1> HIDE DEF d, x, F, S, D
<1>12. Linked(d, h, Free(d.col, h, N, D))
  <2> DEFINE E == Free(m.col, h, N, D)
  <2>1. ASSUME NEW n \in E PROVE n \in G /\ m.col[n] # c
    <3>1. n \in F /\ m.col[n] # c
      BY DEF Free, D, F
    <3>2. ASSUME NEW i \in 1..Len(w), n \in Siblings(h, w[i]) PROVE FALSE
      <4>1. w[i] \in (h + 1)..N /\ m.col[w[i]] = c
        BY <1>7 DEF S, Lane
      <4>2. n \in Band(h, w[i]) /\ n \in (h + 1)..N /\ w[i] \in Band(h, n)
        BY <1>2, <3>2, <4>1, BandFacts
      <4>3. n > h
        BY <1>2, <4>2, ShapeFacts
      <4>4. m.col[w[i]] \notin D
        BY <4>2, <4>3 DEF Free
      <4>5. QED
        BY <4>1, <4>4 DEF D
    <3>3. QED
      BY <3>1, <3>2 DEF Gone
  <2>2. ASSUME NEW n \in G, m.col[n] # c PROVE n \in E
    <3>1. n \in F /\ n \in 1..N /\ m.col[n] \notin C
      BY DEF F, Free
    <3>2. ASSUME n > h, NEW k \in Band(h, n), m.col[k] = c PROVE FALSE
      <4>1. n \in (h + 1)..N
        BY <1>2, <3>1, <3>2, ShapeFacts
      <4>2. k \in F /\ k \in (h + 1)..N /\ Band(h, k) = Band(h, n)
        <5>1. \A l \in Band(h, n) : l \in Free(m.col, h, N, C)
          BY <1>2, <1>4, <3>1, <3>2, FreeFacts DEF F
        <5>2. k \in (h + 1)..N /\ Band(h, k) = Band(h, n)
          BY <1>2, <3>2, <4>1, BandFacts
        <5>3. QED
          BY <3>2, <5>1, <5>2 DEF F
      <4>3. k \in S /\ k # c
        <5>1. c \in 1..h
          BY <1>4
        <5>2. k # c
          BY <1>2, <4>2, <5>1, ShapeFacts
        <5>3. QED
          BY <3>2, <4>2, <5>2 DEF S, Lane
      <4>4. PICK i \in 1..Len(w) : w[i] = k
        BY <1>7, <4>3
      <4>5. n \in {k} \cup Siblings(h, k)
        BY <1>2, <4>1, <4>2, BandFacts
      <4>6. n # k
        BY <2>2, <3>2
      <4>7. QED
        BY <4>4, <4>5, <4>6 DEF Gone
    <3>3. n > h => \A k \in Band(h, n) : m.col[k] \notin C
      BY <3>1 DEF F, Free
    <3>4. QED
      BY <2>2, <3>1, <3>2, <3>3 DEF Free, D
  <2>3. \A y : y # c => Lane(m.col, E, y) = Lane(m.col, G, y)
    BY <2>1, <2>2 DEF Lane
  <2> HIDE DEF E, G
  <2>4. \A n \in E : n \in G /\ m.col[n] # c
    BY <2>1
  <2>5. \A n \in E : /\ d.down[n] = After(Lane(d.col, E, d.col[n]), n)
                     /\ d.up[n] = Before(Lane(d.col, E, d.col[n]), n)
    BY <1>10, <2>3, <2>4 DEF Linked
  <2>6. ASSUME NEW n \in E, n <= h PROVE d.size[n] = Cardinality(Lane(d.col, E, n)) - 1
    <3>1. n \in 1..N /\ n \in 1..h
      <4>1. n \in 1..N
        BY DEF E, Free
      <4>2. QED
        BY <1>2, <2>6, <4>1, ShapeFacts
    <3>2. m.col[n] = n
      BY <1>2, <3>1, ShapeFacts
    <3>3. QED
      BY <1>10, <2>3, <2>4, <2>6, <3>2 DEF Linked
  <2>7. QED
    BY <1>10, <2>5, <2>6 DEF Linked, E
<1>13. Good(d, h, N, D)
  <2>1. Rowed(d, h, N)
    BY <1>1, <1>10 DEF Rowed
  <2>2. QED
    BY <1>1, <1>2, <1>4, <1>10, <1>12, <2>1 DEF Good
<1>14. Uncover(d, c) = m
  <2>1. Others(d.up, c) = Reverse(w)
    <3>1. N \in Nat /\ d.up \in [1..N -> 1..N] /\ h \in Nat /\ c \in Int
      <4>1. N \in Nat /\ h \in Nat
        BY <1>2, ShapeFacts
      <4>2. d.up \in [1..N -> 1..N]
        BY <1>10 DEF IsMatrix
      <4>3. QED
        BY <1>4, <4>1, <4>2
    <3>2. ASSUME NEW n \in S PROVE c <= n
      BY <1>4, <1>5, <3>1
    <3>3. RingOf(d.up, N, S, c, w)
      BY <1>5, <3>1, <3>2 DEF RingOf
    <3>4. ASSUME NEW n \in S PROVE d.up[n] = Before(S, n)
      <4>1. n \in F /\ n \in 1..N /\ m.col[n] = c
        BY <1>5 DEF S, Lane
      <4>2. m.up[n] = Before(S, n)
        BY <1>2, <4>1 DEF Linked, S
      <4>3. QED
        BY <1>10, <4>1, <4>2
    <3>5. QED
      BY <3>3, <3>4, RingRound
  <2> DEFINE t == Reverse(w)
  <2>2. Len(t) = Len(w) /\ \A k \in 1..Len(w) : t[k] = w[Len(w) - k + 1]
    <3>1. t = [k \in 1..Len(w) |-> w[Len(w) - k + 1]]
      BY DEF Reverse
    <3>2. \A k \in 1..Len(w) : Len(w) - k + 1 \in 1..Len(w)
      BY <1>7
    <3>3. t \in [1..Len(w) -> S]
      BY <1>7, <3>1, <3>2
    <3>4. QED
      BY <1>7, <3>1, <3>3, FunctionIsSeq
  <2>3. PICK g : Steps(g, "show", d, t) /\ Each(ShowRow, d, t) = g[Len(t)]
    BY <1>7, <2>2, EachShow
  <2>4. \A k \in 1..Len(w) : Do("show", f[k], w[k]) = f[k - 1]
    BY <1>9 DEF Do
  <2> HIDE DEF t
  <2>5. g[Len(t)] = x
    <3>1. Undoing("hide", "show", x, w, t, f, g)
      BY <1>7, <1>8, <2>2, <2>3, <2>4, Zenon DEF d, Undoing
    <3>2. QED
      BY <3>1, StepsUndone, Zenon
  <2>6. Uncover(d, c) = Back(x, d.right[c], d.left[c], c)
    BY <2>1, <2>3, <2>5 DEF Uncover, t, Back
  <2>7. QED
    BY <1>1, <1>10, <2>6
<1>15. QED
  BY <1>10, <1>11, <1>13, <1>14 DEF D

\* A run of one step.
LEMMA RunOne ==
  ASSUME NEW step \in Kinds, NEW m, NEW a, NEW s, s = <<a>>
  PROVE  Run(step, m, s) = Do(step, m, a)
<1>1. Len(s) = 1 /\ s[1] = a /\ Len(s) \in Nat
  OBVIOUS
<1>2. PICK f : Steps(f, step, m, s) /\ Run(step, m, s) = f[Len(s)]
  BY <1>1, RunSteps, Zenon
<1>3. f[0] = m /\ \A k \in 1..Len(s) : f[k] = Do(step, f[k - 1], s[k])
  BY <1>1, <1>2, StepsOf
<1>4. QED
  BY <1>1, <1>2, <1>3

\* A run of no step.
LEMMA RunNone ==
  ASSUME NEW step \in Kinds, NEW m, NEW s, s = <<>>
  PROVE  Run(step, m, s) = m
<1>1. Len(s) = 0 /\ Len(s) \in Nat
  OBVIOUS
<1>2. PICK f : Steps(f, step, m, s) /\ Run(step, m, s) = f[Len(s)]
  BY <1>1, RunSteps, Zenon
<1>3. f[0] = m
  BY <1>1, <1>2, StepsOf
<1>4. QED
  BY <1>1, <1>2, <1>3

\* A run for two sequences, one after the other.
LEMMA RunConcat ==
  ASSUME NEW step \in Kinds, NEW m, NEW E, NEW s, NEW t, s \in Seq(E), t \in Seq(E)
  PROVE  Run(step, m, s \o t) = Run(step, Run(step, m, s), t)
<1>1. Len(s) \in Nat /\ Len(t) \in Nat /\ Len(s \o t) \in Nat
  <2>1. s \o t \in Seq(E)
    BY ConcatProperties
  <2>2. QED
    BY <2>1, LenProperties
<1>2. PICK f : Steps(f, step, m, s) /\ Run(step, m, s) = f[Len(s)]
  BY <1>1, RunSteps, Zenon
<1>3. PICK g : Steps(g, step, f[Len(s)], t) /\ Run(step, f[Len(s)], t) = g[Len(t)]
  BY <1>1, RunSteps, Zenon
<1>4. PICK p : Steps(p, step, m, s \o t) /\ Run(step, m, s \o t) = p[Len(s \o t)]
  <2> DEFINE v == s \o t
  <2>1. Len(v) \in Nat
    BY <1>1
  <2> HIDE DEF v
  <2>2. \E p : Steps(p, step, m, v) /\ Run(step, m, v) = p[Len(v)]
    BY <2>1, RunSteps, Zenon
  <2>3. QED
    BY <2>2 DEF v
<1>5. p[Len(s \o t)] = g[Len(t)]
  BY <1>2, <1>3, <1>4, StepsConcat
<1>6. QED
  BY <1>2, <1>3, <1>4, <1>5, Zenon

\* Columns that are covered one after the other, when the columns C already are.
Members(s) == {s[i] : i \in 1..Len(s)}
Covering(h, N, m, C, s) ==
  /\ Good(m, h, N, C) /\ s \in Seq(2..h) /\ Distinct(s) /\ \A x \in Members(s) : x \notin C

CanUncover(h, N, m, C, s, f) ==
  /\ Good(f[Len(s)], h, N, C \cup Members(s))
  /\ f[Len(s)].name = m.name /\ f[Len(s)].col = m.col
  /\ \A k \in 1..Len(s) : Uncover(f[k], s[k]) = f[k - 1]

\* Covering columns one after the other can be undone at every step.
LEMMA CoverAll ==
  ASSUME NEW h, NEW N, NEW m, NEW C, NEW s, Covering(h, N, m, C, s),
         NEW f, Steps(f, "cover", m, s)
  PROVE  CanUncover(h, N, m, C, s, f)
<1> DEFINE L == Len(s)
           First_(k) == {s[i] : i \in 1..k}
           P(k) == /\ Good(f[k], h, N, C \cup First_(k))
                   /\ f[k].name = m.name /\ f[k].col = m.col
           S == {k \in Nat : k <= L => P(k)}
<1>1. L \in Nat /\ \A i \in 1..L : s[i] \in 2..h /\ s[i] \notin C
  <2>1. L \in Nat /\ \A i \in 1..L : s[i] \in 2..h
    BY LenProperties, ElementOfSeq DEF Covering
  <2>2. QED
    BY <2>1 DEF Covering, Members
<1>2. f[0] = m /\ \A k \in 1..L : f[k] = Cover(f[k - 1], s[k])
  <2>1. f[0] = m /\ \A k \in 1..L : f[k] = Do("cover", f[k - 1], s[k])
    BY <1>1, StepsOf
  <2>2. QED
    BY <2>1 DEF Do
<1>3. Good(m, h, N, C) /\ Distinct(s)
  BY DEF Covering
<1> HIDE DEF L
<1>4. ASSUME NEW k \in Nat, k + 1 <= L, P(k)
      PROVE  P(k + 1) /\ Uncover(f[k + 1], s[k + 1]) = f[k]
  <2>1. k + 1 \in 1..L /\ k + 1 - 1 = k
    BY <1>1, <1>4
  <2>2. First_(k + 1) = First_(k) \cup {s[k + 1]}
    <3>1. 1..(k + 1) = (1..k) \cup {k + 1}
      OBVIOUS
    <3>2. QED
      BY <3>1
  <2>3. s[k + 1] \notin First_(k)
    <3>1. ASSUME NEW i \in 1..k, s[i] = s[k + 1] PROVE FALSE
      <4>1. i \in 1..L /\ i # k + 1
        BY <1>1, <1>4
      <4>2. QED
        BY <1>3, <2>1, <3>1, <4>1 DEF Distinct, L
    <3>2. QED
      BY <3>1
  <2>4. s[k + 1] \in (2..h) \ (C \cup First_(k))
    BY <1>1, <2>1, <2>3
  <2> DEFINE x == f[k]
             c == s[k + 1]
             D == C \cup First_(k)
  <2>5. Good(x, h, N, D) /\ c \in (2..h) \ D /\ x.name = m.name /\ x.col = m.col
    BY <1>4, <2>4
  <2>6. f[k + 1] = Cover(x, c)
    BY <1>2, <2>1
  <2>7. C \cup First_(k + 1) = D \cup {c}
    BY <2>2
  <2> HIDE DEF x, c, D, First_
  <2>8. /\ Good(Cover(x, c), h, N, D \cup {c}) /\ Uncover(Cover(x, c), c) = x
        /\ Cover(x, c).name = x.name /\ Cover(x, c).col = x.col
    BY <2>5, CoverNode
  <2>9. QED
    BY <2>5, <2>6, <2>7, <2>8 DEF x, c
<1>5. 0 \in S
  <2>1. First_(0) = {}
    OBVIOUS
  <2>2. C \cup First_(0) = C
    BY <2>1
  <2> HIDE DEF First_
  <2>3. QED
    BY <1>2, <1>3, <2>2
<1> HIDE DEF P
<1>6. ASSUME NEW k \in Nat, k \in S PROVE k + 1 \in S
  BY <1>1, <1>4, <1>6
<1> HIDE DEF S
<1>7. Nat \subseteq S
  BY <1>5, <1>6, SetInduction
<1>8. \A k \in 0..L : P(k)
  BY <1>1, <1>7 DEF S
<1>9. ASSUME NEW k \in 1..L PROVE Uncover(f[k], s[k]) = f[k - 1]
  <2>1. k - 1 \in Nat /\ k - 1 + 1 = k /\ k - 1 + 1 <= L /\ k - 1 \in 0..L
    BY <1>1
  <2>2. QED
    BY <1>4, <1>8, <2>1
<1>10. P(L)
  BY <1>1, <1>8
<1>11. QED
  BY <1>9, <1>10 DEF P, L, Members, CanUncover

\* What is covered can be uncovered, latest first.
LEMMA CoverUndone ==
  ASSUME NEW h, NEW N, NEW m, NEW C, NEW s, Covering(h, N, m, C, s),
         NEW t, Len(t) = Len(s), \A k \in 1..Len(s) : t[k] = s[Len(s) - k + 1]
  PROVE  /\ Good(Run("cover", m, s), h, N, C \cup Members(s))
         /\ Run("cover", m, s).name = m.name /\ Run("cover", m, s).col = m.col
         /\ Run("uncover", Run("cover", m, s), t) = m
<1>1. Len(s) \in Nat /\ Len(t) \in Nat /\ "cover" \in Kinds /\ "uncover" \in Kinds
  BY LenProperties DEF Covering, Kinds
<1>2. PICK f : Steps(f, "cover", m, s) /\ Run("cover", m, s) = f[Len(s)]
  BY <1>1, RunSteps, ZenonT(60)
<1>3. PICK g : Steps(g, "uncover", f[Len(s)], t) /\ Run("uncover", f[Len(s)], t) = g[Len(t)]
  BY <1>1, RunSteps, ZenonT(60)
<1>4. /\ Good(f[Len(s)], h, N, C \cup Members(s))
      /\ f[Len(s)].name = m.name /\ f[Len(s)].col = m.col
      /\ \A k \in 1..Len(s) : Uncover(f[k], s[k]) = f[k - 1]
  <2>1. CanUncover(h, N, m, C, s, f)
    BY <1>2, CoverAll
  <2>2. QED
    BY <2>1 DEF CanUncover
<1>5. \A k \in 1..Len(s) : Do("uncover", f[k], s[k]) = f[k - 1]
  BY <1>4 DEF Do
<1>6. Undoing("cover", "uncover", m, s, t, f, g)
  BY <1>1, <1>2, <1>3, <1>5, Zenon DEF Undoing
<1>7. g[Len(t)] = m
  BY <1>6, StepsUndone
<1>8. QED
  BY <1>2, <1>3, <1>4, <1>7, Zenon
-----------------------------------------------------------------------------
(* The frames, and the columns that they have covered.                     *)

\* The other columns of row r, and what frame k of fr has covered: its column,
\* and the other columns of its row unless it is the last and its row is not chosen yet.
ColsOf(col, h, r) == <<col[RowAt(h, r, 1)], col[RowAt(h, r, 2)], col[RowAt(h, r, 3)]>>
TakenBy(e, p, col, h) ==
  IF p = "next" THEN <<e.col>> ELSE <<e.col>> \o ColsOf(col, h, e.row)
Mode(fr, p, k) == IF k = Len(fr) THEN p ELSE "call"
Taken(fr, p, col, h, k) == TakenBy(fr[k], Mode(fr, p, k), col, h)

\* u[k]: what the first k frames have covered.
Trail(u, fr, p, col, h) ==
  u = [k \in 0..Len(fr) |-> IF k = 0 THEN <<>> ELSE u[k - 1] \o Taken(fr, p, col, h, k)]

\* Frame e has chosen a column that is not covered and a row that crosses no
\* covered column, or no row yet.
FrameFits(e, p, col, h, N, covered) ==
  /\ e.col \in 2..h /\ e.col \notin Members(covered)
  /\ e.row \in Lane(col, Free(col, h, N, Members(covered)), e.col)
  /\ p # "next" => e.row > h

Search(u, fr, p, col, h, N) ==
  /\ Shape(col, h, N)
  /\ fr \in Seq([col : 1..N, row : 1..N])
  /\ Trail(u, fr, p, col, h)
  /\ \A k \in 0..Len(fr) : u[k] \in Seq(2..h) /\ Distinct(u[k])
  /\ \A k \in 1..Len(fr) : FrameFits(fr[k], Mode(fr, p, k), col, h, N, u[k - 1])

\* A sequence of one and one of three.
LEMMA OneAndThree ==
  ASSUME NEW a, NEW b, NEW c, NEW d
  PROVE  <<a>> \o <<b, c, d>> = <<a, b, c, d>>
<1> DEFINE s == <<a>>
           t == <<b, c, d>>
           w == <<a, b, c, d>>
           E == {a, b, c, d}
<1>1. /\ s \in Seq(E) /\ t \in Seq(E) /\ w \in Seq(E)
      /\ Len(s) = 1 /\ Len(t) = 3 /\ Len(w) = 4
      /\ s[1] = a /\ t[1] = b /\ t[2] = c /\ t[3] = d
      /\ w[1] = a /\ w[2] = b /\ w[3] = c /\ w[4] = d
  OBVIOUS
<1> HIDE DEF s, t, w
<1>2. /\ s \o t \in Seq(E) /\ Len(s \o t) = 4
      /\ \A i \in 1..4 : (s \o t)[i] = IF i <= 1 THEN s[i] ELSE t[i - 1]
  <2>1. /\ s \o t \in Seq(E) /\ Len(s \o t) = Len(s) + Len(t)
        /\ \A i \in 1..Len(s) + Len(t) :
             (s \o t)[i] = IF i <= Len(s) THEN s[i] ELSE t[i - Len(s)]
    BY <1>1, ConcatProperties, Zenon
  <2>2. Len(s) + Len(t) = 4
    BY <1>1
  <2>3. QED
    BY <1>1, <2>1, <2>2
<1>3. ASSUME NEW i \in 1..4 PROVE (s \o t)[i] = w[i]
  <2>1. i = 1 \/ i = 2 \/ i = 3 \/ i = 4
    OBVIOUS
  <2>2. QED
    BY <1>1, <1>2, <2>1
<1>4. s \o t = w
  BY <1>1, <1>2, <1>3, SeqEqual, SMTT(30)
<1>5. QED
  BY <1>4 DEF s, t, w

\* What a frame covers are columns, none of them twice.
LEMMA FrameCovers ==
  ASSUME NEW col, NEW h, NEW N, Shape(col, h, N), NEW s, s \in Seq(2..h), Distinct(s),
         NEW e, NEW p, FrameFits(e, p, col, h, N, s)
  PROVE  /\ TakenBy(e, p, col, h) \in Seq(2..h)
         /\ s \o TakenBy(e, p, col, h) \in Seq(2..h)
         /\ Distinct(TakenBy(e, p, col, h))
         /\ Distinct(s \o TakenBy(e, p, col, h))
         /\ \A x \in Members(TakenBy(e, p, col, h)) : x \notin Members(s)
         /\ Members(s) \in SUBSET (2..h)
<1> DEFINE t == TakenBy(e, p, col, h)
<1>1. Len(s) \in Nat /\ \A x : x \in Members(s) <=> IsIn(x, s)
  BY LenProperties DEF Members, IsIn
<1>2. Members(s) \in SUBSET (2..h)
  BY <1>1, ElementOfSeq, ZenonT(60) DEF Members
<1>3. /\ e.col \in 2..h /\ e.col \notin Members(s)
      /\ e.row \in Lane(col, Free(col, h, N, Members(s)), e.col)
      /\ p # "next" => e.row > h
  BY DEF FrameFits
<1>4. ASSUME t \in Seq(2..h), Distinct(t), \A i \in 1..Len(t) : t[i] \notin Members(s)
      PROVE  /\ s \o t \in Seq(2..h) /\ Distinct(s \o t)
             /\ \A x \in Members(t) : x \notin Members(s)
  <2>1. \A x : ~(IsIn(x, s) /\ IsIn(x, t))
    BY <1>1, <1>4 DEF IsIn
  <2>2. s \o t \in Seq(2..h) /\ Distinct(s \o t)
    BY <1>4, <2>1, ConcatIn
  <2>3. QED
    BY <1>4, <2>2 DEF Members
<1>5. CASE p = "next"
  <2>1. t = <<e.col>>
    BY <1>5 DEF TakenBy
  <2>2. t \in Seq(2..h) /\ Len(t) = 1 /\ t[1] = e.col
    BY <1>3, <2>1
  <2> HIDE DEF t
  <2>3. Distinct(t) /\ \A i \in 1..Len(t) : t[i] \notin Members(s)
    BY <1>3, <2>2 DEF Distinct
  <2>4. QED
    BY <1>2, <1>4, <2>2, <2>3 DEF t
<1>6. CASE p # "next"
  <2> DEFINE r == e.row
             c == e.col
             c1 == col[RowAt(h, r, 1)]
             c2 == col[RowAt(h, r, 2)]
             c3 == col[RowAt(h, r, 3)]
  <2>1. r \in (h + 1)..N /\ r \in Free(col, h, N, Members(s)) /\ col[r] = c
    <3>1. r \in 1..N /\ r > h /\ h \in Nat /\ N \in Nat
      BY <1>3, <1>6, ShapeFacts DEF Lane, Free
    <3>2. QED
      BY <1>3, <3>1 DEF Lane
  <2>2. /\ Band(h, r) = {r, RowAt(h, r, 1), RowAt(h, r, 2), RowAt(h, r, 3)}
        /\ \A k \in Band(h, r) : k \in (h + 1)..N /\ k \in 1..N
        /\ \A k, l \in Band(h, r) : col[k] = col[l] => k = l
    BY <2>1, BandFacts DEF Siblings
  <2>3. /\ RowAt(h, r, 1) # r /\ RowAt(h, r, 2) # r /\ RowAt(h, r, 3) # r
        /\ RowAt(h, r, 1) # RowAt(h, r, 2) /\ RowAt(h, r, 1) # RowAt(h, r, 3)
        /\ RowAt(h, r, 2) # RowAt(h, r, 3)
    <3>1. Fits(h, N)
      BY DEF Shape
    <3>2. /\ \A i \in 1..3 : RowAt(h, r, i) # r
          /\ RowAt(h, r, 1) # RowAt(h, r, 2) /\ RowAt(h, r, 1) # RowAt(h, r, 3)
          /\ RowAt(h, r, 2) # RowAt(h, r, 3)
      BY <2>1, <3>1, RowCycle
    <3>3. QED
      BY <3>2
  <2>4. \A k \in Band(h, r) : col[k] \notin Members(s) /\ col[k] \in 2..h
    <3>1. \A k \in Band(h, r) : col[k] \notin Members(s)
      <4>1. r > h
        BY <1>3, <1>6
      <4>2. QED
        BY <2>1, <4>1 DEF Free
    <3>2. ASSUME NEW k \in Band(h, r) PROVE col[k] \in 2..h
      <4>1. col[k] \in 1..h /\ col[k] # 1 /\ h \in Nat
        BY <2>2, ShapeFacts, SMTT(30)
      <4>2. QED
        BY <4>1
    <3>3. QED
      BY <3>1, <3>2
  <2>5. /\ c1 \in 2..h /\ c2 \in 2..h /\ c3 \in 2..h
        /\ c1 \notin Members(s) /\ c2 \notin Members(s) /\ c3 \notin Members(s)
        /\ c # c1 /\ c # c2 /\ c # c3 /\ c1 # c2 /\ c1 # c3 /\ c2 # c3
    BY <2>1, <2>2, <2>3, <2>4
  <2>6. t = <<c>> \o <<c1, c2, c3>>
    BY <1>6 DEF TakenBy, ColsOf
  <2> HIDE DEF c, c1, c2, c3, r
  <2>7. t = <<c, c1, c2, c3>>
    BY <2>6, OneAndThree, Zenon
  <2> HIDE DEF t
  <2>8. Len(t) = 4 /\ t[1] = c /\ t[2] = c1 /\ t[3] = c2 /\ t[4] = c3
    BY <2>7
  <2>9. t \in Seq(2..h)
    BY <1>3, <2>5, <2>7 DEF c
  <2>10. \A i \in 1..4 : i = 1 \/ i = 2 \/ i = 3 \/ i = 4
    OBVIOUS
  <2>11. Distinct(t)
    BY <2>5, <2>8, <2>10 DEF Distinct
  <2>12. \A i \in 1..Len(t) : t[i] \notin Members(s)
    BY <1>3, <2>5, <2>8, <2>10 DEF c
  <2>13. QED
    BY <1>2, <1>4, <2>9, <2>11, <2>12 DEF t
<1>7. QED
  BY <1>5, <1>6

\* The columns covered grow by those that each frame has taken.
LEMMA TrailOf ==
  ASSUME NEW u, NEW fr, NEW p, NEW col, NEW h, NEW N, Search(u, fr, p, col, h, N)
  PROVE  /\ Len(fr) \in Nat /\ u[0] = <<>>
         /\ \A k \in 1..Len(fr) : u[k] = u[k - 1] \o Taken(fr, p, col, h, k)
<1>1. Len(fr) \in Nat
  BY LenProperties DEF Search
<1>2. \A k \in 0..Len(fr) :
        u[k] = IF k = 0 THEN <<>> ELSE u[k - 1] \o Taken(fr, p, col, h, k)
  <2>1. Trail(u, fr, p, col, h)
    BY DEF Search
  <2>2. QED
    BY <2>1 DEF Trail
<1>3. 0 \in 0..Len(fr) /\ \A k \in 1..Len(fr) : k \in 0..Len(fr) /\ k # 0
  BY <1>1
<1>4. QED
  BY <1>1, <1>2, <1>3, Zenon

\* Only the first n frames, all of them with their rows.
Cutting(u, fr, p, col, h, N, n, g, q, v) ==
  /\ Search(u, fr, p, col, h, N) /\ n \in Nat /\ n <= Len(fr)
  /\ p = "next" => n < Len(fr)
  /\ g = SubSeq(fr, 1, n) /\ q # "next" /\ v = [k \in 0..n |-> u[k]]

\* The first frames have covered the first columns.
LEMMA CutTrail ==
  ASSUME NEW u, NEW fr, NEW p, NEW col, NEW h, NEW N, NEW n, NEW g, NEW q, NEW v,
         Cutting(u, fr, p, col, h, N, n, g, q, v)
  PROVE  Search(v, g, q, col, h, N) /\ Len(g) = n
<1> USE DEF Cutting
<1>1. /\ Len(fr) \in Nat /\ u[0] = <<>>
      /\ \A k \in 1..Len(fr) : u[k] = u[k - 1] \o Taken(fr, p, col, h, k)
  BY TrailOf
<1>2. /\ fr \in Seq([col : 1..N, row : 1..N]) /\ Shape(col, h, N)
      /\ \A k \in 0..Len(fr) : u[k] \in Seq(2..h) /\ Distinct(u[k])
      /\ \A k \in 1..Len(fr) : FrameFits(fr[k], Mode(fr, p, k), col, h, N, u[k - 1])
  BY DEF Search
<1>3. /\ g \in Seq([col : 1..N, row : 1..N]) /\ Len(g) = n
      /\ \A k \in 1..n : g[k] = fr[k]
  <2> DEFINE E == [col : 1..N, row : 1..N]
  <2>1. fr \in Seq(E)
    BY <1>2
  <2> HIDE DEF E
  <2>2. \A i \in 1..n : fr[i] \in E
    BY <1>1, <2>1, ElementOfSeq
  <2>3. /\ SubSeq(fr, 1, n) \in Seq(E)
        /\ Len(SubSeq(fr, 1, n)) = IF 1 <= n THEN n - 1 + 1 ELSE 0
        /\ \A i \in 1..n - 1 + 1 : SubSeq(fr, 1, n)[i] = fr[1 + i - 1]
    BY <2>2, SubSeqProperties
  <2>4. Len(g) = n /\ \A i \in 1..n : g[i] = fr[i]
    BY <2>3
  <2>5. QED
    BY <2>3, <2>4 DEF E
<1>4. \A k \in 0..n : v[k] = u[k]
  OBVIOUS
<1>5. ASSUME NEW k \in 1..n
      PROVE  /\ k \in 1..Len(fr) /\ Mode(fr, p, k) # "next" /\ Mode(g, q, k) # "next"
             /\ v[k] = u[k] /\ v[k - 1] = u[k - 1] /\ g[k] = fr[k]
  <2>1. k \in 0..n /\ k - 1 \in 0..n /\ k \in 1..Len(fr)
    BY <1>1
  <2>2. Mode(fr, p, k) # "next" /\ Mode(g, q, k) # "next"
    BY <1>1, <2>1 DEF Mode
  <2>3. QED
    BY <1>3, <1>4, <2>1, <2>2
<1>6. ASSUME NEW k \in 1..n
      PROVE  /\ v[k] = v[k - 1] \o Taken(g, q, col, h, k)
             /\ FrameFits(g[k], Mode(g, q, k), col, h, N, v[k - 1])
  <2>1. u[k] = u[k - 1] \o Taken(fr, p, col, h, k)
    BY <1>1, <1>5
  <2>2. Taken(g, q, col, h, k) = Taken(fr, p, col, h, k)
    BY <1>5 DEF Taken, TakenBy
  <2>3. FrameFits(fr[k], Mode(fr, p, k), col, h, N, u[k - 1])
    BY <1>2, <1>5
  <2>4. FrameFits(g[k], Mode(g, q, k), col, h, N, v[k - 1])
    BY <1>5, <2>3 DEF FrameFits
  <2>5. QED
    BY <1>5, <2>1, <2>2, <2>4
<1>7. Trail(v, g, q, col, h)
  <2>1. ASSUME NEW k \in 0..n
        PROVE  v[k] = IF k = 0 THEN <<>> ELSE v[k - 1] \o Taken(g, q, col, h, k)
    <3>1. CASE k = 0
      BY <1>1, <1>4, <3>1
    <3>2. CASE k \in 1..n
      <4>1. v[k] = v[k - 1] \o Taken(g, q, col, h, k)
        BY <1>6, <3>2
      <4>2. k # 0
        BY <3>2
      <4>3. QED
        BY <4>1, <4>2, Zenon
    <3>3. k = 0 \/ k \in 1..n
      OBVIOUS
    <3>4. QED
      BY <3>1, <3>2, <3>3, Zenon
  <2>2. v = [k \in 0..n |-> IF k = 0 THEN <<>> ELSE v[k - 1] \o Taken(g, q, col, h, k)]
    BY <2>1
  <2>3. QED
    BY <1>3, <2>2 DEF Trail
<1>8. \A k \in 0..n : v[k] \in Seq(2..h) /\ Distinct(v[k])
  <2>1. \A k \in 0..n : k \in 0..Len(fr)
    BY <1>1
  <2>2. QED
    BY <1>2, <1>4, <2>1, Zenon
<1>9. \A k \in 1..n : FrameFits(g[k], Mode(g, q, k), col, h, N, v[k - 1])
  BY <1>6
<1>10. QED
  BY <1>2, <1>3, <1>7, <1>8, <1>9 DEF Search

\* One frame more.
Pushing(u, fr, p, col, h, N, e, g) ==
  /\ Search(u, fr, "call", col, h, N) /\ e \in [col : 1..N, row : 1..N]
  /\ FrameFits(e, p, col, h, N, u[Len(fr)]) /\ g = Append(fr, e)
Pushed(u, fr, p, col, h, N, e, g) ==
  \E v : /\ Search(v, g, p, col, h, N) /\ Len(g) = Len(fr) + 1
        /\ v[Len(g)] = u[Len(fr)] \o TakenBy(e, p, col, h)
        /\ v[Len(fr)] = u[Len(fr)]

\* A further frame covers further columns.
LEMMA PushTrail ==
  ASSUME NEW u, NEW fr, NEW p, NEW col, NEW h, NEW N, NEW e, NEW g,
         Pushing(u, fr, p, col, h, N, e, g)
  PROVE  Pushed(u, fr, p, col, h, N, e, g)
<1> USE DEF Pushing
<1> DEFINE n == Len(fr)
           v == [k \in 0..(n + 1) |-> IF k = n + 1 THEN u[n] \o TakenBy(e, p, col, h)
                                      ELSE u[k]]
<1>1. /\ n \in Nat /\ u[0] = <<>>
      /\ \A k \in 1..n : u[k] = u[k - 1] \o Taken(fr, "call", col, h, k)
  <2>1. /\ Len(fr) \in Nat /\ u[0] = <<>>
        /\ \A k \in 1..Len(fr) : u[k] = u[k - 1] \o Taken(fr, "call", col, h, k)
    <3> HIDE DEF n, v
    <3>1. QED
      BY TrailOf
  <2>2. QED
    BY <2>1
<1>2. /\ fr \in Seq([col : 1..N, row : 1..N]) /\ Shape(col, h, N)
      /\ \A k \in 0..n : u[k] \in Seq(2..h) /\ Distinct(u[k])
      /\ \A k \in 1..n : FrameFits(fr[k], Mode(fr, "call", k), col, h, N, u[k - 1])
  BY DEF Search
<1>3. /\ g \in Seq([col : 1..N, row : 1..N]) /\ Len(g) = n + 1 /\ g[n + 1] = e
      /\ \A k \in 1..n : g[k] = fr[k]
  BY <1>2, AppendProperties
<1>4. v[n + 1] = u[n] \o TakenBy(e, p, col, h) /\ \A k \in 0..n : v[k] = u[k]
  BY <1>1
<1>5. v = [k \in 0..(n + 1) |-> v[k]]
  OBVIOUS
<1> HIDE DEF v
<1>6. ASSUME NEW k \in 1..n
      PROVE  /\ v[k] = v[k - 1] \o Taken(g, p, col, h, k)
             /\ FrameFits(g[k], Mode(g, p, k), col, h, N, v[k - 1])
  <2>1. k \in 0..n /\ k - 1 \in 0..n /\ k # Len(g)
    BY <1>1, <1>3
  <2>2. u[k] = u[k - 1] \o Taken(fr, "call", col, h, k)
    BY <1>1
  <2>3. g[k] = fr[k] /\ v[k] = u[k] /\ v[k - 1] = u[k - 1]
    BY <1>3, <1>4, <2>1
  <2>4. Taken(g, p, col, h, k) = Taken(fr, "call", col, h, k)
    BY <2>1, <2>3 DEF Taken, TakenBy, Mode
  <2>5. FrameFits(fr[k], Mode(fr, "call", k), col, h, N, u[k - 1])
    BY <1>2
  <2>6. Mode(fr, "call", k) = "call" /\ Mode(g, p, k) = "call"
    BY <2>1 DEF Mode
  <2>7. FrameFits(g[k], Mode(g, p, k), col, h, N, v[k - 1])
    BY <2>3, <2>5, <2>6, Zenon
  <2>8. QED
    BY <2>2, <2>3, <2>4, <2>7
<1>7. /\ v[n + 1] = v[n] \o Taken(g, p, col, h, n + 1)
      /\ FrameFits(g[n + 1], Mode(g, p, n + 1), col, h, N, v[n])
  <2>1. v[n] = u[n]
    BY <1>1, <1>4
  <2>2. Mode(g, p, n + 1) = p
    BY <1>3 DEF Mode
  <2>3. Taken(g, p, col, h, n + 1) = TakenBy(e, p, col, h)
    BY <1>3, <2>2, Zenon DEF Taken
  <2>4. FrameFits(g[n + 1], Mode(g, p, n + 1), col, h, N, v[n])
    BY <1>3, <2>1, <2>2, Zenon
  <2>5. QED
    BY <1>4, <2>1, <2>3, <2>4
<1>8. Trail(v, g, p, col, h)
  <2>1. ASSUME NEW k \in 0..(n + 1)
        PROVE  v[k] = IF k = 0 THEN <<>> ELSE v[k - 1] \o Taken(g, p, col, h, k)
    <3>1. CASE k = 0
      BY <1>1, <1>4, <3>1
    <3>2. CASE k \in 1..n
      <4>1. v[k] = v[k - 1] \o Taken(g, p, col, h, k)
        BY <1>6, <3>2
      <4>2. k # 0
        BY <3>2
      <4>3. QED
        BY <4>1, <4>2, Zenon
    <3>3. CASE k = n + 1
      <4>1. k # 0 /\ k - 1 = n
        BY <1>1, <3>3
      <4>2. QED
        BY <1>7, <3>3, <4>1
    <3>4. QED
      BY <1>1, <3>1, <3>2, <3>3
  <2>2. v = [k \in 0..(n + 1) |->
               IF k = 0 THEN <<>> ELSE v[k - 1] \o Taken(g, p, col, h, k)]
    BY <1>5, <2>1
  <2>3. QED
    BY <1>3, <2>2 DEF Trail
<1>9. \A k \in 0..(n + 1) : v[k] \in Seq(2..h) /\ Distinct(v[k])
  <2>1. u[n] \in Seq(2..h) /\ Distinct(u[n])
    BY <1>1, <1>2
  <2>2. v[n + 1] \in Seq(2..h) /\ Distinct(v[n + 1])
    BY <1>2, <1>4, <2>1, FrameCovers
  <2>3. \A k \in 0..n : v[k] \in Seq(2..h) /\ Distinct(v[k])
    BY <1>2, <1>4
  <2>4. \A k \in 0..(n + 1) : k = n + 1 \/ k \in 0..n
    BY <1>1
  <2>5. QED
    BY <2>2, <2>3, <2>4
<1>10. ASSUME NEW k \in 1..(n + 1)
       PROVE  FrameFits(g[k], Mode(g, p, k), col, h, N, v[k - 1])
  <2>1. CASE k \in 1..n
    BY <1>6, <2>1
  <2>2. CASE k = n + 1
    <3>1. k - 1 = n
      BY <1>1, <2>2
    <3>2. QED
      BY <1>7, <2>2, <3>1
  <2>3. QED
    BY <1>1, <2>1, <2>2
<1>11. Search(v, g, p, col, h, N)
  BY <1>2, <1>3, <1>8, <1>9, <1>10 DEF Search
<1>12. v[n] = u[n]
  BY <1>1, <1>4
<1>13. QED
  BY <1>3, <1>4, <1>11, <1>12 DEF Pushed

\* The header list: the columns that are not covered, in their order.
LEMMA HeaderRound ==
  ASSUME NEW h, NEW N, NEW m, NEW C, Good(m, h, N, C)
  PROVE  /\ \E w : /\ Others(m.right, 1) = w /\ Ascending(w, (2..h) \ C) /\ w \in Seq((2..h) \ C)
                   /\ Len(w) \in Nat /\ (Len(w) = 0 <=> (2..h) \ C = {})
         /\ m.left[1] = 1 <=> (2..h) \ C = {}
         /\ \A c \in (2..h) \ C : m.left[m.right[c]] = c
<1> DEFINE H == Heads(h, C)
<1>1. h \in Nat /\ N \in Nat /\ 1 \in 1..h /\ h <= N
  BY ShapeFacts DEF Good
<1>2. /\ H \in SUBSET (1..N) /\ 1 \in H /\ H \ {1} = (2..h) \ C /\ \A k \in H : 1 <= k
      /\ (2..h) \ C \in SUBSET (1..N)
  <2>1. C \in SUBSET (2..h)
    BY DEF Good
  <2>2. QED
    BY <1>1, <2>1 DEF Heads
<1>3. \A n \in H : m.right[n] = After(H, n) /\ m.left[n] = Before(H, n)
  BY DEF Good
<1>4. m.right \in [1..N -> 1..N]
  BY DEF Good, IsMatrix
<1> HIDE DEF H
<1>5. PICK w : Ascending(w, (2..h) \ C) /\ Len(w) = Cardinality((2..h) \ C)
  BY <1>1, <1>2, AscendingExists
<1>6. RingOf(m.right, N, H, 1, w)
  BY <1>1, <1>2, <1>4, <1>5 DEF RingOf
<1>7. Others(m.right, 1) = w
  BY <1>3, <1>6, RingRound
<1>8. w \in Seq((2..h) \ C) /\ Len(w) \in Nat
  <2>1. w \in Seq((2..h) \ C)
    BY <1>5 DEF Ascending
  <2>2. QED
    BY <2>1, LenProperties
<1>9. Len(w) = 0 <=> (2..h) \ C = {}
  <2>1. \A x \in (2..h) \ C : \E i \in 1..Len(w) : w[i] = x
    BY <1>5 DEF Ascending
  <2>2. \A i \in 1..Len(w) : w[i] \in (2..h) \ C
    BY <1>8, ElementOfSeq
  <2>3. Len(w) # 0 => 1 \in 1..Len(w)
    BY <1>8
  <2>4. QED
    BY <2>1, <2>2, <2>3
<1>10. Nodes(H)
  BY <1>1, <1>2 DEF Nodes
<1>11. m.left[1] = 1 <=> (2..h) \ C = {}
  <2>1. Before(H, 1) \in H /\ \A j \in H : j # 1 => Before(H, 1) # 1
    BY <1>2, <1>10, NodesAfter
  <2>2. m.left[1] = Before(H, 1)
    BY <1>2, <1>3
  <2>3. QED
    BY <1>2, <2>1, <2>2
<1>12. ASSUME NEW c \in (2..h) \ C PROVE m.left[m.right[c]] = c
  <2>1. c \in H
    BY <1>2
  <2>2. After(H, c) \in H /\ Before(H, After(H, c)) = c
    BY <1>10, <2>1, NodesAfter
  <2>3. QED
    BY <1>3, <2>1, <2>2
<1>13. QED
  BY <1>5, <1>7, <1>8, <1>9, <1>11, <1>12

\* The smallest column is one of the header list.
LEMMA MinColumnIsOne ==
  ASSUME NEW m, NEW E, NEW w, Others(m.right, 1) = w, w \in Seq(E), Len(w) # 0
  PROVE  GetMinColumn(m) \in E
<1> DEFINE L == Len(w)
           Least(f, k) == IF k = 1 THEN w[1]
                          ELSE IF m.size[f[k - 1]] > 1 /\ m.size[f[k - 1]] > m.size[w[k]]
                               THEN w[k] ELSE f[k - 1]
           Rec(f) == f = [k \in 1..L |-> Least(f, k)]
           best == CHOOSE f : Rec(f)
           F == [ix \in (1..(L - 1)) \X E |->
                   IF m.size[ix[2]] > 1 /\ m.size[ix[2]] > m.size[w[ix[1] + 1]]
                   THEN w[ix[1] + 1] ELSE ix[2]]
<1>1. GetMinColumn(m) = best[L]
  BY Zenon DEF GetMinColumn
<1>2. L \in Nat /\ L >= 1 /\ L - 1 \in Nat /\ \A k \in 1..L : w[k] \in E
  <2>1. L \in Nat
    BY LenProperties
  <2>2. \A k \in 1..L : w[k] \in E
    BY ElementOfSeq
  <2>3. QED
    BY <2>1, <2>2
<1> HIDE DEF L
<1>3. F \in [(1..(L - 1)) \X E -> E]
  <2>1. ASSUME NEW ix \in (1..(L - 1)) \X E
        PROVE  (IF m.size[ix[2]] > 1 /\ m.size[ix[2]] > m.size[w[ix[1] + 1]]
                THEN w[ix[1] + 1] ELSE ix[2]) \in E
    <3>1. ix[2] \in E /\ ix[1] + 1 \in 1..L
      BY <1>2
    <3>2. w[ix[1] + 1] \in E
      BY <1>2, <3>1
    <3>3. QED
      BY <3>1, <3>2, Zenon
  <2>2. QED
    BY <2>1
<1>4. \A i \in 1..(L - 1), c \in E :
        F[<<i, c>>] = IF m.size[c] > 1 /\ m.size[c] > m.size[w[i + 1]] THEN w[i + 1] ELSE c
  OBVIOUS
<1> HIDE DEF F
<1>5. PICK f : StepsBy(f, E, w[1], L - 1, F)
  <2>1. w[1] \in E
    BY <1>2
  <2>2. QED
    BY <1>2, <1>3, <2>1, RecursionExists, Zenon
<1>6. /\ f[0] = w[1] /\ f \in [0..(L - 1) -> E]
      /\ \A i \in 1..(L - 1) : f[i] = F[<<i, f[i - 1]>>]
  BY <1>5 DEF StepsBy
<1> DEFINE g == [k \in 1..L |-> f[k - 1]]
<1>7. Rec(g)
  <2>1. ASSUME NEW k \in 1..L PROVE g[k] = Least(g, k)
    <3>1. CASE k = 1
      BY <1>6, <3>1
    <3>2. CASE k # 1
      <4>1. k - 1 \in 1..(L - 1) /\ k - 1 \in 1..L /\ k - 1 - 1 \in 0..(L - 1) /\ k - 1 + 1 = k
        BY <1>2, <3>2
      <4>2. f[k - 1 - 1] \in E /\ g[k - 1] = f[k - 1 - 1] /\ g[k] = f[k - 1]
        BY <1>6, <4>1
      <4> HIDE DEF g
      <4>3. f[k - 1] = F[<<k - 1, f[k - 1 - 1]>>]
        BY <1>6, <4>1
      <4>4. F[<<k - 1, f[k - 1 - 1]>>] = IF m.size[f[k - 1 - 1]] > 1
                 /\ m.size[f[k - 1 - 1]] > m.size[w[k - 1 + 1]]
              THEN w[k - 1 + 1] ELSE f[k - 1 - 1]
        BY <1>4, <4>1, <4>2
      <4>5. QED
        BY <3>2, <4>1, <4>2, <4>3, <4>4
    <3>3. QED
      BY <3>1, <3>2
  <2>2. g = [k \in 1..L |-> g[k]]
    OBVIOUS
  <2> HIDE DEF g, Least
  <2>3. QED
    BY <2>1, <2>2
<1> HIDE DEF Rec, g
<1>8. Rec(best)
  BY <1>7, Zenon
<1> DEFINE S == {k \in Nat : k + 1 <= L => best[k + 1] \in E}
<1>9. \A k \in 1..L : best[k] = Least(best, k)
  BY <1>8 DEF Rec
<1> HIDE DEF best
<1>10. 0 \in S
  <2>1. 1 \in 1..L
    BY <1>2
  <2>2. QED
    BY <1>2, <1>9, <2>1
<1>11. ASSUME NEW k \in Nat, k \in S PROVE k + 1 \in S
  <2>1. SUFFICES ASSUME k + 1 + 1 <= L PROVE best[k + 1 + 1] \in E
    OBVIOUS
  <2>2. k + 1 + 1 \in 1..L /\ k + 1 + 1 # 1 /\ k + 1 + 1 - 1 = k + 1 /\ k + 1 <= L
    BY <1>2, <2>1
  <2>3. best[k + 1] \in E /\ w[k + 1 + 1] \in E
    BY <1>2, <1>11, <2>2
  <2>4. best[k + 1 + 1] = Least(best, k + 1 + 1)
    BY <1>9, <2>2
  <2>5. QED
    BY <2>2, <2>3, <2>4
<1> HIDE DEF S
<1>12. Nat \subseteq S
  BY <1>10, <1>11, SetInduction
<1>13. best[L] \in E
  BY <1>2, <1>12 DEF S
<1>14. QED
  BY <1>1, <1>13

\* The columns that are met on the way round a row, to the right and to the left.
Along(col, ring) == [k \in DOMAIN ring |-> col[ring[k]]]
ColsBack(col, h, r) == <<col[RowAt(h, r, 3)], col[RowAt(h, r, 2)], col[RowAt(h, r, 1)]>>

\* The columns of three nodes.
LEMMA AlongThree ==
  ASSUME NEW col, NEW a, NEW b, NEW c, NEW s, s = <<a, b, c>>
  PROVE  Along(col, s) = <<col[a], col[b], col[c]>>
<1> DEFINE t == <<col[a], col[b], col[c]>>
<1>1. DOMAIN s = 1..3 /\ s[1] = a /\ s[2] = b /\ s[3] = c
  OBVIOUS
<1>2. t = [k \in 1..3 |-> t[k]] /\ t[1] = col[a] /\ t[2] = col[b] /\ t[3] = col[c]
  OBVIOUS
<1> HIDE DEF t
<1>3. ASSUME NEW k \in 1..3 PROVE col[s[k]] = t[k]
  <2>1. k = 1 \/ k = 2 \/ k = 3
    OBVIOUS
  <2>2. QED
    BY <1>1, <1>2, <2>1
<1>4. Along(col, s) = t
  BY <1>1, <1>2, <1>3 DEF Along
<1>5. QED
  BY <1>4 DEF t

\* The columns that a row crosses, one way round and the other.
LEMMA RowColumns ==
  ASSUME NEW h, NEW N, NEW m, NEW C, Good(m, h, N, C), NEW r \in (h + 1)..N
  PROVE  /\ Along(m.col, Others(m.right, r)) = ColsOf(m.col, h, r)
         /\ Along(m.col, Others(m.left, r)) = ColsBack(m.col, h, r)
<1>1. /\ Others(m.right, r) = <<RowAt(h, r, 1), RowAt(h, r, 2), RowAt(h, r, 3)>>
      /\ Others(m.left, r) = <<RowAt(h, r, 3), RowAt(h, r, 2), RowAt(h, r, 1)>>
  <2>1. IsMatrix(m, N) /\ Shape(m.col, h, N) /\ Rowed(m, h, N)
    BY DEF Good
  <2>2. QED
    BY <2>1, RowFacts
<1> DEFINE s == Others(m.right, r)
           t == Others(m.left, r)
           col == m.col
<1>2. s = <<RowAt(h, r, 1), RowAt(h, r, 2), RowAt(h, r, 3)>>
      /\ t = <<RowAt(h, r, 3), RowAt(h, r, 2), RowAt(h, r, 1)>>
  BY <1>1
<1> HIDE DEF s, t, col
<1>3. Along(col, s) = ColsOf(col, h, r)
  BY <1>2, AlongThree DEF ColsOf
<1>4. Along(col, t) = ColsBack(col, h, r)
  BY <1>2, AlongThree DEF ColsBack
<1>5. QED
  BY <1>3, <1>4 DEF s, t, col
-----------------------------------------------------------------------------
(* The matrix of the constructor.                                          *)

\* The three sizes of a board.
LEMMA Sizes ==
  /\ \/ Box = 1 /\ Side = 1 /\ kCells = 1
     \/ Box = 2 /\ Side = 4 /\ kCells = 16
     \/ Box = 3 /\ Side = 9 /\ kCells = 81
  /\ Side \in Nat /\ kCells \in Nat /\ kMaxNodes = 1 + 4 * kCells + 4 * Side * kCells
<1>1. Box = 1 \/ Box = 2 \/ Box = 3
  BY PuzzleAssumption
<1>2. Box = 1 => Side = 1 /\ kCells = 1
  BY DEF Side, kCells
<1>3. Box = 2 => Side = 4 /\ kCells = 16
  BY DEF Side, kCells
<1>4. Box = 3 => Side = 9 /\ kCells = 81
  BY DEF Side, kCells
<1>5. Side \in Nat /\ kCells \in Nat
  BY <1>1, <1>2, <1>3, <1>4
<1>6. kMaxNodes = 1 + 4 * kCells + 4 * Side * kCells
  BY DEF kMaxNodes
<1>7. \/ Box = 1 /\ Side = 1 /\ kCells = 1
      \/ Box = 2 /\ Side = 4 /\ kCells = 16
      \/ Box = 3 /\ Side = 9 /\ kCells = 81
  BY <1>1, <1>2, <1>3, <1>4
<1>8. QED
  BY <1>5, <1>6, <1>7, Zenon

\* The row, column and box of a cell.
LEMMA CellFacts ==
  ASSUME NEW i \in Cells
  PROVE  /\ i \in 0..80 /\ RowOf(i) \in Lanes /\ ColOf(i) \in Lanes /\ BoxOf(i) \in Lanes
<1>1. CASE Side = 1 /\ kCells = 1 /\ Box = 1
  BY <1>1 DEF Cells, RowOf, ColOf, BoxOf, Lanes
<1>2. CASE Side = 4 /\ kCells = 16 /\ Box = 2
  BY <1>2 DEF Cells, RowOf, ColOf, BoxOf, Lanes
<1>3. CASE Side = 9 /\ kCells = 81 /\ Box = 3
  BY <1>3 DEF Cells, RowOf, ColOf, BoxOf, Lanes
<1>4. QED
  BY <1>1, <1>2, <1>3, Sizes

\* The names of what a row, column or box may lack are numbers.
LEMMA LaneFacts ==
  ASSUME NEW r \in Lanes, NEW v \in Values
  PROVE  /\ r \in 0..8 /\ v \in 1..9
         /\ GetRowCol(r, v) = 100 + r * 10 + v
         /\ GetColCol(r, v) = 200 + r * 10 + v
         /\ GetBoxCol(r, v) = 300 + r * 10 + v
<1>1. r \in 0..8 /\ v \in 1..9
  BY Sizes DEF Lanes, Values
<1>2. QED
  BY <1>1 DEF GetRowCol, GetColCol, GetBoxCol, kRow, kCol, kBox

\* There are four names for each cell.
LEMMA AllNamesType == AllNames \in Seq(Int) /\ Len(AllNames) = 4 * kCells
<1>1. kCells \in Nat /\ 4 * kCells \in Nat
  BY Sizes
<1>2. ASSUME NEW k \in 1..(4 * kCells) PROVE AllNames[k] \in Int
  <2> DEFINE j == k - kCells - 1
             i == (j \div 3) \div Side
             v == ((j \div 3) % Side) + 1
  <2>1. AllNames[k] = IF k <= kCells THEN k - 1
                      ELSE CASE j % 3 = 0 -> GetRowCol(i, v)
                             [] j % 3 = 1 -> GetColCol(i, v)
                             [] OTHER -> GetBoxCol(i, v)
    BY DEF AllNames
  <2>2. i \in Int /\ v \in Int
    BY Sizes
  <2> HIDE DEF i, v, j
  <2>3. GetRowCol(i, v) \in Int /\ GetColCol(i, v) \in Int /\ GetBoxCol(i, v) \in Int
    BY <2>2 DEF GetRowCol, GetColCol, GetBoxCol, kRow, kCol, kBox
  <2>4. k - 1 \in Int
    OBVIOUS
  <2>5. QED
    BY <2>1, <2>3, <2>4
<1>3. AllNames \in [1..(4 * kCells) -> Int]
  <2>1. AllNames = [k \in 1..(4 * kCells) |-> AllNames[k]]
    BY DEF AllNames
  <2>2. QED
    BY <1>2, <2>1
<1>4. QED
  BY <1>1, <1>3, FunctionIsSeq

\* Every cell, and every value of a row, column and box, is a name.
LEMMA AllNamesIn ==
  /\ \A i \in Cells : IsIn(i, AllNames)
  /\ \A r \in Lanes, v \in Values : /\ IsIn(GetRowCol(r, v), AllNames)
                                    /\ IsIn(GetColCol(r, v), AllNames)
                                    /\ IsIn(GetBoxCol(r, v), AllNames)
<1>1. Len(AllNames) = 4 * kCells
  BY AllNamesType
<1>2. ASSUME NEW i \in Cells PROVE IsIn(i, AllNames)
  <2>1. i + 1 \in 1..(4 * kCells) /\ i + 1 <= kCells /\ i + 1 - 1 = i /\ i \in Int
    BY Sizes DEF Cells
  <2>2. AllNames[i + 1] = i
    <3> DEFINE k == i + 1
               j == k - kCells - 1
               r == (j \div 3) \div Side
               v == ((j \div 3) % Side) + 1
    <3>1. k \in 1..(4 * kCells)
      BY <2>1
    <3> HIDE DEF k
    <3>2. AllNames[k] = IF k <= kCells THEN k - 1
                        ELSE CASE j % 3 = 0 -> GetRowCol(r, v)
                               [] j % 3 = 1 -> GetColCol(r, v)
                               [] OTHER -> GetBoxCol(r, v)
      BY <3>1 DEF AllNames
    <3>3. k <= kCells /\ k - 1 = i
      BY <2>1 DEF k
    <3> HIDE DEF j, r, v
    <3>4. AllNames[k] = i
      BY <3>2, <3>3
    <3>5. QED
      BY <3>4 DEF k
  <2>3. QED
    BY <1>1, <2>1, <2>2 DEF IsIn
<1>3. ASSUME NEW r \in Lanes, NEW v \in Values
      PROVE  /\ IsIn(GetRowCol(r, v), AllNames)
             /\ IsIn(GetColCol(r, v), AllNames)
             /\ IsIn(GetBoxCol(r, v), AllNames)
  <2> DEFINE p == r * Side + (v - 1)
             At_(t) == kCells + 1 + 3 * p + t
  <2>1. /\ p \in 0..(kCells - 1) /\ p \div Side = r /\ (p % Side) + 1 = v /\ p \in Nat
    BY Sizes DEF Lanes, Values
  <2> HIDE DEF p
  <2>2. ASSUME NEW t \in 0..2
        PROVE  /\ At_(t) \in 1..(4 * kCells) /\ ~(At_(t) <= kCells)
               /\ (At_(t) - kCells - 1) % 3 = t /\ (At_(t) - kCells - 1) \div 3 = p
    <3>1. At_(t) - kCells - 1 = 3 * p + t
      BY <2>1, Sizes
    <3>2. (3 * p + t) % 3 = t /\ (3 * p + t) \div 3 = p
      BY <2>1
    <3>3. At_(t) \in 1..(4 * kCells) /\ ~(At_(t) <= kCells)
      BY <2>1, Sizes
    <3>4. QED
      BY <3>1, <3>2, <3>3
  <2> HIDE DEF At_
  <2>3. ASSUME NEW t \in 0..2
        PROVE  AllNames[At_(t)] = CASE t = 0 -> GetRowCol(r, v) [] t = 1 -> GetColCol(r, v)
                                    [] OTHER -> GetBoxCol(r, v)
    <3> DEFINE k == At_(t)
               j == k - kCells - 1
    <3>1. k \in 1..(4 * kCells) /\ ~(k <= kCells) /\ j % 3 = t /\ j \div 3 = p
      BY <2>2
    <3>2. AllNames[k] = LET i == (j \div 3) \div Side
                            w == ((j \div 3) % Side) + 1
                        IN  CASE j % 3 = 0 -> GetRowCol(i, w) [] j % 3 = 1 -> GetColCol(i, w)
                              [] OTHER -> GetBoxCol(i, w)
      BY <3>1, Zenon DEF AllNames
    <3> HIDE DEF k, j
    <3>3. (j \div 3) \div Side = r /\ ((j \div 3) % Side) + 1 = v
      BY <2>1, <3>1
    <3>4. AllNames[k] = CASE t = 0 -> GetRowCol(r, v) [] t = 1 -> GetColCol(r, v)
                          [] OTHER -> GetBoxCol(r, v)
      BY <3>1, <3>2, <3>3
    <3>5. QED
      BY <3>4 DEF k
  <2>4. /\ AllNames[At_(0)] = GetRowCol(r, v) /\ AllNames[At_(1)] = GetColCol(r, v)
        /\ AllNames[At_(2)] = GetBoxCol(r, v)
        /\ At_(0) \in 1..(4 * kCells) /\ At_(1) \in 1..(4 * kCells)
        /\ At_(2) \in 1..(4 * kCells)
    BY <2>2, <2>3
  <2>5. QED
    BY <1>1, <2>4 DEF IsIn
<1>4. QED
  BY <1>2, <1>3

\* The columns of board b, and its options.
LEMMA ColumnFacts ==
  ASSUME NEW b
  PROVE  /\ ColumnNames(b) \in Seq(Int) /\ Len(ColumnNames(b)) \in Nat
         /\ \A x : IsIn(x, ColumnNames(b)) <=> IsIn(x, AllNames) /\ x \in Empty(b) \cup Lacks(b)
<1>1. AllNames \in Seq(Int)
  BY AllNamesType
<1>2. ColumnNames(b) \in Seq(Int)
  BY <1>1, KeptType DEF ColumnNames
<1>3. ASSUME NEW x
      PROVE  IsIn(x, ColumnNames(b)) <=> IsIn(x, AllNames) /\ x \in Empty(b) \cup Lacks(b)
  BY <1>1, KeptIn, Zenon DEF ColumnNames
<1>4. QED
  BY <1>2, <1>3, LenProperties

AllOptions == [k \in 1..(kCells * Side) |-> <<(k - 1) \div Side, ((k - 1) % Side) + 1>>]

\* There is an option for every cell and value.
LEMMA AllOptionsType ==
  /\ AllOptions \in Seq(Cells \X Values) /\ Len(AllOptions) = kCells * Side
  /\ kCells * Side \in Nat
<1>1. kCells * Side \in Nat
  BY Sizes
<1>2. ASSUME NEW k \in 1..(kCells * Side)
      PROVE  (k - 1) \div Side \in Cells /\ ((k - 1) % Side) + 1 \in Values
  BY Sizes DEF Cells, Values
<1>3. AllOptions \in [1..(kCells * Side) -> Cells \X Values]
  BY <1>2 DEF AllOptions
<1>4. QED
  BY <1>1, <1>3, FunctionIsSeq

\* The place of an option in their order.
LEMMA AllOptionsIn ==
  ASSUME NEW i \in Cells, NEW v \in Values
  PROVE  /\ IsIn(<<i, v>>, AllOptions)
         /\ \A k \in 1..Len(AllOptions) : AllOptions[k] = <<i, v>> => k = i * Side + v
<1> DEFINE k == i * Side + v
<1>1. k \in 1..(kCells * Side) /\ (k - 1) \div Side = i /\ ((k - 1) % Side) + 1 = v
  BY Sizes DEF Cells, Values
<1> HIDE DEF k
<1>2. AllOptions[k] = <<i, v>>
  <2>1. AllOptions[k] = <<(k - 1) \div Side, ((k - 1) % Side) + 1>>
    BY <1>1 DEF AllOptions
  <2>2. QED
    BY <1>1, <2>1
<1>3. ASSUME NEW l \in 1..Len(AllOptions), AllOptions[l] = <<i, v>> PROVE l = k
  <2>1. l \in 1..(kCells * Side)
    BY AllOptionsType
  <2>2. AllOptions[l] = <<(l - 1) \div Side, ((l - 1) % Side) + 1>>
    BY <2>1 DEF AllOptions
  <2>3. (l - 1) \div Side = i /\ ((l - 1) % Side) + 1 = v
    BY <1>3, <2>2
  <2>4. l \in Int /\ l - 1 \in Nat
    BY <2>1, AllOptionsType
  <2>5. l = i * Side + v
    <3>1. Side \in {1, 4, 9}
      BY Sizes
    <3>2. QED
      BY <2>3, <2>4, <3>1
  <2>6. QED
    BY <2>5 DEF k
<1>4. QED
  BY <1>1, <1>2, <1>3, AllOptionsType DEF IsIn, k

\* The options are those that the givens leave, each once.
LEMMA OptionFacts ==
  ASSUME NEW b
  PROVE  /\ Options(b) \in Seq(Cells \X Values) /\ Len(Options(b)) \in Nat
         /\ \A o : IsIn(o, Options(b)) <=>
                     o \in Empty(b) \X Values /\ Open(b, o[1], o[2])
         /\ Distinct(Options(b))
<1> DEFINE T == {o \in Empty(b) \X Values : Open(b, o[1], o[2])}
<1>1. Options(b) = Kept(AllOptions, T)
  BY DEF Options, AllOptions
<1> HIDE DEF T
<1>2. AllOptions \in Seq(Cells \X Values)
  BY AllOptionsType
<1>3. Options(b) \in Seq(Cells \X Values)
  BY <1>1, <1>2, KeptType
<1>4. ASSUME NEW o PROVE IsIn(o, Options(b)) <=> IsIn(o, AllOptions) /\ o \in T
  <2> DEFINE E == Cells \X Values
  <2>1. AllOptions \in Seq(E)
    BY <1>2
  <2> HIDE DEF E
  <2>2. IsIn(o, Kept(AllOptions, T)) <=> IsIn(o, AllOptions) /\ o \in T
    BY <2>1, KeptIn
  <2>3. QED
    BY <1>1, <2>2
<1>5. ASSUME NEW o \in T PROVE IsIn(o, AllOptions)
  <2>1. o \in Cells \X Values /\ o = <<o[1], o[2]>> /\ o[1] \in Cells /\ o[2] \in Values
    BY DEF T, Empty
  <2>2. IsIn(<<o[1], o[2]>>, AllOptions)
    BY <2>1, AllOptionsIn
  <2>3. QED
    BY <2>1, <2>2
<1>6. Distinct(AllOptions)
  <2>1. ASSUME NEW k \in 1..Len(AllOptions), NEW l \in 1..Len(AllOptions),
               AllOptions[k] = AllOptions[l]
        PROVE  k = l
    <3>1. AllOptions[k] \in Cells \X Values
      BY <1>2, ElementOfSeq
    <3>2. PICK i \in Cells, v \in Values : AllOptions[k] = <<i, v>>
      BY <3>1
    <3>3. \A j \in 1..Len(AllOptions) : AllOptions[j] = <<i, v>> => j = i * Side + v
      BY AllOptionsIn
    <3>4. QED
      BY <2>1, <3>2, <3>3
  <2>2. QED
    BY <2>1 DEF Distinct
<1>7. Distinct(Options(b))
  BY <1>1, <1>2, <1>6, KeptDistinct
<1>8. \A o : o \in T <=> o \in Empty(b) \X Values /\ Open(b, o[1], o[2])
  BY DEF T
<1>9. QED
  BY <1>3, <1>4, <1>5, <1>7, <1>8, LenProperties

\* An option crosses four different columns.
LEMMA CrossFacts ==
  ASSUME NEW b, NEW o \in Cells \X Values
  PROVE  /\ \A t \in 1..4 : Crosses(o)[t] \in Int
         /\ \A s, t \in 1..4 : Crosses(o)[s] = Crosses(o)[t] => s = t
         /\ IsIn(o, Options(b)) => \A t \in 1..4 : IsIn(Crosses(o)[t], ColumnNames(b))
<1> DEFINE i == o[1]
           v == o[2]
           n1 == i
           n2 == GetRowCol(RowOf(i), v)
           n3 == GetColCol(ColOf(i), v)
           n4 == GetBoxCol(BoxOf(i), v)
           w == Crosses(o)
<1>1. i \in Cells /\ v \in Values /\ RowOf(i) \in Lanes /\ ColOf(i) \in Lanes
      /\ BoxOf(i) \in Lanes /\ i \in 0..80
  BY CellFacts
<1>2. /\ RowOf(i) \in 0..8 /\ ColOf(i) \in 0..8 /\ BoxOf(i) \in 0..8 /\ v \in 1..9
      /\ n2 = 100 + RowOf(i) * 10 + v /\ n3 = 200 + ColOf(i) * 10 + v
      /\ n4 = 300 + BoxOf(i) * 10 + v
  BY <1>1, LaneFacts
<1>3. w[1] = n1 /\ w[2] = n2 /\ w[3] = n3 /\ w[4] = n4
  BY DEF Crosses
<1>4. /\ n1 \in 0..80 /\ n2 \in 101..189 /\ n3 \in 201..289 /\ n4 \in 301..389
  BY <1>1, <1>2
<1>5. ASSUME IsIn(o, Options(b))
      PROVE  /\ IsIn(n1, ColumnNames(b)) /\ IsIn(n2, ColumnNames(b))
             /\ IsIn(n3, ColumnNames(b)) /\ IsIn(n4, ColumnNames(b))
  <2>1. o \in Empty(b) \X Values /\ Open(b, i, v)
    BY <1>5, OptionFacts
  <2>2. i \in Empty(b) /\ n2 \in Lacks(b) /\ n3 \in Lacks(b) /\ n4 \in Lacks(b)
    <3>1. i \in Empty(b)
      BY <2>1
    <3>2. ~InRow(b, RowOf(i), v) /\ ~InCol(b, ColOf(i), v) /\ ~InBox(b, BoxOf(i), v)
      BY <2>1 DEF Open
    <3> HIDE DEF i, v
    <3>3. /\ <<RowOf(i), v>> \in {q \in Lanes \X Values : ~InRow(b, q[1], q[2])}
          /\ <<ColOf(i), v>> \in {q \in Lanes \X Values : ~InCol(b, q[1], q[2])}
          /\ <<BoxOf(i), v>> \in {q \in Lanes \X Values : ~InBox(b, q[1], q[2])}
      BY <1>1, <3>2
    <3>4. n2 \in Lacks(b)
      BY <3>3 DEF Lacks
    <3>5. n3 \in Lacks(b)
      BY <3>3 DEF Lacks
    <3>6. n4 \in Lacks(b)
      BY <3>3 DEF Lacks
    <3>7. QED
      BY <3>1, <3>4, <3>5, <3>6
  <2>3. /\ IsIn(n1, AllNames) /\ IsIn(n2, AllNames) /\ IsIn(n3, AllNames)
        /\ IsIn(n4, AllNames)
    BY <1>1, AllNamesIn
  <2> HIDE DEF n1, n2, n3, n4
  <2>4. \A x : IsIn(x, AllNames) /\ x \in Empty(b) \cup Lacks(b) => IsIn(x, ColumnNames(b))
    BY ColumnFacts
  <2>5. n1 \in Empty(b)
    BY <2>2 DEF n1
  <2>6. QED
    BY <2>2, <2>3, <2>4, <2>5
<1> HIDE DEF n1, n2, n3, n4, w, i, v
<1>6. \A t \in 1..4 : t = 1 \/ t = 2 \/ t = 3 \/ t = 4
  OBVIOUS
<1>7. \A t \in 1..4 : w[t] \in Int
  BY <1>3, <1>4, <1>6
<1>8. \A s, t \in 1..4 : w[s] = w[t] => s = t
  <2>1. n1 # n2 /\ n1 # n3 /\ n1 # n4 /\ n2 # n3 /\ n2 # n4 /\ n3 # n4
    BY <1>4
  <2>2. ASSUME NEW s \in 1..4, NEW t \in 1..4, s # t PROVE w[s] # w[t]
    <3>1. s = 1 \/ s = 2 \/ s = 3 \/ s = 4
      BY <1>6
    <3>2. t = 1 \/ t = 2 \/ t = 3 \/ t = 4
      BY <1>6
    <3>3. CASE s = 1
      BY <1>3, <2>1, <2>2, <3>2, <3>3
    <3>4. CASE s = 2
      BY <1>3, <2>1, <2>2, <3>2, <3>4
    <3>5. CASE s = 3
      BY <1>3, <2>1, <2>2, <3>2, <3>5
    <3>6. CASE s = 4
      BY <1>3, <2>1, <2>2, <3>2, <3>6
    <3>7. QED
      BY <3>1, <3>3, <3>4, <3>5, <3>6
  <2>3. QED
    BY <2>2
<1>9. IsIn(o, Options(b)) => \A t \in 1..4 : IsIn(w[t], ColumnNames(b))
  BY <1>3, <1>5, <1>6
<1>10. QED
  BY <1>7, <1>8, <1>9 DEF w

\* The nodes of the matrix of board b: h headers, N in all; the number of a
\* node's row, its name, its column, and the nodes of both.
Hd(b) == 1 + Len(ColumnNames(b))
Nd(b) == Hd(b) + 4 * Len(Options(b))
RowNo(h, n) == IF n <= h THEN 0 ELSE 1 + (n - h - 1) \div 4
NameOf(b, n) ==
  IF n = 1 THEN 0 ELSE IF n <= Hd(b) THEN ColumnNames(b)[n - 1]
  ELSE Crosses(Options(b)[RowNo(Hd(b), n)])[1 + ((n - Hd(b) - 1) % 4)]
HomeOf(b, n) ==
  IF n <= Hd(b) THEN n ELSE CHOOSE c \in 2..Hd(b) : ColumnNames(b)[c - 1] = NameOf(b, n)
AllOfRow(b, n) == {k \in 1..Nd(b) : RowNo(Hd(b), k) = RowNo(Hd(b), n)}
AllOfCol(b, n) == {k \in 1..Nd(b) : HomeOf(b, k) = HomeOf(b, n)}

\* The fields of the matrix of the constructor.
LEMMA MatrixFields ==
  ASSUME NEW b
  PROVE  Matrix(b) = Fields([n \in 1..Nd(b) |-> NameOf(b, n)],
                            [n \in 1..Nd(b) |-> HomeOf(b, n)],
                            [n \in 1..Nd(b) |-> After(AllOfRow(b, n), n)],
                            [n \in 1..Nd(b) |-> Before(AllOfRow(b, n), n)],
                            [n \in 1..Nd(b) |-> After(AllOfCol(b, n), n)],
                            [n \in 1..Nd(b) |-> Before(AllOfCol(b, n), n)],
                            [n \in 1..Nd(b) |-> IF n <= Hd(b)
                                                THEN Cardinality(AllOfCol(b, n)) - 1 ELSE 0])
<1> DEFINE columns == ColumnNames(b)
           options == Options(b)
           h == 1 + Len(columns)
           nodes == 1..(h + 4 * Len(options))
           row == [n \in nodes |-> IF n <= h THEN 0 ELSE 1 + (n - h - 1) \div 4]
           name == [n \in nodes |->
                      IF n = 1 THEN 0 ELSE IF n <= h THEN columns[n - 1]
                      ELSE Crosses(options[row[n]])[1 + ((n - h - 1) % 4)]]
           home(n) == IF n <= h THEN n ELSE CHOOSE c \in 2..h : columns[c - 1] = name[n]
           col == [n \in nodes |-> home(n)]
           across(n) == {k \in nodes : row[k] = row[n]}
           along(n) == {k \in nodes : col[k] = col[n]}
<1>1. Matrix(b) = [name |-> name, col |-> col,
                   right |-> [n \in nodes |-> After(across(n), n)],
                   left  |-> [n \in nodes |-> Before(across(n), n)],
                   down  |-> [n \in nodes |-> After(along(n), n)],
                   up    |-> [n \in nodes |-> Before(along(n), n)],
                   size  |-> [n \in nodes |-> IF n <= h THEN Cardinality(along(n)) - 1 ELSE 0]]
  BY Zenon DEF Matrix
<1>2. nodes = 1..Nd(b) /\ h = Hd(b)
  BY DEF Nd, Hd
<1>3. row = [n \in nodes |-> RowNo(h, n)] /\ \A n \in nodes : row[n] = RowNo(h, n)
  BY DEF RowNo
<1> HIDE DEF row
<1>4. \A n \in nodes : name[n] = NameOf(b, n)
  <2>1. ASSUME NEW n \in nodes PROVE name[n] = NameOf(b, n)
    <3>1. name[n] = IF n = 1 THEN 0 ELSE IF n <= h THEN columns[n - 1]
                    ELSE Crosses(options[row[n]])[1 + ((n - h - 1) % 4)]
      BY Zenon
    <3>2. row[n] = RowNo(h, n)
      BY <1>3
    <3> HIDE DEF name, nodes
    <3>3. QED
      BY <1>2, <3>1, <3>2 DEF NameOf
  <2>2. QED
    BY <2>1
<1>5. name = [n \in nodes |-> name[n]]
  BY Zenon
<1> HIDE DEF name
<1> HIDE DEF home
<1>6. \A n \in nodes : col[n] = HomeOf(b, n)
  <2>1. ASSUME NEW n \in nodes PROVE col[n] = HomeOf(b, n)
    <3>1. col[n] = IF n <= h THEN n ELSE CHOOSE c \in 2..h : columns[c - 1] = name[n]
      BY Zenon DEF home
    <3>2. name[n] = NameOf(b, n)
      BY <1>4
    <3> HIDE DEF col, nodes
    <3>3. QED
      BY <1>2, <3>1, <3>2, Zenon DEF HomeOf
  <2>2. QED
    BY <2>1
<1>7. col = [n \in nodes |-> col[n]]
  BY Zenon
<1> HIDE DEF col, nodes, h
<1>8. \A n \in nodes : across(n) = AllOfRow(b, n)
  BY <1>2, <1>3 DEF AllOfRow
<1>9. \A n \in nodes : along(n) = AllOfCol(b, n)
  BY <1>2, <1>6 DEF AllOfCol
<1> HIDE DEF across, along
<1>10. name = [n \in nodes |-> NameOf(b, n)]
  BY <1>4, <1>5
<1>11. col = [n \in nodes |-> HomeOf(b, n)]
  BY <1>6, <1>7
<1>12. [n \in nodes |-> After(across(n), n)] = [n \in nodes |-> After(AllOfRow(b, n), n)]
  BY <1>8
<1>13. [n \in nodes |-> Before(across(n), n)] = [n \in nodes |-> Before(AllOfRow(b, n), n)]
  BY <1>8
<1>14. [n \in nodes |-> After(along(n), n)] = [n \in nodes |-> After(AllOfCol(b, n), n)]
  BY <1>9
<1>15. [n \in nodes |-> Before(along(n), n)] = [n \in nodes |-> Before(AllOfCol(b, n), n)]
  BY <1>9
<1>16. [n \in nodes |-> IF n <= h THEN Cardinality(along(n)) - 1 ELSE 0]
         = [n \in nodes |-> IF n <= h THEN Cardinality(AllOfCol(b, n)) - 1 ELSE 0]
  BY <1>9
<1>17. Matrix(b) = Fields([n \in nodes |-> NameOf(b, n)],
                          [n \in nodes |-> HomeOf(b, n)],
                          [n \in nodes |-> After(AllOfRow(b, n), n)],
                          [n \in nodes |-> Before(AllOfRow(b, n), n)],
                          [n \in nodes |-> After(AllOfCol(b, n), n)],
                          [n \in nodes |-> Before(AllOfCol(b, n), n)],
                          [n \in nodes |-> IF n <= h
                                           THEN Cardinality(AllOfCol(b, n)) - 1 ELSE 0])
  BY <1>1, <1>10, <1>11, <1>12, <1>13, <1>14, <1>15, <1>16, Zenon DEF Fields
<1>18. QED
  BY <1>2, <1>17, Zenon

\* The nodes of one row have one row number.
LEMMA RowNumbers ==
  ASSUME NEW h \in Nat, NEW L \in Nat, NEW n \in (h + 1)..(h + 4 * L)
  PROVE  /\ RowNo(h, n) \in 1..L /\ 1 + ((n - h - 1) % 4) \in 1..4
         /\ \A k \in 1..(h + 4 * L) : RowNo(h, k) = RowNo(h, n) <=> k \in Band(h, n)
         /\ \A k \in Band(h, n) : (k - h - 1) % 4 = (n - h - 1) % 4 => k = n
<1> DEFINE p == (n - h - 1) % 4
           d == (n - h - 1) \div 4
<1>1. p \in 0..3 /\ d \in Nat /\ n = h + 1 + 4 * d + p /\ d < L
  OBVIOUS
<1>2. First(h, n) = h + 1 + 4 * d /\ RowNo(h, n) = 1 + d
  BY <1>1 DEF First, RowNo
<1>3. 1 + p \in 1..4
  BY <1>1
<1> HIDE DEF p, d
<1>4. ASSUME NEW k \in 1..(h + 4 * L)
      PROVE  RowNo(h, k) = 1 + d <=> k \in (h + 1 + 4 * d)..(h + 1 + 4 * d + 3)
  BY <1>1 DEF RowNo
<1>5. ASSUME NEW k \in (h + 1 + 4 * d)..(h + 1 + 4 * d + 3)
      PROVE  (k - h - 1) % 4 = k - h - 1 - 4 * d
  BY <1>1
<1>6. n \in (h + 1 + 4 * d)..(h + 1 + 4 * d + 3)
  BY <1>1
<1>7. ASSUME NEW k \in (h + 1 + 4 * d)..(h + 1 + 4 * d + 3),
             (k - h - 1) % 4 = (n - h - 1) % 4
      PROVE  k = n
  <2>1. k - h - 1 - 4 * d = n - h - 1 - 4 * d
    BY <1>5, <1>6, <1>7
  <2>2. QED
    BY <1>1, <2>1
<1>8. Band(h, n) = (h + 1 + 4 * d)..(h + 1 + 4 * d + 3)
  BY <1>2 DEF Band
<1>9. QED
  BY <1>1, <1>2, <1>3, <1>4, <1>7, <1>8 DEF p

\* The rows of the matrix are options, and their nodes are in different columns.
LEMMA RowOptions ==
  ASSUME NEW b
  PROVE  /\ Hd(b) \in Nat /\ Nd(b) \in Nat /\ Fits(Hd(b), Nd(b)) /\ Hd(b) # 0 /\ Hd(b) <= Nd(b)
         /\ \A c \in 2..Hd(b) : NameOf(b, c) = ColumnNames(b)[c - 1] /\ HomeOf(b, c) = c
         /\ \A n \in (Hd(b) + 1)..Nd(b) :
              /\ RowNo(Hd(b), n) \in 1..Len(Options(b))
              /\ HomeOf(b, n) \in 2..Hd(b) /\ ColumnNames(b)[HomeOf(b, n) - 1] = NameOf(b, n)
              /\ \A k \in Band(Hd(b), n) : k # n => NameOf(b, k) # NameOf(b, n)
<1> DEFINE h == Hd(b)
           N == Nd(b)
           L == Len(Options(b))
           columns == ColumnNames(b)
<1>1. columns \in Seq(Int) /\ Len(columns) \in Nat /\ L \in Nat
      /\ Options(b) \in Seq(Cells \X Values)
  BY ColumnFacts, OptionFacts
<1>2. h \in Nat /\ N \in Nat /\ h # 0 /\ N = h + 4 * L /\ h = 1 + Len(columns)
  BY <1>1 DEF Hd, Nd
<1>3. Fits(h, N)
  BY <1>1, <1>2 DEF Fits
<1>4. h <= N
  BY <1>1, <1>2
<1>5. \A c \in 2..h : NameOf(b, c) = columns[c - 1] /\ HomeOf(b, c) = c
  BY <1>2 DEF NameOf, HomeOf
<1> HIDE DEF h, N, L, columns
<1>6. ASSUME NEW n \in (h + 1)..N
      PROVE  /\ RowNo(h, n) \in 1..L
             /\ HomeOf(b, n) \in 2..h /\ columns[HomeOf(b, n) - 1] = NameOf(b, n)
             /\ \A k \in Band(h, n) : k # n => NameOf(b, k) # NameOf(b, n)
  <2> DEFINE o == Options(b)[RowNo(h, n)]
             pos(k) == 1 + ((k - h - 1) % 4)
             P(c) == columns[c - 1] = NameOf(b, n)
  <2>1. /\ RowNo(h, n) \in 1..L /\ pos(n) \in 1..4
        /\ \A k \in 1..N : RowNo(h, k) = RowNo(h, n) <=> k \in Band(h, n)
        /\ \A k \in Band(h, n) : (k - h - 1) % 4 = (n - h - 1) % 4 => k = n
    <3>1. n \in (h + 1)..(h + 4 * L)
      BY <1>2
    <3>2. /\ RowNo(h, n) \in 1..L /\ 1 + ((n - h - 1) % 4) \in 1..4
          /\ \A k \in 1..(h + 4 * L) : RowNo(h, k) = RowNo(h, n) <=> k \in Band(h, n)
          /\ \A k \in Band(h, n) : (k - h - 1) % 4 = (n - h - 1) % 4 => k = n
      <4>1. h \in Nat /\ L \in Nat
        BY <1>1, <1>2
      <4>2. QED
        BY <3>1, <4>1, RowNumbers, Zenon
    <3>3. QED
      BY <1>2, <3>2, Zenon
  <2>2. o \in Cells \X Values /\ IsIn(o, Options(b))
    <3>1. o \in Cells \X Values
      BY <1>1, <2>1, ElementOfSeq DEF L
    <3>2. QED
      BY <2>1, <3>1 DEF IsIn, L
  <2>3. ASSUME NEW k \in Band(h, n)
        PROVE  k \in (h + 1)..N /\ NameOf(b, k) = Crosses(o)[pos(k)] /\ pos(k) \in 1..4
    <3>1. k \in (h + 1)..N
      BY <1>3, Rows
    <3>2. k \in 1..N /\ ~(k <= h) /\ k # 1
      BY <1>2, <3>1
    <3>3. RowNo(h, k) = RowNo(h, n)
      BY <2>1, <3>2
    <3>4. NameOf(b, k) = Crosses(Options(b)[RowNo(h, k)])[pos(k)]
      BY <3>2, Zenon DEF NameOf, h
    <3>5. pos(k) \in 1..4
      <4>1. k \in (h + 1)..(h + 4 * L)
        BY <1>2, <3>1
      <4>2. QED
        BY <1>1, <1>2, <4>1, RowNumbers DEF L
    <3>6. QED
      BY <3>1, <3>3, <3>4, <3>5, Zenon
  <2>4. n \in Band(h, n)
    BY <1>3, Rows
  <2> HIDE DEF o
  <2>5. /\ \A s, t \in 1..4 : Crosses(o)[s] = Crosses(o)[t] => s = t
        /\ \A t \in 1..4 : IsIn(Crosses(o)[t], columns)
    BY <2>2, CrossFacts DEF columns
  <2>6. ASSUME NEW k \in Band(h, n), NameOf(b, k) = NameOf(b, n) PROVE k = n
    <3>1. pos(k) = pos(n)
      BY <2>3, <2>4, <2>5, <2>6
    <3>2. (k - h - 1) % 4 = (n - h - 1) % 4
      <4>1. k \in Int /\ n \in Int /\ h \in Int
        BY <1>2, <2>3
      <4>2. QED
        BY <3>1, <4>1
    <3>3. QED
      BY <2>1, <3>2
  <2>7. IsIn(NameOf(b, n), columns)
    BY <2>3, <2>4, <2>5
  <2>8. PICK i \in 1..Len(columns) : columns[i] = NameOf(b, n)
    BY <2>7 DEF IsIn
  <2>9. i + 1 \in 2..h /\ P(i + 1)
    BY <1>1, <1>2, <2>8
  <2>10. HomeOf(b, n) = CHOOSE c \in 2..h : P(c)
    <3>1. ~(n <= h)
      BY <1>2
    <3>2. QED
      BY <3>1, Zenon DEF HomeOf, h, columns
  <2> HIDE DEF P
  <2>11. HomeOf(b, n) \in 2..h /\ P(HomeOf(b, n))
    BY <2>9, <2>10, Zenon
  <2>12. QED
    BY <2>1, <2>6, <2>11 DEF P
<1>7. QED
  BY <1>2, <1>3, <1>4, <1>5, <1>6 DEF h, N, L, columns

\* The links of a row are those of its band.
LEMMA BandAround ==
  ASSUME NEW h, NEW N, Fits(h, N), NEW n \in (h + 1)..N
  PROVE  After(Band(h, n), n) = RowAt(h, n, 1) /\ Before(Band(h, n), n) = RowAt(h, n, 3)
<1> DEFINE f == First(h, n)
           B == f..(f + 3)
<1>1. /\ f \in (h + 1)..(N - 3) /\ n \in Band(h, n)
      /\ \A k \in Band(h, n) : k \in (h + 1)..N
  BY Rows
<1>2. Band(h, n) = B
  BY DEF Band
<1>3. h \in Nat /\ N \in Nat
  BY DEF Fits
<1>4. RowAt(h, n, 1) = f + ((n - f + 1) % 4) /\ RowAt(h, n, 3) = f + ((n - f + 3) % 4)
  BY DEF RowAt
<1> HIDE DEF f
<1>5. f \in Int /\ n \in Int /\ (n = f \/ n = f + 1 \/ n = f + 2 \/ n = f + 3)
  BY <1>1, <1>2, <1>3
<1>6. /\ RowAt(h, n, 1) = IF n = f + 3 THEN f ELSE n + 1
      /\ RowAt(h, n, 3) = IF n = f THEN f + 3 ELSE n - 1
  BY <1>4, <1>5
<1>7. IsAfter(B, n, RowAt(h, n, 1))
  BY <1>5, <1>6 DEF IsAfter
<1>8. IsBefore(B, n, RowAt(h, n, 3))
  BY <1>5, <1>6 DEF IsBefore
<1>9. B \in SUBSET (1..N) /\ B \in SUBSET Int /\ B # {} /\ n \in 1..N
  BY <1>1, <1>2, <1>3
<1> HIDE DEF B
<1>10. IsAfter(B, n, After(B, n)) /\ IsBefore(B, n, Before(B, n))
  BY <1>3, <1>9, AfterIs
<1>11. After(B, n) = RowAt(h, n, 1) /\ Before(B, n) = RowAt(h, n, 3)
  BY <1>5, <1>7, <1>8, <1>9, <1>10, AfterUnique
<1>12. QED
  BY <1>2, <1>11

\* The columns of the matrix of board b.
Homes(b) == [n \in 1..Nd(b) |-> HomeOf(b, n)]

\* The columns of the matrix are as they should be.
LEMMA MatrixShape ==
  ASSUME NEW b
  PROVE  Shape(Homes(b), Hd(b), Nd(b)) /\ \A n \in 1..Nd(b) : NameOf(b, n) \in Int
<1> DEFINE h == Hd(b)
           N == Nd(b)
           columns == ColumnNames(b)
           col == Homes(b)
<1>1. /\ h \in Nat /\ N \in Nat /\ Fits(h, N) /\ h # 0 /\ h <= N
      /\ \A c \in 2..h : NameOf(b, c) = columns[c - 1] /\ HomeOf(b, c) = c
      /\ \A n \in (h + 1)..N :
           /\ HomeOf(b, n) \in 2..h /\ columns[HomeOf(b, n) - 1] = NameOf(b, n)
           /\ \A k \in Band(h, n) : k # n => NameOf(b, k) # NameOf(b, n)
  BY RowOptions
<1>2. columns \in Seq(Int) /\ h = 1 + Len(columns) /\ Len(columns) \in Nat
  BY ColumnFacts DEF Hd
<1>3. NameOf(b, 1) = 0 /\ HomeOf(b, 1) = 1
  <2>1. 1 <= h
    BY <1>1
  <2>2. QED
    BY <2>1 DEF NameOf, HomeOf
<1>4. \A n \in 1..N : col[n] = HomeOf(b, n)
  BY DEF Homes
<1>5. col = [n \in 1..N |-> col[n]]
  BY DEF Homes
<1> HIDE DEF h, N, columns, col
<1>6. \A c \in 2..h : columns[c - 1] \in Int
  <2>1. ASSUME NEW c \in 2..h PROVE columns[c - 1] \in Int
    <3>1. c - 1 \in 1..Len(columns)
      BY <1>2
    <3>2. QED
      BY <1>2, <3>1, ElementOfSeq
  <2>2. QED
    BY <2>1
<1>7. \A n \in 1..N : n = 1 \/ n \in 2..h \/ n \in (h + 1)..N
  BY <1>1
<1>8. \A n \in 1..N : NameOf(b, n) \in Int
  BY <1>1, <1>3, <1>6, <1>7
<1>9. \A n \in 1..h : n \in 1..N /\ (n = 1 \/ n \in 2..h)
  BY <1>1
<1>10. \A n \in 1..h : col[n] = n
  BY <1>1, <1>3, <1>4, <1>9
<1>11. \A n \in (h + 1)..N : n \in 1..N
  BY <1>1
<1>12. ASSUME NEW n \in 1..N PROVE col[n] \in 1..h
  <2>1. 1 \in 1..h /\ \A c \in 2..h : c \in 1..h
    BY <1>1
  <2>2. QED
    BY <1>1, <1>3, <1>4, <1>7, <2>1
<1>13. ASSUME NEW n \in (h + 1)..N
       PROVE  col[n] # 1 /\ \A i \in 1..3 : col[RowAt(h, n, i)] # col[n]
  <2>1. col[n] \in 2..h /\ columns[col[n] - 1] = NameOf(b, n)
    BY <1>1, <1>4, <1>11
  <2>2. ASSUME NEW i \in 1..3 PROVE col[RowAt(h, n, i)] # col[n]
    <3> DEFINE k == RowAt(h, n, i)
    <3>1. /\ \A j \in 1..3 : RowAt(h, n, j) \in (h + 1)..N /\ RowAt(h, n, j) # n
          /\ Band(h, n) = {n, RowAt(h, n, 1), RowAt(h, n, 2), RowAt(h, n, 3)}
      BY <1>1, RowCycle
    <3>2. i = 1 \/ i = 2 \/ i = 3
      OBVIOUS
    <3>3. k \in (h + 1)..N /\ k # n /\ k \in Band(h, n)
      BY <3>1, <3>2
    <3> HIDE DEF k
    <3>4. columns[col[k] - 1] = NameOf(b, k) /\ NameOf(b, k) # NameOf(b, n)
      BY <1>1, <1>4, <1>11, <3>3
    <3>5. col[k] # col[n]
      BY <2>1, <3>4
    <3>6. QED
      BY <3>5 DEF k
  <2>3. QED
    BY <1>1, <2>1, <2>2
<1>14. col \in [1..N -> 1..h]
  BY <1>5, <1>12
<1>15. Shape(col, h, N)
  BY <1>1, <1>10, <1>13, <1>14 DEF Shape
<1>16. QED
  BY <1>8, <1>15 DEF col, h, N

\* The constructor links all nodes.
LEMMA MatrixGood ==
  ASSUME NEW b
  PROVE  /\ Good(Matrix(b), Hd(b), Nd(b), {})
         /\ Matrix(b).name = [n \in 1..Nd(b) |-> NameOf(b, n)]
         /\ Matrix(b).col = Homes(b)
<1> DEFINE h == Hd(b)
           N == Nd(b)
           col == Homes(b)
           m == Matrix(b)
           name == [n \in 1..N |-> NameOf(b, n)]
           right == [n \in 1..N |-> After(AllOfRow(b, n), n)]
           left == [n \in 1..N |-> Before(AllOfRow(b, n), n)]
           down == [n \in 1..N |-> After(AllOfCol(b, n), n)]
           up == [n \in 1..N |-> Before(AllOfCol(b, n), n)]
           size == [n \in 1..N |-> IF n <= h THEN Cardinality(AllOfCol(b, n)) - 1 ELSE 0]
<1>1. m = [name |-> name, col |-> col, right |-> right, left |-> left,
           down |-> down, up |-> up, size |-> size]
  BY MatrixFields, Zenon DEF Fields, Homes
<1>2. Shape(col, h, N) /\ \A n \in 1..N : NameOf(b, n) \in Int
  BY MatrixShape
<1>3. /\ h \in Nat /\ N \in Nat /\ 1 \in 1..h /\ h <= N
      /\ \A n \in 1..N : n \in Int /\ col[n] \in 1..h /\ col[n] \in 1..N
      /\ \A n \in 1..h : n \in 1..N /\ col[n] = n
      /\ \A n \in (h + 1)..N : n \in 1..N /\ ~(n <= h)
  BY <1>2, ShapeFacts
<1>4. Fits(h, N)
  BY <1>2 DEF Shape
<1>5. \A n \in 1..N : AllOfCol(b, n) = Lane(col, 1..N, col[n])
  BY DEF AllOfCol, Lane, Homes
<1>6. \A n \in 1..N : AllOfRow(b, n) \in SUBSET (1..N) /\ n \in AllOfRow(b, n)
  BY DEF AllOfRow
<1>7. \A n \in 1..N : AllOfCol(b, n) \in SUBSET (1..N) /\ n \in AllOfCol(b, n)
  BY DEF AllOfCol
<1>8. \A n \in (h + 1)..N : AllOfRow(b, n) = Band(h, n)
  <2>1. ASSUME NEW n \in (h + 1)..N PROVE AllOfRow(b, n) = Band(h, n)
    <3> DEFINE L == Len(Options(b))
    <3>1. L \in Nat /\ N = h + 4 * L
      BY OptionFacts DEF Nd
    <3> HIDE DEF L
    <3>2. \A k \in 1..(h + 4 * L) : RowNo(h, k) = RowNo(h, n) <=> k \in Band(h, n)
      <4>1. n \in (h + 1)..(h + 4 * L)
        BY <3>1
      <4>2. QED
        BY <1>3, <3>1, <4>1, RowNumbers, Zenon
    <3>3. \A k \in 1..N : RowNo(h, k) = RowNo(h, n) <=> k \in Band(h, n)
      BY <3>1, <3>2, Zenon
    <3>4. \A k \in Band(h, n) : k \in 1..N
      BY <1>2, BandFacts
    <3>5. AllOfRow(b, n) = {k \in 1..N : RowNo(h, k) = RowNo(h, n)}
      BY DEF AllOfRow
    <3> HIDE DEF h, N
    <3>6. QED
      BY <3>3, <3>4, <3>5
  <2>2. QED
    BY <2>1
<1>9. \A n \in 1..h : AllOfRow(b, n) = 1..h
  <2>1. ASSUME NEW n \in 1..h PROVE AllOfRow(b, n) = 1..h
    <3>1. RowNo(h, n) = 0 /\ \A k \in 1..N : RowNo(h, k) = 0 <=> k \in 1..h
      <4> HIDE DEF h, N
      <4>1. n <= h
        BY <1>3
      <4>2. ASSUME NEW k \in 1..N PROVE RowNo(h, k) = 0 <=> k \in 1..h
        BY <1>3 DEF RowNo
      <4>3. QED
        BY <4>1, <4>2 DEF RowNo
    <3>2. AllOfRow(b, n) = {k \in 1..N : RowNo(h, k) = RowNo(h, n)}
      BY DEF AllOfRow
    <3> HIDE DEF h, N
    <3>3. QED
      BY <1>3, <3>1, <3>2
  <2>2. QED
    BY <2>1
<1>10. \A n \in 1..N : /\ name[n] = NameOf(b, n)
                       /\ right[n] = After(AllOfRow(b, n), n)
                       /\ left[n] = Before(AllOfRow(b, n), n)
                       /\ down[n] = After(AllOfCol(b, n), n)
                       /\ up[n] = Before(AllOfCol(b, n), n)
                       /\ size[n] = IF n <= h THEN Cardinality(AllOfCol(b, n)) - 1 ELSE 0
  BY Zenon
<1>11. /\ name = [n \in 1..N |-> name[n]] /\ right = [n \in 1..N |-> right[n]]
       /\ left = [n \in 1..N |-> left[n]] /\ down = [n \in 1..N |-> down[n]]
       /\ up = [n \in 1..N |-> up[n]] /\ size = [n \in 1..N |-> size[n]]
  OBVIOUS
<1>20. name = [n \in 1..Nd(b) |-> NameOf(b, n)]
  OBVIOUS
<1> HIDE DEF name, right, left, down, up, size, col, m, h, N
<1>12. m.name = name /\ m.col = col /\ m.right = right /\ m.left = left
       /\ m.down = down /\ m.up = up /\ m.size = size
  BY <1>1
<1>13. IsMatrix(m, N)
  <2>1. ASSUME NEW n \in 1..N
        PROVE  /\ name[n] \in Int /\ right[n] \in 1..N /\ left[n] \in 1..N
               /\ down[n] \in 1..N /\ up[n] \in 1..N /\ size[n] \in Int
    <3>1. /\ After(AllOfRow(b, n), n) \in 1..N /\ Before(AllOfRow(b, n), n) \in 1..N
      BY <1>3, <1>6, ThereAndBack
    <3>2. /\ After(AllOfCol(b, n), n) \in 1..N /\ Before(AllOfCol(b, n), n) \in 1..N
      BY <1>3, <1>7, ThereAndBack
    <3>3. Cardinality(AllOfCol(b, n)) \in Nat
      <4>1. IsFiniteSet(1..N)
        BY <1>3, InitialSegment
      <4>2. IsFiniteSet(AllOfCol(b, n))
        BY <1>7, <4>1, FS_Subset
      <4>3. QED
        BY <4>2, FS_CardinalityType
    <3>4. Cardinality(AllOfCol(b, n)) - 1 \in Int
      BY <3>3
    <3>5. QED
      BY <1>2, <1>10, <3>1, <3>2, <3>4
  <2>2. /\ name \in [1..N -> Int] /\ right \in [1..N -> 1..N] /\ left \in [1..N -> 1..N]
        /\ down \in [1..N -> 1..N] /\ up \in [1..N -> 1..N] /\ size \in [1..N -> Int]
    BY <1>11, <2>1
  <2>3. col \in [1..N -> 1..N]
    <3>1. col \in [1..N -> 1..h]
      BY <1>2 DEF Shape
    <3>2. QED
      BY <1>3, <3>1
  <2>4. QED
    BY <1>1, <2>2, <2>3 DEF IsMatrix
<1>14. Rowed(m, h, N)
  <2>1. ASSUME NEW n \in (h + 1)..N
        PROVE  m.right[n] = RowAt(h, n, 1) /\ m.left[n] = RowAt(h, n, 3)
    <3>1. After(Band(h, n), n) = RowAt(h, n, 1) /\ Before(Band(h, n), n) = RowAt(h, n, 3)
      BY <1>4, BandAround
    <3>2. QED
      BY <1>3, <1>8, <1>10, <1>12, <3>1
  <2>2. QED
    BY <2>1 DEF Rowed
<1>15. Heads(h, {}) = 1..h
  BY DEF Heads
<1>16. \A c \in Heads(h, {}) : /\ m.right[c] = After(Heads(h, {}), c)
                               /\ m.left[c] = Before(Heads(h, {}), c)
  BY <1>3, <1>9, <1>10, <1>12, <1>15
<1>17. Free(col, h, N, {}) = 1..N
  BY DEF Free
<1>18. Linked(m, h, 1..N)
  <2>1. ASSUME NEW n \in 1..N
        PROVE  /\ m.down[n] = After(Lane(m.col, 1..N, m.col[n]), n)
               /\ m.up[n] = Before(Lane(m.col, 1..N, m.col[n]), n)
    BY <1>5, <1>10, <1>12
  <2>2. ASSUME NEW c \in 1..N, c <= h
        PROVE  m.size[c] = Cardinality(Lane(m.col, 1..N, c)) - 1
    <3>1. c \in 1..h
      BY <1>3, <2>2
    <3>2. col[c] = c
      BY <1>3, <3>1
    <3>3. size[c] = Cardinality(AllOfCol(b, c)) - 1
      BY <1>10, <2>2
    <3>4. QED
      BY <1>5, <1>12, <3>2, <3>3
  <2>3. QED
    BY <2>1, <2>2 DEF Linked
<1>19. Good(m, h, N, {})
  <2>1. {} \in SUBSET (2..h)
    OBVIOUS
  <2>2. Shape(m.col, h, N) /\ Linked(m, h, Free(m.col, h, N, {}))
    BY <1>2, <1>12, <1>17, <1>18
  <2>3. QED
    BY <1>13, <1>14, <1>16, <2>1, <2>2 DEF Good
<1>21. m.name = name /\ m.col = col
  BY <1>12
<1>22. QED
  BY <1>19, <1>20, <1>21 DEF m, h, N, col
-----------------------------------------------------------------------------
(* The search.                                                             *)

\* The lemmas on covering, each from one fact to one fact.
Backwards(t, s) == Len(t) = Len(s) /\ \A k \in 1..Len(s) : t[k] = s[Len(s) - k + 1]
Undone(h, N, m, C, s, t) ==
  /\ Good(Run("cover", m, s), h, N, C \cup Members(s))
  /\ Run("cover", m, s).name = m.name /\ Run("cover", m, s).col = m.col
  /\ Run("uncover", Run("cover", m, s), t) = m

\* Uncovering columns, latest first, leads back to the matrix before.
LEMMA UndoneBackwards ==
  ASSUME NEW h, NEW N, NEW m, NEW C, NEW s, Covering(h, N, m, C, s), NEW t, Backwards(t, s)
  PROVE  Undone(h, N, m, C, s, t)
BY CoverUndone DEF Backwards, Undone

OneMore(h, N, m, C, c) == Good(m, h, N, C) /\ c \in (2..h) \ C
OneUndone(h, N, m, C, c) ==
  /\ Good(Cover(m, c), h, N, C \cup {c})
  /\ Uncover(Cover(m, c), c) = m
  /\ Cover(m, c).name = m.name /\ Cover(m, c).col = m.col
  /\ \A n \in 1..N : m.col[n] = c => /\ Cover(m, c).down[n] = m.down[n]
                                     /\ Cover(m, c).up[n] = m.up[n]

\* So it does for one column.
LEMMA CoverOne ==
  ASSUME NEW h, NEW N, NEW m, NEW C, NEW c, OneMore(h, N, m, C, c)
  PROVE  OneUndone(h, N, m, C, c)
BY CoverNode DEF OneMore, OneUndone

InTurn(step, E, s, t) == step \in Kinds /\ s \in Seq(E) /\ t \in Seq(E)

\* A run for one sequence and then for another.
LEMMA RunInTurn ==
  ASSUME NEW step, NEW E, NEW s, NEW t, InTurn(step, E, s, t), NEW m
  PROVE  Run(step, m, s \o t) = Run(step, Run(step, m, s), t)
BY RunConcat DEF InTurn

HeaderList(h, m, C) ==
  /\ \E w : /\ Others(m.right, 1) = w /\ Ascending(w, (2..h) \ C) /\ w \in Seq((2..h) \ C)
           /\ Len(w) \in Nat /\ (Len(w) = 0 <=> (2..h) \ C = {})
  /\ m.left[1] = 1 <=> (2..h) \ C = {}
  /\ \A c \in (2..h) \ C : m.left[m.right[c]] = c

\* The header list holds the columns that are not covered.
LEMMA HeaderWalk ==
  ASSUME NEW h, NEW N, NEW m, NEW C, Good(m, h, N, C)
  PROVE  HeaderList(h, m, C)
BY HeaderRound DEF HeaderList

ThreeIn(E, s, t, w) == s \in Seq(E) /\ t \in Seq(E) /\ w \in Seq(E)

\* Three sequences, put together either way.
LEMMA Associate ==
  ASSUME NEW E, NEW s, NEW t, NEW w, ThreeIn(E, s, t, w)
  PROVE  (s \o t) \o w = s \o (t \o w)
BY ConcatAssociative DEF ThreeIn

\* Covering columns of the matrix of board b.
LEMMA CoveredGood ==
  ASSUME NEW b, NEW s, s \in Seq(2..Hd(b)), Distinct(s)
  PROVE  /\ Good(Run("cover", Matrix(b), s), Hd(b), Nd(b), Members(s))
         /\ Run("cover", Matrix(b), s).col = Homes(b)
         /\ Run("cover", Matrix(b), s).name = Matrix(b).name
         /\ Run("uncover", Run("cover", Matrix(b), s), Reverse(s)) = Matrix(b)
<1> DEFINE h == Hd(b)
           N == Nd(b)
           m == Matrix(b)
           t == Reverse(s)
<1>1. Good(m, h, N, {}) /\ m.col = Homes(b)
  BY MatrixGood
<1>2. Covering(h, N, m, {}, s)
  BY <1>1 DEF Covering
<1>3. Len(s) \in Nat
  BY LenProperties
<1>4. Len(t) = Len(s) /\ \A k \in 1..Len(s) : t[k] = s[Len(s) - k + 1]
  BY <1>3 DEF Reverse
<1> HIDE DEF h, N, m, t
<1>5. /\ Good(Run("cover", m, s), h, N, {} \cup Members(s))
      /\ Run("cover", m, s).name = m.name /\ Run("cover", m, s).col = m.col
      /\ Run("uncover", Run("cover", m, s), t) = m
  <2>1. Backwards(t, s)
    BY <1>4 DEF Backwards
  <2>2. Undone(h, N, m, {}, s, t)
    BY <1>2, <2>1, UndoneBackwards
  <2>3. QED
    BY <2>2 DEF Undone
<1>6. {} \cup Members(s) = Members(s)
  OBVIOUS
<1>7. QED
  BY <1>1, <1>5, <1>6 DEF h, N, m, t

\* Covering more of them.
LEMMA CoverMore ==
  ASSUME NEW b, NEW s, NEW t, s \in Seq(2..Hd(b)), Distinct(s),
         t \in Seq(2..Hd(b)), Distinct(t), \A x \in Members(t) : x \notin Members(s),
         NEW r, Len(r) = Len(t), \A k \in 1..Len(t) : r[k] = t[Len(t) - k + 1]
  PROVE  /\ Run("cover", Matrix(b), s \o t) = Run("cover", Run("cover", Matrix(b), s), t)
         /\ Run("uncover", Run("cover", Matrix(b), s \o t), r) = Run("cover", Matrix(b), s)
<1> DEFINE m == Matrix(b)
           d == Run("cover", m, s)
<1>1. Good(d, Hd(b), Nd(b), Members(s))
  BY CoveredGood
<1>2. Run("cover", m, s \o t) = Run("cover", d, t)
  <2>1. "cover" \in Kinds
    BY DEF Kinds
  <2>2. InTurn("cover", 2..Hd(b), s, t)
    BY <2>1 DEF InTurn
  <2>3. QED
    BY <2>2, RunInTurn
<1> HIDE DEF d
<1>3. Covering(Hd(b), Nd(b), d, Members(s), t)
  BY <1>1 DEF Covering
<1>4. Run("uncover", Run("cover", d, t), r) = d
  <2>1. Backwards(r, t)
    BY DEF Backwards
  <2>2. Undone(Hd(b), Nd(b), d, Members(s), t, r)
    BY <1>3, <2>1, UndoneBackwards
  <2>3. QED
    BY <2>2 DEF Undone
<1>5. QED
  BY <1>2, <1>4 DEF d

\* What is true of the frames fr, the position p and the matrix d.
State(u, fr, p, d, b) ==
  /\ Search(u, fr, p, Homes(b), Hd(b), Nd(b))
  /\ d = Run("cover", Matrix(b), u[Len(fr)])

Stands(s, fr, d, b) ==
  /\ Len(fr) \in Nat /\ fr \in Seq([col : 1..Nd(b), row : 1..Nd(b)])
  /\ s \in Seq(2..Hd(b)) /\ Distinct(s)
  /\ Good(d, Hd(b), Nd(b), Members(s))
  /\ d.col = Homes(b) /\ d.name = Matrix(b).name
  /\ Run("uncover", d, Reverse(s)) = Matrix(b)

\* What a state of the search says of the matrix.
LEMMA StateFacts ==
  ASSUME NEW u, NEW fr, NEW p, NEW d, NEW b, State(u, fr, p, d, b)
  PROVE  Stands(u[Len(fr)], fr, d, b)
<1>1. Search(u, fr, p, Homes(b), Hd(b), Nd(b)) /\ d = Run("cover", Matrix(b), u[Len(fr)])
  BY DEF State
<1>2. Len(fr) \in Nat
  BY <1>1, TrailOf
<1>3. /\ fr \in Seq([col : 1..Nd(b), row : 1..Nd(b)])
      /\ \A k \in 0..Len(fr) : u[k] \in Seq(2..Hd(b)) /\ Distinct(u[k])
  BY <1>1 DEF Search
<1>4. u[Len(fr)] \in Seq(2..Hd(b)) /\ Distinct(u[Len(fr)])
  BY <1>2, <1>3
<1>5. QED
  BY <1>1, <1>2, <1>3, <1>4, CoveredGood DEF Stands

\* Only the first n frames, and one frame more.
StateUpTo(u, fr, q, b, n) ==
  \E v : /\ State(v, SubSeq(fr, 1, n), q, Run("cover", Matrix(b), u[n]), b)
        /\ Len(SubSeq(fr, 1, n)) = n /\ v[n] = u[n]

\* A state of the search without its last frames.
LEMMA StateCut ==
  ASSUME NEW u, NEW fr, NEW p, NEW d, NEW b, State(u, fr, p, d, b),
         NEW n, n \in Nat, n <= Len(fr), p = "next" => n < Len(fr), NEW q, q # "next"
  PROVE  StateUpTo(u, fr, q, b, n)
<1> DEFINE g == SubSeq(fr, 1, n)
           v == [k \in 0..n |-> u[k]]
           col == Homes(b)
           h == Hd(b)
           N == Nd(b)
<1>1. Search(u, fr, p, col, h, N)
  BY DEF State
<1>2. v[n] = u[n]
  OBVIOUS
<1>3. Search(v, g, q, col, h, N) /\ Len(g) = n
  <2>1. g = SubSeq(fr, 1, n) /\ v = [k \in 0..n |-> u[k]]
    OBVIOUS
  <2> HIDE DEF col, h, N, g, v
  <2>2. QED
    <3>1. Cutting(u, fr, p, col, h, N, n, g, q, v)
      BY <1>1, <2>1 DEF Cutting
    <3>2. QED
      BY <3>1, CutTrail
<1> HIDE DEF v, g
<1>4. State(v, g, q, Run("cover", Matrix(b), u[n]), b)
  BY <1>2, <1>3 DEF State
<1>5. QED
  BY <1>2, <1>3, <1>4 DEF StateUpTo, g

StateWith(s, fr, e, p, d, b) ==
  \E v : /\ State(v, Append(fr, e), p, Run("cover", d, TakenBy(e, p, Homes(b), Hd(b))), b)
        /\ v[Len(Append(fr, e))] = s \o TakenBy(e, p, Homes(b), Hd(b))

\* A state of the search with a further frame.
LEMMA StatePush ==
  ASSUME NEW u, NEW fr, NEW d, NEW b, State(u, fr, "call", d, b), NEW p,
         NEW e \in [col : 1..Nd(b), row : 1..Nd(b)], NEW s, s = u[Len(fr)],
         FrameFits(e, p, Homes(b), Hd(b), Nd(b), s)
  PROVE  StateWith(s, fr, e, p, d, b)
<1> DEFINE col == Homes(b)
           h == Hd(b)
           N == Nd(b)
           g == Append(fr, e)
           t == TakenBy(e, p, col, h)
<1>1. Search(u, fr, "call", col, h, N) /\ d = Run("cover", Matrix(b), s)
  BY DEF State
<1>2. FrameFits(e, p, col, h, N, u[Len(fr)])
  OBVIOUS
<1>3. PICK v : /\ Search(v, g, p, col, h, N) /\ Len(g) = Len(fr) + 1
               /\ v[Len(g)] = u[Len(fr)] \o TakenBy(e, p, col, h)
  <2>0. g = Append(fr, e) /\ e \in [col : 1..N, row : 1..N]
    OBVIOUS
  <2> HIDE DEF col, h, g, N, t
  <2>1. \E v : /\ Search(v, g, p, col, h, N) /\ Len(g) = Len(fr) + 1
               /\ v[Len(g)] = u[Len(fr)] \o TakenBy(e, p, col, h)
               /\ v[Len(fr)] = u[Len(fr)]
    <3>1. Pushing(u, fr, p, col, h, N, e, g)
      BY <1>1, <1>2, <2>0 DEF Pushing
    <3>2. Pushed(u, fr, p, col, h, N, e, g)
      BY <3>1, PushTrail
    <3>3. QED
      BY <3>2 DEF Pushed
  <2>2. QED
    BY <2>1
<1>4. s \in Seq(2..h) /\ Distinct(s)
  <2>1. Stands(s, fr, d, b)
    BY StateFacts
  <2>2. QED
    BY <2>1 DEF Stands
<1>5. Shape(col, h, N)
  BY <1>1 DEF Search
<1> HIDE DEF col, h, N, g
<1>6. t \in Seq(2..h)
  BY <1>2, <1>4, <1>5, FrameCovers
<1> HIDE DEF t
<1>7. Run("cover", Matrix(b), s \o t) = Run("cover", d, t)
  <2>1. InTurn("cover", 2..h, s, t)
    BY <1>4, <1>6 DEF InTurn, Kinds
  <2>2. QED
    BY <1>1, <2>1, RunInTurn
<1>8. v[Len(g)] = s \o t
  BY <1>3 DEF t
<1>9. State(v, g, p, Run("cover", d, t), b)
  BY <1>3, <1>7, <1>8 DEF State, col, h, N
<1>10. QED
  BY <1>8, <1>9 DEF StateWith, g, t, col, h

\* The last frame: the matrix d0 before it, its column c, and the row of the
\* frame among the rows of c.
Below(d0, u, e, p, d, b, v) ==
  /\ v \in Seq(2..Hd(b)) /\ Distinct(v)
  /\ u = v \o TakenBy(e, p, Homes(b), Hd(b))
  /\ FrameFits(e, p, Homes(b), Hd(b), Nd(b), v)
  /\ e \in [col : 1..Nd(b), row : 1..Nd(b)]
  /\ d0 = Run("cover", Matrix(b), v) /\ Good(d0, Hd(b), Nd(b), Members(v))
  /\ d0.col = Homes(b)
  /\ v \o <<e.col>> \in Seq(2..Hd(b)) /\ Distinct(v \o <<e.col>>)
  /\ Run("cover", Matrix(b), v \o <<e.col>>) = Cover(d0, e.col)
  /\ e.col \in (2..Hd(b)) \ Members(v)
  /\ d = Run("cover", Matrix(b), u)

\* The last frame, and the matrix that its call was given.
LEMMA LastFrame ==
  ASSUME NEW u, NEW fr, NEW p, NEW d, NEW b, State(u, fr, p, d, b), Len(fr) # 0
  PROVE  /\ Len(fr) \in 1..Len(fr) /\ Len(fr) - 1 \in Nat
         /\ \E d0 : Below(d0, u[Len(fr)], fr[Len(fr)], p, d, b, u[Len(fr) - 1])
<1> DEFINE n == Len(fr)
           h == Hd(b)
           N == Nd(b)
           col == Homes(b)
           e == fr[n]
           v == u[n - 1]
           d0 == Run("cover", Matrix(b), v)
           c == e.col
<1>1. Search(u, fr, p, col, h, N)
  BY DEF State
<1>2. n \in Nat /\ \A k \in 1..n : u[k] = u[k - 1] \o Taken(fr, p, col, h, k)
  BY <1>1, TrailOf
<1>3. n \in 1..n /\ n - 1 \in Nat /\ n - 1 \in 0..n
  BY <1>2
<1>4. /\ fr \in Seq([col : 1..N, row : 1..N]) /\ Shape(col, h, N)
      /\ \A k \in 0..n : u[k] \in Seq(2..h) /\ Distinct(u[k])
      /\ \A k \in 1..n : FrameFits(fr[k], Mode(fr, p, k), col, h, N, u[k - 1])
  BY <1>1 DEF Search
<1>5. Mode(fr, p, n) = p
  BY DEF Mode
<1>6. FrameFits(e, p, col, h, N, v)
  <2>1. FrameFits(fr[n], Mode(fr, p, n), col, h, N, u[n - 1])
    BY <1>3, <1>4
  <2>2. QED
    BY <1>5, <2>1
<1>7. u[n] = v \o TakenBy(e, p, col, h)
  <2>1. u[n] = u[n - 1] \o Taken(fr, p, col, h, n)
    BY <1>2, <1>3
  <2>2. QED
    BY <1>5, <2>1 DEF Taken
<1>8. v \in Seq(2..h) /\ Distinct(v)
  BY <1>3, <1>4
<1>9. e \in [col : 1..N, row : 1..N]
  <2> DEFINE E == [col : 1..N, row : 1..N]
  <2>1. fr \in Seq(E)
    BY <1>4
  <2> HIDE DEF E
  <2>2. fr[n] \in E
    BY <1>3, <2>1, ElementOfSeq
  <2>3. QED
    BY <2>2 DEF E
<1>10. Good(d0, h, N, Members(v)) /\ d0.col = col
  BY <1>8, CoveredGood
<1> HIDE DEF n, h, N, col, e, v, d0
<1>11. c \in 2..h /\ c \notin Members(v)
  BY <1>6 DEF FrameFits
<1>12. FrameFits(e, "next", col, h, N, v)
  BY <1>6 DEF FrameFits
<1>13. TakenBy(e, "next", col, h) = <<c>>
  BY DEF TakenBy
<1>14. /\ v \o <<c>> \in Seq(2..h) /\ Distinct(v \o <<c>>)
       /\ <<c>> \in Seq(2..h)
  <2>1. /\ TakenBy(e, "next", col, h) \in Seq(2..h)
        /\ v \o TakenBy(e, "next", col, h) \in Seq(2..h)
        /\ Distinct(v \o TakenBy(e, "next", col, h))
    BY <1>4, <1>8, <1>12, FrameCovers, Zenon
  <2>2. QED
    BY <1>13, <2>1, Zenon
<1>15. Run("cover", Matrix(b), v \o <<c>>) = Cover(d0, c)
  <2>1. "cover" \in Kinds
    BY DEF Kinds
  <2>2. Run("cover", Matrix(b), v \o <<c>>) = Run("cover", d0, <<c>>)
    <3>1. InTurn("cover", 2..h, v, <<c>>)
      BY <1>8, <1>14, <2>1 DEF InTurn
    <3>2. QED
      BY <3>1, RunInTurn DEF d0
  <2>3. Run("cover", d0, <<c>>) = Do("cover", d0, c)
    BY <2>1, RunOne
  <2>4. QED
    BY <2>2, <2>3 DEF Do
<1>18. d = Run("cover", Matrix(b), u[n])
  BY DEF State, n
<1>16. Below(d0, u[n], e, p, d, b, v)
  BY <1>6, <1>7, <1>8, <1>9, <1>10, <1>11, <1>14, <1>15, <1>18 DEF Below, d0, h, N, col
<1>17. QED
  BY <1>3, <1>16 DEF n, e, v

\* Where a call has chosen a column and looks for a row.
Looking(d0, u, e, d, b, v) ==
  /\ u = v \o <<e.col>> /\ d = Cover(d0, e.col) /\ Uncover(d, e.col) = d0
  /\ d.down[e.row] = After(Lane(Homes(b), Free(Homes(b), Hd(b), Nd(b), Members(v)), e.col),
                           e.row)

\* Between rows only the column of the last frame is covered, and the next
\* row is the one after the row it is at, in the column that the call found.
LEMMA AtNext ==
  ASSUME NEW u, NEW e, NEW d, NEW b, NEW d0, NEW v, Below(d0, u, e, "next", d, b, v)
  PROVE  Looking(d0, u, e, d, b, v)
<1> DEFINE h == Hd(b)
           N == Nd(b)
           col == Homes(b)
           c == e.col
           F == Free(col, h, N, Members(v))
<1>1. u = v \o <<c>>
  BY DEF Below, TakenBy
<1>2. d = Cover(d0, c)
  BY <1>1 DEF Below
<1>3. Good(d0, h, N, Members(v)) /\ c \in (2..h) \ Members(v) /\ d0.col = col
  BY DEF Below
<1>4. e.row \in Lane(col, F, c)
  BY DEF Below, FrameFits
<1> HIDE DEF h, N, col, c
<1>5. /\ Uncover(Cover(d0, c), c) = d0
      /\ \A n \in 1..N : d0.col[n] = c => Cover(d0, c).down[n] = d0.down[n]
  <2>1. OneMore(h, N, d0, Members(v), c)
    BY <1>3 DEF OneMore
  <2>2. OneUndone(h, N, d0, Members(v), c)
    BY <2>1, CoverOne
  <2>3. QED
    BY <2>2 DEF OneUndone
<1>6. e.row \in F /\ e.row \in 1..N /\ col[e.row] = c
  BY <1>4 DEF Lane, Free
<1>7. d.down[e.row] = d0.down[e.row]
  BY <1>2, <1>3, <1>5, <1>6
<1>8. d0.down[e.row] = After(Lane(col, F, c), e.row)
  <2>1. Linked(d0, h, F)
    BY <1>3 DEF Good
  <2> HIDE DEF F
  <2>2. QED
    BY <1>3, <1>6, <2>1 DEF Linked
<1>9. QED
  BY <1>1, <1>2, <1>5, <1>7, <1>8 DEF c, col, h, N, Looking

\* Choosing a column.
LEMMA ChooseKeeps ==
  ASSUME NEW u, NEW fr, NEW d, NEW b, State(u, fr, "call", d, b), d.left[1] # 1,
         NEW c, c = GetMinColumn(d)
  PROVE  /\ c \in 2..Hd(b) /\ c \notin Members(u[Len(fr)])
         /\ \E v : State(v, Append(fr, [col |-> c, row |-> c]), "next", Cover(d, c), b)
<1> DEFINE h == Hd(b)
           N == Nd(b)
           col == Homes(b)
           C == Members(u[Len(fr)])
           s == u[Len(fr)]
           e == [col |-> c, row |-> c]
<1>1. /\ s \in Seq(2..h) /\ Distinct(s) /\ Good(d, h, N, C)
      /\ d.col = col
  <2>1. Stands(s, fr, d, b)
    BY StateFacts
  <2>2. QED
    BY <2>1 DEF Stands
<1>2. s = u[Len(fr)]
  OBVIOUS
<1> HIDE DEF s
<1>3. c \in (2..h) \ C
  <2>1. HeaderList(h, d, C)
    BY <1>1, HeaderWalk
  <2>2. PICK w : /\ Others(d.right, 1) = w /\ w \in Seq((2..h) \ C)
                 /\ Len(w) \in Nat /\ (Len(w) = 0 <=> (2..h) \ C = {})
    BY <2>1 DEF HeaderList
  <2>3. (2..h) \ C # {}
    BY <2>1 DEF HeaderList
  <2>4. Len(w) # 0
    BY <2>2, <2>3
  <2> HIDE DEF h, C
  <2>5. QED
    BY <2>2, <2>4, MinColumnIsOne
<1>4. Shape(col, h, N) /\ C \in SUBSET (2..h) /\ h \in Nat /\ N \in Nat /\ h <= N
  <2>1. Shape(col, h, N) /\ C \in SUBSET (2..h)
    BY <1>1 DEF Good
  <2>2. QED
    BY <2>1, ShapeFacts
<1>5. c \in (1..h) \ C /\ c \in 1..N
  BY <1>3, <1>4
<1>6. c \in Lane(col, Free(col, h, N, C), c)
  BY <1>4, <1>5, FreeFacts DEF Lane
<1>7. e.col = c /\ e.row = c /\ e \in [col : 1..N, row : 1..N]
  BY <1>5
<1> HIDE DEF e
<1>8. FrameFits(e, "next", col, h, N, s)
  BY <1>3, <1>6, <1>7 DEF FrameFits, s
<1>9. StateWith(s, fr, e, "next", d, b)
  BY <1>2, <1>7, <1>8, StatePush
<1>10. TakenBy(e, "next", col, h) = <<c>>
  BY <1>7 DEF TakenBy
<1>11. Run("cover", d, <<c>>) = Cover(d, c)
  <2>1. "cover" \in Kinds
    BY DEF Kinds
  <2>2. Run("cover", d, <<c>>) = Do("cover", d, c)
    BY <2>1, RunOne
  <2>3. QED
    BY <2>2 DEF Do
<1>12. \E v : State(v, Append(fr, e), "next", Cover(d, c), b)
  BY <1>9, <1>10, <1>11 DEF StateWith
<1>13. QED
  BY <1>3, <1>12 DEF e

\* Another last frame.
LEMMA StateReplace ==
  ASSUME NEW u, NEW fr, NEW p, NEW d, NEW b, State(u, fr, p, d, b),
         NEW n, n = Len(fr), n # 0, NEW q,
         NEW f \in [col : 1..Nd(b), row : 1..Nd(b)], NEW s, s = u[n - 1],
         FrameFits(f, q, Homes(b), Hd(b), Nd(b), s)
  PROVE  StateWith(s, SubSeq(fr, 1, n - 1), f, q, Run("cover", Matrix(b), s), b)
<1>1. n \in Nat /\ n - 1 \in Nat /\ n - 1 <= Len(fr) /\ n - 1 < Len(fr)
  <2>1. Stands(u[Len(fr)], fr, d, b)
    BY StateFacts
  <2>2. QED
    BY <2>1 DEF Stands
<1>2. StateUpTo(u, fr, "call", b, n - 1)
  BY <1>1, StateCut
<1> DEFINE g == SubSeq(fr, 1, n - 1)
           x == Run("cover", Matrix(b), s)
<1>3. PICK v : State(v, g, "call", x, b) /\ Len(g) = n - 1 /\ v[n - 1] = u[n - 1]
  BY <1>2 DEF StateUpTo
<1> HIDE DEF g, x
<1>4. v[Len(g)] = s
  BY <1>3
<1>5. StateWith(s, g, f, q, x, b)
  BY <1>3, <1>4, StatePush
<1>6. QED
  BY <1>5 DEF g, x

\* The columns of a row.
LEMMA RowInColumns ==
  ASSUME NEW col, NEW h, NEW N, Shape(col, h, N), NEW r \in (h + 1)..N
  PROVE  ColsOf(col, h, r) \in Seq(2..h)
<1>1. ASSUME NEW i \in 1..3 PROVE RowAt(h, r, i) \in (h + 1)..N
  <2>1. Fits(h, N)
    BY DEF Shape
  <2>2. QED
    BY <2>1, RowCycle
<1>2. \A x \in (h + 1)..N : col[x] \in 2..h
  <2>1. ASSUME NEW x \in (h + 1)..N PROVE col[x] \in 2..h
    <3>1. col[x] \in 1..h /\ col[x] # 1 /\ h \in Nat
      BY ShapeFacts
    <3>2. QED
      BY <3>1
  <2>2. QED
    BY <2>1
<1>3. col[RowAt(h, r, 1)] \in 2..h /\ col[RowAt(h, r, 2)] \in 2..h /\ col[RowAt(h, r, 3)] \in 2..h
  BY <1>1, <1>2
<1>4. QED
  BY <1>3 DEF ColsOf

\* Trying the next row.
LEMMA TryKeeps ==
  ASSUME NEW u, NEW fr, NEW d, NEW b, State(u, fr, "next", d, b),
         NEW n, n = Len(fr), n # 0,
         NEW e, e = fr[n], NEW r, r = d.down[e.row], r # e.col
  PROVE  /\ r > e.row /\ r \in (Hd(b) + 1)..Nd(b) /\ n \in Nat
         /\ r \in Lane(Homes(b), Free(Homes(b), Hd(b), Nd(b), Members(u[n - 1])), e.col)
         /\ \E v : State(v, Append(SubSeq(fr, 1, n - 1), [col |-> e.col, row |-> r]),
                         "call", Run("cover", d, Along(d.col, Others(d.right, r))), b)
<1> DEFINE h == Hd(b)
           N == Nd(b)
           col == Homes(b)
           c == e.col
           s == u[n - 1]
           C == Members(s)
           S == Lane(col, Free(col, h, N, C), c)
           f == [col |-> c, row |-> r]
           g == SubSeq(fr, 1, n - 1)
           k == Append(g, f)
           t == ColsOf(col, h, r)
<1>1. /\ n \in 1..n /\ n - 1 \in Nat
      /\ \E d0 : Below(d0, u[Len(fr)], fr[Len(fr)], "next", d, b, u[Len(fr) - 1])
  BY LastFrame
<1>2. PICK d0 : Below(d0, u[n], e, "next", d, b, s)
  BY <1>1
<1>3. Looking(d0, u[n], e, d, b, s)
  BY <1>2, AtNext
<1>4. u[n] = s \o <<c>> /\ d = Cover(d0, c) /\ r = After(S, e.row)
  BY <1>3 DEF Looking
<1>5. /\ s \in Seq(2..h) /\ Distinct(s) /\ FrameFits(e, "next", col, h, N, s)
      /\ e \in [col : 1..N, row : 1..N] /\ Good(d0, h, N, C)
      /\ s \o <<c>> \in Seq(2..h) /\ Distinct(s \o <<c>>)
      /\ c \in (2..h) \ C /\ d0.col = col /\ d = Run("cover", Matrix(b), u[n])
      /\ d0 = Run("cover", Matrix(b), s)
  BY <1>2 DEF Below
<1>6. Good(d, h, N, Members(u[n])) /\ d.col = col
  <2>1. Stands(u[Len(fr)], fr, d, b)
    BY StateFacts
  <2>2. QED
    BY <2>1 DEF Stands
<1>7. s = u[n - 1]
  OBVIOUS
<1> HIDE DEF h, N, col, c, s, C, S, f, g, k, t
<1>8. e.row \in S
  BY <1>5 DEF FrameFits, S, C, c
<1>9. S \in SUBSET (1..N) /\ c \in S /\ \A x \in S : x # c => x \in (h + 1)..N
  <2>1. Column(h, N, d0, C, c)
    <3>1. c \in (1..h) \ C
      <4>1. c \in 1..h
        BY <1>5
      <4>2. QED
        BY <1>5, <4>1
    <3>2. QED
      BY <1>5, <3>1 DEF Column
  <2>2. ColumnList(h, N, d0, c, S)
    BY <1>5, <2>1, ColumnRound DEF S
  <2>3. QED
    BY <2>2 DEF ColumnList
<1>10. Shape(col, h, N) /\ h \in Nat /\ N \in Nat
  <2>1. Shape(col, h, N)
    BY <1>5 DEF Good
  <2>2. QED
    BY <2>1, ShapeFacts
<1>11. IsAfter(S, e.row, r)
  <2>1. S # {} /\ e.row \in 1..N
    BY <1>8, <1>9
  <2>2. QED
    BY <1>4, <1>9, <1>10, <2>1, AfterIs
<1>12. r \in S /\ r \in (h + 1)..N
  <2>1. r \in S /\ r # c
    BY <1>11 DEF IsAfter, c
  <2>2. QED
    BY <1>9, <2>1
<1>13. r > e.row
  <2>1. r > e.row \/ \A x \in S : r <= x
    BY <1>11 DEF IsAfter
  <2>2. c < r
    BY <1>5, <1>10, <1>12
  <2>3. QED
    BY <1>9, <1>10, <1>12, <2>1, <2>2
<1>14. f.col = c /\ f.row = r /\ f \in [col : 1..N, row : 1..N]
  BY <1>9, <1>12 DEF f
<1>15. FrameFits(f, "call", col, h, N, s)
  <2>1. r > h
    BY <1>10, <1>12
  <2>2. r \in Lane(col, Free(col, h, N, Members(s)), c)
    BY <1>12 DEF S, C
  <2>3. c \in 2..h /\ c \notin Members(s)
    BY <1>5 DEF C
  <2>4. QED
    BY <1>14, <2>1, <2>2, <2>3 DEF FrameFits
<1>16. StateWith(s, g, f, "call", d0, b)
  <2>1. f \in [col : 1..Nd(b), row : 1..Nd(b)]
    BY <1>14 DEF N
  <2>2. FrameFits(f, "call", Homes(b), Hd(b), Nd(b), s)
    BY <1>15 DEF col, h, N
  <2>3. StateWith(s, SubSeq(fr, 1, n - 1), f, "call", Run("cover", Matrix(b), s), b)
    BY <1>7, <2>1, <2>2, StateReplace
  <2>4. QED
    BY <1>5, <2>3 DEF g
<1>17. TakenBy(f, "call", col, h) = <<c>> \o t
  BY <1>14 DEF TakenBy, t
<1>18. t \in Seq(2..h) /\ <<c>> \in Seq(2..h)
  <2>1. t \in Seq(2..h)
    BY <1>10, <1>12, RowInColumns DEF t
  <2>2. c \in 2..h
    BY <1>5
  <2>3. QED
    BY <2>1, <2>2
<1>19. Run("cover", d0, <<c>> \o t) = Run("cover", d, t)
  <2>1. InTurn("cover", 2..h, <<c>>, t) /\ "cover" \in Kinds
    BY <1>18 DEF InTurn, Kinds
  <2>2. Run("cover", d0, <<c>> \o t) = Run("cover", Run("cover", d0, <<c>>), t)
    BY <2>1, RunInTurn
  <2>3. Run("cover", d0, <<c>>) = Do("cover", d0, c)
    BY <2>1, RunOne
  <2>4. Do("cover", d0, c) = d
    BY <1>4 DEF Do
  <2>5. QED
    BY <2>2, <2>3, <2>4
<1>20. Along(d.col, Others(d.right, r)) = t
  BY <1>6, <1>12, RowColumns DEF t
<1>21. \E v : State(v, k, "call", Run("cover", d, t), b)
  BY <1>16, <1>17, <1>19 DEF StateWith, k, col, h
<1>22. QED
  BY <1>1, <1>12, <1>13, <1>20, <1>21 DEF k, g, f, c, h, N, S, C, s, col

\* Taking a row back.
LEMMA BackKeeps ==
  ASSUME NEW u, NEW fr, NEW d, NEW b, State(u, fr, "return", d, b),
         NEW n, n = Len(fr), n # 0, NEW e, e = fr[n]
  PROVE  \E v : State(v, Append(SubSeq(fr, 1, n - 1), e), "next",
                      Run("uncover", d, Along(d.col, Others(d.left, e.row))), b)
<1> DEFINE h == Hd(b)
           N == Nd(b)
           col == Homes(b)
           c == e.col
           r == e.row
           s == u[n - 1]
           C == Members(s)
           t == ColsOf(col, h, r)
           k == ColsBack(col, h, r)
           s1 == s \o <<c>>
           g == SubSeq(fr, 1, n - 1)
<1>1. /\ n \in 1..n /\ n - 1 \in Nat
      /\ \E d0 : Below(d0, u[Len(fr)], fr[Len(fr)], "return", d, b, u[Len(fr) - 1])
  BY LastFrame
<1>2. PICK d0 : Below(d0, u[n], e, "return", d, b, s)
  BY <1>1
<1>3. /\ s \in Seq(2..h) /\ Distinct(s) /\ FrameFits(e, "return", col, h, N, s)
      /\ e \in [col : 1..N, row : 1..N]
      /\ s1 \in Seq(2..h) /\ Distinct(s1) /\ Good(d0, h, N, C)
      /\ c \in (2..h) \ C /\ d = Run("cover", Matrix(b), u[n])
      /\ d0 = Run("cover", Matrix(b), s)
      /\ Run("cover", Matrix(b), s1) = Cover(d0, c) /\ d0.col = col
  BY <1>2 DEF Below
<1>4. u[n] = s \o TakenBy(e, "return", col, h)
  BY <1>2 DEF Below
<1>5. TakenBy(e, "return", col, h) = <<c>> \o t
  BY DEF TakenBy
<1>6. Good(d, h, N, Members(u[n])) /\ d.col = col /\ Distinct(u[n]) /\ u[n] \in Seq(2..h)
  <2>1. Stands(u[Len(fr)], fr, d, b)
    BY StateFacts
  <2>2. QED
    BY <2>1 DEF Stands
<1>7. s = u[n - 1]
  OBVIOUS
<1>8. t = <<col[RowAt(h, r, 1)], col[RowAt(h, r, 2)], col[RowAt(h, r, 3)]>>
      /\ k = <<col[RowAt(h, r, 3)], col[RowAt(h, r, 2)], col[RowAt(h, r, 1)]>>
  BY DEF ColsOf, ColsBack
<1> HIDE DEF h, N, col, c, s, C, g, k, t, s1, r
<1>9. Shape(col, h, N) /\ h \in Nat /\ N \in Nat
  <2>1. Shape(col, h, N)
    BY <1>3 DEF Good
  <2>2. QED
    BY <2>1, ShapeFacts
<1>10. r \in (h + 1)..N
  <2>1. r > h
    BY <1>3 DEF FrameFits, r
  <2>2. r \in 1..N
    BY <1>3 DEF r
  <2>3. QED
    BY <1>9, <2>1, <2>2
<1>11. t \in Seq(2..h) /\ <<c>> \in Seq(2..h)
  <2>1. t \in Seq(2..h)
    BY <1>9, <1>10, RowInColumns DEF t, r
  <2>2. c \in 2..h
    BY <1>3
  <2>3. QED
    BY <2>1, <2>2
<1>12. u[n] = s1 \o t
  <2>1. ThreeIn(2..h, s, <<c>>, t)
    BY <1>3, <1>11 DEF ThreeIn
  <2>2. (s \o <<c>>) \o t = s \o (<<c>> \o t)
    BY <2>1, Associate
  <2>3. QED
    BY <1>4, <1>5, <2>2 DEF s1
<1>13. Distinct(t) /\ \A x \in Members(t) : x \notin Members(s1)
  <2>1. Len(s1) \in Nat /\ Len(t) \in Nat
    BY <1>3, <1>11, LenProperties
  <2>2. /\ Len(u[n]) = Len(s1) + Len(t)
        /\ \A i \in 1..Len(s1) + Len(t) :
             u[n][i] = IF i <= Len(s1) THEN s1[i] ELSE t[i - Len(s1)]
    <3>1. /\ Len(s1 \o t) = Len(s1) + Len(t)
          /\ \A i \in 1..Len(s1) + Len(t) :
               (s1 \o t)[i] = IF i <= Len(s1) THEN s1[i] ELSE t[i - Len(s1)]
      BY <1>3, <1>11, ConcatProperties, ZenonT(60)
    <3>2. QED
      BY <1>12, <3>1, Zenon
  <2>3. \A i, j \in 1..(Len(s1) + Len(t)) : u[n][i] = u[n][j] => i = j
    BY <1>6, <2>2 DEF Distinct
  <2>4. \A i \in 1..Len(t) : /\ Len(s1) + i \in 1..(Len(s1) + Len(t))
                             /\ u[n][Len(s1) + i] = t[i]
    <3>1. ASSUME NEW i \in 1..Len(t)
          PROVE  Len(s1) + i \in 1..(Len(s1) + Len(t)) /\ u[n][Len(s1) + i] = t[i]
      <4>1. /\ Len(s1) + i \in 1..(Len(s1) + Len(t)) /\ ~(Len(s1) + i <= Len(s1))
            /\ Len(s1) + i - Len(s1) = i
        BY <2>1
      <4>2. QED
        BY <2>2, <4>1, SMTT(30)
    <3>2. QED
      BY <3>1
  <2>5. \A i \in 1..Len(s1) : i \in 1..(Len(s1) + Len(t)) /\ u[n][i] = s1[i]
    BY <2>1, <2>2
  <2>6. ASSUME NEW i \in 1..Len(t), NEW j \in 1..Len(t), t[i] = t[j] PROVE i = j
    <3>1. Len(s1) + i = Len(s1) + j
      BY <2>3, <2>4, <2>6
    <3>2. QED
      BY <2>1, <3>1
  <2>7. ASSUME NEW i \in 1..Len(t), NEW j \in 1..Len(s1) PROVE t[i] # s1[j]
    <3>1. Len(s1) + i # j
      BY <2>1
    <3>2. QED
      BY <2>3, <2>4, <2>5, <3>1
  <2>8. QED
    BY <2>6, <2>7 DEF Distinct, Members
<1>14. Backwards(k, t)
  <2>1. Len(k) = 3 /\ Len(t) = 3 /\ k[1] = t[3] /\ k[2] = t[2] /\ k[3] = t[1]
    BY <1>8
  <2>2. \A i \in 1..3 : k[i] = t[3 - i + 1]
    <3>1. ASSUME NEW i \in 1..3 PROVE k[i] = t[3 - i + 1]
      <4>1. CASE i = 1
        <5>1. 3 - i + 1 = 3
          BY <4>1
        <5>2. QED
          BY <2>1, <4>1, <5>1
      <4>2. CASE i = 2
        <5>1. 3 - i + 1 = 2
          BY <4>2
        <5>2. QED
          BY <2>1, <4>2, <5>1
      <4>3. CASE i = 3
        <5>1. 3 - i + 1 = 1
          BY <4>3
        <5>2. QED
          BY <2>1, <4>3, <5>1
      <4>4. QED
        BY <4>1, <4>2, <4>3
    <3>2. QED
      BY <3>1
  <2>3. QED
    BY <2>1, <2>2 DEF Backwards
<1>15. Run("uncover", d, k) = Cover(d0, c)
  <2>1. Good(Run("cover", Matrix(b), s1), h, N, Members(s1))
    BY <1>3, CoveredGood DEF h, N
  <2> DEFINE d1 == Run("cover", Matrix(b), s1)
  <2>2. InTurn("cover", 2..h, s1, t)
    BY <1>3, <1>11 DEF InTurn, Kinds
  <2>3. d = Run("cover", d1, t)
    BY <1>3, <1>12, <2>2, RunInTurn
  <2>4. Covering(h, N, d1, Members(s1), t)
    BY <1>11, <1>13, <2>1 DEF Covering
  <2> HIDE DEF d1
  <2>5. Undone(h, N, d1, Members(s1), t, k)
    BY <1>14, <2>4, UndoneBackwards
  <2>6. Run("uncover", Run("cover", d1, t), k) = d1
    BY <2>5 DEF Undone
  <2>7. QED
    BY <1>3, <2>3, <2>6 DEF d1
<1>16. FrameFits(e, "next", col, h, N, s)
  BY <1>3 DEF FrameFits
<1>17. StateWith(s, g, e, "next", d0, b)
  <2>1. e \in [col : 1..Nd(b), row : 1..Nd(b)]
    BY <1>3 DEF N
  <2>2. FrameFits(e, "next", Homes(b), Hd(b), Nd(b), s)
    BY <1>16 DEF col, h, N
  <2>3. StateWith(s, SubSeq(fr, 1, n - 1), e, "next", Run("cover", Matrix(b), s), b)
    BY <1>7, <2>1, <2>2, StateReplace
  <2>4. QED
    BY <1>3, <2>3 DEF g
<1>18. TakenBy(e, "next", col, h) = <<c>>
  BY DEF TakenBy, c
<1>19. Run("cover", d0, <<c>>) = Cover(d0, c)
  <2>1. "cover" \in Kinds
    BY DEF Kinds
  <2>2. Run("cover", d0, <<c>>) = Do("cover", d0, c)
    BY <2>1, RunOne
  <2>3. QED
    BY <2>2 DEF Do
<1>20. Along(d.col, Others(d.left, r)) = k
  BY <1>6, <1>10, RowColumns DEF k
<1>21. \E v : State(v, Append(g, e), "next", Run("uncover", d, k), b)
  BY <1>15, <1>17, <1>18, <1>19 DEF StateWith, col, h
<1>22. QED
  BY <1>20, <1>21 DEF g, r

\* Giving a column up.
LEMMA GiveUpKeeps ==
  ASSUME NEW u, NEW fr, NEW d, NEW b, State(u, fr, "next", d, b),
         NEW n, n = Len(fr), n # 0, NEW c, c = fr[n].col, NEW q, q # "next"
  PROVE  \E v : State(v, SubSeq(fr, 1, n - 1), q, Uncover(d, c), b)
<1>1. /\ n \in 1..n /\ n - 1 \in Nat
      /\ \E d0 : Below(d0, u[Len(fr)], fr[Len(fr)], "next", d, b, u[Len(fr) - 1])
  BY LastFrame
<1>2. PICK d0 : Below(d0, u[n], fr[n], "next", d, b, u[n - 1])
  BY <1>1
<1>3. Looking(d0, u[n], fr[n], d, b, u[n - 1])
  BY <1>2, AtNext
<1>4. Uncover(d, c) = d0 /\ d0 = Run("cover", Matrix(b), u[n - 1])
  BY <1>2, <1>3 DEF Looking, Below
<1>5. n \in Nat /\ n - 1 <= Len(fr) /\ n - 1 < Len(fr)
  BY <1>1
<1>6. StateUpTo(u, fr, q, b, n - 1)
  BY <1>1, <1>5, StateCut
<1>7. QED
  BY <1>4, <1>6 DEF StateUpTo

\* The end of the search.
LEMMA EndKeeps ==
  ASSUME NEW u, NEW fr, NEW p, p # "next", NEW d, NEW b, State(u, fr, p, d, b),
         NEW q, q # "next"
  PROVE  \E v : State(v, fr, q, d, b)
<1> DEFINE n == Len(fr)
<1>1. n \in Nat /\ fr \in Seq([col : 1..Nd(b), row : 1..Nd(b)])
  <2>1. Stands(u[Len(fr)], fr, d, b)
    BY StateFacts
  <2>2. QED
    BY <2>1 DEF Stands
<1>2. StateUpTo(u, fr, q, b, n)
  BY <1>1, StateCut
<1>3. SubSeq(fr, 1, n) = fr
  BY <1>1
<1>4. d = Run("cover", Matrix(b), u[n])
  BY DEF State
<1>5. QED
  BY <1>2, <1>3, <1>4 DEF StateUpTo
-----------------------------------------------------------------------------
(* The inductive invariant.                                                *)

SolverType ==
  /\ puzzle \in Puzzles
  /\ pc \in {"call", "next", "return", "solved", "failed"}
  /\ pc \in {"next", "return"} => Len(frames) # 0
  /\ ~Valid(puzzle) => pc = "failed"
  /\ pc # "solved" => board = puzzle

\* The matrix is that of the constructor with the columns covered that the
\* frames have covered, in their order.
SolverInv ==
  /\ SolverType
  /\ Valid(puzzle) => \E u : State(u, frames, pc, dl, puzzle)

\* Changing the last element of a sequence.
LEMMA LastChanged ==
  ASSUME NEW E, NEW s \in Seq(E), NEW n, n = Len(s), n # 0, NEW e \in E
  PROVE  [s EXCEPT ![n] = e] = Append(SubSeq(s, 1, n - 1), e)
<1> DEFINE g == SubSeq(s, 1, n - 1)
           x == [s EXCEPT ![n] = e]
           y == Append(g, e)
<1>1. n \in Nat /\ n \in 1..n /\ n - 1 \in Nat /\ \A i \in 1..n : s[i] \in E
  <2>1. n \in Nat
    BY LenProperties
  <2>2. QED
    BY <2>1, ElementOfSeq
<1>2. g \in Seq(E) /\ Len(g) = n - 1 /\ \A i \in 1..(n - 1) : g[i] = s[i]
  <2>1. \A i \in 1..(n - 1) : s[i] \in E
    BY <1>1
  <2>2. /\ SubSeq(s, 1, n - 1) \in Seq(E)
        /\ Len(SubSeq(s, 1, n - 1)) = IF 1 <= n - 1 THEN n - 1 - 1 + 1 ELSE 0
        /\ \A i \in 1..(n - 1) - 1 + 1 : SubSeq(s, 1, n - 1)[i] = s[1 + i - 1]
    BY <1>1, <2>1, SubSeqProperties
  <2>3. Len(g) = n - 1 /\ \A i \in 1..(n - 1) : g[i] = s[i]
    BY <1>1, <2>2
  <2>4. QED
    BY <2>2, <2>3
<1> HIDE DEF g
<1>3. y \in Seq(E) /\ Len(y) = n /\ y[n] = e /\ \A i \in 1..(n - 1) : y[i] = g[i]
  <2>1. /\ Append(g, e) \in Seq(E) /\ Len(Append(g, e)) = Len(g) + 1
        /\ \A i \in 1..Len(g) : Append(g, e)[i] = g[i]
        /\ Append(g, e)[Len(g) + 1] = e
    BY <1>2, AppendProperties
  <2>2. Len(g) + 1 = n /\ Len(g) = n - 1
    BY <1>1, <1>2
  <2>3. QED
    BY <2>1, <2>2
<1>4. x \in Seq(E) /\ Len(x) = n /\ x[n] = e /\ \A i \in 1..(n - 1) : x[i] = s[i]
  BY <1>1
<1> HIDE DEF x, y
<1>5. ASSUME NEW i \in 1..n PROVE x[i] = y[i]
  <2>1. i = n \/ i \in 1..(n - 1)
    BY <1>1
  <2>2. QED
    BY <1>2, <1>3, <1>4, <2>1
<1>6. x = y
  BY <1>3, <1>4, <1>5, SeqEqual
<1>7. QED
  BY <1>6 DEF x, y, g

\* The actions in terms of State.
LEMMA InitState == SolverInit => SolverInv
<1> SUFFICES ASSUME SolverInit PROVE SolverInv
  OBVIOUS
<1>1. puzzle \in Puzzles /\ board = puzzle /\ frames = <<>>
      /\ (Valid(puzzle) => dl = Matrix(puzzle) /\ pc = "call")
      /\ (~Valid(puzzle) => pc = "failed")
  BY DEF SolverInit
<1>2. SolverType
  BY <1>1 DEF SolverType
<1>3. ASSUME Valid(puzzle) PROVE \E u : State(u, frames, pc, dl, puzzle)
  <2> DEFINE u == [k \in 0..0 |-> <<>>]
             h == Hd(puzzle)
             N == Nd(puzzle)
             col == Homes(puzzle)
  <2>1. u[0] = <<>> /\ Len(frames) = 0 /\ pc = "call" /\ dl = Matrix(puzzle)
    BY <1>1, <1>3
  <2>2. Shape(col, h, N)
    BY MatrixShape
  <2>3. frames \in Seq([col : 1..N, row : 1..N])
    BY <1>1
  <2>4. u[0] \in Seq(2..h) /\ Distinct(u[0]) /\ \A k \in 0..0 : k = 0
    BY <2>1 DEF Distinct
  <2>5. Trail(u, frames, pc, col, h)
    <3>1. \A k \in 0..0 : u[k] = IF k = 0 THEN <<>> ELSE u[k - 1] \o Taken(frames, pc, col, h, k)
      BY <2>1, <2>4
    <3>2. u = [k \in 0..0 |-> u[k]]
      OBVIOUS
    <3> HIDE DEF u, col, h
    <3>3. u = [k \in 0..0 |-> IF k = 0 THEN <<>> ELSE u[k - 1] \o Taken(frames, pc, col, h, k)]
      BY <3>1, <3>2
    <3>4. QED
      BY <2>1, <3>3 DEF Trail
  <2> HIDE DEF u, col, h, N
  <2>6. Search(u, frames, pc, col, h, N)
    <3>1. \A k \in 0..Len(frames) : u[k] \in Seq(2..h) /\ Distinct(u[k])
      BY <2>1, <2>4
    <3>2. \A k \in 1..Len(frames) : FrameFits(frames[k], Mode(frames, pc, k), col, h, N, u[k - 1])
      BY <2>1
    <3>3. QED
      BY <2>2, <2>3, <2>5, <3>1, <3>2 DEF Search
  <2>7. Run("cover", Matrix(puzzle), u[Len(frames)]) = dl
    <3>1. "cover" \in Kinds
      BY DEF Kinds
    <3>2. Run("cover", Matrix(puzzle), u[0]) = Matrix(puzzle)
      BY <2>1, <3>1, RunNone
    <3>3. QED
      BY <2>1, <3>2
  <2>8. State(u, frames, pc, dl, puzzle)
    BY <2>6, <2>7 DEF State, col, h, N
  <2>9. QED
    BY <2>8
<1>4. QED
  BY <1>2, <1>3 DEF SolverInv

\* What the actions do to the matrix and the frames.
LEMMA StepStates ==
  ASSUME SolverInv, Valid(puzzle), NEW u, State(u, frames, pc, dl, puzzle)
  PROVE  /\ Choose => \E v : State(v, frames', pc', dl', puzzle)
         /\ TryRow => \E v : State(v, frames', pc', dl', puzzle)
         /\ TakeBack => \E v : State(v, frames', pc', dl', puzzle)
         /\ GiveUp => \E v : State(v, frames', pc', dl', puzzle)
         /\ Solved => \E v : State(v, frames', pc', dl', puzzle)
<1> DEFINE n == Len(frames)
           E == [col : 1..Nd(puzzle), row : 1..Nd(puzzle)]
<1>1. n \in Nat /\ frames \in Seq(E)
  <2>1. Stands(u[Len(frames)], frames, dl, puzzle)
    BY StateFacts
  <2>2. QED
    BY <2>1 DEF Stands
<1>2. pc \in {"next", "return"} => n # 0
  BY DEF SolverInv, SolverType
<1>3. n # 0 => frames[n] \in E /\ Top = frames[n]
  <2>1. n # 0 => n \in 1..n
    BY <1>1
  <2> HIDE DEF E
  <2>2. QED
    BY <1>1, <2>1, ElementOfSeq DEF Top, Last
<1> HIDE DEF E
<1>4. ASSUME Choose PROVE \E v : State(v, frames', pc', dl', puzzle)
  <2> DEFINE c == GetMinColumn(dl)
  <2>1. /\ pc = "call" /\ dl.left[1] # 1 /\ pc' = "next"
        /\ dl' = Cover(dl, c) /\ frames' = Append(frames, [col |-> c, row |-> c])
    BY <1>4 DEF Choose
  <2>2. State(u, frames, "call", dl, puzzle)
    BY <2>1
  <2>3. \E v : State(v, Append(frames, [col |-> c, row |-> c]), "next", Cover(dl, c), puzzle)
    BY <2>1, <2>2, ChooseKeeps
  <2>4. QED
    BY <2>1, <2>3
<1>5. ASSUME TryRow PROVE \E v : State(v, frames', pc', dl', puzzle)
  <2> DEFINE e == frames[n]
             r == dl.down[e.row]
             f == [col |-> e.col, row |-> r]
  <2>1. pc = "next" /\ n # 0 /\ Top = e /\ e \in E
    BY <1>2, <1>3, <1>5 DEF TryRow
  <2>2. NextRow = r
    BY <2>1 DEF NextRow
  <2>3. /\ r # e.col /\ pc' = "call"
        /\ dl' = Each(Cover, dl, ColumnsOf(Others(dl.right, r)))
        /\ frames' = [frames EXCEPT ![Len(frames)].row = r]
    BY <1>5, <2>1, <2>2 DEF TryRow
  <2>4. ColumnsOf(Others(dl.right, r)) = Along(dl.col, Others(dl.right, r))
    BY DEF ColumnsOf, Along
  <2>5. dl' = Run("cover", dl, Along(dl.col, Others(dl.right, r)))
    BY <2>3, <2>4, RunIs
  <2>6. State(u, frames, "next", dl, puzzle)
    BY <2>1
  <2> DEFINE g == SubSeq(frames, 1, n - 1)
  <2>7. /\ \E v : State(v, Append(g, f), "call",
                        Run("cover", dl, Along(dl.col, Others(dl.right, r))), puzzle)
        /\ r \in (Hd(puzzle) + 1)..Nd(puzzle)
    BY <2>1, <2>3, <2>6, TryKeeps
  <2>8. f \in E
    <3>1. r \in 1..Nd(puzzle)
      BY <2>7, RowOptions
    <3>2. QED
      BY <2>1, <3>1 DEF E
  <2>9. [frames EXCEPT ![n].row = r] = [frames EXCEPT ![n] = f]
    <3>1. [e EXCEPT !.row = r] = f
      BY <2>1 DEF E
    <3>2. [frames EXCEPT ![n].row = r] = [frames EXCEPT ![n] = [e EXCEPT !.row = r]]
      OBVIOUS
    <3>3. QED
      BY <3>1, <3>2
  <2> HIDE DEF f
  <2>10. [frames EXCEPT ![n] = f] = Append(g, f)
    <3>1. n = Len(frames) /\ n # 0
      BY <2>1
    <3> HIDE DEF n
    <3>2. QED
      BY <1>1, <2>8, <3>1, LastChanged
  <2> HIDE DEF e, r
  <2>11. frames' = Append(g, f)
    BY <2>3, <2>9, <2>10
  <2>12. QED
    BY <2>3, <2>5, <2>7, <2>11
<1>6. ASSUME TakeBack PROVE \E v : State(v, frames', pc', dl', puzzle)
  <2> DEFINE e == frames[n]
             k == Along(dl.col, Others(dl.left, e.row))
  <2>1. pc = "return" /\ n # 0 /\ Top = e /\ e \in E /\ frames' = frames /\ pc' = "next"
    BY <1>2, <1>3, <1>6 DEF TakeBack
  <2>2. dl' = Each(Uncover, dl, ColumnsOf(Others(dl.left, e.row)))
    BY <1>6, <2>1 DEF TakeBack, RowsUncovered
  <2>3. dl' = Run("uncover", dl, k)
    <3>1. ColumnsOf(Others(dl.left, e.row)) = k
      BY DEF ColumnsOf, Along
    <3>2. QED
      BY <2>2, <3>1, RunIs
  <2>4. State(u, frames, "return", dl, puzzle)
    BY <2>1
  <2>5. \E v : State(v, Append(SubSeq(frames, 1, n - 1), e), "next", Run("uncover", dl, k), puzzle)
    BY <2>1, <2>4, BackKeeps
  <2>6. frames = Append(SubSeq(frames, 1, n - 1), e)
    <3>1. [frames EXCEPT ![n] = e] = frames
      BY <1>1
    <3>2. [frames EXCEPT ![n] = e] = Append(SubSeq(frames, 1, n - 1), e)
      BY <1>1, <2>1, LastChanged
    <3>3. QED
      BY <3>1, <3>2
  <2> HIDE DEF k, e
  <2>7. QED
    BY <2>1, <2>3, <2>5, <2>6
<1>7. ASSUME GiveUp PROVE \E v : State(v, frames', pc', dl', puzzle)
  <2> DEFINE c == frames[n].col
  <2>1. pc = "next" /\ n # 0 /\ Top = frames[n]
    BY <1>2, <1>3, <1>7 DEF GiveUp
  <2>2. dl' = Uncover(dl, c) /\ frames' = SubSeq(frames, 1, n - 1) /\ pc' # "next"
    BY <1>7, <2>1 DEF GiveUp, Front
  <2>3. State(u, frames, "next", dl, puzzle)
    BY <2>1
  <2>4. \E v : State(v, SubSeq(frames, 1, n - 1), pc', Uncover(dl, c), puzzle)
    BY <2>1, <2>2, <2>3, GiveUpKeeps
  <2>5. QED
    BY <2>2, <2>4
<1>8. ASSUME Solved PROVE \E v : State(v, frames', pc', dl', puzzle)
  <2>1. pc = "call" /\ pc' = "solved" /\ frames' = frames /\ dl' = dl
    BY <1>8 DEF Solved
  <2>2. \E v : State(v, frames, "solved", dl, puzzle)
    BY <2>1, EndKeeps
  <2>3. QED
    BY <2>1, <2>2
<1>9. QED
  BY <1>4, <1>5, <1>6, <1>7, <1>8

\* The invariant is inductive.
LEMMA InvStep == SolverInv /\ [SolverNext]_solverVars => SolverInv'
<1> SUFFICES ASSUME SolverInv, [SolverNext]_solverVars PROVE SolverInv'
  OBVIOUS
<1>1. SolverType
  BY DEF SolverInv
<1>2. CASE UNCHANGED solverVars
  <2>1. puzzle' = puzzle /\ board' = board /\ dl' = dl /\ frames' = frames /\ pc' = pc
    BY <1>2 DEF solverVars
  <2>2. QED
    BY <2>1 DEF SolverInv, SolverType, Valid, State
<1>3. CASE SolverNext /\ ~UNCHANGED solverVars
  <2>1. Solved \/ Choose \/ TryRow \/ TakeBack \/ GiveUp
    BY <1>3 DEF SolverNext, Done
  <2>2. puzzle' = puzzle /\ pc # "failed"
    BY <2>1 DEF Solved, Choose, TryRow, TakeBack, GiveUp
  <2>3. Valid(puzzle)
    BY <1>1, <2>2 DEF SolverType
  <2>4. PICK u : State(u, frames, pc, dl, puzzle)
    BY <2>3 DEF SolverInv
  <2>5. PICK v : State(v, frames', pc', dl', puzzle)
    BY <2>1, <2>3, <2>4, StepStates
  <2>6. Valid(puzzle)'
    BY <2>2, <2>3 DEF Valid
  <2>7. /\ pc' \in {"call", "next", "return", "solved", "failed"}
        /\ pc' # "solved" => board' = puzzle'
    BY <1>1, <2>1, <2>2 DEF SolverType, Solved, Choose, TryRow, TakeBack, GiveUp
  <2>8. pc' \in {"next", "return"} => Len(frames') # 0
    <3> DEFINE n == Len(frames)
               E == [col : 1..Nd(puzzle), row : 1..Nd(puzzle)]
    <3>1. n \in Nat /\ frames \in Seq(E)
      <4>1. Stands(u[Len(frames)], frames, dl, puzzle)
        BY <2>4, StateFacts
      <4>2. QED
        BY <4>1 DEF Stands
    <3>2. Stands(v[Len(frames')], frames', dl', puzzle)
      BY <2>5, StateFacts
    <3>3. ASSUME Choose PROVE Len(frames') # 0
      <4>1. \E e : frames' = Append(frames, e)
        BY <3>3 DEF Choose
      <4>2. QED
        BY <3>1, <4>1
    <3>4. ASSUME TakeBack PROVE Len(frames') # 0
      <4>1. frames' = frames /\ pc = "return"
        BY <3>4 DEF TakeBack
      <4>2. QED
        BY <1>1, <4>1 DEF SolverType
    <3>5. ASSUME GiveUp PROVE pc' = "return" => Len(frames') # 0
      <4>1. /\ frames' = SubSeq(frames, 1, n - 1) /\ pc = "next"
            /\ pc' = IF n = 1 THEN "failed" ELSE "return"
        BY <3>5 DEF GiveUp, Front
      <4>2. n # 0
        BY <1>1, <4>1 DEF SolverType
      <4>3. n # 1 => Len(SubSeq(frames, 1, n - 1)) = n - 1
        <5>0. n = Len(frames)
          OBVIOUS
        <5> HIDE DEF E, n
        <5>1. \A i \in 1..(n - 1) : frames[i] \in E
          <6>1. \A i \in 1..n : frames[i] \in E
            BY <3>1, <5>0, ElementOfSeq
          <6>2. QED
            BY <3>1, <6>1
        <5>2. Len(SubSeq(frames, 1, n - 1)) = IF 1 <= n - 1 THEN n - 1 - 1 + 1 ELSE 0
          BY <3>1, <4>2, <5>1, SubSeqProperties
        <5>3. QED
          BY <3>1, <4>2, <5>2
      <4>4. QED
        BY <3>1, <4>1, <4>2, <4>3
    <3>6. Solved \/ TryRow => pc' \notin {"next", "return"}
      BY DEF Solved, TryRow
    <3>7. GiveUp => pc' # "next"
      BY DEF GiveUp
    <3>8. QED
      BY <2>1, <3>3, <3>4, <3>5, <3>6, <3>7
  <2>9. SolverType'
    BY <1>1, <2>2, <2>6, <2>7, <2>8 DEF SolverType
  <2>10. (\E w : State(w, frames, pc, dl, puzzle))'
    BY <2>2, <2>5 DEF State
  <2>11. QED
    BY <2>9, <2>10 DEF SolverInv
<1>4. QED
  BY <1>2, <1>3

\* It holds in every state that solve() can be in.
LEMMA SolverInvariant == SolverSpec => []SolverInv
<1>1. SolverInit => SolverInv
  BY InitState
<1>2. SolverInv /\ [SolverNext]_solverVars => SolverInv'
  BY InvStep
<1>3. QED
  BY <1>1, <1>2, PTL DEF SolverSpec
-----------------------------------------------------------------------------
(* The properties of the links.                                            *)

\* The columns covered are those of the trail.
LEMMA CoveredIs ==
  ASSUME NEW u, State(u, frames, pc, dl, puzzle)
  PROVE  Covered = u[Len(frames)]
<1> DEFINE n == Len(frames)
           h == Hd(puzzle)
           N == Nd(puzzle)
           col == Homes(puzzle)
           Step(f, k) == IF k = 0 THEN <<>> ELSE f[k - 1] \o CoveredIn(k)
           Walk(f) == f = [k \in 0..n |-> Step(f, k)]
           upTo == CHOOSE f : Walk(f)
<1>1. Covered = upTo[n]
  BY Zenon DEF Covered
<1>2. Search(u, frames, pc, col, h, N)
  BY DEF State
<1>3. /\ n \in Nat /\ u[0] = <<>>
      /\ \A k \in 1..n : u[k] = u[k - 1] \o Taken(frames, pc, col, h, k)
  <2>1. /\ Len(frames) \in Nat /\ u[0] = <<>>
        /\ \A k \in 1..Len(frames) : u[k] = u[k - 1] \o Taken(frames, pc, col, h, k)
    <3> HIDE DEF n, upTo, h, N, col
    <3>1. QED
      BY <1>2, TrailOf
  <2>2. QED
    BY <2>1
<1>4. /\ Good(dl, h, N, Members(u[n])) /\ dl.col = col
      /\ frames \in Seq([col : 1..N, row : 1..N])
  <2>1. Stands(u[Len(frames)], frames, dl, puzzle)
    BY StateFacts
  <2>2. QED
    BY <2>1 DEF Stands
<1>5. u = [k \in 0..n |-> IF k = 0 THEN <<>> ELSE u[k - 1] \o Taken(frames, pc, col, h, k)]
  BY <1>2 DEF Search, Trail
<1> HIDE DEF n, upTo
<1>6. ASSUME NEW k \in 1..n PROVE CoveredIn(k) = Taken(frames, pc, col, h, k)
  <2> DEFINE e == frames[k]
             q == Mode(frames, pc, k)
  <2>1. FrameFits(e, q, col, h, N, u[k - 1])
    BY <1>2 DEF Search, n
  <2>2. q = "next" <=> k = Len(frames) /\ pc = "next"
    BY DEF Mode
  <2>3. Taken(frames, pc, col, h, k) = TakenBy(e, q, col, h)
    BY DEF Taken
  <2>4. CASE q = "next"
    <3>1. CoveredIn(k) = <<e.col>> \o <<>>
      BY <2>2, <2>4 DEF CoveredIn
    <3>2. <<e.col>> \in Seq({e.col})
      OBVIOUS
    <3>3. <<e.col>> \o <<>> = <<e.col>>
      BY <3>2, ConcatEmptySeq
    <3>4. QED
      BY <2>3, <2>4, <3>1, <3>3 DEF TakenBy
  <2>5. CASE q # "next"
    <3>1. CoveredIn(k) = <<e.col>> \o ColumnsOf(Others(dl.right, e.row))
      BY <2>2, <2>5 DEF CoveredIn
    <3>2. e.row \in (h + 1)..N
      <4>1. e.row > h /\ e.row \in 1..N
        BY <2>1, <2>5 DEF FrameFits, Lane, Free
      <4>2. h \in Nat
        <5>1. Shape(col, h, N)
          BY <1>2 DEF Search
        <5> HIDE DEF col, h, N
        <5>2. QED
          BY <5>1, ShapeFacts
      <4>3. QED
        BY <4>1, <4>2
    <3>3. ColumnsOf(Others(dl.right, e.row)) = ColsOf(dl.col, h, e.row)
      <4>1. Along(dl.col, Others(dl.right, e.row)) = ColsOf(dl.col, h, e.row)
        <5> HIDE DEF col, h, N, e
        <5>1. QED
          BY <1>4, <3>2, RowColumns
      <4>2. QED
        BY <4>1 DEF ColumnsOf, Along
    <3>4. QED
      BY <1>4, <2>3, <2>5, <3>1, <3>3 DEF TakenBy
  <2>6. QED
    BY <2>4, <2>5
<1> HIDE DEF h, N, col
<1>7. ASSUME NEW k \in 0..n PROVE u[k] = Step(u, k)
  <2>1. CASE k = 0
    BY <1>3, <2>1
  <2>2. CASE k # 0
    <3>1. k \in 1..n
      BY <1>3, <2>2
    <3>2. QED
      BY <1>3, <1>6, <2>2, <3>1
  <2>3. QED
    BY <2>1, <2>2
<1>8. u = [k \in 0..n |-> u[k]]
  BY <1>5
<1> HIDE DEF Step
<1>9. Walk(u)
  BY <1>7, <1>8
<1>10. Walk(upTo)
  <2> HIDE DEF Walk
  <2>1. QED
    BY <1>9 DEF upTo
<1>11. upTo[0] = u[0] /\ \A k \in Nat : k < n /\ upTo[k] = u[k] => upTo[k + 1] = u[k + 1]
  <2>1. \A k \in 0..n : upTo[k] = Step(upTo, k)
    BY <1>10
  <2>2. 0 \in 0..n
    BY <1>3
  <2>3. upTo[0] = u[0]
    BY <1>7, <2>1, <2>2 DEF Step
  <2>4. ASSUME NEW k \in Nat, k < n, upTo[k] = u[k] PROVE upTo[k + 1] = u[k + 1]
    <3>1. k + 1 \in 0..n /\ k + 1 # 0 /\ (k + 1) - 1 = k
      BY <1>3, <2>4
    <3>2. upTo[k + 1] = Step(upTo, k + 1) /\ u[k + 1] = Step(u, k + 1)
      BY <1>7, <2>1, <3>1
    <3>3. \A f, i : i # 0 => Step(f, i) = f[i - 1] \o CoveredIn(i)
      BY DEF Step
    <3>4. upTo[(k + 1) - 1] = u[(k + 1) - 1]
      BY <2>4, <3>1
    <3>5. /\ Step(upTo, k + 1) = upTo[(k + 1) - 1] \o CoveredIn(k + 1)
          /\ Step(u, k + 1) = u[(k + 1) - 1] \o CoveredIn(k + 1)
      BY <3>1, <3>3, Zenon
    <3> HIDE DEF Step
    <3>6. QED
      BY <3>2, <3>4, <3>5
  <2>5. QED
    BY <2>3, <2>4
<1>12. upTo[n] = u[n]
  BY <1>3, <1>11, SameSteps
<1>13. QED
  BY <1>1, <1>12 DEF n

\* The invariant says that the links can be restored,
LEMMA LinksBack == SolverInv => LinksCanBeRestored
<1> SUFFICES ASSUME SolverInv, Valid(puzzle)
             PROVE  Each(Uncover, dl, Reverse(Covered)) = Matrix(puzzle)
  BY DEF LinksCanBeRestored
<1>1. PICK u : State(u, frames, pc, dl, puzzle)
  BY DEF SolverInv
<1>2. Covered = u[Len(frames)]
  BY <1>1, CoveredIs
<1>3. Run("uncover", dl, Reverse(u[Len(frames)])) = Matrix(puzzle)
  <2>1. Stands(u[Len(frames)], frames, dl, puzzle)
    BY <1>1, StateFacts
  <2>2. QED
    BY <2>1 DEF Stands
<1>4. QED
  BY <1>2, <1>3, RunIs

\* A column's list of rows agrees with its size and its links back.
LEMMA ColumnRight ==
  ASSUME NEW h, NEW N, NEW m, NEW C, NEW c, Column(h, N, m, C, c)
  PROVE  /\ m.size[c] = Len(Others(m.down, c))
         /\ Reverse(Others(m.down, c)) = Others(m.up, c)
<1> DEFINE F == Free(m.col, h, N, C)
           S == Lane(m.col, F, c)
<1>1. ColumnList(h, N, m, c, S)
  BY ColumnRound
<1>2. Good(m, h, N, C) /\ c \in (1..h) \ C
  BY DEF Column
<1>3. /\ Shape(m.col, h, N) /\ C \in SUBSET (2..h)
      /\ Linked(m, h, F)
  BY <1>2 DEF Good
<1>4. c \in F /\ m.col[c] = c /\ c <= h
  <2>1. c \in F /\ m.col[c] = c
    BY <1>2, <1>3, FreeFacts
  <2>2. h \in Nat
    BY <1>3, ShapeFacts
  <2>3. QED
    BY <1>2, <2>1, <2>2
<1>5. m.size[c] = Cardinality(S) - 1
  BY <1>3, <1>4 DEF Linked
<1> HIDE DEF S, F
<1>6. PICK w : /\ S \in SUBSET (1..N) /\ c \in S /\ Len(w) = Cardinality(S \ {c})
               /\ Others(m.down, c) = w /\ Others(m.up, c) = Reverse(w)
  BY <1>1 DEF ColumnList
<1>7. N \in Nat /\ N \in Int
  BY <1>3, ShapeFacts
<1>8. IsFiniteSet(S)
  <2>1. IsFiniteSet(1..N)
    BY <1>7, InitialSegment
  <2>2. QED
    BY <1>6, <2>1, FS_Subset
<1>9. Cardinality(S \ {c}) = Cardinality(S) - 1
  BY <1>6, <1>8, FS_RemoveElement
<1>10. QED
  BY <1>5, <1>6, <1>9

\* and that the columns are consistent.
LEMMA ColumnsRight == SolverInv => ColumnsConsistent
<1> SUFFICES ASSUME SolverInv, Valid(puzzle), NEW c \in ToSet(Others(dl.right, 1))
             PROVE  /\ dl.size[c] = Len(Others(dl.down, c))
                    /\ Reverse(Others(dl.down, c)) = Others(dl.up, c)
                    /\ dl.left[dl.right[c]] = c
  BY DEF ColumnsConsistent
<1>1. PICK u : State(u, frames, pc, dl, puzzle)
  BY DEF SolverInv
<1> DEFINE h == Hd(puzzle)
           N == Nd(puzzle)
           C == Members(u[Len(frames)])
<1>2. Good(dl, h, N, C)
  <2>1. Stands(u[Len(frames)], frames, dl, puzzle)
    BY <1>1, StateFacts
  <2>2. QED
    BY <2>1 DEF Stands
<1> HIDE DEF h, N, C
<1>3. HeaderList(h, dl, C)
  BY <1>2, HeaderWalk
<1>4. c \in (2..h) \ C
  <2>1. PICK w : Others(dl.right, 1) = w /\ w \in Seq((2..h) \ C)
    BY <1>3 DEF HeaderList
  <2>2. c \in {w[i] : i \in DOMAIN w}
    BY <2>1 DEF ToSet
  <2> DEFINE E == (2..h) \ C
  <2>3. w \in Seq(E)
    BY <2>1
  <2> HIDE DEF E
  <2>4. \A i \in DOMAIN w : w[i] \in E
    <3>1. DOMAIN w = 1..Len(w)
      BY <2>3
    <3>2. QED
      BY <2>3, <3>1, ElementOfSeq
  <2>5. c \in E
    BY <2>2, <2>4
  <2>6. QED
    BY <2>5 DEF E
<1>5. Column(h, N, dl, C, c)
  <2>1. h \in Nat
    <3>1. Shape(dl.col, h, N)
      BY <1>2 DEF Good
    <3>2. QED
      BY <3>1, ShapeFacts
  <2>2. c \in (1..h) \ C
    BY <1>4, <2>1
  <2>3. QED
    BY <1>2, <2>2 DEF Column
<1>6. QED
  BY <1>3, <1>4, <1>5, ColumnRight DEF HeaderList
-----------------------------------------------------------------------------
(* The search goes forward.                                                *)

\* What is kept of a sequence is no longer than it.
LEMMA KeptShorter ==
  ASSUME NEW E, NEW T, NEW s \in Seq(E)
  PROVE  Len(Kept(s, T)) <= Len(s)
<1> DEFINE S == {t \in Seq(E) : Len(Kept(t, T)) <= Len(t)}
<1>1. <<>> \in S
  <2>1. Kept(<<>>, T) = <<>>
    BY KeptEmpty
  <2>2. QED
    BY <2>1
<1>2. ASSUME NEW t \in Seq(E), NEW e \in E, t \in S PROVE Append(t, e) \in S
  <2>1. Kept(Append(t, e), T) = IF e \in T THEN Append(Kept(t, T), e) ELSE Kept(t, T)
    BY KeptAppend
  <2>2. Kept(t, T) \in Seq(E) /\ Len(Kept(t, T)) <= Len(t)
    BY <1>2, KeptType
  <2> DEFINE w == Kept(t, T)
  <2>3. w \in Seq(E) /\ Len(w) <= Len(t) /\ Len(w) \in Nat /\ Len(t) \in Nat
    BY <2>2, LenProperties
  <2> HIDE DEF w
  <2>4. Len(Append(w, e)) = Len(w) + 1 /\ Len(Append(t, e)) = Len(t) + 1
        /\ Append(t, e) \in Seq(E)
    BY <2>3, AppendProperties
  <2>5. Len(Kept(Append(t, e), T)) \in {Len(w), Len(w) + 1}
    BY <2>1, <2>4 DEF w
  <2>6. Len(Kept(Append(t, e), T)) <= Len(Append(t, e))
    BY <2>3, <2>4, <2>5
  <2>7. QED
    BY <2>4, <2>6
<1> HIDE DEF S
<1>3. Seq(E) \subseteq S
  BY <1>1, <1>2, SeqSetInduction
<1>4. QED
  BY <1>3 DEF S

\* The matrix fits the array of nodes.
LEMMA NodesFit ==
  ASSUME NEW b
  PROVE  Nd(b) \in Nat /\ Nd(b) < End
<1>1. Len(ColumnNames(b)) <= 4 * kCells /\ Len(ColumnNames(b)) \in Nat
  <2>1. AllNames \in Seq(Int) /\ Len(AllNames) = 4 * kCells
    BY AllNamesType
  <2>2. Len(Kept(AllNames, Empty(b) \cup Lacks(b))) <= Len(AllNames)
    BY <2>1, KeptShorter
  <2>3. QED
    BY <2>1, <2>2, ColumnFacts DEF ColumnNames
<1>2. Len(Options(b)) <= kCells * Side /\ Len(Options(b)) \in Nat
  <2>1. AllOptions \in Seq(Cells \X Values) /\ Len(AllOptions) = kCells * Side
    BY AllOptionsType
  <2>2. Len(Kept(AllOptions, {o \in Empty(b) \X Values : Open(b, o[1], o[2])}))
          <= Len(AllOptions)
    BY <2>1, KeptShorter
  <2>3. QED
    BY <2>1, <2>2, OptionFacts DEF Options, AllOptions
<1> DEFINE x == Len(ColumnNames(b))
           y == Len(Options(b))
<1>3. Nd(b) = 1 + x + 4 * y
  BY DEF Nd, Hd
<1>4. x \in Nat /\ y \in Nat /\ x <= 4 * kCells /\ y <= kCells * Side
  BY <1>1, <1>2
<1> HIDE DEF x, y
<1>5. Nd(b) \in Nat
  BY <1>3, <1>4
<1>6. \/ kCells = 1 /\ kCells * Side = 1 /\ End = 10
      \/ kCells = 16 /\ kCells * Side = 64 /\ End = 322
      \/ kCells = 81 /\ kCells * Side = 729 /\ End = 3242
  BY Sizes DEF End
<1>7. 1 + x + 4 * y < End
  BY <1>4, <1>6
<1>8. QED
  BY <1>3, <1>5, <1>7

\* The position of frames fr with pc = p.
PosOf(fr, p) ==
  [k \in DOMAIN fr |-> fr[k].row]
    \o CASE p = "call" -> <<>> [] p = "next" -> <<End, End>> [] OTHER -> <<End>>
Marks(p) == IF p = "call" THEN 0 ELSE IF p = "next" THEN 2 ELSE 1
PosIs(fr, p, q) ==
  /\ q \in Seq(Int) /\ Len(q) = Len(fr) + Marks(p)
  /\ \A k \in 1..Len(fr) : q[k] = fr[k].row
  /\ \A k \in (Len(fr) + 1)..Len(q) : q[k] = End

\* The entries of a position.
LEMMA PosFacts ==
  ASSUME NEW N, NEW fr, fr \in Seq([col : 1..N, row : 1..N]), NEW p
  PROVE  PosIs(fr, p, PosOf(fr, p))
<1> DEFINE E == [col : 1..N, row : 1..N]
           n == Len(fr)
           s == [k \in DOMAIN fr |-> fr[k].row]
           t == CASE p = "call" -> <<>> [] p = "next" -> <<End, End>> [] OTHER -> <<End>>
<1>1. n \in Nat /\ DOMAIN fr = 1..n /\ \A k \in 1..n : fr[k] \in E
  <2> HIDE DEF E
  <2>1. fr \in Seq(E)
    BY DEF E
  <2>2. n \in Nat /\ DOMAIN fr = 1..n
    BY <2>1
  <2>3. QED
    BY <2>1, <2>2, ElementOfSeq
<1>2. \A k \in 1..n : fr[k].row \in Int
  BY <1>1, SMTT(30)
<1>3. s \in [1..n -> Int] /\ \A k \in 1..n : s[k] = fr[k].row
  BY <1>1, <1>2
<1>4. s \in Seq(Int) /\ Len(s) = n
  <2> HIDE DEF s
  <2>1. QED
    BY <1>1, <1>3, FunctionIsSeq
<1>5. End \in Int
  <2>1. kMaxNodes \in Int
    BY Sizes
  <2>2. QED
    BY <2>1 DEF End
<1>6. /\ t \in Seq(Int) /\ Len(t) = Marks(p)
      /\ \A k \in 1..Len(t) : t[k] = End
  <2>1. CASE p = "call"
    <3>1. t = <<>>
      BY <2>1
    <3> HIDE DEF t
    <3>2. QED
      BY <2>1, <3>1 DEF Marks
  <2>2. CASE p = "next"
    <3>1. t = <<End, End>>
      BY <2>2
    <3> HIDE DEF t
    <3>2. t \in Seq(Int) /\ Len(t) = 2 /\ t[1] = End /\ t[2] = End
      BY <1>5, <3>1
    <3>3. QED
      BY <2>2, <3>2 DEF Marks
  <2>3. CASE p # "call" /\ p # "next"
    <3>1. t = <<End>>
      BY <2>3
    <3> HIDE DEF t
    <3>2. t \in Seq(Int) /\ Len(t) = 1 /\ t[1] = End
      BY <1>5, <3>1
    <3>3. QED
      BY <2>3, <3>2 DEF Marks
  <2>4. QED
    BY <2>1, <2>2, <2>3
<1>7. PosOf(fr, p) = s \o t
  BY DEF PosOf
<1> HIDE DEF s, t, n
<1>8. /\ s \o t \in Seq(Int) /\ Len(s \o t) = Len(s) + Len(t)
      /\ \A k \in 1..Len(s) + Len(t) :
           (s \o t)[k] = IF k <= Len(s) THEN s[k] ELSE t[k - Len(s)]
  BY <1>4, <1>6, ConcatProperties
<1> DEFINE q == s \o t
<1>9. q \in Seq(Int) /\ Len(q) = n + Marks(p) /\ Marks(p) \in Nat
  BY <1>4, <1>6, <1>8 DEF Marks
<1>10. \A k \in 1..n : q[k] = fr[k].row
  BY <1>1, <1>3, <1>4, <1>6, <1>8, <1>9
<1>11. ASSUME NEW k \in (n + 1)..(n + Marks(p)) PROVE q[k] = End
  <2>1. k \in 1..Len(s) + Len(t) /\ ~(k <= Len(s)) /\ k - Len(s) \in 1..Len(t)
    BY <1>1, <1>4, <1>6, <1>9
  <2>2. QED
    BY <1>6, <1>8, <2>1
<1>12. QED
  BY <1>7, <1>9, <1>10, <1>11 DEF PosIs, n

\* One position is later than another when it continues it, or is greater
\* where they first differ.
LEMMA LaterLonger ==
  ASSUME NEW s, s \in Seq(Int), NEW t, t \in Seq(Int), Len(s) < Len(t),
         \A k \in 1..Len(s) : s[k] = t[k]
  PROVE  Later(s, t)
<1>1. Len(s) \in Nat /\ Len(t) \in Nat
  BY LenProperties
<1>2. SubSeq(s, 1, Len(s)) = SubSeq(t, 1, Len(s))
  <2>1. SubSeq(s, 1, Len(s)) = [k \in 1..Len(s) |-> s[k]]
        /\ SubSeq(t, 1, Len(s)) = [k \in 1..Len(s) |-> t[k]]
    BY <1>1
  <2>2. QED
    BY <2>1
<1>3. IsStrictPrefix(s, t)
  BY <1>1, <1>2 DEF IsStrictPrefix, IsPrefix
<1>4. QED
  BY <1>3 DEF Later

\* A position is later if the first entry that differs is greater.
LEMMA LaterGreater ==
  ASSUME NEW s, s \in Seq(Int), NEW t, t \in Seq(Int), NEW n \in 1..Len(s), n <= Len(t),
         s[n] < t[n], \A k \in 1..(n - 1) : s[k] = t[k]
  PROVE  Later(s, t)
<1>1. Len(s) \in Nat /\ Len(t) \in Nat /\ DOMAIN s = 1..Len(s) /\ DOMAIN t = 1..Len(t)
  BY LenProperties
<1>2. n \in DOMAIN s \cap DOMAIN t
  BY <1>1
<1>3. SubSeq(s, 1, n - 1) = SubSeq(t, 1, n - 1)
  <2>1. SubSeq(s, 1, n - 1) = [k \in 1..(n - 1) |-> s[k]]
        /\ SubSeq(t, 1, n - 1) = [k \in 1..(n - 1) |-> t[k]]
    BY <1>1
  <2>2. QED
    BY <2>1
<1>4. QED
  BY <1>2, <1>3 DEF Later

\* Each step of the search leads to a later position.
LEMMA StepLater ==
  ASSUME SolverInv, SolverNext, ~UNCHANGED solverVars
  PROVE  Later(PosOf(frames, pc), PosOf(frames', pc'))
<1>1. SolverType
  BY DEF SolverInv
<1>2. Solved \/ Choose \/ TryRow \/ TakeBack \/ GiveUp
  BY DEF SolverNext, Done
<1>3. puzzle' = puzzle /\ pc # "failed"
  BY <1>2 DEF Solved, Choose, TryRow, TakeBack, GiveUp
<1>4. Valid(puzzle)
  BY <1>1, <1>3 DEF SolverType
<1>5. PICK u : State(u, frames, pc, dl, puzzle)
  BY <1>4 DEF SolverInv
<1>6. PICK v : State(v, frames', pc', dl', puzzle)
  BY <1>2, <1>4, <1>5, StepStates
<1> DEFINE n == Len(frames)
           m == Len(frames')
           N == Nd(puzzle)
           E == [col : 1..N, row : 1..N]
           s == PosOf(frames, pc)
           t == PosOf(frames', pc')
<1>7. n \in Nat /\ frames \in Seq(E) /\ m \in Nat /\ frames' \in Seq(E)
  <2>1. Stands(u[Len(frames)], frames, dl, puzzle)
    BY <1>5, StateFacts
  <2>2. Stands(v[Len(frames')], frames', dl', puzzle)
    BY <1>6, StateFacts
  <2>3. QED
    BY <2>1, <2>2 DEF Stands
<1>8. PosIs(frames, pc, s) /\ PosIs(frames', pc', t)
  <2> HIDE DEF s, t, N
  <2>1. QED
    BY <1>7, PosFacts DEF s, t
<1>9. N \in Nat /\ N < End /\ End \in Int
  <2>1. End \in Int
    <3>1. kMaxNodes \in Int
      BY Sizes
    <3>2. QED
      BY <3>1 DEF End
  <2>2. QED
    BY <2>1, NodesFit
<1>10. n # 0 => n \in 1..n /\ frames[n] \in E /\ Top = frames[n]
  <2>1. n # 0 => n \in 1..n
    BY <1>7
  <2> HIDE DEF E
  <2>2. QED
    BY <1>7, <2>1, ElementOfSeq DEF Top, Last
<1> HIDE DEF E, N, s, t
<1>11. /\ s \in Seq(Int) /\ Len(s) = n + Marks(pc) /\ t \in Seq(Int) /\ Len(t) = m + Marks(pc')
       /\ \A k \in 1..n : s[k] = frames[k].row
       /\ \A k \in (n + 1)..Len(s) : s[k] = End
       /\ \A k \in 1..m : t[k] = frames'[k].row
       /\ \A k \in (m + 1)..Len(t) : t[k] = End
  BY <1>8 DEF PosIs
<1>12. Marks("call") = 0 /\ Marks("next") = 2 /\ Marks("return") = 1
       /\ Marks("solved") = 1 /\ Marks("failed") = 1
  BY DEF Marks
<1> HIDE DEF n, m
<1>13. ASSUME Solved PROVE Later(s, t)
  <2>1. pc = "call" /\ pc' = "solved" /\ frames' = frames
    BY <1>13 DEF Solved
  <2>2. m = n
    BY <2>1 DEF n, m
  <2>3. Len(s) = n /\ Len(t) = n + 1
    BY <1>7, <1>11, <1>12, <2>1, <2>2
  <2>4. \A k \in 1..Len(s) : s[k] = t[k]
    BY <1>11, <2>1, <2>2, <2>3
  <2>5. Len(s) < Len(t)
    BY <1>7, <2>3
  <2>6. QED
    BY <1>11, <2>4, <2>5, LaterLonger
<1>14. ASSUME Choose PROVE Later(s, t)
  <2>1. PICK e : frames' = Append(frames, e)
    BY <1>14 DEF Choose
  <2>2. pc = "call" /\ pc' = "next"
    BY <1>14 DEF Choose
  <2>3. m = n + 1 /\ \A k \in 1..n : frames'[k] = frames[k]
    BY <1>7, <2>1 DEF n, m
  <2>4. Len(s) = n /\ Len(t) = n + 3
    BY <1>7, <1>11, <1>12, <2>2, <2>3
  <2>5. \A k \in 1..Len(s) : s[k] = t[k]
    <3>1. \A k \in 1..n : k \in 1..m
      BY <1>7, <2>3
    <3>2. QED
      BY <1>11, <2>3, <2>4, <3>1
  <2>6. Len(s) < Len(t)
    BY <1>7, <2>4
  <2>7. QED
    BY <1>11, <2>5, <2>6, LaterLonger
<1>15. ASSUME TakeBack PROVE Later(s, t)
  <2>1. pc = "return" /\ pc' = "next" /\ frames' = frames
    BY <1>15 DEF TakeBack
  <2>2. m = n
    BY <2>1 DEF n, m
  <2>3. Len(s) = n + 1 /\ Len(t) = n + 2
    BY <1>7, <1>11, <1>12, <2>1, <2>2
  <2>4. ASSUME NEW k \in 1..Len(s) PROVE s[k] = t[k]
    <3>1. k \in 1..n \/ k \in (n + 1)..(n + 1)
      BY <1>7, <2>3
    <3>2. (n + 1)..(n + 1) \subseteq (n + 1)..(n + 2)
      BY <1>7
    <3>3. QED
      BY <1>11, <2>1, <2>2, <2>3, <3>1, <3>2
  <2>5. Len(s) < Len(t)
    BY <1>7, <2>3
  <2>6. QED
    BY <1>11, <2>4, <2>5, LaterLonger
<1>16. ASSUME TryRow PROVE Later(s, t)
  <2> DEFINE e == frames[n]
             r == dl.down[e.row]
  <2>1. pc = "next" /\ pc' = "call" /\ n # 0
    BY <1>1, <1>16 DEF TryRow, SolverType, n
  <2>2. n \in 1..n /\ e \in E /\ Top = e
    BY <1>10, <2>1
  <2>3. r # e.col /\ frames' = [frames EXCEPT ![n].row = r]
    BY <1>16, <2>2 DEF TryRow, NextRow, n
  <2>4. r > e.row
    <3>1. State(u, frames, "next", dl, puzzle)
      BY <1>5, <2>1
    <3>2. QED
      BY <2>1, <2>3, <3>1, TryKeeps DEF n
  <2> HIDE DEF r
  <2>5. m = n /\ frames'[n].row = r /\ \A k \in 1..(n - 1) : frames'[k] = frames[k]
    BY <1>7, <2>2, <2>3 DEF n, m, E
  <2>6. Len(s) = n + 2 /\ Len(t) = n
    BY <1>7, <1>11, <1>12, <2>1, <2>5
  <2>7. n \in 1..Len(s) /\ n <= Len(t)
    BY <1>7, <2>2, <2>6
  <2>8. s[n] < t[n]
    <3>1. s[n] = e.row /\ t[n] = r
      BY <1>11, <2>2, <2>5
    <3>2. e.row \in Int /\ t[n] \in Int
      BY <1>11, <2>2, <2>6, ElementOfSeq DEF E
    <3>3. QED
      BY <2>4, <3>1, <3>2
  <2>9. \A k \in 1..(n - 1) : s[k] = t[k]
    <3>1. \A k \in 1..(n - 1) : k \in 1..n
      BY <1>7
    <3>2. QED
      BY <1>11, <2>5, <3>1
  <2>10. QED
    BY <1>11, <2>7, <2>8, <2>9, LaterGreater
<1>17. ASSUME GiveUp PROVE Later(s, t)
  <2>1. /\ pc = "next" /\ pc' \in {"failed", "return"}
        /\ frames' = SubSeq(frames, 1, n - 1)
    BY <1>17 DEF GiveUp, Front, n
  <2>2. n # 0
    BY <1>1, <2>1 DEF SolverType, n
  <2>3. n \in 1..n /\ frames[n] \in E
    BY <1>10, <2>2
  <2>4. m = n - 1 /\ \A k \in 1..(n - 1) : frames'[k] = frames[k]
    <3>0. n = Len(frames) /\ m = Len(frames')
      BY DEF n, m
    <3>1. \A i \in 1..(n - 1) : frames[i] \in E
      <4>1. \A i \in 1..n : frames[i] \in E
        BY <1>7, <3>0, ElementOfSeq
      <4>2. QED
        BY <1>7, <4>1
    <3>2. /\ Len(SubSeq(frames, 1, n - 1)) = IF 1 <= n - 1 THEN (n - 1) - 1 + 1 ELSE 0
          /\ \A i \in 1..((n - 1) - 1 + 1) : SubSeq(frames, 1, n - 1)[i] = frames[1 + i - 1]
      BY <1>7, <2>3, <3>1, SubSeqProperties
    <3>3. QED
      BY <1>7, <2>1, <2>3, <3>0, <3>2
  <2>5. Len(s) = n + 2 /\ Len(t) = n
    BY <1>7, <1>11, <1>12, <2>1, <2>4
  <2>6. n \in 1..Len(s) /\ n <= Len(t) /\ n \in (m + 1)..Len(t)
    BY <1>7, <2>3, <2>4, <2>5
  <2>7. s[n] < t[n]
    <3>1. s[n] = frames[n].row /\ t[n] = End
      BY <1>11, <2>3, <2>6
    <3>2. frames[n].row \in 1..N
      BY <2>3 DEF E
    <3>3. QED
      BY <1>9, <3>1, <3>2
  <2>8. \A k \in 1..(n - 1) : s[k] = t[k]
    <3>1. \A k \in 1..(n - 1) : k \in 1..n /\ k \in 1..m
      BY <1>7, <2>4
    <3>2. QED
      BY <1>11, <2>4, <3>1
  <2>9. QED
    BY <1>11, <2>6, <2>7, <2>8, LaterGreater
<1>18. QED
  BY <1>2, <1>13, <1>14, <1>15, <1>16, <1>17 DEF s, t

\* So does each step of the specification, unless it stutters.
LEMMA Forward == SolverInv /\ [SolverNext]_solverVars => [Later(Position, Position')]_solverVars
<1>1. Position = PosOf(frames, pc)
  BY DEF Position, PosOf
<1>2. Position' = PosOf(frames', pc')
  BY DEF Position, PosOf
<1>3. QED
  BY <1>1, <1>2, StepLater
-----------------------------------------------------------------------------
(* Rows, columns and boxes of the board.                                   *)

\* The t-th name that an option crosses, for t in 2..4, stands for a value in
\* a unit: unit Of(t, i) of cell i, in which i is the Num(t, i)-th cell.
Of(t, i) == IF t = 2 THEN RowOf(i) ELSE IF t = 3 THEN ColOf(i) ELSE BoxOf(i)
Num(t, i) ==
  IF t = 2 THEN ColOf(i) + 1 ELSE IF t = 3 THEN RowOf(i) + 1
  ELSE (RowOf(i) % Box) * Box + (ColOf(i) % Box) + 1
Place(t, x, k) ==
  IF t = 2 THEN x * Side + (k - 1) ELSE IF t = 3 THEN (k - 1) * Side + x
  ELSE ((x \div Box) * Box + ((k - 1) \div Box)) * Side + ((x % Box) * Box + ((k - 1) % Box))

\* The cells of a board of each size.
LEMMA CellsRC ==
  ASSUME NEW i \in Cells
  PROVE  i = RowOf(i) * Side + ColOf(i) /\ RowOf(i) \in Lanes /\ ColOf(i) \in Lanes
<1>1. CASE Side = 1 /\ kCells = 1
  BY <1>1 DEF Cells, Lanes, RowOf, ColOf
<1>2. CASE Side = 4 /\ kCells = 16
  BY <1>2 DEF Cells, Lanes, RowOf, ColOf
<1>3. CASE Side = 9 /\ kCells = 81
  BY <1>3 DEF Cells, Lanes, RowOf, ColOf
<1>4. QED
  BY <1>1, <1>2, <1>3, Sizes

\* The cell in a row and a column.
LEMMA RCCells ==
  ASSUME NEW r \in Lanes, NEW c \in Lanes
  PROVE  r * Side + c \in Cells /\ RowOf(r * Side + c) = r /\ ColOf(r * Side + c) = c
<1>1. CASE Side = 1 /\ kCells = 1
  BY <1>1 DEF Cells, Lanes, RowOf, ColOf
<1>2. CASE Side = 4 /\ kCells = 16
  BY <1>2 DEF Cells, Lanes, RowOf, ColOf
<1>3. CASE Side = 9 /\ kCells = 81
  BY <1>3 DEF Cells, Lanes, RowOf, ColOf
<1>4. QED
  BY <1>1, <1>2, <1>3, Sizes

\* The same for the lanes, by boxes.
LEMMA LanesBy ==
  ASSUME NEW x \in Lanes
  PROVE  /\ x = (x \div Box) * Box + (x % Box)
         /\ x \div Box \in 0..(Box - 1) /\ x % Box \in 0..(Box - 1)
<1>1. CASE Side = 1 /\ Box = 1
  BY <1>1 DEF Lanes
<1>2. CASE Side = 4 /\ Box = 2
  BY <1>2 DEF Lanes
<1>3. CASE Side = 9 /\ Box = 3
  BY <1>3 DEF Lanes
<1>4. QED
  BY <1>1, <1>2, <1>3, Sizes

\* A lane by its band and its place there.
LEMMA ByLanes ==
  ASSUME NEW a \in 0..(Box - 1), NEW d \in 0..(Box - 1)
  PROVE  /\ a * Box + d \in Lanes
         /\ (a * Box + d) \div Box = a /\ (a * Box + d) % Box = d
<1>1. CASE Side = 1 /\ Box = 1
  BY <1>1 DEF Lanes
<1>2. CASE Side = 4 /\ Box = 2
  BY <1>2 DEF Lanes
<1>3. CASE Side = 9 /\ Box = 3
  BY <1>3 DEF Lanes
<1>4. QED
  BY <1>1, <1>2, <1>3, Sizes

\* A cell has a place in its row, in its column and in its box,
LEMMA UnitCells ==
  ASSUME NEW t \in 2..4, NEW i \in Cells
  PROVE  /\ Of(t, i) \in Lanes /\ Num(t, i) \in Values
         /\ Place(t, Of(t, i), Num(t, i)) = i
<1> DEFINE r == RowOf(i)
           c == ColOf(i)
<1>1. i = r * Side + c /\ r \in Lanes /\ c \in Lanes
  BY CellsRC
<1> HIDE DEF r, c
<1>0. Side \in Nat /\ r \in 0..(Side - 1) /\ c \in 0..(Side - 1) /\ r \in Int /\ c \in Int
  BY <1>1, Sizes DEF Lanes
<1>2. CASE t = 2
  <2>1. Of(t, i) = r /\ Num(t, i) = c + 1 /\ Place(t, r, c + 1) = r * Side + ((c + 1) - 1)
    BY <1>2 DEF Of, Num, Place, r, c
  <2>2. c + 1 \in Values /\ (c + 1) - 1 = c
    BY <1>0 DEF Values
  <2>3. QED
    BY <1>1, <2>1, <2>2
<1>3. CASE t = 3
  <2>1. Of(t, i) = c /\ Num(t, i) = r + 1 /\ Place(t, c, r + 1) = ((r + 1) - 1) * Side + c
    BY <1>3 DEF Of, Num, Place, r, c
  <2>2. r + 1 \in Values /\ (r + 1) - 1 = r
    BY <1>0 DEF Values
  <2>3. QED
    BY <1>1, <2>1, <2>2
<1>4. CASE t = 4
  <2> DEFINE a == r \div Box
             d == r % Box
             e == c \div Box
             f == c % Box
             x == a * Box + e
             k == d * Box + f + 1
  <2>1. /\ r = a * Box + d /\ c = e * Box + f
        /\ a \in 0..(Box - 1) /\ d \in 0..(Box - 1) /\ e \in 0..(Box - 1) /\ f \in 0..(Box - 1)
    BY <1>1, LanesBy
  <2>2. Of(t, i) = x /\ Num(t, i) = k
    BY <1>4 DEF Of, Num, BoxOf, r, c
  <2> HIDE DEF a, d, e, f
  <2>3. /\ x \in Lanes /\ x \div Box = a /\ x % Box = e
        /\ d * Box + f \in Lanes /\ (d * Box + f) \div Box = d /\ (d * Box + f) % Box = f
    BY <2>1, ByLanes
  <2>4. k - 1 = d * Box + f /\ k \in Values
    <3> DEFINE y == d * Box + f
    <3>1. y \in 0..(Side - 1)
      BY <2>3 DEF Lanes
    <3> HIDE DEF y
    <3>2. (y + 1) - 1 = y /\ y + 1 \in Values
      BY <1>0, <3>1 DEF Values
    <3>3. QED
      BY <3>2 DEF y
  <2> HIDE DEF x, k
  <2>5. Place(t, x, k) = ((x \div Box) * Box + ((k - 1) \div Box)) * Side
                           + ((x % Box) * Box + ((k - 1) % Box))
    BY <1>4 DEF Place
  <2>6. Place(t, x, k) = (a * Box + d) * Side + (e * Box + f)
    BY <2>3, <2>4, <2>5
  <2>7. QED
    BY <1>1, <2>1, <2>2, <2>3, <2>4, <2>6
<1>5. QED
  BY <1>2, <1>3, <1>4

\* and each place of a row, a column or a box is a cell.
LEMMA CellsOfUnit ==
  ASSUME NEW t \in 2..4, NEW x \in Lanes, NEW k \in Values
  PROVE  /\ Place(t, x, k) \in Cells /\ Of(t, Place(t, x, k)) = x
         /\ Num(t, Place(t, x, k)) = k
<1> DEFINE y == k - 1
<1>1. y \in Lanes /\ y + 1 = k
  BY Sizes DEF Lanes, Values
<1> HIDE DEF y
<1>2. CASE t = 2
  <2>1. Place(t, x, k) = x * Side + y
    BY <1>2 DEF Place, y
  <2>2. QED
    BY <1>1, <1>2, <2>1, RCCells DEF Of, Num
<1>3. CASE t = 3
  <2>1. Place(t, x, k) = y * Side + x
    BY <1>3 DEF Place, y
  <2>2. QED
    BY <1>1, <1>3, <2>1, RCCells DEF Of, Num
<1>4. CASE t = 4
  <2> DEFINE a == x \div Box
             e == x % Box
             d == y \div Box
             f == y % Box
             r == a * Box + d
             c == e * Box + f
  <2>1. /\ x = a * Box + e /\ a \in 0..(Box - 1) /\ d \in 0..(Box - 1)
        /\ e \in 0..(Box - 1) /\ f \in 0..(Box - 1) /\ y = d * Box + f
    BY <1>1, LanesBy
  <2>2. Place(t, x, k) = r * Side + c
    BY <1>4 DEF Place, y
  <2> HIDE DEF a, d, e, f
  <2>3. /\ r \in Lanes /\ r \div Box = a /\ r % Box = d
        /\ c \in Lanes /\ c \div Box = e /\ c % Box = f
    BY <2>1, ByLanes
  <2> HIDE DEF r, c
  <2>4. Place(t, x, k) \in Cells /\ RowOf(Place(t, x, k)) = r /\ ColOf(Place(t, x, k)) = c
    BY <2>2, <2>3, RCCells
  <2>5. Of(t, Place(t, x, k)) = a * Box + e
    BY <1>4, <2>3, <2>4 DEF Of, BoxOf
  <2>6. Num(t, Place(t, x, k)) = d * Box + f + 1
    BY <1>4, <2>3, <2>4 DEF Num
  <2>7. QED
    BY <1>1, <2>1, <2>4, <2>5, <2>6
<1>5. QED
  BY <1>2, <1>3, <1>4

\* A board has every value in a unit, or none twice: the same.
Onto(s, t, x) == \A v \in Values : \E i \in Cells : Of(t, i) = x /\ s[i] = v
Once(s, t, x) == \A i, j \in Cells : Of(t, i) = x /\ Of(t, j) = x /\ s[i] = s[j] => i = j

\* A full board has every value in a unit just when it has none there twice.
LEMMA OntoOnce ==
  ASSUME NEW s \in [Cells -> Values], NEW t \in 2..4, NEW x \in Lanes
  PROVE  Onto(s, t, x) <=> Once(s, t, x)
<1> DEFINE g == [k \in Values |-> s[Place(t, x, k)]]
<1>1. \A k \in Values : /\ Place(t, x, k) \in Cells /\ Of(t, Place(t, x, k)) = x
                        /\ Num(t, Place(t, x, k)) = k
  BY CellsOfUnit
<1>2. \A i \in Cells : Of(t, i) = x => Num(t, i) \in Values /\ Place(t, x, Num(t, i)) = i
  BY UnitCells
<1>3. g \in [Values -> Values] /\ \A k \in Values : g[k] = s[Place(t, x, k)]
  BY <1>1
<1> HIDE DEF g
<1>4. IsFiniteSet(Values)
  <2>1. Side \in Nat
    BY Sizes
  <2>2. QED
    BY <2>1, InitialSegment DEF Values
<1>5. ASSUME Onto(s, t, x) PROVE Once(s, t, x)
  <2>1. \A v \in Values : \E k \in Values : g[k] = v
    <3>1. ASSUME NEW v \in Values PROVE \E k \in Values : g[k] = v
      <4>1. PICK i \in Cells : Of(t, i) = x /\ s[i] = v
        BY <1>5 DEF Onto
      <4>2. Num(t, i) \in Values /\ g[Num(t, i)] = v
        BY <1>2, <1>3, <4>1
      <4>3. QED
        BY <4>2
    <3>2. QED
      BY <3>1
  <2>2. g \in Surjection(Values, Values)
    BY <1>3, <2>1 DEF Surjection
  <2>3. g \in Injection(Values, Values)
    BY <1>4, <2>2, FS_SurjSameCardinalityImpliesInj
  <2>4. \A k, l \in Values : g[k] = g[l] => k = l
    BY <2>3 DEF Injection, IsInjective
  <2>5. ASSUME NEW i \in Cells, NEW j \in Cells, Of(t, i) = x, Of(t, j) = x, s[i] = s[j]
        PROVE  i = j
    <3>1. /\ Num(t, i) \in Values /\ Place(t, x, Num(t, i)) = i
          /\ Num(t, j) \in Values /\ Place(t, x, Num(t, j)) = j
      BY <1>2, <2>5
    <3>2. g[Num(t, i)] = s[i] /\ g[Num(t, j)] = s[j]
      BY <1>3, <3>1
    <3>3. QED
      BY <2>4, <2>5, <3>1, <3>2
  <2>6. QED
    BY <2>5 DEF Once
<1>6. ASSUME Once(s, t, x) PROVE Onto(s, t, x)
  <2>1. \A k, l \in Values : g[k] = g[l] => k = l
    <3>1. ASSUME NEW k \in Values, NEW l \in Values, g[k] = g[l] PROVE k = l
      <4>1. Place(t, x, k) = Place(t, x, l)
        BY <1>1, <1>3, <1>6, <3>1 DEF Once
      <4>2. QED
        BY <1>1, <4>1
    <3>2. QED
      BY <3>1
  <2>2. g \in Injection(Values, Values)
    BY <1>3, <2>1 DEF Injection, IsInjective
  <2>3. g \in Surjection(Values, Values)
    BY <1>4, <2>2, FS_Injection
  <2>4. \A v \in Values : \E k \in Values : g[k] = v
    BY <2>3 DEF Surjection
  <2>5. QED
    BY <1>1, <1>3, <2>4 DEF Onto
<1>7. QED
  BY <1>5, <1>6

\* What the definitions of the solver say of units.
Has(b, t, x, v) == \E i \in Cells : Of(t, i) = x /\ b[i] = v

\* The tests of the constructor, for a unit of any kind.
LEMMA InUnits ==
  ASSUME NEW b
  PROVE  /\ \A x, v : /\ InRow(b, x, v) <=> Has(b, 2, x, v)
                      /\ InCol(b, x, v) <=> Has(b, 3, x, v)
                      /\ InBox(b, x, v) <=> Has(b, 4, x, v)
         /\ \A i, v : Open(b, i, v) <=> \A t \in 2..4 : ~Has(b, t, Of(t, i), v)
<1>1. \A i : Of(2, i) = RowOf(i) /\ Of(3, i) = ColOf(i) /\ Of(4, i) = BoxOf(i)
  BY DEF Of
<1>2. \A x, v : /\ InRow(b, x, v) <=> Has(b, 2, x, v)
                /\ InCol(b, x, v) <=> Has(b, 3, x, v)
                /\ InBox(b, x, v) <=> Has(b, 4, x, v)
  BY <1>1 DEF InRow, InCol, InBox, Has
<1>3. \A t \in 2..4 : t = 2 \/ t = 3 \/ t = 4
  OBVIOUS
<1>4. 2 \in 2..4 /\ 3 \in 2..4 /\ 4 \in 2..4
  OBVIOUS
<1>5. ASSUME NEW i, NEW v
      PROVE  Open(b, i, v) <=> \A t \in 2..4 : ~Has(b, t, Of(t, i), v)
  <2>1. Open(b, i, v) <=> ~Has(b, 2, RowOf(i), v) /\ ~Has(b, 3, ColOf(i), v)
                            /\ ~Has(b, 4, BoxOf(i), v)
    BY <1>2 DEF Open
  <2>2. Open(b, i, v) <=> ~Has(b, 2, Of(2, i), v) /\ ~Has(b, 3, Of(3, i), v)
                            /\ ~Has(b, 4, Of(4, i), v)
    BY <1>1, <2>1
  <2>3. QED
    BY <1>3, <1>4, <2>2
<1>6. QED
  BY <1>2, <1>5

\* A full board repeats no value just when no unit has one twice.
LEMMA NoRepeatUnits ==
  ASSUME NEW s \in [Cells -> Values]
  PROVE  NoRepeat(s) <=> \A t \in 2..4 : \A x \in Lanes : Once(s, t, x)
<1>1. \A i : Of(2, i) = RowOf(i) /\ Of(3, i) = ColOf(i) /\ Of(4, i) = BoxOf(i)
  BY DEF Of
<1>2. \A t \in 2..4 : t = 2 \/ t = 3 \/ t = 4
  OBVIOUS
<1>3. 2 \in 2..4 /\ 3 \in 2..4 /\ 4 \in 2..4
  OBVIOUS
<1>4. \A i \in Cells : i \in Int /\ s[i] # 0 /\ \A t \in 2..4 : Of(t, i) \in Lanes
  <2>1. \A i \in Cells : s[i] \in Values /\ i \in Int
    BY Sizes DEF Cells
  <2>2. \A v \in Values : v # 0
    BY Sizes DEF Values
  <2>3. QED
    BY <2>1, <2>2, UnitCells
<1>5. ASSUME NEW i, NEW j
      PROVE  (RowOf(i) = RowOf(j) \/ ColOf(i) = ColOf(j) \/ BoxOf(i) = BoxOf(j))
               <=> \E t \in 2..4 : Of(t, i) = Of(t, j)
  BY <1>1, <1>2, <1>3
<1>6. NoRepeat(s) <=> \A i, j \in Cells :
        i < j /\ (\E t \in 2..4 : Of(t, i) = Of(t, j)) => s[i] # s[j]
  <2> DEFINE P(i, j) == RowOf(i) = RowOf(j) \/ ColOf(i) = ColOf(j) \/ BoxOf(i) = BoxOf(j)
  <2>1. \A i, j : P(i, j) <=> \E t \in 2..4 : Of(t, i) = Of(t, j)
    BY <1>5
  <2>2. NoRepeat(s) <=> \A i, j \in Cells : i < j /\ s[i] # 0 /\ P(i, j) => s[i] # s[j]
    BY DEF NoRepeat
  <2> HIDE DEF P
  <2>3. QED
    BY <1>4, <2>1, <2>2
<1>7. ASSUME NoRepeat(s), NEW t \in 2..4, NEW x \in Lanes PROVE Once(s, t, x)
  <2>1. SUFFICES ASSUME NEW i \in Cells, NEW j \in Cells, Of(t, i) = x, Of(t, j) = x, s[i] = s[j]
                 PROVE  i = j
    BY DEF Once
  <2>2. i < j \/ j < i \/ i = j
    BY <1>4
  <2>3. QED
    BY <1>6, <1>7, <2>1, <2>2
<1>8. ASSUME \A t \in 2..4 : \A x \in Lanes : Once(s, t, x) PROVE NoRepeat(s)
  <2>1. SUFFICES ASSUME NEW i \in Cells, NEW j \in Cells, i < j,
                        NEW t \in 2..4, Of(t, i) = Of(t, j)
                 PROVE  s[i] # s[j]
    BY <1>6
  <2>2. Once(s, t, Of(t, i)) /\ i # j
    BY <1>4, <1>8, <2>1
  <2>3. QED
    BY <2>1, <2>2 DEF Once
<1>9. QED
  BY <1>7, <1>8
-----------------------------------------------------------------------------
(* The names of the columns.                                               *)

\* The name of value v in the x-th row, column or box.
UnitName(t, x, v) == 100 * (t - 1) + x * 10 + v

\* The name of a value in a unit is not that of another, nor of a cell.
LEMMA UnitNames ==
  ASSUME NEW t \in 2..4, NEW x \in Lanes, NEW v \in Values
  PROVE  /\ UnitName(t, x, v) \in Int /\ UnitName(t, x, v) >= 100
         /\ UnitName(t, x, v) % 10 = v /\ UnitName(t, x, v) \notin Cells
         /\ \A q \in 2..4, y \in Lanes, w \in Values :
              UnitName(t, x, v) = UnitName(q, y, w) => t = q /\ x = y /\ v = w
<1>1. x \in 0..8 /\ v \in 1..9 /\ \A y \in Lanes, w \in Values : y \in 0..8 /\ w \in 1..9
  BY LaneFacts
<1>2. UnitName(t, x, v) \in Int /\ UnitName(t, x, v) >= 100
  BY <1>1 DEF UnitName
<1>3. UnitName(t, x, v) % 10 = v
  <2>1. UnitName(t, x, v) = 10 * (10 * (t - 1) + x) + v
    BY <1>1 DEF UnitName
  <2> DEFINE a == 10 * (t - 1) + x
  <2>2. a \in Int
    BY <1>1
  <2> HIDE DEF a
  <2>3. (10 * a + v) % 10 = v
    BY <1>1, <2>2
  <2>4. QED
    BY <2>1, <2>3 DEF a
<1>4. UnitName(t, x, v) \notin Cells
  <2>1. \A i \in Cells : i \in 0..80
    BY CellFacts
  <2>2. QED
    BY <1>2, <2>1
<1>5. ASSUME NEW q \in 2..4, NEW y \in Lanes, NEW w \in Values,
             UnitName(t, x, v) = UnitName(q, y, w)
      PROVE  t = q /\ x = y /\ v = w
  <2>1. y \in 0..8 /\ w \in 1..9
    BY <1>1
  <2>2. 100 * (t - 1) + x * 10 + v = 100 * (q - 1) + y * 10 + w
    BY <1>5 DEF UnitName
  <2>3. QED
    BY <1>1, <2>1, <2>2
<1>6. QED
  BY <1>2, <1>3, <1>4, <1>5

\* The names that the constructor gives.
LEMMA NameFacts ==
  ASSUME NEW x \in Lanes, NEW v \in Values
  PROVE  /\ GetRowCol(x, v) = UnitName(2, x, v)
         /\ GetColCol(x, v) = UnitName(3, x, v)
         /\ GetBoxCol(x, v) = UnitName(4, x, v)
<1>1. x \in 0..8 /\ v \in 1..9
  BY LaneFacts
<1>2. QED
  BY <1>1, LaneFacts DEF UnitName

\* What an option crosses.
LEMMA CrossIs ==
  ASSUME NEW o \in Cells \X Values
  PROVE  /\ o[1] \in Cells /\ o[2] \in Values /\ o = <<o[1], o[2]>>
         /\ Crosses(o)[1] = o[1]
         /\ \A t \in 2..4 : /\ Of(t, o[1]) \in Lanes
                            /\ Crosses(o)[t] = UnitName(t, Of(t, o[1]), o[2])
<1>1. o[1] \in Cells /\ o[2] \in Values /\ o = <<o[1], o[2]>>
  OBVIOUS
<1> DEFINE i == o[1]
           v == o[2]
<1>2. \A t \in 2..4 : Of(t, i) \in Lanes
  BY <1>1, UnitCells
<1>3. /\ Crosses(o)[1] = i /\ Crosses(o)[2] = GetRowCol(RowOf(i), v)
      /\ Crosses(o)[3] = GetColCol(ColOf(i), v) /\ Crosses(o)[4] = GetBoxCol(BoxOf(i), v)
  BY DEF Crosses
<1>4. Of(2, i) = RowOf(i) /\ Of(3, i) = ColOf(i) /\ Of(4, i) = BoxOf(i)
  BY DEF Of
<1>5. 2 \in 2..4 /\ 3 \in 2..4 /\ 4 \in 2..4 /\ \A t \in 2..4 : t = 2 \/ t = 3 \/ t = 4
  OBVIOUS
<1>6. v \in Values
  BY <1>1
<1> HIDE DEF i, v
<1>7. /\ Crosses(o)[2] = UnitName(2, Of(2, i), v) /\ Crosses(o)[3] = UnitName(3, Of(3, i), v)
      /\ Crosses(o)[4] = UnitName(4, Of(4, i), v)
  BY <1>2, <1>3, <1>4, <1>5, <1>6, NameFacts
<1>8. \A t \in 2..4 : Crosses(o)[t] = UnitName(t, Of(t, i), v)
  BY <1>5, <1>7
<1>9. QED
  BY <1>1, <1>2, <1>3, <1>8 DEF i, v

\* Two options that cross the same column.
LEMMA CrossSame ==
  ASSUME NEW o \in Cells \X Values, NEW p \in Cells \X Values,
         NEW j \in 1..4, NEW k \in 1..4, Crosses(o)[j] = Crosses(p)[k]
  PROVE  /\ j = k
         /\ j = 1 => o[1] = p[1]
         /\ j # 1 => j \in 2..4 /\ Of(j, o[1]) = Of(j, p[1]) /\ o[2] = p[2]
<1>1. j = 1 \/ j \in 2..4
  OBVIOUS
<1>2. k = 1 \/ k \in 2..4
  OBVIOUS
<1>3. CASE j = 1 /\ k = 1
  BY <1>3, CrossIs
<1>4. CASE j = 1 /\ k \in 2..4
  <2>1. Crosses(o)[1] = o[1] /\ o[1] \in Cells
    BY CrossIs
  <2>2. Crosses(p)[k] \notin Cells
    BY <1>4, CrossIs, UnitNames
  <2>3. QED
    BY <1>4, <2>1, <2>2
<1>5. CASE j \in 2..4 /\ k = 1
  <2>1. Crosses(p)[1] = p[1] /\ p[1] \in Cells
    BY CrossIs
  <2>2. Crosses(o)[j] \notin Cells
    BY <1>5, CrossIs, UnitNames
  <2>3. QED
    BY <1>5, <2>1, <2>2
<1>6. CASE j \in 2..4 /\ k \in 2..4
  <2>1. /\ Crosses(o)[j] = UnitName(j, Of(j, o[1]), o[2]) /\ Of(j, o[1]) \in Lanes
        /\ Crosses(p)[k] = UnitName(k, Of(k, p[1]), p[2]) /\ Of(k, p[1]) \in Lanes
        /\ o[2] \in Values /\ p[2] \in Values
    BY <1>6, CrossIs
  <2>2. j = k /\ Of(j, o[1]) = Of(k, p[1]) /\ o[2] = p[2]
    <3> DEFINE x == Of(j, o[1])
               y == Of(k, p[1])
               v == o[2]
               w == p[2]
    <3>1. /\ UnitName(j, x, v) = UnitName(k, y, w) /\ x \in Lanes /\ y \in Lanes
          /\ v \in Values /\ w \in Values /\ j \in 2..4 /\ k \in 2..4
      BY <1>6, <2>1
    <3> HIDE DEF x, y, v, w
    <3>2. j = k /\ x = y /\ v = w
      BY <3>1, UnitNames
    <3>3. QED
      BY <3>2 DEF x, y, v, w
  <2>3. QED
    BY <1>6, <2>2
<1>7. QED
  BY <1>1, <1>2, <1>3, <1>4, <1>5, <1>6

\* What the constructor makes columns for, besides the empty cells.
LEMMA LacksAre ==
  ASSUME NEW b, NEW n
  PROVE  n \in Lacks(b) <=> \E t \in 2..4, x \in Lanes, v \in Values :
                              n = UnitName(t, x, v) /\ ~Has(b, t, x, v)
<1> DEFINE R == {GetRowCol(p[1], p[2]) : p \in {q \in Lanes \X Values : ~InRow(b, q[1], q[2])}}
           S == {GetColCol(p[1], p[2]) : p \in {q \in Lanes \X Values : ~InCol(b, q[1], q[2])}}
           T == {GetBoxCol(p[1], p[2]) : p \in {q \in Lanes \X Values : ~InBox(b, q[1], q[2])}}
<1>1. Lacks(b) = R \cup S \cup T
  BY DEF Lacks
<1>2. n \in R <=> \E y \in Lanes, w \in Values : n = UnitName(2, y, w) /\ ~Has(b, 2, y, w)
  <2>1. n \in R <=> \E y \in Lanes, w \in Values : n = GetRowCol(y, w) /\ ~InRow(b, y, w)
    <3>1. ASSUME n \in R PROVE \E y \in Lanes, w \in Values : n = GetRowCol(y, w) /\ ~InRow(b, y, w)
      BY <3>1
    <3>2. ASSUME NEW y \in Lanes, NEW w \in Values, n = GetRowCol(y, w), ~InRow(b, y, w)
          PROVE  n \in R
      <4> DEFINE q == <<y, w>>
      <4>1. q \in Lanes \X Values /\ q[1] = y /\ q[2] = w
        OBVIOUS
      <4> HIDE DEF q
      <4>2. QED
        BY <3>2, <4>1
    <3> HIDE DEF R
    <3>3. QED
      BY <3>1, <3>2
  <2> HIDE DEF R
  <2>2. QED
    BY <2>1, NameFacts, InUnits
<1>3. n \in S <=> \E y \in Lanes, w \in Values : n = UnitName(3, y, w) /\ ~Has(b, 3, y, w)
  <2>1. n \in S <=> \E y \in Lanes, w \in Values : n = GetColCol(y, w) /\ ~InCol(b, y, w)
    <3>1. ASSUME n \in S PROVE \E y \in Lanes, w \in Values : n = GetColCol(y, w) /\ ~InCol(b, y, w)
      BY <3>1
    <3>2. ASSUME NEW y \in Lanes, NEW w \in Values, n = GetColCol(y, w), ~InCol(b, y, w)
          PROVE  n \in S
      <4> DEFINE q == <<y, w>>
      <4>1. q \in Lanes \X Values /\ q[1] = y /\ q[2] = w
        OBVIOUS
      <4> HIDE DEF q
      <4>2. QED
        BY <3>2, <4>1
    <3> HIDE DEF S
    <3>3. QED
      BY <3>1, <3>2
  <2> HIDE DEF S
  <2>2. QED
    BY <2>1, NameFacts, InUnits
<1>4. n \in T <=> \E y \in Lanes, w \in Values : n = UnitName(4, y, w) /\ ~Has(b, 4, y, w)
  <2>1. n \in T <=> \E y \in Lanes, w \in Values : n = GetBoxCol(y, w) /\ ~InBox(b, y, w)
    <3>1. ASSUME n \in T PROVE \E y \in Lanes, w \in Values : n = GetBoxCol(y, w) /\ ~InBox(b, y, w)
      BY <3>1
    <3>2. ASSUME NEW y \in Lanes, NEW w \in Values, n = GetBoxCol(y, w), ~InBox(b, y, w)
          PROVE  n \in T
      <4> DEFINE q == <<y, w>>
      <4>1. q \in Lanes \X Values /\ q[1] = y /\ q[2] = w
        OBVIOUS
      <4> HIDE DEF q
      <4>2. QED
        BY <3>2, <4>1
    <3> HIDE DEF T
    <3>3. QED
      BY <3>1, <3>2
  <2> HIDE DEF T
  <2>2. QED
    BY <2>1, NameFacts, InUnits
<1> HIDE DEF R, S, T
<1>5. \A q \in 2..4 : q = 2 \/ q = 3 \/ q = 4
  OBVIOUS
<1>6. 2 \in 2..4 /\ 3 \in 2..4 /\ 4 \in 2..4
  OBVIOUS
<1>7. QED
  BY <1>1, <1>2, <1>3, <1>4, <1>5, <1>6

\* A value in a unit is the name of a column if the unit lacks it.
LEMMA LacksIs ==
  ASSUME NEW b, NEW t \in 2..4, NEW x \in Lanes, NEW v \in Values
  PROVE  UnitName(t, x, v) \in Lacks(b) <=> ~Has(b, t, x, v)
<1> DEFINE n == UnitName(t, x, v)
<1>1. n \in Lacks(b) <=> \E q \in 2..4, y \in Lanes, w \in Values :
                           n = UnitName(q, y, w) /\ ~Has(b, q, y, w)
  <2> HIDE DEF n
  <2>1. QED
    BY LacksAre
<1>2. \A q \in 2..4, y \in Lanes, w \in Values : n = UnitName(q, y, w) => t = q /\ x = y /\ v = w
  BY UnitNames
<1>3. n = UnitName(t, x, v)
  OBVIOUS
<1> HIDE DEF n
<1>4. QED
  BY <1>1, <1>2, <1>3

\* A column's name is that of an empty cell, or of a value that a unit lacks.
CellAt(k) == AllNames[k] = k - 1 /\ k - 1 \in Cells
ValueAt(k, t, x, v) ==
  /\ t \in 2..4 /\ x \in Lanes /\ v \in Values
  /\ AllNames[k] = UnitName(t, x, v)
  /\ k = kCells + 1 + 3 * (x * Side + (v - 1)) + (t - 2)

\* Every name is that of a cell or of a value in a unit.
LEMMA AllNamesAre ==
  ASSUME NEW k \in 1..(4 * kCells)
  PROVE  CellAt(k) \/ \E t, x, v : ValueAt(k, t, x, v)
<1> DEFINE j == k - kCells - 1
           i == (j \div 3) \div Side
           v == ((j \div 3) % Side) + 1
           t == 2 + (j % 3)
<1>1. AllNames[k] = IF k <= kCells THEN k - 1
                    ELSE CASE j % 3 = 0 -> GetRowCol(i, v)
                           [] j % 3 = 1 -> GetColCol(i, v)
                           [] OTHER -> GetBoxCol(i, v)
  BY DEF AllNames
<1>2. CASE k <= kCells
  <2>1. AllNames[k] = k - 1
    BY <1>1, <1>2
  <2>2. k - 1 \in Cells
    BY <1>2, Sizes DEF Cells
  <2>3. QED
    BY <2>1, <2>2 DEF CellAt
<1>3. CASE ~(k <= kCells)
  <2>1. j \in 0..(3 * kCells - 1) /\ j \in Nat /\ k = kCells + 1 + j
    BY <1>3, Sizes
  <2>2. i \in Lanes /\ v \in Values /\ j \div 3 = i * Side + (v - 1)
    <3> DEFINE p == j \div 3
    <3>1. p \in 0..(kCells - 1)
      <4> HIDE DEF j
      <4>1. QED
        BY <2>1, Sizes
    <3> HIDE DEF p
    <3>2. p \div Side \in Lanes /\ (p % Side) + 1 \in Values
          /\ p = (p \div Side) * Side + (((p % Side) + 1) - 1)
      <4>1. p \in Cells
        BY <3>1 DEF Cells
      <4>2. p = RowOf(p) * Side + ColOf(p) /\ RowOf(p) \in Lanes /\ ColOf(p) \in Lanes
        BY <4>1, CellsRC
      <4> DEFINE y == ColOf(p)
      <4>3. y \in 0..(Side - 1) /\ Side \in Nat
        BY <4>2, Sizes DEF Lanes
      <4> HIDE DEF y
      <4>4. y + 1 \in Values /\ (y + 1) - 1 = y
        BY <4>3 DEF Values
      <4>5. QED
        BY <4>2, <4>4 DEF y, RowOf, ColOf
    <3>3. QED
      BY <3>2 DEF p
  <2>3. t \in 2..4 /\ j = 3 * (j \div 3) + (t - 2)
    <3> HIDE DEF j
    <3>1. QED
      BY <2>1
  <2>4. AllNames[k] = CASE t = 2 -> GetRowCol(i, v) [] t = 3 -> GetColCol(i, v)
                        [] OTHER -> GetBoxCol(i, v)
    <3>1. AllNames[k] = CASE j % 3 = 0 -> GetRowCol(i, v)
                           [] j % 3 = 1 -> GetColCol(i, v)
                           [] OTHER -> GetBoxCol(i, v)
      <4> HIDE DEF i, v, j
      <4>1. QED
        BY <1>1, <1>3
    <3>2. (t = 2 <=> j % 3 = 0) /\ (t = 3 <=> j % 3 = 1)
      <4> HIDE DEF j
      <4>1. QED
        BY <2>1
    <3> HIDE DEF i, v, j, t
    <3>3. QED
      BY <3>1, <3>2
  <2> HIDE DEF i, v, t, j
  <2>5. AllNames[k] = UnitName(t, i, v)
    BY <2>2, <2>3, <2>4, NameFacts
  <2>6. k = kCells + 1 + 3 * (i * Side + (v - 1)) + (t - 2)
    <3> DEFINE p == j \div 3
    <3>1. p = i * Side + (v - 1) /\ j = 3 * p + (t - 2) /\ k = kCells + 1 + j /\ p \in Int
      <4>1. p \in Int
        BY <2>1
      <4>2. QED
        BY <2>1, <2>2, <2>3, <4>1
    <3> HIDE DEF p
    <3>2. k = kCells + 1 + 3 * p + (t - 2)
      BY <2>3, <3>1, Sizes
    <3>3. QED
      BY <3>1, <3>2
  <2>7. ValueAt(k, t, i, v)
    BY <2>2, <2>3, <2>5, <2>6 DEF ValueAt
  <2>8. QED
    BY <2>7
<1>4. QED
  BY <1>2, <1>3

\* No two columns have the same name.
LEMMA NamesDistinct ==
  ASSUME NEW b
  PROVE  Distinct(ColumnNames(b))
<1>1. AllNames \in Seq(Int) /\ Len(AllNames) = 4 * kCells
  BY AllNamesType
<1>2. ASSUME NEW k \in 1..(4 * kCells), NEW l \in 1..(4 * kCells), AllNames[k] = AllNames[l]
      PROVE  k = l
  <2>1. CellAt(k) \/ \E t, x, v : ValueAt(k, t, x, v)
    BY AllNamesAre
  <2>2. CellAt(l) \/ \E t, x, v : ValueAt(l, t, x, v)
    BY AllNamesAre
  <2>3. ASSUME NEW n, NEW t, NEW x, NEW v, ValueAt(n, t, x, v)
        PROVE  AllNames[n] \notin Cells
    BY <2>3, UnitNames DEF ValueAt
  <2>4. CASE CellAt(k) /\ CellAt(l)
    <3>1. k \in Int /\ l \in Int
      BY Sizes
    <3>2. k - 1 = l - 1
      BY <1>2, <2>4 DEF CellAt
    <3>3. QED
      BY <3>1, <3>2
  <2>5. CASE (\E t, x, v : ValueAt(k, t, x, v)) /\ (\E t, x, v : ValueAt(l, t, x, v))
    <3>1. PICK t, x, v : ValueAt(k, t, x, v)
      BY <2>5
    <3>2. PICK q, y, w : ValueAt(l, q, y, w)
      BY <2>5
    <3>3. /\ t \in 2..4 /\ x \in Lanes /\ v \in Values
          /\ q \in 2..4 /\ y \in Lanes /\ w \in Values
          /\ UnitName(t, x, v) = UnitName(q, y, w)
      BY <1>2, <3>1, <3>2 DEF ValueAt
    <3>4. t = q /\ x = y /\ v = w
      BY <3>3, UnitNames
    <3>5. QED
      BY <3>1, <3>2, <3>4 DEF ValueAt
  <2>6. CellAt(k) => AllNames[k] \in Cells
    BY DEF CellAt
  <2>7. CellAt(l) => AllNames[l] \in Cells
    BY DEF CellAt
  <2>8. QED
    BY <1>2, <2>1, <2>2, <2>3, <2>4, <2>5, <2>6, <2>7
<1>3. Distinct(AllNames)
  BY <1>1, <1>2 DEF Distinct
<1>4. QED
  BY <1>1, <1>3, KeptDistinct DEF ColumnNames
-----------------------------------------------------------------------------
(* The rows of the matrix and the options they stand for.                  *)

\* The four nodes of a row, by number.
LEMMA BandAt ==
  ASSUME NEW h \in Nat, NEW N \in Nat, NEW n \in (h + 1)..N, NEW i \in 0..3
  PROVE  First(h, n) + i \in Band(h, n) /\ ((First(h, n) + i) - h - 1) % 4 = i
<1> DEFINE p == (n - h - 1) % 4
           d == (n - h - 1) \div 4
<1>1. p \in 0..3 /\ d \in Nat /\ n = h + 1 + 4 * d + p
  OBVIOUS
<1>2. First(h, n) = h + 1 + 4 * d
  BY <1>1 DEF First
<1> HIDE DEF p, d
<1>3. (h + 1 + 4 * d + i) - h - 1 = 4 * d + i
  BY <1>1
<1>4. (4 * d + i) % 4 = i
  BY <1>1
<1>5. QED
  BY <1>1, <1>2, <1>3, <1>4 DEF Band

\* The option of row r, and the columns it crosses.
OptOf(b, r) == Options(b)[RowNo(Hd(b), r)]
ColSet(b, r) == {Homes(b)[k] : k \in Band(Hd(b), r)}
IsRow(b, r) == r \in (Hd(b) + 1)..Nd(b)
RowOpt(b, r) ==
  /\ OptOf(b, r) \in Cells \X Values /\ IsIn(OptOf(b, r), Options(b))
  /\ \A k \in Band(Hd(b), r) :
       /\ IsRow(b, k) /\ k \in 1..Nd(b) /\ OptOf(b, k) = OptOf(b, r)
       /\ \E t \in 1..4 : NameOf(b, k) = Crosses(OptOf(b, r))[t]
  /\ \A t \in 1..4 : \E k \in Band(Hd(b), r) : NameOf(b, k) = Crosses(OptOf(b, r))[t]

\* The nodes of a row cross the columns of its option.
LEMMA RowIsOption ==
  ASSUME NEW b, NEW r, IsRow(b, r)
  PROVE  RowOpt(b, r)
<1> DEFINE h == Hd(b)
           N == Nd(b)
           L == Len(Options(b))
           o == OptOf(b, r)
<1>1. h \in Nat /\ N \in Nat /\ Fits(h, N) /\ L \in Nat /\ N = h + 4 * L /\ h # 0
      /\ Options(b) \in Seq(Cells \X Values)
  BY RowOptions, OptionFacts DEF Nd
<1>2. r \in (h + 1)..N
  BY DEF IsRow
<1> HIDE DEF h, N, L
<1>3. /\ RowNo(h, r) \in 1..L
      /\ \A k \in 1..N : RowNo(h, k) = RowNo(h, r) <=> k \in Band(h, r)
  <2>1. r \in (h + 1)..(h + 4 * L)
    BY <1>1, <1>2
  <2>2. /\ RowNo(h, r) \in 1..L
        /\ \A k \in 1..(h + 4 * L) : RowNo(h, k) = RowNo(h, r) <=> k \in Band(h, r)
    BY <1>1, <2>1, RowNumbers
  <2>3. QED
    BY <1>1, <2>2
<1>4. o \in Cells \X Values /\ IsIn(o, Options(b))
  <2>1. o = Options(b)[RowNo(h, r)]
    BY DEF OptOf, h
  <2>2. o \in Cells \X Values
    BY <1>1, <1>3, <2>1, ElementOfSeq DEF L
  <2>3. QED
    BY <1>3, <2>1, <2>2 DEF IsIn, L
<1>5. ASSUME NEW k \in Band(h, r)
      PROVE  /\ IsRow(b, k) /\ k \in 1..N /\ OptOf(b, k) = o
             /\ (k - h - 1) % 4 \in 0..3
             /\ NameOf(b, k) = Crosses(o)[1 + ((k - h - 1) % 4)]
  <2>1. k \in (h + 1)..N
    BY <1>1, <1>2, Rows
  <2>2. k \in 1..N /\ ~(k <= h) /\ k # 1 /\ k - h - 1 \in Int
    BY <1>1, <2>1
  <2>3. RowNo(h, k) = RowNo(h, r)
    BY <1>3, <2>2
  <2>4. NameOf(b, k) = Crosses(Options(b)[RowNo(h, k)])[1 + ((k - h - 1) % 4)]
    BY <2>2, Zenon DEF NameOf, h
  <2>5. NameOf(b, k) = Crosses(o)[1 + ((k - h - 1) % 4)]
    BY <2>3, <2>4, Zenon DEF OptOf, h
  <2>6. (k - h - 1) % 4 \in 0..3
    BY <2>2
  <2>7. IsRow(b, k)
    BY <2>1 DEF IsRow, h, N
  <2>8. OptOf(b, k) = o
    BY <2>3 DEF OptOf, h
  <2>9. QED
    BY <2>2, <2>5, <2>6, <2>7, <2>8
<1>6. ASSUME NEW t \in 1..4 PROVE \E k \in Band(h, r) : NameOf(b, k) = Crosses(o)[t]
  <2> DEFINE k == First(h, r) + (t - 1)
  <2>1. t - 1 \in 0..3 /\ 1 + (t - 1) = t
    OBVIOUS
  <2>2. k \in Band(h, r) /\ (k - h - 1) % 4 = t - 1
    BY <1>1, <1>2, <2>1, BandAt
  <2> HIDE DEF k, o
  <2>3. NameOf(b, k) = Crosses(o)[1 + (t - 1)]
    BY <1>5, <2>2
  <2>4. QED
    BY <2>1, <2>2, <2>3
<1>7. ASSUME NEW k \in Band(h, r)
      PROVE  /\ IsRow(b, k) /\ k \in 1..N /\ OptOf(b, k) = o
             /\ \E t \in 1..4 : NameOf(b, k) = Crosses(o)[t]
  <2> DEFINE t == 1 + ((k - h - 1) % 4)
  <2>1. t \in 1..4
    BY <1>5
  <2>2. NameOf(b, k) = Crosses(o)[t]
    BY <1>5
  <2> HIDE DEF t, o
  <2>3. QED
    BY <1>5, <2>1, <2>2
<1>8. QED
  BY <1>4, <1>6, <1>7 DEF RowOpt, h, N

\* A node is in the column of its name.
LEMMA HomeByName ==
  ASSUME NEW b, NEW n, IsRow(b, n), NEW c \in 2..Hd(b)
  PROVE  Homes(b)[n] = c <=> NameOf(b, n) = ColumnNames(b)[c - 1]
<1> DEFINE h == Hd(b)
           N == Nd(b)
           d == HomeOf(b, n)
           columns == ColumnNames(b)
<1>1. /\ h \in Nat /\ N \in Nat /\ n \in (h + 1)..N
      /\ d \in 2..h /\ columns[d - 1] = NameOf(b, n)
  BY RowOptions DEF IsRow
<1>2. Homes(b)[n] = d
  <2>1. n \in 1..N
    BY <1>1
  <2>2. QED
    BY <2>1 DEF Homes
<1>3. h = 1 + Len(columns) /\ Len(columns) \in Nat /\ Distinct(columns)
  BY ColumnFacts, NamesDistinct DEF Hd
<1> HIDE DEF d, columns, N
<1>4. d - 1 \in 1..Len(columns) /\ c - 1 \in 1..Len(columns)
  BY <1>1, <1>3
<1>5. columns[d - 1] = columns[c - 1] => d - 1 = c - 1
  BY <1>3, <1>4 DEF Distinct
<1>6. d - 1 = c - 1 => d = c
  BY <1>1
<1>7. QED
  BY <1>1, <1>2, <1>5, <1>6 DEF columns

\* Row r crosses the columns whose names its option crosses.
LEMMA ColSetIs ==
  ASSUME NEW b, NEW r, IsRow(b, r), NEW c \in 2..Hd(b)
  PROVE  c \in ColSet(b, r) <=> \E t \in 1..4 : ColumnNames(b)[c - 1] = Crosses(OptOf(b, r))[t]
<1> DEFINE B == Band(Hd(b), r)
           o == OptOf(b, r)
           x == ColumnNames(b)[c - 1]
<1>1. /\ \A k \in B : IsRow(b, k) /\ \E t \in 1..4 : NameOf(b, k) = Crosses(o)[t]
      /\ \A t \in 1..4 : \E k \in B : NameOf(b, k) = Crosses(o)[t]
  BY RowIsOption DEF RowOpt
<1>2. \A k \in B : Homes(b)[k] = c <=> NameOf(b, k) = x
  BY <1>1, HomeByName
<1>3. c \in ColSet(b, r) <=> \E k \in B : Homes(b)[k] = c
  BY DEF ColSet
<1> HIDE DEF B, o, x
<1>4. (\E k \in B : NameOf(b, k) = x) <=> \E t \in 1..4 : x = Crosses(o)[t]
  BY <1>1
<1>5. QED
  BY <1>2, <1>3, <1>4 DEF o, x

\* The columns of a row, and that each crossing of its option is one.
LEMMA CrossesAreColumns ==
  ASSUME NEW b, NEW r, IsRow(b, r)
  PROVE  /\ ColSet(b, r) \in SUBSET (2..Hd(b))
         /\ \A t \in 1..4 : \E c \in 2..Hd(b) :
              c \in ColSet(b, r) /\ ColumnNames(b)[c - 1] = Crosses(OptOf(b, r))[t]
<1> DEFINE h == Hd(b)
           o == OptOf(b, r)
           columns == ColumnNames(b)
<1>1. o \in Cells \X Values /\ IsIn(o, Options(b))
      /\ \A k \in Band(h, r) : IsRow(b, k) /\ k \in 1..Nd(b)
  BY RowIsOption DEF RowOpt
<1>2. ColSet(b, r) \in SUBSET (2..h)
  <2>1. \A k \in Band(h, r) : Homes(b)[k] \in 2..h
    BY <1>1, RowOptions DEF Homes, IsRow
  <2>2. QED
    BY <2>1 DEF ColSet
<1>3. \A t \in 1..4 : IsIn(Crosses(o)[t], columns)
  <2> HIDE DEF o
  <2>1. QED
    BY <1>1, CrossFacts
<1>4. h = 1 + Len(columns) /\ Len(columns) \in Nat
  BY ColumnFacts DEF Hd
<1>5. ASSUME NEW t \in 1..4
      PROVE  \E c \in 2..h : c \in ColSet(b, r) /\ columns[c - 1] = Crosses(o)[t]
  <2>1. PICK i \in 1..Len(columns) : columns[i] = Crosses(o)[t]
    BY <1>3 DEF IsIn
  <2> DEFINE c == i + 1
  <2>2. c \in 2..h /\ c - 1 = i
    BY <1>4
  <2> HIDE DEF c
  <2>3. columns[c - 1] = Crosses(o)[t]
    BY <2>1, <2>2
  <2>4. c \in ColSet(b, r)
    BY <2>2, <2>3, ColSetIs
  <2>5. QED
    BY <2>2, <2>3, <2>4
<1>6. QED
  BY <1>2, <1>5

\* An option has a row, and one row only.
LEMMA OptionHasRow ==
  ASSUME NEW b, NEW o, IsIn(o, Options(b))
  PROVE  \E r : IsRow(b, r) /\ OptOf(b, r) = o
<1> DEFINE h == Hd(b)
           L == Len(Options(b))
<1>1. h \in Nat /\ L \in Nat /\ Nd(b) = h + 4 * L
  BY RowOptions, OptionFacts DEF Nd
<1>2. PICK l \in 1..L : Options(b)[l] = o
  BY DEF IsIn
<1> HIDE DEF L
<1> DEFINE r == h + 1 + 4 * (l - 1)
<1>3. r \in (h + 1)..(h + 4 * L) /\ ~(r <= h)
  BY <1>1
<1>4. r - h - 1 = 4 * (l - 1) /\ (4 * (l - 1)) \div 4 = l - 1 /\ 1 + (l - 1) = l
  BY <1>1
<1>5. RowNo(h, r) = l
  <2> HIDE DEF r
  <2>1. RowNo(h, r) = 1 + (r - h - 1) \div 4
    BY <1>3 DEF RowNo
  <2>2. QED
    BY <1>4, <2>1
<1>6. IsRow(b, r)
  BY <1>1, <1>3 DEF IsRow
<1> HIDE DEF r
<1>7. QED
  BY <1>2, <1>5, <1>6 DEF OptOf, h

\* An option has one row.
LEMMA OptionRow ==
  ASSUME NEW b, NEW r, IsRow(b, r), NEW q, IsRow(b, q), OptOf(b, r) = OptOf(b, q)
  PROVE  q \in Band(Hd(b), r) /\ ColSet(b, r) = ColSet(b, q)
<1> DEFINE h == Hd(b)
           N == Nd(b)
           L == Len(Options(b))
<1>1. h \in Nat /\ L \in Nat /\ N \in Nat /\ N = h + 4 * L /\ Distinct(Options(b)) /\ Fits(h, N)
  BY RowOptions, OptionFacts DEF Nd
<1>2. r \in (h + 1)..N /\ q \in (h + 1)..N /\ q \in 1..(h + 4 * L)
      /\ r \in (h + 1)..(h + 4 * L) /\ q \in (h + 1)..(h + 4 * L)
  BY <1>1 DEF IsRow
<1> HIDE DEF h, N, L
<1>3. RowNo(h, r) \in 1..L /\ RowNo(h, q) \in 1..L
      /\ \A k \in 1..(h + 4 * L) : RowNo(h, k) = RowNo(h, r) <=> k \in Band(h, r)
  BY <1>1, <1>2, RowNumbers
<1>4. RowNo(h, r) = RowNo(h, q)
  BY <1>1, <1>3 DEF Distinct, OptOf, h, L
<1>5. q \in Band(h, r)
  BY <1>2, <1>3, <1>4
<1>6. First(h, q) = First(h, r)
  BY <1>1, <1>2, <1>5, Rows
<1>7. Band(h, q) = Band(h, r)
  BY <1>6 DEF Band
<1>8. QED
  BY <1>5, <1>7 DEF ColSet, h
-----------------------------------------------------------------------------
(* The rows of the frames.                                                 *)

\* Frame k has its row.
HasRow(fr, p, k) == k \in 1..Len(fr) /\ (k = Len(fr) => p # "next")
RowTaken(u, fr, p, b, k) ==
  /\ IsRow(b, fr[k].row) /\ fr[k].col \in ColSet(b, fr[k].row)
  /\ Homes(b)[fr[k].row] = fr[k].col
  /\ Members(Taken(fr, p, Homes(b), Hd(b), k)) = ColSet(b, fr[k].row)
  /\ \A c \in ColSet(b, fr[k].row) : c \notin Members(u[k - 1])

\* The row that a frame has chosen is a row of the matrix, and what the frame
\* has covered is what the row crosses.
LEMMA FrameRows ==
  ASSUME NEW u, NEW fr, NEW p, NEW d, NEW b, State(u, fr, p, d, b),
         NEW k, HasRow(fr, p, k)
  PROVE  RowTaken(u, fr, p, b, k)
<1> DEFINE h == Hd(b)
           N == Nd(b)
           col == Homes(b)
           e == fr[k]
           r == e.row
           q == Mode(fr, p, k)
           B == Band(h, r)
<1>1. Search(u, fr, p, col, h, N)
  BY DEF State
<1>2. FrameFits(e, q, col, h, N, u[k - 1]) /\ Shape(col, h, N)
  BY <1>1 DEF Search, HasRow
<1>3. q # "next"
  BY DEF Mode, HasRow
<1> HIDE DEF h, N, col, q, e
<1>4. /\ e.row > h /\ e.row \in Free(col, h, N, Members(u[k - 1])) /\ e.row \in 1..N
      /\ col[e.row] = e.col
  BY <1>2, <1>3 DEF FrameFits, Lane, Free
<1>5. h \in Nat /\ N \in Nat /\ r \in (h + 1)..N
  <2>1. h \in Nat /\ N \in Nat
    BY <1>2, ShapeFacts
  <2>2. QED
    BY <1>4, <2>1
<1>6. B = {r, RowAt(h, r, 1), RowAt(h, r, 2), RowAt(h, r, 3)}
  <2>1. Fits(h, N)
    BY <1>2 DEF Shape
  <2>2. QED
    BY <1>5, <2>1, RowCycle
<1> DEFINE t == Taken(fr, p, col, h, k)
<1>7. t = <<e.col>> \o ColsOf(col, h, r)
  BY <1>3 DEF Taken, TakenBy, e, q
<1>8. t = <<e.col, col[RowAt(h, r, 1)], col[RowAt(h, r, 2)], col[RowAt(h, r, 3)]>>
  BY <1>7, OneAndThree, Zenon DEF ColsOf
<1> HIDE DEF t, r, B
<1>9. Members(t) = {e.col, col[RowAt(h, r, 1)], col[RowAt(h, r, 2)], col[RowAt(h, r, 3)]}
  <2>1. /\ Len(t) = 4 /\ t[1] = e.col /\ t[2] = col[RowAt(h, r, 1)]
        /\ t[3] = col[RowAt(h, r, 2)] /\ t[4] = col[RowAt(h, r, 3)]
    BY <1>8
  <2>2. 1..4 = {1, 2, 3, 4}
    OBVIOUS
  <2>3. Members(t) = {t[1], t[2], t[3], t[4]}
    BY <2>1, <2>2 DEF Members
  <2>4. QED
    BY <2>1, <2>3
<1>10. Members(t) = {col[j] : j \in B}
  <2>1. col[r] = e.col
    BY <1>4 DEF r
  <2>2. QED
    BY <1>6, <1>9, <2>1
<1>11. \A j \in B : col[j] \notin Members(u[k - 1])
  BY <1>4 DEF Free, B, r
<1>12. ColSet(b, r) = {col[j] : j \in B}
  BY DEF ColSet, B, h, col
<1>13. IsRow(b, r)
  BY <1>5 DEF IsRow, h, N
<1>14. e.col \in Members(t)
  BY <1>9
<1>15. QED
  BY <1>4, <1>10, <1>11, <1>12, <1>13, <1>14 DEF RowTaken, e, r, t, h, col

\* The columns that the first m frames have covered are those of their rows.
LEMMA CoveredAre ==
  ASSUME NEW u, NEW fr, NEW p, NEW d, NEW b, State(u, fr, p, d, b),
         NEW m, m \in 0..Len(fr), m = Len(fr) => p # "next"
  PROVE  \A c : c \in Members(u[m]) <=> \E k \in 1..m : c \in ColSet(b, fr[k].row)
<1> DEFINE col == Homes(b)
           h == Hd(b)
           N == Nd(b)
           T(k) == Taken(fr, p, col, h, k)
           In(k) == \A c : c \in Members(u[k]) <=> \E j \in 1..k : c \in ColSet(b, fr[j].row)
           S == {k \in Nat : k <= m => In(k)}
<1>1. Search(u, fr, p, col, h, N)
  BY DEF State
<1>2. /\ Len(fr) \in Nat /\ u[0] = <<>>
      /\ \A k \in 1..Len(fr) : u[k] = u[k - 1] \o T(k)
  <2> HIDE DEF col, h, N
  <2>1. QED
    BY <1>1, TrailOf
<1>3. \A k \in 0..Len(fr) : u[k] \in Seq(2..h)
  BY <1>1 DEF Search
<1>4. Shape(col, h, N) /\ \A k \in 0..Len(fr) : Distinct(u[k])
  BY <1>1 DEF Search
<1>5. \A k \in 1..Len(fr) : FrameFits(fr[k], Mode(fr, p, k), col, h, N, u[k - 1])
  BY <1>1 DEF Search
<1>6. ASSUME NEW k \in 1..m PROVE Members(T(k)) = ColSet(b, fr[k].row)
  <2>1. HasRow(fr, p, k)
    BY <1>2 DEF HasRow
  <2>2. RowTaken(u, fr, p, b, k)
    BY <2>1, FrameRows
  <2>3. QED
    BY <2>2 DEF RowTaken
<1>7. ASSUME NEW k \in 1..m PROVE T(k) \in Seq(2..h)
  <2>1. k \in 1..Len(fr) /\ k - 1 \in 0..Len(fr)
    BY <1>2
  <2>2. FrameFits(fr[k], Mode(fr, p, k), col, h, N, u[k - 1]) /\ u[k - 1] \in Seq(2..h)
        /\ Distinct(u[k - 1])
    BY <1>3, <1>4, <1>5, <2>1
  <2> HIDE DEF col, h, N
  <2>3. TakenBy(fr[k], Mode(fr, p, k), col, h) \in Seq(2..h)
    BY <1>4, <2>2, FrameCovers
  <2>4. QED
    BY <2>3 DEF Taken
<1> HIDE DEF T, col, h, N
<1>8. \A s, x : x \in Members(s) <=> IsIn(x, s)
  BY DEF Members, IsIn
<1>9. ASSUME NEW k \in 1..m
      PROVE  \A c : c \in Members(u[k]) <=> c \in Members(u[k - 1]) \/ c \in ColSet(b, fr[k].row)
  <2>1. k \in 1..Len(fr) /\ k - 1 \in 0..Len(fr)
    BY <1>2
  <2>2. u[k] = u[k - 1] \o T(k) /\ u[k - 1] \in Seq(2..h) /\ T(k) \in Seq(2..h)
    BY <1>2, <1>3, <1>7, <2>1
  <2>3. \A x : IsIn(x, u[k - 1] \o T(k)) <=> IsIn(x, u[k - 1]) \/ IsIn(x, T(k))
    BY <2>2, ConcatIn
  <2>4. QED
    BY <1>6, <1>8, <2>2, <2>3
<1>10. 0 \in S
  <2>1. \A c : c \notin Members(u[0])
    <3>1. Len(u[0]) = 0
      BY <1>2
    <3>2. QED
      BY <3>1 DEF Members
  <2>2. 1..0 = {}
    OBVIOUS
  <2>3. In(0)
    BY <2>1, <2>2
  <2>4. QED
    BY <2>3
<1>11. ASSUME NEW k \in Nat, k \in S PROVE k + 1 \in S
  <2>1. SUFFICES ASSUME k + 1 <= m PROVE In(k + 1)
    BY <1>11
  <2>2. k + 1 \in 1..m /\ (k + 1) - 1 = k /\ In(k) /\ 1..(k + 1) = (1..k) \cup {k + 1}
    BY <1>2, <1>11, <2>1
  <2>3. \A c : c \in Members(u[k + 1]) <=> c \in Members(u[k]) \/ c \in ColSet(b, fr[k + 1].row)
    BY <1>9, <2>2
  <2>4. QED
    BY <2>2, <2>3
<1> HIDE DEF S
<1>12. Nat \subseteq S
  BY <1>10, <1>11, SetInduction
<1>13. m \in Nat
  BY <1>2
<1>14. In(m)
  BY <1>12, <1>13 DEF S
<1>15. QED
  BY <1>14

\* The rows of two frames have no column in common.
LEMMA FramesApart ==
  ASSUME NEW u, NEW fr, NEW p, NEW d, NEW b, State(u, fr, p, d, b),
         NEW k, HasRow(fr, p, k), NEW l, HasRow(fr, p, l), k # l, NEW c,
         c \in ColSet(b, fr[k].row)
  PROVE  c \notin ColSet(b, fr[l].row)
<1>1. Len(fr) \in Nat
  BY TrailOf DEF State
<1>2. RowTaken(u, fr, p, b, k) /\ RowTaken(u, fr, p, b, l)
  BY FrameRows
<1>3. CASE k < l
  <2>1. l - 1 \in 0..Len(fr) /\ l - 1 # Len(fr) /\ k \in 1..(l - 1)
    BY <1>1, <1>3 DEF HasRow
  <2>2. c \in Members(u[l - 1])
    BY <2>1, CoveredAre
  <2>3. QED
    BY <1>2, <2>2 DEF RowTaken
<1>4. CASE l < k
  <2>1. k - 1 \in 0..Len(fr) /\ k - 1 # Len(fr) /\ l \in 1..(k - 1)
    BY <1>1, <1>4 DEF HasRow
  <2>2. c \notin Members(u[k - 1])
    BY <1>2 DEF RowTaken
  <2>3. QED
    BY <2>1, <2>2, CoveredAre
<1>5. k \in Int /\ l \in Int
  BY <1>1 DEF HasRow
<1>6. QED
  BY <1>3, <1>4, <1>5
-----------------------------------------------------------------------------
(* The answer is right: a board that is written is a solution.             *)

\* What the columns stand for.
LEMMA NamedColumn ==
  ASSUME NEW b, NEW x, IsIn(x, ColumnNames(b))
  PROVE  \E c \in 2..Hd(b) : ColumnNames(b)[c - 1] = x
<1>1. Hd(b) = 1 + Len(ColumnNames(b)) /\ Len(ColumnNames(b)) \in Nat
  BY ColumnFacts DEF Hd
<1>2. PICK i \in 1..Len(ColumnNames(b)) : ColumnNames(b)[i] = x
  BY DEF IsIn
<1> DEFINE c == i + 1
<1>3. c \in 2..Hd(b) /\ c - 1 = i
  BY <1>1
<1> HIDE DEF c
<1>4. QED
  BY <1>2, <1>3

\* An empty cell has a column.
LEMMA CellColumn ==
  ASSUME NEW b, NEW i \in Cells, b[i] = 0
  PROVE  \E c \in 2..Hd(b) : ColumnNames(b)[c - 1] = i
<1>1. i \in Empty(b)
  BY DEF Empty
<1>2. IsIn(i, ColumnNames(b))
  BY <1>1, AllNamesIn, ColumnFacts
<1>3. QED
  BY <1>2, NamedColumn

\* So has a value that a unit lacks.
LEMMA UnitColumn ==
  ASSUME NEW b, NEW t \in 2..4, NEW x \in Lanes, NEW v \in Values, ~Has(b, t, x, v)
  PROVE  \E c \in 2..Hd(b) : ColumnNames(b)[c - 1] = UnitName(t, x, v)
<1>1. UnitName(t, x, v) \in Lacks(b)
  BY LacksIs
<1>2. IsIn(UnitName(t, x, v), AllNames)
  <2>1. /\ IsIn(UnitName(2, x, v), AllNames) /\ IsIn(UnitName(3, x, v), AllNames)
        /\ IsIn(UnitName(4, x, v), AllNames)
    BY AllNamesIn, NameFacts
  <2>2. t = 2 \/ t = 3 \/ t = 4
    OBVIOUS
  <2>3. QED
    BY <2>1, <2>2
<1>3. IsIn(UnitName(t, x, v), ColumnNames(b))
  BY <1>1, <1>2, ColumnFacts
<1>4. QED
  BY <1>3, NamedColumn

\* Rows that cross each column once, and the board they are written to.
Exact(b, R) ==
  /\ \A r \in R : IsRow(b, r)
  /\ \A c \in 2..Hd(b) : \E r \in R : c \in ColSet(b, r)
  /\ \A r, q \in R : r # q => \A c \in ColSet(b, r) : c \notin ColSet(b, q)
Written(b, s, R) ==
  /\ \A r \in R : s[OptOf(b, r)[1]] = OptOf(b, r)[2]
  /\ \A i \in Cells : (\A r \in R : OptOf(b, r)[1] # i) => s[i] = b[i]
  /\ s = [i \in Cells |-> s[i]]
IsBoard(b) == b \in [Cells -> Int] /\ Valid(b)

\* Rows that cross every column once make a solution.
LEMMA ExactSolves ==
  ASSUME NEW b, IsBoard(b), NEW R, Exact(b, R), NEW s, Written(b, s, R)
  PROVE  Completes(s, b)
<1>1. \A i \in Cells : b[i] \in 0..Side /\ (b[i] # 0 => b[i] \in Values)
  BY Sizes DEF IsBoard, Valid, Values
<1>2. ASSUME NEW r \in R
      PROVE  /\ IsRow(b, r) /\ OptOf(b, r) \in Cells \X Values
             /\ OptOf(b, r)[1] \in Cells /\ OptOf(b, r)[2] \in Values
             /\ b[OptOf(b, r)[1]] = 0
  <2>1. IsRow(b, r)
    BY DEF Exact
  <2>2. OptOf(b, r) \in Cells \X Values /\ IsIn(OptOf(b, r), Options(b))
    BY <2>1, RowIsOption DEF RowOpt
  <2>3. OptOf(b, r) \in Empty(b) \X Values
    BY <2>2, OptionFacts
  <2> DEFINE o == OptOf(b, r)
  <2>4. o \in Cells \X Values /\ o \in Empty(b) \X Values
    BY <2>2, <2>3
  <2> HIDE DEF o
  <2>5. o[1] \in Cells /\ o[2] \in Values /\ o[1] \in Empty(b)
    BY <2>4
  <2>6. QED
    BY <2>1, <2>4, <2>5 DEF o, Empty
<1>3. ASSUME NEW i \in Cells, b[i] = 0 PROVE \E r \in R : OptOf(b, r)[1] = i
  <2>1. PICK c \in 2..Hd(b) : ColumnNames(b)[c - 1] = i
    BY <1>3, CellColumn
  <2>2. PICK r \in R : c \in ColSet(b, r)
    BY DEF Exact
  <2> DEFINE o == OptOf(b, r)
  <2>3. o \in Cells \X Values
    BY <1>2
  <2>4. PICK t \in 1..4 : i = Crosses(o)[t]
    BY <1>2, <2>1, <2>2, ColSetIs
  <2> HIDE DEF o
  <2>5. t = 1
    <3>1. t \in 2..4 => Crosses(o)[t] \notin Cells
      BY <2>3, CrossIs, UnitNames
    <3>2. t = 1 \/ t \in 2..4
      OBVIOUS
    <3>3. QED
      BY <2>4, <3>1, <3>2
  <2>6. o[1] = i
    BY <2>3, <2>4, <2>5, CrossIs
  <2>7. QED
    BY <2>6 DEF o
<1>4. \A i \in Cells : b[i] # 0 => s[i] = b[i]
  BY <1>2 DEF Written
<1>5. \A i \in Cells : s[i] \in Values
  <2>1. ASSUME NEW i \in Cells, b[i] = 0 PROVE s[i] \in Values
    <3>1. PICK r \in R : OptOf(b, r)[1] = i
      BY <1>3, <2>1
    <3>2. s[i] = OptOf(b, r)[2]
      BY <3>1 DEF Written
    <3>3. QED
      BY <1>2, <3>2
  <2>2. QED
    BY <1>1, <1>4, <2>1
<1>6. s \in [Cells -> Values]
  BY <1>5 DEF Written
<1>7. ASSUME NEW t \in 2..4, NEW x \in Lanes, NEW v \in Values
      PROVE  \E i \in Cells : Of(t, i) = x /\ s[i] = v
  <2>1. CASE Has(b, t, x, v)
    <3>1. PICK i \in Cells : Of(t, i) = x /\ b[i] = v
      BY <2>1 DEF Has
    <3>2. v # 0
      BY Sizes DEF Values
    <3>3. QED
      BY <1>4, <3>1, <3>2
  <2>2. CASE ~Has(b, t, x, v)
    <3>1. PICK c \in 2..Hd(b) : ColumnNames(b)[c - 1] = UnitName(t, x, v)
      BY <2>2, UnitColumn
    <3>2. PICK r \in R : c \in ColSet(b, r)
      BY DEF Exact
    <3> DEFINE o == OptOf(b, r)
    <3>3. o \in Cells \X Values /\ s[o[1]] = o[2]
      BY <1>2 DEF Written
    <3>4. PICK q \in 1..4 : UnitName(t, x, v) = Crosses(o)[q]
      BY <1>2, <3>1, <3>2, ColSetIs
    <3> HIDE DEF o
    <3>5. q \in 2..4
      <4>1. Crosses(o)[1] \in Cells
        BY <3>3, CrossIs
      <4>2. UnitName(t, x, v) \notin Cells
        BY UnitNames
      <4>3. q = 1 \/ q \in 2..4
        OBVIOUS
      <4>4. QED
        BY <3>4, <4>1, <4>2, <4>3
    <3>6. /\ UnitName(t, x, v) = UnitName(q, Of(q, o[1]), o[2])
          /\ Of(q, o[1]) \in Lanes /\ o[2] \in Values /\ o[1] \in Cells
      BY <3>3, <3>4, <3>5, CrossIs
    <3>7. t = q /\ x = Of(q, o[1]) /\ v = o[2]
      <4> DEFINE y == Of(q, o[1])
                 w == o[2]
      <4>1. UnitName(t, x, v) = UnitName(q, y, w) /\ y \in Lanes /\ w \in Values
        BY <3>6
      <4> HIDE DEF y, w
      <4>2. t = q /\ x = y /\ v = w
        BY <3>5, <4>1, UnitNames
      <4>3. QED
        BY <4>2 DEF y, w
    <3>8. QED
      BY <3>3, <3>6, <3>7
  <2>3. QED
    BY <2>1, <2>2
<1>8. \A t \in 2..4 : \A x \in Lanes : Once(s, t, x)
  <2>1. \A t \in 2..4 : \A x \in Lanes : Onto(s, t, x)
    BY <1>7 DEF Onto
  <2>2. QED
    BY <1>6, <2>1, OntoOnce
<1>9. NoRepeat(s)
  BY <1>6, <1>8, NoRepeatUnits
<1>10. QED
  BY <1>4, <1>5, <1>9 DEF Completes

\* The cell and the value of a row are those of its option.
LEMMA RowMeans ==
  ASSUME NEW u, State(u, frames, pc, dl, puzzle), NEW r, IsRow(puzzle, r)
  PROVE  CellOf(r) = OptOf(puzzle, r)[1] /\ ValOf(r) = OptOf(puzzle, r)[2]
<1> DEFINE h == Hd(puzzle)
           N == Nd(puzzle)
           o == OptOf(puzzle, r)
           B == Band(h, r)
           A == {r} \cup ToSet(Others(dl.right, r))
           P(i) == \E n \in A : dl.name[n] = i
           Q(v) == \E n \in A : dl.name[n] >= kRow /\ dl.name[n] % 10 = v
<1>1. Good(dl, h, N, Members(u[Len(frames)])) /\ dl.name = Matrix(puzzle).name
  <2>1. Stands(u[Len(frames)], frames, dl, puzzle)
    BY StateFacts
  <2>2. QED
    BY <2>1 DEF Stands
<1>2. A = B
  <2>1. IsMatrix(dl, N) /\ Shape(dl.col, h, N) /\ Rowed(dl, h, N)
    BY <1>1 DEF Good
  <2>2. r \in (h + 1)..N
    BY DEF IsRow
  <2> HIDE DEF h, N
  <2>3. /\ Others(dl.right, r) = <<RowAt(h, r, 1), RowAt(h, r, 2), RowAt(h, r, 3)>>
        /\ B = {r} \cup Siblings(h, r)
    BY <2>1, <2>2, RowFacts
  <2> DEFINE w == Others(dl.right, r)
  <2>4. w = <<RowAt(h, r, 1), RowAt(h, r, 2), RowAt(h, r, 3)>>
    BY <2>3
  <2> HIDE DEF w
  <2>5. DOMAIN w = 1..3 /\ w[1] = RowAt(h, r, 1) /\ w[2] = RowAt(h, r, 2)
        /\ w[3] = RowAt(h, r, 3)
    BY <2>4
  <2>6. 1..3 = {1, 2, 3}
    OBVIOUS
  <2>7. ToSet(w) = {w[1], w[2], w[3]}
    BY <2>5, <2>6 DEF ToSet
  <2>8. ToSet(w) = Siblings(h, r)
    BY <2>5, <2>7 DEF Siblings
  <2>9. QED
    BY <2>3, <2>8 DEF w
<1>3. /\ o \in Cells \X Values
      /\ \A k \in B : k \in 1..N /\ \E t \in 1..4 : NameOf(puzzle, k) = Crosses(o)[t]
      /\ \A t \in 1..4 : \E k \in B : NameOf(puzzle, k) = Crosses(o)[t]
  BY RowIsOption DEF RowOpt
<1>4. \A k \in B : dl.name[k] = NameOf(puzzle, k)
  <2>1. Matrix(puzzle).name = [n \in 1..N |-> NameOf(puzzle, n)]
    BY MatrixGood
  <2> HIDE DEF B, N
  <2>2. QED
    BY <1>1, <1>3, <2>1
<1>5. /\ CellOf(r) = CHOOSE i \in Cells : P(i)
      /\ ValOf(r) = CHOOSE v \in Values : Q(v)
  BY Zenon DEF CellOf, ValOf
<1>6. /\ o[1] \in Cells /\ o[2] \in Values /\ Crosses(o)[1] = o[1]
      /\ \A t \in 2..4 : /\ Crosses(o)[t] \notin Cells
                         /\ Crosses(o)[t] >= 100 /\ Crosses(o)[t] % 10 = o[2]
  <2> HIDE DEF o
  <2>1. /\ o[1] \in Cells /\ o[2] \in Values /\ Crosses(o)[1] = o[1]
        /\ \A t \in 2..4 : /\ Of(t, o[1]) \in Lanes
                           /\ Crosses(o)[t] = UnitName(t, Of(t, o[1]), o[2])
    BY <1>3, CrossIs
  <2>2. QED
    BY <2>1, UnitNames
<1>7. 1 \in 1..4 /\ 2 \in 1..4 /\ 2 \in 2..4 /\ \A t \in 1..4 : t = 1 \/ t \in 2..4
  OBVIOUS
<1>8. \A x : (\E n \in A : dl.name[n] = x) <=> \E t \in 1..4 : x = Crosses(o)[t]
  <2> HIDE DEF A, B, o
  <2>1. QED
    BY <1>2, <1>3, <1>4
<1>9. \A i \in Cells : P(i) <=> i = o[1]
  <2> HIDE DEF A, B, o
  <2>1. QED
    BY <1>6, <1>7, <1>8
<1>10. \A v \in Values : Q(v) <=> v = o[2]
  <2> HIDE DEF A, B, o
  <2>1. \A v : Q(v) <=> \E t \in 1..4 : Crosses(o)[t] >= kRow /\ Crosses(o)[t] % 10 = v
    BY <1>8
  <2>2. ~(o[1] >= 100)
    BY <1>6, CellFacts
  <2>3. kRow = 100
    BY DEF kRow
  <2> HIDE DEF Q
  <2>4. QED
    BY <1>6, <1>7, <2>1, <2>2, <2>3
<1> HIDE DEF P, Q, o
<1>11. CellOf(r) = o[1]
  BY <1>5, <1>6, <1>9
<1>12. ValOf(r) = o[2]
  BY <1>5, <1>6, <1>10
<1>13. QED
  BY <1>11, <1>12 DEF o

\* When no column is left, the rows chosen cross each column once.
LEMMA AllCovered ==
  ASSUME NEW u, NEW fr, NEW d, NEW b, State(u, fr, "call", d, b), d.left[1] = 1,
         NEW R, R = {fr[k].row : k \in 1..Len(fr)}
  PROVE  Exact(b, R)
<1> DEFINE n == Len(fr)
           C == Members(u[n])
<1>1. n \in Nat /\ Good(d, Hd(b), Nd(b), C)
  <2>1. Stands(u[Len(fr)], fr, d, b)
    BY StateFacts
  <2>2. QED
    BY <2>1 DEF Stands
<1>2. (2..Hd(b)) \ C = {}
  <2> HIDE DEF C
  <2>1. HeaderList(Hd(b), d, C)
    BY <1>1, HeaderWalk
  <2>2. QED
    BY <2>1 DEF HeaderList
<1>3. \A k \in 1..n : HasRow(fr, "call", k)
  BY DEF HasRow
<1>4. \A k \in 1..n : IsRow(b, fr[k].row)
  BY <1>3, FrameRows DEF RowTaken
<1>5. ASSUME NEW c \in 2..Hd(b) PROVE \E r \in R : c \in ColSet(b, r)
  <2>1. c \in Members(u[n])
    BY <1>2
  <2>2. n \in 0..Len(fr)
    BY <1>1
  <2>3. \E k \in 1..n : c \in ColSet(b, fr[k].row)
    <3> HIDE DEF n
    <3>1. "call" # "next"
      OBVIOUS
    <3>2. \A x : x \in Members(u[n]) <=> \E k \in 1..n : x \in ColSet(b, fr[k].row)
      BY <2>2, <3>1, CoveredAre
    <3>3. QED
      BY <2>1, <3>2
  <2>4. QED
    BY <2>3
<1>6. ASSUME NEW r \in R, NEW q \in R, r # q, NEW c \in ColSet(b, r) PROVE c \notin ColSet(b, q)
  <2>1. PICK k \in 1..n : r = fr[k].row
    OBVIOUS
  <2>2. PICK l \in 1..n : q = fr[l].row
    OBVIOUS
  <2>3. k # l
    BY <1>6, <2>1, <2>2
  <2>4. c \in ColSet(b, fr[k].row)
    BY <2>1
  <2>5. c \notin ColSet(b, fr[l].row)
    BY <1>3, <2>3, <2>4, FramesApart
  <2>6. QED
    BY <2>2, <2>5
<1>7. \A r \in R : IsRow(b, r)
  BY <1>4
<1>8. QED
  BY <1>5, <1>6, <1>7 DEF Exact

\* The board that the last call writes is a solution.
LEMMA SolvedRight ==
  ASSUME SolverInv, Solved
  PROVE  Completes(board', puzzle)
<1> DEFINE R == Chosen
           Cell(r) == OptOf(puzzle, r)[1]
<1>1. /\ pc = "call" /\ dl.left[1] = 1
      /\ board' = [i \in Cells |->
                     IF \E r \in R : CellOf(r) = i
                     THEN ValOf(CHOOSE r \in R : CellOf(r) = i)
                     ELSE board[i]]
  BY DEF Solved
<1>2. Valid(puzzle) /\ board = puzzle /\ puzzle \in Puzzles
  BY <1>1 DEF SolverInv, SolverType
<1>3. PICK u : State(u, frames, pc, dl, puzzle)
  BY <1>2 DEF SolverInv
<1>4. R = {frames[k].row : k \in 1..Len(frames)}
  <2>1. Stands(u[Len(frames)], frames, dl, puzzle)
    BY <1>3, StateFacts
  <2>2. frames \in Seq([col : 1..Nd(puzzle), row : 1..Nd(puzzle)])
    BY <2>1 DEF Stands
  <2>3. DOMAIN frames = 1..Len(frames)
    BY <2>2
  <2>4. QED
    BY <2>3 DEF Chosen
<1> HIDE DEF R
<1>5. Exact(puzzle, R)
  <2>1. State(u, frames, "call", dl, puzzle)
    BY <1>1, <1>3
  <2>2. QED
    BY <1>1, <1>4, <2>1, AllCovered
<1>6. ASSUME NEW r \in R
      PROVE  /\ CellOf(r) = Cell(r) /\ ValOf(r) = OptOf(puzzle, r)[2]
             /\ IsRow(puzzle, r)
  <2>1. IsRow(puzzle, r)
    BY <1>5 DEF Exact
  <2>2. QED
    BY <1>3, <2>1, RowMeans
<1>7. ASSUME NEW r \in R, NEW q \in R, Cell(r) = Cell(q) PROVE r = q
  <2>1. PICK c \in 2..Hd(puzzle) : /\ c \in ColSet(puzzle, r)
                                   /\ ColumnNames(puzzle)[c - 1] = Crosses(OptOf(puzzle, r))[1]
    BY <1>6, CrossesAreColumns
  <2>2. Crosses(OptOf(puzzle, r))[1] = Crosses(OptOf(puzzle, q))[1]
    BY <1>7 DEF Crosses
  <2>3. c \in ColSet(puzzle, q)
    BY <1>6, <2>1, <2>2, ColSetIs
  <2>4. QED
    BY <1>5, <2>1, <2>3 DEF Exact
<1> HIDE DEF Cell
<1>8. Written(puzzle, board', R)
  <2>1. ASSUME NEW r \in R PROVE board'[Cell(r)] = OptOf(puzzle, r)[2]
    <3> DEFINE q == CHOOSE q \in R : CellOf(q) = Cell(r)
    <3>1. CellOf(r) = Cell(r)
      BY <1>6
    <3>2. q \in R /\ CellOf(q) = Cell(r)
      BY <3>1
    <3>3. q = r
      BY <1>6, <1>7, <3>2
    <3>4. Cell(r) \in Cells
      <4>1. OptOf(puzzle, r) \in Cells \X Values
        BY <1>6, RowIsOption DEF RowOpt
      <4>2. QED
        BY <4>1 DEF Cell
    <3>5. board'[Cell(r)] = ValOf(q)
      BY <1>1, <3>1, <3>4
    <3> HIDE DEF q
    <3>6. QED
      BY <1>6, <3>3, <3>5
  <2>2. ASSUME NEW i \in Cells, \A r \in R : Cell(r) # i PROVE board'[i] = puzzle[i]
    <3>1. ~\E r \in R : CellOf(r) = i
      BY <1>6, <2>2
    <3>2. QED
      BY <1>1, <1>2, <3>1
  <2>3. board' = [i \in Cells |-> board'[i]]
    BY <1>1
  <2>4. QED
    BY <2>1, <2>2, <2>3 DEF Written, Cell
<1>9. IsBoard(puzzle)
  BY <1>2, PuzzleAssumption DEF IsBoard
<1>10. QED
  BY <1>5, <1>8, <1>9, ExactSolves
-----------------------------------------------------------------------------
(* The search misses nothing: every solution of the puzzle is still ahead  *)
(* of it, until one is found.                                              *)

Solution(b, s) == IsBoard(b) /\ s \in [Cells -> Values] /\ Completes(s, b)

\* Row r writes a value of solution s.
Part(b, s, r) == s[OptOf(b, r)[1]] = OptOf(b, r)[2]

\* A solution has no value twice in a unit, has each value in it, and keeps
\* the givens.
LEMMA SolutionFacts ==
  ASSUME NEW b, NEW s, Solution(b, s)
  PROVE  /\ \A t \in 2..4 : \A x \in Lanes : Once(s, t, x) /\ Onto(s, t, x)
         /\ \A i \in Cells : s[i] \in Values /\ (b[i] # 0 => s[i] = b[i])
<1>1. s \in [Cells -> Values] /\ NoRepeat(s)
  BY DEF Solution, Completes
<1>2. \A t \in 2..4 : \A x \in Lanes : Once(s, t, x)
  BY <1>1, NoRepeatUnits
<1>3. \A t \in 2..4 : \A x \in Lanes : Onto(s, t, x)
  BY <1>1, <1>2, OntoOnce
<1>4. \A i \in Cells : s[i] \in Values /\ (b[i] # 0 => s[i] = b[i])
  BY DEF Solution, Completes
<1>5. QED
  BY <1>2, <1>3, <1>4

\* Two rows of a solution that cross one column are rows of one option.
LEMMA PartsMeet ==
  ASSUME NEW b, NEW s, Solution(b, s), NEW r, IsRow(b, r), Part(b, s, r),
         NEW q, IsRow(b, q), Part(b, s, q),
         NEW c, c \in ColSet(b, r), c \in ColSet(b, q)
  PROVE  q \in Band(Hd(b), r) /\ ColSet(b, r) = ColSet(b, q)
<1> DEFINE o == OptOf(b, r)
           p == OptOf(b, q)
<1>1. c \in 2..Hd(b)
  BY CrossesAreColumns
<1>2. PICK j \in 1..4 : ColumnNames(b)[c - 1] = Crosses(o)[j]
  BY <1>1, ColSetIs
<1>3. PICK k \in 1..4 : ColumnNames(b)[c - 1] = Crosses(p)[k]
  BY <1>1, ColSetIs
<1>4. o \in Cells \X Values /\ p \in Cells \X Values
  BY RowIsOption DEF RowOpt
<1>5. s[o[1]] = o[2] /\ s[p[1]] = p[2]
  BY DEF Part
<1> HIDE DEF o, p
<1>6. Crosses(o)[j] = Crosses(p)[k]
  BY <1>2, <1>3
<1>7. /\ j = 1 => o[1] = p[1]
      /\ j # 1 => j \in 2..4 /\ Of(j, o[1]) = Of(j, p[1]) /\ o[2] = p[2]
  BY <1>4, <1>6, CrossSame
<1>8. o[1] \in Cells /\ p[1] \in Cells
  BY <1>4
<1>9. o[1] = p[1]
  <2>1. CASE j = 1
    BY <1>7, <2>1
  <2>2. CASE j # 1
    <3>1. Of(j, o[1]) \in Lanes
      BY <1>4, <1>7, <2>2, CrossIs
    <3>2. Once(s, j, Of(j, o[1]))
      BY <1>7, <2>2, <3>1, SolutionFacts
    <3>3. QED
      BY <1>5, <1>7, <1>8, <2>2, <3>2 DEF Once
  <2>3. QED
    BY <2>1, <2>2
<1>10. o = p
  <2>1. o[2] = p[2]
    BY <1>5, <1>9
  <2>2. o = <<o[1], o[2]>> /\ p = <<p[1], p[2]>>
    BY <1>4, CrossIs
  <2>3. QED
    BY <1>9, <2>1, <2>2
<1>11. QED
  BY <1>10, OptionRow DEF o, p

\* The value of a solution in an empty cell is one of the options.
LEMMA SolutionOpen ==
  ASSUME NEW b, NEW s, Solution(b, s), NEW i \in Cells, b[i] = 0
  PROVE  IsIn(<<i, s[i]>>, Options(b))
<1>1. ASSUME NEW t \in 2..4, Has(b, t, Of(t, i), s[i]) PROVE FALSE
  <2>1. PICK j \in Cells : Of(t, j) = Of(t, i) /\ b[j] = s[i]
    BY <1>1 DEF Has
  <2>2. s[i] \in Values /\ ~(0 \in Values)
    BY SolutionFacts DEF Values
  <2>3. s[j] = b[j]
    BY <2>1, <2>2, SolutionFacts
  <2>4. Of(t, i) \in Lanes
    BY CellFacts DEF Of
  <2>5. i = j
    BY <2>1, <2>3, <2>4, SolutionFacts DEF Once
  <2>6. QED
    BY <2>1, <2>2, <2>5
<1>2. Open(b, i, s[i])
  BY <1>1, InUnits
<1>3. <<i, s[i]>> \in Empty(b) \X Values
  BY SolutionFacts DEF Empty
<1> DEFINE o == <<i, s[i]>>
<1>4. o[1] = i /\ o[2] = s[i] /\ o \in Empty(b) \X Values
  BY <1>3
<1> HIDE DEF o
<1>5. IsIn(o, Options(b))
  BY <1>2, <1>4, OptionFacts
<1>6. QED
  BY <1>5 DEF o

\* A solution has a row in every column.
LEMMA PartOf ==
  ASSUME NEW b, NEW s, Solution(b, s), NEW c \in 2..Hd(b)
  PROVE  \E r : IsRow(b, r) /\ Part(b, s, r) /\ Homes(b)[r] = c
<1> DEFINE x == ColumnNames(b)[c - 1]
<1>1. IsIn(x, ColumnNames(b))
  <2>1. Hd(b) = 1 + Len(ColumnNames(b)) /\ Len(ColumnNames(b)) \in Nat
    BY ColumnFacts DEF Hd
  <2>2. c - 1 \in 1..Len(ColumnNames(b))
    BY <2>1
  <2>3. QED
    BY <2>2 DEF IsIn
<1>2. x \in Empty(b) \/ x \in Lacks(b)
  BY <1>1, ColumnFacts
<1> HIDE DEF x
<1>3. ASSUME NEW i \in Cells, b[i] = 0, NEW t \in 1..4, x = Crosses(<<i, s[i]>>)[t]
      PROVE  \E r : IsRow(b, r) /\ Part(b, s, r) /\ Homes(b)[r] = c
  <2> DEFINE o == <<i, s[i]>>
  <2>1. IsIn(o, Options(b))
    BY <1>3, SolutionOpen
  <2>2. o[1] = i /\ o[2] = s[i] /\ x = Crosses(o)[t]
    BY <1>3
  <2> HIDE DEF o
  <2>3. PICK q : IsRow(b, q) /\ OptOf(b, q) = o
    BY <2>1, OptionHasRow
  <2>4. c \in ColSet(b, q)
    BY <2>2, <2>3, ColSetIs DEF x
  <2>5. PICK k \in Band(Hd(b), q) : Homes(b)[k] = c
    BY <2>4 DEF ColSet
  <2>6. IsRow(b, k) /\ OptOf(b, k) = OptOf(b, q)
    BY <2>3, RowIsOption DEF RowOpt
  <2>7. Part(b, s, k)
    BY <2>2, <2>3, <2>6 DEF Part
  <2>8. QED
    BY <2>5, <2>6, <2>7
<1>4. CASE x \in Empty(b)
  <2>1. x \in Cells /\ b[x] = 0
    BY <1>4 DEF Empty
  <2>2. 1 \in 1..4 /\ x = Crosses(<<x, s[x]>>)[1]
    BY DEF Crosses
  <2>3. QED
    BY <1>3, <2>1, <2>2
<1>5. CASE x \in Lacks(b)
  <2>1. PICK t \in 2..4, y \in Lanes, v \in Values : x = UnitName(t, y, v) /\ ~Has(b, t, y, v)
    BY <1>5, LacksAre
  <2>2. PICK i \in Cells : Of(t, i) = y /\ s[i] = v
    BY SolutionFacts DEF Onto
  <2>3. b[i] = 0
    BY <2>1, <2>2, SolutionFacts DEF Has
  <2> DEFINE o == <<i, s[i]>>
  <2>4. o \in Cells \X Values /\ o[1] = i /\ o[2] = v
    BY <2>2
  <2> HIDE DEF o
  <2>5. Crosses(o)[t] = UnitName(t, y, v)
    BY <2>2, <2>4, CrossIs
  <2>6. t \in 1..4
    OBVIOUS
  <2>7. x = Crosses(<<i, s[i]>>)[t]
    BY <2>1, <2>5 DEF o
  <2>8. QED
    BY <1>3, <2>3, <2>6, <2>7
<1>6. QED
  BY <1>2, <1>4, <1>5

\* The calls above the k-th have chosen rows of solution s.
Begun(b, s, fr, k) == \A j \in 1..(k - 1) : Part(b, s, fr[j].row)

\* Row r of s is the one that frame e should find, and is not behind it.
Wanted(b, s, r, e) ==
  IsRow(b, r) /\ Homes(b)[r] = e.col /\ Part(b, s, r) /\ r >= e.row

Ahead(b, s, fr, k) == Begun(b, s, fr, k) => \E r : Wanted(b, s, r, fr[k])

\* The row that the last frame is at is not the one it should find.
Beyond(b, s, fr) ==
  Begun(b, s, fr, Len(fr)) =>
    \E r : Wanted(b, s, r, fr[Len(fr)]) /\ r # fr[Len(fr)].row

\* Wherever the calls so far agree with s, the row of s is ahead.
Pending(b, s, fr, p) ==
  /\ p # "failed"
  /\ \A k \in 1..Len(fr) : Ahead(b, s, fr, k)
  /\ p \in {"next", "return"} => Beyond(b, s, fr)

Facing(b, s, fr, r) ==
  /\ Begun(b, s, fr, Len(fr)) /\ Wanted(b, s, r, fr[Len(fr)]) /\ r # fr[Len(fr)].row
Short(d, e, r) == d.down[e.row] <= r /\ d.down[e.row] # e.col

\* The next row of a column is not beyond the row of s.
LEMMA NextRowBelow ==
  ASSUME NEW b, NEW s, Solution(b, s),
         NEW u, NEW fr, NEW d, State(u, fr, "next", d, b), Len(fr) # 0,
         NEW r, Facing(b, s, fr, r)
  PROVE  Short(d, fr[Len(fr)], r)
<1> DEFINE n == Len(fr)
           e == fr[n]
<1>0. Begun(b, s, fr, n) /\ Wanted(b, s, r, e) /\ r # e.row
  BY DEF Facing
<1> DEFINE h == Hd(b)
           N == Nd(b)
           v == u[n - 1]
           F == Free(Homes(b), h, N, Members(v))
           S == Lane(Homes(b), F, e.col)
<1>1. /\ n \in 1..n /\ n - 1 \in Nat
      /\ \E d0 : Below(d0, u[n], e, "next", d, b, v)
  BY LastFrame
<1>2. PICK d0 : Below(d0, u[n], e, "next", d, b, v)
  BY <1>1
<1>3. d.down[e.row] = After(S, e.row)
  <2>1. Looking(d0, u[n], e, d, b, v)
    BY <1>2, AtNext
  <2>2. QED
    BY <2>1 DEF Looking
<1>4. /\ Shape(Homes(b), h, N) /\ Members(v) \in SUBSET (2..h)
      /\ e.col \in 2..h /\ e.col \notin Members(v) /\ e.row \in S
  BY <1>2 DEF Below, Good, FrameFits
<1>5. IsRow(b, r) /\ Homes(b)[r] = e.col /\ Part(b, s, r) /\ r >= e.row
  BY <1>0 DEF Wanted
<1>6. r \in Band(h, r) /\ e.col \in ColSet(b, r)
  <2>1. r \in Band(h, r)
    BY <1>5, OptionRow
  <2>2. QED
    BY <1>5, <2>1 DEF ColSet
<1>7. ASSUME NEW c \in ColSet(b, r), c \in Members(v) PROVE FALSE
  <2>1. n - 1 \in 0..Len(fr) /\ n - 1 # Len(fr)
    BY <1>1
  <2>2. PICK k \in 1..(n - 1) : c \in ColSet(b, fr[k].row)
    BY <1>7, <2>1, CoveredAre
  <2>3. HasRow(fr, "next", k)
    BY <1>1, <2>2 DEF HasRow
  <2>4. IsRow(b, fr[k].row)
    BY <2>3, FrameRows DEF RowTaken
  <2>5. Part(b, s, fr[k].row)
    BY <1>0, <2>2 DEF Begun
  <2>6. ColSet(b, r) = ColSet(b, fr[k].row)
    BY <1>5, <2>2, <2>4, <2>5, PartsMeet
  <2>7. e.col \in Members(v)
    BY <1>6, <2>1, <2>2, <2>6, CoveredAre
  <2>8. QED
    BY <1>4, <2>7
<1>8. h \in Nat /\ N \in Nat /\ r \in (h + 1)..N /\ r \in 1..N
  <2>1. h \in Nat /\ N \in Nat
    BY NodesFit, ColumnFacts DEF Hd
  <2>2. QED
    BY <1>5, <2>1 DEF IsRow
<1>9. r \in S
  <2>1. Homes(b)[r] \notin Members(v)
    BY <1>4, <1>5
  <2>2. \A k \in Band(h, r) : Homes(b)[k] \notin Members(v)
    BY <1>7 DEF ColSet
  <2>3. r \in F
    BY <1>8, <2>1, <2>2 DEF Free
  <2>4. QED
    BY <1>5, <2>3 DEF Lane
<1>10. F \in SUBSET (1..N)
  BY <1>4, FreeFacts
<1>11. S \in SUBSET (1..N) /\ e.row \in 1..N
  BY <1>4, <1>10 DEF Lane
<1>12. e.row >= e.col
  <2>1. Homes(b)[e.row] = e.col
    BY <1>4 DEF Lane
  <2>2. CASE e.row \in 1..h
    BY <1>4, <2>1, <2>2 DEF Shape
  <2>3. CASE e.row \notin 1..h
    BY <1>4, <1>8, <1>11, <2>3
  <2>4. QED
    BY <2>2, <2>3
<1> HIDE DEF S, F, h, N, v
<1>13. IsAfter(S, e.row, After(S, e.row))
  BY <1>8, <1>9, <1>11, AfterIs
<1> DEFINE a == After(S, e.row)
<1>14. /\ a \in S
       /\ \/ a > e.row /\ \A k \in S : k > e.row => a <= k
          \/ (\A k \in S : k <= e.row) /\ \A k \in S : a <= k
  BY <1>13 DEF IsAfter
<1> HIDE DEF a
<1>15. r > e.row
  BY <1>0, <1>5, <1>8, <1>11
<1>16. ~(r <= e.row)
  BY <1>8, <1>11, <1>15
<1>17. a > e.row /\ a <= r
  BY <1>9, <1>14, <1>15, <1>16
<1>18. a \in 1..N
  BY <1>11, <1>14
<1>19. a # e.col
  BY <1>4, <1>8, <1>11, <1>12, <1>17, <1>18 DEF h
<1>20. QED
  BY <1>3, <1>17, <1>19 DEF a, Short

\* What a frame has ahead depends on it and on those above it.
LEMMA AheadSame ==
  ASSUME NEW b, NEW s, NEW fr, NEW gr, NEW k \in Nat,
         \A j \in 1..k : gr[j] = fr[j]
  PROVE  /\ Begun(b, s, gr, k) => Begun(b, s, fr, k)
         /\ k # 0 /\ Ahead(b, s, fr, k) => Ahead(b, s, gr, k)
<1>1. Begun(b, s, gr, k) <=> Begun(b, s, fr, k)
  BY DEF Begun
<1>2. k # 0 => gr[k] = fr[k]
  OBVIOUS
<1>3. QED
  BY <1>1, <1>2 DEF Ahead

\* A column chosen has a row of the solution, which is ahead.
LEMMA ChoosePending ==
  ASSUME NEW b, NEW s, Solution(b, s), NEW fr, NEW E, fr \in Seq(E),
         Pending(b, s, fr, "call"),
         NEW c \in 2..Hd(b), NEW f, f = [col |-> c, row |-> c]
  PROVE  Pending(b, s, Append(fr, f), "next")
<1> DEFINE n == Len(fr)
           gr == Append(fr, f)
<1>1. /\ n \in Nat /\ Len(gr) = n + 1 /\ gr[n + 1] = f
      /\ \A j \in 1..n : gr[j] = fr[j]
  OBVIOUS
<1> HIDE DEF gr, n
<1>2. PICK r : IsRow(b, r) /\ Part(b, s, r) /\ Homes(b)[r] = c
  BY PartOf
<1>3. r >= c /\ r # c
  <2>1. Hd(b) \in Nat /\ Nd(b) \in Nat
    BY NodesFit, ColumnFacts DEF Hd
  <2>2. QED
    BY <1>2, <2>1 DEF IsRow
<1>4. f.col = c /\ f.row = c
  OBVIOUS
<1>5. Wanted(b, s, r, f)
  BY <1>2, <1>3, <1>4 DEF Wanted
<1>6. Beyond(b, s, gr)
  BY <1>1, <1>3, <1>4, <1>5 DEF Beyond
<1>7. ASSUME NEW k \in 1..Len(gr) PROVE Ahead(b, s, gr, k)
  <2>1. CASE k = n + 1
    BY <1>1, <1>5, <2>1 DEF Ahead
  <2>2. CASE k \in 1..n
    <3>1. Ahead(b, s, fr, k)
      BY <2>2 DEF Pending, n
    <3>2. k \in Nat /\ k # 0 /\ \A j \in 1..k : gr[j] = fr[j]
      BY <1>1, <2>2
    <3>3. QED
      BY <3>1, <3>2, AheadSame
  <2>3. QED
    BY <1>1, <2>1, <2>2
<1>8. QED
  BY <1>6, <1>7 DEF Pending, gr

\* The next row does not go beyond the row of the solution.
LEMMA TryPending ==
  ASSUME NEW b, NEW s, Solution(b, s),
         NEW u, NEW fr, NEW d, State(u, fr, "next", d, b), Pending(b, s, fr, "next"),
         NEW n, n = Len(fr), n \in Nat, n # 0, NEW e, e = fr[n],
         NEW r, r = d.down[e.row], r \in Int,
         NEW gr, Len(gr) = n, \A j \in 1..(n - 1) : gr[j] = fr[j],
         gr[n].col = e.col, gr[n].row = r
  PROVE  Pending(b, s, gr, "call")
<1>1. ASSUME NEW k \in 1..(n - 1) PROVE Ahead(b, s, gr, k)
  <2>1. Ahead(b, s, fr, k)
    BY DEF Pending
  <2>2. k \in Nat /\ k # 0 /\ \A j \in 1..k : gr[j] = fr[j]
    OBVIOUS
  <2>3. QED
    BY <2>1, <2>2, AheadSame
<1>2. ASSUME Begun(b, s, gr, n) PROVE \E q : Wanted(b, s, q, gr[n])
  <2>1. Begun(b, s, fr, n)
    BY <1>2 DEF Begun
  <2>2. PICK q : Wanted(b, s, q, e) /\ q # e.row
    BY <2>1 DEF Pending, Beyond
  <2>3. d.down[e.row] <= q
    <3>1. Facing(b, s, fr, q)
      BY <2>1, <2>2 DEF Facing
    <3>2. Short(d, fr[Len(fr)], q)
      BY <3>1, NextRowBelow
    <3>3. QED
      BY <3>2 DEF Short
  <2>0. r <= q
    BY <2>3
  <2>4. IsRow(b, q) /\ Homes(b)[q] = e.col /\ Part(b, s, q)
    BY <2>2 DEF Wanted
  <2>5. q \in Int
    BY <2>4 DEF IsRow
  <2>6. q >= r
    BY <2>0, <2>5
  <2>7. QED
    BY <2>4, <2>6 DEF Wanted
<1>3. Ahead(b, s, gr, n)
  BY <1>2 DEF Ahead
<1>4. \A k \in 1..Len(gr) : k = n \/ k \in 1..(n - 1)
  OBVIOUS
<1>5. QED
  BY <1>1, <1>3, <1>4 DEF Pending

\* A call gives up only where an earlier one has left the solution.
LEMMA GiveUpPending ==
  ASSUME NEW b, NEW s, Solution(b, s),
         NEW u, NEW fr, NEW d, State(u, fr, "next", d, b), Pending(b, s, fr, "next"),
         NEW n, n = Len(fr), n \in Nat, n # 0, NEW e, e = fr[n], d.down[e.row] = e.col,
         NEW gr, Len(gr) = n - 1, \A j \in 1..(n - 1) : gr[j] = fr[j]
  PROVE  n # 1 /\ Pending(b, s, gr, "return")
<1>1. ~Begun(b, s, fr, n)
  <2>1. SUFFICES ASSUME Begun(b, s, fr, n) PROVE FALSE
    OBVIOUS
  <2>2. PICK q : Wanted(b, s, q, e) /\ q # e.row
    BY <2>1 DEF Pending, Beyond
  <2>3. Facing(b, s, fr, q)
    BY <2>1, <2>2 DEF Facing
  <2>4. Short(d, fr[Len(fr)], q)
    BY <2>3, NextRowBelow
  <2>5. QED
    BY <2>4 DEF Short
<1>2. n # 1
  BY <1>1 DEF Begun
<1>3. ASSUME NEW k \in 1..Len(gr) PROVE Ahead(b, s, gr, k)
  <2>1. Ahead(b, s, fr, k)
    BY DEF Pending
  <2>2. k \in Nat /\ k # 0 /\ \A j \in 1..k : gr[j] = fr[j]
    OBVIOUS
  <2>3. QED
    BY <2>1, <2>2, AheadSame
<1> DEFINE m == n - 1
<1>4. m \in 1..n /\ m = Len(gr) /\ m \in 1..m /\ gr[m] = fr[m] /\ m \in 1..Len(fr)
  BY <1>2
<1>5. ASSUME Begun(b, s, gr, m) PROVE \E r : Wanted(b, s, r, gr[m]) /\ r # gr[m].row
  <2>1. PICK r : Wanted(b, s, r, gr[m])
    BY <1>3, <1>4, <1>5 DEF Ahead
  <2>2. ASSUME r = gr[m].row PROVE FALSE
    <3>1. Part(b, s, fr[m].row)
      BY <1>4, <2>1, <2>2 DEF Wanted
    <3>2. \A j \in 1..(m - 1) : Part(b, s, fr[j].row)
      BY <1>5 DEF Begun
    <3>3. \A j \in 1..(n - 1) : j = m \/ j \in 1..(m - 1)
      OBVIOUS
    <3>4. QED
      BY <1>1, <3>1, <3>2, <3>3 DEF Begun
  <2>3. QED
    BY <2>1, <2>2
<1>6. QED
  BY <1>2, <1>3, <1>4, <1>5 DEF Pending, Beyond
-----------------------------------------------------------------------------
(* The reference is what it should be: the set of all completions.         *)

\* Boards of X with a value in cell k - 1.
Fill(k, X, p) ==
  {b \in {[q EXCEPT ![k - 1] = v] : q \in X, v \in Values} :
     NoRepeat(b) /\ (p[k - 1] # 0 => b[k - 1] = p[k - 1])}

FillRec(f, p) ==
  f = [k \in 0..kCells |-> IF k = 0 THEN {p} ELSE Fill(k, f[k - 1], p)]

FilledBy(f, p) ==
  /\ f[0] = {p} /\ \A k \in 1..kCells : f[k] = Fill(k, f[k - 1], p)
  /\ f \in [0..kCells -> SUBSET [Cells -> Int]]
  /\ Solutions(p) = f[kCells]

\* Filling a cell makes boards of boards.
LEMMA FillStays ==
  ASSUME NEW k \in 1..kCells, NEW X \in SUBSET [Cells -> Int], NEW p
  PROVE  Fill(k, X, p) \in SUBSET [Cells -> Int]
<1>1. ASSUME NEW q \in X, NEW v \in Values PROVE [q EXCEPT ![k - 1] = v] \in [Cells -> Int]
  <2>1. v \in Int
    BY DEF Values
  <2>2. QED
    BY <2>1
<1>2. QED
  BY <1>1 DEF Fill

\* The reference is defined from one cell to the next.
LEMMA FillRecursion ==
  ASSUME NEW p \in [Cells -> Int]
  PROVE  \E f : FilledBy(f, p)
<1> DEFINE N == kCells
           X == SUBSET [Cells -> Int]
           F == [kx \in (1..N) \X X |-> Fill(kx[1], kx[2], p)]
           f == CHOOSE f : FillRec(f, p)
<1>1. N \in Nat /\ {p} \in X
  BY Sizes
<1>2. F \in [(1..N) \X X -> X]
  <2>1. ASSUME NEW kx \in (1..N) \X X PROVE Fill(kx[1], kx[2], p) \in X
    BY FillStays
  <2> HIDE DEF X
  <2>2. QED
    BY <2>1
<1>3. ASSUME NEW k \in 1..N, NEW q \in X PROVE F[<<k, q>>] = Fill(k, q, p)
  BY <1>3
<1> HIDE DEF F, N, X
<1>4. PICK g : StepsBy(g, X, {p}, N, F)
  BY <1>1, <1>2, RecursionExists, Zenon
<1>5. FillRec(g, p)
  <2>1. ASSUME NEW k \in 0..N
        PROVE  g[k] = IF k = 0 THEN {p} ELSE Fill(k, g[k - 1], p)
    <3>1. k # 0 => k \in 1..N /\ g[k - 1] \in X
      BY <1>1, <1>4 DEF StepsBy
    <3>2. k # 0 => g[k] = F[<<k, g[k - 1]>>]
      BY <1>4, <3>1 DEF StepsBy
    <3>3. QED
      BY <1>3, <1>4, <3>1, <3>2 DEF StepsBy
  <2>2. g = [k \in 0..N |-> IF k = 0 THEN {p} ELSE Fill(k, g[k - 1], p)]
    <3>1. g = [k \in 0..N |-> g[k]]
      BY <1>4 DEF StepsBy
    <3>2. QED
      BY <2>1, <3>1
  <2>3. QED
    BY <2>2 DEF FillRec, N
<1>6. FillRec(f, p)
  BY <1>5
<1>7. Solutions(p) = f[N]
  BY DEF Solutions, FillRec, Fill, N
<1> HIDE DEF f
<1>8. f = [k \in 0..N |-> IF k = 0 THEN {p} ELSE Fill(k, f[k - 1], p)]
  BY <1>6 DEF FillRec, N
<1>9. f[0] = {p}
  <2>1. 0 \in 0..N
    BY <1>1
  <2>2. QED
    BY <1>8, <2>1
<1>10. ASSUME NEW k \in 1..N PROVE f[k] = Fill(k, f[k - 1], p)
  <2>1. k \in 0..N /\ k # 0
    BY <1>1
  <2>2. QED
    BY <1>8, <2>1
<1> DEFINE S == {n \in Nat : n <= N => f[n] \in X}
<1>11. 0 \in S
  BY <1>1, <1>9
<1>12. ASSUME NEW n \in Nat, n \in S PROVE n + 1 \in S
  <2>1. SUFFICES ASSUME n + 1 <= N PROVE f[n + 1] \in X
    OBVIOUS
  <2>2. n + 1 \in 1..N /\ (n + 1) - 1 = n /\ n <= N
    BY <1>1, <2>1
  <2>3. f[n + 1] = Fill(n + 1, f[n], p)
    BY <1>10, <2>2
  <2>4. f[n] \in X
    BY <1>12, <2>2
  <2>5. n + 1 \in 1..kCells /\ f[n] \in SUBSET [Cells -> Int]
    BY <2>2, <2>4 DEF X, N
  <2>6. Fill(n + 1, f[n], p) \in SUBSET [Cells -> Int]
    BY <2>5, FillStays
  <2>7. QED
    BY <2>3, <2>6 DEF X
<1> HIDE DEF S
<1>13. Nat \subseteq S
  BY <1>11, <1>12, SetInduction
<1>14. ASSUME NEW k \in 0..N PROVE f[k] \in X
  BY <1>1, <1>13 DEF S
<1>15. f \in [0..N -> X]
  <2>1. f = [k \in 0..N |-> f[k]]
    <3> DEFINE B(k) == IF k = 0 THEN {p} ELSE Fill(k, f[k - 1], p)
    <3>1. f = [k \in 0..N |-> B(k)]
      BY <1>8
    <3> HIDE DEF B
    <3>2. QED
      BY <3>1
  <2>2. QED
    BY <1>14, <2>1
<1>16. QED
  BY <1>7, <1>9, <1>10, <1>15 DEF FilledBy, N, X

\* After k steps the first k cells hold values and the others the givens.
FilledTo(b, k, s) ==
  /\ s \in [Cells -> Int] /\ (k # 0 => NoRepeat(s))
  /\ \A i \in Cells : IF i < k THEN s[i] \in Values /\ (b[i] # 0 => s[i] = b[i])
                      ELSE s[i] = b[i]

\* The first k cells of s, and the givens.
UpTo(b, s, k) == [i \in Cells |-> IF i < k THEN s[i] ELSE b[i]]

\* The reference fills nothing but completions,
LEMMA FillOnly ==
  ASSUME NEW b \in [Cells -> Int], NEW f, FilledBy(f, b)
  PROVE  \A s \in f[kCells] : FilledTo(b, kCells, s)
<1> DEFINE S == {n \in Nat : n <= kCells => \A s \in f[n] : FilledTo(b, n, s)}
<1>0. kCells \in Nat /\ Cells = 0..(kCells - 1)
  BY Sizes DEF Cells
<1>1. 0 \in S
  <2>1. f[0] = {b}
    BY DEF FilledBy
  <2>2. FilledTo(b, 0, b)
    BY <1>0 DEF FilledTo
  <2>3. QED
    BY <2>1, <2>2
<1>2. ASSUME NEW n \in Nat, n \in S PROVE n + 1 \in S
  <2>1. SUFFICES ASSUME n + 1 <= kCells, NEW s \in f[n + 1] PROVE FilledTo(b, n + 1, s)
    OBVIOUS
  <2>2. n + 1 \in 1..kCells /\ (n + 1) - 1 = n /\ n <= kCells /\ n \in Cells
    BY <1>0, <2>1
  <2>3. f[n + 1] = Fill(n + 1, f[n], b)
    BY <2>2 DEF FilledBy
  <2>4. PICK q \in f[n], v \in Values : s = [q EXCEPT ![n] = v]
    BY <2>1, <2>2, <2>3 DEF Fill
  <2>5. NoRepeat(s) /\ (b[n] # 0 => s[n] = b[n])
    BY <2>1, <2>2, <2>3 DEF Fill
  <2>6. FilledTo(b, n, q)
    BY <1>2, <2>2, <2>4
  <2>7. q \in [Cells -> Int]
    BY <2>6 DEF FilledTo
  <2>8. s \in [Cells -> Int] /\ s[n] = v
    BY <2>2, <2>4, <2>7 DEF Values
  <2>9. ASSUME NEW i \in Cells, i # n PROVE s[i] = q[i] /\ (i < n <=> i < n + 1)
    <3>1. s[i] = q[i]
      BY <2>4, <2>7, <2>9
    <3>2. QED
      BY <1>0, <2>9, <3>1
  <2>10. ASSUME NEW i \in Cells
         PROVE  IF i < n + 1 THEN s[i] \in Values /\ (b[i] # 0 => s[i] = b[i])
                ELSE s[i] = b[i]
    <3>1. CASE i = n
      BY <2>5, <2>8, <3>1
    <3>2. CASE i # n
      BY <2>6, <2>9, <3>2 DEF FilledTo
    <3>3. QED
      BY <3>1, <3>2
  <2>11. QED
    BY <2>5, <2>8, <2>10 DEF FilledTo
<1> HIDE DEF S
<1>3. Nat \subseteq S
  BY <1>1, <1>2, SetInduction
<1>4. QED
  BY <1>0, <1>3 DEF S

\* and all of them.
LEMMA FillAll ==
  ASSUME NEW b, NEW s, Solution(b, s), NEW f, FilledBy(f, b)
  PROVE  s \in f[kCells]
<1> DEFINE S == {n \in Nat : n <= kCells => UpTo(b, s, n) \in f[n]}
<1>0. kCells \in Nat /\ Cells = 0..(kCells - 1)
  BY Sizes DEF Cells
<1>1. b \in [Cells -> Int] /\ s \in [Cells -> Values] /\ NoRepeat(s)
  BY DEF Solution, IsBoard, Completes
<1>2. \A i \in Cells : b[i] # 0 => s[i] = b[i]
  BY SolutionFacts
<1>3. 0 \in S
  <2>1. UpTo(b, s, 0) = b
    BY <1>0, <1>1 DEF UpTo
  <2>2. QED
    BY <2>1 DEF FilledBy
<1>4. ASSUME NEW n \in Nat, n \in S PROVE n + 1 \in S
  <2> DEFINE q == UpTo(b, s, n)
             w == UpTo(b, s, n + 1)
  <2>1. SUFFICES ASSUME n + 1 <= kCells PROVE w \in f[n + 1]
    OBVIOUS
  <2>2. n + 1 \in 1..kCells /\ (n + 1) - 1 = n /\ n <= kCells /\ n \in Cells
    BY <1>0, <2>1
  <2>3. f[n + 1] = Fill(n + 1, f[n], b)
    BY <2>2 DEF FilledBy
  <2>4. q \in f[n]
    BY <1>4, <2>2
  <2>5. w = [q EXCEPT ![n] = s[n]]
    <3>1. \A i \in Cells : i # n => (i < n <=> i < n + 1)
      BY <1>0
    <3>2. n < n + 1
      OBVIOUS
    <3>3. QED
      BY <2>2, <3>1, <3>2 DEF UpTo
  <2>6. \A i \in Cells : w[i] # 0 => w[i] = s[i]
    BY <1>2 DEF UpTo
  <2>7. NoRepeat(w)
    BY <1>1, <2>6 DEF NoRepeat
  <2>8. w[n] = s[n]
    BY <2>2 DEF UpTo
  <2>9. s[n] \in Values
    BY <1>1, <2>2
  <2>10. b[n] # 0 => w[n] = b[n]
    BY <1>2, <2>2, <2>8
  <2> HIDE DEF q, w
  <2>11. w \in Fill(n + 1, f[n], b)
    <3> DEFINE m == n + 1
    <3>1. m - 1 = n
      BY <2>2
    <3> HIDE DEF m
    <3>2. w = [q EXCEPT ![m - 1] = s[n]]
      BY <2>5, <3>1
    <3>3. NoRepeat(w) /\ (b[m - 1] # 0 => w[m - 1] = b[m - 1])
      BY <2>7, <2>10, <3>1
    <3>4. w \in Fill(m, f[n], b)
      <4> DEFINE e(r, v) == [r EXCEPT ![m - 1] = v]
                 A == {e(r, v) : r \in f[n], v \in Values}
                 a == s[n]
      <4>1. q \in f[n] /\ a \in Values /\ w = e(q, a)
        BY <2>4, <2>9, <3>2
      <4> HIDE DEF e, a
      <4>2. w \in A
        BY <4>1
      <4> HIDE DEF A
      <4>3. w \in {x \in A : NoRepeat(x) /\ (b[m - 1] # 0 => x[m - 1] = b[m - 1])}
        BY <3>3, <4>2
      <4>4. QED
        BY <4>3 DEF Fill, A, e
    <3>5. QED
      BY <3>4 DEF m
  <2>12. QED
    BY <2>3, <2>11
<1> HIDE DEF S
<1>5. Nat \subseteq S
  BY <1>3, <1>4, SetInduction
<1>6. UpTo(b, s, kCells) \in f[kCells]
  BY <1>0, <1>5 DEF S
<1>7. UpTo(b, s, kCells) = s
  BY <1>0, <1>1 DEF UpTo
<1>8. QED
  BY <1>6, <1>7

\* The boards that the reference fills are the completions.
LEMMA SolutionsAre ==
  ASSUME NEW b, IsBoard(b)
  PROVE  \A s : s \in Solutions(b) <=> Solution(b, s)
<1>1. b \in [Cells -> Int]
  BY DEF IsBoard
<1>2. PICK f : FilledBy(f, b)
  BY <1>1, FillRecursion
<1>3. Solutions(b) = f[kCells]
  BY <1>2 DEF FilledBy
<1>4. ASSUME NEW s, s \in Solutions(b) PROVE Solution(b, s)
  <2>1. FilledTo(b, kCells, s)
    BY <1>1, <1>2, <1>3, <1>4, FillOnly
  <2>2. kCells # 0 /\ \A i \in Cells : i < kCells
    BY Sizes DEF Cells
  <2>3. NoRepeat(s) /\ \A i \in Cells : s[i] \in Values /\ (b[i] # 0 => s[i] = b[i])
    BY <2>1, <2>2 DEF FilledTo
  <2>4. s \in [Cells -> Values]
    BY <2>1, <2>3 DEF FilledTo
  <2>5. QED
    BY <2>3, <2>4 DEF Solution, Completes
<1>5. ASSUME NEW s, Solution(b, s) PROVE s \in Solutions(b)
  BY <1>2, <1>3, <1>5, FillAll
<1>6. QED
  BY <1>4, <1>5
-----------------------------------------------------------------------------
(* The invariant of the answer, and the theorems.                          *)

\* A board that was written is a solution, and every solution is ahead.
AnswerInv ==
  /\ pc = "solved" => Completes(board, puzzle)
  /\ Valid(puzzle) => \A s : Solution(puzzle, s) => Pending(puzzle, s, frames, pc)

\* The search begins with every solution ahead of it.
LEMMA AnswerInit == SolverInit => AnswerInv
<1> SUFFICES ASSUME SolverInit PROVE AnswerInv
  OBVIOUS
<1>1. frames = <<>> /\ pc # "solved"
      /\ (Valid(puzzle) => pc = "call")
  BY DEF SolverInit
<1>2. ASSUME Valid(puzzle), NEW s PROVE Pending(puzzle, s, frames, pc)
  BY <1>1, <1>2 DEF Pending
<1>3. QED
  BY <1>1, <1>2 DEF AnswerInv

\* What a step of the search leaves of the solutions ahead.
LEMMA StepPending ==
  ASSUME SolverInv, Valid(puzzle), NEW u, State(u, frames, pc, dl, puzzle),
         NEW s, Solution(puzzle, s), Pending(puzzle, s, frames, pc),
         Solved \/ Choose \/ TryRow \/ TakeBack \/ GiveUp
  PROVE  Pending(puzzle, s, frames', pc')
<1> DEFINE n == Len(frames)
           E == [col : 1..Nd(puzzle), row : 1..Nd(puzzle)]
           e == frames[n]
<1>1. n \in Nat /\ frames \in Seq(E)
  <2>1. Stands(u[Len(frames)], frames, dl, puzzle)
    BY StateFacts
  <2>2. QED
    BY <2>1 DEF Stands
<1>2. pc \in {"next", "return"} => n # 0
  BY DEF SolverInv, SolverType
<1>3. n # 0 => e \in E /\ Top = e
  <2>1. n # 0 => n \in 1..n
    BY <1>1
  <2> HIDE DEF E
  <2>2. QED
    BY <1>1, <2>1, ElementOfSeq DEF Top, Last
<1> HIDE DEF E
<1>4. CASE Choose
  <2> DEFINE c == GetMinColumn(dl)
             f == [col |-> c, row |-> c]
  <2>1. /\ pc = "call" /\ dl.left[1] # 1 /\ pc' = "next" /\ frames' = Append(frames, f)
    BY <1>4 DEF Choose
  <2>2. State(u, frames, "call", dl, puzzle)
    BY <2>1
  <2>3. c \in 2..Hd(puzzle)
    BY <2>1, <2>2, ChooseKeeps
  <2> HIDE DEF c
  <2>4. Pending(puzzle, s, frames, "call")
    BY <2>1
  <2>5. Pending(puzzle, s, Append(frames, f), "next")
    BY <1>1, <2>3, <2>4, ChoosePending
  <2>6. QED
    BY <2>1, <2>5
<1>5. CASE TryRow
  <2> DEFINE r == dl.down[e.row]
  <2>1. pc = "next" /\ n # 0 /\ Top = e /\ e \in E
    BY <1>2, <1>3, <1>5 DEF TryRow
  <2>2. r # e.col /\ pc' = "call" /\ frames' = [frames EXCEPT ![n].row = r]
    BY <1>5, <2>1 DEF TryRow, NextRow
  <2>3. State(u, frames, "next", dl, puzzle) /\ Pending(puzzle, s, frames, "next")
    BY <2>1
  <2>4. r \in (Hd(puzzle) + 1)..Nd(puzzle)
    <3> DEFINE f == [col |-> e.col, row |-> r]
               g == SubSeq(frames, 1, n - 1)
    <3>1. State(u, frames, "next", dl, puzzle)
      BY <2>3
    <3>2. /\ \E v : State(v, Append(g, f), "call",
                          Run("cover", dl, Along(dl.col, Others(dl.right, r))), puzzle)
          /\ r \in (Hd(puzzle) + 1)..Nd(puzzle)
      BY <2>1, <2>2, <3>1, TryKeeps
    <3>3. QED
      BY <3>2
  <2>5. r \in Int
    BY <2>4
  <2> DEFINE gr == frames'
  <2>6. Len(gr) = n /\ (\A j \in 1..(n - 1) : gr[j] = frames[j])
        /\ gr[n].col = e.col /\ gr[n].row = r
    <3>1. DOMAIN frames = 1..n /\ n \in 1..n
      BY <1>1, <2>1
    <3>2. gr = [frames EXCEPT ![n] = [e EXCEPT !.row = r]]
      BY <2>2
    <3>3. Len(gr) = n
      BY <1>1, <3>2
    <3>4. gr[n] = [e EXCEPT !.row = r]
      BY <3>1, <3>2
    <3>5. \A j \in 1..(n - 1) : gr[j] = frames[j]
      BY <1>1, <3>1, <3>2
    <3>6. gr[n].col = e.col /\ gr[n].row = r
      BY <2>1, <3>4 DEF E
    <3>7. QED
      BY <3>3, <3>5, <3>6
  <2>7. Pending(puzzle, s, gr, "call")
    <3> HIDE DEF gr
    <3>1. QED
      BY <1>1, <2>1, <2>3, <2>5, <2>6, TryPending
  <2>8. QED
    BY <2>2, <2>7
<1>6. CASE TakeBack
  <2>1. pc = "return" /\ frames' = frames /\ pc' = "next"
    BY <1>6 DEF TakeBack
  <2>2. QED
    BY <2>1 DEF Pending
<1>7. CASE GiveUp
  <2>1. pc = "next" /\ n # 0 /\ Top = e
    BY <1>2, <1>3, <1>7 DEF GiveUp
  <2>2. /\ dl.down[e.row] = e.col /\ frames' = SubSeq(frames, 1, n - 1)
        /\ pc' = IF n = 1 THEN "failed" ELSE "return"
    BY <1>7, <2>1 DEF GiveUp, NextRow, Front
  <2>3. State(u, frames, "next", dl, puzzle) /\ Pending(puzzle, s, frames, "next")
    BY <2>1
  <2> DEFINE gr == SubSeq(frames, 1, n - 1)
  <2>4. Len(gr) = n - 1 /\ \A j \in 1..(n - 1) : gr[j] = frames[j]
    <3>1. DOMAIN frames = 1..n
      BY <1>1
    <3>2. QED
      BY <1>1, <2>1, <3>1
  <2> HIDE DEF gr
  <2>5. n # 1 /\ Pending(puzzle, s, gr, "return")
    BY <1>1, <2>1, <2>2, <2>3, <2>4, GiveUpPending
  <2>6. QED
    BY <2>2, <2>5 DEF gr
<1>8. CASE Solved
  <2>1. pc = "call" /\ frames' = frames /\ pc' = "solved"
    BY <1>8 DEF Solved
  <2>2. QED
    BY <2>1 DEF Pending
<1>9. QED
  BY <1>4, <1>5, <1>6, <1>7, <1>8

\* The invariant of the answer holds after each step.
LEMMA AnswerStep == SolverInv /\ AnswerInv /\ [SolverNext]_solverVars => AnswerInv'
<1> SUFFICES ASSUME SolverInv, AnswerInv, [SolverNext]_solverVars PROVE AnswerInv'
  OBVIOUS
<1>1. CASE UNCHANGED solverVars
  <2>1. puzzle' = puzzle /\ board' = board /\ frames' = frames /\ pc' = pc
    BY <1>1 DEF solverVars
  <2>2. QED
    BY <2>1 DEF AnswerInv, Valid
<1>2. CASE SolverNext /\ ~UNCHANGED solverVars
  <2>1. Solved \/ Choose \/ TryRow \/ TakeBack \/ GiveUp
    BY <1>2 DEF SolverNext, Done
  <2>2. puzzle' = puzzle /\ pc # "failed"
    BY <2>1 DEF Solved, Choose, TryRow, TakeBack, GiveUp
  <2>3. Valid(puzzle)
    BY <2>2 DEF SolverInv, SolverType
  <2>4. PICK u : State(u, frames, pc, dl, puzzle)
    BY <2>3 DEF SolverInv
  <2>5. ASSUME NEW s, Solution(puzzle, s) PROVE Pending(puzzle, s, frames', pc')
    <3>1. Pending(puzzle, s, frames, pc)
      BY <2>3, <2>5 DEF AnswerInv
    <3>2. QED
      BY <2>1, <2>3, <2>4, <2>5, <3>1, StepPending
  <2>6. pc' = "solved" => Completes(board', puzzle)
    <3>1. CASE Solved
      BY <3>1, SolvedRight
    <3>2. CASE Choose \/ TryRow \/ TakeBack \/ GiveUp
      BY <3>2 DEF Choose, TryRow, TakeBack, GiveUp
    <3>3. QED
      BY <2>1, <3>1, <3>2
  <2>7. QED
    BY <2>2, <2>5, <2>6 DEF AnswerInv
<1>3. QED
  BY <1>1, <1>2

\* It says that the answer is right.
LEMMA AnswersRight == SolverInv /\ AnswerInv => AnswerIsRight
<1> SUFFICES ASSUME SolverInv, AnswerInv PROVE AnswerIsRight
  OBVIOUS
<1>1. ASSUME pc = "failed", Valid(puzzle) PROVE Solutions(puzzle) = {}
  <2>1. IsBoard(puzzle)
    BY <1>1, PuzzleAssumption DEF IsBoard, SolverInv, SolverType
  <2>2. ASSUME NEW s \in Solutions(puzzle) PROVE FALSE
    <3>1. Solution(puzzle, s)
      BY <2>1, SolutionsAre
    <3>2. Pending(puzzle, s, frames, pc)
      BY <1>1, <3>1 DEF AnswerInv
    <3>3. QED
      BY <1>1, <3>2 DEF Pending
  <2>3. QED
    BY <2>2
<1>2. QED
  BY <1>1 DEF AnswerInv, AnswerIsRight

\* The reference that the answer is compared with is the set of completions:
\* the boards that keep every given, fill every cell, and repeat no value in
\* a row, column or box.
THEOREM ReferenceIsCompletions ==
  ASSUME NEW b \in [Cells -> Int], Valid(b)
  PROVE  Solutions(b) = {s \in [Cells -> Values] : Completes(s, b)}
<1>1. IsBoard(b)
  BY DEF IsBoard
<1>2. \A s : s \in Solutions(b) <=> Solution(b, s)
  BY <1>1, SolutionsAre
<1>3. QED
  BY <1>1, <1>2 DEF Solution

\* Whatever solve() has covered, uncovering it latest first gives back the
\* matrix of the constructor, with every link and size: cover and uncover are
\* exact opposites at every point of every search.
THEOREM SearchLeavesNoTrace == SolverSpec => []LinksCanBeRestored
<1>1. SolverInv => LinksCanBeRestored
  BY LinksBack
<1>2. QED
  BY <1>1, SolverInvariant, PTL

\* In every column that get_min_column can look at, the count is the number
\* of rows, and the links up and down, left and right, agree.
THEOREM SizesAreRight == SolverSpec => []ColumnsConsistent
<1>1. SolverInv => ColumnsConsistent
  BY ColumnsRight
<1>2. QED
  BY <1>1, SolverInvariant, PTL

\* Every step of solve() goes forward in the tree of choices: it tries no row
\* twice, although it reads the next one from links it keeps rewriting.
THEOREM SearchGoesForward == SolverSpec => SearchAdvances
<1>1. SolverInv /\ [SolverNext]_solverVars => [Later(Position, Position')]_solverVars
  BY Forward
<1>2. QED
  BY <1>1, SolverInvariant, PTL DEF SolverSpec, SearchAdvances

\* When solve() returns true the board is a solution of the puzzle, and when
\* it returns false the puzzle has none.
THEOREM SolverAnswers == SolverSpec => []AnswerIsRight
<1>1. SolverInit => AnswerInv
  BY AnswerInit
<1>2. SolverInv /\ AnswerInv /\ [SolverNext]_solverVars => AnswerInv'
  BY AnswerStep
<1>3. SolverInv /\ AnswerInv => AnswerIsRight
  BY AnswersRight
<1>4. QED
  BY <1>1, <1>2, <1>3, SolverInvariant, PTL DEF SolverSpec

\* The assertions of the constructor never fail and its arrays are never left,
\* for any givens: the nodes fit nodes_, each column is appended once, a row
\* is linked only into columns that exist, and every name is an index of
\* columns_, which has 400.
THEOREM AssertionsHold ==
  ASSUME NEW b
  PROVE  /\ DOMAIN Matrix(b).name = 1..Nd(b) /\ Nd(b) <= kMaxNodes
         /\ \A i, j \in 1..Len(ColumnNames(b)) :
              ColumnNames(b)[i] = ColumnNames(b)[j] => i = j
         /\ \A o : IsIn(o, Options(b)) =>
              \A t \in 1..4 : IsIn(Crosses(o)[t], ColumnNames(b))
         /\ \A n : IsIn(n, ColumnNames(b)) => n \in 0..399
<1>1. DOMAIN Matrix(b).name = 1..Nd(b)
  <2>1. Matrix(b).name = [n \in 1..Nd(b) |-> NameOf(b, n)]
    BY MatrixGood
  <2>2. QED
    BY <2>1
<1>2. Nd(b) <= kMaxNodes
  <2>1. Nd(b) \in Nat /\ Nd(b) < End /\ kMaxNodes \in Int
    BY NodesFit, Sizes
  <2>2. QED
    BY <2>1 DEF End
<1>3. \A i, j \in 1..Len(ColumnNames(b)) : ColumnNames(b)[i] = ColumnNames(b)[j] => i = j
  BY NamesDistinct DEF Distinct
<1>4. ASSUME NEW o, IsIn(o, Options(b)), NEW t \in 1..4
      PROVE  IsIn(Crosses(o)[t], ColumnNames(b))
  <2>1. PICK r : IsRow(b, r) /\ OptOf(b, r) = o
    BY <1>4, OptionHasRow
  <2>2. PICK c \in 2..Hd(b) : ColumnNames(b)[c - 1] = Crosses(o)[t]
    BY <2>1, CrossesAreColumns
  <2>3. c - 1 \in 1..Len(ColumnNames(b))
    BY ColumnFacts DEF Hd
  <2>4. QED
    BY <2>2, <2>3 DEF IsIn
<1>5. ASSUME NEW n, IsIn(n, ColumnNames(b)) PROVE n \in 0..399
  <2>1. CASE n \in Empty(b)
    <3>1. n \in Cells
      BY <2>1 DEF Empty
    <3>2. n \in 0..80
      BY <3>1, CellFacts
    <3>3. QED
      BY <3>2
  <2>2. CASE n \in Lacks(b)
    <3>1. PICK t \in 2..4, x \in Lanes, v \in Values : n = UnitName(t, x, v)
      BY <2>2, LacksAre
    <3>2. x \in 0..8 /\ v \in 1..9
      BY LaneFacts
    <3>3. QED
      BY <3>1, <3>2 DEF UnitName
  <2>3. QED
    BY <1>5, <2>1, <2>2, ColumnFacts
<1>6. QED
  BY <1>1, <1>2, <1>3, <1>4, <1>5

\* A frame covers four columns, or one while it has no row.
LEMMA TakenLength ==
  ASSUME NEW e, NEW p, NEW col, NEW h
  PROVE  Len(TakenBy(e, p, col, h)) = IF p = "next" THEN 1 ELSE 4
<1>1. CASE p = "next"
  <2>1. TakenBy(e, p, col, h) = <<e.col>>
    BY <1>1 DEF TakenBy
  <2>2. QED
    BY <1>1, <2>1
<1>2. CASE p # "next"
  <2> DEFINE x == e.col
             y == col[RowAt(h, e.row, 1)]
             z == col[RowAt(h, e.row, 2)]
             w == col[RowAt(h, e.row, 3)]
  <2>1. TakenBy(e, p, col, h) = <<x>> \o <<y, z, w>>
    BY <1>2 DEF TakenBy, ColsOf
  <2> HIDE DEF x, y, z, w
  <2>2. <<x>> \o <<y, z, w>> = <<x, y, z, w>>
    BY OneAndThree
  <2>3. QED
    BY <1>2, <2>1, <2>2
<1>3. QED
  BY <1>1, <1>2

\* The trail behind k frames that have their rows is four columns for each.
LEMMA TrailLength ==
  ASSUME NEW u, NEW fr, NEW p, NEW col, NEW h, NEW N, Search(u, fr, p, col, h, N)
  PROVE  \A k \in 0..Len(fr) :
           Len(u[k]) = IF k = Len(fr) /\ k # 0 /\ p = "next" THEN 4 * k - 3 ELSE 4 * k
<1> DEFINE n == Len(fr)
           Right(k) == Len(u[k]) = IF k = n /\ k # 0 /\ p = "next" THEN 4 * k - 3
                                   ELSE 4 * k
           S == {k \in Nat : k <= n => Right(k)}
<1>1. /\ n \in Nat /\ u[0] = <<>>
      /\ \A k \in 1..n : u[k] = u[k - 1] \o Taken(fr, p, col, h, k)
  BY TrailOf
<1>2. /\ \A k \in 0..n : u[k] \in Seq(2..h)
      /\ \A k \in 1..n : /\ FrameFits(fr[k], Mode(fr, p, k), col, h, N, u[k - 1])
                         /\ Distinct(u[k - 1])
      /\ Shape(col, h, N)
  <2>1. \A k \in 1..n : k - 1 \in 0..n
    BY <1>1
  <2>2. QED
    BY <2>1 DEF Search
<1> HIDE DEF n
<1>3. 0 \in S
  <2>1. Right(0)
    BY <1>1
  <2>2. QED
    BY <2>1
<1>4. ASSUME NEW k \in Nat, k \in S PROVE k + 1 \in S
  <2>1. SUFFICES ASSUME k + 1 <= n PROVE Right(k + 1)
    OBVIOUS
  <2> DEFINE j == k + 1
             t == Taken(fr, p, col, h, j)
  <2>2. j \in 1..n /\ k \in 0..n /\ k <= n /\ k # n /\ j - 1 = k
    BY <1>1, <2>1
  <2>3. Len(u[k]) = 4 * k
    BY <1>4, <2>2
  <2>4. t = TakenBy(fr[j], Mode(fr, p, j), col, h)
    BY DEF Taken
  <2>5. t \in Seq(2..h)
    BY <1>2, <2>2, <2>4, FrameCovers
  <2>6. Len(t) = IF Mode(fr, p, j) = "next" THEN 1 ELSE 4
    <3> HIDE DEF t, j
    <3>1. QED
      BY <2>4, TakenLength, Zenon
  <2>7. Mode(fr, p, j) = "next" <=> j = n /\ p = "next"
    BY DEF Mode, n
  <2>8. Len(u[j]) = Len(u[k]) + Len(t)
    <3>1. u[j] = u[k] \o t /\ u[k] \in Seq(2..h)
      BY <1>1, <1>2, <2>2
    <3> HIDE DEF t, j
    <3>2. QED
      BY <2>5, <3>1, ConcatProperties
  <2> HIDE DEF t
  <2>9. QED
    BY <2>2, <2>3, <2>6, <2>7, <2>8
<1>5. Nat \subseteq S
  <2> HIDE DEF S
  <2>1. QED
    BY <1>3, <1>4, SetInduction
<1>6. QED
  BY <1>1, <1>5 DEF n

\* Elements that are all different are no more than there are.
LEMMA DistinctLength ==
  ASSUME NEW h \in Nat, NEW s \in Seq(2..h), Distinct(s), h >= 1
  PROVE  Len(s) <= h - 1
<1>1. Len(s) \in Nat /\ s \in [1..Len(s) -> 2..h]
  BY LenProperties
<1>2. s \in Injection(1..Len(s), 2..h)
  BY <1>1 DEF Distinct, Injection, IsInjective
<1>3. IsFiniteSet(2..h) /\ Cardinality(2..h) = h - 1
  BY FS_Interval
<1>4. Cardinality(1..Len(s)) <= Cardinality(2..h)
  BY <1>2, <1>3, FS_Injection
<1>5. Cardinality(1..Len(s)) = Len(s)
  BY <1>1, InitialSegment
<1>6. QED
  BY <1>3, <1>4, <1>5

\* The calls of solve() are never nested deeper than there are cells, so the
\* room reserved for stack_ is enough, and their nodes are those of nodes_:
\* the positions are finitely many, and a search that goes forward ends.
THEOREM SearchIsBounded ==
  SolverSpec => [](Valid(puzzle) =>
                     /\ frames \in Seq([col : 1..kMaxNodes, row : 1..kMaxNodes])
                     /\ Len(frames) <= kCells)
<1> DEFINE Bounded == Valid(puzzle) =>
                        /\ frames \in Seq([col : 1..kMaxNodes, row : 1..kMaxNodes])
                        /\ Len(frames) <= kCells
<1>1. SolverInv => Bounded
  <2> SUFFICES ASSUME SolverInv, Valid(puzzle)
               PROVE  /\ frames \in Seq([col : 1..kMaxNodes, row : 1..kMaxNodes])
                      /\ Len(frames) <= kCells
    OBVIOUS
  <2> DEFINE h == Hd(puzzle)
             N == Nd(puzzle)
             n == Len(frames)
  <2>1. PICK u : State(u, frames, pc, dl, puzzle)
    BY DEF SolverInv
  <2>2. Search(u, frames, pc, Homes(puzzle), h, N)
    BY <2>1 DEF State
  <2>3. /\ frames \in Seq([col : 1..N, row : 1..N]) /\ n \in Nat
        /\ u[n] \in Seq(2..h) /\ Distinct(u[n])
    <3>1. n \in Nat
      BY <2>2, TrailOf
    <3>2. n \in 0..n
      BY <3>1
    <3>3. QED
      BY <2>2, <3>1, <3>2 DEF Search
  <2>4. N \in Nat /\ N <= kMaxNodes /\ kMaxNodes \in Nat
    <3>1. N \in Nat /\ N < End /\ kMaxNodes \in Int
      BY NodesFit, Sizes
    <3>2. QED
      BY <3>1 DEF End
  <2>5. h \in Nat /\ h >= 1 /\ h - 1 <= 4 * kCells
    <3>1. AllNames \in Seq(Int) /\ Len(AllNames) = 4 * kCells
      BY AllNamesType
    <3>2. Len(Kept(AllNames, Empty(puzzle) \cup Lacks(puzzle))) <= Len(AllNames)
      BY <3>1, KeptShorter
    <3>3. Len(ColumnNames(puzzle)) \in Nat /\ Len(ColumnNames(puzzle)) <= 4 * kCells
      BY <3>1, <3>2, ColumnFacts DEF ColumnNames
    <3>4. QED
      BY <3>3, Sizes DEF Hd
  <2>6. Len(u[n]) = 4 * n - 3 \/ Len(u[n]) = 4 * n
    <3>1. n \in 0..n
      BY <2>3
    <3>2. QED
      BY <2>2, <3>1, TrailLength
  <2> HIDE DEF h, N, n
  <2>7. Len(u[n]) <= h - 1
    BY <2>3, <2>5, DistinctLength
  <2>8. n <= kCells
    <3>1. kCells \in Nat /\ Len(u[n]) \in Int
      BY <2>3, Sizes, LenProperties
    <3>2. QED
      BY <2>3, <2>5, <2>6, <2>7, <3>1
  <2>9. frames \in Seq([col : 1..kMaxNodes, row : 1..kMaxNodes])
    <3>1. 1..N \subseteq 1..kMaxNodes
      BY <2>4
    <3>2. [col : 1..N, row : 1..N] \subseteq [col : 1..kMaxNodes, row : 1..kMaxNodes]
      BY <3>1
    <3>3. \A E, F : E \subseteq F => Seq(E) \subseteq Seq(F)
      OBVIOUS
    <3>4. QED
      BY <2>3, <3>2, <3>3, Zenon
  <2>10. QED
    BY <2>8, <2>9 DEF n
<1>2. QED
  BY <1>1, SolverInvariant, PTL
=============================================================================
