----------------------------- MODULE SharedLemmas -----------------------------
(***************************************************************************)
(* Lemmas that several proofs need: induction in a form the provers can    *)
(* use, what the operators on sequences yield, and what the operators on   *)
(* connections return, for any set of units.                               *)
(***************************************************************************)
EXTENDS MuduoConn, ListOps, SequenceTheorems, WellFoundedInduction, TLAPS

\* Induction over the naturals, for a set instead of a predicate.
LEMMA SetInduction ==
  ASSUME NEW S, 0 \in S, \A n \in Nat : n \in S => n + 1 \in S
  PROVE  Nat \subseteq S
<1> SUFFICES ASSUME Nat \ S # {} PROVE FALSE
  OBVIOUS
<1>1. IsWellFoundedOn(OpToRel(<, Nat), Nat)
  BY NatLessThanWellFounded
<1>2. PICK x \in Nat \ S : \A y \in Nat \ S : ~(<<y, x>> \in OpToRel(<, Nat))
  BY <1>1, WFMin, Zenon
<1>3. x # 0 /\ x \in Nat
  OBVIOUS
<1>4. x - 1 \in Nat /\ x - 1 < x
  BY <1>3
<1>5. <<x - 1, x>> \in OpToRel(<, Nat)
  BY <1>3, <1>4 DEF OpToRel
<1>6. x - 1 \in S
  BY <1>2, <1>4, <1>5
<1>7. QED
  BY <1>3, <1>4, <1>6

\* A set of naturals has a least element.
LEMMA LeastExists ==
  ASSUME NEW S, S \subseteq Nat, S # {}
  PROVE  \E x \in S : \A y \in S : x <= y
<1>1. IsWellFoundedOn(OpToRel(<, Nat), Nat)
  BY NatLessThanWellFounded
<1>2. PICK x \in S : \A y \in S : ~(<<y, x>> \in OpToRel(<, Nat))
  BY <1>1, WFMin, Zenon
<1>3. ASSUME NEW y \in S PROVE x <= y
  <2>1. ~(y < x)
    BY <1>2 DEF OpToRel
  <2>2. QED
    BY <2>1
<1>4. QED
  BY <1>3

\* Induction over sequences, likewise.
LEMMA SeqSetInduction ==
  ASSUME NEW E, NEW S, <<>> \in S,
         \A s \in Seq(E) : \A e \in E : s \in S => Append(s, e) \in S
  PROVE  Seq(E) \subseteq S
<1> DEFINE L == {n \in Nat : \A s \in Seq(E) : Len(s) = n => s \in S}
<1>1. 0 \in L
  BY EmptySeq
<1>2. ASSUME NEW n \in Nat, n \in L PROVE n + 1 \in L
  <2>1. ASSUME NEW s \in Seq(E), Len(s) = n + 1 PROVE s \in S
    <3>1. PICK t \in Seq(E), e \in E : s = Append(t, e)
      BY <2>1, SequenceEmptyOrAppend, LenProperties
    <3>2. Len(t) = n
      BY <2>1, <3>1, AppendProperties, LenProperties
    <3>3. t \in S
      BY <1>2, <3>2
    <3>4. QED
      BY <3>1, <3>3
  <2>2. QED
    BY <2>1
<1> HIDE DEF L
<1>3. Nat \subseteq L
  BY <1>1, <1>2, SetInduction
<1>4. QED
  BY <1>3, LenProperties DEF L

\* f is defined from one number to the next by the function F.
StepsBy(f, X, base, N, F) ==
  /\ f \in [0..N -> X] /\ f[0] = base
  /\ \A k \in 1..N : f[k] = F[<<k, f[k - 1]>>]

\* There is such a function.
LEMMA RecursionExists ==
  ASSUME NEW X, NEW base \in X, NEW N \in Nat, NEW F \in [(1..N) \X X -> X]
  PROVE  \E f : StepsBy(f, X, base, N, F)
<1> DEFINE Good(n, f) == /\ f \in [0..n -> X] /\ f[0] = base
                         /\ \A k \in 1..n : f[k] = F[<<k, f[k - 1]>>]
           S == {n \in Nat : n <= N => \E f \in [0..n -> X] : Good(n, f)}
<1>1. 0 \in S
  <2>1. Good(0, [k \in 0..0 |-> base])
    OBVIOUS
  <2>2. QED
    BY <2>1
<1>2. ASSUME NEW n \in Nat, n \in S, n + 1 <= N PROVE \E f \in [0..(n + 1) -> X] : Good(n + 1, f)
  <2>1. PICK f \in [0..n -> X] : Good(n, f)
    BY <1>2
  <2> DEFINE g == [k \in 0..(n + 1) |-> IF k = n + 1 THEN F[<<n + 1, f[n]>>] ELSE f[k]]
  <2>2. f[n] \in X /\ n + 1 \in 1..N
    BY <1>2
  <2>3. F[<<n + 1, f[n]>>] \in X
    BY <2>2
  <2>4. g \in [0..(n + 1) -> X]
    BY <2>3
  <2>5. g[0] = base
    BY <2>1
  <2>6. ASSUME NEW k \in 1..(n + 1) PROVE g[k] = F[<<k, g[k - 1]>>]
    <3>1. CASE k = n + 1
      <4>1. k - 1 = n /\ n \in 0..(n + 1) /\ n # n + 1
        BY <3>1
      <4>2. g[k - 1] = f[n]
        BY <4>1
      <4>3. g[k] = F[<<n + 1, f[n]>>]
        BY <3>1
      <4>4. QED
        BY <3>1, <4>2, <4>3, Zenon
    <3>2. CASE k # n + 1
      BY <2>1, <3>2
    <3>3. QED
      BY <3>1, <3>2
  <2> HIDE DEF g
  <2>7. QED
    BY <2>4, <2>5, <2>6
<1>3. N \in S
  <2>1. \A n \in Nat : n \in S => n + 1 \in S
    BY <1>2
  <2> HIDE DEF S
  <2>2. QED
    BY <1>1, <2>1, SetInduction
<1>4. PICK f \in [0..N -> X] : Good(N, f)
  BY <1>3
<1>5. StepsBy(f, X, base, N, F)
  BY <1>4 DEF StepsBy
<1>6. QED
  BY <1>5

\* Functions that begin alike and go on alike end alike.
LEMMA SameSteps ==
  ASSUME NEW N \in Nat, NEW f, NEW g, f[0] = g[0],
         \A n \in Nat : n < N /\ f[n] = g[n] => f[n + 1] = g[n + 1]
  PROVE  f[N] = g[N]
<1> DEFINE S == {n \in Nat : n <= N => f[n] = g[n]}
<1>1. 0 \in S
  OBVIOUS
<1>2. ASSUME NEW n \in Nat, n \in S PROVE n + 1 \in S
  BY <1>2
<1> HIDE DEF S
<1>3. Nat \subseteq S
  BY <1>1, <1>2, SetInduction
<1>4. QED
  BY <1>3 DEF S

-----------------------------------------------------------------------------
(* Kept.                                                                   *)

\* The recursion by which Kept is defined.
KeptRec(f, s, T) ==
  f = [k \in 0..Len(s) |->
         IF k = 0 THEN <<>>
         ELSE IF s[k] \in T THEN Append(f[k - 1], s[k]) ELSE f[k - 1]]

\* It yields sequences, and in the end what is kept of s.
KeptBy(f, E, s, T) ==
  /\ f \in [0..Len(s) -> Seq(E)]
  /\ KeptRec(f, s, T)
  /\ Kept(s, T) = f[Len(s)]

\* There is such a function.
LEMMA KeptRecursion ==
  ASSUME NEW E, NEW T, NEW s \in Seq(E)
  PROVE  \E f : KeptBy(f, E, s, T)
<1> DEFINE N == Len(s)
           F == [kx \in (1..N) \X Seq(E) |->
                   IF s[kx[1]] \in T THEN Append(kx[2], s[kx[1]]) ELSE kx[2]]
           f == CHOOSE f : KeptRec(f, s, T)
<1>1. N \in Nat /\ \A k \in 1..N : s[k] \in E
  BY LenProperties
<1>2. F \in [(1..N) \X Seq(E) -> Seq(E)]
  <2>1. ASSUME NEW kx \in (1..N) \X Seq(E)
        PROVE  (IF s[kx[1]] \in T THEN Append(kx[2], s[kx[1]]) ELSE kx[2]) \in Seq(E)
    <3>1. kx[1] \in 1..N /\ kx[2] \in Seq(E)
      OBVIOUS
    <3>2. Append(kx[2], s[kx[1]]) \in Seq(E)
      BY <1>1, <3>1, AppendProperties
    <3>3. QED
      BY <3>1, <3>2
  <2>2. QED
    BY <2>1
<1>3. <<>> \in Seq(E)
  BY EmptySeq
<1>4. ASSUME NEW k \in 1..N, NEW q \in Seq(E)
      PROVE  F[<<k, q>>] = IF s[k] \in T THEN Append(q, s[k]) ELSE q
  BY <1>4
<1> HIDE DEF F, N
<1>5. PICK g : StepsBy(g, Seq(E), <<>>, N, F)
  BY <1>1, <1>2, <1>3, RecursionExists, Zenon
<1>6. ASSUME NEW k \in 0..N, k # 0
      PROVE  F[<<k, g[k - 1]>>] = IF s[k] \in T THEN Append(g[k - 1], s[k]) ELSE g[k - 1]
  <2>1. k \in 1..N /\ g[k - 1] \in Seq(E)
    BY <1>1, <1>5, <1>6 DEF StepsBy
  <2>2. QED
    BY <1>4, <2>1
<1>7. KeptRec(g, s, T)
  <2>1. ASSUME NEW k \in 0..N
        PROVE  g[k] = IF k = 0 THEN <<>>
                      ELSE IF s[k] \in T THEN Append(g[k - 1], s[k]) ELSE g[k - 1]
    <3>1. k # 0 => k \in 1..N
      BY <1>1
    <3>2. QED
      BY <1>5, <1>6, <3>1 DEF StepsBy
  <2>2. QED
    BY <1>5, <2>1 DEF KeptRec, N, StepsBy
<1>8. KeptRec(f, s, T)
  BY <1>7
<1>9. Kept(s, T) = f[N]
  BY DEF Kept, KeptRec, N
<1> HIDE DEF f
<1>10. f[0] = <<>>
  BY <1>1, <1>8 DEF KeptRec, N
<1>11. ASSUME NEW k \in 1..N
       PROVE  f[k] = IF s[k] \in T THEN Append(f[k - 1], s[k]) ELSE f[k - 1]
  <2>1. k \in 0..N /\ k # 0
    BY <1>1
  <2>2. QED
    BY <1>8, <2>1, Zenon DEF KeptRec, N
<1> DEFINE S == {n \in Nat : n <= N => f[n] \in Seq(E)}
<1>12. 0 \in S
  BY <1>3, <1>10
<1>13. ASSUME NEW n \in Nat, n \in S PROVE n + 1 \in S
  <2>1. ASSUME n + 1 <= N PROVE f[n + 1] \in Seq(E)
    <3>1. f[n] \in Seq(E) /\ n + 1 \in 1..N /\ s[n + 1] \in E /\ (n + 1) - 1 = n
      BY <1>1, <1>13, <2>1
    <3>2. f[n + 1] = IF s[n + 1] \in T THEN Append(f[n], s[n + 1]) ELSE f[n]
      BY <1>11, <3>1
    <3>3. QED
      BY <3>1, <3>2, AppendProperties
  <2>2. QED
    BY <2>1
<1> HIDE DEF S
<1>14. Nat \subseteq S
  BY <1>12, <1>13, SetInduction
<1>15. ASSUME NEW k \in 0..N PROVE f[k] \in Seq(E)
  BY <1>1, <1>14 DEF S
<1>16. DOMAIN f = 0..N /\ f = [k \in 0..N |-> f[k]]
  BY <1>8 DEF KeptRec, N
<1>17. f \in [0..N -> Seq(E)]
  BY <1>15, <1>16
<1>18. KeptBy(f, E, s, T)
  BY <1>8, <1>9, <1>17 DEF N, KeptBy
<1>19. QED
  BY <1>18

\* Nothing of nothing.
LEMMA KeptEmpty == ASSUME NEW T PROVE Kept(<<>>, T) = <<>>
<1>1. <<>> \in Seq({}) /\ Len(<<>>) = 0
  BY EmptySeq
<1>2. ASSUME NEW s \in Seq({}), s = <<>> PROVE Kept(s, T) = <<>>
  <2>1. PICK f : KeptBy(f, {}, s, T)
    BY KeptRecursion, Zenon
  <2>2. f[0] = <<>> /\ Len(s) = 0
    BY <1>1, <1>2, <2>1 DEF KeptRec, KeptBy
  <2>3. QED
    BY <2>1, <2>2 DEF KeptBy
<1>4. QED
  BY <1>1, <1>2

LEMMA KeptType ==
  ASSUME NEW E, NEW T, NEW s \in Seq(E)
  PROVE  Kept(s, T) \in Seq(E)
<1>1. PICK f : KeptBy(f, E, s, T)
  BY KeptRecursion, Zenon
<1>2. Len(s) \in 0..Len(s)
  BY LenProperties
<1>3. QED
  BY <1>1, <1>2 DEF KeptBy

\* One more element is kept if it is in the set.
LEMMA KeptAppend ==
  ASSUME NEW E, NEW T, NEW s \in Seq(E), NEW e \in E
  PROVE  Kept(Append(s, e), T) = IF e \in T THEN Append(Kept(s, T), e) ELSE Kept(s, T)
<1> DEFINE a == Append(s, e)
           N == Len(s)
<1>1. /\ a \in Seq(E) /\ Len(a) = N + 1 /\ N \in Nat /\ a[N + 1] = e
      /\ \A k \in 1..N : a[k] = s[k]
  BY AppendProperties, LenProperties
<1> HIDE DEF a
<1>2. PICK f : KeptBy(f, E, s, T)
  BY KeptRecursion, Zenon
<1>3. PICK g : KeptBy(g, E, a, T)
  BY <1>1, KeptRecursion, Zenon
<1> HIDE DEF N
<1>4. f[0] = <<>> /\ g[0] = <<>>
  <2>1. 0 \in 0..Len(s) /\ 0 \in 0..Len(a)
    BY <1>1 DEF N
  <2>2. QED
    BY <1>2, <1>3, <2>1, Zenon DEF KeptRec, KeptBy
<1>5. ASSUME NEW k \in 1..N
      PROVE  f[k] = IF s[k] \in T THEN Append(f[k - 1], s[k]) ELSE f[k - 1]
  <2>1. k \in 0..Len(s) /\ k # 0
    BY <1>1 DEF N
  <2>2. QED
    BY <1>2, <2>1, Zenon DEF KeptRec, KeptBy
<1>6. ASSUME NEW k \in 1..(N + 1)
      PROVE  g[k] = IF a[k] \in T THEN Append(g[k - 1], a[k]) ELSE g[k - 1]
  <2>1. k \in 0..Len(a) /\ k # 0
    BY <1>1
  <2>2. QED
    BY <1>3, <2>1, Zenon DEF KeptRec, KeptBy
<1>7. ASSUME NEW n \in Nat, n < N, f[n] = g[n] PROVE f[n + 1] = g[n + 1]
  <2>1. /\ n + 1 \in 1..N /\ n + 1 \in 1..(N + 1) /\ (n + 1) - 1 = n
    BY <1>1, <1>7
  <2>2. a[n + 1] = s[n + 1]
    BY <1>1, <2>1
  <2>3. f[n + 1] = IF s[n + 1] \in T THEN Append(f[n], s[n + 1]) ELSE f[n]
    BY <1>5, <2>1, Zenon
  <2>4. g[n + 1] = IF a[n + 1] \in T THEN Append(g[n], a[n + 1]) ELSE g[n]
    BY <1>6, <2>1, Zenon
  <2>5. QED
    BY <1>7, <2>2, <2>3, <2>4
<1>10. f[N] = g[N]
  <2>1. f[0] = g[0] /\ N \in Nat
    BY <1>1, <1>4
  <2>2. QED
    BY <1>7, <2>1, SameSteps, Zenon
<1>11. N + 1 \in 1..(N + 1) /\ (N + 1) - 1 = N
  BY <1>1
<1>12. g[N + 1] = IF e \in T THEN Append(g[N], e) ELSE g[N]
  BY <1>1, <1>6, <1>11
<1>13. Kept(a, T) = g[N + 1] /\ Kept(s, T) = f[N]
  BY <1>1, <1>2, <1>3 DEF N, KeptBy
<1>14. QED
  BY <1>10, <1>12, <1>13 DEF a

\* Appending to the second part.
LEMMA ConcatAppend ==
  ASSUME NEW E, NEW s \in Seq(E), NEW t \in Seq(E), NEW e \in E
  PROVE  s \o Append(t, e) = Append(s \o t, e)
<1>1. s \o t \in Seq(E) /\ <<e>> \in Seq(E)
  BY ConcatProperties
<1>2. Append(t, e) = t \o <<e>> /\ Append(s \o t, e) = (s \o t) \o <<e>>
  BY <1>1, AppendIsConcat
<1>3. QED
  BY <1>1, <1>2, ConcatAssociative

\* Keeping goes through a concatenation.
LEMMA KeptConcat ==
  ASSUME NEW E, NEW T, NEW s \in Seq(E), NEW t \in Seq(E)
  PROVE  Kept(s \o t, T) = Kept(s, T) \o Kept(t, T)
<1> DEFINE S == {q \in Seq(E) : Kept(s \o q, T) = Kept(s, T) \o Kept(q, T)}
<1>1. Kept(s, T) \in Seq(E)
  BY KeptType
<1>2. <<>> \in S
  <2>1. s \o <<>> = s /\ Kept(s, T) \o <<>> = Kept(s, T) /\ <<>> \in Seq(E)
    BY <1>1, ConcatEmptySeq, EmptySeq
  <2>2. QED
    BY <2>1, KeptEmpty
<1>3. ASSUME NEW q \in Seq(E), NEW e \in E, q \in S PROVE Append(q, e) \in S
  <2>1. /\ s \o q \in Seq(E) /\ Kept(q, T) \in Seq(E) /\ Append(q, e) \in Seq(E)
        /\ Kept(s \o q, T) = Kept(s, T) \o Kept(q, T)
    BY <1>3, ConcatProperties, KeptType, AppendProperties
  <2>2. s \o Append(q, e) = Append(s \o q, e)
    BY <2>1, ConcatAppend
  <2>3. Kept(Append(s \o q, e), T) =
          IF e \in T THEN Append(Kept(s \o q, T), e) ELSE Kept(s \o q, T)
    <3>1. ASSUME NEW w \in Seq(E)
          PROVE  Kept(Append(w, e), T) =
                   IF e \in T THEN Append(Kept(w, T), e) ELSE Kept(w, T)
      BY KeptAppend
    <3>2. QED
      BY <2>1, <3>1, Zenon
  <2>4. Kept(Append(q, e), T) = IF e \in T THEN Append(Kept(q, T), e) ELSE Kept(q, T)
    BY KeptAppend
  <2>5. ASSUME NEW u \in Seq(E), NEW v \in Seq(E)
        PROVE  u \o Append(v, e) = Append(u \o v, e)
    BY ConcatAppend
  <2>6. Append(Kept(s, T) \o Kept(q, T), e) = Kept(s, T) \o Append(Kept(q, T), e)
    BY <1>1, <2>1, <2>5, Zenon
  <2>7. Kept(s \o Append(q, e), T) = Kept(s, T) \o Kept(Append(q, e), T)
    BY <2>1, <2>2, <2>3, <2>4, <2>6, Zenon
  <2>8. QED
    BY <2>1, <2>7
<1> HIDE DEF S
<1>4. Seq(E) \subseteq S
  BY <1>2, <1>3, SeqSetInduction
<1>5. QED
  BY <1>4 DEF S

\* All is kept, or nothing.
LEMMA KeptAllOrNone ==
  ASSUME NEW E, NEW T, NEW s \in Seq(E)
  PROVE  /\ (\A i \in 1..Len(s) : s[i] \in T) => Kept(s, T) = s
         /\ (\A i \in 1..Len(s) : s[i] \notin T) => Kept(s, T) = <<>>
<1> DEFINE All(q) == \A i \in 1..Len(q) : q[i] \in T
           None(q) == \A i \in 1..Len(q) : q[i] \notin T
           S == {q \in Seq(E) : /\ All(q) => Kept(q, T) = q
                                /\ None(q) => Kept(q, T) = <<>>}
<1>1. <<>> \in S
  BY EmptySeq, KeptEmpty
<1>2. ASSUME NEW q \in Seq(E), NEW e \in E, q \in S PROVE Append(q, e) \in S
  <2> DEFINE a == Append(q, e)
  <2>1. /\ a \in Seq(E) /\ Len(a) = Len(q) + 1 /\ Len(q) \in Nat
        /\ \A i \in 1..Len(q) : a[i] = q[i]
        /\ a[Len(q) + 1] = e
    BY AppendProperties, LenProperties
  <2>2. Kept(a, T) = IF e \in T THEN Append(Kept(q, T), e) ELSE Kept(q, T)
    BY KeptAppend
  <2> HIDE DEF a
  <2>3. All(a) => All(q) /\ e \in T
    <3>1. ASSUME All(a), NEW i \in 1..Len(q) PROVE q[i] \in T
      <4>1. i \in 1..Len(a) /\ a[i] = q[i]
        BY <2>1
      <4>2. QED
        BY <3>1, <4>1
    <3>2. All(a) => a[Len(q) + 1] \in T
      BY <2>1
    <3>3. QED
      BY <2>1, <3>1, <3>2
  <2>4. None(a) => None(q) /\ e \notin T
    <3>1. ASSUME None(a), NEW i \in 1..Len(q) PROVE q[i] \notin T
      <4>1. i \in 1..Len(a) /\ a[i] = q[i]
        BY <2>1
      <4>2. QED
        BY <3>1, <4>1
    <3>2. None(a) => a[Len(q) + 1] \notin T
      BY <2>1
    <3>3. QED
      BY <2>1, <3>1, <3>2
  <2>5. All(a) => Kept(a, T) = a
    BY <1>2, <2>2, <2>3, Zenon DEF a
  <2>6. None(a) => Kept(a, T) = <<>>
    BY <1>2, <2>2, <2>4, Zenon
  <2>7. a \in S
    BY <2>1, <2>5, <2>6
  <2>8. QED
    BY <2>7 DEF a
<1> HIDE DEF S
<1>3. Seq(E) \subseteq S
  BY <1>1, <1>2, SeqSetInduction
<1>4. QED
  BY <1>3 DEF S

\* x is in s.
IsIn(x, s) == \E i \in 1..Len(s) : s[i] = x

LEMMA InAppend ==
  ASSUME NEW E, NEW s \in Seq(E), NEW e \in E, NEW x
  PROVE  IsIn(x, Append(s, e)) <=> x = e \/ IsIn(x, s)
<1> DEFINE a == Append(s, e)
<1>1. /\ Len(a) = Len(s) + 1 /\ Len(s) \in Nat
      /\ \A i \in 1..Len(s) : a[i] = s[i]
      /\ a[Len(s) + 1] = e
  BY AppendProperties, LenProperties
<1> HIDE DEF a
<1>2. IsIn(x, a) <=> x = e \/ IsIn(x, s)
  <2>1. ASSUME NEW i \in 1..Len(a) PROVE i = Len(s) + 1 \/ i \in 1..Len(s)
    BY <1>1
  <2>2. ASSUME NEW i \in 1..Len(s) PROVE i \in 1..Len(a)
    BY <1>1
  <2>3. Len(s) + 1 \in 1..Len(a)
    BY <1>1
  <2>4. QED
    BY <1>1, <2>1, <2>2, <2>3 DEF IsIn
<1>3. QED
  BY <1>2 DEF a

\* What is kept of s is what s and the set have in common.
LEMMA KeptIn ==
  ASSUME NEW E, NEW T, NEW s \in Seq(E), NEW x
  PROVE  IsIn(x, Kept(s, T)) <=> IsIn(x, s) /\ x \in T
<1> DEFINE S == {q \in Seq(E) : IsIn(x, Kept(q, T)) <=> IsIn(x, q) /\ x \in T}
<1>1. <<>> \in S
  BY EmptySeq, KeptEmpty DEF IsIn
<1>2. ASSUME NEW q \in Seq(E), NEW e \in E, q \in S PROVE Append(q, e) \in S
  <2>1. /\ Append(q, e) \in Seq(E) /\ Kept(q, T) \in Seq(E)
        /\ IsIn(x, Kept(q, T)) <=> IsIn(x, q) /\ x \in T
    BY <1>2, AppendProperties, KeptType
  <2>2. Kept(Append(q, e), T) = IF e \in T THEN Append(Kept(q, T), e) ELSE Kept(q, T)
    BY KeptAppend
  <2>3. IsIn(x, Append(q, e)) <=> x = e \/ IsIn(x, q)
    BY InAppend
  <2>4. IsIn(x, Append(Kept(q, T), e)) <=> x = e \/ IsIn(x, Kept(q, T))
    BY <2>1, InAppend
  <2>5. IsIn(x, Kept(Append(q, e), T)) <=> IsIn(x, Append(q, e)) /\ x \in T
    BY <2>1, <2>2, <2>3, <2>4, Zenon
  <2>6. QED
    BY <2>1, <2>5
<1> HIDE DEF S
<1>3. Seq(E) \subseteq S
  BY <1>1, <1>2, SeqSetInduction
<1>4. QED
  BY <1>3 DEF S

\* Nothing is in s twice.
Distinct(s) == \A i, j \in 1..Len(s) : s[i] = s[j] => i = j

LEMMA DistinctAppend ==
  ASSUME NEW E, NEW s \in Seq(E), NEW e \in E
  PROVE  Distinct(Append(s, e)) <=> Distinct(s) /\ ~IsIn(e, s)
<1> DEFINE a == Append(s, e)
<1>1. /\ Len(a) = Len(s) + 1 /\ Len(s) \in Nat
      /\ \A i \in 1..Len(s) : a[i] = s[i]
      /\ a[Len(s) + 1] = e
  BY AppendProperties, LenProperties
<1> HIDE DEF a
<1>2. ASSUME NEW i \in 1..Len(a) PROVE i = Len(s) + 1 \/ i \in 1..Len(s)
  BY <1>1
<1>3. ASSUME NEW i \in 1..Len(s) PROVE i \in 1..Len(a) /\ i # Len(s) + 1
  BY <1>1
<1>4. Len(s) + 1 \in 1..Len(a)
  BY <1>1
<1>5. Distinct(a) => Distinct(s) /\ ~IsIn(e, s)
  BY <1>1, <1>3, <1>4 DEF Distinct, IsIn
<1>6. Distinct(s) /\ ~IsIn(e, s) => Distinct(a)
  BY <1>1, <1>2 DEF Distinct, IsIn
<1>7. QED
  BY <1>5, <1>6 DEF a

\* Keeping repeats nothing.
LEMMA KeptDistinct ==
  ASSUME NEW E, NEW T, NEW s \in Seq(E), Distinct(s)
  PROVE  Distinct(Kept(s, T))
<1> DEFINE S == {q \in Seq(E) : Distinct(q) => Distinct(Kept(q, T))}
<1>1. <<>> \in S
  BY EmptySeq, KeptEmpty
<1>2. ASSUME NEW q \in Seq(E), NEW e \in E, q \in S PROVE Append(q, e) \in S
  <2>1. /\ Append(q, e) \in Seq(E) /\ Kept(q, T) \in Seq(E)
        /\ Distinct(q) => Distinct(Kept(q, T))
    BY <1>2, AppendProperties, KeptType
  <2>2. Kept(Append(q, e), T) = IF e \in T THEN Append(Kept(q, T), e) ELSE Kept(q, T)
    BY KeptAppend
  <2>3. Distinct(Append(q, e)) <=> Distinct(q) /\ ~IsIn(e, q)
    BY DistinctAppend
  <2>4. Distinct(Append(Kept(q, T), e)) <=> Distinct(Kept(q, T)) /\ ~IsIn(e, Kept(q, T))
    BY <2>1, DistinctAppend
  <2>5. IsIn(e, Kept(q, T)) => IsIn(e, q)
    BY KeptIn
  <2>6. Distinct(Append(q, e)) => Distinct(Kept(Append(q, e), T))
    BY <2>1, <2>2, <2>3, <2>4, <2>5, Zenon
  <2>7. QED
    BY <2>1, <2>6
<1> HIDE DEF S
<1>3. Seq(E) \subseteq S
  BY <1>1, <1>2, SeqSetInduction
<1>4. QED
  BY <1>3 DEF S

\* Two sets that agree on the elements of s keep the same of it.
Agree(s, T, U) == \A x : IsIn(x, s) => (x \in T <=> x \in U)

LEMMA KeptAgree ==
  ASSUME NEW E, NEW T, NEW U, NEW s \in Seq(E), Agree(s, T, U)
  PROVE  Kept(s, T) = Kept(s, U)
<1> DEFINE S == {q \in Seq(E) : Agree(q, T, U) => Kept(q, T) = Kept(q, U)}
<1>1. <<>> \in S
  BY EmptySeq, KeptEmpty
<1>2. ASSUME NEW q \in Seq(E), NEW e \in E, q \in S PROVE Append(q, e) \in S
  <2>1. Append(q, e) \in Seq(E)
    BY AppendProperties
  <2>2. ASSUME Agree(Append(q, e), T, U) PROVE Kept(Append(q, e), T) = Kept(Append(q, e), U)
    <3>1. \A x : IsIn(x, Append(q, e)) <=> x = e \/ IsIn(x, q)
      BY InAppend
    <3>2. Agree(q, T, U) /\ (e \in T <=> e \in U)
      BY <2>2, <3>1, Zenon DEF Agree
    <3>3. Kept(q, T) = Kept(q, U)
      BY <1>2, <3>2
    <3>4. /\ Kept(Append(q, e), T) = IF e \in T THEN Append(Kept(q, T), e) ELSE Kept(q, T)
          /\ Kept(Append(q, e), U) = IF e \in U THEN Append(Kept(q, U), e) ELSE Kept(q, U)
      BY KeptAppend
    <3>5. QED
      BY <3>2, <3>3, <3>4
  <2>3. QED
    BY <2>1, <2>2
<1> HIDE DEF S
<1>3. Seq(E) \subseteq S
  BY <1>1, <1>2, SeqSetInduction
<1>4. QED
  BY <1>3 DEF S

\* The rest of a sequence, and one sequence behind another.
LEMMA TailIn ==
  ASSUME NEW E, NEW s \in Seq(E), s # <<>>
  PROVE  /\ Tail(s) \in Seq(E) /\ Head(s) \in E /\ IsIn(Head(s), s)
         /\ Len(s) \in Nat /\ Len(s) >= 1 /\ Len(Tail(s)) = Len(s) - 1
         /\ \A x : IsIn(x, s) <=> x = Head(s) \/ IsIn(x, Tail(s))
         /\ Distinct(s) => Distinct(Tail(s)) /\ ~IsIn(Head(s), Tail(s))
<1> DEFINE t == Tail(s)
           N == Len(s)
<1>1. /\ t \in Seq(E) /\ Head(s) \in E /\ N \in Nat /\ N # 0 /\ Len(t) = N - 1
      /\ \A i \in 1..(N - 1) : t[i] = s[i + 1]
  BY HeadTailProperties, LenProperties, EmptySeq
<1>2. Head(s) = s[1]
  BY <1>1
<1> HIDE DEF t
<1>3. IsIn(Head(s), s)
  BY <1>1, <1>2 DEF IsIn
<1>4. ASSUME NEW x, IsIn(x, t) PROVE IsIn(x, s)
  <2>1. PICK i \in 1..(N - 1) : t[i] = x
    BY <1>1, <1>4 DEF IsIn
  <2>2. i + 1 \in 1..N /\ s[i + 1] = x
    BY <1>1, <2>1
  <2>3. QED
    BY <2>2 DEF IsIn
<1>5. ASSUME NEW x, IsIn(x, s), x # Head(s) PROVE IsIn(x, t)
  <2>1. PICK i \in 1..N : s[i] = x
    BY <1>5 DEF IsIn
  <2>2. i - 1 \in 1..(N - 1) /\ (i - 1) + 1 = i
    BY <1>1, <1>2, <1>5, <2>1
  <2>3. t[i - 1] = x
    BY <1>1, <2>1, <2>2
  <2>4. QED
    BY <1>1, <2>2, <2>3 DEF IsIn
<1>6. ASSUME Distinct(s) PROVE Distinct(t) /\ ~IsIn(Head(s), t)
  <2>1. ASSUME NEW i \in 1..(N - 1), NEW j \in 1..(N - 1), t[i] = t[j] PROVE i = j
    <3>1. i + 1 \in 1..N /\ j + 1 \in 1..N /\ s[i + 1] = s[j + 1]
      BY <1>1, <2>1
    <3>2. i + 1 = j + 1
      BY <1>6, <3>1 DEF Distinct
    <3>3. QED
      BY <3>2
  <2>2. ASSUME NEW i \in 1..(N - 1), t[i] = Head(s) PROVE FALSE
    <3>1. i + 1 \in 1..N /\ 1 \in 1..N /\ s[i + 1] = s[1] /\ i + 1 # 1
      BY <1>1, <1>2, <2>2
    <3>2. QED
      BY <1>6, <3>1 DEF Distinct
  <2>3. QED
    BY <1>1, <2>1, <2>2 DEF Distinct, IsIn
<1>7. QED
  BY <1>1, <1>3, <1>4, <1>5, <1>6 DEF t

LEMMA ConcatIn ==
  ASSUME NEW E, NEW s \in Seq(E), NEW t \in Seq(E)
  PROVE  /\ s \o t \in Seq(E)
         /\ \A x : IsIn(x, s \o t) <=> IsIn(x, s) \/ IsIn(x, t)
         /\ Distinct(s) /\ Distinct(t) /\ (\A x : ~(IsIn(x, s) /\ IsIn(x, t)))
              => Distinct(s \o t)
<1> DEFINE r == s \o t
           N == Len(s)
           M == Len(t)
<1>1. /\ r \in Seq(E) /\ N \in Nat /\ M \in Nat /\ Len(r) = N + M
      /\ \A i \in 1..(N + M) : r[i] = IF i <= N THEN s[i] ELSE t[i - N]
  BY ConcatProperties, LenProperties
<1> HIDE DEF r
<1>2. ASSUME NEW i \in 1..(N + M)
      PROVE  \/ i \in 1..N /\ r[i] = s[i]
             \/ i > N /\ i - N \in 1..M /\ r[i] = t[i - N]
  BY <1>1
<1>3. ASSUME NEW x, IsIn(x, r) PROVE IsIn(x, s) \/ IsIn(x, t)
  BY <1>1, <1>2, <1>3 DEF IsIn
<1>4. ASSUME NEW x, IsIn(x, s) PROVE IsIn(x, r)
  <2>1. PICK i \in 1..N : s[i] = x
    BY <1>4 DEF IsIn
  <2>2. i \in 1..(N + M) /\ r[i] = x
    BY <1>1, <2>1
  <2>3. QED
    BY <1>1, <2>2 DEF IsIn
<1>5. ASSUME NEW x, IsIn(x, t) PROVE IsIn(x, r)
  <2>1. PICK i \in 1..M : t[i] = x
    BY <1>5 DEF IsIn
  <2>2. N + i \in 1..(N + M) /\ ~(N + i <= N) /\ (N + i) - N = i
    BY <1>1
  <2>3. r[N + i] = x
    BY <1>1, <2>1, <2>2
  <2>4. QED
    BY <1>1, <2>2, <2>3 DEF IsIn
<1>6. ASSUME Distinct(s), Distinct(t), \A x : ~(IsIn(x, s) /\ IsIn(x, t)) PROVE Distinct(r)
  <2>1. ASSUME NEW i \in 1..(N + M), NEW j \in 1..(N + M), r[i] = r[j] PROVE i = j
    <3>1. CASE i \in 1..N /\ j \in 1..N
      BY <1>1, <1>2, <1>6, <2>1, <3>1 DEF Distinct
    <3>2. CASE i > N /\ j > N
      <4>1. i - N \in 1..M /\ j - N \in 1..M /\ t[i - N] = t[j - N]
        BY <1>1, <2>1, <3>2
      <4>2. i - N = j - N
        BY <1>6, <4>1 DEF Distinct
      <4>3. QED
        BY <1>1, <4>2
    <3>3. ASSUME NEW k \in 1..N, NEW l \in 1..(N + M), l > N, r[k] = r[l] PROVE FALSE
      <4>1. k \in 1..(N + M) /\ r[k] = s[k] /\ l - N \in 1..M /\ r[l] = t[l - N]
        BY <1>1, <3>3
      <4>2. IsIn(r[k], s) /\ IsIn(r[k], t)
        BY <3>3, <4>1 DEF IsIn
      <4>3. QED
        BY <1>6, <4>2
    <3>4. QED
      BY <1>1, <1>2, <2>1, <3>1, <3>2, <3>3
  <2>2. QED
    BY <1>1, <2>1 DEF Distinct
<1>7. QED
  BY <1>1, <1>3, <1>4, <1>5, <1>6 DEF r

-----------------------------------------------------------------------------
(* AddUp.                                                                  *)

\* The recursion by which AddUp is defined, and what it yields.
AddUpRec(f, s) ==
  f = [k \in 0..Len(s) |-> IF k = 0 THEN 0 ELSE f[k - 1] + s[k]]

AddUpBy(f, s) ==
  /\ f \in [0..Len(s) -> Nat]
  /\ AddUpRec(f, s)
  /\ AddUp(s) = f[Len(s)]

LEMMA AddUpRecursion ==
  ASSUME NEW s \in Seq(Nat)
  PROVE  \E f : AddUpBy(f, s)
<1> DEFINE N == Len(s)
           F == [kx \in (1..N) \X Nat |-> kx[2] + s[kx[1]]]
           f == CHOOSE f : AddUpRec(f, s)
<1>1. N \in Nat /\ \A k \in 1..N : s[k] \in Nat
  BY LenProperties
<1>2. F \in [(1..N) \X Nat -> Nat]
  BY <1>1
<1>3. ASSUME NEW k \in 1..N, NEW q \in Nat PROVE F[<<k, q>>] = q + s[k]
  BY <1>3
<1> HIDE DEF F, N
<1>4. PICK g : StepsBy(g, Nat, 0, N, F)
  BY <1>1, <1>2, RecursionExists, Zenon
<1>5. AddUpRec(g, s)
  <2>1. ASSUME NEW k \in 0..N PROVE g[k] = IF k = 0 THEN 0 ELSE g[k - 1] + s[k]
    <3>1. k # 0 => k \in 1..N /\ g[k - 1] \in Nat
      BY <1>1, <1>4 DEF StepsBy
    <3>2. k # 0 => g[k] = F[<<k, g[k - 1]>>]
      BY <1>4, <3>1 DEF StepsBy
    <3>3. k # 0 => F[<<k, g[k - 1]>>] = g[k - 1] + s[k]
      BY <1>3, <3>1
    <3>4. QED
      BY <1>4, <3>2, <3>3 DEF StepsBy
  <2>2. QED
    BY <1>4, <2>1 DEF AddUpRec, N, StepsBy
<1>6. AddUpRec(f, s)
  BY <1>5
<1>7. AddUp(s) = f[N]
  BY DEF AddUp, AddUpRec, N
<1> HIDE DEF f
<1>8. f[0] = 0
  BY <1>1, <1>6 DEF AddUpRec, N
<1>9. ASSUME NEW k \in 1..N PROVE f[k] = f[k - 1] + s[k]
  <2>1. k \in 0..N /\ k # 0
    BY <1>1
  <2>2. QED
    BY <1>6, <2>1, Zenon DEF AddUpRec, N
<1> DEFINE S == {n \in Nat : n <= N => f[n] \in Nat}
<1>10. 0 \in S
  BY <1>8
<1>11. ASSUME NEW n \in Nat, n \in S PROVE n + 1 \in S
  <2>1. ASSUME n + 1 <= N PROVE f[n + 1] \in Nat
    <3>1. f[n] \in Nat /\ n + 1 \in 1..N /\ s[n + 1] \in Nat /\ (n + 1) - 1 = n
      BY <1>1, <1>11, <2>1
    <3>2. f[n + 1] = f[n] + s[n + 1]
      BY <1>9, <3>1
    <3>3. QED
      BY <3>1, <3>2
  <2>2. QED
    BY <2>1
<1> HIDE DEF S
<1>12. Nat \subseteq S
  BY <1>10, <1>11, SetInduction
<1>13. ASSUME NEW k \in 0..N PROVE f[k] \in Nat
  BY <1>1, <1>12 DEF S
<1>14. DOMAIN f = 0..N /\ f = [k \in 0..N |-> f[k]]
  BY <1>6 DEF AddUpRec, N
<1>15. f \in [0..N -> Nat]
  BY <1>13, <1>14
<1>16. AddUpBy(f, s)
  BY <1>6, <1>7, <1>15 DEF N, AddUpBy
<1>17. QED
  BY <1>16

LEMMA AddUpEmpty == AddUp(<<>>) = 0
<1>1. <<>> \in Seq(Nat) /\ Len(<<>>) = 0
  BY EmptySeq
<1>2. ASSUME NEW s \in Seq(Nat), s = <<>> PROVE AddUp(s) = 0
  <2>1. PICK f : AddUpBy(f, s)
    BY AddUpRecursion, Zenon
  <2>2. f[0] = 0 /\ Len(s) = 0
    BY <1>1, <1>2, <2>1 DEF AddUpRec, AddUpBy
  <2>3. QED
    BY <2>1, <2>2 DEF AddUpBy
<1>3. QED
  BY <1>1, <1>2

LEMMA AddUpType == ASSUME NEW s \in Seq(Nat) PROVE AddUp(s) \in Nat
<1>1. PICK f : AddUpBy(f, s)
  BY AddUpRecursion, Zenon
<1>2. Len(s) \in 0..Len(s)
  BY LenProperties
<1>3. QED
  BY <1>1, <1>2 DEF AddUpBy

\* One more element adds itself.
LEMMA AddUpAppend ==
  ASSUME NEW s \in Seq(Nat), NEW e \in Nat
  PROVE  AddUp(Append(s, e)) = AddUp(s) + e
<1> DEFINE a == Append(s, e)
           N == Len(s)
<1>1. /\ a \in Seq(Nat) /\ Len(a) = N + 1 /\ N \in Nat /\ a[N + 1] = e
      /\ \A k \in 1..N : a[k] = s[k]
  BY AppendProperties, LenProperties
<1> HIDE DEF a
<1>2. PICK f : AddUpBy(f, s)
  BY AddUpRecursion, Zenon
<1>3. PICK g : AddUpBy(g, a)
  BY <1>1, AddUpRecursion, Zenon
<1> HIDE DEF N
<1>4. f[0] = 0 /\ g[0] = 0
  <2>1. 0 \in 0..Len(s) /\ 0 \in 0..Len(a)
    BY <1>1 DEF N
  <2>2. QED
    BY <1>2, <1>3, <2>1, Zenon DEF AddUpRec, AddUpBy
<1>5. ASSUME NEW k \in 1..N PROVE f[k] = f[k - 1] + s[k]
  <2>1. k \in 0..Len(s) /\ k # 0
    BY <1>1 DEF N
  <2>2. QED
    BY <1>2, <2>1, Zenon DEF AddUpRec, AddUpBy
<1>6. ASSUME NEW k \in 1..(N + 1) PROVE g[k] = g[k - 1] + a[k]
  <2>1. k \in 0..Len(a) /\ k # 0
    BY <1>1
  <2>2. QED
    BY <1>3, <2>1, Zenon DEF AddUpRec, AddUpBy
<1>7. ASSUME NEW n \in Nat, n < N, f[n] = g[n] PROVE f[n + 1] = g[n + 1]
  <2>1. /\ n + 1 \in 1..N /\ n + 1 \in 1..(N + 1) /\ (n + 1) - 1 = n
    BY <1>1, <1>7
  <2>2. a[n + 1] = s[n + 1]
    BY <1>1, <2>1
  <2>3. f[n + 1] = f[n] + s[n + 1] /\ g[n + 1] = g[n] + a[n + 1]
    BY <1>5, <1>6, <2>1
  <2>4. QED
    BY <1>7, <2>2, <2>3
<1>8. f[N] = g[N]
  <2>1. f[0] = g[0] /\ N \in Nat
    BY <1>1, <1>4
  <2>2. QED
    BY <1>7, <2>1, SameSteps, Zenon
<1>9. N + 1 \in 1..(N + 1) /\ (N + 1) - 1 = N
  BY <1>1
<1>10. g[N + 1] = g[N] + e
  BY <1>1, <1>6, <1>9
<1>11. AddUp(a) = g[N + 1] /\ AddUp(s) = f[N]
  BY <1>1, <1>2, <1>3 DEF N, AddUpBy
<1>12. QED
  BY <1>8, <1>10, <1>11 DEF a
-----------------------------------------------------------------------------
(* Connections.                                                            *)

\* A write splits the data between the socket and the buffer and touches
\* nothing else.
LEMMA WriteType ==
  ASSUME NEW Unit, NEW k \in Connection(Unit), NEW data \in Seq(Unit),
         NEW n \in 0..Len(data)
  PROVE  /\ Write(k, data, n) \in Connection(Unit)
         /\ Write(k, data, n).state = k.state
         /\ Write(k, data, n).fin = k.fin
<1>1. SubSeq(data, 1, n) \in Seq(Unit)
  BY SubSeqProperties
<1>2. SubSeq(data, n + 1, Len(data)) \in Seq(Unit)
  BY SubSeqProperties
<1>3. k.wire \o SubSeq(data, 1, n) \in Seq(Unit)
  BY <1>1, ConcatProperties DEF Connection
<1>4. QED
  BY <1>2, <1>3 DEF Write, Connection

\* sendInLoop() never moves the connection to another state.
LEMMA SendInLoopType ==
  ASSUME NEW Unit, NEW k \in Connection(Unit), NEW data \in Seq(Unit),
         NEW peerGone, NEW o \in SendInLoop(k, data, peerGone)
  PROVE  /\ o.conn \in Connection(Unit)
         /\ o.conn.state = k.state
         /\ o.conn.fin = k.fin
<1>1. CASE o.conn = k
  BY <1>1
<1>2. CASE o.conn = [k EXCEPT !.out = @ \o data]
  <2>1. k.out \o data \in Seq(Unit)
    BY ConcatProperties DEF Connection
  <2>2. QED
    BY <1>2, <2>1 DEF Connection
<1>3. CASE \E n \in 0..Len(data) : o.conn = Write(k, data, n)
  BY <1>3, WriteType
<1>4. \/ o = Outcome(k, FALSE)
      \/ o = Outcome([k EXCEPT !.out = @ \o data], FALSE)
      \/ \E n \in 0..Len(data) : o = Outcome(Write(k, data, n), n = Len(data))
  BY Zenon DEF SendInLoop
<1>5. ASSUME NEW r, NEW done, o = Outcome(r, done) PROVE o.conn = r
  BY <1>5 DEF Outcome
<1>6. CASE o = Outcome(k, FALSE)
  BY <1>1, <1>5, <1>6
<1>7. CASE o = Outcome([k EXCEPT !.out = @ \o data], FALSE)
  <2>1. o.conn = [k EXCEPT !.out = @ \o data]
    BY <1>5, <1>7
  <2>2. QED
    BY <1>2, <2>1, Zenon
<1>8. ASSUME NEW n \in 0..Len(data),
             o = Outcome(Write(k, data, n), n = Len(data))
      PROVE  \E m \in 0..Len(data) : o.conn = Write(k, data, m)
  BY <1>5, <1>8
<1>9. QED
  BY <1>3, <1>4, <1>6, <1>7, <1>8, Zenon

\* send() never moves the connection to another state.
LEMMA SendType ==
  ASSUME NEW Unit, NEW k \in Connection(Unit), NEW data \in Seq(Unit),
         NEW peerGone, NEW o \in Send(k, data, peerGone)
  PROVE  /\ o.conn \in Connection(Unit)
         /\ o.conn.state = k.state
         /\ o.conn.fin = k.fin
<1>1. CASE k.state = "kConnected"
  BY <1>1, SendInLoopType DEF Send
<1>2. CASE k.state # "kConnected"
  BY <1>2 DEF Send, Outcome
<1>3. QED
  BY <1>1, <1>2

\* shutdown() moves a connected connection to kDisconnecting, no other.
LEMMA ShutdownType ==
  ASSUME NEW Unit, NEW k \in Connection(Unit)
  PROVE  /\ Shutdown(k) \in Connection(Unit)
         /\ k.state = "kConnected" => Shutdown(k).state = "kDisconnecting"
         /\ k.state # "kConnected" => Shutdown(k) = k
BY DEF Shutdown, ShutdownInLoop, Writing, Connection, ConnState

\* handleWrite() never moves the connection to another state.
LEMMA HandleWriteType ==
  ASSUME NEW Unit, NEW k \in Connection(Unit), NEW o \in HandleWrite(k)
  PROVE  /\ o.conn \in Connection(Unit)
         /\ o.conn.state = k.state
<1>1. k.state # "kDisconnected"
  BY DEF HandleWrite
<1>2. PICK n \in 1..Len(k.out) :
        o.conn = IF n = Len(k.out) /\ k.state = "kDisconnecting"
                 THEN ShutdownInLoop(Write(k, k.out, n)) ELSE Write(k, k.out, n)
  BY <1>1 DEF HandleWrite, Outcome
<1>3. k.out \in Seq(Unit) /\ n \in 0..Len(k.out)
  BY DEF Connection
<1>4. /\ Write(k, k.out, n) \in Connection(Unit)
      /\ Write(k, k.out, n).state = k.state
  BY <1>3, WriteType
<1>5. QED
  BY <1>2, <1>4 DEF ShutdownInLoop, Connection
-----------------------------------------------------------------------------
(* What becomes of the data.                                               *)

\* All that the connection was given and has not dropped.
Total(k) == k.wire \o k.out

\* The write side is shut only over an empty buffer.
Drained(k) == k.fin => k.out = <<>>

\* A write changes where the data is, not what it is.
LEMMA WriteTotal ==
  ASSUME NEW Unit, NEW k \in Connection(Unit), NEW data \in Seq(Unit),
         NEW n \in 0..Len(data)
  PROVE  Total(Write(k, data, n)) = k.wire \o data
<1> DEFINE a == SubSeq(data, 1, n)
           b == SubSeq(data, n + 1, Len(data))
<1>1. a \in Seq(Unit) /\ b \in Seq(Unit) /\ k.wire \in Seq(Unit)
  BY SubSeqProperties DEF Connection
<1>2. a \o b = data
  <2>1. SubSeq(data, 1, n) \o SubSeq(data, n + 1, Len(data)) = SubSeq(data, 1, Len(data))
    <3>1. /\ 1 \in 1..Len(data) + 1 /\ n \in (1 - 1)..Len(data)
          /\ Len(data) \in n..Len(data)
      BY LenProperties
    <3>2. QED
      BY <3>1, ConcatAdjacentSubSeq
  <2>2. QED
    BY <2>1, SubSeqFull
<1>3. Write(k, data, n).wire = k.wire \o a /\ Write(k, data, n).out = b
  BY DEF Write, Connection
<1> HIDE DEF a, b
<1>4. ASSUME NEW w, w = k.wire
      PROVE  (w \o a) \o b = w \o (a \o b)
  <2>1. w \in Seq(Unit)
    BY <1>1, <1>4
  <2>2. QED
    BY <1>1, <2>1, ConcatAssociative, SMTT(30)
<1>5. QED
  BY <1>2, <1>3, <1>4, Zenon DEF Total

\* What a connected client's connection is given to send is not lost.
LEMMA SendTotal ==
  ASSUME NEW Unit, NEW k \in Connection(Unit), NEW data \in Seq(Unit),
         k.state = "kConnected", ~k.fin, NEW peerGone, ~peerGone,
         NEW o \in Send(k, data, peerGone)
  PROVE  Total(o.conn) = Total(k) \o data
<1>1. /\ k.wire \in Seq(Unit) /\ k.out \in Seq(Unit)
      /\ o \in SendInLoop(k, data, peerGone)
  BY DEF Send, Connection
<1>2. CASE k.out # <<>>
  <2>1. o = Outcome([k EXCEPT !.out = @ \o data], FALSE)
    BY <1>1, <1>2 DEF SendInLoop, Writing
  <2>2. o.conn.wire = k.wire /\ o.conn.out = k.out \o data
    BY <2>1 DEF Outcome, Connection
  <2>3. ASSUME NEW w, NEW q, w = k.wire, q = k.out
        PROVE  (w \o q) \o data = w \o (q \o data)
    <3>1. w \in Seq(Unit) /\ q \in Seq(Unit)
      BY <1>1, <2>3
    <3>2. QED
      BY <3>1, ConcatAssociative, SMTT(30)
  <2>4. QED
    BY <2>2, <2>3, Zenon DEF Total
<1>3. CASE k.out = <<>>
  <2>1. PICK n \in 0..Len(data) : o = Outcome(Write(k, data, n), n = Len(data))
    BY <1>1, <1>3 DEF SendInLoop, Writing
  <2>2. o.conn = Write(k, data, n)
    BY <2>1 DEF Outcome
  <2>3. Total(o.conn) = k.wire \o data
    BY <2>2, WriteTotal
  <2>4. k.wire \o k.out = k.wire
    BY <1>1, <1>3, ConcatEmptySeq
  <2>5. QED
    BY <2>3, <2>4, Zenon DEF Total
<1>4. QED
  BY <1>2, <1>3

\* A writable socket moves data and drops none; it shuts the write side only
\* for a shutdown that waited, and over an empty buffer.
LEMMA HandleWriteTotal ==
  ASSUME NEW Unit, NEW k \in Connection(Unit), Drained(k), NEW o \in HandleWrite(k)
  PROVE  /\ Total(o.conn) = Total(k) /\ Drained(o.conn)
         /\ o.conn.fin => k.state = "kDisconnecting"
<1>1. k.state # "kDisconnected"
  BY DEF HandleWrite
<1>2. PICK n \in 1..Len(k.out) :
        o.conn = IF n = Len(k.out) /\ k.state = "kDisconnecting"
                 THEN ShutdownInLoop(Write(k, k.out, n)) ELSE Write(k, k.out, n)
  BY <1>1 DEF HandleWrite, Outcome
<1>3. k.out \in Seq(Unit) /\ n \in 0..Len(k.out) /\ k.out # <<>>
  BY DEF Connection
<1> DEFINE w == Write(k, k.out, n)
<1>4. w \in Connection(Unit) /\ w.fin = k.fin /\ Total(w) = Total(k)
  BY <1>3, WriteType, WriteTotal DEF Total
<1>5. ~k.fin
  BY <1>3 DEF Drained
<1> HIDE DEF w
<1>6. /\ ShutdownInLoop(w).wire = w.wire /\ ShutdownInLoop(w).out = w.out
      /\ Drained(ShutdownInLoop(w))
  BY <1>4, <1>5 DEF ShutdownInLoop, Writing, Drained, Connection
<1>7. \/ o.conn = w
      \/ k.state = "kDisconnecting" /\ o.conn = ShutdownInLoop(w)
  BY <1>2 DEF w
<1>8. QED
  BY <1>4, <1>5, <1>6, <1>7, Zenon DEF Total, Drained

\* shutdown() moves no data and shuts the write side over an empty buffer.
LEMMA ShutdownTotal ==
  ASSUME NEW Unit, NEW k \in Connection(Unit), Drained(k)
  PROVE  Total(Shutdown(k)) = Total(k) /\ Drained(Shutdown(k))
<1>1. Shutdown(k).wire = k.wire /\ Shutdown(k).out = k.out
  BY DEF Shutdown, ShutdownInLoop, Writing, Connection
<1>2. Drained(Shutdown(k))
  BY DEF Shutdown, ShutdownInLoop, Writing, Connection, Drained
<1>3. QED
  BY <1>1, <1>2 DEF Total

\* With an empty buffer at most the data stays behind, and nothing of it when
\* the library reports the write complete.
LEMMA SendFromEmpty ==
  ASSUME NEW Unit, NEW k \in Connection(Unit), k.out = <<>>,
         NEW data \in Seq(Unit), NEW gone, NEW o \in Send(k, data, gone)
  PROVE  /\ Len(o.conn.out) <= Len(data)
         /\ o.complete => o.conn.out = <<>>
<1>0. Len(data) \in Nat
  BY LenProperties
<1>1. CASE o = Outcome(k, FALSE)
  BY <1>0, <1>1 DEF Outcome
<1>2. ASSUME NEW n \in 0..Len(data), o = Outcome(Write(k, data, n), n = Len(data))
      PROVE  /\ Len(o.conn.out) <= Len(data)
             /\ o.complete => o.conn.out = <<>>
  <2>1. /\ o.conn.out = SubSeq(data, n + 1, Len(data))
        /\ o.complete <=> n = Len(data)
    BY <1>2 DEF Outcome, Write, Connection
  <2>2. Len(SubSeq(data, n + 1, Len(data))) <= Len(data)
    BY <1>0, SubSeqProperties
  <2>3. n = Len(data) => SubSeq(data, n + 1, Len(data)) = <<>>
    BY <1>0, SubSeqEmpty
  <2>4. QED
    BY <2>1, <2>2, <2>3
<1>3. o = Outcome(k, FALSE)
      \/ \E n \in 0..Len(data) : o = Outcome(Write(k, data, n), n = Len(data))
  BY DEF Send, SendInLoop, Writing
<1>4. QED
  BY <1>1, <1>2, <1>3

\* A writable socket takes something, and the buffer is empty when the library
\* reports the write complete.
LEMMA HandleWriteShrinks ==
  ASSUME NEW Unit, NEW k \in Connection(Unit), NEW o \in HandleWrite(k)
  PROVE  /\ k.out # <<>>
         /\ Len(o.conn.out) < Len(k.out)
         /\ o.complete => o.conn.out = <<>>
<1>1. k.state # "kDisconnected" /\ k.out \in Seq(Unit) /\ Len(k.out) \in Nat
  BY DEF HandleWrite, Connection
<1>2. PICK n \in 1..Len(k.out) :
        o = Outcome(IF n = Len(k.out) /\ k.state = "kDisconnecting"
                    THEN ShutdownInLoop(Write(k, k.out, n)) ELSE Write(k, k.out, n),
                    n = Len(k.out))
  BY <1>1 DEF HandleWrite
<1>3. n \in 0..Len(k.out) /\ Write(k, k.out, n) \in Connection(Unit)
  BY <1>1, <1>2, WriteType
<1>4. Write(k, k.out, n).out = SubSeq(k.out, n + 1, Len(k.out))
  BY DEF Write, Connection
<1>5. /\ o.conn.out = SubSeq(k.out, n + 1, Len(k.out))
      /\ o.complete <=> n = Len(k.out)
  BY <1>2, <1>3, <1>4 DEF Outcome, ShutdownInLoop, Connection
<1>6. Len(SubSeq(k.out, n + 1, Len(k.out))) < Len(k.out)
  BY <1>1, <1>2, SubSeqProperties
<1>7. n = Len(k.out) => SubSeq(k.out, n + 1, Len(k.out)) = <<>>
  BY <1>1, SubSeqEmpty
<1>8. QED
  BY <1>1, <1>2, <1>5, <1>6, <1>7
-----------------------------------------------------------------------------
(* What the socket has accepted stays accepted.                            *)

\* The socket of q has accepted what that of k has, and perhaps more.
Grown(k, q, Unit) == \E y \in Seq(Unit) : q.wire = k.wire \o y

LEMMA GrownSame ==
  ASSUME NEW Unit, NEW k \in Connection(Unit), NEW q, q.wire = k.wire
  PROVE  Grown(k, q, Unit)
<1>1. k.wire \o <<>> = k.wire /\ <<>> \in Seq(Unit)
  BY ConcatEmptySeq, EmptySeq DEF Connection
<1>2. q.wire = k.wire \o <<>>
  BY <1>1
<1>3. QED
  BY <1>1, <1>2, Zenon DEF Grown

LEMMA GrownAgain ==
  ASSUME NEW Unit, NEW k \in Connection(Unit), NEW q, NEW r,
         Grown(k, q, Unit), Grown(q, r, Unit)
  PROVE  Grown(k, r, Unit)
<1>1. PICK y \in Seq(Unit) : q.wire = k.wire \o y
  BY DEF Grown
<1>2. PICK z \in Seq(Unit) : r.wire = q.wire \o z
  BY DEF Grown
<1>3. ASSUME NEW w \in Seq(Unit) PROVE (w \o y) \o z = w \o (y \o z)
  BY ConcatAssociative
<1>4. k.wire \in Seq(Unit) /\ y \o z \in Seq(Unit)
  BY ConcatProperties DEF Connection
<1>5. r.wire = k.wire \o (y \o z)
  BY <1>1, <1>2, <1>3, <1>4, Zenon
<1>6. QED
  BY <1>4, <1>5, Zenon DEF Grown

\* sendInLoop() takes the data as a whole or drops it as a whole.
LEMMA SendInLoopTotal ==
  ASSUME NEW Unit, NEW k \in Connection(Unit), NEW data \in Seq(Unit), Drained(k),
         NEW peerGone, NEW o \in SendInLoop(k, data, peerGone)
  PROVE  /\ Total(o.conn) = Total(k) \/ Total(o.conn) = Total(k) \o data
         /\ Drained(o.conn)
         /\ Grown(k, o.conn, Unit)
<1>1. k.wire \in Seq(Unit) /\ k.out \in Seq(Unit)
  BY DEF Connection
<1>2. k.wire \o <<>> = k.wire
  BY <1>1, ConcatEmptySeq
<1>3. CASE o = Outcome(k, FALSE)
  <2>1. o.conn = k
    BY <1>3 DEF Outcome
  <2>2. Grown(k, o.conn, Unit)
    BY <2>1, GrownSame
  <2>3. QED
    BY <2>1, <2>2
<1>4. CASE o = Outcome([k EXCEPT !.out = @ \o data], FALSE) /\ k.out # <<>>
  <2>1. o.conn.wire = k.wire /\ o.conn.out = k.out \o data /\ o.conn.fin = k.fin
    BY <1>4 DEF Outcome, Connection
  <2>2. ASSUME NEW w \in Seq(Unit), NEW q \in Seq(Unit)
        PROVE  (w \o q) \o data = w \o (q \o data)
    BY ConcatAssociative, SMTT(30)
  <2>3. (k.wire \o k.out) \o data = k.wire \o (k.out \o data)
    BY <1>1, <2>2, Zenon
  <2>4. Total(o.conn) = Total(k) \o data
    BY <2>1, <2>3, Zenon DEF Total
  <2>5. Grown(k, o.conn, Unit)
    BY <2>1, GrownSame
  <2>6. Drained(o.conn)
    BY <1>4, <2>1 DEF Drained
  <2>7. QED
    BY <2>4, <2>5, <2>6
<1>5. ASSUME NEW n \in 0..Len(data), o = Outcome(Write(k, data, n), n = Len(data)),
             k.out = <<>>, ~k.fin
      PROVE  /\ Total(o.conn) = Total(k) \o data
             /\ Drained(o.conn)
             /\ Grown(k, o.conn, Unit)
  <2>1. o.conn = Write(k, data, n)
    BY <1>5 DEF Outcome
  <2>2. Total(o.conn) = k.wire \o data
    BY <2>1, WriteTotal
  <2>3. k.wire \o k.out = k.wire
    BY <1>2, <1>5
  <2>4. Total(o.conn) = Total(k) \o data
    BY <2>2, <2>3, Zenon DEF Total
  <2>5. o.conn.wire = k.wire \o SubSeq(data, 1, n) /\ o.conn.fin = k.fin
    BY <2>1 DEF Write, Connection
  <2>6. SubSeq(data, 1, n) \in Seq(Unit)
    BY SubSeqProperties
  <2>7. Drained(o.conn)
    BY <1>5, <2>5 DEF Drained
  <2>8. Grown(k, o.conn, Unit)
    BY <2>5, <2>6, Zenon DEF Grown
  <2>9. QED
    BY <2>4, <2>7, <2>8
<1>6. \/ o = Outcome(k, FALSE)
      \/ o = Outcome([k EXCEPT !.out = @ \o data], FALSE) /\ k.out # <<>>
      \/ \E n \in 0..Len(data) : /\ o = Outcome(Write(k, data, n), n = Len(data))
                                 /\ k.out = <<>> /\ ~k.fin
  BY Zenon DEF SendInLoop, Writing
<1>7. QED
  BY <1>3, <1>4, <1>5, <1>6

\* So does send(), which does nothing unless connected.
LEMMA SendOutcome ==
  ASSUME NEW Unit, NEW k \in Connection(Unit), NEW data \in Seq(Unit), Drained(k),
         NEW peerGone, NEW o \in Send(k, data, peerGone)
  PROVE  /\ Total(o.conn) = Total(k) \/ Total(o.conn) = Total(k) \o data
         /\ Drained(o.conn)
         /\ Grown(k, o.conn, Unit)
         /\ k.state # "kConnected" => o.conn = k
<1>1. CASE k.state = "kConnected"
  BY <1>1, SendInLoopTotal DEF Send
<1>2. CASE k.state # "kConnected"
  <2>1. o.conn = k
    BY <1>2 DEF Send, Outcome
  <2>2. Grown(k, o.conn, Unit)
    BY <2>1, GrownSame
  <2>3. QED
    BY <2>1, <2>2
<1>3. QED
  BY <1>1, <1>2

\* A writable socket only adds to what it has accepted.
LEMMA HandleWriteWire ==
  ASSUME NEW Unit, NEW k \in Connection(Unit), NEW o \in HandleWrite(k)
  PROVE  Grown(k, o.conn, Unit)
<1>1. k.state # "kDisconnected"
  BY DEF HandleWrite
<1>2. PICK n \in 1..Len(k.out) :
        o.conn = IF n = Len(k.out) /\ k.state = "kDisconnecting"
                 THEN ShutdownInLoop(Write(k, k.out, n)) ELSE Write(k, k.out, n)
  BY <1>1 DEF HandleWrite, Outcome
<1>3. k.out \in Seq(Unit) /\ n \in 0..Len(k.out)
  BY DEF Connection
<1>4. Write(k, k.out, n) \in Connection(Unit)
  BY <1>3, WriteType
<1>5. Write(k, k.out, n).wire = k.wire \o SubSeq(k.out, 1, n)
  BY DEF Write, Connection
<1>6. o.conn.wire = Write(k, k.out, n).wire
  BY <1>2, <1>4 DEF ShutdownInLoop, Connection
<1>7. SubSeq(k.out, 1, n) \in Seq(Unit)
  BY <1>3, SubSeqProperties
<1>8. o.conn.wire = k.wire \o SubSeq(k.out, 1, n)
  BY <1>5, <1>6
<1>9. QED
  BY <1>7, <1>8, Zenon DEF Grown
=============================================================================
