--------------------------- MODULE QueryServerProofs ---------------------------
(***************************************************************************)
(* Proofs about the protobuf server and its clients, for any connections,  *)
(* frames, lengths and limits.                                             *)
(***************************************************************************)
EXTENDS QueryServer, SharedLemmas

-----------------------------------------------------------------------------
(* The codec.                                                              *)

\* The lengths fillEmptyBuffer writes.
LEMMA EncodedLengths ==
  ASSUME NEW t \in KnownTypes, NEW n \in Nat
  PROVE  LET f == FillEmptyBuffer(t, n) IN
         /\ f.len = NameSize[t] + 1 + n + 2 * kHeaderLen
         /\ f.nameLen = NameSize[t] + 1
         /\ f.sum = TRUE /\ f.type = t /\ f.parses = TRUE
         /\ NameSize[t] \in Nat \ {0} /\ kHeaderLen \in Nat \ {0}
<1>1. NameSize[t] \in Nat \ {0} /\ kHeaderLen \in Nat \ {0}
  BY CodecAssumption
<1>2. QED
  BY <1>1 DEF FillEmptyBuffer, Frame

\* parse() accepts whatever fillEmptyBuffer wrote and finds the data again;
\* of the encoded messages onMessage refuses exactly those that are longer
\* than kMaxMessageLen, as invalid lengths.
THEOREM RoundTrip ==
  ASSUME NEW t \in KnownTypes, NEW n \in Nat
  PROVE  LET f == FillEmptyBuffer(t, n) IN
         /\ Parse(f) = "kNoError"
         /\ f.type = t /\ DataLen(f) = n
         /\ Verdict(f) = IF f.len <= kMaxMessageLen THEN "kNoError"
                                                    ELSE "kInvalidLength"
<1> DEFINE f == FillEmptyBuffer(t, n)
<1>1. /\ f.len = NameSize[t] + 1 + n + 2 * kHeaderLen
      /\ f.nameLen = NameSize[t] + 1
      /\ f.sum = TRUE /\ f.type = t /\ f.parses = TRUE
      /\ NameSize[t] \in Nat \ {0} /\ kHeaderLen \in Nat \ {0}
  BY EncodedLengths
<1> HIDE DEF f
<1>2. f.nameLen >= 2 /\ f.nameLen <= f.len - 2 * kHeaderLen
  BY <1>1
<1>3. Parse(f) = "kNoError"
  BY <1>1, <1>2 DEF Parse
<1>4. DataLen(f) = n
  BY <1>1 DEF DataLen
<1>5. f.len >= kMinMessageLen
  BY <1>1 DEF kMinMessageLen
<1>6. Verdict(f) = IF f.len <= kMaxMessageLen THEN "kNoError" ELSE "kInvalidLength"
  BY <1>3, <1>5 DEF Verdict, InRange
<1>7. QED
  BY <1>1, <1>3, <1>4, <1>6 DEF f

\* What may be on a wire, and what the server puts there.
TypeNames == KnownTypes \cup {f.type : f \in Frames}
Wire == [len : Int, sum : BOOLEAN, nameLen : Int, type : TypeNames, parses : BOOLEAN]
Answers == {f \in Wire : \E n \in Nat : f = FillEmptyBuffer("Answer", n)}

LEMMA FramesAreWire == Frames \subseteq Wire
<1> SUFFICES ASSUME NEW f \in Frames PROVE f \in Wire
  OBVIOUS
<1>1. f \in [len : Int, sum : BOOLEAN, nameLen : Int, type : {f.type}, parses : BOOLEAN]
  BY FramesAssumption
<1>2. f.type \in TypeNames
  BY DEF TypeNames
<1>3. QED
  BY <1>1, <1>2 DEF Wire

LEMMA AnswerIsWire ==
  ASSUME NEW n \in Nat PROVE FillEmptyBuffer("Answer", n) \in Answers
<1> DEFINE f == FillEmptyBuffer("Answer", n)
<1>1. /\ f.len = NameSize["Answer"] + 1 + n + 2 * kHeaderLen
      /\ f.nameLen = NameSize["Answer"] + 1
      /\ NameSize["Answer"] \in Nat \ {0} /\ kHeaderLen \in Nat \ {0}
  BY EncodedLengths, TypesAssumption
<1>2. f = [len |-> f.len, sum |-> TRUE, nameLen |-> f.nameLen, type |-> "Answer", parses |-> TRUE]
  BY DEF FillEmptyBuffer, Frame
<1> HIDE DEF f
<1>3. f.len \in Int /\ f.nameLen \in Int
  BY <1>1
<1>4. f \in Wire
  <2>1. ASSUME NEW l \in Int, NEW b \in BOOLEAN, NEW m \in Int, NEW t \in TypeNames, NEW p \in BOOLEAN
        PROVE  [len |-> l, sum |-> b, nameLen |-> m, type |-> t, parses |-> p] \in Wire
    BY DEF Wire
  <2>2. TRUE \in BOOLEAN
    OBVIOUS
  <2>3. "Answer" \in TypeNames
    BY TypesAssumption DEF TypeNames
  <2>4. QED
    BY <1>2, <1>3, <2>1, <2>2, <2>3, Zenon
<1>5. QED
  BY <1>4 DEF Answers, f

\* The answer to a frame that can be read.
LEMMA AnswerToRead ==
  ASSUME NEW f \in Wire, Verdict(f) = "kNoError"
  PROVE  AnswerTo(f) \in Answers
<1>1. kHeaderLen \in Nat \ {0} /\ f.len \in Int /\ f.nameLen \in Int
  BY CodecAssumption DEF Wire
<1>2. f.nameLen <= f.len - 2 * kHeaderLen
  BY <1>1 DEF Verdict, Parse
<1>3. DataLen(f) + Growth \in Nat
  BY <1>1, <1>2, MaxFramesAssumption DEF DataLen
<1>4. QED
  BY <1>3, AnswerIsWire DEF AnswerTo

\* The only answers that are refused are too long.
LEMMA AnswerRefused ==
  ASSUME NEW f \in Answers, Verdict(f) # "kNoError"
  PROVE  f.len > kMaxMessageLen
<1>1. PICK n \in Nat : f = FillEmptyBuffer("Answer", n)
  BY DEF Answers
<1>2. Verdict(f) = IF f.len <= kMaxMessageLen THEN "kNoError" ELSE "kInvalidLength"
  BY <1>1, RoundTrip, TypesAssumption
<1>3. f.len \in Int /\ kMaxMessageLen \in Nat
  BY CodecAssumption DEF Answers, Wire
<1>4. QED
  BY <1>2, <1>3

LEMMA SizeType == ASSUME NEW f \in Wire PROVE Size(f) \in Nat \ {0}
<1>1. kHeaderLen \in Nat \ {0} /\ f.len \in Int /\ kMinMessageLen \in Nat
  BY CodecAssumption DEF Wire, kMinMessageLen
<1>2. QED
  BY <1>1 DEF Size, InRange

\* The bytes of n frames, one frame at a time.
LEMMA SizeOfStep ==
  ASSUME NEW s \in Seq(Wire)
  PROVE  /\ Len(s) \in Nat /\ SizeOf(s, 0) = 0
         /\ \A n \in 0..Len(s) : SizeOf(s, n) \in Nat
         /\ \A n \in 0..(Len(s) - 1) :
              SizeOf(s, n + 1) = SizeOf(s, n) + Size(s[n + 1]) /\ Size(s[n + 1]) \in Nat \ {0}
<1> DEFINE z(n) == [i \in 1..n |-> Size(s[i])]
<1>1. Len(s) \in Nat /\ \A i \in 1..Len(s) : s[i] \in Wire
  BY LenProperties
<1>2. \A i \in 1..Len(s) : Size(s[i]) \in Nat \ {0}
  BY <1>1, SizeType
<1>3. ASSUME NEW n \in 0..Len(s) PROVE z(n) \in Seq(Nat) /\ Len(z(n)) = n
  BY <1>1, <1>2
<1>4. SizeOf(s, 0) = 0
  <2>1. z(0) = <<>>
    OBVIOUS
  <2>2. QED
    BY <2>1, AddUpEmpty DEF SizeOf
<1>5. ASSUME NEW n \in 0..Len(s) PROVE SizeOf(s, n) \in Nat
  <2>1. z(n) \in Seq(Nat)
    BY <1>3
  <2>2. QED
    BY <2>1, AddUpType DEF SizeOf
<1>6. ASSUME NEW n \in 0..(Len(s) - 1)
      PROVE  SizeOf(s, n + 1) = SizeOf(s, n) + Size(s[n + 1]) /\ Size(s[n + 1]) \in Nat \ {0}
  <2>1. n \in 0..Len(s) /\ n + 1 \in 1..Len(s) /\ n + 1 \in 0..Len(s) /\ n \in Nat
    BY <1>1
  <2> DEFINE a == Append(z(n), Size(s[n + 1]))
  <2>2. z(n) \in Seq(Nat) /\ Len(z(n)) = n /\ Size(s[n + 1]) \in Nat \ {0}
    BY <1>2, <1>3, <2>1
  <2>3. /\ a \in Seq(Nat) /\ Len(a) = n + 1 /\ a[n + 1] = Size(s[n + 1])
        /\ \A i \in 1..n : a[i] = z(n)[i]
    <3> HIDE DEF z
    <3>1. QED
      BY <2>2, AppendProperties
  <2>4. a = z(n + 1)
    <3>1. z(n + 1) \in Seq(Nat) /\ Len(z(n + 1)) = n + 1
      BY <1>3, <2>1
    <3>2. \A i \in 1..(n + 1) : z(n + 1)[i] = a[i]
      <4>1. \A i \in 1..(n + 1) : i \in 1..n \/ i = n + 1
        BY <2>1
      <4>2. \A i \in 1..n : z(n)[i] = Size(s[i])
        OBVIOUS
      <4> HIDE DEF a
      <4>3. \A i \in 1..(n + 1) : z(n + 1)[i] = Size(s[i])
        OBVIOUS
      <4>4. QED
        BY <2>3, <4>1, <4>2, <4>3
    <3> HIDE DEF a, z
    <3>3. QED
      BY <2>3, <3>1, <3>2, SeqEqual
  <2>5. AddUp(a) = AddUp(z(n)) + Size(s[n + 1])
    <3> HIDE DEF z
    <3>1. QED
      BY <2>2, AddUpAppend
  <2>6. QED
    BY <2>2, <2>4, <2>5 DEF SizeOf
<1>7. QED
  BY <1>1, <1>4, <1>5, <1>6

LEMMA SizeOfRises ==
  ASSUME NEW s \in Seq(Wire), NEW m \in 0..Len(s), NEW n \in m..Len(s)
  PROVE  SizeOf(s, m) <= SizeOf(s, n)
<1> DEFINE S == {d \in Nat : m + d <= Len(s) => SizeOf(s, m) <= SizeOf(s, m + d)}
<1>1. /\ Len(s) \in Nat
      /\ \A k \in 0..Len(s) : SizeOf(s, k) \in Nat
      /\ \A k \in 0..(Len(s) - 1) :
              SizeOf(s, k + 1) = SizeOf(s, k) + Size(s[k + 1]) /\ Size(s[k + 1]) \in Nat \ {0}
  BY SizeOfStep
<1>2. 0 \in S
  BY <1>1
<1>3. ASSUME NEW d \in Nat, d \in S PROVE d + 1 \in S
  <2>1. ASSUME m + (d + 1) <= Len(s) PROVE SizeOf(s, m) <= SizeOf(s, m + (d + 1))
    <3>1. /\ m + d \in 0..(Len(s) - 1) /\ m + d \in 0..Len(s) /\ m \in 0..Len(s)
          /\ (m + d) + 1 = m + (d + 1) /\ m + (d + 1) \in 0..Len(s)
      BY <1>1, <2>1
    <3>2. SizeOf(s, m) <= SizeOf(s, m + d)
      BY <1>3, <3>1
    <3>3. SizeOf(s, m + (d + 1)) = SizeOf(s, m + d) + Size(s[(m + d) + 1]) /\ Size(s[(m + d) + 1]) \in Nat
      BY <1>1, <3>1
    <3>4. SizeOf(s, m) \in Nat /\ SizeOf(s, m + d) \in Nat
      BY <1>1, <3>1
    <3>5. QED
      BY <3>2, <3>3, <3>4
  <2>2. QED
    BY <2>1
<1> HIDE DEF S
<1>4. Nat \subseteq S
  BY <1>2, <1>3, SetInduction
<1>5. n - m \in Nat /\ m + (n - m) = n /\ n <= Len(s)
  BY <1>1
<1>6. n - m \in S
  BY <1>4, <1>5
<1>7. QED
  BY <1>5, <1>6 DEF S

\* The first n frames decide.
LEMMA SizeOfSame ==
  ASSUME NEW s, NEW t, NEW n, \A i \in 1..n : s[i] = t[i]
  PROVE  SizeOf(s, n) = SizeOf(t, n)
<1>1. [i \in 1..n |-> Size(s[i])] = [i \in 1..n |-> Size(t[i])]
  OBVIOUS
<1>2. QED
  BY <1>1 DEF SizeOf

\* The loop waits exactly until the whole frame is there.
LEMMA WaitsForFrame ==
  ASSUME NEW s \in Seq(Wire), NEW g \in Nat, g <= SizeOf(s, Len(s)), NEW n \in 0..Len(s)
  PROVE  Waits(s, g, n) <=> n = Len(s) \/ g < SizeOf(s, n + 1)
<1>1. /\ Len(s) \in Nat /\ SizeOf(s, n) \in Nat
      /\ n < Len(s) => /\ n + 1 \in 1..Len(s)
                       /\ SizeOf(s, n + 1) = SizeOf(s, n) + Size(s[n + 1])
  BY SizeOfStep
<1>2. kHeaderLen \in Nat \ {0} /\ kMinMessageLen \in Nat
  BY CodecAssumption DEF kMinMessageLen
<1>3. CASE n = Len(s)
  BY <1>1, <1>2, <1>3 DEF Waits, Readable
<1>4. CASE n # Len(s)
  <2>1. s[n + 1] \in Wire
    BY <1>1, <1>4, LenProperties
  <2>2. s[n + 1].len \in Int
    BY <2>1 DEF Wire
  <2>3. Size(s[n + 1]) = kHeaderLen + (IF InRange(s[n + 1]) THEN s[n + 1].len ELSE kMinMessageLen)
    BY DEF Size
  <2>4. InRange(s[n + 1]) => s[n + 1].len >= kMinMessageLen
    BY DEF InRange
  <2>5. SizeOf(s, n + 1) = SizeOf(s, n) + Size(s[n + 1])
    BY <1>1, <1>4
  <2>6. Waits(s, g, n) <=> \/ g - SizeOf(s, n) < kMinMessageLen + kHeaderLen
                           \/ /\ InRange(s[n + 1])
                              /\ g - SizeOf(s, n) < s[n + 1].len + kHeaderLen
    BY DEF Waits, Readable
  <2>7. QED
    BY <1>1, <1>2, <1>4, <2>2, <2>3, <2>4, <2>5, <2>6, SMTT(30)
<1>5. QED
  BY <1>3, <1>4

\* Of g bytes of the frames s, the first n frames have been retrieved, and
\* rightly so: they are complete and readable, and the next one is not.
Cut(s, g, n) ==
  /\ n \in 0..Len(s) /\ SizeOf(s, n) <= g
  /\ \A i \in 1..n : Verdict(s[i]) = "kNoError"
  /\ n < Len(s) /\ SizeOf(s, n + 1) <= g => Verdict(s[n + 1]) # "kNoError"

\* The next frame is there and cannot be read.
Stuck(s, g, n) == n < Len(s) /\ SizeOf(s, n + 1) <= g

\* The loop goes on from one cut to the next, and stays where it is stuck.
LEMMA LoopEndCuts ==
  ASSUME NEW s \in Seq(Wire), NEW g \in Nat, g <= SizeOf(s, Len(s)),
         NEW old \in Nat, old <= g, NEW n, Cut(s, old, n)
  PROVE  LET m == LoopEnd(s, g, n) IN
         /\ m \in n..Len(s) /\ Cut(s, g, m)
         /\ Refuses(s, g, m) <=> Stuck(s, g, m)
         /\ Stuck(s, old, n) => m = n
<1> DEFINE m == LoopEnd(s, g, n)
           N == Len(s)
           Stops(i) == Waits(s, g, i) \/ Refuses(s, g, i)
           S == {i \in n..N : Stops(i)}
<1>1. N \in Nat /\ n \in 0..N /\ SizeOf(s, n) <= old
      /\ \A i \in 0..N : SizeOf(s, i) \in Nat
  BY SizeOfStep DEF Cut
<1>2. ASSUME NEW i \in 0..N PROVE Waits(s, g, i) <=> i = N \/ g < SizeOf(s, i + 1)
  BY <1>2, WaitsForFrame
<1>3. N \in S /\ S \subseteq Nat
  BY <1>1, <1>2
<1> HIDE DEF S
<1>4. PICK k \in S : \A y \in S : k <= y
  BY <1>3, LeastExists, Zenon
<1> HIDE DEF Stops
<1>5. k \in n..N /\ Stops(k)
  BY <1>4 DEF S
<1>6. ASSUME NEW j \in n..(k - 1), Stops(j) PROVE FALSE
  <2>1. j \in S
    BY <1>1, <1>5, <1>6 DEF S
  <2>2. QED
    BY <1>1, <1>4, <1>5, <2>1
<1>7. \E x \in n..N : Stops(x) /\ \A i \in n..(x - 1) : ~Stops(i)
  BY <1>5, <1>6
<1>8. m \in n..N /\ Stops(m) /\ \A i \in n..(m - 1) : ~Stops(i)
  BY <1>7, Zenon DEF LoopEnd, Stops
<1> HIDE DEF m
<1>9. m \in 0..N /\ m \in Nat /\ n \in Nat
  BY <1>1, <1>8
<1>10. ASSUME NEW i \in n..(m - 1)
       PROVE  i \in 0..N /\ i + 1 \in 0..N /\ SizeOf(s, i + 1) <= g /\ Verdict(s[i + 1]) = "kNoError"
  <2>1. i \in 0..N /\ i + 1 \in 0..N /\ i # N
    BY <1>1, <1>8, <1>9, <1>10
  <2>2. ~Waits(s, g, i) /\ ~Refuses(s, g, i)
    BY <1>8, <1>10 DEF Stops
  <2>3. ~(g < SizeOf(s, i + 1)) /\ SizeOf(s, i + 1) \in Nat
    BY <1>1, <1>2, <2>1, <2>2
  <2>4. QED
    BY <2>1, <2>2, <2>3 DEF Refuses
<1>11. SizeOf(s, m) <= g
  <2>1. CASE m = n
    BY <1>1, <2>1
  <2>2. CASE m # n
    <3>1. m - 1 \in n..(m - 1) /\ (m - 1) + 1 = m
      BY <1>8, <1>9, <2>2
    <3>2. QED
      BY <1>10, <3>1
  <2>3. QED
    BY <2>1, <2>2
<1>12. ASSUME NEW i \in 1..m PROVE Verdict(s[i]) = "kNoError"
  <2>1. CASE i <= n
    <3>1. i \in 1..n
      BY <1>9, <2>1
    <3>2. QED
      BY <3>1 DEF Cut
  <2>2. CASE i > n
    <3>1. i - 1 \in n..(m - 1) /\ (i - 1) + 1 = i
      BY <1>9, <2>2
    <3>2. QED
      BY <1>10, <3>1
  <2>3. QED
    BY <1>9, <2>1, <2>2
<1>13. Refuses(s, g, m) <=> Stuck(s, g, m)
  <2>1. Waits(s, g, m) <=> m = N \/ g < SizeOf(s, m + 1)
    BY <1>2, <1>9
  <2>2. m < N => SizeOf(s, m + 1) \in Nat
    BY <1>1, <1>9
  <2>3. ~Waits(s, g, m) <=> Stuck(s, g, m)
    BY <1>1, <1>8, <1>9, <2>1, <2>2 DEF Stuck
  <2>4. QED
    BY <1>8, <2>3 DEF Refuses, Stops
<1>14. Stuck(s, g, m) => Verdict(s[m + 1]) # "kNoError"
  BY <1>13 DEF Refuses
<1>15. Cut(s, g, m)
  BY <1>9, <1>11, <1>12, <1>14 DEF Cut, Stuck
<1>16. ASSUME Stuck(s, old, n) PROVE m = n
  <2>1. Verdict(s[n + 1]) # "kNoError" /\ n < N /\ SizeOf(s, n + 1) <= old
    BY <1>16 DEF Cut, Stuck
  <2>2. ~Waits(s, g, n)
    BY <1>1, <1>2, <2>1
  <2>3. Stops(n)
    BY <2>1, <2>2 DEF Stops, Refuses
  <2>4. QED
    BY <1>8, <1>9, <2>3
<1>17. QED
  BY <1>8, <1>13, <1>15, <1>16 DEF m

\* More input that is still on its way does not move the cut.
LEMMA CutMore ==
  ASSUME NEW s \in Seq(Wire), NEW t \in Seq(Wire), NEW g \in Nat, NEW n, Cut(s, g, n),
         g <= SizeOf(s, Len(s)), Len(s) <= Len(t), \A i \in 1..Len(s) : t[i] = s[i]
  PROVE  /\ Cut(t, g, n) /\ g <= SizeOf(t, Len(t))
         /\ Stuck(t, g, n) <=> Stuck(s, g, n)
<1>1. /\ Len(s) \in Nat /\ Len(t) \in Nat
      /\ \A k \in 0..Len(t) : SizeOf(t, k) \in Nat
      /\ \A k \in 0..(Len(t) - 1) :
              SizeOf(t, k + 1) = SizeOf(t, k) + Size(t[k + 1]) /\ Size(t[k + 1]) \in Nat \ {0}
  BY SizeOfStep
<1>2. ASSUME NEW k \in 0..Len(s) PROVE SizeOf(t, k) = SizeOf(s, k)
  <2>1. \A i \in 1..k : t[i] = s[i]
    BY <1>1
  <2>2. QED
    BY <2>1, SizeOfSame
<1>3. n \in 0..Len(s) /\ n \in 0..Len(t) /\ n \in Nat
  BY <1>1 DEF Cut
<1>4. g <= SizeOf(t, Len(t))
  <2>1. SizeOf(t, Len(s)) <= SizeOf(t, Len(t))
    BY <1>1, SizeOfRises
  <2>2. SizeOf(t, Len(s)) = SizeOf(s, Len(s)) /\ SizeOf(t, Len(s)) \in Nat /\ SizeOf(t, Len(t)) \in Nat
    BY <1>1, <1>2
  <2>3. QED
    BY <2>1, <2>2
<1>5. \A i \in 1..n : t[i] = s[i]
  BY <1>1, <1>3
<1>6. SizeOf(t, n) = SizeOf(s, n)
  BY <1>2, <1>3
<1>7. CASE n < Len(s)
  <2>1. n + 1 \in 0..Len(s) /\ n + 1 \in 1..Len(s) /\ n < Len(t)
    BY <1>1, <1>3, <1>7
  <2>2. SizeOf(t, n + 1) = SizeOf(s, n + 1) /\ t[n + 1] = s[n + 1]
    BY <1>2, <2>1
  <2>3. QED
    BY <1>3, <1>4, <1>5, <1>6, <1>7, <2>1, <2>2 DEF Cut, Stuck
<1>8. CASE n = Len(s)
  <2>1. ASSUME n < Len(t) PROVE g < SizeOf(t, n + 1)
    <3>1. n \in 0..(Len(t) - 1) /\ n \in 0..Len(t)
      BY <1>1, <1>3, <2>1
    <3>2. SizeOf(t, n + 1) = SizeOf(t, n) + Size(t[n + 1]) /\ Size(t[n + 1]) \in Nat \ {0}
          /\ SizeOf(t, n) \in Nat
      BY <1>1, <3>1
    <3>3. QED
      BY <1>6, <1>8, <3>2
  <2>2. n < Len(t) => ~(SizeOf(t, n + 1) <= g)
    <3>1. n < Len(t) => SizeOf(t, n + 1) \in Nat
      BY <1>1, <1>3
    <3>2. QED
      BY <2>1, <3>1
  <2>3. QED
    BY <1>1, <1>3, <1>4, <1>5, <1>6, <1>8, <2>2 DEF Cut, Stuck
<1>9. QED
  BY <1>1, <1>3, <1>7, <1>8
-----------------------------------------------------------------------------
(* The queries.                                                            *)

\* Positions in the input.
Places == Nat
UpTo(n) == [j \in 1..n |-> j]

\* The queries among the frames s, and those among the first n of them.
Queried(s) == {j \in 1..Len(s) : s[j].type = "Query"}
AskedUpTo(s, n) == Kept(UpTo(n), Queried(s))

LEMMA UpToType ==
  ASSUME NEW n \in Nat
  PROVE  /\ UpTo(n) \in Seq(Places) /\ Len(UpTo(n)) = n
         /\ \A j \in 1..n : UpTo(n)[j] = j
         /\ UpTo(n + 1) = Append(UpTo(n), n + 1)
         /\ Distinct(UpTo(n))
         /\ \A x : IsIn(x, UpTo(n)) <=> x \in 1..n
<1>1. ASSUME NEW m \in Nat
      PROVE  /\ UpTo(m) \in Seq(Places) /\ Len(UpTo(m)) = m
             /\ \A j \in 1..m : UpTo(m)[j] = j
  BY DEF UpTo, Places
<1>2. UpTo(n + 1) = Append(UpTo(n), n + 1)
  <2> DEFINE u == UpTo(n)
             v == UpTo(n + 1)
             a == Append(u, n + 1)
  <2>1. /\ u \in Seq(Places) /\ Len(u) = n /\ \A j \in 1..n : u[j] = j
        /\ v \in Seq(Places) /\ Len(v) = n + 1 /\ \A j \in 1..(n + 1) : v[j] = j
    BY <1>1
  <2>2. n + 1 \in Places
    BY DEF Places
  <2> HIDE DEF u, v
  <2>3. /\ a \in Seq(Places) /\ Len(a) = n + 1 /\ a[n + 1] = n + 1
        /\ \A j \in 1..n : a[j] = u[j]
    BY <2>1, <2>2, AppendProperties
  <2> HIDE DEF a
  <2>4. \A j \in 1..(n + 1) : j \in 1..n \/ j = n + 1
    OBVIOUS
  <2>5. \A j \in 1..(n + 1) : v[j] = a[j]
    BY <2>1, <2>3, <2>4
  <2>6. v = a
    BY <2>1, <2>3, <2>5, SeqEqual
  <2>7. QED
    BY <2>6 DEF a, u, v
<1>3. QED
  BY <1>1, <1>2 DEF Distinct, IsIn

LEMMA AskedType ==
  ASSUME NEW s \in Seq(Wire), NEW n \in 0..Len(s)
  PROVE  /\ AskedUpTo(s, n) \in Seq(Places) /\ Len(AskedUpTo(s, n)) \in Nat
         /\ Distinct(AskedUpTo(s, n))
         /\ \A x : IsIn(x, AskedUpTo(s, n)) <=> x \in 1..n /\ s[x].type = "Query"
<1>1. Len(s) \in Nat /\ n \in Nat
  BY LenProperties
<1>2. /\ UpTo(n) \in Seq(Places) /\ Distinct(UpTo(n))
      /\ \A x : IsIn(x, UpTo(n)) <=> x \in 1..n
  BY <1>1, UpToType
<1>3. AskedUpTo(s, n) \in Seq(Places) /\ Distinct(AskedUpTo(s, n))
  BY <1>2, KeptType, KeptDistinct DEF AskedUpTo
<1>4. \A x : IsIn(x, AskedUpTo(s, n)) <=> IsIn(x, UpTo(n)) /\ x \in Queried(s)
  BY <1>2, KeptIn DEF AskedUpTo
<1>5. \A x : x \in 1..n => (x \in Queried(s) <=> s[x].type = "Query")
  BY <1>1 DEF Queried
<1>6. QED
  BY <1>2, <1>3, <1>4, <1>5, LenProperties

LEMMA AskedNext ==
  ASSUME NEW s \in Seq(Wire), NEW n \in 0..(Len(s) - 1)
  PROVE  AskedUpTo(s, n + 1) = IF s[n + 1].type = "Query" THEN Append(AskedUpTo(s, n), n + 1)
                                                         ELSE AskedUpTo(s, n)
<1>1. Len(s) \in Nat /\ n \in Nat /\ n + 1 \in 1..Len(s) /\ n + 1 \in Places
  BY LenProperties DEF Places
<1>2. UpTo(n) \in Seq(Places) /\ UpTo(n + 1) = Append(UpTo(n), n + 1)
  BY <1>1, UpToType
<1>3. n + 1 \in Queried(s) <=> s[n + 1].type = "Query"
  BY <1>1 DEF Queried
<1> DEFINE v == UpTo(n)
           e == n + 1
<1>a. v \in Seq(Places) /\ e \in Places
  BY <1>1, <1>2
<1>b. ASSUME NEW T PROVE Kept(Append(v, e), T) = IF e \in T THEN Append(Kept(v, T), e) ELSE Kept(v, T)
  <2> HIDE DEF v, e
  <2>1. QED
    BY <1>a, KeptAppend
<1>4. Kept(Append(UpTo(n), n + 1), Queried(s))
        = IF n + 1 \in Queried(s) THEN Append(Kept(UpTo(n), Queried(s)), n + 1)
                                  ELSE Kept(UpTo(n), Queried(s))
  BY <1>b
<1>5. QED
  BY <1>2, <1>3, <1>4 DEF AskedUpTo

\* The first n frames decide.
LEMMA AskedSame ==
  ASSUME NEW n \in Nat, NEW T, NEW U, \A j \in 1..n : j \in T <=> j \in U
  PROVE  Kept(UpTo(n), T) = Kept(UpTo(n), U)
<1>1. UpTo(n) \in Seq(Places) /\ \A x : IsIn(x, UpTo(n)) <=> x \in 1..n
  BY UpToType
<1>2. Agree(UpTo(n), T, U)
  BY <1>1 DEF Agree
<1>3. QED
  BY <1>1, <1>2, KeptAgree

\* b begins with a.
Begins(a, b) == Len(a) <= Len(b) /\ \A i \in 1..Len(a) : b[i] = a[i]

\* More frames, more queries.
LEMMA AskedGrows ==
  ASSUME NEW s \in Seq(Wire), NEW m \in 0..Len(s), NEW n \in m..Len(s)
  PROVE  Begins(AskedUpTo(s, m), AskedUpTo(s, n))
<1> DEFINE a == AskedUpTo(s, m)
           S == {d \in Nat : m + d <= Len(s) => Begins(a, AskedUpTo(s, m + d))}
<1>1. Len(s) \in Nat
  BY LenProperties
<1>2. a \in Seq(Places) /\ Len(a) \in Nat
  BY AskedType
<1> HIDE DEF a
<1>3. 0 \in S
  BY <1>1, <1>2 DEF Begins, a
<1>4. ASSUME NEW d \in Nat, d \in S PROVE d + 1 \in S
  <2>1. ASSUME m + (d + 1) <= Len(s) PROVE Begins(a, AskedUpTo(s, m + (d + 1)))
    <3>1. m + d \in 0..(Len(s) - 1) /\ m + d \in 0..Len(s) /\ (m + d) + 1 = m + (d + 1)
      BY <1>1, <2>1
    <3>2. PICK b : b = AskedUpTo(s, m + d)
      OBVIOUS
    <3>3. Begins(a, b) /\ b \in Seq(Places) /\ Len(b) \in Nat
      BY <1>4, <3>1, <3>2, AskedType
    <3>4. AskedUpTo(s, m + (d + 1)) = b \/ AskedUpTo(s, m + (d + 1)) = Append(b, (m + d) + 1)
      BY <3>1, <3>2, AskedNext
    <3>5. (m + d) + 1 \in Places
      BY <3>1 DEF Places
    <3> DEFINE c == Append(b, (m + d) + 1)
    <3>6. Len(c) = Len(b) + 1 /\ \A i \in 1..Len(b) : c[i] = b[i]
      BY <3>3, <3>5, AppendProperties
    <3> HIDE DEF c
    <3>7. Begins(a, c)
      BY <1>2, <3>3, <3>6 DEF Begins
    <3>8. QED
      BY <3>3, <3>4, <3>7 DEF c
  <2>2. QED
    BY <2>1
<1> HIDE DEF S
<1>5. Nat \subseteq S
  BY <1>3, <1>4, SetInduction
<1>6. n - m \in Nat /\ m + (n - m) = n /\ n <= Len(s)
  BY <1>1
<1>7. n - m \in S
  BY <1>5, <1>6
<1>8. QED
  BY <1>6, <1>7 DEF S, a
-----------------------------------------------------------------------------
(* What dispatching makes of a connection.                                 *)

\* q: what may have become of k when the first m of the frames s have been
\* dispatched; no more answers than queries.
Dispatched(k, q, s, m) ==
  /\ q \in Connection(Answers) /\ q.state = k.state /\ ~q.fin
  /\ Grown(k, q, Answers)
  /\ Len(Total(q)) <= Len(AskedUpTo(s, m))

LEMMA DispatchOne ==
  ASSUME NEW k \in Connection(Answers), NEW s \in Seq(Wire), NEW m \in 0..(Len(s) - 1),
         Verdict(s[m + 1]) = "kNoError", NEW gone,
         NEW q, Dispatched(k, q, s, m), NEW r \in OnProtobufMessage(q, s[m + 1], gone)
  PROVE  Dispatched(k, r, s, m + 1)
<1>1. /\ q \in Connection(Answers) /\ q.state = k.state /\ ~q.fin
      /\ Grown(k, q, Answers)
      /\ Len(Total(q)) <= Len(AskedUpTo(s, m))
  BY DEF Dispatched
<1>2. Len(s) \in Nat /\ m \in 0..Len(s) /\ m + 1 \in 1..Len(s) /\ s[m + 1] \in Wire
  BY LenProperties
<1> DEFINE a == AskedUpTo(s, m)
           b == AskedUpTo(s, m + 1)
           f == s[m + 1]
<1>3. a \in Seq(Places) /\ Len(a) \in Nat /\ m + 1 \in Places
  BY <1>2, AskedType DEF Places
<1>4. b = IF f.type = "Query" THEN Append(a, m + 1) ELSE a
  BY AskedNext
<1> HIDE DEF a, b
<1>5. Len(Append(a, m + 1)) = Len(a) + 1
  BY <1>3, AppendProperties
<1>6. CASE f.type # "Query"
  <2>1. r = q
    BY <1>6 DEF OnProtobufMessage
  <2>2. QED
    BY <1>1, <1>4, <1>6, <2>1 DEF Dispatched, a, b
<1>7. CASE f.type = "Query"
  <2> DEFINE e == AnswerTo(f)
             d == <<e>>
  <2>1. e \in Answers
    BY <1>2, AnswerToRead
  <2>2. d = <<e>> /\ d \in Seq(Answers) /\ Len(d) = 1
    BY <2>1
  <2>3. r \in {o.conn : o \in Send(q, d, gone)}
    BY <1>7 DEF OnProtobufMessage, OnQuery, Callbacks
  <2> HIDE DEF d, e, f
  <2>a. PICK o \in Send(q, d, gone) : r = o.conn
    BY <2>3
  <2>4. Drained(q)
    BY <1>1 DEF Drained
  <2>b. q \in Connection(Answers) /\ d \in Seq(Answers)
    BY <1>1, <2>2
  <2>5. o.conn \in Connection(Answers) /\ o.conn.state = q.state /\ o.conn.fin = q.fin
    BY <2>b, SendType
  <2>6. Total(o.conn) = Total(q) \/ Total(o.conn) = Total(q) \o d
    BY <2>b, <2>4, SendOutcome
  <2>7. Grown(q, o.conn, Answers)
    BY <1>1, <2>2, <2>4, SendOutcome
  <2>8. Grown(k, r, Answers)
    BY <1>1, <2>a, <2>7, GrownAgain
  <2>9. Total(q) \in Seq(Answers)
    BY <1>1, ConcatProperties DEF Total, Connection
  <2>10. Len(Total(q) \o d) = Len(Total(q)) + Len(d) /\ Len(Total(q)) \in Nat
    BY <2>2, <2>9, ConcatProperties, LenProperties
  <2>11. Len(Total(r)) <= Len(Total(q)) + 1
    BY <2>2, <2>a, <2>6, <2>10
  <2>12. Len(b) = Len(a) + 1
    BY <1>4, <1>5, <1>7
  <2>13. Len(Total(r)) \in Nat
    BY <2>2, <2>a, <2>6, <2>10
  <2>14. Len(Total(r)) <= Len(b)
    BY <1>1, <1>3, <2>10, <2>11, <2>12, <2>13 DEF a
  <2>15. QED
    BY <1>1, <2>a, <2>5, <2>8, <2>14 DEF Dispatched, b
<1>8. QED
  BY <1>6, <1>7

\* The recursion of DispatchAll.
DispatchRec(f, k, frames, gone) ==
  f = [i \in 0..Len(frames) |->
         IF i = 0 THEN {k} ELSE AfterMessage(f[i - 1], frames[i], gone)]

\* The frames of one call of onMessage: s[u + 1], ..., s[n].
Batch(s, u, n) == SubSeq(s, u + 1, n)

LEMMA BatchFrames ==
  ASSUME NEW s \in Seq(Wire), NEW u \in 0..Len(s), NEW n \in u..Len(s)
  PROVE  /\ Batch(s, u, n) \in Seq(Wire) /\ Len(Batch(s, u, n)) = n - u
         /\ \A i \in 1..(n - u) : Batch(s, u, n)[i] = s[u + i]
<1>1. Len(s) \in Nat /\ u \in Nat /\ n \in Nat /\ \A i \in (u + 1)..n : s[i] \in Wire
  BY LenProperties
<1>2. /\ SubSeq(s, u + 1, n) \in Seq(Wire)
      /\ Len(SubSeq(s, u + 1, n)) = IF u + 1 <= n THEN n - (u + 1) + 1 ELSE 0
      /\ \A i \in 1..(n - (u + 1) + 1) : SubSeq(s, u + 1, n)[i] = s[(u + 1) + i - 1]
  BY <1>1, SubSeqProperties
<1>3. QED
  BY <1>1, <1>2 DEF Batch

\* What dispatching leaves is a connection.
LEMMA AfterType ==
  ASSUME NEW ks \in SUBSET Connection(Answers), NEW f \in Wire, Verdict(f) = "kNoError", NEW gone
  PROVE  AfterMessage(ks, f, gone) \in SUBSET Connection(Answers)
<1>1. ASSUME NEW q \in ks, NEW r \in OnProtobufMessage(q, f, gone) PROVE r \in Connection(Answers)
  <2> DEFINE e == AnswerTo(f)
             d == <<e>>
  <2>1. q \in Connection(Answers) /\ e \in Answers
    BY AnswerToRead
  <2>2. d \in Seq(Answers)
    BY <2>1
  <2>3. r = q \/ r \in {o.conn : o \in Send(q, d, gone)}
    BY <1>1 DEF OnProtobufMessage, OnQuery
  <2> HIDE DEF d, e
  <2>4. ASSUME NEW o \in Send(q, d, gone) PROVE o.conn \in Connection(Answers)
    BY <2>1, <2>2, SendType
  <2>5. QED
    BY <2>1, <2>3, <2>4
<1>2. QED
  BY <1>1 DEF AfterMessage

\* The frames u + 1 to n of s, which can all be read, are dispatched.
LEMMA DispatchOutcome ==
  ASSUME NEW k \in Connection(Answers), ~k.fin, NEW s \in Seq(Wire),
         NEW u \in 0..Len(s), NEW n \in u..Len(s), NEW gone,
         \A i \in 1..n : Verdict(s[i]) = "kNoError",
         Len(Total(k)) <= Len(AskedUpTo(s, u)),
         NEW q \in DispatchAll(k, Batch(s, u, n), gone)
  PROVE  Dispatched(k, q, s, n)
<1> DEFINE fr == Batch(s, u, n)
           N == Len(fr)
           X == SUBSET Connection(Answers)
           F == [ix \in (1..N) \X X |-> AfterMessage(ix[2], fr[ix[1]], gone)]
           f == CHOOSE f : DispatchRec(f, k, fr, gone)
<1>0. Len(s) \in Nat /\ u \in Nat /\ n \in Nat
  BY LenProperties
<1>1. /\ fr \in Seq(Wire) /\ N = n - u /\ N \in Nat
      /\ \A i \in 1..N : fr[i] = s[u + i] /\ fr[i] \in Wire /\ Verdict(fr[i]) = "kNoError"
  <2>1. fr \in Seq(Wire) /\ N = n - u /\ \A i \in 1..(n - u) : fr[i] = s[u + i]
    BY BatchFrames
  <2> HIDE DEF fr
  <2>2. ASSUME NEW i \in 1..N PROVE fr[i] \in Wire /\ Verdict(fr[i]) = "kNoError"
    <3>1. u + i \in 1..n /\ fr[i] = s[u + i]
      BY <1>0, <2>1
    <3>2. QED
      BY <2>1, <3>1, LenProperties
  <2>3. QED
    BY <1>0, <2>1, <2>2
<1>q. q \in DispatchAll(k, fr, gone)
  OBVIOUS
<1> HIDE DEF fr
<1>2. F \in [(1..N) \X X -> X]
  <2>1. ASSUME NEW ix \in (1..N) \X X PROVE AfterMessage(ix[2], fr[ix[1]], gone) \in X
    <3>1. ix[2] \in X /\ ix[1] \in 1..N
      OBVIOUS
    <3>2. fr[ix[1]] \in Wire /\ Verdict(fr[ix[1]]) = "kNoError"
      BY <1>1, <3>1
    <3>3. QED
      BY <3>1, <3>2, AfterType
  <2>2. QED
    BY <2>1
<1>3. {k} \in X
  OBVIOUS
<1>4. ASSUME NEW i \in 1..N, NEW ks \in X PROVE F[<<i, ks>>] = AfterMessage(ks, fr[i], gone)
  BY <1>4
<1> HIDE DEF F, N, X
<1>5. PICK h : StepsBy(h, X, {k}, N, F)
  BY <1>1, <1>2, <1>3, RecursionExists, Zenon
<1>6. ASSUME NEW i \in 0..N, i # 0 PROVE F[<<i, h[i - 1]>>] = AfterMessage(h[i - 1], fr[i], gone)
  <2>1. i \in 1..N /\ h[i - 1] \in X
    BY <1>1, <1>5, <1>6 DEF StepsBy
  <2>2. QED
    BY <1>4, <2>1
<1>7. DispatchRec(h, k, fr, gone)
  <2>1. ASSUME NEW i \in 0..N
        PROVE  h[i] = IF i = 0 THEN {k} ELSE AfterMessage(h[i - 1], fr[i], gone)
    <3>1. i # 0 => i \in 1..N
      BY <1>1
    <3>2. QED
      BY <1>5, <1>6, <3>1 DEF StepsBy
  <2>2. QED
    BY <1>5, <2>1 DEF DispatchRec, N, StepsBy
<1>8. DispatchRec(f, k, fr, gone)
  BY <1>7
<1>9. DispatchAll(k, fr, gone) = f[N]
  BY DEF DispatchAll, DispatchRec, N
<1> HIDE DEF f
<1>10. f[0] = {k}
  BY <1>1, <1>8 DEF DispatchRec, N
<1>11. ASSUME NEW i \in 1..N PROVE f[i] = AfterMessage(f[i - 1], fr[i], gone)
  <2>1. i \in 0..N /\ i # 0
    BY <1>1
  <2>2. QED
    BY <1>8, <2>1, Zenon DEF DispatchRec, N
<1> DEFINE S == {i \in Nat : i <= N => \A p \in f[i] : Dispatched(k, p, s, u + i)}
<1>12. Dispatched(k, k, s, u)
  <2>1. Grown(k, k, Answers)
    BY GrownSame
  <2>2. QED
    BY <2>1 DEF Dispatched
<1>13. 0 \in S
  <2>1. u + 0 = u
    BY <1>0
  <2>2. QED
    BY <1>10, <1>12, <2>1
<1>14. ASSUME NEW i \in Nat, i \in S PROVE i + 1 \in S
  <2>1. ASSUME i + 1 <= N, NEW p \in f[i + 1] PROVE Dispatched(k, p, s, u + (i + 1))
    <3>1. /\ i < N /\ i + 1 \in 1..N /\ (i + 1) - 1 = i
          /\ u + i \in 0..(Len(s) - 1) /\ (u + i) + 1 = u + (i + 1)
      BY <1>0, <1>1, <2>1
    <3>2. f[i + 1] = AfterMessage(f[i], fr[i + 1], gone)
      BY <1>11, <3>1
    <3>3. PICK r \in f[i] : p \in OnProtobufMessage(r, fr[i + 1], gone)
      BY <2>1, <3>2 DEF AfterMessage
    <3>4. Dispatched(k, r, s, u + i)
      BY <1>1, <1>14, <3>1
    <3>5. fr[i + 1] = s[(u + i) + 1] /\ Verdict(s[(u + i) + 1]) = "kNoError"
      <4>1. fr[i + 1] = s[u + (i + 1)] /\ Verdict(fr[i + 1]) = "kNoError"
        BY <1>1, <3>1
      <4>2. QED
        BY <3>1, <4>1
    <3>6. p \in OnProtobufMessage(r, s[(u + i) + 1], gone)
      BY <3>3, <3>5
    <3>7. Dispatched(k, p, s, (u + i) + 1)
      BY <3>1, <3>4, <3>5, <3>6, DispatchOne
    <3>8. QED
      BY <3>1, <3>7
  <2>2. QED
    BY <2>1
<1> HIDE DEF S
<1>15. Nat \subseteq S
  BY <1>13, <1>14, SetInduction
<1>16. N \in S /\ u + N = n
  BY <1>0, <1>1, <1>15
<1>17. QED
  BY <1>1, <1>q, <1>9, <1>16 DEF S
-----------------------------------------------------------------------------
(* The inductive invariant.                                                *)

TypeInv ==
  /\ conn \in [Conn -> Connection(Answers)]
  /\ client \in [Conn -> {"up", "shut", "gone"}]
  /\ sent \in [Conn -> Seq(Wire)]
  /\ held \in [Conn -> Nat]
  /\ got \in [Conn -> Nat] /\ used \in [Conn -> Nat]
  /\ back \in [Conn -> Nat] /\ answers \in [Conn -> Nat]
  /\ errors \subseteq Conn
  /\ handled \in [Conn -> Seq(TypeNames)]

\* The server never shuts a connection down.
ConnOK(k) == ~k.fin /\ k.state \in {"kConnected", "kDisconnected"}

TypesOf(s, n) == [i \in 1..n |-> s[i].type]

\* Of the frames s and g bytes of them, u have been retrieved and h handled.
InputOK(s, g, u, h) ==
  /\ Len(s) <= MaxFrames
  /\ g <= SizeOf(s, Len(s)) /\ Cut(s, g, u)
  /\ h = TypesOf(s, u)

\* No more answers than queries handled, whether written or still buffered.
RepliesOK(k, s, u) == Len(Total(k)) <= Len(AskedUpTo(s, u))

\* The client has b bytes of what k put on the wire and retrieved a answers.
ClientOK(k, cl, b, a) ==
  /\ b <= SizeOf(k.wire, Len(k.wire)) /\ Cut(k.wire, b, a)
  /\ cl = "shut" => \E i \in 1..Len(k.wire) : k.wire[i].len > kMaxMessageLen

EndOK(c) ==
  /\ ConnOK(conn[c])
  /\ InputOK(sent[c], got[c], used[c], handled[c])
  /\ c \in errors => Stuck(sent[c], got[c], used[c])
  /\ RepliesOK(conn[c], sent[c], used[c])
  /\ ClientOK(conn[c], client[c], back[c], answers[c])

IInv == TypeInv /\ \A c \in Conn : EndOK(c)

LEMMA WireTypes == ASSUME NEW s \in Seq(Answers) PROVE s \in Seq(Wire)
<1>1. Answers \subseteq Wire
  BY DEF Answers
<1>2. QED
  BY <1>1

\* What is on the wire stays there.
LEMMA GrownWire ==
  ASSUME NEW k \in Connection(Answers), NEW q \in Connection(Answers), Grown(k, q, Answers)
  PROVE  /\ k.wire \in Seq(Wire) /\ q.wire \in Seq(Wire)
         /\ Len(k.wire) \in Nat /\ Len(q.wire) \in Nat
         /\ Len(k.wire) <= Len(q.wire)
         /\ \A i \in 1..Len(k.wire) : q.wire[i] = k.wire[i]
<1>1. PICK y \in Seq(Answers) : q.wire = k.wire \o y
  BY DEF Grown
<1>2. PICK w \in Seq(Answers) : w = k.wire
  BY DEF Connection
<1>3. /\ w \o y \in Seq(Answers) /\ Len(w) \in Nat /\ Len(y) \in Nat
      /\ Len(w \o y) = Len(w) + Len(y)
      /\ \A i \in 1..Len(w) + Len(y) : (w \o y)[i] = IF i <= Len(w) THEN w[i] ELSE y[i - Len(w)]
  BY ConcatProperties, LenProperties
<1>4. q.wire = w \o y
  BY <1>1, <1>2
<1> DEFINE r == w \o y
<1>5. /\ r \in Seq(Answers) /\ Len(w) <= Len(r) /\ Len(r) \in Nat
      /\ \A i \in 1..Len(w) : r[i] = w[i]
  BY <1>3
<1>6. q.wire = r
  BY <1>4
<1> HIDE DEF r
<1>7. w \in Seq(Wire) /\ r \in Seq(Wire)
  BY <1>5, WireTypes
<1>8. QED
  BY <1>2, <1>3, <1>5, <1>6, <1>7

LEMMA ClientGrows ==
  ASSUME NEW k \in Connection(Answers), NEW q \in Connection(Answers), Grown(k, q, Answers),
         NEW cl, NEW b \in Nat, NEW a, ClientOK(k, cl, b, a)
  PROVE  ClientOK(q, cl, b, a)
<1>1. /\ k.wire \in Seq(Wire) /\ q.wire \in Seq(Wire)
      /\ Len(k.wire) \in Nat /\ Len(q.wire) \in Nat
      /\ Len(k.wire) <= Len(q.wire)
      /\ \A i \in 1..Len(k.wire) : q.wire[i] = k.wire[i]
  BY GrownWire
<1>2. b <= SizeOf(k.wire, Len(k.wire)) /\ Cut(k.wire, b, a)
  BY DEF ClientOK
<1>3. Cut(q.wire, b, a) /\ b <= SizeOf(q.wire, Len(q.wire))
  BY <1>1, <1>2, CutMore
<1>4. ASSUME cl = "shut" PROVE \E i \in 1..Len(q.wire) : q.wire[i].len > kMaxMessageLen
  <2>1. PICK i \in 1..Len(k.wire) : k.wire[i].len > kMaxMessageLen
    BY <1>4 DEF ClientOK
  <2>2. i \in 1..Len(q.wire) /\ q.wire[i] = k.wire[i]
    BY <1>1, <2>1
  <2>3. QED
    BY <2>1, <2>2
<1>5. QED
  BY <1>3, <1>4 DEF ClientOK

\* The client's codec at work: it takes the error path only over an answer
\* that is too long.
LEMMA ClientCuts ==
  ASSUME NEW k \in Connection(Answers), NEW cl, NEW b \in Nat, NEW a, ClientOK(k, cl, b, a),
         NEW g \in Nat, b <= g, g <= SizeOf(k.wire, Len(k.wire)),
         NEW n, n = LoopEnd(k.wire, g, a)
  PROVE  ClientOK(k, IF Refuses(k.wire, g, n) THEN DefaultErrorCallback(cl) ELSE cl, g, n) /\ n \in Nat
<1>1. k.wire \in Seq(Answers) /\ k.wire \in Seq(Wire) /\ Len(k.wire) \in Nat
  BY WireTypes, LenProperties DEF Connection
<1>2. Cut(k.wire, b, a)
  BY DEF ClientOK
<1>3. Cut(k.wire, g, n) /\ (Refuses(k.wire, g, n) <=> Stuck(k.wire, g, n))
  BY <1>1, <1>2, LoopEndCuts
<1>4. ASSUME Refuses(k.wire, g, n) PROVE \E i \in 1..Len(k.wire) : k.wire[i].len > kMaxMessageLen
  <2>1. n < Len(k.wire) /\ n \in Nat /\ Verdict(k.wire[n + 1]) # "kNoError"
    BY <1>3, <1>4 DEF Stuck, Cut
  <2>2. n + 1 \in 1..Len(k.wire)
    BY <1>1, <2>1
  <2>3. k.wire[n + 1] \in Answers
    BY <1>1, <2>2, LenProperties
  <2>4. k.wire[n + 1].len > kMaxMessageLen
    BY <2>1, <2>3, AnswerRefused
  <2>5. QED
    BY <2>2, <2>4
<1>5. n \in Nat
  BY <1>3 DEF Cut
<1>6. cl = "shut" => \E i \in 1..Len(k.wire) : k.wire[i].len > kMaxMessageLen
  BY DEF ClientOK
<1>7. QED
  BY <1>3, <1>4, <1>5, <1>6 DEF ClientOK

\* The types of the frames handled before and in this call.
LEMMA TypesConcat ==
  ASSUME NEW s \in Seq(Wire), NEW u \in 0..Len(s), NEW n \in u..Len(s), NEW fr, fr = Batch(s, u, n)
  PROVE  /\ TypesOf(s, u) \o [i \in DOMAIN fr |-> fr[i].type] = TypesOf(s, n)
         /\ TypesOf(s, n) \in Seq(TypeNames)
<1>1. Len(s) \in Nat /\ u \in Nat /\ n \in Nat /\ \A i \in 1..Len(s) : s[i] \in Wire
  BY LenProperties
<1>2. \A i \in 1..Len(s) : s[i].type \in TypeNames
  BY <1>1 DEF Wire
<1>3. /\ fr \in Seq(Wire) /\ Len(fr) = n - u /\ n - u \in Nat
      /\ \A i \in 1..(n - u) : fr[i] = s[u + i]
  <2>1. n - u \in Nat
    BY <1>1
  <2>2. QED
    BY <2>1, BatchFrames
<1>4. DOMAIN fr = 1..(n - u)
  BY <1>3, LenProperties
<1> DEFINE a == TypesOf(s, u)
           b == [i \in DOMAIN fr |-> fr[i].type]
           r == TypesOf(s, n)
<1>5. a \in Seq(TypeNames) /\ Len(a) = u /\ \A i \in 1..u : a[i] = s[i].type
  BY <1>1, <1>2 DEF TypesOf
<1>6. r \in Seq(TypeNames) /\ Len(r) = n /\ \A i \in 1..n : r[i] = s[i].type
  BY <1>1, <1>2 DEF TypesOf
<1>7. b \in Seq(TypeNames) /\ Len(b) = n - u /\ \A i \in 1..(n - u) : b[i] = s[u + i].type
  BY <1>1, <1>2, <1>3, <1>4, SMTT(30)
<1> HIDE DEF a, b, r
<1>8. /\ a \o b \in Seq(TypeNames) /\ Len(a \o b) = Len(a) + Len(b)
      /\ \A i \in 1..Len(a) + Len(b) : (a \o b)[i] = IF i <= Len(a) THEN a[i] ELSE b[i - Len(a)]
  BY <1>5, <1>7, ConcatProperties
<1>9. Len(a \o b) = n
  BY <1>1, <1>5, <1>7, <1>8
<1>10. ASSUME NEW i \in 1..n PROVE (a \o b)[i] = r[i]
  <2>1. i \in 1..Len(a) + Len(b) /\ r[i] = s[i].type
    BY <1>1, <1>5, <1>6, <1>7
  <2>2. CASE i <= u
    <3>1. i \in 1..u /\ (a \o b)[i] = a[i]
      BY <1>1, <1>5, <1>8, <2>1, <2>2
    <3>2. QED
      BY <1>5, <2>1, <3>1
  <2>3. CASE i > u
    <3>1. i - u \in 1..(n - u) /\ u + (i - u) = i /\ (a \o b)[i] = b[i - u]
      BY <1>1, <1>5, <1>8, <2>1, <2>3
    <3>2. QED
      BY <1>7, <2>1, <3>1
  <2>4. i <= u \/ i > u
    BY <1>1
  <2>5. QED
    BY <2>2, <2>3, <2>4
<1>11. a \o b = r
  BY <1>6, <1>8, <1>9, <1>10, SeqEqual
<1>12. QED
  BY <1>6, <1>11 DEF a, b, r
-----------------------------------------------------------------------------
(* The steps.                                                              *)

\* Only connection c may have changed.
Others(c) ==
  \A d \in Conn \ {c} :
    /\ conn'[d] = conn[d] /\ client'[d] = client[d] /\ sent'[d] = sent[d]
    /\ got'[d] = got[d] /\ used'[d] = used[d] /\ handled'[d] = handled[d]
    /\ (d \in errors' => d \in errors)
    /\ back'[d] = back[d] /\ answers'[d] = answers[d]

\* How a step moves connection c on: it takes nothing back, and an error
\* stops it for good.
Moves(c) ==
  /\ Others(c)
  /\ Grown(conn[c], conn'[c], Answers)
  /\ used[c] <= used'[c]
  /\ conn'[c].state = "kConnected" => conn[c].state = "kConnected"
  /\ client'[c] = "up" => client[c] = "up"
  /\ Begins(sent[c], sent'[c])
  /\ c \in errors => used'[c] = used[c] /\ handled'[c] = handled[c]

LEMMA OneEnd ==
  ASSUME IInv, TypeInv', NEW c \in Conn, Others(c), EndOK(c)'
  PROVE  IInv'
<1>1. ASSUME NEW d \in Conn, d # c PROVE EndOK(d)'
  <2>1. EndOK(d)
    BY DEF IInv
  <2>2. QED
    BY <1>1, <2>1 DEF Others, EndOK
<1>2. QED
  BY <1>1 DEF IInv

LEMMA InitInv == ASSUME Init PROVE IInv
<1> DEFINE k == ConnectEstablished(Connecting)
<1>1. /\ k.state = "kConnected" /\ k.out = <<>> /\ k.wire = <<>> /\ ~k.fin
  BY DEF ConnectEstablished, Connecting
<1>2. <<>> \in Seq(Answers) /\ <<>> \in Seq(Wire) /\ <<>> \in Seq(TypeNames) /\ Len(<<>>) = 0
  BY EmptySeq
<1>3. k \in Connection(Answers)
  BY <1>2 DEF ConnectEstablished, Connecting, Connection, ConnState
<1>4. /\ conn = [c \in Conn |-> k] /\ client = [c \in Conn |-> "up"]
      /\ sent = [c \in Conn |-> <<>>] /\ held = [c \in Conn |-> 0] /\ handled = [c \in Conn |-> <<>>]
      /\ got = [c \in Conn |-> 0] /\ back = [c \in Conn |-> 0]
      /\ used = [c \in Conn |-> 0] /\ answers = [c \in Conn |-> 0] /\ errors = {}
  BY DEF Init
<1> HIDE DEF k
<1>5. TypeInv
  BY <1>2, <1>3, <1>4 DEF TypeInv
<1>6. SizeOf(<<>>, 0) = 0
  BY <1>2, SizeOfStep
<1>7. Cut(<<>>, 0, 0)
  BY <1>2, <1>6 DEF Cut
<1>8. TypesOf(<<>>, 0) = <<>>
  BY DEF TypesOf
<1>9. InputOK(<<>>, 0, 0, <<>>)
  BY <1>2, <1>6, <1>7, <1>8, MaxFramesAssumption DEF InputOK
<1>10. Len(AskedUpTo(<<>>, 0)) \in Nat
  BY <1>2, AskedType
<1>11. RepliesOK(k, <<>>, 0)
  <2>1. Total(k) = <<>>
    BY <1>1, <1>2, ConcatEmptySeq DEF Total
  <2>2. QED
    BY <1>2, <1>10, <2>1 DEF RepliesOK
<1>12. ClientOK(k, "up", 0, 0)
  BY <1>1, <1>2, <1>6, <1>7 DEF ClientOK
<1>13. ConnOK(k)
  BY <1>1 DEF ConnOK
<1>14. ASSUME NEW c \in Conn PROVE EndOK(c)
  BY <1>4, <1>9, <1>11, <1>12, <1>13 DEF EndOK
<1>15. QED
  BY <1>5, <1>14 DEF IInv

LEMMA ServerReadsInv ==
  ASSUME IInv, NEW c \in Conn, ServerReads(c)
  PROVE  IInv' /\ Moves(c)
<1>1. PICK g \in 1..Put(c) : ServerOnMessage(c, g)
  BY DEF ServerReads
<1> DEFINE s == sent[c]
           u == used[c]
           k == conn[c]
           n == LoopEnd(s, g, u)
           fr == Batch(s, u, n)
<1>2. /\ TypeInv /\ EndOK(c)
      /\ s \in Seq(Wire) /\ u \in Nat /\ got[c] \in Nat /\ k \in Connection(Answers)
      /\ back[c] \in Nat
  BY DEF IInv, TypeInv
<1>3. Len(s) \in Nat /\ SizeOf(s, Len(s)) \in Nat
  BY <1>2, SizeOfStep
<1>4. g \in Nat /\ got[c] < g /\ g <= SizeOf(s, Len(s)) /\ got[c] <= g
  <2>1. held[c] \in Nat /\ Put(c) = SizeOf(s, Len(s)) - held[c]
    BY <1>2 DEF TypeInv, Put
  <2>2. g \in Nat /\ g <= Put(c) /\ got[c] < g
    BY <1>1, <1>3, <2>1 DEF ServerOnMessage
  <2>3. QED
    BY <1>2, <1>3, <2>1, <2>2
<1>5. Cut(s, got[c], u) /\ ~k.fin /\ u \in 0..Len(s) /\ handled[c] = TypesOf(s, u)
  BY <1>2 DEF EndOK, InputOK, ConnOK, Cut
<1>6. /\ n \in u..Len(s) /\ Cut(s, g, n)
      /\ Refuses(s, g, n) <=> Stuck(s, g, n)
      /\ Stuck(s, got[c], u) => n = u
  BY <1>2, <1>4, <1>5, LoopEndCuts
<1>7. /\ got' = [got EXCEPT ![c] = g]
      /\ used' = [used EXCEPT ![c] = n]
      /\ errors' = IF Refuses(s, g, n) THEN errors \cup {c} ELSE errors
      /\ handled' = [handled EXCEPT ![c] = @ \o [i \in DOMAIN fr |-> fr[i].type]]
      /\ \E q \in DispatchAll(k, fr, Gone(c)) : conn' = [conn EXCEPT ![c] = q]
      /\ UNCHANGED <<client, sent, held, back, answers>>
  BY <1>1 DEF ServerOnMessage, OnPbErrMessage, Batch
<1>8. PICK q \in DispatchAll(k, fr, Gone(c)) : conn' = [conn EXCEPT ![c] = q]
  BY <1>7
<1>9. /\ handled[c] \o [i \in DOMAIN fr |-> fr[i].type] = TypesOf(s, n)
      /\ TypesOf(s, n) \in Seq(TypeNames)
  BY <1>2, <1>5, <1>6, TypesConcat
<1>10. Dispatched(k, q, s, n)
  <2>1. \A i \in 1..n : Verdict(s[i]) = "kNoError"
    BY <1>6 DEF Cut
  <2>2. Len(Total(k)) <= Len(AskedUpTo(s, u))
    BY <1>2 DEF EndOK, RepliesOK
  <2>3. QED
    BY <1>2, <1>5, <1>6, <1>8, <2>1, <2>2, DispatchOutcome
<1> HIDE DEF fr, n
<1>11. /\ q \in Connection(Answers) /\ q.state = k.state /\ ~q.fin
       /\ Grown(k, q, Answers)
       /\ Len(Total(q)) <= Len(AskedUpTo(s, n))
  BY <1>10 DEF Dispatched
<1>12. n \in Nat
  BY <1>3, <1>5, <1>6
<1>13. /\ conn'[c] = q /\ got'[c] = g /\ used'[c] = n
       /\ handled'[c] = handled[c] \o [i \in DOMAIN fr |-> fr[i].type]
  BY <1>2, <1>7, <1>8 DEF TypeInv
<1>14. handled'[c] = TypesOf(s, n) /\ handled' = [handled EXCEPT ![c] = TypesOf(s, n)]
  BY <1>2, <1>7, <1>9, <1>13 DEF TypeInv
<1>15. TypeInv'
  BY <1>2, <1>4, <1>7, <1>8, <1>9, <1>11, <1>12, <1>14 DEF TypeInv
<1>16. Others(c)
  BY <1>2, <1>7, <1>8, <1>14 DEF Others, TypeInv
<1>17. ClientOK(q, client[c], back[c], answers[c])
  <2>1. ClientOK(k, client[c], back[c], answers[c])
    BY <1>2 DEF EndOK
  <2>2. QED
    BY <1>2, <1>11, <2>1, ClientGrows
<1>18. InputOK(s, g, n, TypesOf(s, n))
  BY <1>2, <1>4, <1>6 DEF EndOK, InputOK
<1>19. ConnOK(q)
  BY <1>2, <1>11 DEF EndOK, ConnOK
<1>20. c \in errors' => Stuck(s, g, n)
  <2>1. ASSUME c \in errors PROVE Stuck(s, g, n)
    <3>1. Stuck(s, got[c], u)
      BY <1>2, <2>1 DEF EndOK
    <3>2. n = u
      BY <1>6, <3>1
    <3>3. SizeOf(s, u + 1) <= got[c] /\ u < Len(s)
      BY <3>1 DEF Stuck
    <3>4. SizeOf(s, u + 1) \in Nat
      BY <1>2, <1>3, <1>5, <3>3, SizeOfStep
    <3>5. QED
      BY <1>2, <1>4, <3>2, <3>3, <3>4 DEF Stuck
  <2>2. QED
    BY <1>6, <1>7, <2>1
<1>21. EndOK(c)'
  <2>1. RepliesOK(q, s, n)
    BY <1>11 DEF RepliesOK
  <2>2. sent'[c] = s /\ client'[c] = client[c] /\ back'[c] = back[c] /\ answers'[c] = answers[c]
    BY <1>7
  <2> HIDE DEF s
  <2>3. QED
    BY <1>13, <1>14, <1>17, <1>18, <1>19, <1>20, <2>1, <2>2 DEF EndOK
<1>22. ASSUME c \in errors PROVE used'[c] = used[c] /\ handled'[c] = handled[c]
  <2>1. Stuck(s, got[c], u)
    BY <1>2, <1>22 DEF EndOK
  <2>2. n = u
    BY <1>6, <2>1
  <2>3. QED
    BY <1>5, <1>13, <1>14, <2>2
<1>23. IInv'
  BY <1>15, <1>16, <1>21, OneEnd
<1>24. u <= n
  BY <1>3, <1>5, <1>6
<1>25. Begins(sent[c], sent'[c])
  BY <1>3, <1>7 DEF Begins
<1>26. QED
  BY <1>7, <1>11, <1>13, <1>16, <1>22, <1>23, <1>24, <1>25 DEF Moves

\* A step of the connection that reads nothing.
LEMMA ConnectionInv ==
  ASSUME IInv, NEW c \in Conn, NEW q \in Connection(Answers), conn' = [conn EXCEPT ![c] = q],
         Grown(conn[c], q, Answers), Total(q) = Total(conn[c]), ConnOK(q),
         q.state = "kConnected" => conn[c].state = "kConnected",
         UNCHANGED <<client, sent, held, got, used, errors, handled, back, answers>>
  PROVE  IInv' /\ Moves(c)
<1>1. TypeInv /\ EndOK(c) /\ conn[c] \in Connection(Answers) /\ back[c] \in Nat
      /\ sent[c] \in Seq(Wire) /\ used[c] \in Nat
  BY DEF IInv, TypeInv
<1>2. conn'[c] = q
  BY <1>1 DEF TypeInv
<1>3. TypeInv'
  BY <1>1 DEF TypeInv
<1>4. Others(c)
  BY <1>1 DEF Others, TypeInv
<1>5. ClientOK(q, client[c], back[c], answers[c])
  <2>1. ClientOK(conn[c], client[c], back[c], answers[c])
    BY <1>1 DEF EndOK
  <2>2. QED
    BY <1>1, <2>1, ClientGrows
<1>6. RepliesOK(q, sent[c], used[c])
  BY <1>1 DEF EndOK, RepliesOK
<1>7. EndOK(c)'
  BY <1>1, <1>2, <1>5, <1>6 DEF EndOK
<1>8. Begins(sent[c], sent'[c])
  BY <1>1, LenProperties DEF Begins
<1>9. Moves(c)
  BY <1>1, <1>2, <1>4, <1>8 DEF Moves
<1>10. QED
  BY <1>3, <1>4, <1>7, <1>9, OneEnd

LEMMA ServerWritableInv ==
  ASSUME IInv, NEW c \in Conn, ServerWritable(c) PROVE IInv' /\ Moves(c)
<1>1. PICK o \in HandleWrite(conn[c]) : conn' = [conn EXCEPT ![c] = o.conn]
  BY DEF ServerWritable
<1>2. conn[c] \in Connection(Answers) /\ ConnOK(conn[c])
  BY DEF IInv, TypeInv, EndOK
<1>3. Drained(conn[c])
  BY <1>2 DEF Drained, ConnOK
<1>4. o.conn \in Connection(Answers) /\ o.conn.state = conn[c].state
  BY <1>2, HandleWriteType
<1>5. Total(o.conn) = Total(conn[c]) /\ (o.conn.fin => conn[c].state = "kDisconnecting")
  BY <1>2, <1>3, HandleWriteTotal
<1>6. Grown(conn[c], o.conn, Answers)
  BY <1>2, HandleWriteWire
<1>7. ConnOK(o.conn)
  BY <1>2, <1>4, <1>5 DEF ConnOK
<1>8. UNCHANGED <<client, sent, held, got, used, errors, handled, back, answers>>
  BY DEF ServerWritable
<1>9. QED
  BY <1>1, <1>4, <1>5, <1>6, <1>7, <1>8, ConnectionInv

LEMMA ServerOnDownInv ==
  ASSUME IInv, NEW c \in Conn, ServerOnDown(c) PROVE IInv' /\ Moves(c)
<1> DEFINE q == HandleClose(conn[c])
<1>1. conn[c] \in Connection(Answers) /\ ConnOK(conn[c])
  BY DEF IInv, TypeInv, EndOK
<1>2. /\ q \in Connection(Answers) /\ q.state = "kDisconnected" /\ q.fin = conn[c].fin
      /\ q.wire = conn[c].wire /\ q.out = conn[c].out
  BY <1>1 DEF HandleClose, Connection, ConnState
<1>3. conn' = [conn EXCEPT ![c] = q] /\ UNCHANGED <<client, sent, held, got, used, errors, handled, back, answers>>
  BY DEF ServerOnDown
<1> HIDE DEF q
<1>4. Grown(conn[c], q, Answers)
  BY <1>1, <1>2, GrownSame
<1>5. Total(q) = Total(conn[c])
  BY <1>2 DEF Total
<1>6. ConnOK(q)
  BY <1>1, <1>2 DEF ConnOK
<1>7. QED
  BY <1>2, <1>3, <1>4, <1>5, <1>6, ConnectionInv

\* More input of a client: what has been cut, asked and handled stays so.
LEMMA ClientSendInv ==
  ASSUME IInv, NEW c \in Conn, NEW f \in Frames, NEW h \in Held, ClientSend(c, f, h)
  PROVE  IInv' /\ Moves(c)
<1> DEFINE s == sent[c]
           t == Append(s, f)
           u == used[c]
<1>1. /\ TypeInv /\ EndOK(c) /\ conn[c] \in Connection(Answers)
      /\ s \in Seq(Wire) /\ u \in Nat /\ got[c] \in Nat /\ f \in Wire
  BY FramesAreWire DEF IInv, TypeInv
<1>2. /\ t \in Seq(Wire) /\ Len(t) = Len(s) + 1 /\ Len(s) \in Nat
      /\ \A i \in 1..Len(s) : t[i] = s[i]
  BY <1>1, AppendProperties, LenProperties
<1>3. /\ sent' = [sent EXCEPT ![c] = t] /\ Len(s) < MaxFrames
      /\ held' = [held EXCEPT ![c] = h]
      /\ UNCHANGED <<conn, client, got, used, errors, handled, back, answers>>
  BY DEF ClientSend
<1> HIDE DEF t
<1>4. sent'[c] = t /\ \A d \in Conn \ {c} : sent'[d] = sent[d]
  BY <1>1, <1>3 DEF TypeInv
<1>5. TypeInv'
  BY <1>1, <1>2, <1>3, MaxFramesAssumption DEF TypeInv
<1>6. Others(c)
  BY <1>3, <1>4 DEF Others
<1>7. Cut(s, got[c], u) /\ got[c] <= SizeOf(s, Len(s)) /\ u \in 0..Len(s) /\ handled[c] = TypesOf(s, u)
  BY <1>1 DEF EndOK, InputOK, Cut
<1>8. Cut(t, got[c], u) /\ got[c] <= SizeOf(t, Len(t)) /\ (Stuck(t, got[c], u) <=> Stuck(s, got[c], u))
  <2>1. Len(s) <= Len(t)
    BY <1>2
  <2>2. QED
    BY <1>1, <1>2, <1>7, <2>1, CutMore
<1>9. TypesOf(t, u) = TypesOf(s, u)
  <2>1. \A i \in 1..u : t[i] = s[i]
    BY <1>2, <1>7
  <2>2. QED
    BY <2>1 DEF TypesOf
<1>10. AskedUpTo(t, u) = AskedUpTo(s, u)
  <2>1. \A j \in 1..u : j \in 1..Len(s) /\ j \in 1..Len(t) /\ t[j] = s[j]
    BY <1>2, <1>7
  <2>2. \A j \in 1..u : j \in Queried(t) <=> j \in Queried(s)
    BY <2>1 DEF Queried
  <2>3. QED
    BY <1>1, <2>2, AskedSame DEF AskedUpTo
<1>11. InputOK(t, got[c], u, handled[c])
  <2>1. Len(t) <= MaxFrames
    BY <1>2, <1>3, MaxFramesAssumption
  <2>2. QED
    BY <1>7, <1>8, <1>9, <2>1 DEF InputOK
<1>12. EndOK(c)'
  <2>1. RepliesOK(conn[c], t, u)
    BY <1>1, <1>10 DEF EndOK, RepliesOK
  <2>2. c \in errors => Stuck(t, got[c], u)
    BY <1>1, <1>8 DEF EndOK
  <2>3. QED
    BY <1>1, <1>3, <1>4, <1>11, <2>1, <2>2 DEF EndOK
<1>13. Grown(conn[c], conn'[c], Answers)
  BY <1>1, <1>3, GrownSame
<1>14. Begins(sent[c], sent'[c])
  BY <1>2, <1>4 DEF Begins
<1>15. Moves(c)
  BY <1>1, <1>3, <1>6, <1>13, <1>14 DEF Moves
<1>16. QED
  BY <1>5, <1>6, <1>12, <1>15, OneEnd

\* A step of the client's process that touches neither the server nor the
\* frames sent.
LEMMA ClientInv ==
  ASSUME IInv, NEW c \in Conn, NEW cl \in {"up", "shut", "gone"}, NEW g \in Nat, NEW n \in Nat,
         client' = [client EXCEPT ![c] = cl], back' = [back EXCEPT ![c] = g],
         answers' = [answers EXCEPT ![c] = n], ClientOK(conn[c], cl, g, n),
         cl = "up" => client[c] = "up",
         UNCHANGED <<conn, sent, held, got, used, errors, handled>>
  PROVE  IInv' /\ Moves(c)
<1>1. TypeInv /\ EndOK(c) /\ conn[c] \in Connection(Answers) /\ sent[c] \in Seq(Wire) /\ used[c] \in Nat
  BY DEF IInv, TypeInv
<1>2. client'[c] = cl /\ back'[c] = g /\ answers'[c] = n
  BY <1>1 DEF TypeInv
<1>3. TypeInv'
  BY <1>1 DEF TypeInv
<1>4. Others(c)
  BY <1>1 DEF Others, TypeInv
<1>5. EndOK(c)'
  BY <1>1, <1>2 DEF EndOK
<1>6. Grown(conn[c], conn'[c], Answers)
  BY <1>1, GrownSame
<1>7. Begins(sent[c], sent'[c])
  BY <1>1, LenProperties DEF Begins
<1>8. Moves(c)
  BY <1>1, <1>2, <1>4, <1>6, <1>7 DEF Moves
<1>9. QED
  BY <1>3, <1>4, <1>5, <1>8, OneEnd

LEMMA ClientReadsInv ==
  ASSUME IInv, NEW c \in Conn, ClientReads(c) PROVE IInv' /\ Moves(c)
<1>1. PICK g \in 1..SizeOf(conn[c].wire, Len(conn[c].wire)) : ClientOnMessage(c, g)
  BY DEF ClientReads
<1> DEFINE k == conn[c]
           n == LoopEnd(k.wire, g, answers[c])
           cl == IF Refuses(k.wire, g, n) THEN DefaultErrorCallback(client[c]) ELSE client[c]
<1>2. /\ TypeInv /\ EndOK(c) /\ k \in Connection(Answers) /\ back[c] \in Nat
      /\ client[c] \in {"up", "shut", "gone"}
  BY DEF IInv, TypeInv
<1>3. k.wire \in Seq(Wire)
  BY <1>2, WireTypes DEF Connection
<1>4. SizeOf(k.wire, Len(k.wire)) \in Nat
  BY <1>3, SizeOfStep
<1>5. /\ g \in Nat /\ back[c] <= g /\ g <= SizeOf(k.wire, Len(k.wire))
  BY <1>1, <1>2, <1>4 DEF ClientOnMessage
<1>6. ClientOK(k, client[c], back[c], answers[c])
  BY <1>2 DEF EndOK
<1>7. ClientOK(k, cl, g, n) /\ n \in Nat
  BY <1>2, <1>5, <1>6, ClientCuts
<1>8. cl \in {"up", "shut", "gone"} /\ (cl = "up" => client[c] = "up")
  BY <1>2 DEF DefaultErrorCallback
<1>9. /\ back' = [back EXCEPT ![c] = g] /\ answers' = [answers EXCEPT ![c] = n]
      /\ client' = [client EXCEPT ![c] = cl]
      /\ UNCHANGED <<conn, sent, held, got, used, errors, handled>>
  BY <1>1 DEF ClientOnMessage
<1> HIDE DEF n, cl
<1>10. QED
  BY <1>5, <1>7, <1>8, <1>9, ClientInv

LEMMA ClientExitInv ==
  ASSUME IInv, NEW c \in Conn, ClientExit(c) PROVE IInv' /\ Moves(c)
<1>1. TypeInv /\ EndOK(c) /\ back[c] \in Nat /\ answers[c] \in Nat
  BY DEF IInv, TypeInv
<1>2. ClientOK(conn[c], "gone", back[c], answers[c])
  BY <1>1 DEF EndOK, ClientOK
<1>3. /\ client' = [client EXCEPT ![c] = "gone"]
      /\ back' = [back EXCEPT ![c] = back[c]] /\ answers' = [answers EXCEPT ![c] = answers[c]]
      /\ UNCHANGED <<conn, sent, held, got, used, errors, handled>>
  BY <1>1 DEF ClientExit, TypeInv
<1>4. QED
  BY <1>1, <1>2, <1>3, ClientInv

\* Every step moves one connection on.
LEMMA NextMoves == ASSUME IInv, Next PROVE IInv' /\ \E c \in Conn : Moves(c)
<1>1. ASSUME NEW c \in Conn, ServerReads(c) PROVE IInv' /\ Moves(c)
  BY <1>1, ServerReadsInv
<1>2. ASSUME NEW c \in Conn, ServerWritable(c) PROVE IInv' /\ Moves(c)
  BY <1>2, ServerWritableInv
<1>3. ASSUME NEW c \in Conn, ServerOnDown(c) PROVE IInv' /\ Moves(c)
  BY <1>3, ServerOnDownInv
<1>4. ASSUME NEW c \in Conn, ClientReads(c) PROVE IInv' /\ Moves(c)
  BY <1>4, ClientReadsInv
<1>5. ASSUME NEW c \in Conn, ClientExit(c) PROVE IInv' /\ Moves(c)
  BY <1>5, ClientExitInv
<1>6. ASSUME NEW c \in Conn, NEW f \in Frames, NEW h \in Held, ClientSend(c, f, h)
      PROVE  IInv' /\ Moves(c)
  BY <1>6, ClientSendInv
<1>7. PICK c \in Conn : \/ ServerReads(c) \/ ServerWritable(c) \/ ServerOnDown(c)
                        \/ ClientReads(c) \/ ClientExit(c)
                        \/ \E f \in Frames, h \in Held : ClientSend(c, f, h)
  BY DEF Next
<1>8. IInv' /\ Moves(c)
  BY <1>1, <1>2, <1>3, <1>4, <1>5, <1>6, <1>7
<1>9. QED
  BY <1>8

LEMMA NextInv == ASSUME IInv, [Next]_vars PROVE IInv'
<1>1. CASE Next
  BY <1>1, NextMoves
<1>2. CASE UNCHANGED vars
  <2>1. UNCHANGED <<conn, client, sent, held, got, used, errors, handled, back, answers>>
    BY <1>2 DEF vars
  <2>2. TypeInv'
    BY <2>1 DEF IInv, TypeInv
  <2>3. ASSUME NEW c \in Conn PROVE EndOK(c)'
    BY <2>1 DEF IInv, EndOK
  <2>4. QED
    BY <2>2, <2>3 DEF IInv
<1>3. QED
  BY <1>1, <1>2

LEMMA Invariance == Spec => []IInv
<1>1. Init => IInv
  BY InitInv
<1>2. IInv /\ [Next]_vars => IInv'
  BY NextInv
<1>3. QED
  BY <1>1, <1>2, PTL DEF Spec
-----------------------------------------------------------------------------
(* The properties.                                                         *)

\* However the bytes of a client arrive, the server has dispatched exactly
\* the messages of the complete, readable frames before the first frame that
\* cannot be read (the loop of ProtobufCodec::onMessage).
THEOREM CutsByContent == Spec => []CutByContent
<1>1. ASSUME IInv, NEW c \in Conn
      PROVE  LET complete == {n \in 0..Len(sent[c]) : SizeOf(sent[c], n) <= got[c]}
                 readable == {n \in complete : \A i \in 1..n : Verdict(sent[c][i]) = "kNoError"}
                 most == CHOOSE n \in readable : \A m \in readable : m <= n
             IN  handled[c] = [i \in 1..most |-> sent[c][i].type]
  <2> DEFINE s == sent[c]
             u == used[c]
             complete == {n \in 0..Len(s) : SizeOf(s, n) <= got[c]}
             readable == {n \in complete : \A i \in 1..n : Verdict(s[i]) = "kNoError"}
             most == CHOOSE n \in readable : \A m \in readable : m <= n
  <2>1. /\ s \in Seq(Wire) /\ got[c] \in Nat /\ u \in Nat
        /\ Cut(s, got[c], u) /\ handled[c] = TypesOf(s, u)
    BY <1>1 DEF IInv, TypeInv, EndOK, InputOK
  <2>2. /\ Len(s) \in Nat /\ \A k \in 0..Len(s) : SizeOf(s, k) \in Nat
    BY <2>1, SizeOfStep
  <2>3. u \in readable
    BY <2>1 DEF Cut
  <2>4. ASSUME NEW m \in readable, m > u PROVE FALSE
    <3>1. m \in 0..Len(s) /\ SizeOf(s, m) <= got[c] /\ \A i \in 1..m : Verdict(s[i]) = "kNoError"
      OBVIOUS
    <3>2. u + 1 \in 0..Len(s) /\ m \in (u + 1)..Len(s) /\ u + 1 \in 1..m /\ u < Len(s)
      BY <2>1, <2>2, <2>4, <3>1
    <3>3. SizeOf(s, u + 1) <= SizeOf(s, m)
      BY <2>1, <3>2, SizeOfRises
    <3>4. SizeOf(s, u + 1) <= got[c]
      BY <2>1, <2>2, <3>1, <3>2, <3>3
    <3>5. Verdict(s[u + 1]) # "kNoError"
      BY <2>1, <3>2, <3>4 DEF Cut
    <3>6. QED
      BY <3>1, <3>2, <3>5
  <2>5. readable \subseteq Nat
    BY <2>2
  <2> HIDE DEF readable
  <2>6. \A m \in readable : m <= u
    BY <2>1, <2>4, <2>5
  <2>7. most \in readable /\ \A m \in readable : m <= most
    BY <2>3, <2>6, Zenon
  <2>8. most = u
    <3> HIDE DEF most
    <3>1. most <= u /\ u <= most /\ most \in Nat
      BY <2>3, <2>5, <2>6, <2>7
    <3>2. QED
      BY <2>1, <3>1
  <2>9. handled[c] = [i \in 1..most |-> s[i].type]
    BY <2>1, <2>8 DEF TypesOf
  <2>10. QED
    BY <2>9 DEF readable
<1>2. ASSUME IInv PROVE CutByContent
  BY <1>1, <1>2, Zenon DEF CutByContent
<1>3. QED
  BY <1>2, Invariance, PTL

\* Only an answer beyond kMaxMessageLen, which send() does not check, makes
\* the client's codec shut the connection down (defaultErrorCallback).
THEOREM RefusesOnlyTooLong == Spec => []ClientRefusesOnlyTooLong
<1>1. ASSUME IInv PROVE ClientRefusesOnlyTooLong
  <2>1. ASSUME NEW c \in Conn, client[c] = "shut"
        PROVE  \E i \in DOMAIN conn[c].wire : conn[c].wire[i].len > kMaxMessageLen
    <3>1. \E i \in 1..Len(conn[c].wire) : conn[c].wire[i].len > kMaxMessageLen
      BY <1>1, <2>1 DEF IInv, EndOK, ClientOK
    <3>2. conn[c].wire \in Seq(Answers)
      BY <1>1 DEF IInv, TypeInv, Connection
    <3>3. DOMAIN conn[c].wire = 1..Len(conn[c].wire)
      BY <3>2, LenProperties
    <3>4. QED
      BY <3>1, <3>3
  <2>2. QED
    BY <2>1 DEF ClientRefusesOnlyTooLong
<1>2. QED
  BY <1>1, Invariance, PTL

\* Once the server's error callback has run on a connection, no message of
\* it is dispatched again (onPbErrMssage leaves the frame in the buffer).
THEOREM StaysPoisoned == Spec => PoisonedForGood
<1> DEFINE Same == \A c \in errors : handled'[c] = handled[c] /\ used'[c] = used[c]
<1>1. ASSUME IInv, [Next]_vars PROVE [Same]_vars
  <2>1. CASE UNCHANGED vars
    BY <2>1
  <2>2. CASE Next
    <3>1. PICK c \in Conn : Moves(c)
      BY <1>1, <2>2, NextMoves
    <3>2. ASSUME NEW d \in errors PROVE handled'[d] = handled[d] /\ used'[d] = used[d]
      <4>1. d \in Conn
        BY <1>1 DEF IInv, TypeInv
      <4>2. CASE d = c
        BY <3>1, <3>2, <4>2 DEF Moves
      <4>3. CASE d # c
        BY <3>1, <4>1, <4>3 DEF Moves, Others
      <4>4. QED
        BY <4>2, <4>3
    <3>3. QED
      BY <3>2
  <2>3. QED
    BY <1>1, <2>1, <2>2
<1>2. QED
  BY <1>1, Invariance, PTL DEF Spec, PoisonedForGood
-----------------------------------------------------------------------------
(* The refinement of RequestReply, but for its liveness.                   *)

\* The queries among the handled messages h, in order, and what the abstract
\* specification calls the replies on the connection k.
QueriesIn(h) == {i \in DOMAIN h : h[i] = "Query"}
Listed(h) == Kept([i \in DOMAIN h |-> i], QueriesIn(h))
Replies(k, h) ==
  [n \in DOMAIN k.wire |-> IF n <= Len(Listed(h)) THEN Listed(h)[n] ELSE 0]

LEMMA ListedAre ==
  ASSUME NEW s \in Seq(Wire), NEW g, NEW u, NEW h, InputOK(s, g, u, h)
  PROVE  /\ Listed(h) = AskedUpTo(s, u)
         /\ Listed(h) \in Seq(Places) /\ Len(Listed(h)) \in Nat /\ Distinct(Listed(h))
         /\ \A x : IsIn(x, Listed(h)) <=> x \in QueriesIn(h)
         /\ \A x : x \in QueriesIn(h) <=> x \in 1..u /\ s[x].type = "Query"
<1>1. u \in Nat /\ u \in 0..Len(s) /\ h = TypesOf(s, u) /\ Len(s) \in Nat
  BY LenProperties DEF InputOK, Cut
<1>2. DOMAIN h = 1..u /\ \A i \in 1..u : h[i] = s[i].type
  BY <1>1 DEF TypesOf
<1>3. \A x : x \in QueriesIn(h) <=> x \in 1..u /\ s[x].type = "Query"
  BY <1>2 DEF QueriesIn
<1>4. \A j \in 1..u : j \in QueriesIn(h) <=> j \in Queried(s)
  BY <1>1, <1>3 DEF Queried
<1>5. Kept(UpTo(u), QueriesIn(h)) = Kept(UpTo(u), Queried(s))
  BY <1>1, <1>4, AskedSame
<1>6. [i \in DOMAIN h |-> i] = UpTo(u)
  BY <1>2 DEF UpTo
<1>7. /\ AskedUpTo(s, u) \in Seq(Places) /\ Len(AskedUpTo(s, u)) \in Nat
      /\ Distinct(AskedUpTo(s, u))
      /\ \A x : IsIn(x, AskedUpTo(s, u)) <=> x \in 1..u /\ s[x].type = "Query"
  BY <1>1, AskedType
<1>8. Listed(h) = AskedUpTo(s, u)
  BY <1>5, <1>6 DEF Listed, AskedUpTo
<1>9. QED
  BY <1>3, <1>7, <1>8

\* There is a query for each answer that was sent.
LEMMA RepliesAre ==
  ASSUME NEW k \in Connection(Answers), NEW s \in Seq(Wire), NEW g, NEW u, NEW h,
         InputOK(s, g, u, h), RepliesOK(k, s, u)
  PROVE  /\ Replies(k, h) \in Seq(Places) /\ Len(Replies(k, h)) = Len(k.wire)
         /\ Len(k.wire) \in Nat /\ Len(k.wire) <= Len(Listed(h))
         /\ \A n \in 1..Len(k.wire) : n \in 1..Len(Listed(h)) /\ Replies(k, h)[n] = Listed(h)[n]
<1> DEFINE a == Listed(h)
<1>1. a = AskedUpTo(s, u) /\ a \in Seq(Places) /\ Len(a) \in Nat
  BY ListedAre
<1>2. k.wire \in Seq(Answers) /\ k.out \in Seq(Answers)
  BY DEF Connection
<1>3. /\ Len(k.wire) \in Nat /\ Len(k.out) \in Nat
      /\ Len(Total(k)) = Len(k.wire) + Len(k.out)
  BY <1>2, ConcatProperties, LenProperties DEF Total
<1> HIDE DEF a
<1>4. Len(k.wire) <= Len(a)
  <2>1. Len(Total(k)) <= Len(a)
    BY <1>1, Zenon DEF RepliesOK
  <2>2. ASSUME NEW x \in Nat, NEW y \in Nat, NEW z \in Nat, NEW r, r = x + y, r <= z PROVE x <= z
    BY <2>2
  <2>3. Len(a) \in Nat
    BY <1>1
  <2>4. QED
    BY <1>3, <2>1, <2>2, <2>3, Zenon
<1>5. DOMAIN k.wire = 1..Len(k.wire)
  BY <1>2, LenProperties
<1>6. ASSUME NEW n \in 1..Len(k.wire) PROVE n \in 1..Len(a) /\ n <= Len(a) /\ a[n] \in Places
  BY <1>1, <1>3, <1>4, LenProperties
<1>7. Replies(k, h) = [n \in 1..Len(k.wire) |-> a[n]]
  BY <1>5, <1>6 DEF Replies, a
<1>8. QED
  BY <1>3, <1>4, <1>6, <1>7 DEF a

\* As a connection moves on, the replies do, with new ones to queries that
\* have been dispatched.
LEMMA RepliesExtend ==
  ASSUME NEW k \in Connection(Answers), NEW q \in Connection(Answers), Grown(k, q, Answers),
         NEW s \in Seq(Wire), NEW t \in Seq(Wire), Begins(s, t),
         NEW u, NEW v, u <= v, NEW g, NEW w, NEW h, NEW j,
         InputOK(s, g, u, h), RepliesOK(k, s, u),
         InputOK(t, w, v, j), RepliesOK(q, t, v)
  PROVE  /\ Queries!Extends(Replies(q, j), Replies(k, h), QueriesIn(j))
         /\ QueriesIn(h) \subseteq QueriesIn(j) /\ QueriesIn(j) \subseteq 1..MaxFrames
<1> DEFINE old == Replies(k, h)
           new == Replies(q, j)
           a == Listed(h)
           b == Listed(j)
           L == Len(k.wire)
           M == Len(q.wire)
<1>1. /\ old \in Seq(Places) /\ Len(old) = L /\ L \in Nat /\ L <= Len(a)
      /\ \A n \in 1..L : n \in 1..Len(a) /\ old[n] = a[n]
  BY RepliesAre
<1>2. /\ new \in Seq(Places) /\ Len(new) = M /\ M \in Nat /\ M <= Len(b)
      /\ \A n \in 1..M : n \in 1..Len(b) /\ new[n] = b[n]
  BY RepliesAre
<1>3. /\ a = AskedUpTo(s, u) /\ Len(a) \in Nat
      /\ \A x : x \in QueriesIn(h) <=> x \in 1..u /\ s[x].type = "Query"
  BY ListedAre
<1>4. /\ b = AskedUpTo(t, v) /\ Len(b) \in Nat /\ Distinct(b)
      /\ \A x : IsIn(x, b) <=> x \in QueriesIn(j)
      /\ \A x : x \in QueriesIn(j) <=> x \in 1..v /\ t[x].type = "Query"
  BY ListedAre
<1>5. L <= M
  BY GrownWire
<1>6. /\ u \in 0..Len(s) /\ v \in 0..Len(t) /\ Len(t) <= MaxFrames
      /\ Len(s) \in Nat /\ Len(t) \in Nat /\ u \in Nat /\ v \in Nat
  BY LenProperties DEF InputOK, Cut
<1>7. Len(s) <= Len(t) /\ \A i \in 1..Len(s) : t[i] = s[i]
  BY DEF Begins
<1> HIDE DEF old, new, a, b, L, M
<1>8. Begins(a, b)
  <2>1. AskedUpTo(t, u) = AskedUpTo(s, u)
    <3>1. \A i \in 1..u : i \in 1..Len(s) /\ i \in 1..Len(t) /\ t[i] = s[i]
      BY <1>6, <1>7
    <3>2. \A i \in 1..u : i \in Queried(t) <=> i \in Queried(s)
      BY <3>1 DEF Queried
    <3>3. QED
      BY <1>6, <3>2, AskedSame DEF AskedUpTo
  <2>2. u \in 0..Len(t) /\ v \in u..Len(t)
    BY <1>6, <1>7
  <2>3. Begins(AskedUpTo(t, u), AskedUpTo(t, v))
    BY <2>2, AskedGrows
  <2>4. QED
    BY <1>3, <1>4, <2>1, <2>3
<1>9. SubSeq(new, 1, L) = old
  <2> DEFINE r == SubSeq(new, 1, L)
  <2>1. \A i \in 1..L : new[i] \in Places
    BY <1>1, <1>2, <1>5, LenProperties
  <2>2. r \in Seq(Places) /\ Len(r) = L /\ \A i \in 1..L : r[i] = new[i]
    <3>1. /\ r \in Seq(Places)
          /\ Len(r) = IF 1 <= L THEN L - 1 + 1 ELSE 0
          /\ \A i \in 1..(L - 1 + 1) : r[i] = new[1 + i - 1]
      BY <1>1, <1>2, <2>1, SubSeqProperties
    <3>2. QED
      BY <1>1, <3>1
  <2> HIDE DEF r
  <2>3. ASSUME NEW i \in 1..L PROVE r[i] = old[i]
    <3>1. i \in 1..M /\ i \in 1..Len(a) /\ old[i] = a[i]
      BY <1>1, <1>2, <1>5
    <3>2. new[i] = b[i] /\ b[i] = a[i]
      BY <1>2, <1>8, <3>1 DEF Begins
    <3>3. QED
      BY <2>2, <3>1, <3>2
  <2>4. r = old
    BY <1>1, <2>2, <2>3, SeqEqual
  <2>5. QED
    BY <2>4 DEF r
<1>10. ASSUME NEW i \in (L + 1)..M PROVE new[i] \in QueriesIn(j) /\ \A m \in 1..(i - 1) : new[m] # new[i]
  <2>1. i \in 1..M /\ i \in 1..Len(b) /\ new[i] = b[i]
    BY <1>1, <1>2
  <2>2. new[i] \in QueriesIn(j)
    BY <1>4, <2>1 DEF IsIn
  <2>3. ASSUME NEW m \in 1..(i - 1) PROVE new[m] # new[i]
    <3>1. m \in 1..M /\ m # i
      BY <1>2, <2>1
    <3>2. m \in 1..Len(b) /\ new[m] = b[m]
      BY <1>2, <3>1
    <3>3. QED
      BY <1>4, <2>1, <3>1, <3>2 DEF Distinct
  <2>4. QED
    BY <2>2, <2>3
<1>11. Queries!Extends(new, old, QueriesIn(j))
  BY <1>1, <1>2, <1>5, <1>9, <1>10 DEF Queries!Extends
<1>12. ASSUME NEW x, x \in QueriesIn(h) PROVE x \in QueriesIn(j)
  <2>1. x \in 1..u /\ s[x].type = "Query"
    BY <1>3, <1>12
  <2>2. x \in 1..v /\ x \in 1..Len(s)
    BY <1>6, <2>1
  <2>3. t[x] = s[x]
    BY <1>7, <2>2
  <2>4. QED
    BY <1>4, <2>1, <2>2, <2>3
<1>13. ASSUME NEW x, x \in QueriesIn(j) PROVE x \in 1..MaxFrames
  BY <1>4, <1>6, <1>13, MaxFramesAssumption
<1>14. QED
  BY <1>11, <1>12, <1>13 DEF old, new

\* A step of one connection serves it.
LEMMA ServeStep ==
  ASSUME IInv, IInv', NEW c \in Conn, Moves(c)
  PROVE  Queries!Next
<1> DEFINE up == {d \in Conn : client[d] = "up" /\ conn[d].state = "kConnected"}
           acc == [d \in Conn |-> Asked(d)]
           rep == [d \in Conn |-> [n \in DOMAIN conn[d].wire |-> NthAsked(d, n)]]
<1>1. Others(c)
  BY DEF Moves
<1>2. up' \in {up, up \ {c}}
  BY <1>1 DEF Moves, Others
<1>3. ASSUME NEW d \in Conn, d # c PROVE acc'[d] = acc[d] /\ rep'[d] = rep[d]
  <2>1. handled'[d] = handled[d] /\ conn'[d] = conn[d]
    BY <1>1, <1>3 DEF Others
  <2>2. Asked(d)' = Asked(d)
    BY <2>1 DEF Asked
  <2>3. \A n : NthAsked(d, n)' = NthAsked(d, n)
    BY <2>1, <2>2 DEF NthAsked
  <2>4. QED
    BY <2>1, <2>2, <2>3
<1>4. /\ rep[c] = Replies(conn[c], handled[c]) /\ rep'[c] = Replies(conn'[c], handled'[c])
      /\ acc[c] = QueriesIn(handled[c]) /\ acc'[c] = QueriesIn(handled'[c])
  BY DEF Replies, Listed, QueriesIn, NthAsked, Asked
<1>5. /\ Queries!Extends(Replies(conn'[c], handled'[c]), Replies(conn[c], handled[c]), QueriesIn(handled'[c]))
      /\ QueriesIn(handled[c]) \subseteq QueriesIn(handled'[c])
      /\ QueriesIn(handled'[c]) \subseteq 1..MaxFrames
  <2>1. /\ conn[c] \in Connection(Answers) /\ sent[c] \in Seq(Wire)
        /\ InputOK(sent[c], got[c], used[c], handled[c]) /\ RepliesOK(conn[c], sent[c], used[c])
    BY DEF IInv, TypeInv, EndOK
  <2>2. /\ conn'[c] \in Connection(Answers) /\ sent'[c] \in Seq(Wire)
        /\ InputOK(sent'[c], got'[c], used'[c], handled'[c]) /\ RepliesOK(conn'[c], sent'[c], used'[c])
    BY DEF IInv, TypeInv, EndOK
  <2>3. Grown(conn[c], conn'[c], Answers) /\ Begins(sent[c], sent'[c]) /\ used[c] <= used'[c]
    BY DEF Moves
  <2>4. QED
    BY <2>1, <2>2, <2>3, RepliesExtend
<1>6. /\ acc = [d \in Conn |-> acc[d]] /\ acc' = [d \in Conn |-> acc'[d]]
      /\ rep = [d \in Conn |-> rep[d]] /\ rep' = [d \in Conn |-> rep'[d]]
  OBVIOUS
<1> HIDE DEF acc, rep
<1>7. acc' = [acc EXCEPT ![c] = @ \cup acc'[c]]
  <2>1. acc[c] \cup acc'[c] = acc'[c]
    BY <1>4, <1>5
  <2>2. QED
    BY <1>3, <1>6, <2>1
<1>8. rep' = [rep EXCEPT ![c] = rep'[c]]
  BY <1>3, <1>6
<1>9. Queries!Extends(rep'[c], rep[c], acc'[c])
  BY <1>4, <1>5
<1>10. \E new \in SUBSET (1..MaxFrames) : acc' = [acc EXCEPT ![c] = @ \cup new]
  BY <1>4, <1>5, <1>7
<1>11. Queries!Serve(c)
  BY <1>2, <1>8, <1>9, <1>10 DEF Queries!Serve, acc, rep
<1>12. QED
  BY <1>11 DEF Queries!Next

LEMMA QueriesInit == ASSUME Init PROVE Queries!Init
<1>1. /\ conn = [c \in Conn |-> ConnectEstablished(Connecting)]
      /\ client = [c \in Conn |-> "up"] /\ handled = [c \in Conn |-> <<>>]
  BY DEF Init
<1>2. \A c \in Conn : conn[c].state = "kConnected" /\ conn[c].wire = <<>>
  BY <1>1 DEF ConnectEstablished, Connecting
<1>3. {c \in Conn : client[c] = "up" /\ conn[c].state = "kConnected"} = Conn
  BY <1>1, <1>2
<1>4. [c \in Conn |-> Asked(c)] = [c \in Conn |-> {}]
  BY <1>1 DEF Asked
<1>5. ASSUME NEW c \in Conn PROVE [n \in DOMAIN conn[c].wire |-> NthAsked(c, n)] = <<>>
  BY <1>2
<1>6. [c \in Conn |-> [n \in DOMAIN conn[c].wire |-> NthAsked(c, n)]] = [c \in Conn |-> <<>>]
  BY <1>5
<1>7. QED
  BY <1>3, <1>4, <1>6 DEF Queries!Init

LEMMA QueriesStep ==
  ASSUME IInv, IInv', [Next]_vars PROVE Queries!Next \/ UNCHANGED Queries!vars
<1>1. CASE Next
  <2>1. PICK c \in Conn : Moves(c)
    BY <1>1, NextMoves
  <2>2. QED
    BY <2>1, ServeStep
<1>2. CASE UNCHANGED vars
  <2>1. UNCHANGED <<conn, client, handled>>
    BY <1>2 DEF vars
  <2>2. QED
    BY <2>1 DEF Queries!vars, NthAsked, Asked
<1>3. QED
  BY <1>1, <1>2

\* However the frames of the clients are mixed and cut, and whatever the
\* sockets take, the server sends an Answer only to a Query it dispatched,
\* once and in their order (onProtobufMessage, onQuery): every step is one of
\* RequestReply.
THEOREM AnswersEachQuery == Spec => QueriesSafety
<1>1. Init => Queries!Init
  BY QueriesInit
<1>2. IInv /\ IInv' /\ [Next]_vars => [Queries!Next]_(Queries!vars)
  BY QueriesStep
<1>3. QED
  BY <1>1, <1>2, Invariance, PTL DEF Spec, QueriesSafety
=============================================================================
