----------------------------- MODULE MCQueryServer -----------------------------
(* Model-checking instances of the protobuf server and its clients.  The   *)
(* four bytes of a word are scaled to one, the length limit to ten.        *)
EXTENDS QueryServer

Types == {"Query", "Answer", "Empty"}
Names == [t \in Types |-> 2]

GoodQuery == FillEmptyBuffer("Query", 1)

\* One frame for each way a frame can go wrong, and the readable ones.
AllFrames ==
  {GoodQuery, FillEmptyBuffer("Answer", 1), FillEmptyBuffer("Empty", 0),
   FillEmptyBuffer("Query", 5),
   [GoodQuery EXCEPT !.len = 3],         [GoodQuery EXCEPT !.sum = FALSE],
   [GoodQuery EXCEPT !.nameLen = 9],     [GoodQuery EXCEPT !.type = "Other"],
   [GoodQuery EXCEPT !.parses = FALSE]}
=============================================================================
