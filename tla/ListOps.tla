------------------------------- MODULE ListOps -------------------------------
(***************************************************************************)
(* Two operators on sequences that several modules need, written as        *)
(* recursive functions so that they can be reasoned about.                 *)
(***************************************************************************)
EXTENDS Integers, Sequences

\* The elements of s that are in T, in their order.
Kept(s, T) ==
  LET upTo[k \in 0..Len(s)] ==
        IF k = 0 THEN <<>>
        ELSE IF s[k] \in T THEN Append(upTo[k - 1], s[k]) ELSE upTo[k - 1]
  IN  upTo[Len(s)]

\* The sum of the elements of s.
AddUp(s) ==
  LET upTo[k \in 0..Len(s)] == IF k = 0 THEN 0 ELSE upTo[k - 1] + s[k]
  IN  upTo[Len(s)]
=============================================================================
