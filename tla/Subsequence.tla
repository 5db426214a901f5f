----------------------------- MODULE Subsequence -----------------------------
(***************************************************************************)
(* The loops of the code that keep some entries of a slice, in their       *)
(* order.  SelectSeq of the module Sequences says the same, but recursive  *)
(* functions can only be reasoned about by induction; a position here is   *)
(* found by counting instead.                                              *)
(***************************************************************************)
EXTENDS Integers, Sequences, FiniteSets

\* How many of the positions are not after k
Rank(keep, k) == Cardinality({j \in keep : j <= k})

\* The entries of s at the given positions
Kept(s, keep) ==
    [i \in 1 .. Cardinality(keep) |-> s[CHOOSE k \in keep : Rank(keep, k) = i]]
=============================================================================
