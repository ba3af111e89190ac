------------------------------- MODULE Sieve -------------------------------
(***************************************************************************)
(* The elements of a sequence that are in a set, in their order.  The      *)
(* SelectSeq of module Sequences takes its test as an operator and is      *)
(* RECURSIVE, and the provers can look into neither; a recursive function  *)
(* with a set for its test says the same.                                  *)
(***************************************************************************)
EXTENDS Naturals, Sequences

\* Of every beginning of s what is in S.
Sifted(s, S) ==
  LET f[n \in 0..Len(s)] ==
        IF n = 0 THEN <<>> ELSE IF s[n] \in S THEN Append(f[n - 1], s[n]) ELSE f[n - 1]
  IN  f

Sift(s, S) == Sifted(s, S)[Len(s)]
=============================================================================
