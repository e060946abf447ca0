------------------------------ MODULE Selection ------------------------------
(***************************************************************************)
(* What an iterator's `filter` keeps of a sequence, as a definition        *)
(* without recursion: element k of the result stands at the k-th smallest  *)
(* of the positions kept.                                                  *)
(***************************************************************************)
EXTENDS Naturals, Sequences, FiniteSets

\* The number of positions in S up to i.
Rank(S, i) == Cardinality({j \in S : j <= i})

Nth(S, k) == CHOOSE i \in S : Rank(S, i) = k

\* The elements of s at the positions S, in their order.
At(s, S) == [k \in 1 .. Cardinality(S) |-> s[Nth(S, k)]]
=============================================================================
