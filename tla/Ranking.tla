------------------------------ MODULE Ranking ------------------------------
(***************************************************************************)
(* How the allocator puts lines and candidates in order: a list is         *)
(* filtered, and sorted by the place of a rank, stably.                    *)
(***************************************************************************)
EXTENDS SequencesExt

\* The elements of s that are in S, in their order.
Those(s, S) == FlattenSeq([n \in 1..Len(s) |-> IF s[n] \in S THEN <<s[n]>> ELSE <<>>])

\* s sorted by the place of rank[x] in ranks, stably.
ByRank(s, rank, ranks) ==
  FlattenSeq([n \in 1..Len(ranks) |-> Those(s, {x \in DOMAIN rank : rank[x] = ranks[n]})])
=============================================================================
