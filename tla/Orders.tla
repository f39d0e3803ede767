------------------------------- MODULE Orders -------------------------------
(***************************************************************************)
(* Finite sets put in order, and sums over them, without recursion in the  *)
(* definition: a place in the order is the number of elements before it.   *)
(***************************************************************************)
EXTENDS Integers, FiniteSets, FiniteSetsExt

\* The elements of S, the ones that come before others first; before is the set of
\* pairs in that order.
Preceding(x, S, before) == {y \in S : <<y, x>> \in before}
InOrder(S, before) ==
  [k \in 1..Cardinality(S) |-> CHOOSE x \in S : Cardinality(Preceding(x, S, before)) = k - 1]

\* A set of numbers, the least first.
Ascending(S) == InOrder(S, {e \in S \X S : e[1] < e[2]})

\* The sum of the values of a function.
SumOf(f) == MapThenSumSet(LAMBDA x : f[x], DOMAIN f)
=============================================================================
