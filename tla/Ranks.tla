------------------------------- MODULE Ranks -------------------------------
(***************************************************************************)
(* Ranked lists as the retrieval code keeps them: sequences of entries     *)
(* [p |-> passage, score |-> number], best first, cut with a slice.        *)
(***************************************************************************)
EXTENDS Integers, Sequences, SequencesExt, FiniteSetsExt, Orders

\* seq[:n]
Take(seq, n) == SubSeq(seq, 1, Min({n, Len(seq)}))

\* sorted(..., reverse=True), or by (-score, key): equal scores stand in the order of
\* their keys.
Ranked(S, score, key) ==
  LET better == {e \in S \X S : \/ score[e[1]] > score[e[2]]
                                \/ score[e[1]] = score[e[2]] /\ key[e[1]] < key[e[2]]}
      order  == InOrder(S, better)
  IN  [k \in DOMAIN order |-> [p |-> order[k], score |-> score[order[k]]]]

Members(ranking) == {ranking[i].p : i \in DOMAIN ranking}
=============================================================================
