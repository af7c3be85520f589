-------------------------------- MODULE Sums --------------------------------
(***************************************************************************)
(* Totals of natural-number ledgers.  The program keeps running totals     *)
(* (total_staked, total_claimable, outstanding_intent_amount, locked) next *)
(* to the entries they summarise; the invariants compare the two.          *)
(*                                                                         *)
(* Sum is defined by counting: every unit of every entry is one element of *)
(* Units(f, S), so the laws of Sum are laws of cardinality and need no     *)
(* induction over S.                                                       *)
(***************************************************************************)
EXTENDS Naturals, FiniteSets

\* One element <<x, i>> for each unit i of the entry f[x].
Units(f, S) == UNION {{x} \X (1..f[x]) : x \in S}

\* The total of f over the finite set S.
Sum(f, S) == Cardinality(Units(f, S))
=============================================================================
