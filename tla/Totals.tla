------------------------------- MODULE Totals -------------------------------
(***************************************************************************)
(* The sum of a function over a finite set, defined without recursion: a   *)
(* natural number is the size of an interval, so a sum of natural numbers  *)
(* is the number of pairs of an element and a unit of its number.  TLC     *)
(* counts the pairs; TLAPS proves about them from the cardinality theorems.*)
(***************************************************************************)
EXTENDS Integers, FiniteSets

Units(S, f) == UNION { {x} \X (1..f[x]) : x \in S }
Total(S, f) == Cardinality(Units(S, f))
=============================================================================
