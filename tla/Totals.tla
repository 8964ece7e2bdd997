------------------------------- MODULE Totals -------------------------------
(***************************************************************************)
(* Totals of money columns.  A column is a function from a finite set of   *)
(* rows to naturals, and its total is the number of its units: row r with  *)
(* the value n owns the n units <<r, 1>> .. <<r, n>>.  Counting units      *)
(* instead of folding keeps the definition free of recursion, so that what *)
(* an update does to a total follows from facts on cardinalities.          *)
(***************************************************************************)
EXTENDS Integers, FiniteSets

Units(f) == UNION {{r} \X (1..f[r]) : r \in DOMAIN f}

Total(f) == Cardinality(Units(f))
=============================================================================
