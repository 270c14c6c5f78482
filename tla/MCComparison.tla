---------------------------- MODULE MCComparison ----------------------------
(***************************************************************************)
(* Small instances of Comparison: one engine a cancel can stop and one it  *)
(* cannot.                                                                 *)
(***************************************************************************)
EXTENDS Comparison, TLC

ThreePaths == <<"cassandra", "presto", "cqlite">>
TwoPaths   == <<"cassandra", "presto">>

Symmetry == Permutations(Runs) \cup Permutations(Cancels)

=============================================================================
