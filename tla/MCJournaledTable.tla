-------------------------- MODULE MCJournaledTable --------------------------
(* Instances of JournaledTable for TLC. *)
EXTENDS JournaledTable, TLC

CONSTANTS k1, k2, v1, v2

\* Keys and values are interchangeable.
Interchangeable == Permutations({k1, k2}) \cup Permutations({v1, v2})

=============================================================================
