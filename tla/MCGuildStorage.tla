--------------------------- MODULE MCGuildStorage ---------------------------
(* Instances of GuildStorage for TLC. *)
EXTENDS GuildStorage, TLC

CONSTANTS m1, m2, p1, p2

\* Interchangeable map servers and players.
Interchangeable == Permutations({m1, m2}) \cup Permutations({p1, p2})

=============================================================================
