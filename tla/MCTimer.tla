------------------------------ MODULE MCTimer ------------------------------
(***************************************************************************)
(* Timers of two owners, for a clock of nine ticks that wraps around.   *)
(***************************************************************************)
EXTENDS Timer

=============================================================================
