---------------------------- MODULE DurableTable ----------------------------
(***************************************************************************)
(* What a journaled table promises, without files: a table that is edited  *)
(* in memory and a durable copy that catches up with it, some keys at a    *)
(* time.  A crash falls back to the durable copy and to nothing else, so   *)
(* what has once been made durable is never undone by a crash.             *)
(***************************************************************************)
CONSTANTS
  Keys,    \* keys of the table
  Values,  \* what a key may hold
  None     \* what a key without a record holds

VARIABLES
  now,   \* the table as its users see it
  safe   \* what a crash would leave of it

Init ==
  /\ now = [k \in Keys |-> None]
  /\ safe = now

Write(k) ==
  /\ \E v \in Values \cup {None} : now' = [now EXCEPT ![k] = v]
  /\ UNCHANGED safe

Store(S) ==
  /\ safe' = [k \in Keys |-> IF k \in S THEN now[k] ELSE safe[k]]
  /\ UNCHANGED now

Crash ==
  /\ now' = safe
  /\ UNCHANGED safe

Next ==
  \/ \E k \in Keys : Write(k)
  \/ \E S \in SUBSET Keys : Store(S)
  \/ Crash

Spec == Init /\ [][Next]_<<now, safe>>

=============================================================================
