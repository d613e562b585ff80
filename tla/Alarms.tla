------------------------------- MODULE Alarms -------------------------------
(***************************************************************************)
(* What timers promise their users, without ticks that wrap around, slots  *)
(* or a heap: an alarm rings when its time has come and not before, once   *)
(* or again and again; one that was cancelled does not ring; one at a time *)
(* rings, and none waits for longer than the server lets it.               *)
(***************************************************************************)
EXTENDS Integers

CONSTANTS
  Owners,   \* who sets alarms
  None,
  MaxStall  \* how long the server may be kept from looking at its alarms

VARIABLES
  alarm,  \* the time left until it rings, and the period it repeats with
  ringing \* the owner whose alarm rings, and whether it will again

vars == <<alarm, ringing>>

NoAlarm == [left |-> 0, every |-> -1]
Silent  == [owner |-> None, again |-> FALSE]

IsSet(o) == alarm[o].every >= 0

Init ==
  /\ alarm = [o \in Owners |-> NoAlarm]
  /\ ringing = Silent

Set(o) ==
  /\ ~IsSet(o)
  /\ alarm'[o].left > -MaxStall /\ alarm'[o].every >= 0
  /\ alarm' = [alarm EXCEPT ![o] = alarm'[o]]
  /\ UNCHANGED ringing

Cancel(o) ==
  /\ IsSet(o)
  /\ alarm' = [alarm EXCEPT ![o] = NoAlarm]
  /\ ringing' = IF ringing.owner = o THEN [ringing EXCEPT !.again = FALSE] ELSE ringing

\* Not while it rings.
Postpone(o) ==
  /\ IsSet(o) /\ ~(ringing.owner = o /\ ringing.again)
  /\ alarm'[o].left > alarm[o].left
  /\ alarm' = [alarm EXCEPT ![o].left = alarm'[o].left]
  /\ UNCHANGED ringing

\* One that repeats may be moved on to a moment that has come as well.
Ring(o) ==
  /\ ringing = Silent
  /\ IsSet(o) /\ alarm[o].left <= 0
  /\ \/ /\ alarm[o].every = 0
        /\ alarm' = [alarm EXCEPT ![o] = NoAlarm]
        /\ ringing' = [owner |-> o, again |-> FALSE]
     \/ /\ alarm[o].every > 0
        /\ \E left \in alarm[o].left..0 : alarm' = [alarm EXCEPT ![o].left = left]
        /\ ringing' = [owner |-> o, again |-> TRUE]

\* The next time is a period after this one was due, or after it was noticed.
Stop(o) ==
  /\ ringing.owner = o
  /\ \/ /\ ringing.again
        /\ \E left \in (alarm[o].left + alarm[o].every)..alarm[o].every :
             alarm' = [alarm EXCEPT ![o].left = left]
     \/ /\ ~ringing.again
        /\ UNCHANGED alarm
  /\ ringing' = Silent

Advance ==
  /\ \A o \in Owners : IsSet(o) => alarm[o].left > -MaxStall
  /\ alarm' = [o \in Owners |-> IF IsSet(o) THEN [alarm[o] EXCEPT !.left = @ - 1] ELSE NoAlarm]
  /\ UNCHANGED ringing

Next ==
  \/ \E o \in Owners : Set(o) \/ Cancel(o) \/ Postpone(o) \/ Ring(o) \/ Stop(o)
  \/ Advance

Spec == Init /\ [][Next]_vars

=============================================================================
