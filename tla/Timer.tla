------------------------------- MODULE Timer -------------------------------
(***************************************************************************)
(* Timers, src/src/common/timer.c.  Ticks are milliseconds in an unsigned  *)
(* int that wraps around.  A timer has a slot (its id) and, until it       *)
(* expires, a place in timer_heap, which is sorted, the earliest last.     *)
(* Slots of timers that are over are used again, the last one first.       *)
(*                                                                         *)
(* Its users are owners with at most one timer each, who forget the id     *)
(* when the timer calls them.  They act between two runs of do_timer, in   *)
(* the handlers of packets, and when a timer calls them.  left is the true *)
(* time until a timer is due: the code has no such thing, it only compares *)
(* ticks.                                                                  *)
(***************************************************************************)
EXTENDS Integers, Sequences, FiniteSets

CONSTANTS
  Owners,    \* users of timers: a function and the id it is called with
  None,      \* no owner: func = NULL
  Mod,       \* ticks wrap around here: 2^32
  Low, High, \* the part of the range top_timer_heap fixes: 0x08000000, 0xF8000000
  Late,      \* a delay after which lost time is not made up: 1000
  Delays,    \* how far ahead timers are set
  Periods,   \* of timers that repeat; 0 for one that does not
  MaxStall,  \* assumption: no timer waits longer than this
  MaxDelay,  \* assumption: no timer is set farther ahead than this
  MaxSlots   \* bound: slots

ASSUME OwnerAssumption  == None \notin Owners
ASSUME WindowAssumption ==
  /\ Mod \in Nat /\ Low \in Nat /\ High \in Nat /\ Late \in Nat /\ MaxStall \in Nat /\ MaxDelay \in Nat
  /\ MaxSlots \in Nat
  /\ 2 * (MaxStall + MaxDelay) < Mod
  /\ Low + MaxDelay <= High /\ High < Mod /\ Low < Mod
ASSUME DelayAssumption == Delays \subseteq 1..MaxDelay /\ Periods \subseteq 0..MaxDelay

VARIABLES
  now,     \* gettick
  look,    \* the tick do_timer runs with, counted from now; Away outside do_timer
  data,    \* timer_data
  num,     \* timer_data_num
  heap,    \* timer_heap
  free,    \* free_timer_list
  running, \* the timer do_timer has called, the tick it was told, from now, and
           \* whom it called
  hold,    \* the ids the owners remember, -1 for none
  leaked   \* history: slots deleted by the call they were made for

vars == <<now, look, data, num, heap, free, running, hold, leaked>>

Slots  == 0..(MaxSlots - 1)
Blank  == [used |-> FALSE, owner |-> None, tick |-> 0, every |-> 0, removed |-> FALSE, left |-> 0]
Lost   == [used |-> TRUE, owner |-> None, tick |-> 0, every |-> 0, removed |-> FALSE, left |-> 0]
Idle   == [slot |-> -1, at |-> 0, owner |-> None]
Away   == 1

\* a variant: without the cast to int
DiffUnsigned(a, b) == (a - b) % Mod

\* DIFF_TICK
Diff(a, b) ==
  LET d == (a - b) % Mod IN IF 2 * d < Mod THEN d ELSE d - Mod

TypeOK ==
  /\ now \in 0..(Mod - 1)
  /\ look \in -MaxStall..0 \cup {Away}
  /\ data \in [Slots -> [used : BOOLEAN, owner : Owners \cup {None}, tick : 0..(Mod - 1),
                         every : 0..MaxDelay, removed : BOOLEAN, left : -MaxStall..MaxDelay]]
  /\ num \in 0..MaxSlots
  /\ heap \in Seq(Slots) /\ free \in Seq(Slots)
  /\ running \in [slot : Slots \cup {-1}, at : -MaxStall..0, owner : Owners \cup {None}]
  /\ hold \in [Owners -> Slots \cup {-1}]
  /\ leaked \subseteq Slots

Init ==
  /\ now \in 0..(Mod - 1)
  /\ look = Away
  /\ data = [i \in Slots |-> Blank]
  /\ num = 0 /\ heap = <<>> /\ free = <<>>
  /\ running = Idle
  /\ hold = [o \in Owners |-> -1]
  /\ leaked = {}

-----------------------------------------------------------------------------
(* The heap *)

Inserted(h, p, i) ==
  [j \in 1..(Len(h) + 1) |-> IF j < p THEN h[j] ELSE IF j = p THEN i ELSE h[j - 1]]

Without(h, p) ==
  [j \in 1..(Len(h) - 1) |-> IF j < p THEN h[j] ELSE h[j + 1]]

\* a variant: the earliest first
PlaceRising(d, h, tick) == Cardinality({j \in DOMAIN h : Diff(d[h[j]].tick, tick) < 0}) + 1

\* Where a timer of a tick belongs: behind all that are later, before those
\* due at the same time.  d is timer_data.
Place(d, h, tick) == Cardinality({j \in DOMAIN h : Diff(d[h[j]].tick, tick) > 0}) + 1

\* push_timer_heap
Pushed(d, h, i) == Inserted(h, Place(d, h, d[i].tick), i)

\* delete_timer_heap
Withdrawn(h, i) == Without(h, CHOOSE j \in DOMAIN h : h[j] = i)

\* The loop with which both look for a place: the last one before the earlier.
Bisect(n, earlier) ==
  LET f[r \in (1..n) \X (2..(n + 1))] ==
        LET min == r[1]
            max == r[2]
            mid == (min + max) \div 2
        IN  IF max = min + 1 THEN min
            ELSE f[IF mid \in earlier THEN <<min, mid>> ELSE <<mid, max>>]
  IN  f[<<1, n + 1>>]

\* a variant: the test of the loop is strict
PushPlaceBehind(tick) ==
  LET from(j) == Diff(tick, data[heap[j]].tick)
      n       == Len(heap)
  IN  CASE n = 0         -> 1
        [] n > 0 /\ from(n) < 0  -> n + 1
        [] n > 0 /\ from(1) >= 0 -> 1
        [] OTHER         -> Bisect(n, {j \in 1..n : from(j) > 0}) + 1

\* The place push_timer_heap finds for a tick.
PushPlace(tick) ==
  LET from(j) == Diff(tick, data[heap[j]].tick)
      n       == Len(heap)
  IN  CASE n = 0         -> 1
        [] n > 0 /\ from(n) < 0  -> n + 1
        [] n > 0 /\ from(1) >= 0 -> 1
        [] OTHER         -> Bisect(n, {j \in 1..n : from(j) >= 0}) + 1

\* search_timer_heap: the places where it finds a timer.
SearchPlaces(i) ==
  LET tick(j) == data[heap[j]].tick
      n       == Len(heap)
      min     == Bisect(n, {j \in 1..n : Diff(data[i].tick, tick(j)) > 0})
  IN  {j \in 1..n : heap[j] = i /\ \A k \in 1..n :
         (j <= k /\ k < min) \/ (min < k /\ k <= j) => tick(k) = data[i].tick}

\* top_timer_heap: what is first when ticks wrap around, and is due at 0 then
Wrapped ==
  LET tick == data[heap[1]].tick IN now < Low /\ (tick = 0 \/ tick > High)

\* a variant: the heap read from the wrong end
TopFirst == 1

Top == IF Wrapped THEN 1 ELSE Len(heap)

TopTick == IF Wrapped THEN 0 ELSE data[heap[Top]].tick

-----------------------------------------------------------------------------
(* What owners do *)

CanAct == look = Away \/ running # Idle

\* Times are counted from now; a call can count from the time it was told.
Bases == {0} \cup (IF running = Idle THEN {} ELSE {running.at})

\* a variant: the slot that has been free for longest
NewSlotFirst == IF free # <<>> THEN free[1] ELSE num

\* The slot a timer gets.
NewSlot == IF free # <<>> THEN free[Len(free)] ELSE num

\* add_timer_real and add_timer_interval
Add(o) ==
  LET i == NewSlot IN
    /\ CanAct
    /\ hold[o] = -1
    /\ i < MaxSlots
    /\ \E base \in Bases, delay \in Delays, every \in Periods :
         data' = [data EXCEPT ![i] = [used |-> TRUE, owner |-> o, tick |-> (now + base + delay) % Mod,
                                      every |-> every, removed |-> FALSE, left |-> base + delay]]
    /\ heap' = Pushed(data', heap, i)
    /\ free' = IF free # <<>> THEN Without(free, Len(free)) ELSE free
    /\ num' = IF i >= num THEN i + 1 ELSE num
    /\ hold' = [hold EXCEPT ![o] = i]
    /\ UNCHANGED <<now, look, running, leaked>>

\* a variant: the slot is free at once
DeleteFreeing(o) ==
  LET i == hold[o] IN
    /\ CanAct
    /\ i # -1
    /\ hold' = [hold EXCEPT ![o] = -1]
    /\ data' = [data EXCEPT ![i].owner = None, ![i].every = 0]
    /\ free' = Append(free, i)
    /\ UNCHANGED <<now, look, num, heap, running, leaked>>

\* delete_timer: the timer stays in the heap until it is due.  When it is the
\* one that is called, nothing reads its slot again, and its tick is forgotten.
Delete(o) ==
  LET i == hold[o] IN
    /\ CanAct
    /\ i # -1
    /\ hold' = [hold EXCEPT ![o] = -1]
    /\ \/ /\ i # running.slot
          /\ data' = [data EXCEPT ![i].owner = None, ![i].every = 0]
          /\ UNCHANGED leaked
       \/ /\ i = running.slot
          /\ data' = [data EXCEPT ![i] = Lost]
          /\ leaked' = leaked \cup {i}
    /\ UNCHANGED <<now, look, num, heap, free, running>>

\* a variant: the timer keeps its place in the heap
AddTickInPlace(o) ==
  LET i == hold[o] IN
    /\ CanAct
    /\ i # -1 /\ i # running.slot
    /\ \E delay \in Delays :
         /\ data[i].left + delay <= MaxDelay
         /\ data' = [data EXCEPT ![i].tick = (@ + delay) % Mod, ![i].left = @ + delay]
    /\ UNCHANGED <<now, look, num, heap, free, running, hold, leaked>>

\* addtick_timer, of a timer that is not being called
AddTick(o) ==
  LET i == hold[o] IN
    /\ CanAct
    /\ i # -1 /\ i # running.slot
    /\ \E delay \in Delays :
         /\ data[i].left + delay <= MaxDelay
         /\ data' = [data EXCEPT ![i].tick = (@ + delay) % Mod, ![i].left = @ + delay]
    /\ heap' = Pushed(data', Withdrawn(heap, i), i)
    /\ UNCHANGED <<now, look, num, free, running, hold, leaked>>

\* The owner who is called forgets the id.
Forget(o) ==
  /\ running # Idle /\ hold[o] = running.slot /\ data[hold[o]].every = 0
  /\ hold' = [hold EXCEPT ![o] = -1]
  /\ UNCHANGED <<now, look, data, num, heap, free, running, leaked>>

-----------------------------------------------------------------------------
(* do_timer *)

Released(i) ==
  /\ data' = [data EXCEPT ![i] = Blank]
  /\ free' = Append(free, i)

\* The main loop calls it with the tick there is.
DoTimer ==
  /\ look = Away
  /\ look' = 0
  /\ UNCHANGED <<now, data, num, heap, free, running, hold, leaked>>

\* a variant: a tick early
IsDueEarly(tick) == Diff(tick, (now + look) % Mod) <= 1

\* The test of the loop, against the tick do_timer was called with.
IsDue(tick) == Diff(tick, (now + look) % Mod) <= 0

\* The next timer that is due leaves the heap and is called.
Expire ==
  /\ look # Away /\ running = Idle /\ heap # <<>>
  /\ LET i    == heap[Top]
         diff == Diff(TopTick, (now + look) % Mod)
     IN  /\ IsDue(TopTick)
         /\ heap' = Without(heap, Top)
         /\ \/ /\ data[i].owner = None
               /\ Released(i)
               /\ UNCHANGED running
            \/ /\ data[i].owner # None
               /\ data' = [data EXCEPT ![i].tick = TopTick, ![i].left = diff + look, ![i].removed = TRUE]
               /\ running' = [slot |-> i, at |-> look + (IF diff < -Late THEN 0 ELSE diff),
                               owner |-> data[i].owner]
               /\ UNCHANGED free
  /\ UNCHANGED <<now, look, num, hold, leaked>>

\* No timer is due at the tick do_timer was called with.
Return ==
  /\ look # Away /\ running = Idle
  /\ \/ /\ heap = <<>>
        /\ UNCHANGED data
     \/ /\ heap # <<>>
        /\ ~IsDue(TopTick)
        /\ data' = [data EXCEPT ![heap[Top]].tick = TopTick, ![heap[Top]].left = Diff(TopTick, now)]
  /\ look' = Away
  /\ UNCHANGED <<now, num, heap, free, running, hold, leaked>>

\* The call is over: the timer is, too, or it starts again.
Finish ==
  /\ running # Idle
  /\ LET i == running.slot IN
       \/ /\ data[i].removed /\ data[i].every = 0
          /\ Released(i)
          /\ hold' = [o \in Owners |-> IF hold[o] = i THEN -1 ELSE hold[o]]
          /\ UNCHANGED heap
       \/ /\ data[i].removed /\ data[i].every > 0
          /\ data' = [data EXCEPT ![i].tick = (now + running.at + data[i].every) % Mod,
                                  ![i].left = running.at + data[i].every, ![i].removed = FALSE]
          /\ heap' = Pushed(data', heap, i)
          /\ UNCHANGED <<free, hold>>
       \/ /\ ~data[i].removed
          /\ UNCHANGED <<data, free, heap, hold>>
  /\ running' = Idle
  /\ UNCHANGED <<now, look, num, leaked>>

-----------------------------------------------------------------------------

InHeap(i) == \E j \in DOMAIN heap : heap[j] = i

\* Time passes, also during a call.
Advance ==
  LET waits(i) == InHeap(i) \/ (i = running.slot /\ data[i].removed)
  IN  /\ CanAct
      /\ \A i \in Slots : waits(i) => data[i].left > -MaxStall
      /\ running.at > -MaxStall /\ look > -MaxStall
      /\ now' = (now + 1) % Mod
      /\ data' = [i \in Slots |-> IF waits(i) THEN [data[i] EXCEPT !.left = @ - 1] ELSE data[i]]
      /\ running' = IF running = Idle THEN Idle ELSE [running EXCEPT !.at = @ - 1]
      /\ look' = IF look = Away THEN Away ELSE look - 1
      /\ UNCHANGED <<num, heap, free, hold, leaked>>

Next ==
  \/ \E o \in Owners : Add(o) \/ Delete(o) \/ AddTick(o) \/ Forget(o)
  \/ DoTimer
  \/ Expire
  \/ Finish
  \/ Return
  \/ Advance

Fairness == WF_vars(DoTimer) /\ WF_vars(Expire) /\ WF_vars(Finish) /\ WF_vars(Return)

Spec == Init /\ [][Next]_vars /\ Fairness

-----------------------------------------------------------------------------

InFree(i) == \E j \in DOMAIN free : free[j] = i

\* The slots in use are told apart: each is in the heap, called or free, at
\* one place only, or was deleted by the call it was made for (timer.c:378
\* clears the mark by which do_timer finds it), and then it is lost.
SlotsKept ==
  /\ \A i \in 0..(num - 1) : InHeap(i) \/ InFree(i) \/ i = running.slot \/ i \in leaked
  /\ \A i \in Slots : InHeap(i) => ~InFree(i) /\ i # running.slot /\ i \notin leaked
  /\ \A i \in Slots : InFree(i) => i # running.slot /\ i \notin leaked
  /\ \A j, k \in DOMAIN heap : heap[j] = heap[k] => j = k
  /\ \A j, k \in DOMAIN free : free[j] = free[k] => j = k

\* The id an owner remembers is its own timer's, however often the slot was
\* used before, though delete_timer (timer.c:367) compares the function only;
\* and no timer is left that would call an owner who deleted it.
HandlesAreOwn ==
  /\ \A o \in Owners : hold[o] # -1 =>
       /\ data[hold[o]].used /\ data[hold[o]].owner = o
       /\ InHeap(hold[o]) \/ hold[o] = running.slot
  /\ \A i \in Slots : InHeap(i) /\ data[i].owner # None => hold[data[i].owner] = i

\* The signed difference of two ticks (timer.h:31) is the true one, before and
\* after ticks wrap around, and the heap is sorted by it.
HeapSorted ==
  /\ \A j \in DOMAIN heap : Diff(data[heap[j]].tick, now) = data[heap[j]].left
  /\ \A j, k \in DOMAIN heap : j < k => data[heap[j]].left >= data[heap[k]].left

\* So the loops that halve the heap find the place for any tick (timer.c:212)
\* and any timer, also one among others of the same tick (timer.c:235-259).
SearchAgrees ==
  /\ \A j \in DOMAIN heap : SearchPlaces(heap[j]) = {j}
  /\ \A left \in -MaxStall..MaxDelay :
       LET tick == (now + left) % Mod IN PushPlace(tick) = Place(data, heap, tick)

\* Timers are called in the order in which they are due, except where ticks
\* wrap around: there the fix in top_timer_heap (timer.c:283) takes the latest
\* first, when all of them are due.
CalledInOrder ==
  [][running = Idle /\ running' # Idle =>
       \/ \A j \in DOMAIN heap : data[heap[j]].left >= data[running'.slot].left
       \/ /\ now < Low /\ \A j \in DOMAIN heap : data[heap[j]].left <= 0]_vars

Alarm(o) ==
  IF hold[o] = -1 \/ (hold[o] = running.slot /\ data[hold[o]].every = 0)
  THEN [left |-> 0, every |-> -1]
  ELSE [left |-> data[hold[o]].left, every |-> data[hold[o]].every]

Again == running # Idle /\ data[running.slot].removed /\ data[running.slot].every > 0

A == INSTANCE Alarms WITH
       alarm   <- [o \in Owners |-> Alarm(o)],
       ringing <- [owner |-> running.owner, again |-> Again]

\* Timers are alarms: what add_timer, delete_timer, addtick_timer and do_timer
\* (timer.c:304-491) do to the slots, owners see as setting, cancelling,
\* postponing and ringing.
ImplementsAlarms == A!Spec

Due(o)    == Alarm(o).every # -1 /\ Alarm(o).left <= 0
Called(o) == running.owner = o

\* A timer that is due is called, or its owner deletes it, or never stops
\* postponing it: do_timer (timer.c:437) starves nobody, though timers it calls
\* set others and some repeat.
DueIsCalled ==
  \A o \in Owners : []<>(~Due(o) \/ Called(o)) \/ []<><<AddTick(o)>>_vars

=============================================================================
