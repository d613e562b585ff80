--------------------------- MODULE Timer_proofs ---------------------------
(***************************************************************************)
(* First, slots and ids of timers, for any number of owners and slots and  *)
(* for any clock: SlotsKept and HandlesAreOwn.  Both need that a slot is   *)
(* in one place only, and what do_timer has in its hands while it calls.   *)
(* Then, from Window on, times, for any clock that is wide enough for the  *)
(* delays in use (WindowAssumption): TypeOK, HeapSorted, CalledInOrder and *)
(* SearchAgrees.  All rest on one fact: a tick in the heap is now plus the *)
(* time that is left, whatever wrapped around in between.                  *)
(* Last, from Rings on, that timers implement alarms: every step of theirs *)
(* is a step of Alarms, or none.                                           *)
(***************************************************************************)
EXTENDS Timer, TLAPS, FiniteSetTheorems, WellFoundedInduction, NaturalsInduction

Occurs(h, i) == \E j \in DOMAIN h : h[j] = i
Once(h)      == \A j, k \in DOMAIN h : h[j] = h[k] => j = k

Timers == [used : BOOLEAN, owner : Owners \cup {None}, tick : Int, every : Int,
           removed : BOOLEAN, left : Int]

Typed ==
  /\ now \in Int /\ look \in Int
  /\ data \in [Slots -> Timers]
  /\ num \in Nat
  /\ heap \in Seq(Slots) /\ free \in Seq(Slots)
  /\ running \in [slot : Slots \cup {-1}, at : Int, owner : Owners \cup {None}]
  /\ hold \in [Owners -> Slots \cup {-1}]
  /\ leaked \subseteq Slots

\* A slot is in one place, and none is used that was not given out.
Placed ==
  /\ \A i \in 0..(num - 1) : Occurs(heap, i) \/ Occurs(free, i) \/ i = running.slot \/ i \in leaked
  /\ \A i \in Slots : Occurs(heap, i) => ~Occurs(free, i) /\ i # running.slot /\ i \notin leaked /\ i < num
  /\ \A i \in Slots : Occurs(free, i) => i # running.slot /\ i \notin leaked /\ i < num
  /\ \A i \in leaked : i < num
  /\ running.slot < num
  /\ Once(heap) /\ Once(free)

\* What do_timer knows of the timer it calls.
InCall ==
  running # Idle =>
    /\ running.slot # -1
    /\ data[running.slot].removed <=> running.slot \notin leaked
    /\ data[running.slot].every > 0 =>
         /\ data[running.slot].owner # None
         /\ hold[data[running.slot].owner] = running.slot
    /\ running.slot \in leaked => data[running.slot].owner = None

Owned ==
  /\ \A o \in Owners : hold[o] # -1 =>
       /\ data[hold[o]].used /\ data[hold[o]].owner = o
       /\ Occurs(heap, hold[o]) \/ hold[o] = running.slot
  /\ \A i \in Slots : Occurs(heap, i) /\ data[i].owner # None => hold[data[i].owner] = i

IInv == Typed /\ Placed /\ InCall /\ Owned

-----------------------------------------------------------------------------
(* The heap and the list of free slots *)

\* Inserting adds one member, whatever the place.
LEMMA InsertedMembers ==
  ASSUME NEW S, NEW h \in Seq(S), NEW i \in S, NEW p \in 1..(Len(h) + 1)
  PROVE  /\ Inserted(h, p, i) \in Seq(S)
         /\ \A x : Occurs(Inserted(h, p, i), x) <=> Occurs(h, x) \/ x = i
         /\ Once(h) /\ ~Occurs(h, i) => Once(Inserted(h, p, i))
<1> DEFINE g == Inserted(h, p, i)
<1>1. g \in Seq(S) /\ Len(g) = Len(h) + 1 /\ DOMAIN g = 1..(Len(h) + 1)
  BY DEF Inserted
<1>2. \A j \in DOMAIN g : g[j] = IF j < p THEN h[j] ELSE IF j = p THEN i ELSE h[j - 1]
  BY DEF Inserted
<1>3. ASSUME NEW x PROVE Occurs(g, x) <=> Occurs(h, x) \/ x = i
  <2>1. ASSUME Occurs(g, x) PROVE Occurs(h, x) \/ x = i
    <3>1. PICK j \in DOMAIN g : g[j] = x
      BY <2>1 DEF Occurs
    <3>2. x = IF j < p THEN h[j] ELSE IF j = p THEN i ELSE h[j - 1]
      BY <1>2, <3>1
    <3>3. j < p => j \in DOMAIN h
      BY <1>1
    <3>4. j > p => j - 1 \in DOMAIN h
      BY <1>1
    <3>5. QED BY <1>1, <3>2, <3>3, <3>4 DEF Occurs
  <2>2. ASSUME NEW j \in DOMAIN h, h[j] = x PROVE Occurs(g, x)
    <3>1. CASE j < p
      <4>1. j \in DOMAIN g /\ g[j] = h[j]
        BY <1>1, <1>2, <3>1
      <4>2. QED BY <4>1, <2>2 DEF Occurs
    <3>2. CASE ~(j < p)
      <4>1. j + 1 \in DOMAIN g /\ g[j + 1] = h[j]
        BY <1>1, <1>2, <3>2
      <4>2. QED BY <4>1, <2>2 DEF Occurs
    <3>3. QED BY <3>1, <3>2
  <2>3. g[p] = i /\ p \in DOMAIN g
    BY <1>1, <1>2
  <2>4. QED BY <2>1, <2>2, <2>3 DEF Occurs
<1>4. ASSUME Once(h), ~Occurs(h, i) PROVE Once(g)
  <2> SUFFICES ASSUME NEW j \in DOMAIN g, NEW k \in DOMAIN g, g[j] = g[k] PROVE j = k
    BY DEF Once
  <2>1. \A m \in DOMAIN h : h[m] # i
    BY <1>4 DEF Occurs
  <2>2. \A m, n \in DOMAIN h : h[m] = h[n] => m = n
    BY <1>4 DEF Once
  <2> DEFINE from(m) == IF m < p THEN m ELSE m - 1
  <2>3. ASSUME NEW m \in DOMAIN g, m # p
        PROVE  from(m) \in DOMAIN h /\ g[m] = h[from(m)]
    BY <1>1, <1>2, <2>3
  <2>4. g[p] = i
    BY <1>1, <1>2
  <2>5. j = p <=> k = p
    BY <2>1, <2>3, <2>4
  <2>6. CASE j # p /\ k # p
    <3>1. from(j) = from(k)
      BY <2>2, <2>3, <2>6
    <3>2. QED BY <1>1, <2>6, <3>1
  <2>7. QED BY <2>5, <2>6
<1>5. QED BY <1>1, <1>3, <1>4

\* Taking out the one at a place takes out that member and no other.
LEMMA WithoutMembers ==
  ASSUME NEW S, NEW h \in Seq(S), NEW p \in DOMAIN h, Once(h)
  PROVE  /\ Without(h, p) \in Seq(S)
         /\ \A x : Occurs(Without(h, p), x) <=> Occurs(h, x) /\ x # h[p]
         /\ Once(Without(h, p))
<1> DEFINE g == Without(h, p)
<1>1. g \in Seq(S) /\ DOMAIN g = 1..(Len(h) - 1)
  BY DEF Without
<1>2. \A j \in DOMAIN g : g[j] = IF j < p THEN h[j] ELSE h[j + 1]
  BY DEF Without
<1>3. \A m, n \in DOMAIN h : h[m] = h[n] => m = n
  BY DEF Once
<1>4. ASSUME NEW x PROVE Occurs(g, x) <=> Occurs(h, x) /\ x # h[p]
  <2>1. Occurs(g, x) => Occurs(h, x) /\ x # h[p]
    BY <1>1, <1>2, <1>3 DEF Occurs
  <2>2. ASSUME NEW j \in DOMAIN h, h[j] = x, x # h[p] PROVE Occurs(g, x)
    <3>1. CASE j < p
      BY <1>1, <1>2, <2>2, <3>1 DEF Occurs
    <3>2. CASE j > p
      <4>1. j - 1 \in DOMAIN g /\ g[j - 1] = h[j]
        BY <1>1, <1>2, <3>2
      <4>2. QED BY <4>1, <2>2 DEF Occurs
    <3>3. QED BY <2>2, <3>1, <3>2
  <2>3. QED BY <2>1, <2>2 DEF Occurs
<1>5. Once(g)
  BY <1>1, <1>2, <1>3 DEF Once
<1>6. QED BY <1>1, <1>4, <1>5

\* Appending adds one member.
LEMMA AppendMembers ==
  ASSUME NEW S, NEW h \in Seq(S), NEW i \in S
  PROVE  /\ Append(h, i) \in Seq(S)
         /\ \A x : Occurs(Append(h, i), x) <=> Occurs(h, x) \/ x = i
         /\ Once(h) /\ ~Occurs(h, i) => Once(Append(h, i))
<1>1. Append(h, i) \in Seq(S) /\ DOMAIN Append(h, i) = 1..(Len(h) + 1)
  OBVIOUS
<1>2. \A j \in 1..(Len(h) + 1) : Append(h, i)[j] = IF j = Len(h) + 1 THEN i ELSE h[j]
  OBVIOUS
<1>3. DOMAIN h = 1..Len(h)
  OBVIOUS
<1>4. ASSUME NEW x PROVE Occurs(Append(h, i), x) <=> Occurs(h, x) \/ x = i
  BY <1>1, <1>2, <1>3 DEF Occurs
<1>5. Once(h) /\ ~Occurs(h, i) => Once(Append(h, i))
  BY <1>1, <1>2, <1>3 DEF Occurs, Once
<1>6. QED BY <1>1, <1>4, <1>5

\* A place is within the heap or right behind it.
LEMMA PlaceInHeap ==
  ASSUME NEW d, NEW S, NEW h \in Seq(S), NEW tick
  PROVE  Place(d, h, tick) \in 1..(Len(h) + 1)
<1> DEFINE later == {j \in DOMAIN h : Diff(d[h[j]].tick, tick) > 0}
<1>1. IsFiniteSet(1..Len(h)) /\ Cardinality(1..Len(h)) = Len(h)
  <2>1. Len(h) \in Int /\ 1 \in Int /\ Len(h) >= 0
    OBVIOUS
  <2>2. Cardinality(1..Len(h)) = IF 1 > Len(h) THEN 0 ELSE Len(h) - 1 + 1
    BY <2>1, FS_Interval
  <2>3. QED BY <2>1, <2>2, FS_Interval
<1>2. later \subseteq 1..Len(h)
  OBVIOUS
<1>3. Cardinality(later) \in Nat /\ Cardinality(later) <= Len(h)
  BY <1>1, <1>2, FS_Subset, FS_CardinalityType
<1>4. QED BY <1>3 DEF Place

\* push_timer_heap adds the timer and keeps the others.
LEMMA PushedMembers ==
  ASSUME NEW d, NEW h \in Seq(Slots), NEW i \in Slots
  PROVE  /\ Pushed(d, h, i) \in Seq(Slots)
         /\ \A x : Occurs(Pushed(d, h, i), x) <=> Occurs(h, x) \/ x = i
         /\ Once(h) /\ ~Occurs(h, i) => Once(Pushed(d, h, i))
<1>1. Place(d, h, d[i].tick) \in 1..(Len(h) + 1)
  BY PlaceInHeap
<1>2. QED BY <1>1, InsertedMembers DEF Pushed

\* delete_timer_heap takes out the timer it is asked to and no other.
LEMMA WithdrawnMembers ==
  ASSUME NEW h \in Seq(Slots), NEW i \in Slots, Occurs(h, i), Once(h)
  PROVE  /\ Withdrawn(h, i) \in Seq(Slots)
         /\ \A x : Occurs(Withdrawn(h, i), x) <=> Occurs(h, x) /\ x # i
         /\ Once(Withdrawn(h, i))
<1>1. PICK j \in DOMAIN h : h[j] = i
  BY DEF Occurs
<1>2. (CHOOSE k \in DOMAIN h : h[k] = i) = j
  BY <1>1 DEF Once
<1>3. QED BY <1>1, <1>2, WithoutMembers DEF Withdrawn

-----------------------------------------------------------------------------
(* The numbers stay numbers *)

\* A timer with another time differs in that only.
LEMMA Rescheduled ==
  ASSUME NEW t \in Timers, NEW tick \in Int, NEW left \in Int, NEW removed \in BOOLEAN
  PROVE  [t EXCEPT !.tick = tick, !.left = left, !.removed = removed] =
           [used |-> t.used, owner |-> t.owner, tick |-> tick, every |-> t.every,
            removed |-> removed, left |-> left]
<1> DEFINE r == [used |-> t.used, owner |-> t.owner, tick |-> tick, every |-> t.every,
                 removed |-> removed, left |-> left]
           e == [t EXCEPT !.tick = tick, !.left = left, !.removed = removed]
<1>1. DOMAIN t = {"used", "owner", "tick", "every", "removed", "left"}
  BY DEF Timers
<1>2. DOMAIN e = DOMAIN t /\ DOMAIN r = DOMAIN t
  BY <1>1
<1>3. \A x \in DOMAIN t : e[x] = r[x]
  <2>1. e.used = r.used /\ e.owner = r.owner /\ e.every = r.every
    BY <1>1
  <2>2. e.tick = r.tick /\ e.left = r.left /\ e.removed = r.removed
    BY <1>1
  <2> HIDE DEF e, r
  <2>3. QED BY <1>1, <2>1, <2>2
<1>4. e = [x \in DOMAIN t |-> e[x]] /\ r = [x \in DOMAIN t |-> r[x]]
  BY <1>1
<1>5. QED BY <1>3, <1>4

\* A timer with another time left is a timer.
LEMMA Retimed ==
  ASSUME NEW t \in Timers, NEW left \in Int
  PROVE  LET r == [t EXCEPT !.left = left]
         IN  /\ r \in Timers /\ r.owner = t.owner /\ r.used = t.used
             /\ r.every = t.every /\ r.removed = t.removed
<1>1. [t EXCEPT !.left = left] = [used |-> t.used, owner |-> t.owner, tick |-> t.tick,
                                  every |-> t.every, removed |-> t.removed, left |-> left]
  BY DEF Timers
<1>2. QED BY <1>1 DEF Timers

LEMMA DiffInt ==
  ASSUME NEW a \in Int, NEW b \in Int
  PROVE  Diff(a, b) \in Int
<1>1. Mod \in Nat /\ Mod > 0
  BY WindowAssumption
<1>2. (a - b) % Mod \in Int
  BY <1>1
<1>3. QED BY <1>1, <1>2 DEF Diff

LEMMA TopInHeap ==
  ASSUME Typed, heap # <<>>
  PROVE  Top \in DOMAIN heap /\ heap[Top] \in Slots /\ TopTick \in Int
<1>1. Len(heap) \in Nat /\ Len(heap) > 0 /\ DOMAIN heap = 1..Len(heap)
  BY DEF Typed
<1>2. Top \in DOMAIN heap
  BY <1>1 DEF Top
<1>3. heap[Top] \in Slots
  BY <1>2 DEF Typed
<1>4. data[heap[Top]].tick \in Int
  BY <1>3 DEF Typed, Timers
<1>5. QED BY <1>2, <1>3, <1>4 DEF TopTick

LEMMA NewSlotIsNew ==
  ASSUME Typed, Placed, NewSlot < MaxSlots
  PROVE  /\ NewSlot \in Slots
         /\ ~Occurs(heap, NewSlot) /\ NewSlot # running.slot /\ NewSlot \notin leaked
         /\ NewSlot >= num => NewSlot = num
<1>1. CASE free # <<>>
  <2>1. Len(free) \in DOMAIN free /\ NewSlot = free[Len(free)]
    BY <1>1 DEF Typed, NewSlot
  <2>2. NewSlot \in Slots /\ Occurs(free, NewSlot)
    BY <2>1 DEF Typed, Occurs
  <2>3. QED BY <2>2 DEF Placed, Typed, Slots
<1>2. CASE free = <<>>
  <2>1. NewSlot = num /\ num \in Slots
    BY <1>2, WindowAssumption DEF Typed, NewSlot, Slots
  <2>2. ~Occurs(heap, num) /\ num # running.slot /\ num \notin leaked
    BY <2>1 DEF Placed, Typed
  <2>3. QED BY <2>1, <2>2
<1>3. QED BY <1>1, <1>2

-----------------------------------------------------------------------------
(* Every step keeps the invariant *)

LEMMA InitIInv == Init => IInv
<1> SUFFICES ASSUME Init PROVE IInv
  OBVIOUS
<1>1. \A i : ~Occurs(<<>>, i)
  BY DEF Occurs
<1>2. Once(<<>>)
  BY DEF Once
<1>3. Typed
  BY WindowAssumption DEF Init, Typed, Blank, Idle, Away, Timers
<1>4. QED BY <1>1, <1>2, <1>3 DEF Init, IInv, Placed, InCall, Owned, Idle

LEMMA AddStep ==
  ASSUME IInv, NEW o \in Owners, Add(o)
  PROVE  IInv'
<1> DEFINE i == NewSlot
<1> USE DEF IInv
<1>1. /\ i \in Slots
      /\ ~Occurs(heap, i) /\ i # running.slot /\ i \notin leaked
      /\ i >= num => i = num
  BY NewSlotIsNew DEF Add
<1>2. /\ hold[o] = -1 /\ hold' = [hold EXCEPT ![o] = i]
      /\ num' = IF i >= num THEN i + 1 ELSE num
      /\ now' = now /\ look' = look /\ running' = running /\ leaked' = leaked
      /\ heap' = Pushed(data', heap, i)
      /\ free' = IF free # <<>> THEN Without(free, Len(free)) ELSE free
  BY DEF Add
<1>3. PICK base \in Bases, delay \in Delays, every \in Periods :
        data' = [data EXCEPT ![i] = [used |-> TRUE, owner |-> o, tick |-> (now + base + delay) % Mod,
                                     every |-> every, removed |-> FALSE, left |-> base + delay]]
  BY DEF Add
<1>4. base \in Int /\ delay \in Int /\ every \in Int /\ (now + base + delay) % Mod \in Int
  <2>1. Mod \in Nat /\ Mod > 0 /\ MaxDelay \in Nat
    BY WindowAssumption
  <2>2. base \in Int /\ delay \in Int /\ every \in Int
    BY <2>1, DelayAssumption DEF Bases, Typed
  <2>3. now + base + delay \in Int
    BY <2>2 DEF Typed
  <2>4. QED BY <2>1, <2>2, <2>3
<1>5. data' \in [Slots -> Timers]
  <2>1. [used |-> TRUE, owner |-> o, tick |-> (now + base + delay) % Mod,
         every |-> every, removed |-> FALSE, left |-> base + delay] \in Timers
    BY <1>4 DEF Timers
  <2>2. QED BY <1>1, <1>3, <2>1 DEF Typed
<1>6. /\ data'[i].used /\ data'[i].owner = o
      /\ \A j \in Slots : j # i => data'[j] = data[j]
  BY <1>1, <1>3 DEF Typed
<1>7. /\ heap' \in Seq(Slots) /\ Once(heap')
      /\ \A x : Occurs(heap', x) <=> Occurs(heap, x) \/ x = i
  BY <1>1, <1>2, PushedMembers DEF Typed, Placed
<1>8. /\ free' \in Seq(Slots) /\ Once(free')
      /\ \A x : Occurs(free', x) <=> Occurs(free, x) /\ x # i
  <2>1. CASE free # <<>>
    <3>1. Len(free) \in DOMAIN free /\ i = free[Len(free)]
      BY <2>1 DEF Typed, NewSlot
    <3>2. QED BY <1>2, <2>1, <3>1, WithoutMembers DEF Typed, Placed
  <2>2. CASE free = <<>>
    BY <1>2, <2>2 DEF Typed, Placed, Occurs
  <2>3. QED BY <2>1, <2>2
<1>9. Typed'
  BY <1>1, <1>2, <1>5, <1>7, <1>8 DEF Typed, Slots
<1>10. Placed'
  <2>1. num \in Int /\ i \in Int /\ num' \in Int /\ num' >= num /\ i < num' /\ running.slot \in Int
    BY <1>1, <1>2, WindowAssumption DEF Typed, Slots
  <2>2. \A x \in 0..(num' - 1) : x \in 0..(num - 1) \/ x = i
    BY <1>1, <1>2, <2>1 DEF Typed
  <2>3. leaked \subseteq Int /\ Slots \subseteq Int
    BY WindowAssumption DEF Typed, Slots
  <2>4. QED BY <1>1, <1>2, <1>7, <1>8, <2>1, <2>2, <2>3 DEF Placed
<1>11. InCall'
  BY <1>1, <1>2, <1>6 DEF InCall, Typed
<1>12. Owned'
  <2>1. \A q \in Slots : q # -1
    BY WindowAssumption DEF Slots
  <2>2. \A q \in Owners : hold[q] # i
    BY <1>1, <2>1 DEF Owned
  <2>3. \A q \in Owners : hold'[q] = IF q = o THEN i ELSE hold[q]
    BY <1>2 DEF Typed
  <2>4. \A q \in Owners : hold[q] \in Slots \cup {-1}
    BY DEF Typed
  <2>5. \A j \in Slots : data[j].owner \in Owners \cup {None}
    BY DEF Typed, Timers
  <2>6. ASSUME NEW q \in Owners, hold'[q] # -1
        PROVE  /\ data'[hold'[q]].used /\ data'[hold'[q]].owner = q
               /\ Occurs(heap', hold'[q]) \/ hold'[q] = running'.slot
    <3>1. CASE q = o
      BY <1>6, <1>7, <2>3, <3>1
    <3>2. CASE q # o
      <4>1. hold'[q] = hold[q] /\ hold[q] # -1 /\ hold[q] \in Slots
        BY <2>3, <2>4, <2>6, <3>2
      <4>2. data'[hold[q]] = data[hold[q]]
        BY <1>6, <2>2, <4>1
      <4>3. QED BY <1>2, <1>7, <4>1, <4>2 DEF Owned
    <3>3. QED BY <3>1, <3>2
  <2>7. ASSUME NEW j \in Slots, Occurs(heap', j), data'[j].owner # None
        PROVE  hold'[data'[j].owner] = j
    <3>1. CASE j = i
      BY <1>6, <2>3, <3>1
    <3>2. CASE j # i
      <4>1. Occurs(heap, j) /\ data'[j] = data[j] /\ data[j].owner \in Owners
        BY <1>6, <1>7, <2>5, <2>7, <3>2
      <4>2. hold[data[j].owner] = j
        BY <2>7, <4>1 DEF Owned
      <4>3. data[j].owner # o
        BY <1>2, <2>1, <4>2
      <4>4. QED BY <2>3, <4>1, <4>2, <4>3
    <3>3. QED BY <3>1, <3>2
  <2>8. QED BY <2>6, <2>7 DEF Owned
<1>13. QED BY <1>9, <1>10, <1>11, <1>12

LEMMA DeleteStep ==
  ASSUME IInv, NEW o \in Owners, Delete(o)
  PROVE  IInv'
<1> DEFINE i == hold[o]
<1> USE DEF IInv
<1>1. /\ i \in Slots /\ i # -1 /\ hold' = [hold EXCEPT ![o] = -1]
      /\ now' = now /\ look' = look /\ num' = num
      /\ heap' = heap /\ free' = free /\ running' = running
  BY DEF Delete, Typed
<1>2. \A q \in Owners : hold'[q] = IF q = o THEN -1 ELSE hold[q]
  BY <1>1 DEF Typed
<1>3. data[i].owner = o /\ data[i].used
  BY <1>1 DEF Owned
<1>4. \A j \in Slots : j # -1 /\ data[j].owner \in Owners \cup {None}
  BY WindowAssumption DEF Slots, Typed, Timers
<1>5. CASE i # running.slot
  <2>1. data' = [data EXCEPT ![i].owner = None, ![i].every = 0] /\ leaked' = leaked
    BY <1>5 DEF Delete
  <2>2. /\ data' \in [Slots -> Timers] /\ data'[i].owner = None /\ data'[i].every = 0
        /\ \A j \in Slots : j # i => data'[j] = data[j]
    <3>1. data'[i] = [data[i] EXCEPT !.owner = None, !.every = 0] /\ data[i] \in Timers
      BY <1>1, <2>1 DEF Typed
    <3>2. data'[i] \in Timers /\ data'[i].owner = None /\ data'[i].every = 0
      <4>1. data'[i] = [used |-> data[i].used, owner |-> None, tick |-> data[i].tick, every |-> 0,
                        removed |-> data[i].removed, left |-> data[i].left]
        BY <3>1 DEF Timers
      <4>2. QED BY <3>1, <4>1 DEF Timers
    <3>3. DOMAIN data' = Slots /\ data' = [j \in Slots |-> IF j = i THEN data'[i] ELSE data[j]]
      BY <1>1, <2>1 DEF Typed
    <3>4. QED BY <1>1, <3>2, <3>3 DEF Typed
  <2>3. Typed'
    BY <1>1, <2>1, <2>2 DEF Typed
  <2>4. Placed'
    BY <1>1, <2>1 DEF Placed
  <2>5. InCall'
    <3> SUFFICES ASSUME running # Idle
                 PROVE  InCall'
      BY <1>1 DEF InCall
    <3>1. running.slot \in Slots /\ running.slot # i
      BY <1>5 DEF InCall, Typed
    <3>2. data'[running.slot] = data[running.slot]
      BY <2>2, <3>1
    <3>3. data[running.slot].every > 0 => data[running.slot].owner # o
      BY <3>1 DEF InCall
    <3>4. QED BY <1>1, <1>2, <1>4, <2>1, <3>1, <3>2, <3>3 DEF InCall
  <2>6. Owned'
    <3>1. ASSUME NEW q \in Owners, hold'[q] # -1
          PROVE  /\ data'[hold'[q]].used /\ data'[hold'[q]].owner = q
                 /\ Occurs(heap', hold'[q]) \/ hold'[q] = running'.slot
      <4>1. q # o /\ hold'[q] = hold[q] /\ hold[q] # -1 /\ hold[q] \in Slots
        BY <1>2, <3>1 DEF Typed
      <4>2. data[hold[q]].used /\ data[hold[q]].owner = q
        BY <4>1 DEF Owned
      <4>3. hold[q] # i
        BY <1>3, <4>1, <4>2
      <4>4. QED BY <1>1, <2>2, <4>1, <4>2, <4>3 DEF Owned
    <3>2. ASSUME NEW j \in Slots, Occurs(heap', j), data'[j].owner # None
          PROVE  hold'[data'[j].owner] = j
      <4>1. j # i /\ data'[j] = data[j] /\ data[j].owner \in Owners
        BY <1>4, <2>2, <3>2
      <4>2. hold[data[j].owner] = j
        BY <1>1, <3>2, <4>1 DEF Owned
      <4>3. data[j].owner # o
        BY <4>1, <4>2
      <4>4. QED BY <1>2, <4>1, <4>2, <4>3
    <3>3. QED BY <3>1, <3>2 DEF Owned
  <2>7. QED BY <2>3, <2>4, <2>5, <2>6
<1>6. CASE i = running.slot
  <2>1. data' = [data EXCEPT ![i] = Lost] /\ leaked' = leaked \cup {i}
    BY <1>6 DEF Delete
  <2>2. /\ data' \in [Slots -> Timers] /\ data'[i].owner = None /\ data'[i].every = 0 /\ ~data'[i].removed
        /\ \A j \in Slots : j # i => data'[j] = data[j]
    <3>1. Lost \in Timers /\ Lost.owner = None /\ Lost.every = 0 /\ ~Lost.removed
      BY DEF Lost, Timers
    <3>2. data' = [j \in Slots |-> IF j = i THEN Lost ELSE data[j]]
      BY <1>1, <2>1 DEF Typed
    <3>3. QED BY <1>1, <3>1, <3>2 DEF Typed
  <2>3. Typed'
    BY <1>1, <2>1, <2>2 DEF Typed
  <2>4. ~Occurs(heap, i) /\ ~Occurs(free, i) /\ i < num
    BY <1>1, <1>6 DEF Placed
  <2>5. Placed'
    BY <1>1, <2>1, <2>4 DEF Placed
  <2>6. InCall'
    BY <1>1, <1>6, <2>1, <2>2 DEF InCall
  <2>7. Owned'
    <3>1. ASSUME NEW q \in Owners, hold'[q] # -1
          PROVE  /\ data'[hold'[q]].used /\ data'[hold'[q]].owner = q
                 /\ Occurs(heap', hold'[q]) \/ hold'[q] = running'.slot
      <4>1. q # o /\ hold'[q] = hold[q] /\ hold[q] # -1 /\ hold[q] \in Slots
        BY <1>2, <3>1 DEF Typed
      <4>2. data[hold[q]].used /\ data[hold[q]].owner = q
        BY <4>1 DEF Owned
      <4>3. hold[q] # i
        BY <1>3, <4>1, <4>2
      <4>4. QED BY <1>1, <2>2, <4>1, <4>2, <4>3 DEF Owned
    <3>2. ASSUME NEW j \in Slots, Occurs(heap', j), data'[j].owner # None
          PROVE  hold'[data'[j].owner] = j
      <4>1. j # i /\ data'[j] = data[j] /\ data[j].owner \in Owners
        BY <1>4, <2>2, <3>2
      <4>2. hold[data[j].owner] = j
        BY <1>1, <3>2, <4>1 DEF Owned
      <4>3. data[j].owner # o
        BY <4>1, <4>2
      <4>4. QED BY <1>2, <4>1, <4>2, <4>3
    <3>3. QED BY <3>1, <3>2 DEF Owned
  <2>8. QED BY <2>3, <2>5, <2>6, <2>7
<1>7. QED BY <1>5, <1>6

LEMMA AddTickStep ==
  ASSUME IInv, NEW o \in Owners, AddTick(o)
  PROVE  IInv'
<1> DEFINE i == hold[o]
<1> USE DEF IInv
<1>1. /\ i \in Slots /\ i # -1 /\ i # running.slot
      /\ now' = now /\ look' = look /\ num' = num /\ hold' = hold /\ leaked' = leaked
      /\ free' = free /\ running' = running
      /\ heap' = Pushed(data', Withdrawn(heap, i), i)
  BY DEF AddTick, Typed
<1>2. PICK delay \in Delays :
        data' = [data EXCEPT ![i].tick = (@ + delay) % Mod, ![i].left = @ + delay]
  BY DEF AddTick
<1>3. (data[i].tick + delay) % Mod \in Int /\ data[i].left + delay \in Int
  <2>1. Mod \in Nat /\ Mod > 0 /\ delay \in Int
    BY WindowAssumption, DelayAssumption
  <2>2. data[i].tick \in Int /\ data[i].left \in Int
    BY <1>1 DEF Typed, Timers
  <2>3. QED BY <2>1, <2>2
<1>4. /\ data' \in [Slots -> Timers]
      /\ \A j \in Slots : /\ data'[j].owner = data[j].owner /\ data'[j].used = data[j].used
                           /\ data'[j].every = data[j].every /\ data'[j].removed = data[j].removed
  <2>1. /\ data'[i] = [data[i] EXCEPT !.tick = (@ + delay) % Mod, !.left = @ + delay]
        /\ \A j \in Slots : j # i => data'[j] = data[j]
    BY <1>1, <1>2 DEF Typed
  <2>2. data[i] \in Timers
    BY <1>1 DEF Typed
  <2>3. /\ data'[i] \in Timers
        /\ data'[i].owner = data[i].owner /\ data'[i].used = data[i].used
        /\ data'[i].every = data[i].every /\ data'[i].removed = data[i].removed
    BY <1>3, <2>1, <2>2 DEF Timers
  <2>4. data' \in [Slots -> Timers]
    BY <1>2, <2>1, <2>3 DEF Typed
  <2>5. QED BY <2>1, <2>3, <2>4
<1>5. Occurs(heap, i)
  BY <1>1 DEF Owned
<1>6. /\ heap' \in Seq(Slots) /\ Once(heap')
      /\ \A x : Occurs(heap', x) <=> Occurs(heap, x)
  <2>1. /\ Withdrawn(heap, i) \in Seq(Slots) /\ Once(Withdrawn(heap, i))
        /\ \A x : Occurs(Withdrawn(heap, i), x) <=> Occurs(heap, x) /\ x # i
    BY <1>1, <1>5, WithdrawnMembers DEF Typed, Placed
  <2>2. QED BY <1>1, <1>5, <2>1, PushedMembers
<1>7. Typed'
  BY <1>1, <1>4, <1>6 DEF Typed
<1>8. Placed'
  BY <1>1, <1>6 DEF Placed
<1>9. InCall'
  <2>1. running # Idle => running.slot \in Slots
    BY DEF InCall, Typed
  <2>2. QED BY <1>1, <1>4, <2>1 DEF InCall
<1>10. Owned'
  <2>1. ASSUME NEW q \in Owners, hold[q] # -1
        PROVE  /\ data'[hold[q]].used /\ data'[hold[q]].owner = q
               /\ Occurs(heap', hold[q]) \/ hold[q] = running'.slot
    <3>1. hold[q] \in Slots
      BY <2>1 DEF Typed
    <3>2. QED BY <1>1, <1>4, <1>6, <2>1, <3>1 DEF Owned
  <2>2. ASSUME NEW x \in Slots, Occurs(heap', x), data'[x].owner # None
        PROVE  hold[data'[x].owner] = x
    BY <1>4, <1>6, <2>2 DEF Owned
  <2>3. QED BY <1>1, <2>1, <2>2 DEF Owned
<1>11. QED BY <1>7, <1>8, <1>9, <1>10

LEMMA ForgetStep ==
  ASSUME IInv, NEW o \in Owners, Forget(o)
  PROVE  IInv'
<1> USE DEF IInv
<1>1. /\ hold' = [hold EXCEPT ![o] = -1] /\ hold[o] = running.slot /\ running # Idle
      /\ data[hold[o]].every = 0
      /\ UNCHANGED <<now, look, data, num, heap, free, running, leaked>>
  BY DEF Forget
<1>2. \A q \in Owners : hold'[q] = IF q = o THEN -1 ELSE hold[q]
  BY <1>1 DEF Typed
<1>3. Typed' /\ Placed'
  BY <1>1 DEF Typed, Placed
<1>4. InCall'
  BY <1>1 DEF InCall
<1>5. Owned'
  <2>1. ASSUME NEW j \in Slots, Occurs(heap, j), data[j].owner # None
        PROVE  hold'[data[j].owner] = j
    <3>1. j # running.slot /\ hold[data[j].owner] = j /\ data[j].owner \in Owners
      BY <2>1 DEF Placed, Owned, Typed, Timers
    <3>2. QED BY <1>1, <1>2, <3>1
  <2>2. QED BY <1>1, <1>2, <2>1 DEF Owned
<1>6. QED BY <1>3, <1>4, <1>5

LEMMA DoTimerStep ==
  ASSUME IInv, DoTimer
  PROVE  IInv'
BY DEF IInv, DoTimer, Typed, Placed, InCall, Owned

\* The timer at the top leaves the heap: it is free again, or called.
LEMMA ExpireStep ==
  ASSUME IInv, Expire
  PROVE  IInv'
<1> DEFINE i    == heap[Top]
           diff == Diff(TopTick, (now + look) % Mod)
<1> USE DEF IInv
<1>1. /\ running = Idle /\ heap # <<>> /\ heap' = Without(heap, Top)
      /\ now' = now /\ look' = look /\ num' = num /\ hold' = hold /\ leaked' = leaked
  BY DEF Expire
<1>2. /\ Top \in DOMAIN heap /\ i \in Slots /\ TopTick \in Int
      /\ Occurs(heap, i)
  BY <1>1, TopInHeap DEF Occurs
<1>3. diff \in Int
  <2>1. Mod \in Nat /\ Mod > 0 /\ now + look \in Int
    BY WindowAssumption DEF Typed
  <2>2. (now + look) % Mod \in Int
    BY <2>1
  <2>3. QED BY <1>2, <2>2, DiffInt
<1>4. /\ heap' \in Seq(Slots) /\ Once(heap')
      /\ \A x : Occurs(heap', x) <=> Occurs(heap, x) /\ x # i
  BY <1>1, <1>2, WithoutMembers DEF Typed, Placed
<1>5. ~Occurs(free, i) /\ i \notin leaked /\ i < num /\ data[i].removed \in BOOLEAN /\ i # -1
  <2> HIDE DEF i
  <2>1. ~Occurs(free, i) /\ i \notin leaked /\ i < num
    BY <1>2 DEF Placed
  <2>2. data[i].removed \in BOOLEAN
    BY <1>2 DEF Typed, Timers
  <2>3. i # -1
    BY <1>2, WindowAssumption DEF Slots
  <2>4. QED BY <2>1, <2>2, <2>3
<1>6. CASE data[i].owner = None
  <2>1. data' = [data EXCEPT ![i] = Blank] /\ free' = Append(free, i) /\ running' = running
    BY <1>6 DEF Expire, Released
  <2>2. Blank \in Timers
    BY DEF Blank, Timers
  <2>3. data' \in [Slots -> Timers] /\ \A j \in Slots : j # i => data'[j] = data[j]
    BY <1>2, <2>1, <2>2 DEF Typed
  <2>4. /\ free' \in Seq(Slots) /\ Once(free')
        /\ \A x : Occurs(free', x) <=> Occurs(free, x) \/ x = i
    BY <1>2, <1>5, <2>1, AppendMembers DEF Typed, Placed
  <2>5. Typed'
    BY <1>1, <1>4, <2>1, <2>3, <2>4 DEF Typed
  <2>6. Placed'
    BY <1>1, <1>2, <1>4, <1>5, <2>1, <2>4 DEF Placed, Idle
  <2>7. InCall'
    BY <1>1, <2>1 DEF InCall
  <2>8. \A o \in Owners : hold[o] # i
    BY <1>2, <1>5, <1>6, OwnerAssumption DEF Owned
  <2>9. Owned'
    BY <1>1, <1>4, <2>1, <2>3, <2>8 DEF Owned, Typed
  <2>10. QED BY <2>5, <2>6, <2>7, <2>9
<1>7. CASE data[i].owner # None
  <2>1. /\ data' = [data EXCEPT ![i].tick = TopTick, ![i].left = diff + look, ![i].removed = TRUE]
        /\ running' = [slot |-> i, at |-> look + (IF diff < -Late THEN 0 ELSE diff),
                       owner |-> data[i].owner]
        /\ free' = free
    BY <1>7 DEF Expire
  <2>2. /\ data' \in [Slots -> Timers]
        /\ \A j \in Slots : data'[j].owner = data[j].owner /\ data'[j].used = data[j].used
        /\ data'[i].removed
    <3> DEFINE r == [used |-> data[i].used, owner |-> data[i].owner, tick |-> TopTick,
                     every |-> data[i].every, removed |-> TRUE, left |-> diff + look]
    <3>1. data[i] \in Timers /\ look \in Int
      BY <1>2 DEF Typed
    <3>2. data' = [j \in Slots |-> IF j = i THEN r ELSE data[j]]
      <4>1. [data[i] EXCEPT !.tick = TopTick, !.left = diff + look, !.removed = TRUE] = r
        <5>1. diff + look \in Int
          BY <1>3, <3>1
        <5> HIDE DEF diff
        <5>2. QED BY <1>2, <3>1, <5>1, Rescheduled
      <4>2. data' = [data EXCEPT ![i] = [data[i] EXCEPT !.tick = TopTick, !.left = diff + look, !.removed = TRUE]]
        BY <1>2, <2>1 DEF Typed
      <4>3. QED BY <1>2, <4>1, <4>2 DEF Typed
    <3>3. r \in Timers
      BY <1>2, <1>3, <3>1 DEF Timers
    <3>4. QED BY <1>2, <3>2, <3>3 DEF Typed
  <2>3. running' \in [slot : Slots \cup {-1}, at : Int, owner : Owners \cup {None}] /\ running'.slot = i
    <3>1. data[i].owner \in Owners \cup {None} /\ look \in Int
      BY <1>2 DEF Typed, Timers
    <3>2. look + (IF diff < -Late THEN 0 ELSE diff) \in Int
      BY <1>3, <3>1
    <3>3. QED BY <1>2, <2>1, <3>1, <3>2
  <2>4. Typed'
    BY <1>1, <1>4, <2>1, <2>2, <2>3 DEF Typed
  <2>5. Placed'
    BY <1>1, <1>2, <1>4, <1>5, <2>1, <2>3 DEF Placed, Idle
  <2>6. hold[data[i].owner] = i
    BY <1>2, <1>7 DEF Owned
  <2>7. InCall'
    <3>1. running'.slot = i /\ i # -1 /\ i \notin leaked'
      BY <1>1, <1>5, <2>3
    <3>2. data'[i].removed /\ data'[i].owner # None /\ hold'[data'[i].owner] = i
      BY <1>1, <1>2, <1>7, <2>2, <2>6
    <3> HIDE DEF i
    <3>3. QED BY <3>1, <3>2 DEF InCall
  <2>8. Owned'
    <3>1. ASSUME NEW o \in Owners, hold[o] # -1
          PROVE  /\ data'[hold[o]].used /\ data'[hold[o]].owner = o
                 /\ Occurs(heap', hold[o]) \/ hold[o] = running'.slot
      <4>1. hold[o] \in Slots /\ (Occurs(heap, hold[o]) \/ hold[o] = running.slot)
        BY <3>1 DEF Owned, Typed
      <4>2. hold[o] # -1 /\ running.slot = -1
        BY <1>1, <3>1 DEF Idle
      <4>3. QED BY <1>4, <2>2, <2>3, <3>1, <4>1, <4>2 DEF Owned
    <3>2. ASSUME NEW x \in Slots, Occurs(heap', x), data'[x].owner # None
          PROVE  hold[data'[x].owner] = x
      BY <1>4, <2>2, <3>2 DEF Owned
    <3>3. QED BY <1>1, <3>1, <3>2 DEF Owned
  <2>9. QED BY <2>4, <2>5, <2>7, <2>8
<1>8. QED BY <1>6, <1>7

\* The timer that was called is over, starts again, or was deleted.
LEMMA FinishStep ==
  ASSUME IInv, Finish
  PROVE  IInv'
<1> DEFINE i == running.slot
<1> USE DEF IInv
<1>1. /\ running # Idle /\ running' = Idle
      /\ now' = now /\ look' = look /\ num' = num /\ leaked' = leaked
  BY DEF Finish
<1>2. /\ i \in Slots /\ i # -1 /\ i < num /\ ~Occurs(heap, i) /\ ~Occurs(free, i)
      /\ data[i].removed <=> i \notin leaked
  BY <1>1 DEF InCall, Typed, Placed
<1>3. running'.slot = -1 /\ running' \in [slot : Slots \cup {-1}, at : Int, owner : Owners \cup {None}]
      /\ \A j \in Slots : j # -1 /\ j \in Int
  BY <1>1, WindowAssumption DEF Idle, Slots
<1>4. CASE data[i].removed /\ data[i].every = 0
  <2>1. /\ data' = [data EXCEPT ![i] = Blank] /\ free' = Append(free, i) /\ heap' = heap
        /\ hold' = [o \in Owners |-> IF hold[o] = i THEN -1 ELSE hold[o]]
    BY <1>4 DEF Finish, Released
  <2>2. Blank \in Timers
    BY DEF Blank, Timers
  <2>3. data' \in [Slots -> Timers] /\ \A j \in Slots : j # i => data'[j] = data[j]
    BY <1>2, <2>1, <2>2 DEF Typed
  <2>4. /\ free' \in Seq(Slots) /\ Once(free')
        /\ \A x : Occurs(free', x) <=> Occurs(free, x) \/ x = i
    BY <1>2, <2>1, AppendMembers DEF Typed, Placed
  <2>5. Typed'
    BY <1>1, <1>3, <2>1, <2>3, <2>4 DEF Typed
  <2>6. Placed'
    BY <1>1, <1>2, <1>3, <1>4, <2>1, <2>4 DEF Placed, Typed
  <2>7. InCall'
    BY <1>1 DEF InCall, Idle
  <2>8. Owned'
    <3>1. ASSUME NEW o \in Owners, hold'[o] # -1
          PROVE  /\ data'[hold'[o]].used /\ data'[hold'[o]].owner = o
                 /\ Occurs(heap', hold'[o]) \/ hold'[o] = running'.slot
      <4>1. hold'[o] = hold[o] /\ hold[o] # i /\ hold[o] # -1 /\ hold[o] \in Slots
        BY <2>1, <3>1 DEF Typed
      <4>2. QED BY <2>1, <2>3, <4>1 DEF Owned
    <3>2. ASSUME NEW j \in Slots, Occurs(heap', j), data'[j].owner # None
          PROVE  hold'[data'[j].owner] = j
      <4>1. j # i /\ data'[j] = data[j] /\ data[j].owner \in Owners
        BY <1>2, <2>1, <2>3, <3>2 DEF Typed, Timers
      <4>2. hold[data[j].owner] = j
        BY <2>1, <3>2, <4>1 DEF Owned
      <4>3. QED BY <2>1, <4>1, <4>2
    <3>3. QED BY <3>1, <3>2 DEF Owned
  <2>9. QED BY <2>5, <2>6, <2>7, <2>8
<1>5. CASE data[i].removed /\ data[i].every > 0
  <2>1. heap' = Pushed(data', heap, i) /\ free' = free /\ hold' = hold
    BY <1>5 DEF Finish
  <2>2. /\ data' \in [Slots -> Timers]
        /\ \A j \in Slots : data'[j].owner = data[j].owner /\ data'[j].used = data[j].used
    <3> DEFINE left == running.at + data[i].every
               tick == (now + running.at + data[i].every) % Mod
               r    == [used |-> data[i].used, owner |-> data[i].owner, tick |-> tick,
                        every |-> data[i].every, removed |-> FALSE, left |-> left]
    <3>1. data[i] \in Timers /\ running.at \in Int /\ now \in Int /\ data[i].every \in Int
      BY <1>2 DEF Typed, Timers
    <3>2. left \in Int /\ tick \in Int
      <4>1. Mod \in Nat /\ Mod > 0
        BY WindowAssumption
      <4>2. now + running.at + data[i].every \in Int
        BY <3>1
      <4>3. QED BY <3>1, <4>1, <4>2
    <3>3. data' = [j \in Slots |-> IF j = i THEN r ELSE data[j]]
      <4>1. [data[i] EXCEPT !.tick = tick, !.left = left, !.removed = FALSE] = r
        <5> HIDE DEF tick, left
        <5>1. QED BY <3>1, <3>2, Rescheduled
      <4>2. data' = [data EXCEPT ![i] = [data[i] EXCEPT !.tick = tick, !.left = left, !.removed = FALSE]]
        <5>1. data' = [data EXCEPT ![i].tick = tick, ![i].left = left, ![i].removed = FALSE]
          BY <1>5 DEF Finish
        <5> HIDE DEF tick, left
        <5>2. QED BY <1>2, <5>1 DEF Typed
      <4>3. QED BY <1>2, <4>1, <4>2 DEF Typed
    <3>4. r \in Timers
      BY <3>1, <3>2 DEF Timers
    <3>5. QED BY <1>2, <3>3, <3>4 DEF Typed
  <2>3. /\ heap' \in Seq(Slots) /\ Once(heap')
        /\ \A x : Occurs(heap', x) <=> Occurs(heap, x) \/ x = i
    BY <1>2, <2>1, PushedMembers DEF Typed, Placed
  <2>4. Typed'
    BY <1>1, <1>3, <2>1, <2>2, <2>3 DEF Typed
  <2>5. Placed'
    BY <1>1, <1>2, <1>3, <1>5, <2>1, <2>3 DEF Placed, Typed
  <2>6. InCall'
    BY <1>1 DEF InCall, Idle
  <2>7. hold[data[i].owner] = i
    BY <1>1, <1>5 DEF InCall
  <2>8. Owned'
    <3>1. \A o \in Owners : hold[o] \in Slots \cup {-1}
      BY DEF Typed
    <3>2. QED BY <2>1, <2>2, <2>3, <2>7, <3>1 DEF Owned
  <2>9. QED BY <2>4, <2>5, <2>6, <2>8
<1>6. CASE ~data[i].removed
  <2>1. UNCHANGED <<data, free, heap, hold>>
    BY <1>6 DEF Finish
  <2>2. i \in leaked
    BY <1>2, <1>6
  <2>3. Typed' /\ InCall'
    BY <1>1, <1>3, <2>1 DEF Typed, InCall, Idle
  <2>4. Placed'
    BY <1>1, <1>2, <1>3, <2>1, <2>2 DEF Placed, Typed
  <2>5. \A o \in Owners : hold[o] # i
    BY <1>1, <1>2, <2>2, OwnerAssumption DEF InCall, Owned
  <2>6. Owned'
    BY <1>1, <2>1, <2>5 DEF Owned
  <2>7. QED BY <2>3, <2>4, <2>6
<1>7. QED BY <1>4, <1>5, <1>6 DEF Finish

LEMMA ReturnStep ==
  ASSUME IInv, Return
  PROVE  IInv'
<1> USE DEF IInv
<1>1. /\ look' = Away
      /\ UNCHANGED <<now, num, heap, free, running, hold, leaked>>
  BY DEF Return
<1>2. /\ data' \in [Slots -> Timers]
      /\ \A j \in Slots : /\ data'[j].owner = data[j].owner /\ data'[j].used = data[j].used
                           /\ data'[j].every = data[j].every /\ data'[j].removed = data[j].removed
  <2>1. CASE heap = <<>>
    BY <2>1 DEF Return, Typed
  <2>2. CASE heap # <<>>
    <3> DEFINE i == heap[Top]
               r == [data[i] EXCEPT !.tick = TopTick, !.left = Diff(TopTick, now)]
    <3>1. i \in Slots /\ TopTick \in Int
      BY <2>2, TopInHeap
    <3>2. Diff(TopTick, now) \in Int
      BY <3>1, DiffInt DEF Typed
    <3>3. data' = [data EXCEPT ![i].tick = TopTick, ![i].left = Diff(TopTick, now)]
      BY <2>2 DEF Return
    <3>4. /\ r \in Timers /\ r.owner = data[i].owner /\ r.used = data[i].used
          /\ r.every = data[i].every /\ r.removed = data[i].removed
      <4>1. data[i] \in Timers
        BY <3>1 DEF Typed
      <4> HIDE DEF i
      <4>2. QED BY <3>1, <3>2, <4>1 DEF Timers
    <3>5. data' = [j \in Slots |-> IF j = i THEN r ELSE data[j]]
      BY <3>1, <3>3 DEF Typed
    <3> HIDE DEF r, i
    <3>6. QED BY <3>1, <3>4, <3>5 DEF Typed
  <2>3. QED BY <2>1, <2>2
<1>3. Typed'
  BY <1>1, <1>2 DEF Typed, Away
<1>4. Placed'
  BY <1>1 DEF Placed
<1>5. InCall'
  BY <1>1, <1>2 DEF InCall, Typed
<1>6. Owned'
  BY <1>1, <1>2 DEF Owned, Typed
<1>7. QED BY <1>3, <1>4, <1>5, <1>6

LEMMA AdvanceStep ==
  ASSUME IInv, Advance
  PROVE  IInv'
<1> USE DEF IInv
<1> DEFINE waits(i) == InHeap(i) \/ (i = running.slot /\ data[i].removed)
<1>1. /\ now' = (now + 1) % Mod
      /\ data' = [i \in Slots |-> IF waits(i) THEN [data[i] EXCEPT !.left = @ - 1] ELSE data[i]]
      /\ running' = IF running = Idle THEN Idle ELSE [running EXCEPT !.at = @ - 1]
      /\ look' = IF look = Away THEN Away ELSE look - 1
      /\ UNCHANGED <<num, heap, free, hold, leaked>>
  BY DEF Advance
<1>2. /\ data' \in [Slots -> Timers]
      /\ \A j \in Slots : /\ data'[j].owner = data[j].owner /\ data'[j].used = data[j].used
                           /\ data'[j].every = data[j].every /\ data'[j].removed = data[j].removed
  <2> DEFINE r(j) == [data[j] EXCEPT !.left = @ - 1]
  <2>1. ASSUME NEW j \in Slots
        PROVE  /\ r(j) \in Timers /\ r(j).owner = data[j].owner /\ r(j).used = data[j].used
               /\ r(j).every = data[j].every /\ r(j).removed = data[j].removed
    <3>1. data[j] \in Timers /\ data[j].left - 1 \in Int
      BY DEF Typed, Timers
    <3>2. QED BY <3>1, Retimed
  <2> HIDE DEF r, waits
  <2>2. data' = [j \in Slots |-> IF waits(j) THEN r(j) ELSE data[j]]
    BY <1>1 DEF r
  <2>3. QED BY <2>1, <2>2 DEF Typed
<1>3. now' \in Int /\ look' \in Int
  <2>1. Mod \in Nat /\ Mod > 0
    BY WindowAssumption
  <2>2. QED BY <1>1, <2>1 DEF Typed, Away
<1>4. /\ running' \in [slot : Slots \cup {-1}, at : Int, owner : Owners \cup {None}]
      /\ running'.slot = running.slot
      /\ running' # Idle => running # Idle
  <2>1. CASE running = Idle
    BY <1>1, <2>1 DEF Typed
  <2>2. CASE running # Idle
    <3>1. running' = [running EXCEPT !.at = @ - 1]
      BY <1>1, <2>2
    <3>2. running \in [slot : Slots \cup {-1}, at : Int, owner : Owners \cup {None}]
      BY DEF Typed
    <3>3. running' = [slot |-> running.slot, at |-> running.at - 1, owner |-> running.owner]
      BY ONLY <3>1, <3>2
    <3>4. QED BY ONLY <2>2, <3>2, <3>3
  <2>3. QED BY <2>1, <2>2
<1>5. Typed'
  BY <1>1, <1>2, <1>3, <1>4 DEF Typed
<1>6. Placed'
  BY <1>1, <1>4 DEF Placed
<1>7. InCall'
  BY <1>1, <1>2, <1>4 DEF InCall, Typed
<1>8. Owned'
  BY <1>1, <1>2, <1>4 DEF Owned, Typed
<1>9. QED BY <1>5, <1>6, <1>7, <1>8

LEMMA NextStep == IInv /\ [Next]_vars => IInv'
<1> SUFFICES ASSUME IInv, [Next]_vars PROVE IInv'
  OBVIOUS
<1>1. CASE UNCHANGED vars
  BY <1>1 DEF vars, IInv, Typed, Placed, InCall, Owned
<1>2. CASE Next
  <2>1. ASSUME NEW o \in Owners, Add(o) \/ Delete(o) \/ AddTick(o) \/ Forget(o) PROVE IInv'
    BY <2>1, AddStep, DeleteStep, AddTickStep, ForgetStep
  <2>2. QED BY <1>2, <2>1, DoTimerStep, ExpireStep, FinishStep, ReturnStep, AdvanceStep DEF Next
<1>3. QED BY <1>1, <1>2

-----------------------------------------------------------------------------

LEMMA SpecIInv == Spec => []IInv
BY InitIInv, NextStep, PTL DEF Spec

\* However timers are set, deleted, postponed and called, every slot that was
\* given out is in one place only: add_timer_real (timer.c:304) never gives
\* out one that is in the heap or called, and only timers deleted by their own
\* call (timer.c:378) lose theirs.
THEOREM SpecSlotsKept == Spec => []SlotsKept
<1>1. IInv => SlotsKept
  BY DEF IInv, Placed, Typed, SlotsKept, InHeap, InFree, Occurs, Once
<1>2. QED BY <1>1, SpecIInv, PTL

\* The id an owner remembers is its own timer's, and no timer is left that
\* would call an owner who deleted it (timer.c:361-382).
THEOREM SpecHandlesAreOwn == Spec => []HandlesAreOwn
<1>1. IInv => HandlesAreOwn
  BY DEF IInv, Owned, HandlesAreOwn, InHeap, Occurs
<1>2. QED BY <1>1, SpecIInv, PTL

-----------------------------------------------------------------------------
(* Times *)

Window == -MaxStall..MaxDelay

Clocked == \A i \in Slots : Occurs(heap, i) => data[i].tick = (now + data[i].left) % Mod

Sorted(d, h) == \A j, k \in DOMAIN h : j < k => d[h[j]].left >= d[h[k]].left

Ranges ==
  /\ now \in 0..(Mod - 1)
  /\ look \in -MaxStall..0 \cup {Away}
  /\ num <= MaxSlots
  /\ running.at \in -MaxStall..0
  /\ \A i \in Slots : data[i].tick \in 0..(Mod - 1) /\ data[i].every \in 0..MaxDelay /\ data[i].left \in Window

Timed == Ranges /\ Clocked /\ Sorted(data, heap)

OInv == IInv /\ Timed

-----------------------------------------------------------------------------
(* Arithmetic of ticks *)

LEMMA Windows ==
  /\ Mod \in Nat /\ MaxStall \in Nat /\ MaxDelay \in Nat /\ Low \in Nat /\ High \in Nat /\ Late \in Nat
  /\ 2 * (MaxStall + MaxDelay) < Mod /\ Low + MaxDelay <= High /\ High < Mod /\ Mod > 0
  /\ Window \subseteq Int
BY WindowAssumption DEF Window

\* What wraps around once.
LEMMA ModOf ==
  ASSUME NEW x \in Int, -Mod <= x, x < 2 * Mod
  PROVE  /\ x % Mod = IF x < 0 THEN x + Mod ELSE IF x < Mod THEN x ELSE x - Mod
         /\ x % Mod \in 0..(Mod - 1)
<1>1. Mod \in Nat /\ Mod > 0
  BY Windows
<1>2. ASSUME NEW M \in Nat, M > 0, NEW y \in 0..(M - 1) PROVE y % M = y
  BY ONLY <1>2
<1>3. ASSUME NEW M \in Nat, M > 0, NEW y \in M..(2 * M - 1) PROVE y % M = y - M
  BY ONLY <1>3
<1>4. ASSUME NEW M \in Nat, M > 0, NEW y \in (-M)..(-1) PROVE y % M = y + M
  BY ONLY <1>4
<1>5. CASE x < 0
  <2>1. x \in (-Mod)..(-1)
    BY <1>1, <1>5
  <2>2. x % Mod = x + Mod
    BY <1>1, <1>4, <2>1
  <2>3. QED BY <1>1, <1>5, <2>2
<1>6. CASE 0 <= x /\ x < Mod
  <2>1. x \in 0..(Mod - 1)
    BY <1>1, <1>6
  <2>2. x % Mod = x
    BY <1>1, <1>2, <2>1
  <2>3. QED BY <1>1, <1>6, <2>2
<1>7. CASE x >= Mod
  <2>1. x \in Mod..(2 * Mod - 1)
    BY <1>1, <1>7
  <2>2. x % Mod = x - Mod
    BY <1>1, <1>3, <2>1
  <2>3. QED BY <1>1, <1>7, <2>2
<1>8. QED BY <1>1, <1>5, <1>6, <1>7

\* The difference of two ticks in the window is the true one.
LEMMA DiffTrue ==
  ASSUME NEW t \in 0..(Mod - 1), NEW a \in Window, NEW b \in Window
  PROVE  Diff((t + a) % Mod, (t + b) % Mod) = a - b
<1> DEFINE x == (t + a) % Mod
           y == (t + b) % Mod
<1>1. a \in Int /\ b \in Int /\ t \in Int /\ Mod \in Int /\ 0 <= t /\ t < Mod
      /\ -Mod < 2 * (a - b) /\ 2 * (a - b) < Mod
      /\ -Mod <= t + a /\ t + a < 2 * Mod /\ -Mod <= t + b /\ t + b < 2 * Mod
  BY Windows DEF Window
<1>2. /\ x = IF t + a < 0 THEN t + a + Mod ELSE IF t + a < Mod THEN t + a ELSE t + a - Mod
      /\ x \in 0..(Mod - 1)
  <2>1. t + a \in Int /\ -Mod <= t + a /\ t + a < 2 * Mod
    BY <1>1
  <2>2. QED BY <2>1, Windows, ModOf
<1>3. /\ y = IF t + b < 0 THEN t + b + Mod ELSE IF t + b < Mod THEN t + b ELSE t + b - Mod
      /\ y \in 0..(Mod - 1)
  <2>1. t + b \in Int /\ -Mod <= t + b /\ t + b < 2 * Mod
    BY <1>1
  <2>2. QED BY <2>1, Windows, ModOf
<1> HIDE DEF x, y
<1>4. x - y \in Int /\ -Mod <= x - y /\ x - y < 2 * Mod
  BY <1>1, <1>2, <1>3
<1>5. (x - y) % Mod = IF x - y < 0 THEN x - y + Mod ELSE IF x - y < Mod THEN x - y ELSE x - y - Mod
  BY <1>4, Windows, ModOf
<1>6. (x - y) % Mod = IF a - b >= 0 THEN a - b ELSE a - b + Mod
  BY <1>1, <1>2, <1>3, <1>5
<1>7. Diff(x, y) = a - b
  BY <1>1, <1>6 DEF Diff
<1>8. QED BY <1>7 DEF x, y

\* Shifting a tick is shifting the time it stands for.
LEMMA Shifted ==
  ASSUME NEW t \in 0..(Mod - 1), NEW a \in Window, NEW k \in Int, a + k \in Window
  PROVE  (((t + a) % Mod) + k) % Mod = (t + a + k) % Mod
<1> DEFINE x == (t + a) % Mod
<1>1. a \in Int /\ t \in Int /\ Mod \in Int /\ 0 <= t /\ t < Mod
      /\ -Mod < 2 * k /\ 2 * k < Mod
      /\ -Mod < 2 * a /\ 2 * a < Mod /\ -Mod < 2 * (a + k) /\ 2 * (a + k) < Mod
  BY Windows DEF Window
<1>2. /\ x = IF t + a < 0 THEN t + a + Mod ELSE IF t + a < Mod THEN t + a ELSE t + a - Mod
      /\ x \in 0..(Mod - 1)
  <2>1. t + a \in Int /\ -Mod <= t + a /\ t + a < 2 * Mod
    BY <1>1
  <2>2. QED BY <2>1, Windows, ModOf
<1>3. (t + a + k) % Mod = IF t + a + k < 0 THEN t + a + k + Mod
                          ELSE IF t + a + k < Mod THEN t + a + k ELSE t + a + k - Mod
  <2>1. t + a + k \in Int /\ -Mod <= t + a + k /\ t + a + k < 2 * Mod
    BY <1>1
  <2>2. QED BY <2>1, Windows, ModOf
<1> HIDE DEF x
<1>4. (x + k) % Mod = IF x + k < 0 THEN x + k + Mod ELSE IF x + k < Mod THEN x + k ELSE (x + k) - Mod
  <2> DEFINE z == x + k
  <2>1. z \in Int /\ -Mod <= z /\ z < 2 * Mod
    BY <1>1, <1>2
  <2> HIDE DEF z
  <2>2. z % Mod = IF z < 0 THEN z + Mod ELSE IF z < Mod THEN z ELSE z - Mod
    BY <2>1, Windows, ModOf
  <2>3. QED BY <2>2 DEF z
<1>5. (x + k) % Mod = (t + a + k) % Mod
  BY <1>1, <1>2, <1>3, <1>4
<1>6. QED BY <1>5 DEF x

\* A moment later, a tick stands for one moment less.
LEMMA Ticked ==
  ASSUME NEW t \in 0..(Mod - 1), NEW a \in Window, a - 1 \in Window
  PROVE  (t + a) % Mod = (((t + 1) % Mod) + (a - 1)) % Mod
<1> DEFINE u == (t + 1) % Mod
<1>1. a \in Int /\ t \in Int /\ Mod \in Int /\ 0 <= t /\ t < Mod /\ Mod >= 1
      /\ -Mod < 2 * a /\ 2 * a < Mod /\ -Mod < 2 * (a - 1) /\ 2 * (a - 1) < Mod
  BY Windows DEF Window
<1>2. u = IF t + 1 < Mod THEN t + 1 ELSE t + 1 - Mod
  <2>1. t + 1 \in Int /\ -Mod <= t + 1 /\ t + 1 < 2 * Mod /\ ~(t + 1 < 0)
    BY <1>1
  <2>2. u = IF t + 1 < 0 THEN t + 1 + Mod ELSE IF t + 1 < Mod THEN t + 1 ELSE t + 1 - Mod
    BY <2>1, Windows, ModOf
  <2>3. QED BY <2>1, <2>2
<1>3. (t + a) % Mod = IF t + a < 0 THEN t + a + Mod ELSE IF t + a < Mod THEN t + a ELSE t + a - Mod
  <2>1. t + a \in Int /\ -Mod <= t + a /\ t + a < 2 * Mod
    BY <1>1
  <2>2. QED BY <2>1, Windows, ModOf
<1> HIDE DEF u
<1>4. u + (a - 1) \in Int /\ -Mod <= u + (a - 1) /\ u + (a - 1) < 2 * Mod
  BY <1>1, <1>2
<1>5. (u + (a - 1)) % Mod = IF u + (a - 1) < 0 THEN u + (a - 1) + Mod
                            ELSE IF u + (a - 1) < Mod THEN u + (a - 1) ELSE (u + (a - 1)) - Mod
  <2> DEFINE z == u + (a - 1)
  <2>1. z \in Int /\ -Mod <= z /\ z < 2 * Mod
    BY <1>4
  <2> HIDE DEF z
  <2>2. z % Mod = IF z < 0 THEN z + Mod ELSE IF z < Mod THEN z ELSE z - Mod
    BY <2>1, Windows, ModOf
  <2>3. QED BY <2>2 DEF z
<1>6. (t + a) % Mod = (u + (a - 1)) % Mod
  BY <1>1, <1>2, <1>3, <1>5
<1>7. QED BY <1>6 DEF u

-----------------------------------------------------------------------------
(* The heap is sorted *)

LEMMA SortedWithout ==
  ASSUME NEW d, NEW S, NEW h \in Seq(S), NEW p \in DOMAIN h, Sorted(d, h)
  PROVE  Sorted(d, Without(h, p))
<1> DEFINE g       == Without(h, p)
           from(j) == IF j < p THEN j ELSE j + 1
<1>1. DOMAIN g = 1..(Len(h) - 1) /\ DOMAIN h = 1..Len(h) /\ Len(h) \in Nat
  BY DEF Without
<1>2. \A j \in DOMAIN g : from(j) \in DOMAIN h /\ g[j] = h[from(j)]
  BY <1>1 DEF Without
<1>3. \A j, k \in DOMAIN g : j < k => from(j) < from(k)
  BY <1>1
<1> HIDE DEF g, from
<1>4. Sorted(d, g)
  BY <1>2, <1>3 DEF Sorted
<1>5. QED BY <1>4 DEF g

\* A set of places that has all before each of its own is the first of them.
LEMMA Prefix ==
  ASSUME NEW n \in Nat, NEW S \in SUBSET (1..n), \A k \in S : \A j \in 1..n : j <= k => j \in S
  PROVE  S = 1..Cardinality(S)
<1> DEFINE c == Cardinality(S)
<1>1. IsFiniteSet(1..n) /\ IsFiniteSet(S) /\ c \in Nat
  <2>1. n \in Int /\ 1 \in Int
    OBVIOUS
  <2>2. IsFiniteSet(1..n)
    BY <2>1, FS_Interval
  <2>3. IsFiniteSet(S)
    BY <2>2, FS_Subset
  <2>4. QED BY <2>2, <2>3, FS_CardinalityType
<1>2. \A m \in Nat : IsFiniteSet(1..m) /\ Cardinality(1..m) = m
  <2> TAKE m \in Nat
  <2>1. m \in Int /\ 1 \in Int /\ m >= 0
    OBVIOUS
  <2>2. Cardinality(1..m) = IF 1 > m THEN 0 ELSE m - 1 + 1
    BY <2>1, FS_Interval
  <2>3. QED BY <2>1, <2>2, FS_Interval
<1>3. ASSUME NEW k \in S PROVE k <= c
  <2>1. k \in Nat /\ 1..k \subseteq S
    BY <1>3
  <2>2. Cardinality(1..k) <= c
    BY <1>1, <2>1, FS_Subset
  <2>3. QED BY <1>2, <2>1, <2>2
<1>4. S \subseteq 1..c
  BY <1>1, <1>3
<1>5. Cardinality(1..c) = c /\ IsFiniteSet(1..c)
  BY <1>1, <1>2
<1>6. QED BY <1>4, <1>5, FS_Subset

\* push_timer_heap keeps the heap sorted, whatever wrapped around.
LEMMA SortedPush ==
  ASSUME NEW d, NEW t \in 0..(Mod - 1), NEW h \in Seq(Slots), NEW i \in Slots,
         \A j \in DOMAIN h : d[h[j]].left \in Window /\ d[h[j]].tick = (t + d[h[j]].left) % Mod,
         d[i].left \in Window, d[i].tick = (t + d[i].left) % Mod,
         Sorted(d, h)
  PROVE  Sorted(d, Pushed(d, h, i))
<1> DEFINE later == {j \in DOMAIN h : Diff(d[h[j]].tick, d[i].tick) > 0}
           p     == Cardinality(later) + 1
           g     == Inserted(h, p, i)
<1>1. DOMAIN h = 1..Len(h) /\ Len(h) \in Nat
  OBVIOUS
<1>2. \A j \in DOMAIN h : Diff(d[h[j]].tick, d[i].tick) = d[h[j]].left - d[i].left
  BY DiffTrue
<1>3. \A j \in DOMAIN h : d[h[j]].left \in Int /\ d[i].left \in Int
  BY Windows
<1>4. \A j \in DOMAIN h : j \in later <=> d[h[j]].left > d[i].left
  BY <1>2, <1>3
<1>5. later = 1..Cardinality(later)
  <2>1. later \in SUBSET (1..Len(h))
    BY <1>1
  <2>2. ASSUME NEW k \in later, NEW j \in 1..Len(h), j <= k PROVE j \in later
    <3>1. k \in DOMAIN h /\ j \in DOMAIN h /\ d[h[k]].left > d[i].left
      BY <1>1, <1>4
    <3>2. d[h[j]].left >= d[h[k]].left
      <4>1. CASE j = k
        BY <1>3, <3>1, <4>1
      <4>2. CASE j < k
        BY <3>1, <4>2 DEF Sorted
      <4>3. QED BY <1>1, <2>2, <3>1, <4>1, <4>2
    <3>3. QED BY <1>3, <1>4, <3>1, <3>2
  <2> HIDE DEF later
  <2>3. QED BY <1>1, <2>1, <2>2, Prefix
<1>6. p \in 1..(Len(h) + 1) /\ Pushed(d, h, i) = g
  BY PlaceInHeap DEF Pushed, Place
<1>7. \A j \in DOMAIN h : j < p <=> d[h[j]].left > d[i].left
  <2>1. Cardinality(later) \in Int
    <3>1. 1 \in Int /\ Len(h) \in Int /\ later \subseteq 1..Len(h)
      BY <1>1
    <3>2. IsFiniteSet(1..Len(h))
      BY <3>1, FS_Interval
    <3> HIDE DEF later
    <3>3. IsFiniteSet(later)
      BY <3>1, <3>2, FS_Subset
    <3>4. Cardinality(later) \in Nat
      BY <3>3, FS_CardinalityType
    <3>5. QED BY <3>4
  <2> HIDE DEF later
  <2>2. QED BY <1>1, <1>4, <1>5, <2>1
<1> HIDE DEF p
<1>8. DOMAIN g = 1..(Len(h) + 1)
      /\ \A j \in DOMAIN g : g[j] = IF j < p THEN h[j] ELSE IF j = p THEN i ELSE h[j - 1]
  BY <1>1 DEF Inserted
<1>9. ASSUME NEW j \in DOMAIN g, NEW k \in DOMAIN g, j < k
      PROVE  d[g[j]].left >= d[g[k]].left
  <2>1. CASE j < p /\ k < p
    <3>1. j \in DOMAIN h /\ k \in DOMAIN h /\ g[j] = h[j] /\ g[k] = h[k]
      BY <1>1, <1>6, <1>8, <2>1
    <3>2. QED BY <1>9, <3>1 DEF Sorted
  <2>2. CASE j < p /\ k = p
    <3>1. j \in DOMAIN h /\ g[j] = h[j] /\ g[k] = i
      BY <1>1, <1>6, <1>8, <2>2
    <3>2. QED BY <1>3, <1>7, <2>2, <3>1
  <2>3. CASE j < p /\ k > p
    <3>1. j \in DOMAIN h /\ k - 1 \in DOMAIN h /\ g[j] = h[j] /\ g[k] = h[k - 1] /\ j < k - 1
      BY <1>1, <1>6, <1>8, <2>3
    <3>2. QED BY <3>1 DEF Sorted
  <2>4. CASE j = p /\ k > p
    <3>1. k - 1 \in DOMAIN h /\ g[j] = i /\ g[k] = h[k - 1] /\ ~(k - 1 < p)
      BY <1>1, <1>6, <1>8, <2>4
    <3>2. QED BY <1>3, <1>7, <3>1
  <2>5. CASE j > p
    <3>1. j - 1 \in DOMAIN h /\ k - 1 \in DOMAIN h /\ g[j] = h[j - 1] /\ g[k] = h[k - 1] /\ j - 1 < k - 1
      BY <1>1, <1>6, <1>8, <1>9, <2>5
    <3>2. QED BY <3>1 DEF Sorted
  <2>6. QED BY <1>1, <1>6, <1>8, <1>9, <2>1, <2>2, <2>3, <2>4, <2>5
<1>10. QED BY <1>6, <1>9 DEF Sorted

-----------------------------------------------------------------------------
(* The top of the heap *)

\* The time TopTick stands for: the fix for ticks that wrap around takes what
\* is due before 0 as due at 0, and 0 is over.
TopLeft == IF Wrapped THEN -now ELSE data[heap[Top]].left

LEMMA TopTime ==
  ASSUME OInv, heap # <<>>
  PROVE  /\ TopLeft \in Window /\ TopTick = (now + TopLeft) % Mod
         /\ TopLeft >= data[heap[Top]].left
         /\ Wrapped => TopLeft <= 0 /\ now < Low
         /\ data[heap[Top]].left \in Window
<1> DEFINE l == data[heap[Top]].left
<1>1. Top \in DOMAIN heap /\ heap[Top] \in Slots
  BY TopInHeap DEF OInv, IInv
<1>2. l \in Window /\ data[heap[Top]].tick = (now + l) % Mod
  BY <1>1 DEF OInv, Timed, Ranges, Clocked, Occurs
<1>3. now \in Int /\ 0 <= now /\ now < Mod /\ l \in Int /\ -MaxStall <= l /\ l <= MaxDelay
  BY <1>2, Windows DEF OInv, Timed, Ranges, Window
<1>4. CASE Wrapped
  <2>1. Top = 1 /\ now < Low /\ (data[heap[Top]].tick = 0 \/ data[heap[Top]].tick > High)
    BY <1>4 DEF Top, Wrapped
  <2>2. now + l \in Int /\ -Mod <= now + l /\ now + l < Mod /\ now + l <= High
    BY <1>3, <2>1, Windows
  <2>3. (now + l) % Mod = IF now + l < 0 THEN now + l + Mod ELSE now + l
    <3> DEFINE z == now + l
    <3>1. z \in Int /\ -Mod <= z /\ z < Mod
      BY <2>2
    <3> HIDE DEF z
    <3>2. z % Mod = IF z < 0 THEN z + Mod ELSE z
      BY <3>1, Windows, ModOf
    <3>3. QED BY <1>3, <3>2, Windows DEF z
  <2>4. now + l <= 0
    BY <1>2, <1>3, <2>1, <2>2, <2>3, Windows
  <2>5. -now \in Window /\ now + (-now) = 0 /\ -now >= l
    BY <1>3, <2>4, Windows DEF Window
  <2>6. 0 % Mod = 0
    BY Windows, ModOf
  <2>7. TopLeft = -now /\ TopTick = 0
    BY <1>4 DEF TopLeft, TopTick
  <2>8. QED BY <1>2, <1>3, <2>1, <2>5, <2>6, <2>7
<1>5. CASE ~Wrapped
  BY <1>2, <1>3, <1>5 DEF TopLeft, TopTick
<1>6. QED BY <1>4, <1>5

\* What do_timer compares: the true time from the tick it was called with.
LEMMA TopDiff ==
  ASSUME OInv, heap # <<>>
  PROVE  /\ Diff(TopTick, now) = TopLeft
         /\ look # Away => Diff(TopTick, (now + look) % Mod) = TopLeft - look /\ look \in -MaxStall..0
<1>1. TopLeft \in Window /\ TopTick = (now + TopLeft) % Mod /\ now \in 0..(Mod - 1)
  BY TopTime DEF OInv, Timed, Ranges
<1>2. 0 \in Window /\ now + 0 = now /\ now % Mod = now
  BY <1>1, Windows, ModOf DEF Window
<1>3. Diff(TopTick, now) = TopLeft
  <2>1. Diff((now + TopLeft) % Mod, (now + 0) % Mod) = TopLeft - 0
    BY <1>1, <1>2, DiffTrue
  <2>2. QED BY <1>1, <1>2, <2>1, Windows
<1>4. ASSUME look # Away PROVE look \in Window /\ look \in -MaxStall..0
  BY <1>4, Windows DEF OInv, Timed, Ranges, Window
<1>5. QED BY <1>1, <1>3, <1>4, DiffTrue

-----------------------------------------------------------------------------
(* Every step keeps the times *)

\* A heap with one more timer: all have the right tick, and it is sorted.
LEMMA PushTimed ==
  ASSUME NEW d, NEW t \in 0..(Mod - 1), NEW h \in Seq(Slots), NEW i \in Slots,
         \A x \in Slots : Occurs(h, x) \/ x = i => d[x].left \in Window /\ d[x].tick = (t + d[x].left) % Mod,
         Sorted(d, h)
  PROVE  /\ Sorted(d, Pushed(d, h, i))
         /\ \A x \in Slots : Occurs(Pushed(d, h, i), x) => d[x].tick = (t + d[x].left) % Mod
<1>1. \A j \in DOMAIN h : h[j] \in Slots /\ Occurs(h, h[j])
  BY DEF Occurs
<1>2. Sorted(d, Pushed(d, h, i))
  BY <1>1, SortedPush
<1>3. \A x : Occurs(Pushed(d, h, i), x) <=> Occurs(h, x) \/ x = i
  BY PushedMembers
<1>4. QED BY <1>2, <1>3

\* The order depends on the times of the timers in the heap.
LEMMA SortedOther ==
  ASSUME NEW d, NEW e, NEW h \in Seq(Slots), Sorted(d, h),
         \A x \in Slots : Occurs(h, x) => e[x].left = d[x].left
  PROVE  Sorted(e, h)
<1>1. \A j \in DOMAIN h : h[j] \in Slots /\ Occurs(h, h[j])
  BY DEF Occurs
<1>2. QED BY <1>1 DEF Sorted

LEMMA InitTimed == Init => Timed
<1> SUFFICES ASSUME Init PROVE Timed
  OBVIOUS
<1>1. Ranges
  <2>1. 0 \in Window /\ 0 \in 0..(Mod - 1) /\ 0 \in 0..MaxDelay /\ 0 \in -MaxStall..0 /\ 0 <= MaxSlots
    BY Windows, WindowAssumption DEF Window
  <2>2. now \in 0..(Mod - 1) /\ look = Away /\ num = 0 /\ running.at = 0
    BY DEF Init, Idle
  <2>3. \A i \in Slots : data[i].tick = 0 /\ data[i].every = 0 /\ data[i].left = 0
    BY DEF Init, Blank
  <2>4. QED BY <2>1, <2>2, <2>3 DEF Ranges
<1>2. Clocked /\ Sorted(data, heap)
  BY DEF Init, Clocked, Sorted, Occurs
<1>3. QED BY <1>1, <1>2 DEF Timed

LEMMA AddTimed ==
  ASSUME OInv, NEW o \in Owners, Add(o)
  PROVE  Timed'
<1> DEFINE i == NewSlot
<1> USE DEF OInv, IInv
<1>1. /\ i \in Slots /\ i < MaxSlots /\ ~Occurs(heap, i)
      /\ num' = IF i >= num THEN i + 1 ELSE num
      /\ now' = now /\ look' = look /\ running' = running
      /\ heap' = Pushed(data', heap, i)
  BY NewSlotIsNew DEF Add
<1>2. PICK base \in Bases, delay \in Delays, every \in Periods :
        data' = [data EXCEPT ![i] = [used |-> TRUE, owner |-> o, tick |-> (now + base + delay) % Mod,
                                     every |-> every, removed |-> FALSE, left |-> base + delay]]
  BY DEF Add
<1>3. /\ data'[i].tick = (now + base + delay) % Mod /\ data'[i].left = base + delay
      /\ data'[i].every = every
      /\ \A x \in Slots : x # i => data'[x] = data[x]
  BY <1>1, <1>2 DEF Typed
<1>4. base \in -MaxStall..0 /\ delay \in 1..MaxDelay /\ every \in 0..MaxDelay /\ now \in 0..(Mod - 1)
  BY DelayAssumption, Windows DEF Bases, Timed, Ranges
<1>5. base + delay \in Window /\ now + base + delay = now + (base + delay)
      /\ -Mod <= now + base + delay /\ now + base + delay < 2 * Mod
  BY <1>4, Windows DEF Window
<1>6. data'[i].left \in Window /\ data'[i].tick = (now + data'[i].left) % Mod /\ data'[i].tick \in 0..(Mod - 1)
  <2> DEFINE z == now + base + delay
  <2>1. z \in Int /\ -Mod <= z /\ z < 2 * Mod
    BY <1>4, <1>5, Windows
  <2> HIDE DEF z
  <2>2. z % Mod \in 0..(Mod - 1)
    BY <2>1, Windows, ModOf
  <2>3. QED BY <1>3, <1>5, <2>2 DEF z
<1>7. Ranges'
  <2>1. i \in Int /\ num \in Int
    BY <1>1, Windows, WindowAssumption DEF Slots, Typed
  <2>2. num' <= MaxSlots
    BY <1>1, <2>1, WindowAssumption DEF Timed, Ranges
  <2>3. QED BY <1>1, <1>3, <1>4, <1>6, <2>2 DEF Timed, Ranges
<1>8. \A x \in Slots : Occurs(heap, x) \/ x = i =>
        data'[x].left \in Window /\ data'[x].tick = (now + data'[x].left) % Mod
  BY <1>1, <1>3, <1>6 DEF Timed, Ranges, Clocked
<1>9. Sorted(data', heap)
  BY <1>1, <1>3, SortedOther DEF Timed, Typed
<1>10. Clocked' /\ Sorted(data', heap')
  BY <1>1, <1>4, <1>8, <1>9, PushTimed DEF Typed, Clocked
<1>11. QED BY <1>7, <1>10 DEF Timed, Sorted

LEMMA DeleteTimed ==
  ASSUME OInv, NEW o \in Owners, Delete(o)
  PROVE  Timed'
<1> DEFINE i == hold[o]
<1> USE DEF OInv, IInv
<1>1. /\ i \in Slots /\ i # -1
      /\ now' = now /\ look' = look /\ num' = num /\ heap' = heap /\ running' = running
  BY DEF Delete, Typed
<1>2. /\ data'[i].every = 0
      /\ \A x \in Slots : x # i => data'[x] = data[x]
      /\ \/ i # running.slot /\ data'[i].tick = data[i].tick /\ data'[i].left = data[i].left
         \/ i = running.slot /\ data'[i].tick = 0 /\ data'[i].left = 0
  <2>1. CASE i # running.slot
    <3>1. data' = [data EXCEPT ![i].owner = None, ![i].every = 0]
      BY <2>1 DEF Delete
    <3>2. QED BY <1>1, <2>1, <3>1 DEF Typed, Timers
  <2>2. CASE i = running.slot
    <3>1. data' = [data EXCEPT ![i] = Lost]
      BY <2>2 DEF Delete
    <3>2. QED BY <1>1, <2>2, <3>1 DEF Typed, Lost
  <2>3. QED BY <2>1, <2>2
<1>3. 0 \in Window /\ 0 \in 0..(Mod - 1) /\ 0 \in 0..MaxDelay
  BY Windows DEF Window
<1>4. Ranges'
  BY <1>1, <1>2, <1>3 DEF Timed, Ranges
<1>5. \A x \in Slots : Occurs(heap, x) => data'[x].tick = data[x].tick /\ data'[x].left = data[x].left
  BY <1>1, <1>2 DEF Placed
<1>6. Clocked'
  BY <1>1, <1>5 DEF Timed, Clocked
<1>7. Sorted(data', heap')
  BY <1>1, <1>5, SortedOther DEF Timed, Typed
<1>8. QED BY <1>4, <1>6, <1>7 DEF Timed, Sorted

LEMMA AddTickTimed ==
  ASSUME OInv, NEW o \in Owners, AddTick(o)
  PROVE  Timed'
<1> DEFINE i == hold[o]
           h == Withdrawn(heap, i)
<1> USE DEF OInv, IInv
<1>1. /\ i \in Slots /\ i # -1 /\ i # running.slot
      /\ now' = now /\ look' = look /\ num' = num /\ running' = running
      /\ heap' = Pushed(data', h, i)
  BY DEF AddTick, Typed
<1>2. PICK delay \in Delays :
        /\ data[i].left + delay <= MaxDelay
        /\ data' = [data EXCEPT ![i].tick = (@ + delay) % Mod, ![i].left = @ + delay]
  BY DEF AddTick
<1>3. /\ data'[i].tick = (data[i].tick + delay) % Mod /\ data'[i].left = data[i].left + delay
      /\ data'[i].every = data[i].every
      /\ \A x \in Slots : x # i => data'[x] = data[x]
  BY <1>1, <1>2 DEF Typed, Timers
<1>4. Occurs(heap, i)
  BY <1>1 DEF Owned
<1>5. data[i].left \in Window /\ data[i].tick = (now + data[i].left) % Mod /\ data[i].tick \in 0..(Mod - 1)
      /\ now \in 0..(Mod - 1) /\ delay \in 1..MaxDelay
  BY <1>1, <1>4, DelayAssumption DEF Timed, Ranges, Clocked
<1>6. data[i].left + delay \in Window /\ delay \in Int
  BY <1>2, <1>5, Windows DEF Window
<1>7. data'[i].tick = (now + data'[i].left) % Mod
  <2>1. (((now + data[i].left) % Mod) + delay) % Mod = (now + data[i].left + delay) % Mod
    BY <1>5, <1>6, Shifted
  <2>2. now + data[i].left + delay = now + (data[i].left + delay)
    <3>1. now \in Int /\ delay \in Int
      BY <1>5, <1>6, Windows
    <3>2. data[i].left \in Int
      BY <1>1 DEF Typed, Timers
    <3>3. QED BY ONLY <3>1, <3>2
  <2>3. QED BY <1>3, <1>5, <2>1, <2>2
<1>8. data'[i].tick \in 0..(Mod - 1)
  <2> DEFINE z == data[i].tick + delay
  <2>1. z \in Int /\ -Mod <= z /\ z < 2 * Mod
    BY <1>5, Windows
  <2> HIDE DEF z
  <2>2. z % Mod \in 0..(Mod - 1)
    BY <2>1, Windows, ModOf
  <2>3. QED BY <1>3, <2>2 DEF z
<1>9. Ranges'
  BY <1>1, <1>3, <1>6, <1>8 DEF Timed, Ranges
<1>10. /\ h \in Seq(Slots)
       /\ \A x : Occurs(h, x) <=> Occurs(heap, x) /\ x # i
  BY <1>1, <1>4, WithdrawnMembers DEF Typed, Placed
<1>11. Sorted(data', h)
  <2>1. PICK j \in DOMAIN heap : heap[j] = i
    BY <1>4 DEF Occurs
  <2>2. (CHOOSE k \in DOMAIN heap : heap[k] = i) = j
    BY <2>1 DEF Once, Placed
  <2>3. h = Without(heap, j)
    BY <2>2 DEF Withdrawn
  <2>4. Sorted(data, h)
    BY <2>3, SortedWithout DEF Timed, Typed
  <2> HIDE DEF h
  <2>5. QED BY <1>3, <1>10, <2>4, SortedOther
<1>12. \A x \in Slots : Occurs(h, x) \/ x = i =>
         data'[x].left \in Window /\ data'[x].tick = (now + data'[x].left) % Mod
  BY <1>3, <1>6, <1>7, <1>10 DEF Timed, Ranges, Clocked
<1> HIDE DEF h
<1>13. Clocked' /\ Sorted(data', heap')
  BY <1>1, <1>5, <1>10, <1>11, <1>12, PushTimed DEF Clocked
<1>14. QED BY <1>9, <1>13 DEF Timed, Sorted

LEMMA ForgetTimed ==
  ASSUME OInv, NEW o \in Owners, Forget(o)
  PROVE  Timed'
BY DEF OInv, Forget, Timed, Ranges, Clocked, Sorted

LEMMA DoTimerTimed ==
  ASSUME OInv, DoTimer
  PROVE  Timed'
<1>1. 0 \in -MaxStall..0
  BY Windows
<1>2. QED BY <1>1 DEF OInv, DoTimer, Timed, Ranges, Clocked, Sorted

LEMMA ExpireTimed ==
  ASSUME OInv, Expire
  PROVE  Timed'
<1> DEFINE i    == heap[Top]
           diff == Diff(TopTick, (now + look) % Mod)
<1> USE DEF OInv, IInv
<1>1. /\ running = Idle /\ heap # <<>> /\ look # Away /\ heap' = Without(heap, Top)
      /\ now' = now /\ look' = look /\ num' = num
      /\ diff <= 0
  BY DEF Expire, IsDue
<1>2. /\ Top \in DOMAIN heap /\ i \in Slots /\ Occurs(heap, i)
  BY <1>1, TopInHeap DEF Occurs
<1>3. /\ diff = TopLeft - look /\ look \in -MaxStall..0
      /\ TopLeft \in Window /\ TopTick = (now + TopLeft) % Mod
  BY <1>1, TopDiff, TopTime
<1>4. TopTick \in 0..(Mod - 1)
  <2>1. 0 \in 0..(Mod - 1)
    BY Windows
  <2>2. QED BY <1>2, <2>1 DEF TopTick, Timed, Ranges
<1>5. /\ diff \in Int /\ diff + look = TopLeft
      /\ look + diff \in -MaxStall..0 /\ look + 0 \in -MaxStall..0
  <2>1. TopLeft \in Int /\ look \in Int /\ -MaxStall <= TopLeft /\ -MaxStall <= look /\ look <= 0 /\ MaxStall \in Int
    BY <1>3, Windows DEF Window
  <2> HIDE DEF diff
  <2>2. QED BY <1>1, <1>3, <2>1
<1>6. /\ \A x \in Slots : x # i => data'[x] = data[x]
      /\ data'[i].tick \in 0..(Mod - 1) /\ data'[i].every \in 0..MaxDelay /\ data'[i].left \in Window
      /\ running'.at \in -MaxStall..0
  <2>1. CASE data[i].owner = None
    <3>1. data' = [data EXCEPT ![i] = Blank] /\ running' = running
      BY <2>1 DEF Expire, Released
    <3>2. 0 \in Window /\ 0 \in 0..(Mod - 1) /\ 0 \in 0..MaxDelay
      BY Windows DEF Window
    <3>3. QED BY <1>2, <3>1, <3>2 DEF Typed, Timed, Ranges, Blank
  <2>2. CASE data[i].owner # None
    <3>1. data' = [data EXCEPT ![i].tick = TopTick, ![i].left = diff + look, ![i].removed = TRUE]
      BY <2>2 DEF Expire
    <3>2. running'.at = look + (IF diff < -Late THEN 0 ELSE diff)
      BY <2>2 DEF Expire
    <3> HIDE DEF diff
    <3>3. data'[i].tick = TopTick /\ data'[i].left = TopLeft /\ data'[i].every = data[i].every
      BY <1>2, <1>5, <3>1 DEF Typed, Timers
    <3>4. \A x \in Slots : x # i => data'[x] = data[x]
      BY <1>2, <3>1 DEF Typed
    <3>5. running'.at \in -MaxStall..0
      BY <1>5, <3>2
    <3>6. QED BY <1>2, <1>3, <1>4, <3>3, <3>4, <3>5 DEF Timed, Ranges
  <2>3. QED BY <2>1, <2>2
<1>7. Ranges'
  BY <1>1, <1>6 DEF Timed, Ranges
<1>8. heap' \in Seq(Slots) /\ \A x : Occurs(heap', x) <=> Occurs(heap, x) /\ x # i
  BY <1>1, <1>2, WithoutMembers DEF Typed, Placed
<1>9. Clocked'
  BY <1>1, <1>6, <1>8 DEF Timed, Clocked
<1>10. Sorted(data', heap')
  <2>1. Sorted(data, heap')
    BY <1>1, <1>2, SortedWithout DEF Timed, Typed
  <2>2. QED BY <1>6, <1>8, <2>1, SortedOther
<1>11. QED BY <1>7, <1>9, <1>10 DEF Timed, Sorted

LEMMA FinishTimed ==
  ASSUME OInv, Finish
  PROVE  Timed'
<1> DEFINE i == running.slot
<1> USE DEF OInv, IInv
<1>1. running # Idle /\ running' = Idle /\ now' = now /\ look' = look /\ num' = num
  BY DEF Finish
<1>2. i \in Slots /\ ~Occurs(heap, i)
  BY <1>1 DEF InCall, Typed, Placed
<1>3. 0 \in Window /\ 0 \in 0..(Mod - 1) /\ 0 \in 0..MaxDelay /\ running'.at \in -MaxStall..0
  BY <1>1, Windows DEF Window, Idle
<1>4. CASE data[i].removed /\ data[i].every = 0
  <2>1. data' = [data EXCEPT ![i] = Blank] /\ heap' = heap
    BY <1>4 DEF Finish, Released
  <2>2. /\ \A x \in Slots : x # i => data'[x] = data[x]
        /\ data'[i].tick = 0 /\ data'[i].every = 0 /\ data'[i].left = 0
    BY <1>2, <2>1 DEF Typed, Blank
  <2>3. Ranges'
    BY <1>1, <1>3, <2>2 DEF Timed, Ranges
  <2>4. Clocked'
    BY <1>1, <1>2, <2>1, <2>2 DEF Timed, Clocked
  <2>5. Sorted(data', heap')
    <3>1. \A x \in Slots : Occurs(heap, x) => data'[x].left = data[x].left
      BY <1>2, <2>2
    <3>2. heap \in Seq(Slots) /\ Sorted(data, heap)
      BY DEF Timed, Typed
    <3>3. Sorted(data', heap)
      BY <3>1, <3>2, SortedOther
    <3>4. heap' = heap
      BY <2>1
    <3>5. QED BY <3>3, <3>4
  <2>6. QED BY <2>3, <2>4, <2>5 DEF Timed, Sorted
<1>5. CASE data[i].removed /\ data[i].every > 0
  <2> DEFINE left == running.at + data[i].every
             tick == (now + running.at + data[i].every) % Mod
  <2>1. heap' = Pushed(data', heap, i)
    BY <1>5 DEF Finish
  <2>2. data' = [data EXCEPT ![i].tick = tick, ![i].left = left, ![i].removed = FALSE]
    BY <1>5 DEF Finish
  <2>3. running.at \in -MaxStall..0 /\ data[i].every \in 0..MaxDelay /\ now \in 0..(Mod - 1)
    BY <1>2 DEF Timed, Ranges
  <2>4. left \in Window /\ now + running.at + data[i].every = now + left
        /\ now + left \in Int /\ -Mod <= now + left /\ now + left < 2 * Mod
    BY <2>3, Windows DEF Window
  <2> HIDE DEF left
  <2>5. tick = (now + left) % Mod /\ tick \in 0..(Mod - 1)
    <3> DEFINE z == now + left
    <3>1. z \in Int /\ -Mod <= z /\ z < 2 * Mod
      BY <2>4
    <3>2. tick = z % Mod
      BY <2>4
    <3> HIDE DEF z, tick
    <3>3. z % Mod \in 0..(Mod - 1)
      BY <3>1, Windows, ModOf
    <3>4. QED BY <3>2, <3>3 DEF z
  <2> HIDE DEF tick
  <2>6. /\ \A x \in Slots : x # i => data'[x] = data[x]
        /\ data'[i].tick = tick /\ data'[i].left = left /\ data'[i].every = data[i].every
    BY <1>2, <2>2 DEF Typed, Timers
  <2>7. Ranges'
    BY <1>1, <1>3, <2>4, <2>5, <2>6 DEF Timed, Ranges
  <2>8. Sorted(data', heap)
    BY <1>2, <2>6, SortedOther DEF Timed, Typed
  <2>9. \A x \in Slots : Occurs(heap, x) \/ x = i =>
          data'[x].left \in Window /\ data'[x].tick = (now + data'[x].left) % Mod
    BY <1>2, <2>4, <2>5, <2>6 DEF Timed, Ranges, Clocked
  <2>10. Clocked' /\ Sorted(data', heap')
    BY <1>1, <1>2, <2>1, <2>3, <2>8, <2>9, PushTimed DEF Typed, Clocked
  <2>11. QED BY <2>7, <2>10 DEF Timed, Sorted
<1>6. CASE ~data[i].removed
  <2>1. UNCHANGED <<data, heap>>
    BY <1>6 DEF Finish
  <2>2. QED BY <1>1, <1>3, <2>1 DEF Timed, Ranges, Clocked, Sorted
<1>7. QED BY <1>4, <1>5, <1>6 DEF Finish

LEMMA ReturnTimed ==
  ASSUME OInv, Return
  PROVE  Timed'
<1> USE DEF OInv, IInv
<1>1. look' = Away /\ UNCHANGED <<now, num, heap, running>>
  BY DEF Return
<1>2. CASE heap = <<>>
  BY <1>1, <1>2 DEF Return, Timed, Ranges, Clocked, Sorted
<1>3. CASE heap # <<>>
  <2> DEFINE i == heap[Top]
  <2>1. Top \in DOMAIN heap /\ i \in Slots /\ Occurs(heap, i)
    BY <1>3, TopInHeap DEF Occurs
  <2>2. /\ Diff(TopTick, now) = TopLeft /\ TopLeft \in Window /\ TopTick = (now + TopLeft) % Mod
        /\ TopLeft >= data[i].left
    BY <1>3, TopDiff, TopTime
  <2>3. data' = [data EXCEPT ![i].tick = TopTick, ![i].left = Diff(TopTick, now)]
    BY <1>3 DEF Return
  <2>4. /\ \A x \in Slots : x # i => data'[x] = data[x]
        /\ data'[i].tick = TopTick /\ data'[i].left = TopLeft /\ data'[i].every = data[i].every
    BY <2>1, <2>2, <2>3 DEF Typed, Timers
  <2>5. TopTick \in 0..(Mod - 1)
    <3>1. 0 \in 0..(Mod - 1)
      BY Windows
    <3>2. QED BY <2>1, <3>1 DEF TopTick, Timed, Ranges
  <2>6. Ranges'
    BY <1>1, <2>1, <2>2, <2>4, <2>5 DEF Timed, Ranges
  <2>7. Clocked'
    BY <1>1, <2>2, <2>4 DEF Timed, Clocked
  <2>8. Sorted(data', heap)
    <3>1. CASE Wrapped
      <4>1. Top = 1
        BY <3>1 DEF Top
      <4>2. \A j \in DOMAIN heap : heap[j] \in Slots /\ (j # 1 => heap[j] # i)
        BY <2>1, <4>1 DEF Placed, Once, Typed
      <4>3. \A x \in Slots : data[x].left \in Int
        BY DEF Typed, Timers
      <4>4. TopLeft \in Int
        BY <2>2, Windows
      <4>5. ASSUME NEW j \in DOMAIN heap, NEW k \in DOMAIN heap, j < k
            PROVE  data'[heap[j]].left >= data'[heap[k]].left
        <5>1. k # 1 /\ data'[heap[k]].left = data[heap[k]].left
          BY <2>4, <4>2, <4>5 DEF Typed
        <5>2. data[heap[j]].left >= data[heap[k]].left
          BY <4>5 DEF Timed, Sorted
        <5>3. data'[heap[j]].left >= data[heap[j]].left
          <6>1. CASE heap[j] = i
            BY <2>2, <2>4, <6>1
          <6>2. CASE heap[j] # i
            BY <2>4, <4>2, <4>3, <6>2
          <6>3. QED BY <6>1, <6>2
        <5>4. data'[heap[j]].left \in Int
          BY <2>4, <4>2, <4>3, <4>4
        <5>5. QED BY <4>2, <4>3, <5>1, <5>2, <5>3, <5>4
      <4>6. QED BY <4>5 DEF Sorted
    <3>2. CASE ~Wrapped
      <4>1. TopLeft = data[i].left
        BY <3>2 DEF TopLeft
      <4>2. QED BY <2>4, <4>1, SortedOther DEF Timed, Typed
    <3>3. QED BY <3>1, <3>2
  <2>9. QED BY <1>1, <2>6, <2>7, <2>8 DEF Timed, Sorted
<1>4. QED BY <1>2, <1>3

LEMMA AdvanceTimed ==
  ASSUME OInv, Advance
  PROVE  Timed'
<1> DEFINE waits(i) == InHeap(i) \/ (i = running.slot /\ data[i].removed)
<1> USE DEF OInv, IInv
<1>1. /\ \A i \in Slots : waits(i) => data[i].left > -MaxStall
      /\ running.at > -MaxStall /\ look > -MaxStall
      /\ now' = (now + 1) % Mod
      /\ data' = [i \in Slots |-> IF waits(i) THEN [data[i] EXCEPT !.left = @ - 1] ELSE data[i]]
      /\ running' = IF running = Idle THEN Idle ELSE [running EXCEPT !.at = @ - 1]
      /\ look' = IF look = Away THEN Away ELSE look - 1
      /\ UNCHANGED <<num, heap>>
  BY DEF Advance
<1>2. ASSUME NEW x \in Slots
      PROVE  /\ data'[x].tick = data[x].tick /\ data'[x].every = data[x].every
             /\ data'[x].left = IF waits(x) THEN data[x].left - 1 ELSE data[x].left
  <2>1. data[x] \in Timers
    BY DEF Typed
  <2> HIDE DEF waits
  <2>2. data'[x] = IF waits(x) THEN [data[x] EXCEPT !.left = @ - 1] ELSE data[x]
    BY <1>1
  <2>3. QED BY <2>1, <2>2 DEF Timers
<1>3. \A x \in Slots : Occurs(heap, x) => waits(x)
  BY DEF InHeap, Occurs
<1>4. ASSUME NEW x \in Slots PROVE data'[x].left \in Window
  <2>1. data[x].left \in Window
    BY DEF Timed, Ranges
  <2>2. CASE waits(x)
    <3>1. data[x].left > -MaxStall
      BY <1>1, <2>2
    <3> HIDE DEF waits
    <3>2. QED BY <1>2, <2>1, <2>2, <3>1, Windows DEF Window
  <2>3. CASE ~waits(x)
    BY <1>2, <2>1, <2>3
  <2>4. QED BY <2>2, <2>3
<1> HIDE DEF waits
<1>5. now \in 0..(Mod - 1) /\ now' \in 0..(Mod - 1)
  <2>1. now \in 0..(Mod - 1)
    BY DEF Timed, Ranges
  <2> DEFINE z == now + 1
  <2>2. z \in Int /\ -Mod <= z /\ z < 2 * Mod
    BY <2>1, Windows
  <2> HIDE DEF z
  <2>3. z % Mod \in 0..(Mod - 1)
    BY <2>2, Windows, ModOf
  <2>4. QED BY <1>1, <2>1, <2>3 DEF z
<1>6. look' \in -MaxStall..0 \cup {Away}
  BY <1>1, Windows DEF Timed, Ranges, Away
<1>7. running'.at \in -MaxStall..0
  <2>1. running.at \in -MaxStall..0
    BY DEF Timed, Ranges
  <2>2. CASE running = Idle
    BY <1>1, <2>1, <2>2
  <2>3. CASE running # Idle
    <3>1. running' = [running EXCEPT !.at = @ - 1]
      BY <1>1, <2>3
    <3>2. running'.at = running.at - 1
      BY <3>1 DEF Typed
    <3>3. QED BY <1>1, <2>1, <3>2, Windows
  <2>4. QED BY <2>2, <2>3
<1>8. Ranges'
  BY <1>1, <1>2, <1>4, <1>5, <1>6, <1>7 DEF Timed, Ranges
<1>9. Clocked'
  <2>1. ASSUME NEW x \in Slots, Occurs(heap, x)
        PROVE  data'[x].tick = (now' + data'[x].left) % Mod
    <3>1. data[x].left \in Window /\ data'[x].left = data[x].left - 1 /\ data'[x].left \in Window
      BY <1>2, <1>3, <1>4, <2>1 DEF Timed, Ranges
    <3>2. data'[x].tick = (now + data[x].left) % Mod
      BY <1>2, <2>1 DEF Timed, Clocked
    <3>3. (now + data[x].left) % Mod = (((now + 1) % Mod) + (data[x].left - 1)) % Mod
      BY <1>5, <3>1, Ticked
    <3>4. data'[x].tick = data[x].tick /\ now' = (now + 1) % Mod
      BY <1>1, <1>2, <2>1
    <3>5. data'[x].tick = (((now + 1) % Mod) + (data[x].left - 1)) % Mod
      BY <3>2, <3>3, <3>4, Zenon
    <3>6. (now' + data'[x].left) % Mod = (((now + 1) % Mod) + (data[x].left - 1)) % Mod
      BY <3>1, <3>4, Zenon
    <3>7. QED BY <3>5, <3>6, Zenon
  <2>2. QED BY <1>1, <2>1 DEF Clocked
<1>10. Sorted(data', heap')
  <2>1. \A j \in DOMAIN heap : heap[j] \in Slots /\ Occurs(heap, heap[j])
    BY DEF Typed, Occurs
  <2>2. \A j \in DOMAIN heap : data'[heap[j]].left = data[heap[j]].left - 1 /\ data[heap[j]].left \in Int
    <3>1. ASSUME NEW x \in Slots, Occurs(heap, x)
          PROVE  data'[x].left = data[x].left - 1 /\ data[x].left \in Int
      <4>1. data[x] \in Timers
        BY DEF Typed
      <4>2. QED BY <1>2, <1>3, <3>1, <4>1 DEF Timers
    <3>2. QED BY <2>1, <3>1
  <2>3. heap' = heap /\ Sorted(data, heap)
    BY <1>1 DEF Timed
  <2>4. QED BY <2>2, <2>3 DEF Sorted
<1>11. QED BY <1>8, <1>9, <1>10 DEF Timed, Sorted

LEMMA NextTimed == OInv /\ [Next]_vars => OInv'
<1> SUFFICES ASSUME OInv, [Next]_vars PROVE OInv'
  OBVIOUS
<1>1. IInv'
  BY NextStep DEF OInv
<1>2. CASE UNCHANGED vars
  <2>1. Timed'
    BY <1>2 DEF vars, OInv, Timed, Ranges, Clocked, Sorted
  <2>2. QED BY <1>1, <2>1 DEF OInv
<1>3. CASE Next
  <2>1. ASSUME NEW o \in Owners, Add(o) \/ Delete(o) \/ AddTick(o) \/ Forget(o) PROVE Timed'
    BY <2>1, AddTimed, DeleteTimed, AddTickTimed, ForgetTimed
  <2>2. Timed'
    BY <1>3, <2>1, DoTimerTimed, ExpireTimed, FinishTimed, ReturnTimed, AdvanceTimed DEF Next
  <2>3. QED BY <1>1, <2>2 DEF OInv
<1>4. QED BY <1>1, <1>2, <1>3 DEF OInv

LEMMA SpecOInv == Spec => []OInv
<1>1. Init => OInv
  BY InitIInv, InitTimed DEF OInv
<1>2. QED BY <1>1, NextTimed, PTL DEF Spec

-----------------------------------------------------------------------------

\* All numbers stay in their ranges, whatever wraps around: what is left of a
\* timer stays within MaxStall and MaxDelay.
THEOREM SpecTypeOK == Spec => []TypeOK
<1>1. OInv => TypeOK
  <2> SUFFICES ASSUME OInv PROVE TypeOK
    OBVIOUS
  <2> USE DEF OInv, IInv
  <2>1. \A i \in Slots : data[i] \in [used : BOOLEAN, owner : Owners \cup {None}, tick : 0..(Mod - 1),
                                      every : 0..MaxDelay, removed : BOOLEAN, left : -MaxStall..MaxDelay]
    <3> TAKE i \in Slots
    <3>1. data[i] \in Timers
      BY DEF Typed
    <3>2. data[i].tick \in 0..(Mod - 1) /\ data[i].every \in 0..MaxDelay /\ data[i].left \in -MaxStall..MaxDelay
      BY DEF Timed, Ranges, Window
    <3>3. QED BY <3>1, <3>2 DEF Timers
  <2>2. data \in [Slots -> [used : BOOLEAN, owner : Owners \cup {None}, tick : 0..(Mod - 1),
                            every : 0..MaxDelay, removed : BOOLEAN, left : -MaxStall..MaxDelay]]
    BY <2>1 DEF Typed
  <2>3. running \in [slot : Slots \cup {-1}, at : -MaxStall..0, owner : Owners \cup {None}]
    BY DEF Typed, Timed, Ranges
  <2>4. num \in 0..MaxSlots
    BY WindowAssumption DEF Typed, Timed, Ranges
  <2>5. QED BY <2>2, <2>3, <2>4 DEF TypeOK, Typed, Timed, Ranges
<1>2. QED BY <1>1, SpecOInv, PTL

\* The heap is sorted by the true times (push_timer_heap, timer.c:182-225), and
\* DIFF_TICK (timer.h:31) tells them, as long as the clock is wider than twice
\* the longest wait and the longest delay together.
THEOREM SpecHeapSorted == Spec => []HeapSorted
<1>1. OInv => HeapSorted
  <2> SUFFICES ASSUME OInv PROVE HeapSorted
    OBVIOUS
  <2> USE DEF OInv, IInv
  <2>1. ASSUME NEW j \in DOMAIN heap
        PROVE  Diff(data[heap[j]].tick, now) = data[heap[j]].left
    <3> DEFINE l == data[heap[j]].left
    <3>1. heap[j] \in Slots /\ Occurs(heap, heap[j])
      BY DEF Typed, Occurs
    <3>2. l \in Window /\ data[heap[j]].tick = (now + l) % Mod /\ now \in 0..(Mod - 1)
      BY <3>1 DEF Timed, Ranges, Clocked
    <3>3. 0 \in Window /\ (now + 0) % Mod = now
      BY <3>2, Windows, ModOf DEF Window
    <3>4. Diff((now + l) % Mod, (now + 0) % Mod) = l - 0 /\ l \in Int
      BY <3>2, <3>3, Windows, DiffTrue
    <3>5. QED BY <3>2, <3>3, <3>4
  <2>2. QED BY <2>1 DEF HeapSorted, Timed, Sorted
<1>2. QED BY <1>1, SpecOInv, PTL

\* Timers are called in the order in which they are due, but for the fix in
\* top_timer_heap (timer.c:283), which needs that all in the heap are due.
THEOREM SpecCalledInOrder == Spec => CalledInOrder
<1> DEFINE Step == running = Idle /\ running' # Idle =>
       \/ \A j \in DOMAIN heap : data[heap[j]].left >= data[running'.slot].left
       \/ /\ now < Low /\ \A j \in DOMAIN heap : data[heap[j]].left <= 0
<1>1. OInv /\ [Next]_vars => [Step]_vars
  <2> SUFFICES ASSUME OInv, Next, running = Idle, running' # Idle PROVE Step
    BY DEF vars
  <2> USE DEF OInv, IInv
  <2>1. Expire
    <3>1. CASE \E o \in Owners : Add(o) \/ Delete(o) \/ AddTick(o) \/ Forget(o)
      BY <3>1 DEF Add, Delete, AddTick, Forget
    <3>2. CASE DoTimer \/ Return \/ Finish \/ Advance
      BY <3>2 DEF DoTimer, Return, Finish, Advance
    <3>3. QED BY <3>1, <3>2 DEF Next
  <2>2. heap # <<>> /\ running'.slot = heap[Top]
    BY <2>1 DEF Expire, Released
  <2>3. Top \in DOMAIN heap /\ DOMAIN heap = 1..Len(heap) /\ Len(heap) \in Nat
    BY <2>2, TopInHeap DEF Typed
  <2>4. \A j \in DOMAIN heap : data[heap[j]].left \in Int
    BY DEF Typed, Timers
  <2>5. CASE ~Wrapped
    <3>1. Top = Len(heap)
      BY <2>5 DEF Top
    <3>2. \A j \in DOMAIN heap : data[heap[j]].left >= data[heap[Top]].left
      BY <2>3, <2>4, <3>1 DEF Timed, Sorted
    <3>3. QED BY <2>2, <3>2
  <2>6. CASE Wrapped
    <3>1. Top = 1 /\ now < Low
      BY <2>6 DEF Top, Wrapped
    <3>2. data[heap[1]].left <= 0
      <4>1. TopLeft <= 0 /\ TopLeft >= data[heap[Top]].left /\ TopLeft \in Int
        BY <2>2, <2>6, TopTime, Windows
      <4>2. QED BY <2>3, <2>4, <3>1, <4>1
    <3>3. \A j \in DOMAIN heap : data[heap[j]].left <= data[heap[1]].left
      BY <2>3, <2>4, <3>1 DEF Timed, Sorted
    <3>4. QED BY <2>3, <2>4, <3>1, <3>2, <3>3
  <2>7. QED BY <2>5, <2>6
<1>2. Spec => [][Step]_vars
  BY <1>1, SpecOInv, PTL DEF Spec
<1>3. QED BY <1>2 DEF CalledInOrder

-----------------------------------------------------------------------------
(* The loop that halves the heap *)

\* The natural numbers are well ordered.
LEMMA LeastNatural ==
  ASSUME NEW T, T \subseteq Nat, T # {}
  PROVE  \E x \in T : \A y \in T : x <= y
<1> DEFINE R == OpToRel(<, Nat)
<1>1. IsWellFoundedOn(R, Nat)
  BY NatLessThanWellFounded
<1>2. \A x, y \in Nat : <<y, x>> \in R <=> y < x
  BY DEF OpToRel
<1> HIDE DEF R
<1>3. PICK x \in T : \A y \in T : ~ (<<y, x>> \in R)
  BY <1>1, WFMin
<1>4. ASSUME NEW y \in T PROVE x <= y
  <2>1. x \in Nat /\ y \in Nat
    OBVIOUS
  <2>2. ~ (y < x)
    BY <1>2, <1>3, <2>1, Zenon
  <2>3. QED BY <2>1, <2>2
<1>5. QED BY <1>4

\* The equation that defines the function Bisect evaluates.
Halved(S, f, min, max) ==
  LET mid == (min + max) \div 2
  IN  IF max = min + 1 THEN min ELSE f[IF mid \in S THEN <<min, mid>> ELSE <<mid, max>>]

Pairs(n) == (1..n) \X (2..(n + 1))

Halving(n, S, f) == [r \in Pairs(n) |-> Halved(S, f, r[1], r[2])]

\* A suffix of the places.
Upper(n, S) == S \in SUBSET (1..n) /\ \A k \in S : \A j \in 1..n : k <= j => j \in S

\* The middle of two places, when they are not neighbours.
LEMMA Middle ==
  ASSUME NEW n \in Nat, NEW min \in 1..n, NEW max \in 2..(n + 1), max # min + 1
  PROVE  LET mid == (min + max) \div 2
         IN  /\ mid \in 1..n /\ mid \in 2..(n + 1)
             /\ min < max => min < mid /\ mid < max
             /\ min >= max => min >= mid /\ mid >= max
OBVIOUS

\* The recursion is well founded: what it defines exists.
LEMMA HalvingExists ==
  ASSUME NEW n \in Nat, NEW S, Upper(n, S)
  PROVE  \E f : f = Halving(n, S, f)
<1>1. PICK k \in 1..(n + 1) : \A j \in 1..n : j \in S <=> j >= k
  <2>1. CASE S = {}
    BY <2>1
  <2>2. CASE S # {}
    <3>1. S \subseteq Nat
      BY DEF Upper
    <3>2. PICK k \in S : \A y \in S : k <= y
      BY <2>2, <3>1, LeastNatural
    <3>3. QED BY <3>2 DEF Upper
  <2>3. QED BY <2>1, <2>2
<1> DEFINE v(min, max) == IF min >= max THEN 0
                          ELSE IF k <= min THEN min ELSE IF k >= max THEN max - 1 ELSE k - 1
           g == [r \in Pairs(n) |-> v(r[1], r[2])]
<1>2. ASSUME NEW min \in 1..n, NEW max \in 2..(n + 1) PROVE g[<<min, max>>] = v(min, max)
  BY DEF Pairs
<1>3. ASSUME NEW min \in 1..n, NEW max \in 2..(n + 1) PROVE v(min, max) = Halved(S, g, min, max)
  <2> DEFINE mid == (min + max) \div 2
  <2> HIDE DEF g
  <2>1. CASE max = min + 1
    BY <2>1 DEF Halved
  <2>2. CASE max # min + 1
    <3>1. /\ mid \in 1..n /\ mid \in 2..(n + 1)
          /\ min < max => min < mid /\ mid < max
          /\ min >= max => min >= mid /\ mid >= max
      BY <2>2, Middle
    <3>2. CASE mid \in S
      <4>1. Halved(S, g, min, max) = g[<<min, mid>>]
        BY <2>2, <3>2 DEF Halved
      <4>2. g[<<min, mid>>] = v(min, mid) /\ k <= mid
        BY <1>1, <1>2, <3>1, <3>2
      <4> HIDE DEF mid
      <4>3. v(min, mid) = v(min, max)
        BY <3>1, <4>2
      <4>4. QED BY <4>1, <4>2, <4>3
    <3>3. CASE mid \notin S
      <4>1. Halved(S, g, min, max) = g[<<mid, max>>]
        BY <2>2, <3>3 DEF Halved
      <4>2. g[<<mid, max>>] = v(mid, max) /\ k > mid
        BY <1>1, <1>2, <3>1, <3>3
      <4> HIDE DEF mid
      <4>3. v(mid, max) = v(min, max)
        BY <3>1, <4>2
      <4>4. QED BY <4>1, <4>2, <4>3
    <3>4. QED BY <3>2, <3>3
  <2>3. QED BY <2>1, <2>2
<1>4. g = Halving(n, S, g)
  <2>1. \A r \in Pairs(n) : r[1] \in 1..n /\ r[2] \in 2..(n + 1)
    BY DEF Pairs
  <2>2. \A r \in Pairs(n) : v(r[1], r[2]) = Halved(S, g, r[1], r[2])
    BY <1>3, <2>1
  <2>3. QED BY <2>2 DEF Halving
<1>5. QED BY <1>4

\* The loop finds the last place before the suffix.
LEMMA BisectFinds ==
  ASSUME NEW n \in Nat, n # 0, NEW S, Upper(n, S), 1 \notin S
  PROVE  /\ Bisect(n, S) \in 1..n /\ Bisect(n, S) \notin S
         /\ \A j \in 1..n : j > Bisect(n, S) => j \in S
<1> DEFINE f == CHOOSE f : f = Halving(n, S, f)
           Found(min, max) == /\ f[<<min, max>>] \in 1..n /\ f[<<min, max>>] \notin S
                              /\ \A j \in 1..n : j > f[<<min, max>>] => j \in S
           Fit(min, max)   == min < max /\ min \notin S /\ (max = n + 1 \/ max \in S)
           Bad == {d \in Nat : \E min \in 1..n, max \in 2..(n + 1) :
                                 Fit(min, max) /\ d = max - min /\ ~Found(min, max)}
<1>1. Bisect(n, S) = f[<<1, n + 1>>]
  BY DEF Bisect, Halving, Halved, Pairs
<1>2. f = Halving(n, S, f)
  BY HalvingExists
<1> HIDE DEF f
<1>3. ASSUME NEW min \in 1..n, NEW max \in 2..(n + 1) PROVE f[<<min, max>>] = Halved(S, f, min, max)
  <2>1. Halving(n, S, f)[<<min, max>>] = Halved(S, f, min, max)
    BY DEF Halving, Pairs
  <2>2. QED BY <1>2, <2>1, Zenon
<1>4. Bad = {}
  <2> SUFFICES ASSUME Bad # {} PROVE FALSE
    OBVIOUS
  <2>1. PICK d \in Bad : \A e \in Bad : d <= e
    <3>1. Bad \subseteq Nat
      OBVIOUS
    <3> HIDE DEF Bad
    <3>2. QED BY <3>1, LeastNatural
  <2>2. PICK min \in 1..n, max \in 2..(n + 1) : Fit(min, max) /\ d = max - min /\ ~Found(min, max)
    BY <2>1
  <2> DEFINE mid == (min + max) \div 2
  <2>3. ASSUME NEW a \in 1..n, NEW b \in 2..(n + 1), Fit(a, b), b - a < max - min
        PROVE  Found(a, b)
    <3>1. b - a \in Nat
      BY <2>3
    <3>2. b - a \notin Bad
      <4> HIDE DEF Bad
      <4>1. QED BY <2>1, <2>2, <2>3, <3>1
    <3>3. QED BY <2>3, <3>1, <3>2
  <2>4. CASE max = min + 1
    <3>1. f[<<min, max>>] = min
      BY <1>3, <2>4 DEF Halved
    <3>2. QED BY <2>2, <2>4, <3>1 DEF Upper
  <2>5. CASE max # min + 1
    <3>1. mid \in 1..n /\ mid \in 2..(n + 1) /\ min < mid /\ mid < max
      BY <2>2, <2>5, Middle
    <3>2. CASE mid \in S
      <4>1. f[<<min, max>>] = f[<<min, mid>>]
        BY <1>3, <2>5, <3>2 DEF Halved
      <4> HIDE DEF mid
      <4>2. Found(min, mid)
        BY <2>2, <2>3, <3>1, <3>2
      <4>3. QED BY <2>2, <4>1, <4>2
    <3>3. CASE mid \notin S
      <4>1. f[<<min, max>>] = f[<<mid, max>>]
        BY <1>3, <2>5, <3>3 DEF Halved
      <4> HIDE DEF mid
      <4>2. Found(mid, max)
        BY <2>2, <2>3, <3>1, <3>3
      <4>3. QED BY <2>2, <4>1, <4>2
    <3>4. QED BY <3>2, <3>3
  <2>6. QED BY <2>4, <2>5
<1>5. 1 \in 1..n /\ n + 1 \in 2..(n + 1) /\ Fit(1, n + 1) /\ n + 1 - 1 \in Nat
  OBVIOUS
<1>6. Found(1, n + 1)
  <2>1. n + 1 - 1 \notin Bad
    <3> HIDE DEF Bad
    <3>1. QED BY <1>4
  <2> HIDE DEF Found, Fit
  <2>2. QED BY <1>5, <2>1
<1>7. QED BY <1>1, <1>6

-----------------------------------------------------------------------------
(* What the loops find *)

\* What the timers in the heap are compared by is the true time.
LEMMA Compared ==
  ASSUME OInv, NEW left \in Window, NEW j \in DOMAIN heap
  PROVE  /\ data[heap[j]].left \in Int /\ left \in Int /\ heap[j] \in Slots
         /\ data[heap[j]].left \in Window
         /\ data[heap[j]].tick = (now + data[heap[j]].left) % Mod
         /\ Diff((now + left) % Mod, data[heap[j]].tick) = left - data[heap[j]].left
         /\ Diff(data[heap[j]].tick, (now + left) % Mod) = data[heap[j]].left - left
<1> DEFINE l == data[heap[j]].left
<1>1. heap[j] \in Slots /\ Occurs(heap, heap[j])
  BY DEF OInv, IInv, Typed, Occurs
<1>2. l \in Window /\ data[heap[j]].tick = (now + l) % Mod /\ now \in 0..(Mod - 1)
  BY <1>1 DEF OInv, Timed, Ranges, Clocked
<1>3. Diff((now + l) % Mod, (now + left) % Mod) = l - left /\ Diff((now + left) % Mod, (now + l) % Mod) = left - l
  BY <1>2, DiffTrue
<1>4. l \in Int /\ left \in Int
  BY <1>2, Windows
<1>5. QED BY <1>1, <1>2, <1>3, <1>4

\* Where a timer with that much time left belongs.
Later(left) == {j \in DOMAIN heap : data[heap[j]].left > left}

LEMMA PlaceOf ==
  ASSUME OInv, NEW left \in Window, NEW m \in 0..Len(heap), Later(left) = 1..m
  PROVE  Place(data, heap, (now + left) % Mod) = m + 1
<1>1. {j \in DOMAIN heap : Diff(data[heap[j]].tick, (now + left) % Mod) > 0} = Later(left)
  BY Compared DEF Later
<1>2. m \in Nat /\ m \in Int /\ 1 \in Int
  BY DEF OInv, IInv, Typed
<1>3. Cardinality(1..m) = m
  BY <1>2, FS_Interval
<1>4. QED BY <1>1, <1>3 DEF Place

LEMMA Ordered ==
  ASSUME OInv, NEW j \in DOMAIN heap, NEW k \in DOMAIN heap, j <= k
  PROVE  data[heap[j]].left >= data[heap[k]].left
<1>1. data[heap[j]].left \in Int /\ j \in Int /\ k \in Int
  <2>1. heap \in Seq(Slots) /\ data \in [Slots -> Timers]
    BY DEF OInv, IInv, Typed
  <2>2. heap[j] \in Slots /\ j \in Int /\ k \in Int
    BY <2>1
  <2>3. data[heap[j]] \in Timers
    BY <2>1, <2>2
  <2>4. QED BY <2>2, <2>3 DEF Timers
<1>2. CASE j = k
  BY <1>1, <1>2
<1>3. CASE j < k
  BY <1>3 DEF OInv, Timed, Sorted
<1>4. QED BY <1>1, <1>2, <1>3

LEMMA PushFinds ==
  ASSUME OInv, NEW left \in Window
  PROVE  PushPlace((now + left) % Mod) = Place(data, heap, (now + left) % Mod)
<1> DEFINE tick    == (now + left) % Mod
           from(j) == Diff(tick, data[heap[j]].tick)
           n       == Len(heap)
           S       == {j \in 1..n : from(j) >= 0}
<1>1. DOMAIN heap = 1..n /\ n \in Nat
  BY DEF OInv, IInv, Typed
<1>2. \A j \in DOMAIN heap : /\ from(j) = left - data[heap[j]].left
                             /\ left \in Int /\ data[heap[j]].left \in Int
  BY Compared
<1>3. PushPlace(tick) = CASE n = 0                  -> 1
                          [] n > 0 /\ from(n) < 0   -> n + 1
                          [] n > 0 /\ from(1) >= 0  -> 1
                          [] OTHER                  -> Bisect(n, S) + 1
  BY DEF PushPlace
<1> HIDE DEF tick, from, n
<1>4. \A j, k \in DOMAIN heap : j <= k => data[heap[j]].left >= data[heap[k]].left
  BY Ordered
<1>5. CASE n = 0
  <2>1. Later(left) = 1..0
    BY <1>1, <1>5 DEF Later
  <2>2. Place(data, heap, tick) = 0 + 1
    <3>1. 0 \in 0..Len(heap)
      BY <1>1 DEF n
    <3>2. QED BY <2>1, <3>1, PlaceOf DEF tick
  <2>3. PushPlace(tick) = 1
    BY <1>3, <1>5
  <2>4. QED BY <2>2, <2>3 DEF tick
<1>6. CASE n > 0 /\ from(n) < 0
  <2>1. n \in DOMAIN heap /\ 1 \in DOMAIN heap
    BY <1>1, <1>6
  <2>2. Later(left) = 1..n /\ ~(from(1) >= 0)
    BY <1>1, <1>2, <1>4, <1>6, <2>1 DEF Later
  <2>3. Place(data, heap, tick) = n + 1
    BY <1>1, <2>2, PlaceOf DEF tick, n
  <2>4. PushPlace(tick) = n + 1
    BY <1>1, <1>3, <1>6, <2>2
  <2>5. QED BY <2>3, <2>4 DEF tick
<1>7. CASE n > 0 /\ from(1) >= 0
  <2>1. n \in DOMAIN heap /\ 1 \in DOMAIN heap
    BY <1>1, <1>7
  <2>2. Later(left) = 1..0 /\ ~(from(n) < 0)
    BY <1>1, <1>2, <1>4, <1>7, <2>1 DEF Later
  <2>3. Place(data, heap, tick) = 0 + 1
    <3>1. 0 \in 0..Len(heap)
      BY <1>1 DEF n
    <3>2. QED BY <2>2, <3>1, PlaceOf DEF tick
  <2>4. PushPlace(tick) = 1
    BY <1>1, <1>3, <1>7, <2>2
  <2>5. QED BY <2>3, <2>4 DEF tick
<1>8. CASE n > 0 /\ ~(from(n) < 0) /\ ~(from(1) >= 0)
  <2> DEFINE m == Bisect(n, S)
  <2>1. \A j \in DOMAIN heap : j \in S <=> left >= data[heap[j]].left
    BY <1>1, <1>2
  <2>2. Upper(n, S) /\ 1 \notin S
    <3>1. S \in SUBSET (1..n) /\ 1 \notin S
      BY <1>8
    <3>2. ASSUME NEW k \in S, NEW j \in 1..n, k <= j PROVE j \in S
      <4>1. k \in DOMAIN heap /\ j \in DOMAIN heap
        BY <1>1, <3>1
      <4>2. left >= data[heap[k]].left /\ data[heap[k]].left >= data[heap[j]].left
        BY <1>4, <2>1, <3>2, <4>1
      <4> HIDE DEF S
      <4>3. QED BY <1>2, <2>1, <4>1, <4>2
    <3>3. QED BY <3>1, <3>2 DEF Upper
  <2> HIDE DEF S
  <2>3. m \in 1..n /\ m \notin S /\ \A j \in 1..n : j > m => j \in S
    BY <1>1, <1>8, <2>2, BisectFinds
  <2>4. PushPlace(tick) = m + 1
    BY <1>1, <1>3, <1>8
  <2> HIDE DEF m
  <2>5. Later(left) = 1..m
    <3>1. ASSUME NEW j \in DOMAIN heap PROVE data[heap[j]].left > left <=> j <= m
      <4>1. j \in Nat /\ m \in DOMAIN heap /\ data[heap[m]].left > left
        BY <1>1, <1>2, <2>1, <2>3
      <4>2. CASE j <= m
        BY <1>2, <1>4, <4>1, <4>2
      <4>3. CASE j > m
        BY <1>1, <1>2, <2>1, <2>3, <4>3
      <4>4. QED BY <1>1, <2>3, <4>1, <4>2, <4>3
    <3>2. QED BY <1>1, <2>3, <3>1 DEF Later
  <2>6. Place(data, heap, tick) = m + 1
    <3>1. m \in 0..Len(heap)
      BY <1>1, <2>3 DEF n
    <3>2. QED BY <2>5, <3>1, PlaceOf DEF tick
  <2>7. QED BY <2>4, <2>6 DEF tick
<1>9. QED BY <1>1, <1>5, <1>6, <1>7, <1>8

LEMMA SearchFinds ==
  ASSUME OInv, NEW p \in DOMAIN heap
  PROVE  SearchPlaces(heap[p]) = {p}
<1> DEFINE i       == heap[p]
           n       == Len(heap)
           tick(j) == data[heap[j]].tick
           S       == {j \in 1..n : Diff(data[i].tick, tick(j)) > 0}
           min     == Bisect(n, S)
<1>1. DOMAIN heap = 1..n /\ n \in Nat /\ Once(heap)
  BY DEF OInv, IInv, Typed, Placed
<1>2. SearchPlaces(i) = {j \in 1..n : heap[j] = i /\ \A k \in 1..n :
                           (j <= k /\ k < min) \/ (min < k /\ k <= j) => tick(k) = data[i].tick}
  BY DEF SearchPlaces
<1>3. \A j \in DOMAIN heap : data[heap[j]].left \in Int /\ data[heap[j]].tick = (now + data[heap[j]].left) % Mod
  BY Compared DEF OInv, Timed, Ranges, IInv, Typed
<1>4. \A j \in DOMAIN heap : j \in S <=> data[i].left > data[heap[j]].left
  <2>1. data[i].left \in Window /\ data[i].tick = (now + data[i].left) % Mod
    BY Compared DEF OInv, Timed, Ranges, IInv, Typed
  <2>2. \A j \in DOMAIN heap : Diff(data[i].tick, tick(j)) = data[i].left - data[heap[j]].left
    BY <2>1, Compared
  <2>3. QED BY <1>1, <1>3, <2>2
<1>5. \A j, k \in DOMAIN heap : j <= k => data[heap[j]].left >= data[heap[k]].left
  BY Ordered
<1>6. Upper(n, S) /\ 1 \notin S
  <2>1. S \in SUBSET (1..n)
    OBVIOUS
  <2>2. ASSUME NEW k \in S, NEW j \in 1..n, k <= j PROVE j \in S
    <3>1. k \in DOMAIN heap /\ j \in DOMAIN heap
      BY <1>1, <2>1
    <3>2. data[i].left > data[heap[k]].left /\ data[heap[k]].left >= data[heap[j]].left
      BY <1>4, <1>5, <2>2, <3>1
    <3> HIDE DEF S, i
    <3>3. QED BY <1>3, <1>4, <3>1, <3>2 DEF i
  <2>3. 1 \notin S
    <3>1. 1 \in DOMAIN heap /\ 1 <= p
      BY <1>1
    <3> HIDE DEF S
    <3>2. QED BY <1>3, <1>4, <1>5, <3>1
  <2>4. QED BY <2>1, <2>2, <2>3 DEF Upper
<1> HIDE DEF S
<1>7. min \in 1..n /\ min \notin S /\ \A j \in 1..n : j > min => j \in S
  BY <1>1, <1>6, BisectFinds
<1> HIDE DEF min
<1>8. p <= min
  <2>1. p \notin S
    BY <1>3, <1>4
  <2>2. QED BY <1>1, <1>7, <2>1
<1>9. ASSUME NEW k \in 1..n, p <= k, k < min PROVE tick(k) = data[i].tick
  <2>1. k \in DOMAIN heap /\ min \in DOMAIN heap /\ k <= min
    BY <1>1, <1>7, <1>9
  <2>2. /\ data[heap[p]].left >= data[heap[k]].left /\ data[heap[k]].left >= data[heap[min]].left
        /\ data[heap[min]].left >= data[i].left
    BY <1>3, <1>4, <1>5, <1>7, <1>9, <2>1
  <2>3. data[heap[k]].left = data[i].left
    BY <1>3, <2>1, <2>2
  <2>4. QED BY <1>3, <2>1, <2>3
<1>10. \A j \in DOMAIN heap : heap[j] = i <=> j = p
  BY <1>1 DEF Once
<1> HIDE DEF tick, i, n
<1>11. SearchPlaces(i) = {p}
  BY <1>1, <1>2, <1>7, <1>8, <1>9, <1>10
<1>12. QED BY <1>11 DEF i

\* The loops that halve the heap (timer.c:212, 235-259) find the place for any
\* tick and any timer, also one among others of the same tick.
THEOREM SpecSearchAgrees == Spec => []SearchAgrees
<1>1. OInv => SearchAgrees
  BY PushFinds, SearchFinds DEF SearchAgrees, Window
<1>2. QED BY <1>1, SpecOInv, PTL

-----------------------------------------------------------------------------
(* Timers are alarms: every step of the timers is a step of Alarms, or none *)

\* Who is called, and since when that was due.
Rings ==
  running # Idle =>
    /\ running.owner \in Owners
    /\ data[running.slot].owner \in {None, running.owner}
    /\ data[running.slot].removed => data[running.slot].left <= running.at

AInv == OInv /\ Rings

alarms == [o \in Owners |-> Alarm(o)]
rings  == [owner |-> running.owner, again |-> Again]

Unset == [left |-> 0, every |-> -1]

-----------------------------------------------------------------------------
(* What owners see *)

LEMMA AlarmOf ==
  ASSUME AInv, NEW o \in Owners
  PROVE  /\ hold[o] = -1 => Alarm(o) = Unset
         /\ hold[o] # -1 => hold[o] \in Slots /\ data[hold[o]].owner = o
         /\ hold[o] # -1 /\ ~(hold[o] = running.slot /\ data[hold[o]].every = 0)
              => /\ Alarm(o) = [left |-> data[hold[o]].left, every |-> data[hold[o]].every]
                 /\ Alarm(o).every >= 0
         /\ hold[o] # -1 /\ hold[o] = running.slot /\ data[hold[o]].every = 0 => Alarm(o) = Unset
<1> USE DEF AInv, OInv, IInv
<1>1. hold[o] # -1 => hold[o] \in Slots /\ data[hold[o]].owner = o
  BY DEF Typed, Owned
<1>2. hold[o] # -1 => data[hold[o]].every >= 0
  BY <1>1 DEF Timed, Ranges
<1>3. QED BY <1>1, <1>2 DEF Alarm, Unset

\* The timer that is called and will be again is the one its owner remembers.
LEMMA AgainOf ==
  ASSUME AInv
  PROVE  /\ Again \in BOOLEAN
         /\ Again => /\ running # Idle /\ running.slot \in Slots /\ running.slot # -1
                     /\ running.owner \in Owners /\ hold[running.owner] = running.slot
                     /\ data[running.slot].every > 0
<1> USE DEF AInv, OInv, IInv
<1>1. Again \in BOOLEAN
  BY DEF Again, Typed, Timers, InCall
<1>2. ASSUME Again
      PROVE  /\ running # Idle /\ running.slot \in Slots /\ running.slot # -1
             /\ running.owner \in Owners /\ hold[running.owner] = running.slot
             /\ data[running.slot].every > 0
  <2>1. running # Idle /\ running.slot # -1 /\ running.slot \in Slots /\ data[running.slot].every > 0
    BY <1>2 DEF Again, InCall, Typed
  <2>2. data[running.slot].owner = running.owner /\ running.owner \in Owners
    BY <2>1 DEF InCall, Rings
  <2>3. QED BY <2>1, <2>2 DEF InCall
<1>3. QED BY <1>1, <1>2

\* An alarm stays as it is when its timer and its owner's id do.
LEMMA AlarmSame ==
  ASSUME AInv, NEW q \in Owners, hold'[q] = hold[q],
         hold[q] # -1 => /\ data'[hold[q]].left = data[hold[q]].left
                         /\ data'[hold[q]].every = data[hold[q]].every
                         /\ hold[q] = running'.slot <=> hold[q] = running.slot
  PROVE  Alarm(q)' = Alarm(q)
BY DEF Alarm

LEMMA AgainSame ==
  ASSUME AInv, running' = running,
         running # Idle => /\ data'[running.slot].removed = data[running.slot].removed
                           /\ data'[running.slot].every = data[running.slot].every
  PROVE  Again' = Again
BY DEF Again

-----------------------------------------------------------------------------
(* Whom do_timer calls *)

LEMMA RingsStep == AInv /\ [Next]_vars => Rings'
<1> SUFFICES ASSUME AInv, [Next]_vars PROVE Rings'
  OBVIOUS
<1> USE DEF AInv, OInv, IInv
<1>1. running # Idle => running.slot \in Slots /\ running.slot # -1
  BY DEF InCall, Typed
<1>2. ASSUME running' = running,
             running # Idle => /\ data'[running.slot].owner \in {None, data[running.slot].owner}
                               /\ data'[running.slot].removed => data[running.slot].removed
                               /\ data'[running.slot].left = data[running.slot].left
      PROVE  Rings'
  BY <1>2 DEF Rings
<1>3. CASE UNCHANGED vars
  BY <1>2, <1>3 DEF vars
<1>4. ASSUME NEW o \in Owners, Add(o) PROVE Rings'
  <2>1. NewSlot \in Slots /\ NewSlot # running.slot
    BY <1>4, NewSlotIsNew DEF Add
  <2>2. \A x \in Slots : x # NewSlot => data'[x] = data[x]
    BY <1>4, <2>1 DEF Add, Typed
  <2>3. running' = running
    BY <1>4 DEF Add
  <2>4. QED BY <1>1, <1>2, <2>1, <2>2, <2>3
<1>5. ASSUME NEW o \in Owners, Delete(o) PROVE Rings'
  <2> DEFINE i == hold[o]
  <2>1. i \in Slots /\ running' = running
    BY <1>5 DEF Delete, Typed
  <2>2. CASE i # running.slot
    <3>1. \A x \in Slots : x # i => data'[x] = data[x]
      BY <1>5, <2>1, <2>2 DEF Delete, Typed
    <3>2. QED BY <1>1, <1>2, <2>1, <2>2, <3>1
  <2>3. CASE i = running.slot
    <3>1. data'[i] = Lost
      BY <1>5, <2>1, <2>3 DEF Delete, Typed
    <3>2. QED BY <2>1, <2>3, <3>1 DEF Rings, Lost
  <2>4. QED BY <2>2, <2>3
<1>6. ASSUME NEW o \in Owners, AddTick(o) PROVE Rings'
  <2>1. hold[o] # running.slot /\ running' = running
    BY <1>6 DEF AddTick
  <2>2. \A x \in Slots : x # hold[o] => data'[x] = data[x]
    BY <1>6 DEF AddTick, Typed
  <2>3. QED BY <1>1, <1>2, <2>1, <2>2
<1>7. ASSUME NEW o \in Owners, Forget(o) PROVE Rings'
  BY <1>2, <1>7 DEF Forget
<1>8. CASE DoTimer
  BY <1>2, <1>8 DEF DoTimer
<1>9. CASE Expire
  <2> DEFINE i    == heap[Top]
             diff == Diff(TopTick, (now + look) % Mod)
  <2>1. running = Idle /\ heap # <<>> /\ look # Away /\ diff <= 0
    BY <1>9 DEF Expire, IsDue
  <2>2. i \in Slots /\ diff \in Int /\ look \in Int
    <3>1. i \in Slots /\ look \in Int
      BY <2>1, TopInHeap DEF Typed
    <3>2. diff = TopLeft - look /\ TopLeft \in Int
      BY <2>1, TopDiff, TopTime, Windows
    <3>3. QED BY <3>1, <3>2
  <2>3. CASE data[i].owner = None
    BY <1>2, <1>9, <2>1, <2>3 DEF Expire
  <2>4. CASE data[i].owner # None
    <3>1. /\ data' = [data EXCEPT ![i].tick = TopTick, ![i].left = diff + look, ![i].removed = TRUE]
          /\ running' = [slot |-> i, at |-> look + (IF diff < -Late THEN 0 ELSE diff),
                         owner |-> data[i].owner]
      BY <1>9, <2>4 DEF Expire
    <3> HIDE DEF diff
    <3>2. data'[i].owner = data[i].owner /\ data'[i].left = diff + look
      BY <2>2, <3>1 DEF Typed, Timers
    <3>3. data[i].owner \in Owners
      BY <2>2, <2>4 DEF Typed, Timers
    <3>4. diff + look <= look + (IF diff < -Late THEN 0 ELSE diff)
      BY <2>1, <2>2
    <3>5. QED BY <3>1, <3>2, <3>3, <3>4 DEF Rings
  <2>5. QED BY <2>3, <2>4
<1>10. CASE Finish
  BY <1>10 DEF Finish, Rings
<1>11. CASE Return
  BY <1>2, <1>11 DEF Return
<1>12. CASE Advance
  <2> DEFINE waits(i) == InHeap(i) \/ (i = running.slot /\ data[i].removed)
  <2>1. /\ data' = [i \in Slots |-> IF waits(i) THEN [data[i] EXCEPT !.left = @ - 1] ELSE data[i]]
        /\ running' = IF running = Idle THEN Idle ELSE [running EXCEPT !.at = @ - 1]
    BY <1>12 DEF Advance
  <2>2. CASE running = Idle
    BY <2>1, <2>2 DEF Rings
  <2>3. CASE running # Idle
    <3>1. running'.slot = running.slot /\ running'.owner = running.owner /\ running'.at = running.at - 1
      BY <2>1, <2>3 DEF Typed
    <3> DEFINE i == running.slot
    <3>2. i \in Slots /\ data[i] \in Timers
      BY <1>1, <2>3 DEF Typed
    <3>3. data'[i] = IF waits(i) THEN [data[i] EXCEPT !.left = @ - 1] ELSE data[i]
      BY <2>1, <3>2
    <3>4. data'[i].owner = data[i].owner /\ data'[i].removed = data[i].removed
      BY <3>2, <3>3 DEF Timers
    <3>5. data[i].removed => data'[i].left = data[i].left - 1
      BY <3>2, <3>3 DEF Timers
    <3>6. data[i].left \in Int /\ running.at \in Int
      BY <3>2 DEF Timers, Typed
    <3>7. QED BY <2>3, <3>1, <3>4, <3>5, <3>6 DEF Rings
  <2>4. QED BY <2>2, <2>3
<1>13. QED BY <1>3, <1>4, <1>5, <1>6, <1>7, <1>8, <1>9, <1>10, <1>11, <1>12 DEF Next

LEMMA SpecAInv == Spec => []AInv
<1>1. Init => AInv
  BY InitIInv, InitTimed DEF AInv, OInv, Rings, Init
<1>2. AInv /\ [Next]_vars => AInv'
  BY NextTimed, RingsStep DEF AInv
<1>3. QED BY <1>1, <1>2, PTL DEF Spec

-----------------------------------------------------------------------------
(* Every step of the timers is one of the alarms *)

\* Ringing that will not be repeated.
LEMMA Silenced == [rings EXCEPT !.again = FALSE] = [owner |-> running.owner, again |-> FALSE]
<1>1. ASSUME NEW x, NEW y, NEW z
      PROVE  [[owner |-> x, again |-> y] EXCEPT !.again = z] = [owner |-> x, again |-> z]
  OBVIOUS
<1>2. QED BY <1>1, Zenon DEF rings

LEMMA SetMaps ==
  ASSUME AInv, NEW o \in Owners, Add(o)
  PROVE  A!Set(o)
<1> DEFINE i == NewSlot
<1> USE DEF AInv, OInv, IInv
<1>1. /\ i \in Slots /\ i # -1 /\ ~Occurs(heap, i) /\ i # running.slot
      /\ hold[o] = -1 /\ hold' = [hold EXCEPT ![o] = i] /\ running' = running
  BY NewSlotIsNew, WindowAssumption DEF Add, Slots
<1>2. PICK base \in Bases, delay \in Delays, every \in Periods :
        data' = [data EXCEPT ![i] = [used |-> TRUE, owner |-> o, tick |-> (now + base + delay) % Mod,
                                     every |-> every, removed |-> FALSE, left |-> base + delay]]
  BY DEF Add
<1>3. base + delay > -MaxStall /\ every >= 0
  <2>1. base \in Int /\ -MaxStall <= base
    BY Windows DEF Bases, Timed, Ranges
  <2>2. delay \in Int /\ delay >= 1 /\ every >= 0
    BY DelayAssumption, Windows
  <2>3. QED BY <2>1, <2>2, Windows
<1>4. /\ data'[i].left = base + delay /\ data'[i].every = every
      /\ \A x \in Slots : x # i => data'[x] = data[x]
  BY <1>1, <1>2 DEF Typed
<1>5. Alarm(o) = Unset /\ Alarm(o)' = [left |-> base + delay, every |-> every]
  <2>1. hold'[o] = i
    BY <1>1 DEF Typed
  <2>2. QED BY <1>1, <1>4, <2>1 DEF Alarm, Unset
<1>6. ASSUME NEW q \in Owners, q # o PROVE Alarm(q)' = Alarm(q)
  <2>1. hold'[q] = hold[q] /\ hold[q] # i
    BY <1>1, <1>6 DEF Typed, Owned
  <2>2. hold[q] # -1 => hold[q] \in Slots
    BY DEF Typed
  <2>3. QED BY <1>1, <1>4, <2>1, <2>2, AlarmSame
<1>7. Again' = Again
  <2>1. running # Idle => running.slot \in Slots
    BY DEF InCall, Typed
  <2>2. QED BY <1>1, <1>4, <2>1, AgainSame
<1>8. alarms' = [alarms EXCEPT ![o] = alarms'[o]]
  BY <1>6 DEF alarms
<1>9. alarms'[o].left > -MaxStall /\ alarms'[o].every >= 0 /\ alarms[o].every = -1
  BY <1>3, <1>5 DEF alarms, Unset
<1>10. rings' = rings
  BY <1>1, <1>7 DEF rings
<1>11. QED BY <1>8, <1>9, <1>10 DEF A!Set, A!IsSet, alarms, rings

LEMMA CancelMaps ==
  ASSUME AInv, NEW o \in Owners, Delete(o)
  PROVE  A!Cancel(o) \/ UNCHANGED <<alarms, rings>>
<1> DEFINE i == hold[o]
<1> USE DEF AInv, OInv, IInv
<1>1. /\ i \in Slots /\ i # -1 /\ hold' = [hold EXCEPT ![o] = -1] /\ running' = running
      /\ data[i].owner = o
  BY DEF Delete, Typed, Owned
<1>2. \A x \in Slots : x # i => data'[x] = data[x]
  BY <1>1 DEF Delete, Typed
<1>3. Alarm(o)' = Unset
  <2>1. hold'[o] = -1
    BY <1>1 DEF Typed
  <2>2. QED BY <2>1 DEF Alarm, Unset
<1>4. ASSUME NEW q \in Owners, q # o PROVE Alarm(q)' = Alarm(q)
  <2>1. hold'[q] = hold[q]
    BY <1>1, <1>4 DEF Typed
  <2>2. hold[q] # -1 => hold[q] \in Slots /\ hold[q] # i
    BY <1>1, <1>4 DEF Typed, Owned
  <2>3. QED BY <1>1, <1>2, <2>1, <2>2, AlarmSame
<1>5. alarms' = [alarms EXCEPT ![o] = Unset]
  BY <1>3, <1>4 DEF alarms
<1>6. running # Idle => running.slot \in Slots
  BY DEF InCall, Typed
<1>7. Again \in BOOLEAN
  BY AgainOf
<1>8. CASE i # running.slot
  <2>1. Again' = Again
    BY <1>1, <1>2, <1>6, <1>8, AgainSame
  <2>2. running.owner = o => Again = FALSE
    BY <1>8, AgainOf
  <2>3. Alarm(o).every >= 0
    BY <1>1, <1>8, AlarmOf
  <2>4. rings' = rings
    BY <1>1, <2>1 DEF rings
  <2>5. ASSUME running.owner = o PROVE rings = [rings EXCEPT !.again = FALSE]
    <3>1. rings = [owner |-> running.owner, again |-> FALSE]
      BY <2>2, <2>5, Zenon DEF rings
    <3>2. QED BY <3>1, Silenced
  <2>6. A!Cancel(o)
    BY <1>5, <2>3, <2>4, <2>5 DEF A!Cancel, A!IsSet, A!NoAlarm, alarms, rings, Unset
  <2>7. QED BY <2>6
<1>9. CASE i = running.slot
  <2>1. data'[i] = Lost
    BY <1>1, <1>9 DEF Delete, Typed
  <2>2. Again' = FALSE
    BY <1>1, <1>9, <2>1 DEF Again, Lost
  <2>3. running # Idle /\ running.owner = o
    <3>1. running # Idle
      BY <1>1, <1>9 DEF Idle
    <3>2. QED BY <1>1, <1>9, <3>1, OwnerAssumption DEF Rings
  <2>4. CASE data[i].every = 0
    <3>1. Alarm(o) = Unset
      BY <1>1, <1>9, <2>4, AlarmOf
    <3>2. Again = FALSE
      BY <1>9, <2>4 DEF Again
    <3>3. alarms' = alarms /\ rings' = rings
      BY <1>1, <1>5, <2>2, <3>1, <3>2 DEF alarms, rings
    <3>4. QED BY <3>3
  <2>5. CASE data[i].every # 0
    <3>1. Alarm(o).every >= 0
      BY <1>1, <2>5, AlarmOf
    <3>2. rings' = [rings EXCEPT !.again = FALSE]
      <4>1. rings' = [owner |-> running.owner, again |-> FALSE]
        BY <1>1, <2>2, Zenon DEF rings
      <4>2. QED BY <4>1, Silenced
    <3>3. A!Cancel(o)
      BY <1>5, <2>3, <3>1, <3>2 DEF A!Cancel, A!IsSet, A!NoAlarm, alarms, rings, Unset
    <3>4. QED BY <3>3
  <2>6. QED BY <2>4, <2>5
<1>10. QED BY <1>8, <1>9

LEMMA PostponeMaps ==
  ASSUME AInv, NEW o \in Owners, AddTick(o)
  PROVE  A!Postpone(o)
<1> DEFINE i == hold[o]
<1> USE DEF AInv, OInv, IInv
<1>1. /\ i \in Slots /\ i # -1 /\ i # running.slot
      /\ hold' = hold /\ running' = running
  BY DEF AddTick, Typed
<1>2. PICK delay \in Delays :
        data' = [data EXCEPT ![i].tick = (@ + delay) % Mod, ![i].left = @ + delay]
  BY DEF AddTick
<1>3. /\ data'[i].left = data[i].left + delay /\ data'[i].every = data[i].every
      /\ \A x \in Slots : x # i => data'[x] = data[x]
  BY <1>1, <1>2 DEF Typed, Timers
<1>4. delay \in Int /\ delay > 0 /\ data[i].left \in Int
  BY <1>1, DelayAssumption, Windows DEF Typed, Timers
<1>5. /\ Alarm(o) = [left |-> data[i].left, every |-> data[i].every] /\ Alarm(o).every >= 0
  BY <1>1, AlarmOf
<1>6. Alarm(o)' = [left |-> data[i].left + delay, every |-> data[i].every]
  BY <1>1, <1>3 DEF Alarm
<1>7. ASSUME NEW q \in Owners, q # o PROVE Alarm(q)' = Alarm(q)
  <2>1. hold[q] # -1 => hold[q] \in Slots /\ hold[q] # i
    BY <1>1, <1>7 DEF Typed, Owned
  <2>2. QED BY <1>1, <1>3, <2>1, AlarmSame
<1>8. running # Idle => running.slot \in Slots
  BY DEF InCall, Typed
<1>9. Again' = Again
  BY <1>1, <1>3, <1>8, AgainSame
<1>10. rings' = rings
  BY <1>1, <1>9 DEF rings
<1>11. ~(running.owner = o /\ Again)
  BY <1>1, AgainOf
<1>12. alarms' = [alarms EXCEPT ![o].left = alarms'[o].left]
  <2>1. alarms'[o] = [alarms[o] EXCEPT !.left = alarms'[o].left]
    BY <1>5, <1>6 DEF alarms
  <2>2. alarms' = [alarms EXCEPT ![o] = alarms'[o]]
    BY <1>7 DEF alarms
  <2>3. QED BY <2>1, <2>2 DEF alarms
<1>13. alarms'[o].left > alarms[o].left /\ alarms[o].every >= 0
  BY <1>4, <1>5, <1>6 DEF alarms
<1>14. QED BY <1>10, <1>11, <1>12, <1>13 DEF A!Postpone, A!IsSet, alarms, rings

\* What the owner remembers of a call made once is no alarm any more.
LEMMA ForgetMaps ==
  ASSUME AInv, NEW o \in Owners, Forget(o)
  PROVE  UNCHANGED <<alarms, rings>>
<1>1. /\ hold' = [hold EXCEPT ![o] = -1] /\ hold[o] = running.slot /\ data[hold[o]].every = 0
      /\ running' = running /\ data' = data
  BY DEF Forget
<1>2. \A q \in Owners : hold'[q] = IF q = o THEN -1 ELSE hold[q]
  BY <1>1 DEF AInv, OInv, IInv, Typed
<1>3. \A q \in Owners : Alarm(q)' = Alarm(q)
  BY <1>1, <1>2 DEF Alarm
<1>4. Again' = Again
  BY <1>1 DEF Again
<1>5. QED BY <1>1, <1>3, <1>4 DEF alarms, rings

LEMMA RingMaps ==
  ASSUME AInv, Expire
  PROVE  (\E o \in Owners : A!Ring(o)) \/ UNCHANGED <<alarms, rings>>
<1> DEFINE i    == heap[Top]
           diff == Diff(TopTick, (now + look) % Mod)
<1> USE DEF AInv, OInv, IInv
<1>1. /\ running = Idle /\ heap # <<>> /\ look # Away /\ hold' = hold /\ diff <= 0
  BY DEF Expire, IsDue
<1>2. i \in Slots /\ Occurs(heap, i) /\ i # -1 /\ running.slot = -1
  BY <1>1, TopInHeap, WindowAssumption DEF Occurs, Slots, Idle
<1>3. /\ diff = TopLeft - look /\ look \in -MaxStall..0 /\ TopLeft \in Int
      /\ TopLeft >= data[i].left /\ data[i].left \in Int
  BY <1>1, TopDiff, TopTime, Windows
<1>4. diff + look = TopLeft /\ TopLeft <= 0
  <2>1. look \in Int /\ look <= 0
    BY <1>3, Windows
  <2> HIDE DEF diff
  <2>2. QED BY <1>1, <1>3, <2>1
<1>5. \A q \in Owners : hold[q] # -1 => hold[q] \in Slots /\ data[hold[q]].owner = q
  BY DEF Typed, Owned
<1>6. Again = FALSE /\ running.owner = None
  BY <1>1 DEF Again, Idle
<1>7. CASE data[i].owner = None
  <2>1. data' = [data EXCEPT ![i] = Blank] /\ running' = running
    BY <1>7 DEF Expire, Released
  <2>2. \A x \in Slots : x # i => data'[x] = data[x]
    BY <1>2, <2>1 DEF Typed
  <2>3. \A q \in Owners : hold[q] # i
    BY <1>2, <1>5, <1>7, OwnerAssumption
  <2>4. \A q \in Owners : Alarm(q)' = Alarm(q)
    BY <1>1, <1>5, <2>1, <2>2, <2>3, AlarmSame
  <2>5. Again' = Again
    BY <1>1, <2>1 DEF Again
  <2>6. QED BY <2>1, <2>4, <2>5 DEF alarms, rings
<1>8. CASE data[i].owner # None
  <2>1. PICK o \in Owners : o = data[i].owner /\ hold[o] = i
    BY <1>2, <1>8 DEF Owned, Typed, Timers
  <2>2. /\ data' = [data EXCEPT ![i].tick = TopTick, ![i].left = diff + look, ![i].removed = TRUE]
        /\ running' = [slot |-> i, at |-> look + (IF diff < -Late THEN 0 ELSE diff), owner |-> o]
    BY <1>8, <2>1 DEF Expire
  <2> HIDE DEF diff
  <2>3. /\ data'[i].left = TopLeft /\ data'[i].every = data[i].every /\ data'[i].removed = TRUE
        /\ \A x \in Slots : x # i => data'[x] = data[x]
    BY <1>2, <1>4, <2>2 DEF Typed, Timers
  <2>4. running'.slot = i /\ running'.owner = o /\ running' # Idle
    BY <1>2, <2>2 DEF Idle
  <2>5. ASSUME NEW q \in Owners, q # o PROVE Alarm(q)' = Alarm(q)
    <3>1. hold[q] # i
      BY <1>2, <1>5, <2>1, <2>5
    <3>2. hold[q] # -1 => data'[hold[q]] = data[hold[q]] /\ hold[q] # running.slot
      BY <1>2, <1>5, <2>3, <3>1
    <3>3. QED BY <1>1, <2>4, <3>1, <3>2, AlarmSame
  <2>6. Alarm(o) = [left |-> data[i].left, every |-> data[i].every] /\ data[i].every \in Int /\ data[i].every >= 0
    <3>1. data[i] \in Timers
      BY <1>2 DEF Typed
    <3>2. data[i].every \in Int
      BY <3>1 DEF Timers
    <3>3. Alarm(o) = [left |-> data[i].left, every |-> data[i].every] /\ data[i].every >= 0
      BY <1>2, <2>1, AlarmOf
    <3>4. QED BY <3>2, <3>3
  <2>7. CASE data[i].every = 0
    <3>1. Alarm(o)' = Unset
      BY <1>1, <2>1, <2>3, <2>4, <2>7 DEF Alarm, Unset
    <3>2. alarms' = [alarms EXCEPT ![o] = Unset]
      BY <2>1, <2>5, <3>1 DEF alarms
    <3>3. Again' = FALSE
      BY <2>3, <2>4, <2>7 DEF Again
    <3>4. rings = [owner |-> None, again |-> FALSE] /\ rings' = [owner |-> o, again |-> FALSE]
      BY <1>6, <2>4, <3>3, Zenon DEF rings
    <3>5. alarms[o].left <= 0 /\ alarms[o].every = 0
      BY <1>3, <1>4, <2>1, <2>6, <2>7 DEF alarms
    <3>6. A!Ring(o)
      BY <3>2, <3>4, <3>5 DEF A!Ring, A!IsSet, A!NoAlarm, A!Silent, alarms, rings, Unset
    <3>7. QED BY <2>1, <3>6
  <2>8. CASE data[i].every # 0
    <3>1. Alarm(o)' = [left |-> TopLeft, every |-> data[i].every]
      BY <1>1, <1>2, <2>1, <2>3, <2>4, <2>8 DEF Alarm
    <3>2. alarms' = [alarms EXCEPT ![o].left = TopLeft]
      <4>1. alarms' = [alarms EXCEPT ![o] = [left |-> TopLeft, every |-> data[i].every]]
        BY <2>1, <2>5, <3>1 DEF alarms
      <4>2. [alarms[o] EXCEPT !.left = TopLeft] = [left |-> TopLeft, every |-> data[i].every]
        BY <2>1, <2>6 DEF alarms
      <4>3. QED BY <4>1, <4>2
    <3>3. Again' = TRUE
      BY <2>3, <2>4, <2>6, <2>8 DEF Again
    <3>4. rings = [owner |-> None, again |-> FALSE] /\ rings' = [owner |-> o, again |-> TRUE]
      BY <1>6, <2>4, <3>3, Zenon DEF rings
    <3>5. /\ alarms[o].left <= 0 /\ TopLeft \in alarms[o].left..0
          /\ alarms[o].every > 0 /\ alarms[o].every >= 0
      BY <1>3, <1>4, <2>1, <2>6, <2>8 DEF alarms
    <3>6. \E left \in alarms[o].left..0 : alarms' = [alarms EXCEPT ![o].left = left]
      BY <3>2, <3>5
    <3>7. A!IsSet(o) /\ alarms[o].left <= 0
      BY <3>5 DEF A!IsSet, alarms
    <3>8. rings = A!Silent
      BY <3>4 DEF A!Silent
    <3>9. A!Ring(o)
      BY <3>4, <3>5, <3>6, <3>7, <3>8 DEF A!Ring, alarms, rings
    <3>10. QED BY <2>1, <3>9
  <2>9. QED BY <2>7, <2>8
<1>9. QED BY <1>7, <1>8

LEMMA StopMaps ==
  ASSUME AInv, Finish
  PROVE  (\E o \in Owners : A!Stop(o)) \/ UNCHANGED <<alarms, rings>>
<1> DEFINE i == running.slot
<1> USE DEF AInv, OInv, IInv
<1>1. running # Idle /\ running' = Idle /\ running'.slot = -1 /\ running'.owner = None
  BY DEF Finish, Idle
<1>2. /\ i \in Slots /\ i # -1 /\ (data[i].removed <=> i \notin leaked)
      /\ data[i].every \in Int /\ data[i].every >= 0 /\ data[i].left \in Int
  BY <1>1, Windows DEF InCall, Typed, Timers, Timed, Ranges
<1>3. \A q \in Owners : hold[q] # -1 => hold[q] \in Slots /\ data[hold[q]].owner = q
  BY DEF Typed, Owned
<1>4. Again' = FALSE
  BY <1>1 DEF Again
<1>5. rings' = A!Silent
  BY <1>1, <1>4, Zenon DEF rings, A!Silent
<1>6. PICK o \in Owners : o = running.owner
  BY <1>1 DEF Rings
<1>7. CASE data[i].removed /\ data[i].every > 0
  <2> DEFINE left == running.at + data[i].every
             tick == (now + running.at + data[i].every) % Mod
  <2>1. /\ hold' = hold
        /\ data' = [data EXCEPT ![i].tick = tick, ![i].left = left, ![i].removed = FALSE]
    BY <1>7 DEF Finish
  <2>2. running.at \in Int /\ running.at <= 0 /\ data[i].left <= running.at
    BY <1>1, <1>7, Windows DEF Timed, Ranges, Rings
  <2>3. left \in (data[i].left + data[i].every)..data[i].every
    BY <1>2, <2>2
  <2> HIDE DEF left, tick
  <2>4. /\ data'[i].left = left /\ data'[i].every = data[i].every
        /\ \A x \in Slots : x # i => data'[x] = data[x]
    BY <1>2, <2>1 DEF Typed, Timers
  <2>5. hold[o] = i /\ Again = TRUE
    <3>1. Again
      BY <1>1, <1>7 DEF Again
    <3>2. Again = TRUE
      BY <3>1, AgainOf
    <3>3. QED BY <1>6, <3>1, <3>2, AgainOf
  <2>6. Alarm(o) = [left |-> data[i].left, every |-> data[i].every]
    BY <1>2, <1>7, <2>5 DEF Alarm
  <2>7. Alarm(o)' = [left |-> left, every |-> data[i].every]
    BY <1>1, <1>2, <2>1, <2>4, <2>5 DEF Alarm
  <2>8. ASSUME NEW q \in Owners, q # o PROVE Alarm(q)' = Alarm(q)
    <3>1. hold[q] # i
      BY <1>2, <1>3, <2>5, <2>8
    <3>2. hold[q] # -1 => data'[hold[q]] = data[hold[q]]
      BY <1>3, <2>4, <3>1
    <3>3. QED BY <1>1, <2>1, <3>1, <3>2, AlarmSame
  <2>9. alarms' = [alarms EXCEPT ![o].left = left]
    <3>1. alarms' = [alarms EXCEPT ![o] = [left |-> left, every |-> data[i].every]]
      BY <2>7, <2>8 DEF alarms
    <3>2. [alarms[o] EXCEPT !.left = left] = [left |-> left, every |-> data[i].every]
      BY <2>6 DEF alarms
    <3>3. QED BY <3>1, <3>2
  <2>10. left \in (alarms[o].left + alarms[o].every)..alarms[o].every
    BY <2>3, <2>6 DEF alarms
  <2>11. \E l \in (alarms[o].left + alarms[o].every)..alarms[o].every : alarms' = [alarms EXCEPT ![o].left = l]
    BY <2>9, <2>10
  <2>12. rings.owner = o /\ rings.again
    BY <1>6, <2>5 DEF rings
  <2>13. A!Stop(o)
    BY <1>5, <2>11, <2>12 DEF A!Stop, alarms, rings
  <2>14. QED BY <2>13
<1>8. CASE ~(data[i].removed /\ data[i].every > 0)
  <2>1. Again = FALSE
    BY <1>8, AgainOf DEF Again
  <2>2. ASSUME NEW q \in Owners PROVE Alarm(q)' = Alarm(q)
    <3>1. CASE data[i].removed /\ data[i].every = 0
      <4>1. /\ data' = [data EXCEPT ![i] = Blank]
            /\ hold' = [p \in Owners |-> IF hold[p] = i THEN -1 ELSE hold[p]]
        BY <3>1 DEF Finish, Released
      <4>2. CASE hold[q] = i
        <5>1. hold'[q] = -1
          BY <4>1, <4>2
        <5>2. Alarm(q)' = Unset
          BY <5>1 DEF Alarm, Unset
        <5>3. Alarm(q) = Unset
          BY <3>1, <4>2 DEF Alarm, Unset
        <5>4. QED BY <5>2, <5>3
      <4>3. CASE hold[q] # i
        <5>1. hold'[q] = hold[q]
          BY <4>1, <4>3
        <5>2. hold[q] # -1 => data'[hold[q]] = data[hold[q]]
          BY <1>3, <4>1, <4>3 DEF Typed
        <5>3. QED BY <1>1, <4>3, <5>1, <5>2, AlarmSame
      <4>4. QED BY <4>2, <4>3
    <3>2. CASE ~data[i].removed
      <4>1. UNCHANGED <<data, hold>>
        BY <3>2 DEF Finish
      <4>2. data[i].owner = None
        BY <1>1, <1>2, <3>2 DEF InCall
      <4>3. hold[q] # i
        BY <1>2, <1>3, <4>2, OwnerAssumption
      <4>4. QED BY <1>1, <4>1, <4>3, AlarmSame
    <3>3. QED BY <1>2, <1>8, <3>1, <3>2
  <2>3. alarms' = alarms
    BY <2>2 DEF alarms
  <2>4. rings.owner = o /\ ~rings.again
    BY <1>6, <2>1 DEF rings
  <2>5. A!Stop(o)
    BY <1>5, <2>3, <2>4 DEF A!Stop, alarms, rings
  <2>6. QED BY <2>5
<1>9. QED BY <1>7, <1>8

\* do_timer writes the moment of wrapping around into the timer it looked at.
LEMMA ReturnMaps ==
  ASSUME AInv, Return
  PROVE  (\E o \in Owners : A!Postpone(o)) \/ UNCHANGED <<alarms, rings>>
<1> USE DEF AInv, OInv, IInv
<1>1. running = Idle /\ running' = Idle /\ hold' = hold
  BY DEF Return
<1>2. Again = FALSE /\ Again' = FALSE
  BY <1>1 DEF Again
<1>3. rings' = rings
  BY <1>1, <1>2, Zenon DEF rings
<1>4. CASE heap = <<>>
  <2>1. \A q \in Owners : Alarm(q)' = Alarm(q)
    BY <1>1, <1>4 DEF Return, Alarm
  <2>2. QED BY <1>3, <2>1 DEF alarms
<1>5. CASE heap # <<>>
  <2> DEFINE i == heap[Top]
  <2>1. i \in Slots /\ Occurs(heap, i) /\ i # -1
    BY <1>5, TopInHeap, WindowAssumption DEF Occurs, Slots
  <2>2. Diff(TopTick, now) = TopLeft /\ TopLeft \in Int /\ TopLeft >= data[i].left /\ data[i].left \in Int
    BY <1>5, TopDiff, TopTime, Windows
  <2>3. data' = [data EXCEPT ![i].tick = TopTick, ![i].left = Diff(TopTick, now)]
    BY <1>5 DEF Return
  <2>4. /\ data'[i].left = TopLeft /\ data'[i].every = data[i].every
        /\ \A x \in Slots : x # i => data'[x] = data[x]
    BY <2>1, <2>2, <2>3 DEF Typed, Timers
  <2>5. \A q \in Owners : hold[q] # -1 => hold[q] \in Slots /\ data[hold[q]].owner = q
    BY DEF Typed, Owned
  <2>6. ASSUME NEW q \in Owners, hold[q] # i PROVE Alarm(q)' = Alarm(q)
    BY <1>1, <2>4, <2>5, <2>6, AlarmSame
  <2>7. CASE \A q \in Owners : hold[q] # i
    BY <1>3, <2>6, <2>7 DEF alarms
  <2>8. ASSUME NEW o \in Owners, hold[o] = i PROVE A!Postpone(o) \/ UNCHANGED <<alarms, rings>>
    <3>1. i # running.slot
      BY <1>1, <2>1 DEF Idle
    <3>2. Alarm(o) = [left |-> data[i].left, every |-> data[i].every] /\ Alarm(o).every >= 0
      BY <2>1, <2>8, <3>1, AlarmOf
    <3>3. Alarm(o)' = [left |-> TopLeft, every |-> data[i].every]
      BY <1>1, <2>1, <2>4, <2>8, <3>1 DEF Alarm
    <3>4. \A q \in Owners : q # o => Alarm(q)' = Alarm(q)
      <4>1. \A q \in Owners : q # o => hold[q] # i
        BY <2>1, <2>5, <2>8
      <4>2. QED BY <2>6, <4>1
    <3>5. alarms' = [alarms EXCEPT ![o] = [left |-> TopLeft, every |-> data[i].every]]
      BY <3>3, <3>4 DEF alarms
    <3>6. CASE TopLeft = data[i].left
      BY <1>3, <3>2, <3>5, <3>6 DEF alarms
    <3>7. CASE TopLeft # data[i].left
      <4>1. TopLeft > data[i].left
        BY <2>2, <3>7
      <4>2. [alarms[o] EXCEPT !.left = TopLeft] = [left |-> TopLeft, every |-> data[i].every]
        BY <3>2 DEF alarms
      <4>3. alarms'[o].left = TopLeft /\ alarms[o].left = data[i].left /\ alarms[o].every >= 0
        BY <3>2, <3>3 DEF alarms
      <4>4. alarms' = [alarms EXCEPT ![o].left = alarms'[o].left]
        BY <3>5, <4>2, <4>3
      <4>5. A!Postpone(o)
        BY <1>2, <1>3, <4>1, <4>3, <4>4 DEF A!Postpone, A!IsSet, alarms, rings
      <4>6. QED BY <4>5
    <3>8. QED BY <3>6, <3>7
  <2>9. QED BY <2>7, <2>8
<1>6. QED BY <1>4, <1>5

LEMMA AdvanceMaps ==
  ASSUME AInv, Advance
  PROVE  A!Advance
<1> DEFINE waits(i) == InHeap(i) \/ (i = running.slot /\ data[i].removed)
<1> USE DEF AInv, OInv, IInv
<1>1. /\ \A i \in Slots : waits(i) => data[i].left > -MaxStall
      /\ data' = [i \in Slots |-> IF waits(i) THEN [data[i] EXCEPT !.left = @ - 1] ELSE data[i]]
      /\ running' = IF running = Idle THEN Idle ELSE [running EXCEPT !.at = @ - 1]
      /\ hold' = hold
  BY DEF Advance
<1>2. running'.slot = running.slot /\ running'.owner = running.owner /\ (running' = Idle => running = Idle \/ running.slot = -1)
  <2>1. CASE running = Idle
    BY <1>1, <2>1
  <2>2. CASE running # Idle
    BY <1>1, <2>2 DEF Typed, Idle
  <2>3. QED BY <2>1, <2>2
<1>3. ASSUME NEW x \in Slots
      PROVE  /\ data'[x].every = data[x].every /\ data'[x].removed = data[x].removed
             /\ waits(x) => data'[x].left = data[x].left - 1
  <2>1. data[x] \in Timers
    BY DEF Typed
  <2> HIDE DEF waits
  <2>2. data'[x] = IF waits(x) THEN [data[x] EXCEPT !.left = @ - 1] ELSE data[x]
    BY <1>1
  <2>3. QED BY <2>1, <2>2 DEF Timers
<1>4. ASSUME NEW q \in Owners
      PROVE  /\ Alarm(q).every >= 0 => Alarm(q).left > -MaxStall
             /\ Alarm(q)' = IF Alarm(q).every >= 0 THEN [Alarm(q) EXCEPT !.left = @ - 1] ELSE Unset
  <2> DEFINE i == hold[q]
  <2>1. CASE i = -1 \/ (i = running.slot /\ data[i].every = 0)
    <3>1. Alarm(q) = Unset /\ ~(Alarm(q).every >= 0)
      BY <2>1 DEF Alarm, Unset
    <3>2. Alarm(q)' = Unset
      <4>1. i \in Slots \/ i = -1
        BY DEF Typed
      <4>2. QED BY <1>1, <1>2, <1>3, <2>1, <4>1 DEF Alarm, Unset
    <3>3. QED BY <3>1, <3>2
  <2>2. CASE ~(i = -1 \/ (i = running.slot /\ data[i].every = 0))
    <3>1. i \in Slots /\ i # -1 /\ data[i].owner = q /\ (Occurs(heap, i) \/ i = running.slot)
      BY <2>2 DEF Typed, Owned
    <3>2. waits(i)
      <4>1. CASE Occurs(heap, i)
        BY <4>1 DEF Occurs, InHeap
      <4>2. CASE i = running.slot
        <5>1. running # Idle /\ data[i].owner # None
          BY <3>1, <4>2, OwnerAssumption DEF Idle
        <5>2. i \notin leaked
          BY <4>2, <5>1 DEF InCall
        <5>3. data[i].removed
          BY <4>2, <5>1, <5>2 DEF InCall
        <5>4. QED BY <4>2, <5>3
      <4>3. QED BY <3>1, <4>1, <4>2
    <3>3. data[i].left > -MaxStall
      BY <1>1, <3>1, <3>2
    <3> HIDE DEF waits
    <3>4. data'[i].left = data[i].left - 1 /\ data'[i].every = data[i].every
      BY <1>3, <3>1, <3>2
    <3>5. Alarm(q) = [left |-> data[i].left, every |-> data[i].every] /\ Alarm(q).every >= 0
      BY <2>2, <3>1, AlarmOf
    <3>6. Alarm(q)' = [left |-> data[i].left - 1, every |-> data[i].every]
      BY <1>1, <1>2, <2>2, <3>4 DEF Alarm
    <3>7. [Alarm(q) EXCEPT !.left = @ - 1] = [left |-> data[i].left - 1, every |-> data[i].every]
      BY <3>5
    <3>8. Alarm(q).left > -MaxStall
      BY <3>3, <3>5
    <3>9. QED BY <3>5, <3>6, <3>7, <3>8
  <2>3. QED BY <2>1, <2>2
<1>5. Again' = Again
  <2>1. CASE running = Idle
    BY <1>1, <2>1 DEF Again
  <2>2. CASE running # Idle
    <3>1. running.slot \in Slots /\ running.slot # -1
      BY <2>2 DEF InCall, Typed
    <3>2. running' # Idle
      BY <1>2, <2>2, <3>1
    <3>3. QED BY <1>2, <1>3, <2>2, <3>1, <3>2 DEF Again
  <2>3. QED BY <2>1, <2>2
<1>6. rings' = rings
  BY <1>2, <1>5 DEF rings
<1>7. \A o \in Owners : alarms[o].every >= 0 => alarms[o].left > -MaxStall
  BY <1>4 DEF alarms
<1>8. alarms' = [o \in Owners |-> IF alarms[o].every >= 0 THEN [alarms[o] EXCEPT !.left = @ - 1] ELSE Unset]
  BY <1>4 DEF alarms
<1>9. QED BY <1>6, <1>7, <1>8 DEF A!Advance, A!IsSet, A!NoAlarm, alarms, rings, Unset

-----------------------------------------------------------------------------

\* Timers are alarms: every step of timer.c:304-491 sets, cancels, postpones,
\* rings or stops an alarm, lets time pass, or is not seen from the outside.
THEOREM SpecImplementsAlarms == Spec => ImplementsAlarms
<1>1. Init => A!Init
  <2> SUFFICES ASSUME Init PROVE A!Init
    OBVIOUS
  <2>1. running = Idle /\ running.owner = None
    BY DEF Init, Idle
  <2>2. Again = FALSE
    BY <2>1 DEF Again
  <2>3. rings = A!Silent
    BY <2>1, <2>2, Zenon DEF rings, A!Silent
  <2>4. \A o \in Owners : Alarm(o) = A!NoAlarm
    BY DEF Init, Alarm, A!NoAlarm
  <2>5. QED BY <2>3, <2>4 DEF A!Init, rings
<1>2. AInv /\ [Next]_vars => [A!Next]_(A!vars)
  <2> SUFFICES ASSUME AInv, [Next]_vars PROVE A!Next \/ UNCHANGED <<alarms, rings>>
    BY DEF A!vars, alarms, rings
  <2>1. CASE UNCHANGED vars
    <3>1. UNCHANGED <<data, running, hold>>
      BY <2>1 DEF vars
    <3>2. (\A o \in Owners : Alarm(o)' = Alarm(o)) /\ Again' = Again
      BY <3>1 DEF Alarm, Again
    <3>3. QED BY <3>1, <3>2 DEF alarms, rings
  <2>2. ASSUME NEW o \in Owners, Add(o) \/ Delete(o) \/ AddTick(o) \/ Forget(o)
        PROVE  A!Next \/ UNCHANGED <<alarms, rings>>
    BY <2>2, SetMaps, CancelMaps, PostponeMaps, ForgetMaps DEF A!Next
  <2>3. CASE DoTimer
    <3>1. UNCHANGED <<data, running, hold>>
      BY <2>3 DEF DoTimer
    <3>2. (\A o \in Owners : Alarm(o)' = Alarm(o)) /\ Again' = Again
      BY <3>1 DEF Alarm, Again
    <3>3. QED BY <3>1, <3>2 DEF alarms, rings
  <2>4. CASE Expire
    BY <2>4, RingMaps DEF A!Next
  <2>5. CASE Finish
    BY <2>5, StopMaps DEF A!Next
  <2>6. CASE Return
    BY <2>6, ReturnMaps DEF A!Next
  <2>7. CASE Advance
    BY <2>7, AdvanceMaps DEF A!Next
  <2>8. QED BY <2>1, <2>2, <2>3, <2>4, <2>5, <2>6, <2>7 DEF Next
<1>3. QED BY <1>1, <1>2, SpecAInv, PTL DEF Spec, ImplementsAlarms, A!Spec

=============================================================================
