---------------------------- MODULE LockedStorage ---------------------------
(***************************************************************************)
(* What the guild storage promises, without servers, caches or messages:   *)
(* one storage with one lock.  The holder edits it; its saves reach the    *)
(* stored copy in order; the lock is released only when the stored copy    *)
(* has caught up, so that the next holder starts from what the last one    *)
(* left.  A failure may undo the edits that were not stored yet, and may   *)
(* leave the lock to nobody in particular.                                 *)
(***************************************************************************)
EXTENDS Sequences

CONSTANTS
  Players,  \* who may hold the lock
  Items,    \* what the storage may hold
  Nobody,   \* not a player: the lock is free
  Gone      \* not a player either: the lock is held, by no player

VARIABLES
  holder,   \* who may edit: a player, Gone (held, by no player) or Nobody
  content,  \* the storage as its holder sees it
  pending,  \* contents saved by the holder and not stored yet, oldest first
  stored    \* the content a failure falls back to

Init ==
  /\ holder = Nobody
  /\ content = {}
  /\ pending = <<>>
  /\ stored = {}

Acquire(p) ==
  /\ holder = Nobody
  /\ holder' = p
  /\ UNCHANGED <<content, pending, stored>>

Edit(p) ==
  /\ holder = p
  /\ content' \in SUBSET Items
  /\ UNCHANGED <<holder, pending, stored>>

Save(p) ==
  /\ holder = p
  /\ pending' = Append(pending, content)
  /\ UNCHANGED <<holder, content, stored>>

Store ==
  /\ pending # <<>>
  /\ stored' = Head(pending)
  /\ pending' = Tail(pending)
  /\ UNCHANGED <<holder, content>>

\* The holder is done; what it edited since its last save is saved.
Leave(p) ==
  /\ holder = p
  /\ holder' = Gone
  /\ pending' \in {pending, Append(pending, content)}
  /\ content = IF pending' = <<>> THEN stored ELSE pending'[Len(pending')]
  /\ UNCHANGED <<content, stored>>

Release ==
  /\ holder = Gone
  /\ pending = <<>>
  /\ content = stored
  /\ holder' = Nobody
  /\ UNCHANGED <<content, pending, stored>>

\* A failure while the lock is held.
Fail ==
  /\ holder # Nobody
  /\ holder' \in {Gone, Nobody}
  /\ content' = stored
  /\ pending' = <<>>
  /\ UNCHANGED stored

Next ==
  \/ \E p \in Players : Acquire(p) \/ Edit(p) \/ Save(p) \/ Leave(p)
  \/ Store
  \/ Release
  \/ Fail

Spec == Init /\ [][Next]_<<holder, content, pending, stored>>

=============================================================================
