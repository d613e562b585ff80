----------------------------- MODULE MCSession -----------------------------
(***************************************************************************)
(* Session in scenes.  A scene says how often each kind of step that can   *)
(* be taken again and again is taken; everything else goes on as it may.   *)
(***************************************************************************)
EXTENDS Session, TLC

CONSTANTS k1, k2, m1, m2, c1, c2

VARIABLE left \* how often the steps of the scene may still be taken

MCHomes == c1 :> m1 @@ c2 :> m2

\* From logging in, and from the world.
Scene(inside, those, roles, ins, moves, saves, stops, breaks, forgets) ==
  [inside |-> inside, clients |-> those, roles |-> roles, ins |-> ins, moves |-> moves,
   saves |-> saves, stops |-> stops, breaks |-> breaks, forgets |-> forgets]

MCScenes ==
  {Scene(TRUE, {k1, k2}, {c1}, 1, 1, 0, 0, 0, 0),      \* a second client while the first moves on
   Scene(TRUE, {k1, k2}, {c1, c2}, 1, 0, 1, 1, 0, 0),  \* or leaves
   Scene(FALSE, {k1, k2}, {c1, c2}, 2, 0, 0, 1, 0, 0), \* two clients at once
   Scene(FALSE, {k1}, {c1, c2}, 1, 1, 1, 1, 1, 1)}     \* links that break, entries that are lost

Spend(what) == left[what] > 0 /\ left' = [left EXCEPT ![what] = @ - 1]

\* k1 is playing c1 at m1 since the first login.
InitInside ==
  /\ client = [k \in Clients |-> IF k # k1 THEN Outside
                                 ELSE [at |-> "map", id |-> 1, fd |-> 1, map |-> m1, char |-> c1]]
  /\ lastId = 1 /\ tickets = {}
  /\ toLogin = <<>> /\ toChar = <<>>
  /\ seat = [f \in Seats |-> NoSeat]
  /\ auth = {} /\ online = m1 /\ crossed = FALSE
  /\ where = Homes /\ stored = [c \in Chars |-> 0]
  /\ up = [m \in Maps |-> <<>>] /\ down = [m \in Maps |-> <<>>]
  /\ sess = [m \in Maps |-> [f \in Fds |->
               IF m = m1 /\ f = 1
               THEN [NoSession EXCEPT !.char = c1, !.id = 1, !.auth = TRUE, !.dest = m1]
               ELSE NoSession]]
  /\ idb = [m \in Maps |-> IF m = m1 THEN 1 ELSE 0]
  /\ doomed = [m \in Maps |-> {}]
  /\ latest = [c \in Chars |-> 0]
  /\ mixed = FALSE /\ abandoned = FALSE /\ drops = 0

MCInit == left \in MCScenes /\ IF left.inside THEN InitInside ELSE Init

Within == \A k \in Clients : client'[k].char \in left.roles \cup {None}

MCNext ==
  \/ Proceeds /\ Within /\ UNCHANGED left
  \/ Spend("ins") /\ LogIn /\ \A k \in Clients \ left.clients : client'[k] = Outside
  \/ Spend("moves") /\ MoveOn
  \/ Spend("saves") /\ SaveOne
  \/ Spend("stops") /\ StopIt
  \/ Spend("breaks") /\ Break
  \/ Spend("forgets") /\ Forget

MCSpec == MCInit /\ [][MCNext]_<<vars, left>>

=============================================================================
