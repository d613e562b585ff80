------------------------------- MODULE Goods -------------------------------
(***************************************************************************)
(* What the players of one map server own, and the functions of            *)
(* src/src/map/pc.c that every exchange of goods is built from.            *)
(*                                                                         *)
(* An inventory or a cart is an array of slots, because trades, shops and  *)
(* mails name goods by their slot.  A kind is a nameid with its cards;     *)
(* NameOf gives the nameid alone, which is all that pc_checkadditem looks  *)
(* at.  Every kind can be dropped and stacked and weighs 1 a piece;        *)
(* equipment, which does not stack, is left out.                           *)
(***************************************************************************)
EXTENDS Integers, Sequences, FiniteSets, FiniteSetsExt, Functions, SequencesExt

CONSTANTS
  Players,    \* characters, each of an account of its own
  Kinds,      \* what may lie in a slot
  NameOf,     \* nameid of each kind
  None,       \* no kind; no player
  InvSize,    \* MAX_INVENTORY
  CartSize,   \* MAX_CART
  MaxAmount,  \* MAX_AMOUNT
  MaxWeight,  \* max_weight of every player
  MaxZeny,    \* MAX_ZENY
  MaxLoot,    \* bound: the game gives no item when there are as many
  Abilities,  \* what a player may do at all: skills, a cart, the mail option
  Starts      \* initial states: [can, inv, cart, zeny] of the players

ASSUME NoneAssumption  == None \notin Kinds \cup Players
ASSUME NamesAssumption == DOMAIN NameOf = Kinds
ASSUME SizesAssumption ==
  InvSize \in Nat /\ CartSize \in Nat /\ MaxAmount \in Nat
    /\ MaxWeight \in Nat /\ MaxZeny \in Nat
    /\ MaxLoot \in Nat

VARIABLES
  can,     \* abilities of each player
  online,  \* players whose session is on the map: bl.prev is set
  away,    \* players without a session; the others are between two maps
  inv,     \* status.inventory
  cart,    \* status.cart
  zeny     \* status.zeny

goods == <<inv, cart, zeny>>

-----------------------------------------------------------------------------
(* Slots *)

Slots     == 1..InvSize
CartSlots == 1..CartSize

Cell   == [kind : Kinds, amount : 1..MaxAmount] \cup [kind : {None}, amount : {0}]
Vacant == [kind |-> None, amount |-> 0]

Held(iv, k) == {s \in DOMAIN iv : iv[s].kind = k}

\* How many of kind k lie in iv.
Count(iv, k) == MapThenSumSet(LAMBDA s : iv[s].amount, Held(iv, k))

Weight(iv) == MapThenSumSet(LAMBDA s : iv[s].amount, DOMAIN iv)

\* Where pc_additem puts kind k: on its stack, else into the first free slot.
Place(iv, k) == Min(IF Held(iv, k) # {} THEN Held(iv, k) ELSE Held(iv, None))

HasRoom(iv, k, n) ==
  IF Held(iv, k) # {} THEN iv[Place(iv, k)].amount + n <= MaxAmount
                      ELSE Held(iv, None) # {}

Put(iv, k, n) == [iv EXCEPT ![Place(iv, k)] = [kind |-> k, amount |-> @.amount + n]]

\* pc_additem returns 0.
Fits(iv, k, n) == k # None /\ n > 0 /\ Weight(iv) + n <= MaxWeight /\ HasRoom(iv, k, n)

AddItem(iv, k, n) == IF Fits(iv, k, n) THEN Put(iv, k, n) ELSE iv

\* Mutant: a slot that is used up keeps its nameid.
DelItemKeepingKind(iv, s, n) ==
  IF iv[s].kind = None \/ n <= 0 \/ iv[s].amount < n THEN iv
  ELSE [iv EXCEPT ![s].amount = @ - n]

\* pc_delitem and pc_cart_delitem: nothing happens when the slot has less.
DelItem(iv, s, n) ==
  IF iv[s].kind = None \/ n <= 0 \/ iv[s].amount < n THEN iv
  ELSE IF iv[s].amount = n THEN [iv EXCEPT ![s] = Vacant]
  ELSE [iv EXCEPT ![s].amount = @ - n]

\* pc_checkadditem: would n of kind k need a slot ("new"), join a stack
\* ("exist") or make one too large ("over")?  It compares nameids only.
CheckAddItem(iv, k, n) ==
  LET named == {s \in DOMAIN iv : iv[s].kind # None /\ NameOf[iv[s].kind] = NameOf[k]}
  IN  IF named # {}
      THEN IF iv[Min(named)].amount + n > MaxAmount THEN "over" ELSE "exist"
      ELSE IF n > MaxAmount THEN "over" ELSE "new"

Blank(iv) == Cardinality(Held(iv, None))

PayZeny(z, n) == IF z < n THEN z ELSE z - n

GetZeny(z, n) == IF z > MaxZeny - n THEN MaxZeny ELSE z + n

-----------------------------------------------------------------------------

TypeOKGoods ==
  /\ can \in [Players -> SUBSET Abilities]
  /\ online \subseteq Players /\ away \subseteq Players \ online
  /\ inv \in [Players -> [Slots -> Cell]]
  /\ cart \in [Players -> [CartSlots -> Cell]]
  /\ zeny \in [Players -> 0..MaxZeny]

InitGoods ==
  /\ \E s \in Starts : can = s.can /\ inv = s.inv /\ cart = s.cart /\ zeny = s.zeny
  /\ online = Players /\ away = {}

\* The rest of the game gives an item (loot of a party, a script, a quest) or
\* takes one (a rental that expires, a skill's catalyst); neither waits for a
\* deal to end.
GainItem(p) ==
  \E k \in Kinds :
    /\ "loot" \in can[p]
    /\ MapThenSumSet(LAMBDA q : Weight(inv[q]), Players) < MaxLoot
    /\ Fits(inv[p], k, 1)
    /\ inv' = [inv EXCEPT ![p] = Put(@, k, 1)]
    /\ UNCHANGED <<cart, zeny>>

LoseItem(p) ==
  \E s \in Slots :
    /\ "loot" \in can[p]
    /\ inv[p][s].kind # None
    /\ inv' = [inv EXCEPT ![p] = DelItem(@, s, 1)]
    /\ UNCHANGED <<cart, zeny>>

=============================================================================
