------------------------------ MODULE Vending ------------------------------
(***************************************************************************)
(* Shops that sell from a cart, src/src/map/vending.c.  A shop's list maps *)
(* cart slots to an amount and a price (its order does not matter, and a   *)
(* game client lists a slot once); sold-out entries leave it.              *)
(***************************************************************************)
EXTENDS Trade

CONSTANTS
  Prices,   \* prices a shop may ask
  MaxShops, \* bound: shops opened in one behaviour
  TaxRate   \* battle_config.tax_rate, in percent

ASSUME PricesAssumption == Prices \subseteq Nat
ASSUME TaxAssumption    == TaxRate \in 0..100 /\ MaxShops \in Nat

VARIABLES
  vend,   \* vender_id and vending[0 .. vend_num - 1] of each player
  lastId, \* vending_id
  shown   \* the shop in each player's window, as he was last shown it

vends == <<vend, lastId, shown>>

NoList == [s \in {} |-> 0]
NoShop == [id |-> 0, list |-> NoList]

ListsOver(Domain, Entry_) == UNION {[S -> Entry_] : S \in SUBSET Domain}
VendList   == ListsOver(CartSlots, [amount : 1..MaxAmount, value : Prices])
NoWindow   == [shop |-> "none", owner |-> None, id |-> 0,
               list |-> NoList, kinds |-> NoList]

TypeOKVending ==
  /\ \A p \in Players : vend[p].id \in 0..MaxShops /\ vend[p].list \in VendList
  /\ lastId \in 0..MaxShops

InitVending ==
  /\ vend = [p \in Players |-> NoShop]
  /\ lastId = 0
  /\ shown = [p \in Players |-> NoWindow]

\* What a vender gets of n zeny.
Taxed(n) == (n * (100 - TaxRate)) \div 100

\* What the entries in want cost at the prices of list.
Cost(list, want) == MapThenSumSet(LAMBDA s : list[s].value * want[s], DOMAIN want)

-----------------------------------------------------------------------------

\* Mutant: the id of a shop says nothing about which shop it is.
SameShopId == 1
NextShopId == lastId + 1

\* vending_openvending; a trade ends even when the list is refused.
OpenVending(p) ==
  /\ "vend" \in can[p] /\ p \in online
  /\ store[p] = "none" /\ ~deal[p].mode
  /\ deal' = TradeEnded(p)
  /\ \/ \E list \in VendList :
          /\ list # NoList /\ lastId < MaxShops
          /\ \A s \in DOMAIN list : cart[p][s].amount >= list[s].amount
          /\ vend' = [vend EXCEPT ![p] = [id |-> NextShopId, list |-> list]]
          /\ lastId' = lastId + 1
          /\ store' = [store EXCEPT ![p] = "vending"]
     \/ Partner(p) # None /\ UNCHANGED <<vend, lastId, store>>
  /\ UNCHANGED <<goods, mailing, crossed, shown>>

\* vending_closevending: the list is forgotten (vend_num), the id is not.
VendingClosed(v, p) == IF store[p] = "vending" THEN [v EXCEPT ![p].list = NoList] ELSE v

CloseVending(p) ==
  /\ p \in online /\ store[p] = "vending"
  /\ vend' = VendingClosed(vend, p)
  /\ store' = [store EXCEPT ![p] = "none"]
  /\ UNCHANGED <<goods, mailing, trades, lastId, shown>>

\* vending_vendinglistreq
VendingListReq(p) ==
  \E v \in online \ {p} :
    /\ "shop" \in can[p] /\ p \in online
    /\ store[v] = "vending" /\ store[p] = "none"
    /\ ~deal[v].mode /\ ~deal[p].mode
    /\ shown' = [shown EXCEPT ![p] = [shop |-> "vending", owner |-> v,
                                     id |-> vend[v].id, list |-> vend[v].list,
                                     kinds |-> [s \in DOMAIN vend[v].list |-> cart[v][s].kind]]]
    /\ UNCHANGED <<goods, mailing, store, trades, vend, lastId>>

\* Mutant: free slots are not counted.
CarriesByWeight(iv, cells, want) ==
  Weight(iv) + MapThenSumSet(LAMBDA s : want[s], DOMAIN want) <= MaxWeight

\* Can the buyer carry and stow all of it?  Each entry is compared with the
\* inventory as it is before the purchase.
Carries(iv, cells, want) ==
  LET Answer(s) == CheckAddItem(iv, cells[s].kind, want[s])
      fresh     == {s \in DOMAIN want : Answer(s) = "new"}
  IN  /\ Weight(iv) + MapThenSumSet(LAMBDA s : want[s], DOMAIN want) <= MaxWeight
      /\ \A s \in DOMAIN want : Answer(s) # "over"
      /\ Cardinality(fresh) <= Blank(iv)

\* pc_additem for each entry, whatever it answers.
Delivered(iv, cells, want) ==
  FoldLeft(LAMBDA v, s : AddItem(v, cells[s].kind, want[s]), iv,
           SetToSortSeq(DOMAIN want, LAMBDA s, t : s < t))

Removed(cells, want) ==
  FoldLeft(LAMBDA c, s : DelItem(c, s, want[s]), cells, SetToSeq(DOMAIN want))

\* What is left of a list, sold-out entries cut.
Reduced(list, want) ==
  LET left == [s \in DOMAIN list |->
                 [list[s] EXCEPT !.amount = @ - (IF s \in DOMAIN want THEN want[s] ELSE 0)]]
  IN  RestrictDomain(left, LAMBDA s : left[s].amount > 0)

\* Mutant: the amounts are compared with the list that was shown.
AvailableAsShown(p, v, want) ==
  /\ DOMAIN want \subseteq DOMAIN vend[v].list
  /\ \A s \in DOMAIN want : want[s] <= shown[p].list[s].amount

Available(p, v, want) ==
  /\ DOMAIN want \subseteq DOMAIN vend[v].list
  /\ \A s \in DOMAIN want : want[s] <= vend[v].list[s].amount

\* Mutant: the buyer's purse is not looked at.
MayOwe(p, v, cost) == cost + zeny[v] <= MaxZeny
MayPay(p, v, cost) == cost <= zeny[p] /\ cost + zeny[v] <= MaxZeny

\* vending_purchasereq, for entries of the shop in the buyer's window.  That
\* the shop is open is known by its id and its list alone.
PurchaseReq(p) ==
  LET v == shown[p].owner IN
  /\ shown[p].shop = "vending"
  /\ p \in online /\ v \in online
  /\ store[p] = "none" /\ ~deal[p].mode
  /\ vend[v].id = shown[p].id
  /\ \E want \in ListsOver(DOMAIN shown[p].list, 1..MaxAmount) :
    /\ want # NoList
    /\ Available(p, v, want)
    /\ LET cost == Cost(vend[v].list, want) IN
         /\ MayPay(p, v, cost)
         /\ zeny' = [zeny EXCEPT ![p] = PayZeny(@, cost),
                                 ![v] = GetZeny(@, Taxed(cost))]
    /\ Carries(inv[p], cart[v], want)
    /\ inv' = [inv EXCEPT ![p] = Delivered(@, cart[v], want)]
    /\ cart' = [cart EXCEPT ![v] = Removed(@, want)]
    /\ vend' = [vend EXCEPT ![v].list = Reduced(@, want)]
    /\ UNCHANGED <<mailing, store, trades, lastId, shown>>

-----------------------------------------------------------------------------
(* The cart: pc_putitemtocart, pc_getitemfromcart.  Its weight limit of 8000 *)
(* is left out.                                                              *)

PutItemToCart(p) ==
  \E s \in Slots : \E n \in 1..inv[p][s].amount :
    /\ "vend" \in can[p] /\ p \in online /\ Idle(p)
    /\ HasRoom(cart[p], inv[p][s].kind, n)
    /\ cart' = [cart EXCEPT ![p] = Put(@, inv[p][s].kind, n)]
    /\ inv' = [inv EXCEPT ![p] = DelItem(@, s, n)]
    /\ UNCHANGED <<zeny, mailing, store, trades, vends>>

GetItemFromCart(p) ==
  \E s \in CartSlots : \E n \in 1..cart[p][s].amount :
    /\ "vend" \in can[p] /\ p \in online /\ Idle(p)
    /\ Fits(inv[p], cart[p][s].kind, n)
    /\ inv' = [inv EXCEPT ![p] = Put(@, cart[p][s].kind, n)]
    /\ cart' = [cart EXCEPT ![p] = DelItem(@, s, n)]
    /\ UNCHANGED <<zeny, mailing, store, trades, vends>>

=============================================================================
