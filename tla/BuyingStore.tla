---------------------------- MODULE BuyingStore ----------------------------
(***************************************************************************)
(* Shops that buy, src/src/map/buyingstore.c.  A store's list maps the     *)
(* nameids wanted to an amount and a price; bought-out entries stay in it, *)
(* since count, the length of the list, does not change.  The limit of     *)
(* battle_config.max_buyingstore_amount is MaxAmount here.                 *)
(***************************************************************************)
EXTENDS Vending

CONSTANT MaxWanted  \* MAX_BUYINGSTORE_COUNT
ASSUME WantedAssumption == MaxWanted \in Nat

VARIABLES
  bstore,     \* buyingstore and buyer_id of each player; window: may open one
  lastBuyerId \* buyingstore_id

bstores == <<bstore, lastBuyerId>>

Names    == Range(NameOf)
BuyList  == {l \in ListsOver(Names, [amount : 1..MaxAmount, value : Prices \ {0}]) :
               Cardinality(DOMAIN l) <= MaxWanted}
NoBStore == [window |-> FALSE, id |-> 0, limit |-> 0, list |-> NoList]

TypeOKBuying ==
  /\ \A p \in Players :
       /\ bstore[p].window \in BOOLEAN
       /\ bstore[p].id \in 0..MaxShops
       /\ bstore[p].limit \in 0..MaxZeny
       /\ bstore[p].list \in ListsOver(Names, [amount : -MaxAmount..MaxAmount, value : Prices])
  /\ lastBuyerId \in 0..MaxShops

InitBuying ==
  /\ bstore = [p \in Players |-> NoBStore]
  /\ lastBuyerId = 0

\* buyingstore_close and every memset of sd->buyingstore; buyer_id stays.
Blanked(b) == [NoBStore EXCEPT !.id = b.id]

-----------------------------------------------------------------------------

\* buyingstore_openstorewindow, by the skill or a script
OpenStoreWindow(p) ==
  /\ "buy" \in can[p] /\ p \in online
  /\ store[p] = "none" /\ ~deal[p].mode
  /\ bstore' = [bstore EXCEPT ![p].window = TRUE]
  /\ UNCHANGED <<goods, mailing, store, trades, vends, lastBuyerId>>

\* Each wanted item must be owned, in an amount that leaves room for more.
MayWant(p, list) ==
  LET owned(n) == {s \in Slots : inv[p][s].kind # None /\ NameOf[inv[p][s].kind] = n}
  IN  /\ \A n \in DOMAIN list :
           owned(n) # {} /\ inv[p][Min(owned(n))].amount + list[n].amount <= MaxAmount
      /\ Weight(inv[p]) + MapThenSumSet(LAMBDA n : list[n].amount, DOMAIN list)
           <= (MaxWeight * 90) \div 100

\* buyingstore_openstore; a refused list may end a trade, and closes the
\* window.
OpenStore(p) ==
  /\ p \in online
  /\ bstore[p].window
  /\ store[p] = "none" /\ ~deal[p].mode
  /\ \/ \E list \in BuyList : \E limit \in 1..zeny[p] :
          /\ list # NoList /\ lastBuyerId < MaxShops
          /\ MayWant(p, list)
          /\ bstore' = [bstore EXCEPT ![p] = [window |-> FALSE, id |-> lastBuyerId + 1,
                                              limit |-> limit, list |-> list]]
          /\ lastBuyerId' = lastBuyerId + 1
          /\ store' = [store EXCEPT ![p] = "buying"]
          /\ deal' = TradeEnded(p)
     \/ /\ bstore' = [bstore EXCEPT ![p] = Blanked(@)]
        /\ deal' \in {deal, TradeEnded(p)}
        /\ UNCHANGED <<lastBuyerId, store>>
  /\ UNCHANGED <<goods, mailing, crossed, vends>>

BuyingClosed(b, p) == IF store[p] = "buying" THEN [b EXCEPT ![p] = Blanked(@)] ELSE b

CloseStore(p) ==
  /\ p \in online /\ store[p] = "buying"
  /\ bstore' = BuyingClosed(bstore, p)
  /\ store' = [store EXCEPT ![p] = "none"]
  /\ UNCHANGED <<goods, mailing, trades, vends, lastBuyerId>>

\* buyingstore_itemlist
StoreItemList(p) ==
  \E o \in online \ {p} :
    /\ "shop" \in can[p] /\ p \in online
    /\ store[p] = "none" /\ store[o] = "buying"
    /\ ~deal[o].mode /\ ~deal[p].mode
    /\ shown' = [shown EXCEPT ![p] = [shop |-> "buying", owner |-> o,
                                      id |-> bstore[o].id, list |-> bstore[o].list,
                                      kinds |-> NoList]]
    /\ UNCHANGED <<goods, mailing, store, trades, vend, lastId, bstores>>

-----------------------------------------------------------------------------
(* buyingstore_sell *)

NameIn(iv, s) == NameOf[iv[s].kind]

\* What each entry of want fetches, in the order of the slots.
Fetches(iv, list, want) ==
  LET Price(s) == list[NameIn(iv, s)].value * want[s]
      order    == SetToSortSeq(DOMAIN want, LAMBDA s, t : s < t)
  IN  [i \in DOMAIN order |-> Price(order[i])]

\* The owner pays the seller entry by entry; what pc_payzeny answers is not
\* looked at.  zz = <<owner's zeny, seller's zeny>>.
Paid(zz, fetches) ==
  FoldLeft(LAMBDA z, n : <<PayZeny(z[1], n), GetZeny(z[2], n)>>, zz, fetches)

Bought(list, iv, want) ==
  [n \in DOMAIN list |->
     [list[n] EXCEPT !.amount =
        @ - MapThenSumSet(LAMBDA s : want[s], {s \in DOMAIN want : NameIn(iv, s) = n})]]

\* Mutant: the store's id is not compared.
AnyStore(p, o) == TRUE
SameStore(p, o) == bstore[o].id = shown[p].id

\* Each entry is compared with the store's list as it was before the sale.
Sell(p) ==
  LET o == shown[p].owner IN
  /\ shown[p].shop = "buying"
  /\ p \in online /\ o \in online
  /\ store[o] = "buying" /\ store[p] = "none" /\ ~deal[p].mode
  /\ SameStore(p, o)
  /\ \E want \in ListsOver({s \in Slots : inv[p][s].kind # None}, 1..MaxAmount) :
    LET list    == bstore[o].list
        fetches == Fetches(inv[p], list, want)
        cost    == FoldLeft(+, 0, fetches)
        money   == Paid(<<zeny[o], zeny[p]>>, fetches)
        left    == Bought(list, inv[p], want)
        limit   == bstore[o].limit - cost
        done    == limit <= 0 \/ \A n \in DOMAIN left : left[n].amount <= 0
    IN  /\ want # NoList
        /\ Cardinality(DOMAIN want) <= Cardinality(DOMAIN list)
        /\ \A s \in DOMAIN want :
             /\ want[s] <= inv[p][s].amount
             /\ NameIn(inv[p], s) \in DOMAIN list
             /\ want[s] <= list[NameIn(inv[p], s)].amount
        /\ cost <= bstore[o].limit /\ zeny[p] <= MaxZeny - cost
        /\ Carries(inv[o], inv[p], want)
        /\ inv' = [inv EXCEPT ![o] = Delivered(@, inv[p], want), ![p] = Removed(@, want)]
        /\ zeny' = [zeny EXCEPT ![o] = money[1], ![p] = money[2]]
        /\ bstore' = [bstore EXCEPT ![o] =
                        IF done THEN Blanked(@) ELSE [@ EXCEPT !.limit = limit, !.list = left]]
        /\ store' = [store EXCEPT ![o] = IF done THEN "none" ELSE @]
        /\ UNCHANGED <<cart, mailing, trades, vends, lastBuyerId>>

=============================================================================
