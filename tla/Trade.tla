------------------------------- MODULE Trade -------------------------------
(***************************************************************************)
(* Trading between two players, src/src/map/trade.c.  A trade has no       *)
(* record of its own: each session keeps its partner, its offer and its    *)
(* two confirmations, and every handler updates both sides.                *)
(*                                                                         *)
(* Whether two players are near each other and whether a storage is open   *)
(* is left open at every test of it.                                       *)
(***************************************************************************)
EXTENDS Goods

CONSTANT MaxDeal  \* MAX_DEAL_ITEMS
ASSUME DealAssumption == MaxDeal \in Nat

VARIABLES
  deal,     \* trade, state.deal_mode and state.deal_locked of each session;
            \* seen is history: the partner's offer when "trade" was pressed
  store,    \* state.store: the kind of shop a player has open
  mailing,  \* players with state.mail_appending set
  crossed   \* history: somebody invited a second player before the first
            \* had answered, or a refusal left an offer behind

DealSlots == 1..MaxDeal
NoEntry   == [slot |-> 0, amount |-> 0]
Entry     == [slot : 0..InvSize, amount : 0..MaxAmount]
Offer     == [items : [DealSlots -> Entry], zeny : 0..MaxZeny]
NoOffer   == [items |-> [i \in DealSlots |-> NoEntry], zeny |-> 0]
Deal      == [partner : Players \cup {None}, mode : BOOLEAN, locked : 0..2,
              offer : Offer, seen : Offer]
NoDeal    == [partner |-> None, mode |-> FALSE, locked |-> 0,
              offer |-> NoOffer, seen |-> NoOffer]

trades == <<deal, crossed>>

TypeOKTrade ==
  /\ deal \in [Players -> Deal]
  /\ store \in [Players -> {"none", "vending", "buying"}]
  /\ mailing \subseteq Players
  /\ crossed \in BOOLEAN

InitTrade ==
  /\ deal = [p \in Players |-> NoDeal]
  /\ store = [p \in Players |-> "none"]
  /\ mailing = {}
  /\ crossed = FALSE

\* Mutant: a shop keeps nobody from his goods.
IdleOrSelling(p) == ~deal[p].mode /\ p \notin mailing

\* state.store, state.deal_mode or state.mail_appending keeps a player from
\* most of what he could do with his goods.
Idle(p) == store[p] = "none" /\ ~deal[p].mode /\ p \notin mailing

\* The code asks for no open trade window and for no invitation to answer;
\* the game client does, and only a careless one sends what it should not.
Careless(p) == "careless" \in can[p]
Window(p)   == deal[p].mode \/ Careless(p)

\* map_id2sd(trade.partner) is there and on a map.
Partner(p) == deal[p].partner
Present(p) == Partner(p) \in online

\* Mutant: a player who already has a partner is taken over.
UnaskedOrNot(q) == TRUE
Unasked(q) == Partner(q) = None

\* Mutant: the offer stays open until the second confirmation.
OfferOpenLate(p) == deal[p].locked < 2
OfferOpen(p) == deal[p].locked < 1

-----------------------------------------------------------------------------
(* Handlers *)

\* trade_tradecancel: the offers and flags of both sides.
Cancelled(d, p) ==
  [q \in Players |->
     IF q = p \/ (q = d[p].partner /\ q \in online) THEN NoDeal ELSE d[q]]

\* Mutant: a shop opens beside a trade.
TradeKept(p) == deal

\* What a shop that opens leaves of its owner's trade.
TradeEnded(p) == IF Partner(p) # None THEN Cancelled(deal, p) ELSE deal

TradeCancel(p) ==
  /\ p \in online
  /\ deal' = Cancelled(deal, p)
  /\ UNCHANGED <<goods, crossed>>

\* clif_parse_TradeRequest, trade_traderequest: the invited player must have
\* no partner; the inviting one's own partner is not looked at, which only a
\* careless client makes use of.
TradeRequest(p) ==
  \E q \in online \ {p} :
    /\ "trade" \in can[p] /\ p \in online
    /\ Idle(p)
    /\ store[q] = "none" /\ q \notin mailing
    /\ Unasked(q)
    /\ deal' = [deal EXCEPT ![p].partner = q, ![q].partner = p]
    /\ Partner(p) = None \/ Careless(p)
    /\ crossed' = (crossed \/ Partner(p) # None)
    /\ UNCHANGED goods

\* Somebody without a partner has something on offer.
LeftOver(d) == \E p \in Players : d[p].partner = None /\ d[p].offer # NoOffer

\* trade_tradeack: too far away; a storage is open; refused; accepted.
TradeAck(p) ==
  LET q == Partner(p)
      Closed(d) == [d EXCEPT !.partner = None, !.mode = FALSE, !.locked = 0]
  IN  /\ p \in online /\ Present(p)
      /\ ~deal[p].mode \/ Careless(p)
      /\ \/ deal' = Cancelled(deal, p)
         \/ deal' = Cancelled(Cancelled(deal, q), p)
         \/ deal' = [deal EXCEPT ![p] = Closed(@), ![q] = Closed(@)]
         \/ deal' = [deal EXCEPT ![p].mode = TRUE, ![q].mode = TRUE]
      /\ crossed' = (crossed \/ LeftOver(deal'))
      /\ UNCHANGED goods

\* trade_tradeadditem, index 0: zeny.
TradeAddZeny(p) ==
  \E n \in 1..zeny[p] :
    /\ p \in online /\ Present(p) /\ Window(p)
    /\ OfferOpen(p)
    /\ LET q == Partner(p) IN
         zeny[q] - deal[q].offer.zeny + n \in 0..MaxZeny
    /\ deal' = [deal EXCEPT ![p].offer.zeny = n]
    /\ UNCHANGED <<goods, crossed>>

\* trade_tradeadditem: the next free place of the offer, if the partner can
\* carry all that was offered before it and the new item.
TradeAddItem(p) ==
  \E s \in Slots : \E n \in 1..inv[p][s].amount :
    LET offered == deal[p].offer.items
        free    == {i \in DealSlots : offered[i].amount = 0}
        before  == {i \in DealSlots : i < Min(free)}
    IN  /\ p \in online /\ Present(p) /\ Window(p)
        /\ OfferOpen(p)
        /\ free # {}
        /\ Weight(inv[Partner(p)]) + MapThenSumSet(LAMBDA i : offered[i].amount, before) + n
             <= MaxWeight
        /\ deal' = [deal EXCEPT ![p].offer.items[Min(free)] = [slot |-> s, amount |-> n]]
        /\ UNCHANGED <<goods, crossed>>

\* trade_tradeok: the first confirmation; cancelled when the partner is far.
TradeOk(p) ==
  /\ p \in online /\ Window(p)
  /\ \/ Present(p) /\ deal' = [deal EXCEPT ![p].locked = 1]
     \/ deal' = Cancelled(deal, p)
  /\ UNCHANGED <<goods, crossed>>

-----------------------------------------------------------------------------
(* trade_tradecommit *)

\* Entry i of an offer changes hands if the receiver can take it; otherwise,
\* and when its slot has become empty, it stays.  ab = <<giver's, receiver's>>.
Give(ab, entry, weighed) ==
  LET cell  == ab[1][entry.slot]
      Taken == IF weighed THEN Fits(ab[2], cell.kind, entry.amount)
                          ELSE HasRoom(ab[2], cell.kind, entry.amount)
  IN
  IF entry.amount = 0 THEN ab
  ELSE IF cell.kind = None \/ ~Taken THEN ab
  ELSE <<DelItem(ab[1], entry.slot, entry.amount), Put(ab[2], cell.kind, entry.amount)>>

\* The items of both offers in turn, p's entry first.
Swap(p, q) ==
  LET Both(ab, i) ==
        LET given == Give(ab, deal[p].offer.items[i], TRUE)
            back  == Give(<<given[2], given[1]>>, deal[q].offer.items[i], TRUE)
        IN  <<back[2], back[1]>>
  IN  FoldLeft(Both, <<inv[p], inv[q]>>, [i \in DealSlots |-> i])

\* trade_check: the same on copies, without the weight; it fails at the first
\* entry that its slot no longer covers or that finds no room.
TradeCheck(p, q) ==
  LET Covered(iv, entry) == iv[entry.slot].kind = None \/ iv[entry.slot].amount >= entry.amount
      Possible(ab, entry) ==
        \/ entry.amount = 0 \/ ab[1][entry.slot].kind = None
        \/ Covered(ab[1], entry) /\ HasRoom(ab[2], ab[1][entry.slot].kind, entry.amount)
      Both(st, i) ==
        LET mine   == deal[p].offer.items[i]
            yours  == deal[q].offer.items[i]
            given  == Give(st.ab, mine, FALSE)
            turned == <<given[2], given[1]>>
            back   == Give(turned, yours, FALSE)
        IN  IF st.ok /\ Possible(st.ab, mine) /\ Possible(turned, yours)
            THEN [ok |-> TRUE, ab |-> <<back[2], back[1]>>]
            ELSE [ok |-> FALSE, ab |-> st.ab]
  IN  FoldLeft(Both, [ok |-> TRUE, ab |-> <<inv[p], inv[q]>>], [i \in DealSlots |-> i]).ok

\* What n zeny out and m zeny in leave of z.
ZenyFits(z, n, m) == n <= z /\ z - n + m <= MaxZeny

BothLocked(p) == Present(p) /\ deal[p].locked >= 1 /\ deal[Partner(p)].locked >= 1

\* The second confirmation, while the partner has not given his.
TradeCommitFirst(p) ==
  /\ p \in online /\ Window(p)
  /\ BothLocked(p) /\ deal[Partner(p)].locked # 2
  /\ deal' = [deal EXCEPT ![p].locked = 2, ![p].seen = deal[Partner(p)].offer]
  /\ UNCHANGED <<goods, crossed>>

\* The partner has given his, or is gone: the exchange, or the end.
TradeCommit(p) ==
  LET q    == Partner(p)
      pays == deal[p].offer.zeny
      gets == deal[q].offer.zeny
      swap == Swap(p, q)
  IN  /\ p \in online /\ Window(p)
      /\ \/ /\ ~Present(p)
            /\ deal' = Cancelled(deal, p)
            /\ UNCHANGED goods
         \/ /\ BothLocked(p) /\ deal[q].locked = 2
            /\ ~(TradeCheck(p, q) /\ ZenyFits(zeny[p], pays, gets) /\ ZenyFits(zeny[q], gets, pays))
            /\ deal' = Cancelled(deal, p)
            /\ UNCHANGED goods
         \/ /\ BothLocked(p) /\ deal[q].locked = 2
            /\ TradeCheck(p, q) /\ ZenyFits(zeny[p], pays, gets) /\ ZenyFits(zeny[q], gets, pays)
            /\ inv' = [inv EXCEPT ![p] = swap[1], ![q] = swap[2]]
            /\ zeny' = [zeny EXCEPT ![p] = @ - pays + gets, ![q] = @ - gets + pays]
            /\ deal' = [deal EXCEPT ![p] = NoDeal, ![q] = NoDeal]
            /\ UNCHANGED cart
      /\ UNCHANGED crossed

=============================================================================
