------------------------------ MODULE Exchange ------------------------------
(***************************************************************************)
(* The players of one map server: everything by which they pass goods to   *)
(* each other (trades, carts that sell, stores that buy, mail, the bank),  *)
(* over the same inventories and session flags, and their parties, while   *)
(* they leave the map in the middle of it, or are thrown out when the char *)
(* server is lost, and come back with what it had stored.                  *)
(***************************************************************************)
EXTENDS BuyingStore, Mail, Bank, Party

vars == <<can, online, away, goods, trades, store, mailing, vends, bstores, mails, deposit, link,
          parties>>

\* mmo_charstatus as chrif_save sends it; taken is history.
Status(p) == [inv |-> inv[p], cart |-> cart[p], zeny |-> zeny[p], party |-> sd[p].party,
              taken |-> {t \in taken : t[1] = p}]

Init ==
  /\ InitGoods /\ InitTrade /\ InitVending /\ InitBuying /\ InitMail /\ InitBank /\ InitParty
  /\ InitLink([p \in Players |-> Status(p)])

-----------------------------------------------------------------------------
(* Coming and going *)

\* unit_remove_map of a player: everything he has open ends.
Closed(p) ==
  /\ online' = online \ {p}
  /\ deal' = TradeEnded(p)
  /\ vend' = VendingClosed(vend, p)
  /\ bstore' = BuyingClosed(bstore, p)
  /\ store' = [store EXCEPT ![p] = "none"]
  /\ Detach(p, 0)
  /\ UNCHANGED <<can, goods, crossed, lastId, shown, lastBuyerId, deposit,
                 linked, down, record, box, rates, taken, hasty>>

\* He warps.
Depart(p) ==
  /\ "warp" \in can[p] /\ p \in online
  /\ Closed(p)
  /\ sd' = Uninvited(p)
  /\ UNCHANGED <<away, up, roll, founded, copies, odd, skewed>>

\* What is saved is read back by the next login.  Without a party, and with a
\* link that does not break, it is what the player left with, and is left out.
Fragile   == \E q \in Players : "link" \in can[q]
Followed  == Fragile \/ \E q \in Players : "party" \in can[q]
SaveOf(p) == [op |-> "save", by |-> p, status |-> Status(p)]

\* map_quit: his session ends, and his status is saved.
Quit(p) ==
  /\ "quit" \in can[p] /\ p \in online
  /\ Closed(p)
  /\ away' = away \cup {p}
  /\ up' = up \o LogoutNotice(p) \o (IF Followed THEN <<SaveOf(p)>> ELSE <<>>)
  /\ sd' = [sd EXCEPT ![p] = NoSession]
  /\ copies' = Forgotten(copies, {p})
  /\ UNCHANGED <<roll, founded, odd, skewed>>

\* pc_autosave
Autosave(p) ==
  /\ Fragile /\ p \notin away /\ LinkHasRoom
  /\ Status(p) # record[p]
  /\ Asks(SaveOf(p))
  /\ UNCHANGED <<can, online, away, goods, store, mailing, trades, vends, bstores, mails, deposit,
                 linked, down, record, parties>>

\* parse_map: 0x2b01.
Saved ==
  /\ up # <<>> /\ Head(up).op = "save"
  /\ record' = [record EXCEPT ![Head(up).by] = Head(up).status]
  /\ up' = Tail(up)
  /\ UNCHANGED <<can, online, away, goods, store, mailing, trades, vends, bstores, mails, deposit,
                 linked, down, parties>>

\* chrif_authreq.  Bounds: the load of the link, and players who can do nothing
\* stay away.
AuthReq(p) ==
  /\ p \in away /\ can[p] # {}
  /\ linked /\ ~Connecting(p) /\ Len(up) + Len(down) <= LinkCap
  /\ Asks([op |-> "auth", by |-> p])
  /\ UNCHANGED <<can, online, away, goods, store, mailing, trades, vends, bstores, mails, deposit,
                 linked, down, record, parties>>

\* parse_map: 0x2afc, of a client the char server knows.
Auth ==
  /\ up # <<>> /\ Head(up).op = "auth"
  /\ Answers(<<[op |-> "authok", by |-> Head(up).by, party |-> record[Head(up).by].party]>>)
  /\ up' = Tail(up)
  /\ UNCHANGED <<can, online, away, goods, store, mailing, trades, vends, bstores, mails, deposit,
                 linked, record, parties>>

\* pc_authok: a new session of zeroes, and of what was stored.
LogIn(p) ==
  /\ down # <<>> /\ Head(down).op = "authok" /\ Head(down).by = p
  /\ down' = Tail(down)
  /\ away' = away \ {p}
  /\ deal' = [deal EXCEPT ![p] = NoDeal]
  /\ vend' = [vend EXCEPT ![p] = NoShop]
  /\ bstore' = [bstore EXCEPT ![p] = NoBStore]
  /\ shown' = [shown EXCEPT ![p] = NoWindow]
  /\ append' = [append EXCEPT ![p] = NoAppend]
  /\ mailing' = mailing \ {p}
  /\ PartyLogIn(p, Head(down).party)
  /\ UNCHANGED <<can, online, goods, store, crossed, lastId, lastBuyerId, deposit,
                 linked, record, box, rates, taken, hasty>>

\* clif_parse_LoadEndAck: on the map.
Arrive(p) ==
  /\ p \in Players \ (online \cup away)
  /\ online' = online \cup {p}
  /\ PartyArrive(p)
  /\ UNCHANGED <<can, away, goods, store, mailing, trades, vends, bstores, mails, deposit,
                 linked, down, record>>

\* chrif_disconnect: what was on its way is lost, and everybody is thrown out,
\* to come back with what was stored of him.
LinkBreaks ==
  /\ linked /\ Fragile
  /\ linked' = FALSE /\ up' = <<>> /\ down' = <<>>
  /\ online' = {} /\ away' = Players
  /\ inv' = [p \in Players |-> record[p].inv]
  /\ cart' = [p \in Players |-> record[p].cart]
  /\ zeny' = [p \in Players |-> record[p].zeny]
  /\ taken' = UNION {record[p].taken : p \in Players}
  /\ deal' = [p \in Players |-> NoDeal]
  /\ store' = [p \in Players |-> "none"]
  /\ mailing' = {}
  /\ vend' = [p \in Players |-> NoShop]
  /\ bstore' = [p \in Players |-> NoBStore]
  /\ shown' = [p \in Players |-> NoWindow]
  /\ append' = [p \in Players |-> NoAppend]
  /\ PartyBreak
  /\ UNCHANGED <<can, crossed, lastId, lastBuyerId, deposit, record, box, rates, hasty>>

LinkReturns ==
  /\ ~linked
  /\ linked' = TRUE
  /\ UNCHANGED <<can, online, away, goods, store, mailing, trades, vends, bstores, mails, deposit,
                 up, down, record, parties>>

-----------------------------------------------------------------------------

present == <<can, online, away>>

TradeNext(p) ==
  /\ \/ TradeRequest(p) \/ TradeAck(p) \/ TradeCancel(p)
     \/ TradeAddZeny(p) \/ TradeAddItem(p) \/ TradeOk(p)
     \/ TradeCommitFirst(p) \/ TradeCommit(p)
  /\ UNCHANGED <<present, store, mailing, vends, bstores, mails, deposit, link, parties>>

LootNext(p) ==
  /\ GainItem(p) \/ LoseItem(p)
  /\ UNCHANGED <<present, store, mailing, trades, vends, bstores, mails, deposit, link, parties>>

VendingNext(p) ==
  /\ \/ OpenVending(p) \/ CloseVending(p) \/ VendingListReq(p) \/ PurchaseReq(p)
     \/ PutItemToCart(p) \/ GetItemFromCart(p)
  /\ UNCHANGED <<present, bstores, mails, deposit, link, parties>>

BuyingNext(p) ==
  /\ OpenStoreWindow(p) \/ OpenStore(p) \/ CloseStore(p) \/ StoreItemList(p) \/ Sell(p)
  /\ UNCHANGED <<present, mails, deposit, link, parties>>

MailNext ==
  /\ \/ \E p \in Players : \/ SetAppend(p) \/ MailWinOpen(p) \/ CheckMail(p)
                           \/ GetAppendReq(p) \/ DeleteReq(p)
     \/ MapReceivesMail \/ CharReceivesMail
  /\ UNCHANGED <<present, vends, bstores, deposit, parties>>

BankNext(p) ==
  /\ BankDeposit(p) \/ BankWithdraw(p)
  /\ UNCHANGED <<present, vends, bstores, mails, link, parties>>

PartyNext ==
  /\ \/ \E p \in Players : \/ PartyCreate(p) \/ PartyInvite(p) \/ ReplyInvite(p)
                           \/ PartyLeave(p) \/ ChangeLeader(p)
     \/ MapReceivesParty \/ CharReceivesParty
  /\ UNCHANGED <<present, goods, store, mailing, trades, vends, bstores, mails, deposit, linked>>

Next ==
  \/ \E p \in Players :
       \/ Depart(p) \/ Quit(p) \/ Autosave(p) \/ AuthReq(p) \/ LogIn(p) \/ Arrive(p)
       \/ TradeNext(p) \/ LootNext(p) \/ VendingNext(p) \/ BuyingNext(p) \/ BankNext(p)
  \/ MailNext \/ PartyNext \/ Auth \/ Saved \/ LinkBreaks \/ LinkReturns

Spec == Init /\ [][Next]_vars

-----------------------------------------------------------------------------
(* Invariants *)

StatusType == [inv : [Slots -> Cell], cart : [CartSlots -> Cell], zeny : 0..MaxZeny,
               party : {0} \cup Ids, taken : SUBSET (Players \X (1..MaxMails))]

\* Every variable of the exchange has its type.
TypeOK ==
  /\ TypeOKGoods /\ TypeOKTrade /\ TypeOKVending /\ TypeOKBuying
  /\ TypeOKMail /\ TypeOKBank /\ TypeOKParty
  /\ linked \in BOOLEAN
  /\ record \in [Players -> StatusType]
  /\ up \in Seq(MailMessage(MailOps) \cup PartyRequest \cup [op : {"auth"}, by : Players]
                 \cup [op : {"save"}, by : Players, status : StatusType])
  /\ down \in Seq(MailMessage(MailAnswers) \cup PartyAnswer
                   \cup [op : {"authok"}, by : Players, party : {0} \cup Ids])

\* A player's partner is trading with him and with nobody else (trade.c keeps
\* no record of a trade but the two partner fields), unless somebody with an
\* open invitation has invited a second player.
PartnersMutual ==
  crossed \/ \A p \in Players : Partner(p) # None =>
               Partner(p) # p /\ Partner(Partner(p)) = p

\* Nobody trades with a shop open (an invitation that is accepted late, a
\* shop that opens late), again without a second invitation.
NoDealInStore ==
  crossed \/ \A p \in Players : store[p] # "none" => ~deal[p].mode

\* What an open vending shop lists lies in its owner's cart, so that nobody
\* pays vending_purchasereq for goods that are not there.
ShopIsBacked ==
  \A p \in Players : store[p] = "vending" =>
    \A s \in DOMAIN vend[p].list : cart[p][s].amount >= vend[p].list[s].amount

\* A player without a session on the map has no shop, no trade and nothing
\* attached to a mail, whatever he was doing when he left.
GoneLeavesNothing ==
  \A p \in Players \ online :
    /\ store[p] = "none"
    /\ Detached(append[p], 0) = append[p] /\ p \notin mailing
    /\ crossed \/ (deal[p] = NoDeal /\ \A q \in Players : Partner(q) # p)

-----------------------------------------------------------------------------
(* Action properties *)

\* Goods, or mails on the way, are not where they were.
Moved == goods' # goods \/ <<up, down, box, taken, deposit>>' # <<up, down, box, taken, deposit>>

Offered(p, k) ==
  MapThenSumSet(LAMBDA i : LET e == deal[p].offer.items[i] IN
                  IF e.amount > 0 /\ inv[p][e.slot].kind = k THEN e.amount ELSE 0,
                DealSlots)

\* One slot is offered in several entries that exceed it together.
OverOffered(p) ==
  \E s \in Slots :
    MapThenSumSet(LAMBDA i : LET e == deal[p].offer.items[i] IN IF e.slot = s THEN e.amount ELSE 0,
                  DealSlots) > inv[p][s].amount

\* The step in which p's second confirmation, after q's, lets goods change
\* hands.
Exchanges(p, q) ==
  /\ Partner(p) = q /\ deal[q].locked = 2
  /\ deal'[p] = NoDeal
  /\ <<inv[p], inv[q], zeny[p], zeny[q]>> # <<inv[p], inv[q], zeny[p], zeny[q]>>'

\* Goods change hands only as both players saw them offered when they
\* confirmed: the first to confirm gets the offer he confirmed, and each bag
\* changes by exactly the two offers.  Excepted are a second invitation, goods
\* that came or went beside the trade, and a slot offered twice, which
\* trade_check does not always notice.
ExchangeAsAgreed ==
  [][ goods' # goods => \A p, q \in Players : Exchanges(p, q) /\ ~crossed =>
        /\ deal[q].seen = deal[p].offer
        /\ zeny'[p] - zeny[p] = deal[q].offer.zeny - deal[q].seen.zeny
        /\ \/ "loot" \in can[p] \cup can[q]
           \/ OverOffered(p) \/ OverOffered(q)
           \/ \A k \in Kinds : Count(inv'[p], k) - Count(inv[p], k) = Offered(q, k) - Offered(p, k)
    ]_vars

Bought_(v, s) == cart[v][s].amount - cart'[v][s].amount

\* A buyer pays what his window says for kinds his window shows, even when
\* the shop he looked at has been sold out, closed and opened again.
PurchaseAsShown ==
  [][ goods' # goods => \A p, v \in Players :
        store[p] = "none" /\ store[v] = "vending" /\ store'[v] = "vending" /\ zeny'[p] < zeny[p]
          /\ cart'[v] # cart[v] =>
        LET sold == {s \in CartSlots : Bought_(v, s) > 0} IN
          /\ shown[p].owner = v /\ sold \subseteq DOMAIN shown[p].list
          /\ \A s \in sold : cart[v][s].kind = shown[p].kinds[s]
          /\ zeny[p] - zeny'[p] =
               MapThenSumSet(LAMBDA s : Bought_(v, s) * shown[p].list[s].value, sold)
    ]_vars

\* A seller gets what his window says, even when the store he looked at has
\* been closed and opened again with other prices.
SaleAsShown ==
  [][ goods' # goods => \A p, o \in Players :
        p # o /\ store[o] = "buying" /\ bstore'[o] # bstore[o] /\ inv'[p] # inv[p]
          /\ store[p] = "none" =>
        /\ shown[p].owner = o
        /\ zeny'[p] - zeny[p] =
             MapThenSumSet(LAMBDA s : (inv[p][s].amount - inv'[p][s].amount)
                                        * shown[p].list[NameIn(inv[p], s)].value,
                           {s \in Slots : inv'[p][s] # inv[p][s]})
    ]_vars

\* What is in the mail: sent loads on the link, and what lies in a box or
\* comes out of one, each number once however many copies the link carries.
Sending == {i \in DOMAIN up : up[i].op = "send"}
Posted ==
  LET boxed  == UNION {{<<p, m.num, m.load>> : m \in Range(box[p])} : p \in Players}
      coming == {<<m.by, m.num, m.load>> : m \in {x \in Range(down) : x.op = "attachment"}}
  IN  {m \in boxed \cup coming : <<m[1], m[2]>> \notin taken}

Items(k) ==
  LET In(load) == IF load.kind = k THEN load.amount ELSE 0
  IN  MapThenSumSet(LAMBDA p : Count(inv[p], k) + Count(cart[p], k), Players)
      + MapThenSumSet(LAMBDA i : In(up[i].load), Sending)
      + MapThenSumSet(LAMBDA m : In(m[3]), Posted)

Money ==
  MapThenSumSet(LAMBDA p : zeny[p] + deposit[p], Players)
  + MapThenSumSet(LAMBDA i : up[i].load.zeny, Sending)
  + MapThenSumSet(LAMBDA m : m[3].zeny, Posted)

\* The step in which an attachment arrives.
Arrives == down # <<>> /\ Head(down).op = "attachment" /\ down' = Tail(down) /\ linked'
TakenAgain == Arrives /\ <<Head(down).by, Head(down).num>> \in taken

\* The link breaks: everybody is back at what was last stored of him.
Restored == linked /\ ~linked'

\* A mail with its load ends: its receiver deletes it, its box was full, or
\* its receiver cannot take what he asked for before he deleted it.
MailEnds ==
  \/ up # <<>> /\ up' = Tail(up) /\ Head(up).op = "delete"
  \/ up # <<>> /\ up' = Tail(up) /\ Head(up).op = "send" /\ Len(box[Head(up).to]) >= BoxSize
  \/ Arrives /\ \A m \in Range(box[Head(down).by]) : m.num # Head(down).num

\* p owned another kind of a nameid than the one that came: pc_checkadditem
\* answers that it joins a stack, pc_additem that it needs a slot, and now
\* there is none.
SlotMiscounted(p) ==
  /\ Blank(inv'[p]) = 0
  /\ \E j, k \in Kinds :
       /\ j # k /\ NameOf[j] = NameOf[k] /\ Held(inv[p], j) # {}
       /\ Count(inv'[p], k) > Count(inv[p], k) \/ Items(k)' < Items(k)

\* No exchange creates goods: not a trade in which one slot is offered twice,
\* not two buyers of one shop, not a sale in several entries.  Only an
\* attachment that is handed out a second time, and the rest of the game, add
\* any.
ItemsNotCreated ==
  [][ Moved =>
      \A k \in Kinds :
        Restored \/ TakenAgain \/ (\E p \in Players : GainItem(p)) \/ Items(k)' <= Items(k) ]_vars

\* No exchange loses goods, but in the ways named: a receiver who is restored
\* as he was before he took it, a mail that ends, an attachment too heavy for
\* its receiver, a receiver with a variant of what comes and too few slots, and
\* what the rest of the game takes.
ItemsNotLost ==
  [][ Moved =>
      \A k \in Kinds :
        \/ Items(k)' >= Items(k)
        \/ Restored \/ MailEnds
        \/ Arrives /\ Weight(inv[Head(down).by]) + Head(down).load.amount > MaxWeight
        \/ \E p \in Players : SlotMiscounted(p)
        \/ \E p \in Players : LoseItem(p) ]_vars

\* Zeny is neither made nor lost: a buyer's payment reaches the vender less
\* the tax, and but for players who are restored only two things pay out what
\* nobody paid, an attachment taken again and a store whose owner has mailed
\* away what he promised (buyingstore_sell does not look at what pc_payzeny
\* answers).
ZenyConserved ==
  [][ Moved =>
      /\ Money' > Money =>
           \/ Restored \/ TakenAgain
           \/ \E o \in Players : store[o] = "buying" /\ "mail" \in can[o] /\ zeny[o] < bstore[o].limit
      /\ Money' < Money =>
           \/ Restored \/ MailEnds
           \/ \E p, v \in Players :
                LET paid == zeny[p] - zeny'[p] IN
                vend'[v] # vend[v] /\ Money - Money' = paid - Taxed(paid)
    ]_vars

\* An attachment is handed out once to a player who waits for the answer
\* before he asks again, however often the link breaks: a "strip" that is lost
\* is on the link before the save with what was taken, which is lost too.
AttachmentTakenOnce ==
  [][ TakenAgain /\ <<inv, zeny>>' # <<inv, zeny>> => Head(down).by \in hasty ]_vars

=============================================================================
