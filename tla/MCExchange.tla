----------------------------- MODULE MCExchange -----------------------------
(***************************************************************************)
(* Scenes in which two or three players exchange goods.                    *)
(***************************************************************************)
EXTENDS Exchange, TLC

CONSTANTS p1, p2, p3, potion, herb, variant

MCNameOf == (potion :> 1 @@ herb :> 2 @@ variant :> 1)

Of(k, n) == [kind |-> k, amount |-> n]
Bag(a, b) == <<a, b>>
NoGoods   == Bag(Vacant, Vacant)

\* A scene: what each player may do, carries, has in his cart and in zeny.
Scene(c1, c2, c3, i1, i2, i3, g1, z) ==
  [can  |-> (p1 :> c1 @@ p2 :> c2 @@ p3 :> c3),
   inv  |-> (p1 :> i1 @@ p2 :> i2 @@ p3 :> i3),
   cart |-> (p1 :> g1 @@ p2 :> NoGoods @@ p3 :> NoGoods),
   zeny |-> (p1 :> z[1] @@ p2 :> z[2] @@ p3 :> z[3])]

\* three players trade, one of them leaves
Barter ==
  Scene({"trade"}, {"trade", "warp", "quit"}, {"trade"},
        Bag(Of(potion, 1), Vacant), Bag(Of(herb, 1), Vacant), NoGoods, NoGoods, <<1, 0, 0>>)

\* one of three invites whom he likes, and refuses with goods on offer
Reckless ==
  Scene({"trade", "careless"}, {"trade"}, {"trade"},
        Bag(Of(potion, 1), Vacant), NoGoods, NoGoods, NoGoods, <<0, 0, 0>>)

\* two trade while one of them finds and loses things
Finder ==
  Scene({"trade", "loot"}, {"trade"}, {},
        Bag(Of(potion, 1), Vacant), NoGoods, NoGoods, NoGoods, <<0, 0, 0>>)

\* two trade, one with a full bag, offering slots twice
FullBags ==
  Scene({"trade"}, {"trade"}, {},
        Bag(Of(potion, 1), Of(herb, 1)), Bag(Of(variant, 1), Vacant), NoGoods, NoGoods, <<0, 0, 0>>)

\* a shop whose owner leaves, and a customer with a single free slot
Shop ==
  Scene({"vend", "warp", "quit"}, {"shop"}, {},
        NoGoods, Bag(Of(herb, 1), Vacant), NoGoods,
        Bag(Of(potion, 1), Of(variant, 1)), <<0, 2, 2>>)

\* a shop that two customers want to empty
Stall ==
  Scene({"vend"}, {"shop"}, {"shop"},
        NoGoods, Bag(Of(variant, 1), Of(herb, 1)), NoGoods, Bag(Of(potion, 2), Vacant), <<0, 2, 2>>)

\* a player with a cart who is asked to trade
Hawker ==
  Scene({"vend", "trade"}, {"trade"}, {},
        NoGoods, Bag(Of(herb, 1), Vacant), NoGoods, Bag(Of(potion, 1), Vacant), <<0, 0, 0>>)

\* a store that buys, two sellers
Store ==
  Scene({"buy", "bank"}, {"shop"}, {"shop"},
        Bag(Of(potion, 1), Vacant), Bag(Of(potion, 1), Vacant), Bag(Of(variant, 1), Vacant),
        NoGoods, <<3, 0, 0>>)

\* a store whose owner mails his zeny
Mailer ==
  Scene({"buy", "mail"}, {"shop"}, {},
        Bag(Of(potion, 1), Vacant), Bag(Of(potion, 1), Vacant), NoGoods, NoGoods, <<1, 0, 0>>)

\* mail between players who quit
Sender ==
  Scene({"mail", "quit"}, {"quit"}, {},
        Bag(Of(potion, 1), Vacant), NoGoods, NoGoods, NoGoods, <<0, 0, 0>>)

\* mail to a player who quits, on a link that breaks
Post ==
  Scene({"mail", "link"}, {"box", "quit"}, {},
        Bag(Of(potion, 1), Vacant), Bag(Of(potion, 1), Vacant), NoGoods, NoGoods, <<0, 0, 0>>)

\* parties, and what the players can do about them
Band(c1, c2, c3) == Scene(c1, c2, c3, NoGoods, NoGoods, NoGoods, NoGoods, <<0, 0, 0>>)

\* two players who found and invite
Founders == Band({"party", "found"}, {"party", "found"}, {})

\* a founder who leaves the game, at any time
Fickle == Band({"party", "found", "warp", "quit"}, {"found"}, {})

\* a party whose member leaves the game, or the map
Guests == Band({"party", "found"}, {"party", "warp", "quit"}, {})

\* three for the two seats of a party
Crowd == Band({"party", "found", "lead"}, {"party"}, {"party"})

\* a party while the link breaks
Severed == Band({"party", "found", "link"}, {"party"}, {})

MCStarts == {Barter, Reckless, Finder, FullBags, Shop, Stall, Hawker, Store, Mailer, Sender, Post,
             Founders, Fickle, Guests, Crowd, Severed}

=============================================================================
