SPECIFICATION Spec
CONSTANTS
  p1 = p1
  p2 = p2
  p3 = p3
  potion = potion
  herb = herb
  variant = variant
  None = None
  Players = {p1, p2, p3}
  Kinds = {potion, herb, variant}
  NameOf <- MCNameOf
  InvSize = 2
  CartSize = 2
  MaxAmount = 3
  MaxWeight = 4
  MaxZeny = 3
  MaxLoot = 2
  Abilities = {"trade", "loot", "warp", "quit", "vend", "shop", "buy", "bank", "mail", "link", "careless", "box", "party", "found", "lead"}
  Starts <- MCStarts
  MaxDeal = 2
  Prices = {1, 2}
  MaxShops = 2
  TaxRate = 50
  MaxWanted = 2
  BoxSize = 1
  MaxMails = 2
  LinkCap = 2
  PartySize = 2
  MaxParties = 2
INVARIANTS
  TypeOK
  PartnersMutual
  NoDealInStore
  ShopIsBacked
  GoneLeavesNothing
  OneParty
  KnowsParty
  CopiesAgree
  NoDangling
  RequestsEnd
PROPERTIES
  ExchangeAsAgreed
  PurchaseAsShown
  SaleAsShown
  ItemsNotCreated
  ItemsNotLost
  ZenyConserved
  AttachmentTakenOnce
CHECK_DEADLOCK FALSE
