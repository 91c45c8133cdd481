\* The parts of the back office, in calm weather and under every fault.
SPECIFICATION MCSpec
CONSTANTS
    e1 = e1  e2 = e2  o1 = o1  o2 = o2  t1 = t1  t2 = t2  A = A  B = B  g1 = g1
    prodA = prodA  prodB = prodB  groupA = groupA  u1 = u1  u2 = u2  f1 = f1  f2 = f2
    MaxAccounts = 4  MaxCatalogue = 3  MaxPricing = 4  MaxTouches = 3  MaxClicksOnLists = 3  binder = binder
    \* Accounts
    Emails = {e1, e2}
    Orgs = {o1, o2}
    Seeded = {o1}
    Invites = {i1, i2}
    Sessions = {s1, s2}
    NoEmail = NoEmail
    NoOrg = NoOrg
    NoInvite = NoInvite
    AutoPromoted = e1
    OwnerEmail = e2
    OwnerOrg = o2
    DevEmail = e2
    DevOrg = o2
    GivenRoles = {"ADMIN", "SELLER"}
    \* Catalogue
    Folders = {d1, d2}
    Items = {j1, j2, j3, j4}
    Lists = {l1}
    NoFolder = NoFolder
    NoItem = NoItem
    NoList = NoList
    FolderNames = {"IPHONE", "other"}
    DefaultName = "IPHONE"
    ListNames = {"retail"}
    Products = {prodA, prodB}
    Batches <- MCBatches
    GroupOf <- MCGroupOf
    Prices = {1}
    NoPrice = NoPrice
    Clerks = {k1, k2}
    \* Pricing
    Rules = {r1, r2}
    RuleData <- MCRuleData
    Things = {t1, t2}
    Fields = {"model", "color"}
    ThingData <- MCThingData
    NoThing = NoThing
    NoRule = NoRule
    Carts <- MCCarts
    NoBase = NoBase
    Desks = {desk1}
    Quoters = {q1}
    \* SaleNumbers
    Shops = {shop1, shop2}
    Tills = {till1, till2}
    Base = 2
    Width = 2
    NaN = NaN
    Text = Text
    Brought = {2, Text}
    MaxSales = 5
    \* StockForm
    Goods = {g1}
    NoGoods = NoGoods
    Imeis = {m1, m2}
    Finds <- MCFinds
    Texts <- MCTexts
    Amounts = {0, 1}
    MaxRows = 5
    MaxClicks = 8
    \* WebSession
    People = {u1, u2}
    Nobody = Nobody
    Firms = {f1, f2}
    NoFirm = NoFirm
    Screens = {"stock-items", "stock-summary"}
    Forms = {"adjustStock"}
    MaxSent = 5
    \* Migrations
    RescueMode = TRUE
    MaxStarts = 2
    \* ListPages
    RowKinds <- MCRowKinds
    FirstRows = 3
    MaxRowId = 4
    OpenableFolders = {binder}
    AllFolders = AllFolders
    NoAnswer = NoAnswer
INVARIANTS BackOfficeTypeOK FoundedHaveNoAdmins SomebodyAdministers InvitationsConsistent ItemsKeepFolder CatalogueOnce QuoteConsistent NumbersRunOn StockFormFaithful ScreenIsCurrent WritesLandWhereMeant SchemaKept NothingHidden
CHECK_DEADLOCK FALSE
