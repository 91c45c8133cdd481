SPECIFICATION ConcurrentSpec
CONSTANTS
    a = a
    b = b
    c = c
    p = p
    q = q
    i1 = i1
    i2 = i2
    m1 = m1
    m2 = m2
    k1 = k1
    k2 = k2
    Requests = {s1, s2, s3, a1, a2, a3, u1, u2, u3}
    StockRequests = {s1, s2, s3}
    SaleRequests = {a1, a2, a3}
    PurchaseRequests = {u1, u2, u3}
    Rows = {1, 2, 3, 4, 5, 6, 7}
    Items = {i1, i2}
    NoItem = NoItem
    LegacyItem = i1
    Imeis = {m1, m2}
    NoImei = NoImei
    Skus = {k1, k2}
    NoSku = NoSku
    Sales = {a, b, c}
    Purchases = {p, q}
    NoDoc = NoDoc
    NoRow = NoRow
    MaxQty = 2
    Seed <- MixedSeed
    Quantities = {1}
    Changes <- OneUpOrDown
    Edits <- AllEdits
    BulkOrders <- OneOfEach
    Keep = Keep
    Carts <- PhoneCarts
    Discounts = {1}
    SeedSales <- DraftAndFree
    Orders <- SmallOrders
    SeedPurchases <- WaitingAndDraft
    Mixes = {{s1, s2, s3}, {a1, a2, a3}, {u1, u2, u3}, {s1, a1, u1}, {a1, u1, u2}}
SYMMETRY Requesters
INVARIANTS
    StockTypeOK
    InventoryInv
    QuantityIsLastMovement
    ImeiUnique
    PaidIffTaken
    StampsInOrder
    ReceivedIsInStock
PROPERTIES
    BulkAddsAllOrNothing
    AppliedOnce
