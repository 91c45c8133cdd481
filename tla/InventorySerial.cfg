SPECIFICATION MCSerialSpec
CONSTANTS
    a = a
    b = b
    c = c
    p = p
    q = q
    i1 = i1
    i2 = i2
    m1 = m1
    m2 = m2
    k1 = k1
    k2 = k2
    Requests = {s1, s2, s3, a1, a2, a3, a4, u1, u2, u3}
    StockRequests = {s1, s2, s3}
    SaleRequests = {a1, a2, a3, a4}
    PurchaseRequests = {u1, u2, u3}
    Rows = {1, 2, 3, 4, 5}
    Items = {i1}
    NoItem = NoItem
    LegacyItem = i1
    Imeis = {m1}
    NoImei = NoImei
    Skus = {k1, k2}
    NoSku = NoSku
    Sales = {a, b}
    Purchases = {p, q}
    NoDoc = NoDoc
    NoRow = NoRow
    MaxQty = 4
    Seed <- ScarceSeed
    Quantities = {1}
    Changes <- OneUpOrDown
    Edits <- StatusEdits
    BulkOrders <- OneOfEach
    Keep = Keep
    Carts <- MixedCarts
    Discounts = {1}
    SeedSales <- DraftAndFree
    Orders <- SmallOrders
    SeedPurchases <- WaitingAndFree
    Mixes = {{s1, s2, s3}, {a1, a2, a3, a4}, {u1, u2, u3}, {s1, a1, u1}, {s1, s2, a1, u1}, {s1, a1, a2, u1}}
INVARIANTS
    LedgerContinuous
    PaidOnce
    NeverOversold
    TotalMatchesLines
    StockMatchesLines
PROPERTIES
    DeletedIsFrozen
    FollowsLifecycle
    ReceivedIsFinal
