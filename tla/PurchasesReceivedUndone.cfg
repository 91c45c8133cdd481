SPECIFICATION MCSpec
CONSTANTS
    a = a
    b = b
    c = c
    p = p
    q = q
    i1 = i1
    i2 = i2
    m1 = m1
    m2 = m2
    k1 = k1
    k2 = k2
    Requests = {u1, u2}
    StockRequests = {}
    SaleRequests = {}
    PurchaseRequests = {u1, u2}
    Rows = {1, 2, 3, 4, 5}
    Items = {i1}
    NoItem = NoItem
    LegacyItem = i1
    Imeis = {m1}
    NoImei = NoImei
    Skus = {k1, k2}
    NoSku = NoSku
    Sales = {a, b}
    Purchases = {p, q}
    NoDoc = NoDoc
    NoRow = NoRow
    MaxQty = 4
    Seed <- ScarceSeed
    Quantities = {1}
    Changes <- OneUpOrDown
    Edits <- StatusEdits
    BulkOrders <- OneOfEach
    Keep = Keep
    Carts <- MixedCarts
    Discounts = {1}
    SeedSales <- DraftAndFree
    Orders <- SmallOrders
    SeedPurchases <- WaitingAndFree
    Mixes = {{u1, u2}}
PROPERTIES
    ReceivedIsFinal
