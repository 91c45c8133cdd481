SPECIFICATION ContentionSpec
CONSTANTS
    a = a
    b = b
    c = c
    p = p
    q = q
    i1 = i1
    i2 = i2
    m1 = m1
    m2 = m2
    k1 = k1
    k2 = k2
    Requests = {s1, a1, a2, u1, u2}
    StockRequests = {s1}
    SaleRequests = {a1, a2}
    PurchaseRequests = {u1, u2}
    Rows = {1, 2}
    Items = {i1, i2}
    NoItem = NoItem
    LegacyItem = i1
    Imeis = {}
    NoImei = NoImei
    Skus = {k1, k2}
    NoSku = NoSku
    Sales = {a, b}
    Purchases = {p, q}
    NoDoc = NoDoc
    NoRow = NoRow
    MaxQty = 4
    Seed <- SharedSeed
    Quantities = {1}
    Changes = {}
    Edits <- NoEdits
    BulkOrders <- OneOfEach
    Keep = Keep
    Carts = {}
    Discounts = {1}
    SeedSales <- CrossedSales
    Orders = {}
    SeedPurchases <- BothWaiting
    Mixes = {{s1, a1, u1}, {a1, a2, u1}, {s1, u1, u2}, {s1, a1, a2}}
PROPERTIES
    SomebodyCommits
