SPECIFICATION MCSpec
CONSTANTS
    a = a
    b = b
    i1 = i1
    m1 = m1
    Requests = {r1, r2}
    SaleRequests = {r1, r2}
    Rows = {1, 2}
    Items = {i1}
    NoItem = NoItem
    LegacyItem = LegacyItem
    Imeis = {m1}
    NoImei = NoImei
    Skus = {}
    NoSku = NoSku
    Sales = {a, b}
    Purchases = {}
    NoDoc = NoDoc
    NoRow = NoRow
    MaxQty = 2
    Seed <- SaleSeed
    Carts <- PhoneCarts
    Discounts = {1}
    SeedSales <- MixedSales
INVARIANTS
    PaidOnce
