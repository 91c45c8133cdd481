SPECIFICATION MCSpec
CONSTANTS
    i1 = i1
    i2 = i2
    m1 = m1
    m2 = m2
    Requests = {s1, s2}
    StockRequests = {s1, s2}
    Rows = {1, 2}
    Items = {i1}
    NoItem = NoItem
    LegacyItem = LegacyItem
    Imeis = {m1}
    NoImei = NoImei
    Skus = {}
    NoSku = NoSku
    Sales = {}
    Purchases = {}
    NoDoc = NoDoc
    MaxQty = 3
    NoRow = NoRow
    Seed <- PhoneAndBatch
    Quantities = {1}
    Changes <- MCChanges
    Edits <- NoEdits
    BulkOrders <- OneOfEach
    Keep = Keep
INVARIANTS
    LedgerContinuous
