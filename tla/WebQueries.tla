----------------------------- MODULE WebQueries -----------------------------
(***************************************************************************)
(* What the browser keeps of the server's data, and which of it each write *)
(* makes it ask for again: the hooks of lib/api/hooks, one definition per  *)
(* file.  A query is named by the first part of its key, which is what all *)
(* invalidations give (a key covers the keys it is a prefix of), and is    *)
(* given by the tables its endpoint reads; a write is given by the tables  *)
(* its endpoint changes and the queries its hook invalidates on success.   *)
(* No key but that of the profile names the organization, and none names   *)
(* the user.  Endpoints the API does not have change and show nothing.     *)
(***************************************************************************)
EXTENDS TLC

Reads(tables) == [shows |-> tables]
Write(tables, keys) == [changes |-> tables, refreshes |-> keys]

AuditLogs == "audit-logs" :> Reads({"audit"})
AuditLogsStats == "audit-logs-stats" :> Reads({"audit"})
ConnectedAccounts == "connected-accounts" :> Reads({"account"})
Health == "health" :> Reads({})
JobMetrics == "job-metrics" :> Reads({"job"})
Integrations == "integrations-status" :> Reads({"account"}) @@ "integrations-audit" :> Reads({})
RunIntegrationTest == "runIntegrationTest" :> Write({}, {"integrations-status", "integrations-audit"})

OrgSettings == "org-settings" :> Reads({"settings"})
UpdateOrgSettings == "updateOrgSettings" :> Write({"settings"}, {"org-settings"})
OrgUsers == "orgUsers" :> Reads({"membership"})
Me == "me" :> Reads({"membership"})
Organizations == "organizations" :> Reads({"membership"})

Sellers ==
    "sellers" :> Reads({"membership", "invitation"}) @@ "sellers-stats" :> Reads({"membership", "sale", "commission"})
      @@ "seller-overview" :> Reads({"sale", "commission", "customer"}) @@ "seller-invoices" :> Reads({"sale", "customer"})
      @@ "seller-commission" :> Reads({"commission"})
SellerWrites ==
    "inviteSeller" :> Write({"invitation"}, {"sellers"}) @@ "createSeller" :> Write({"membership", "commission"}, {"sellers", "sellers-stats"})
      @@ "updateSellerCommission" :> Write({"commission"}, {"seller-commission", "seller-overview", "sellers-stats"})

Customers == "customers" :> Reads({"customer"}) @@ "customer" :> Reads({"customer"}) @@ "customer-invoices" :> Reads({"sale", "customer"})
CustomerWrites == "createCustomer" :> Write({"customer"}, {"customers"}) @@ "updateCustomer" :> Write({"customer"}, {"customers"})

Vendors == "vendors" :> Reads({"vendor"})
VendorWrites == "createVendor" :> Write({"vendor"}, {"vendors"}) @@ "updateVendor" :> Write({"vendor"}, {"vendors"})

LedgerAccounts == "ledger-accounts" :> Reads({"ledgerAccount"})
CreateLedgerAccount == "createLedgerAccount" :> Write({"ledgerAccount"}, {"ledger-accounts"})

Sales == "sales" :> Reads({"sale", "customer"})
SaleDetail == "sale" :> Reads({"sale", "customer"})
SaleWrites == "createSale" :> Write({"sale", "stock", "movement"}, {"sales"}) @@ "updateSale" :> Write({"sale"}, {"sale", "sales"})

Purchases == "purchases" :> Reads({"purchase", "vendor"})
PurchaseDetail == "purchase" :> Reads({"purchase", "vendor"})
PurchaseStockImpact == "purchase" :> Reads({"purchase", "vendor", "movement"})
PurchaseWrites ==
    "createPurchase" :> Write({"purchase"}, {"purchases"}) @@ "updatePurchase" :> Write({"purchase"}, {"purchases", "purchase"})
      @@ "transitionPurchase" :> Write({"purchase", "stock", "movement"}, {"purchases", "purchase"})

ItemQueries == "items" :> Reads({"item"})
ItemSearch == "items" :> Reads({"item"})
ItemWrites == [m \in {"createItem", "updateItem", "deleteItem"} |-> Write({"item"}, {"items"})]
ItemFolders ==
    "item-folders" :> Reads({"folder", "item"})
FolderWrites == [m \in {"createFolder", "deleteFolder"} |-> Write({"folder"}, {"item-folders"})]

PriceLists == "price-lists" :> Reads({"priceList"})
PriceListWrites ==
    [m \in {"createPriceList", "updatePriceListItem", "bulkUpdatePriceListItems", "deletePriceList"} |->
        Write({"priceList"}, {"price-lists"})]

StockItems == "stock-items" :> Reads({"stock", "item"})
StockItemsInfinite == "stock-items-infinite" :> Reads({"stock", "item"})
StockItemDetail == "stock-item" :> Reads({"stock", "item"})
StockSummary == "stock-summary" :> Reads({"stock", "item"})
StockMovementsGlobal == "stock-movements-global" :> Reads({"movement", "item"})
StockEntryDetails == "stock-entry-details" :> Reads({"movement", "stock"})
SellerStockView == "seller-stock-view" :> Reads({"stock", "priceList"})
StockMovements == "stock-movements" :> Reads({"movement"})
AdjustStock == "adjustStock" :> Write({"stock", "movement"}, {"stock-item", "stock-movements", "stock-items"})

StockViews == {"stock-items", "stock-items-infinite", "stock-summary", "stock-movements-global", "items"}

CreateStockEntry == "createStockEntry" :> Write({"stock", "movement"}, StockViews)
BulkAddStock == "bulkAddStock" :> Write({"stock", "movement"}, StockViews)

(* The API serves neither reservations nor leads.                          *)
StockReservations == "stock-reservations" :> Reads({})
ReservationWrites ==
    [m \in {"createReservation", "releaseReservation"} |->
        Write({}, {"stock-reservations", "stock-summary", "stock-movements-global", "stock-items"})]
      @@ "extendReservation" :> Write({}, {"stock-reservations"})
Leads == "leads" :> Reads({})
LeadDetail == "lead" :> Reads({})
LeadWrites == "createLead" :> Write({}, {"leads"}) @@ "updateLead" :> Write({}, {"lead", "leads"})
LeadNotes == "lead-notes" :> Reads({})
CreateNote == "createNote" :> Write({}, {"lead-notes", "lead"})
LeadTasks == "lead-tasks" :> Reads({})
TaskWrites == "createTask" :> Write({}, {"lead-tasks", "lead"}) @@ "updateTask" :> Write({}, {"lead-tasks"})

Dashboards == [k \in {"dashboard-overview", "dashboard-sales"} |-> Reads({"sale", "customer"})] @@ "dashboard-stock" :> Reads({"stock", "item"})

-----------------------------------------------------------------------------
AllQueries ==
    AuditLogs @@ AuditLogsStats @@ ConnectedAccounts @@ Health @@ JobMetrics @@ Integrations @@ OrgSettings @@ OrgUsers @@ Me
      @@ Organizations @@ Sellers @@ Customers @@ Vendors @@ LedgerAccounts @@ Sales @@ SaleDetail @@ PurchaseStockImpact
      @@ PurchaseDetail @@ Purchases @@ ItemQueries @@ ItemSearch @@ ItemFolders @@ PriceLists @@ StockItems @@ StockItemsInfinite
      @@ StockItemDetail @@ StockSummary @@ StockMovementsGlobal @@ StockEntryDetails @@ SellerStockView @@ StockMovements
      @@ StockReservations @@ Leads @@ LeadDetail @@ LeadNotes @@ LeadTasks @@ Dashboards

AllWrites ==
    RunIntegrationTest @@ UpdateOrgSettings @@ SellerWrites @@ CustomerWrites @@ VendorWrites @@ CreateLedgerAccount @@ SaleWrites
      @@ PurchaseWrites @@ ItemWrites @@ FolderWrites @@ PriceListWrites @@ AdjustStock @@ CreateStockEntry @@ BulkAddStock
      @@ ReservationWrites @@ LeadWrites @@ CreateNote @@ TaskWrites

(* What a write changes and the screen goes on showing as it was: for a    *)
(* reader of the hooks; no property holds of it.                           *)
Overlooked ==
    {o \in (DOMAIN AllWrites) \X (DOMAIN AllQueries) :
        AllWrites[o[1]].changes \cap AllQueries[o[2]].shows # {} /\ o[2] \notin AllWrites[o[1]].refreshes}
=============================================================================
