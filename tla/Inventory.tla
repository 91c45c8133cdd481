----------------------------- MODULE Inventory ------------------------------
(***************************************************************************)
(* The API's inventory: the stock, sales and purchase handlers of one      *)
(* organization running concurrently over the same StockItem and           *)
(* StockMovement tables.                                                   *)
(***************************************************************************)
EXTENDS StockService, SalesService, PurchasesService

ASSUME RequestKinds ==
    /\ StockRequests \cap SaleRequests = {}
    /\ StockRequests \cap PurchaseRequests = {}
    /\ SaleRequests \cap PurchaseRequests = {}

vars == <<stock, ledger, tx, call, sale, saleCall, purchase, applied, purchaseCall>>

Init == DbInit /\ StockInit /\ SalesInit /\ PurchasesInit

Next ==
    \/ StockNext /\ UNCHANGED <<sale, saleCall, purchase, applied, purchaseCall>>
    \/ SalesNext /\ UNCHANGED <<call, purchase, applied, purchaseCall>>
    \/ PurchasesNext /\ UNCHANGED <<call, sale, saleCall>>

Spec == Init /\ [][Next]_vars

-----------------------------------------------------------------------------
(* The stock row whose lock the next statement of a multi-row transaction  *)
(* needs: a bulk add, a payment or a receipt.                              *)
Wants(r, x) ==
    \/ r \in StockRequests /\ At(r, "bulkWrite") /\ call[r].row = x
    \/ r \in SaleRequests /\ SaleAt(r, "payTx")
       /\ saleCall[r].k \in DOMAIN saleCall[r].lines /\ saleCall[r].lines[saleCall[r].k].row = x
    \/ r \in PurchaseRequests /\ PurchaseAt(r, "applyWrite") /\ purchaseCall[r].row = x

(* r cannot go on before the transaction of q ends.                        *)
WaitsFor(r, q) ==
    \/ q # r /\ \E x \in tx[q].own : Wants(r, x)
    \/ /\ {r, q} \subseteq PurchaseRequests /\ q # r
       /\ PurchaseAt(r, "applyInsert") /\ Applying(q, Subject(r))

(* PostgreSQL aborts one transaction of every cycle of waiting ones; its   *)
(* handler answers with an error.                                          *)
DeadlockVictim(r) ==
    /\ \E cycle \in SUBSET Requests :
          /\ r \in cycle
          /\ \A p \in cycle : (\E q \in cycle : WaitsFor(p, q)) /\ (\E q \in cycle : WaitsFor(q, p))
    /\ \/ r \in StockRequests /\ Abandon(r) /\ UNCHANGED <<sale, saleCall, purchase, applied, purchaseCall>>
       \/ r \in SaleRequests /\ AbandonSaleCall(r) /\ UNCHANGED <<call, purchase, applied, purchaseCall>>
       \/ r \in PurchaseRequests /\ AbandonPurchaseCall(r) /\ UNCHANGED <<call, sale, saleCall>>

-----------------------------------------------------------------------------
(* The inductive invariant: each service keeps its own part and, through   *)
(* it, the shared one.                                                     *)
InventoryInv == StockInv /\ SalesInv /\ PurchasesInv

(* Bulk adds, payments and receipts lock the same rows in different orders *)
(* and make each other wait, fail to serialize or deadlock.  Whenever one  *)
(* of them holds a row, somebody's movements are committed in the end:     *)
(* the losers leave the way free.                                          *)
SomebodyCommits ==
    (\E r \in Requests : tx[r].own # {}) ~> (\E x \in Rows : Len(ledger[x]) > Len(InitialLedger(x)))
=============================================================================
