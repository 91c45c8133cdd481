---------------------------- MODULE MCInventory -----------------------------
(* Instances of Inventory for TLC: small tables, a few calls, and the      *)
(* ways to run them: as they come, one at a time, or for the same rows.    *)
EXTENDS Serial, TLC

CONSTANTS a, b, c, p, q, i1, i2, m1, m2, k1, k2,
    Mixes   \* the sets of requests of which one arrives in each behaviour

-----------------------------------------------------------------------------
(* Tables to start from.                                                   *)
Row(state, qty, imei, sku, item) ==
    [state |-> state, qty |-> qty, status |-> "AVAILABLE", imei |-> imei, sku |-> sku, item |-> item]

(* A batch, a phone and, soft-deleted, a second batch of the first one's   *)
(* sku.                                                                    *)
MixedSeed ==
    [x \in Rows |-> CASE x = 1 -> Row("active", 1, NoImei, k1, i1)
                      [] x = 2 -> Row("active", 1, m1, NoSku, i1)
                      [] x = 3 -> Row("deleted", 1, NoImei, k1, i1)
                      [] OTHER -> Missing]

(* The phone deleted, and batches of two catalogue items.                  *)
PhoneDeletedSeed ==
    [x \in Rows |-> CASE x = 1 -> Row("deleted", 1, m1, NoSku, i1)
                      [] x = 2 -> Row("active", 1, NoImei, NoSku, i1)
                      [] x = 3 -> Row("active", 1, NoImei, NoSku, i2)
                      [] OTHER -> Missing]

(* One unit of everything, nothing deleted.                                *)
ScarceSeed ==
    [x \in Rows |-> CASE x = 1 -> Row("active", 1, NoImei, k1, i1)
                      [] x = 2 -> Row("active", 1, m1, NoSku, i1)
                      [] OTHER -> Missing]

(* Two batches that every service reaches.                                 *)
SharedSeed ==
    [x \in Rows |-> CASE x = 1 -> Row("active", 2, NoImei, k1, i1)
                      [] x = 2 -> Row("active", 2, NoImei, k2, i2)
                      [] OTHER -> Missing]

Of(x, n) == [row |-> x, qty |-> n]
Unit(sku) == [sku |-> sku, qty |-> 1]

DraftSale(cart) == [NoSale EXCEPT !.status = "DRAFT", !.lines = cart]
Seeded(status, order) ==
    [NoPurchase EXCEPT !.status = status, !.lines = Inserted(NoDoc, order), !.total = Total(Inserted(NoDoc, order))]

(* Sales of the same rows in either order; one line takes no stock.        *)
CrossedSales ==
    [s \in Sales |-> DraftSale(IF s = a THEN <<Of(1, 1), Of(2, 1)>> ELSE <<Of(2, 1), Of(NoRow, 1), Of(1, 1)>>)]
DraftAndFree == [s \in Sales |-> IF s = a THEN DraftSale(<<Of(1, 1)>>) ELSE NoSale]
CrossedAndFree == [CrossedSales EXCEPT ![c] = NoSale]

(* A purchase waiting to be received, and a draft, a free id or another.   *)
WaitingAndDraft ==
    [x \in Purchases |-> IF x = p THEN Seeded("APPROVED", <<Unit(k1), Unit(k2)>>)
                                  ELSE Seeded("DRAFT", <<Unit(k1)>>)]
WaitingAndFree == [WaitingAndDraft EXCEPT ![q] = NoPurchase]
BothWaiting == [x \in Purchases |-> Seeded("APPROVED", <<Unit(k1), Unit(k2)>>)]

-----------------------------------------------------------------------------
(* What clients send.                                                      *)
ImeiEdits == {[NoEdit EXCEPT !.imei = m1], [NoEdit EXCEPT !.imei = m2]}
StatusEdits == {NoEdit, [NoEdit EXCEPT !.status = "SOLD"], [NoEdit EXCEPT !.status = "AVAILABLE"]}
AllEdits == StatusEdits \cup ImeiEdits
NoEdits == {NoEdit}
OneUpOrDown == {-1, 1}
OneOfEach == {[i \in Items |-> 1]}
PhoneCarts == {<<Of(NoRow, 1), Of(2, 1)>>}
MixedCarts == {<<Of(1, 1), Of(2, 1)>>}
SmallOrders == {<<Unit(k1)>>, <<Unit(k2), Unit(k1)>>}

-----------------------------------------------------------------------------
(* The calls that arrive are one of Mixes; a request that never comes is   *)
(* "done" from the start.                                                  *)
Arrives(mix) ==
    /\ purchase = SeedPurchases /\ applied = {}
    /\ call = [r \in StockRequests |-> IF r \in mix THEN NewCall ELSE [NewCall EXCEPT !.pc = "done"]]
    /\ saleCall = [r \in SaleRequests |-> IF r \in mix THEN NewSaleCall ELSE [NewSaleCall EXCEPT !.pc = "done"]]
    /\ purchaseCall =
          [r \in PurchaseRequests |-> IF r \in mix THEN NewPurchaseCall ELSE [NewPurchaseCall EXCEPT !.pc = "done"]]

MCInit == \E mix \in Mixes : Arrives(mix) /\ DbInit /\ sale = SeedSales

(* Requests of stock alone, or of sales alone, meet tables of their own.   *)
Holds(table) ==
    /\ stock = table
    /\ ledger = [x \in Rows |-> IF table[x].state = "absent" THEN <<>> ELSE <<Movement("IN", 0, table[x].qty, NoDoc)>>]
    /\ tx = [r \in Requests |-> NoTransaction]

ConcurrentInit ==
    \E mix \in Mixes :
        /\ Arrives(mix)
        /\ \/ mix \subseteq StockRequests /\ Holds(PhoneDeletedSeed) /\ sale = SeedSales
           \/ mix \subseteq SaleRequests /\ Holds([ScarceSeed EXCEPT ![1].qty = 2]) /\ sale = CrossedAndFree
           \/ ~(mix \subseteq StockRequests \/ mix \subseteq SaleRequests) /\ DbInit /\ sale = SeedSales

Answered(r) ==
    \/ r \in StockRequests /\ call[r].pc = "done"
    \/ r \in SaleRequests /\ saleCall[r].pc = "done"
    \/ r \in PurchaseRequests /\ purchaseCall[r].pc = "done"

(* Every request has been answered: the server waits for the next one.     *)
Idle == (\A r \in Requests : Answered(r)) /\ UNCHANGED vars

(* The calls interleave freely.                                            *)
MCSpec == MCInit /\ [][Next \/ Idle]_vars
ConcurrentSpec == ConcurrentInit /\ [][Next \/ Idle]_vars

(* Stock calls are all alike.                                              *)
Requesters == Permutations(StockRequests)

(* One call at a time: the next starts when the previous has ended.        *)
MCSerialSpec == MCInit /\ [][SerialNext \/ Idle]_vars

(* Bulk adds, payments and receipts in a process that does not crash and   *)
(* whose audit rows are written: it keeps running its handlers, and        *)
(* PostgreSQL keeps resolving deadlocks.                                   *)
AuditWorks(r) == call'[r].failed /\ ~call[r].failed => tx' = tx

Resume(r) ==
    \/ r \in StockRequests /\ Continue(r) /\ AuditWorks(r) /\ UNCHANGED <<sale, saleCall, purchase, applied, purchaseCall>>
    \/ r \in SaleRequests /\ ContinueSale(r) /\ UNCHANGED <<call, purchase, applied, purchaseCall>>
    \/ r \in PurchaseRequests /\ ContinuePurchase(r) /\ UNCHANGED <<call, sale, saleCall>>

ContentionNext ==
    \/ \E r \in StockRequests : BulkStart(r) /\ UNCHANGED <<sale, saleCall, purchase, applied, purchaseCall>>
    \/ \E r \in SaleRequests : PayRead(r) /\ UNCHANGED <<call, purchase, applied, purchaseCall>>
    \/ \E r \in PurchaseRequests : TransitionRead(r) /\ UNCHANGED <<call, sale, saleCall>>
    \/ \E r \in Requests : Resume(r) \/ DeadlockVictim(r)
    \/ Idle

ContentionSpec ==
    /\ MCInit /\ [][ContentionNext]_vars
    /\ \A r \in Requests : WF_vars(Resume(r))
    /\ WF_vars(\E r \in Requests : DeadlockVictim(r))
=============================================================================
