--------------------------- MODULE InventoryProofs --------------------------
(***************************************************************************)
(* The three services together.  A step of one service changes its own     *)
(* variables and the shared tables; the invariants of the others mention   *)
(* the shared tables only through DbInv, which every step preserves.       *)
(*                                                                         *)
(* The second part is about calls that run one at a time, whatever the     *)
(* tables, the carts and the moments at which calls are abandoned: the     *)
(* properties of the serial run, each from the invariant SerialInv.        *)
(***************************************************************************)
EXTENDS Serial, StockProofs, TradeProofs

(* What a step of another service leaves alone.                            *)
LEMMA StockFrame == StockInv /\ DbInv' /\ UNCHANGED call => StockInv'
  BY DEF StockInv, StockTypeOK, DbInv

(* A step of another service leaves sales and their handlers as they are.  *)
LEMMA SalesFrame == SalesInv /\ DbInv' /\ UNCHANGED <<sale, saleCall>> => SalesInv'
  BY DEF SalesInv, SalesTypeOK, DbInv

(* The same for purchases.                                                 *)
LEMMA PurchasesFrame ==
    PurchasesInv /\ DbInv' /\ UNCHANGED <<purchase, applied, purchaseCall>> => PurchasesInv'
  BY DEF PurchasesInv

(* The invariant of the composition holds at the start                     *)
LEMMA InventoryInvInit == Init => InventoryInv
  BY StockInvInit, SalesInvInit, PurchasesInvInit DEF Init, InventoryInv

(* and every step of every service preserves it.                           *)
LEMMA InventoryInvNext == InventoryInv /\ [Next]_vars => InventoryInv'
  <1> SUFFICES ASSUME InventoryInv, [Next]_vars PROVE InventoryInv'
    OBVIOUS
  <1> USE DEF InventoryInv
  <1>1. CASE StockNext /\ UNCHANGED <<sale, saleCall, purchase, applied, purchaseCall>>
    <2>1. StockInv' /\ DbInv'
      BY <1>1, StockInvStep DEF StockNext, StockInv
    <2> QED
      BY <1>1, <2>1, SalesFrame, PurchasesFrame
  <1>2. CASE SalesNext /\ UNCHANGED <<call, purchase, applied, purchaseCall>>
    <2>1. SalesInv' /\ DbInv'
      BY <1>2, SalesInvStep DEF SalesNext, SalesInv
    <2> QED
      BY <1>2, <2>1, StockFrame, PurchasesFrame
  <1>3. CASE PurchasesNext /\ UNCHANGED <<call, sale, saleCall>>
    <2>1. PurchasesInv' /\ DbInv'
      BY <1>3, PurchasesInvStep DEF PurchasesNext, PurchasesInv
    <2> QED
      BY <1>3, <2>1, StockFrame, SalesFrame
  <1>4. CASE UNCHANGED vars
    <2>1. DbInv'
      BY <1>4, DbUnchanged DEF vars, dbVars, StockInv
    <2> QED
      BY <1>4, <2>1, StockFrame, SalesFrame, PurchasesFrame DEF vars
  <1> QED
    BY <1>1, <1>2, <1>3, <1>4 DEF Next

(* However many stock, sale and purchase requests interleave, crash or     *)
(* time out, the invariant that ties the tables, the open transactions and *)
(* the handlers together always holds.                                     *)
THEOREM InventoryInvariant == Spec => []InventoryInv
  BY InventoryInvInit, InventoryInvNext, PTL DEF Spec

(* The committed quantity of every stock item is the one its last movement *)
(* ends in, for any number of requests, rows, sales and purchases.         *)
THEOREM QuantityFollowsLedger == Spec => []QuantityIsLastMovement
  <1>1. InventoryInv => QuantityIsLastMovement
    BY DEF InventoryInv, StockInv, DbInv
  <1> QED
    BY <1>1, InventoryInvariant, PTL

(* The strengthened order of stamps is kept by every step: only a step of  *)
(* a sale handler touches sales.                                           *)
LEMMA StampsInvNext == InventoryInv /\ StampsInv /\ [Next]_vars => StampsInv'
  <1> SUFFICES ASSUME InventoryInv, StampsInv, [Next]_vars PROVE StampsInv'
    OBVIOUS
  <1>1. CASE SalesNext /\ UNCHANGED <<call, purchase, applied, purchaseCall>>
    BY <1>1, StampsInvStep DEF SalesNext, InventoryInv
  <1>2. CASE UNCHANGED <<sale, saleCall>>
    BY <1>2 DEF StampsInv, StampsInOrder, SaleAt, Stamped
  <1> QED
    BY <1>1, <1>2 DEF Next, vars

LEMMA StampsInvariant == Spec => []StampsInv
  <1>1. Init => StampsInv
    BY StampsInvInit DEF Init
  <1> QED
    BY <1>1, StampsInvNext, InventoryInvariant, PTL DEF Spec

(* No sale is ever shipped without having been paid, nor delivered without *)
(* having been shipped, however many handlers overwrite each other on a    *)
(* stale read.                                                             *)
THEOREM StampsAlwaysInOrder == Spec => []StampsInOrder
  <1>1. StampsInv => StampsInOrder
    BY DEF StampsInv
  <1> QED
    BY <1>1, StampsInvariant, PTL

(* A step of another service moves no goods of a purchase.                 *)
LEMMA GoodsFrame ==
    ASSUME ReceiptInv, DbTypeOK, DbTypeOK', NEW r \in Requests, r \notin PurchaseRequests, Quiet(r, GoodsIn)
    PROVE  /\ \A x \in Rows, p \in Purchases : Goods(ledger'[x], p) = Goods(ledger[x], p)
           /\ \A q \in Requests, p \in Purchases : GoodsPending(q, p)' <=> GoodsPending(q, p)
  <1>1. \A x \in Rows : /\ tx[r].moves[x] \in Seq(StockMovement) /\ tx'[r].moves[x] \in Seq(StockMovement)
                        /\ ledger'[x] \in Seq(StockMovement)
    BY DEF DbTypeOK, Transaction
  <1>2. ASSUME NEW ms \in Seq(StockMovement) PROVE Free(ms, GoodsIn) <=> \A p \in Purchases : Goods(ms, p) = {}
    <2>1. \A i \in DOMAIN ms : ms[i] \in StockMovement
      OBVIOUS
    <2> QED
      BY <2>1 DEF Free, GoodsIn, Goods
  <1>3. \A x \in Rows : Free(tx[r].moves[x], GoodsIn)
    BY <1>1, <1>2 DEF ReceiptInv, GoodsPending
  <1>4. \A x \in Rows : Free(tx'[r].moves[x], GoodsIn) /\ Grew(ledger[x], ledger'[x], GoodsIn)
    BY <1>3 DEF Quiet
  <1>5. \A q \in Requests \ {r}, p \in Purchases : GoodsPending(q, p)' <=> GoodsPending(q, p)
    BY DEF Quiet, GoodsPending
  <1>6. \A p \in Purchases : ~GoodsPending(r, p)' /\ ~GoodsPending(r, p)
    BY <1>1, <1>2, <1>3, <1>4 DEF GoodsPending
  <1>7. ASSUME NEW x \in Rows, NEW p \in Purchases PROVE Goods(ledger'[x], p) = Goods(ledger[x], p)
    <2>1. \A i \in DOMAIN ledger'[x] : ledger'[x][i] \in StockMovement
      BY <1>1
    <2> QED
      BY <1>4, <2>1 DEF Grew, GoodsIn, Goods
  <1> QED
    BY <1>5, <1>6, <1>7

LEMMA ReceiptFrame ==
    ASSUME ReceiptInv, DbTypeOK, DbTypeOK', NEW r \in Requests, r \notin PurchaseRequests, Quiet(r, GoodsIn),
           UNCHANGED <<purchase, applied, purchaseCall>>
    PROVE  ReceiptInv'
  <1>1. \A p \in Purchases, x \in Rows : Received(p, x)' = Received(p, x)
    BY GoodsFrame DEF Received
  <1>2. \A q \in Requests, p \in Purchases : GoodsPending(q, p)' <=> GoodsPending(q, p)
    BY GoodsFrame
  <1>3. \A q \in PurchaseRequests, p \in Purchases : Applying(q, p)' <=> Applying(q, p)
    BY DEF Applying, Subject
  <1>4. PurchaseRequests \subseteq Requests
    BY PurchaseInputs
  <1> QED
    BY <1>1, <1>2, <1>3, <1>4 DEF ReceiptInv, Subject, PurchaseAt

(* The invariant of receipts is kept by every step, and each step brings   *)
(* in goods only with their application row.                               *)
LEMMA ReceiptNext ==
    ASSUME InventoryInv, ReceiptInv, [Next]_vars
    PROVE  /\ ReceiptInv'
           /\ \A p \in Purchases : (\E x \in Rows : Received(p, x)' # Received(p, x)) =>
                 p \notin applied /\ p \in applied'
  <1> USE DEF InventoryInv
  <1> DbTypeOK /\ DbTypeOK'
    BY InventoryInvNext DEF StockInv, DbInv
  <1>1. ASSUME NEW r \in Requests, r \notin PurchaseRequests, Quiet(r, GoodsIn), UNCHANGED <<purchase, applied, purchaseCall>>
        PROVE  ReceiptInv' /\ \A p \in Purchases, x \in Rows : Received(p, x)' = Received(p, x)
    BY <1>1, ReceiptFrame, GoodsFrame DEF Received
  <1>2. CASE StockNext /\ UNCHANGED <<sale, saleCall, purchase, applied, purchaseCall>>
    <2>1. PICK r \in StockRequests : StockStep(r)
      BY <1>2 DEF StockNext
    <2>2. r \in Requests /\ r \notin PurchaseRequests
      BY StockInputs, RequestKinds
    <2>3. Quiet(r, GoodsIn)
      BY <2>1, StockQuiet
    <2> QED
      BY <1>1, <1>2, <2>2, <2>3
  <1>3. CASE SalesNext /\ UNCHANGED <<call, purchase, applied, purchaseCall>>
    <2>1. PICK r \in SaleRequests : SalesStep(r)
      BY <1>3 DEF SalesNext
    <2>2. r \in Requests /\ r \notin PurchaseRequests
      BY SalesInputs, RequestKinds
    <2>3. Quiet(r, GoodsIn)
      BY <2>1, SalesQuiet
    <2> QED
      BY <1>1, <1>3, <2>2, <2>3
  <1>4. CASE PurchasesNext
    BY <1>4, ReceiptInvStep, AppliedStep DEF PurchasesNext
  <1>5. CASE UNCHANGED vars
    BY <1>5 DEF vars, ReceiptInv, GoodsPending, Received, Applying, Subject, PurchaseAt
  <1> QED
    BY <1>2, <1>3, <1>4, <1>5 DEF Next

(* Of all the requests that interleave, crash and time out, only a receipt *)
(* brings goods in, and its movements and its application row commit       *)
(* together.                                                               *)
LEMMA ReceiptInvariant == Spec => []ReceiptInv
  <1>1. Init => ReceiptInv
    BY ReceiptInvInit DEF Init
  <1>2. InventoryInv /\ ReceiptInv /\ [Next]_vars => ReceiptInv'
    BY ReceiptNext
  <1> QED
    BY <1>1, <1>2, InventoryInvariant, PTL DEF Spec

(* A purchase is RECEIVED only when its goods are in stock, although stock *)
(* and status are written by two transactions with a crash in between.     *)
THEOREM ReceivedAlwaysInStock == Spec => []ReceivedIsInStock
  <1>1. ReceiptInv => ReceivedIsInStock
    BY DEF ReceiptInv, ReceivedIsInStock
  <1> QED
    BY <1>1, ReceiptInvariant, PTL

(* The goods of a purchase enter stock in one commit, the one that records *)
(* the application, however often RECEIVED is requested.                   *)
THEOREM AppliedAtMostOnce == Spec => AppliedOnce
  <1>1. InventoryInv /\ ReceiptInv /\ [Next]_vars =>
           [\A p \in Purchases :
               (\E x \in Rows : Received(p, x)' # Received(p, x)) => p \notin applied /\ p \in applied']_purchaseVars
    BY ReceiptNext
  <1> QED
    BY <1>1, InventoryInvariant, ReceiptInvariant, PTL DEF Spec, AppliedOnce

(* A step that takes nothing for a sale leaves what the sales have taken,  *)
(* and what their payments are about to take, as they are.                 *)
LEMMA PaymentFrame ==
    ASSUME SalesInv, DbTypeOK', PaymentInv, NEW r \in Requests, r \notin SaleRequests, Quiet(r, Sold),
           UNCHANGED <<sale, saleCall>>
    PROVE  PaymentInv'
  <1>1. \A x \in Rows : \A q \in Requests : /\ tx[q].moves[x] \in Seq(StockMovement) /\ tx'[q].moves[x] \in Seq(StockMovement)
                                            /\ ledger[x] \in Seq(StockMovement) /\ ledger'[x] \in Seq(StockMovement)
    BY DEF SalesInv, DbInv, DbTypeOK, Transaction
  <1>2. ASSUME NEW ms \in Seq(StockMovement) PROVE Free(ms, Sold) <=> \A i \in DOMAIN ms : ms[i].type # "SOLD"
    <2>1. \A i \in DOMAIN ms : ms[i] \in StockMovement
      OBVIOUS
    <2> QED
      BY <2>1 DEF Free, Sold
  <1>3. \A x \in Rows : Free(tx[r].moves[x], Sold)
    BY <1>1, <1>2 DEF PaymentInv
  <1>4. \A x \in Rows : Free(tx'[r].moves[x], Sold) /\ Grew(ledger[x], ledger'[x], Sold)
    BY <1>3 DEF Quiet
  <1>5. \A x \in Rows : \A i \in DOMAIN tx'[r].moves[x] : tx'[r].moves[x][i].type # "SOLD"
    BY <1>1, <1>2, <1>4
  <1>6. \A q \in Requests \ {r}, x \in Rows : tx'[q].moves[x] = tx[q].moves[x]
    BY DEF Quiet
  <1>7. ASSUME NEW x \in Rows
        PROVE  /\ \A i \in DOMAIN ledger[x] : i \in DOMAIN ledger'[x] /\ ledger'[x][i] = ledger[x][i]
               /\ \A i \in DOMAIN ledger'[x] : ledger'[x][i].type = "SOLD" =>
                     i \in DOMAIN ledger[x] /\ ledger'[x][i] = ledger[x][i]
    <2>1. \A i \in DOMAIN ledger'[x] : ledger'[x][i] \in StockMovement
      BY <1>1
    <2> QED
      BY <1>4, <2>1 DEF Grew, Sold
  <1>8. ASSUME NEW c \in SaleRequests, NEW k \in StockLines(saleCall[c].lines) PROVE saleCall[c].lines[k].row \in Rows
    <2>1. PICK ls \in Seq(Line) : ls = saleCall[c].lines
      BY SaleFacts DEF SaleCallOK, SaleCall
    <2>2. \A j \in DOMAIN ls : ls[j] \in Line
      BY <2>1
    <2> QED
      BY <1>8, <2>1, <2>2 DEF StockLines, Line
  <1>9. ASSUME NEW s \in Sales, NEW k \in StockLines(sale[s].lines) PROVE sale[s].lines[k].row \in Rows
    <2>1. PICK ls \in Seq(Line) : ls = sale[s].lines
      BY DEF SalesInv, SalesTypeOK, Sale
    <2>2. \A j \in DOMAIN ls : ls[j] \in Line
      BY <2>1
    <2> QED
      BY <1>9, <2>1, <2>2 DEF StockLines, Line
  <1>10. ASSUME NEW x \in Rows, NEW s, NEW qty PROVE TakenFor(s, x, qty)' <=> TakenFor(s, x, qty)
    BY <1>7 DEF TakenFor
  <1>11. PaidIffTaken'
    <2>1. \A s \in Sales : "paid" \in sale[s].stamps =>
             \A k \in StockLines(sale[s].lines) : TakenFor(s, sale[s].lines[k].row, sale[s].lines[k].qty)'
      BY <1>9, <1>10 DEF PaymentInv, PaidIffTaken
    <2>2. \A x \in Rows : \A i \in DOMAIN ledger'[x] : ledger'[x][i].type = "SOLD" => "paid" \in sale[ledger'[x][i].doc].stamps
      BY <1>7 DEF PaymentInv, PaidIffTaken
    <2> QED
      BY <2>1, <2>2 DEF PaidIffTaken
  <1>12. \A q \in SaleRequests : q \in Requests \ {r}
    BY SalesInputs
  <1>13. ASSUME NEW q \in SaleRequests PROVE Paying(q, saleCall[q])'
    <2>1. \A x \in Rows : \A s, qty : TakesFor(q, s, x, qty)' <=> TakesFor(q, s, x, qty)
      BY <1>6, <1>12 DEF TakesFor
    <2>2. Paying(q, saleCall[q])
      BY DEF PaymentInv
    <2> QED
      BY <1>8, <2>1, <2>2 DEF Paying
  <1>14. \A q \in Requests, x \in Rows : \A i \in DOMAIN tx'[q].moves[x] : tx'[q].moves[x][i].type = "SOLD" =>
            q \in SaleRequests /\ SaleAt(q, "payTx")' /\ tx'[q].moves[x][i].doc = saleCall'[q].sale
    BY <1>5, <1>6 DEF PaymentInv, SaleAt
  <1>15. \A x \in Rows : \A i \in DOMAIN ledger'[x] : ledger'[x][i].type = "SOLD" => ledger'[x][i].doc \in Sales
    BY <1>7 DEF PaymentInv
  <1> QED
    BY <1>11, <1>13, <1>14, <1>15 DEF PaymentInv

(* The invariant of payments is kept by every step of every service.       *)
LEMMA PaymentNext == InventoryInv /\ StampsInv /\ PaymentInv /\ [Next]_vars => PaymentInv'
  <1> SUFFICES ASSUME InventoryInv, StampsInv, PaymentInv, [Next]_vars PROVE PaymentInv'
    OBVIOUS
  <1> USE DEF InventoryInv
  <1> DbTypeOK'
    BY InventoryInvNext DEF StockInv, DbInv
  <1>1. CASE StockNext /\ UNCHANGED <<sale, saleCall, purchase, applied, purchaseCall>>
    <2>1. PICK r \in StockRequests : StockStep(r)
      BY <1>1 DEF StockNext
    <2>2. r \in Requests /\ r \notin SaleRequests
      BY StockInputs, RequestKinds
    <2>3. Quiet(r, Sold)
      BY <2>1, StockQuiet
    <2> QED
      BY <1>1, <2>2, <2>3, PaymentFrame
  <1>2. CASE SalesNext /\ UNCHANGED <<call, purchase, applied, purchaseCall>>
    BY <1>2, PaymentInvStep DEF SalesNext
  <1>3. CASE PurchasesNext /\ UNCHANGED <<call, sale, saleCall>>
    <2>1. PICK r \in PurchaseRequests : PurchaseStep(r)
      BY <1>3 DEF PurchasesNext
    <2>2. r \in Requests /\ r \notin SaleRequests
      BY PurchaseInputs, RequestKinds
    <2>3. Quiet(r, Sold)
      BY <2>1, PurchasesQuiet
    <2> QED
      BY <1>3, <2>2, <2>3, PaymentFrame
  <1>4. CASE UNCHANGED vars
    BY <1>4 DEF vars, PaymentInv, PaidIffTaken, TakenFor, TakesFor, Paying, SaleAt
  <1> QED
    BY <1>1, <1>2, <1>3, <1>4 DEF Next

(* A sale is paid exactly when its goods have left stock: whatever stock,  *)
(* sale and purchase requests interleave, crash or time out, the stamp and *)
(* the SOLD movements commit together, every line's and no other.          *)
THEOREM PaidExactlyIfTaken == Spec => []PaidIffTaken
  <1>1. Init => PaymentInv
    BY PaymentInvInit DEF Init
  <1>2. PaymentInv => PaidIffTaken
    BY DEF PaymentInv
  <1> QED
    BY <1>1, <1>2, PaymentNext, InventoryInvariant, StampsInvariant, PTL DEF Spec

-----------------------------------------------------------------------------
(* Who may hold which locks and edit which rows, with the IMEIs that rows  *)
(* have and are about to have.                                             *)
ImeiSafe == ImeiInv /\ StockHolds /\ EditsExisting

LEMMA ImeiSafeInit == Init => ImeiSafe
  <1> SUFFICES ASSUME Init PROVE ImeiSafe
    OBVIOUS
  <1>1. StockHolds
    BY StockInputs DEF Init, DbInit, StockHolds, NoTransaction
  <1>2. EditsExisting
    BY DEF Init, StockInit, NewCall, EditsExisting, At
  <1> QED
    BY <1>1, <1>2, ImeiInvInit DEF Init, ImeiSafe

LEMMA ImeiSafeNext == InventoryInv /\ ImeiSafe /\ [Next]_vars => ImeiSafe'
  <1> SUFFICES ASSUME InventoryInv, ImeiSafe, [Next]_vars PROVE ImeiSafe'
    OBVIOUS
  <1> USE DEF InventoryInv, ImeiSafe
  <1>1. DbInv /\ DbInv'
    BY InventoryInvNext DEF StockInv
  <1>2. CASE StockNext
    BY <1>2, StockImei, StockHoldsStep, EditsExistingStep DEF StockNext
  <1>3. ASSUME UNCHANGED call, ImeiInv' /\ NoneVanish, NEW r \in Requests, r \notin StockRequests, NEW M, Quiet(r, M)
        PROVE  ImeiSafe'
    <2>1. StockHolds'
      BY <1>1, <1>3, OthersHold, StockInputs DEF StockHolds
    <2>2. EditsExisting'
      <3> SUFFICES ASSUME NEW q \in StockRequests, At(q, "update") PROVE stock'[call[q].row].state # "absent"
        BY <1>3 DEF EditsExisting, At
      <3>1. call[q].row \in Rows
        BY DEF StockInv, At
      <3> QED
        BY <1>3, <3>1 DEF EditsExisting, NoneVanish
    <2> QED
      BY <1>3, <2>1, <2>2
  <1>4. CASE SalesNext /\ UNCHANGED <<call, purchase, applied, purchaseCall>>
    <2>1. PICK r \in SaleRequests : SalesStep(r)
      BY <1>4 DEF SalesNext
    <2>2. r \in Requests /\ r \notin StockRequests
      BY SalesInputs, RequestKinds
    <2> QED
      BY <1>3, <1>4, <2>1, <2>2, SalesImei, SalesQuiet
  <1>5. CASE PurchasesNext /\ UNCHANGED <<call, sale, saleCall>>
    <2>1. PICK r \in PurchaseRequests : PurchaseStep(r)
      BY <1>5 DEF PurchasesNext
    <2>2. r \in Requests /\ r \notin StockRequests
      BY PurchaseInputs, RequestKinds
    <2> QED
      BY <1>3, <1>5, <2>1, <2>2, PurchasesImei, PurchasesQuiet
  <1>6. CASE UNCHANGED vars
    BY <1>6 DEF vars, ImeiInv, Versions, StockHolds, EditsExisting, At
  <1> QED
    BY <1>2, <1>4, <1>5, <1>6 DEF Next

(* Two stock items never carry the same IMEI, deleted ones included,       *)
(* however many handlers check for one and insert it later.                *)
THEOREM ImeiAlwaysUnique == Spec => []ImeiUnique
  <1>1. ImeiSafe => ImeiUnique
    BY ImeiUniqueness DEF ImeiSafe
  <1> QED
    BY <1>1, ImeiSafeInit, ImeiSafeNext, InventoryInvariant, PTL DEF Spec

-----------------------------------------------------------------------------
(* Calls that run one at a time.                                           *)

(* Only r has a transaction open.                                          *)
Others(r) == \A q \in Requests \ {r} : tx[q] = NoTransaction

(* A transaction that ends leaves nothing of itself, and the others, which *)
(* have none, do not notice.                                               *)
LEMMA OutdateQuiet ==
    ASSUME DbTypeOK, NEW r \in Requests, Others(r), NEW keys, tx' = Outdate(r, keys)
    PROVE  tx'[r] = NoTransaction /\ Others(r)'
  <1>1. tx'[r] = NoTransaction
    BY DEF Outdate
  <1>2. ASSUME NEW q \in Requests \ {r} PROVE tx'[q] = NoTransaction
    <2>1. tx[q] = NoTransaction
      BY DEF Others
    <2>2. ~ NoTransaction.ser
      BY DEF NoTransaction
    <2>3. tx'[q] = IF tx[q].ser THEN [tx[q] EXCEPT !.stale = @ \cup keys] ELSE tx[q]
      BY DEF Outdate
    <2> QED
      BY <2>1, <2>2, <2>3
  <1> QED
    BY <1>1, <1>2 DEF Others

LEMMA RollbackQuiet ==
    ASSUME DbTypeOK, NEW r \in Requests, Others(r), Rollback(r)
    PROVE  tx'[r] = NoTransaction /\ Others(r)'
  BY DEF Rollback, Others, DbTypeOK

Serially(r) == TablesInv' /\ Others(r)'

(* Steps that publish nothing.                                             *)
LEMMA TablesEmptied ==
    ASSUME TablesInv, NEW r \in Requests, UNCHANGED <<stock, ledger>>, tx'[r].own = {}, Others(r)'
    PROVE  Serially(r)
  <1>1. \A q \in Requests : tx'[q].own = {}
    BY DEF Others, NoTransaction
  <1>2. LedgerContinuous => LedgerContinuous'
    BY DEF LedgerContinuous
  <1>3. TablesInv'
    BY <1>1, <1>2 DEF TablesInv
  <1> QED
    BY <1>3 DEF Serially

LEMMA TablesSame ==
    ASSUME TablesInv, NEW r \in Requests, Others(r), UNCHANGED dbVars
    PROVE  Serially(r)
  <1>1. stock' = stock /\ ledger' = ledger /\ tx' = tx
    BY DEF dbVars
  <1>2. LedgerContinuous => LedgerContinuous'
    BY <1>1 DEF LedgerContinuous
  <1>3. TablesInv'
    BY <1>1, <1>2 DEF TablesInv
  <1>5. Others(r)'
    BY <1>1 DEF Others
  <1> QED
    BY <1>3, <1>5 DEF Serially

LEMMA TablesIdle ==
    ASSUME DbTypeOK, TablesInv, NEW r \in Requests, Others(r),
           Rollback(r) \/ \E docs : CommitDocs(r, docs)
    PROVE  Serially(r)
  <1>1. tx'[r] = NoTransaction /\ Others(r)' /\ UNCHANGED <<stock, ledger>>
    BY OutdateQuiet, RollbackQuiet DEF Rollback, CommitDocs
  <1> QED
    BY <1>1, TablesEmptied DEF NoTransaction

LEMMA TablesBegin ==
    ASSUME DbTypeOK, TablesInv, NEW r \in Requests, Others(r), tx[r].own = {}, BeginSerializable(r)
    PROVE  Serially(r) /\ tx'[r].own = {} /\ tx'[r].moves = tx[r].moves
  <1>1. tx'[r].own = {} /\ tx'[r].moves = tx[r].moves /\ UNCHANGED <<stock, ledger>>
    BY DEF BeginSerializable, DbTypeOK, Transaction
  <1>2. \A q \in Requests \ {r} : tx'[q] = tx[q]
    BY DEF BeginSerializable, DbTypeOK, Transaction
  <1>3. Others(r)'
    BY <1>2 DEF Others
  <1> QED
    BY <1>1, <1>3, TablesEmptied

(* One more movement leads on from where the others end.                   *)
LEMMA LeadsOnAppend ==
    ASSUME NEW ms \in Seq(StockMovement), NEW m \in StockMovement, NEW qty, LeadsOn(ms, qty),
           m.before = IF ms = <<>> THEN qty ELSE OnHand(ms)
    PROVE  LeadsOn(Append(ms, m), qty)
  <1> DEFINE new == Append(ms, m)
  <1>1. DOMAIN new = 1..(Len(ms) + 1) /\ DOMAIN ms = 1..Len(ms) /\ Len(ms) \in Nat
    OBVIOUS
  <1>2. \A i \in DOMAIN ms : new[i] = ms[i]
    OBVIOUS
  <1>3. new[Len(ms) + 1] = m
    OBVIOUS
  <1> SUFFICES ASSUME NEW i \in DOMAIN new PROVE new[i].before = IF i = 1 THEN qty ELSE new[i-1].after
    BY DEF LeadsOn
  <1> HIDE DEF new
  <1>4. CASE i \in DOMAIN ms
    <2>1. i # 1 => i - 1 \in DOMAIN ms
      BY <1>1, <1>4
    <2> QED
      BY <1>2, <1>4, <2>1 DEF LeadsOn
  <1>5. CASE i \notin DOMAIN ms
    <2>1. i = Len(ms) + 1
      BY <1>1, <1>5
    <2>2. CASE ms = <<>>
      <3>1. i = 1
        BY <2>1, <2>2
      <3> QED
        BY <1>3, <2>1, <2>2, <3>1
    <2>3. CASE ms # <<>>
      <3>1. Len(ms) # 0
        BY <2>3
      <3>2. i # 1 /\ i - 1 = Len(ms) /\ i - 1 \in DOMAIN ms
        BY <1>1, <2>1, <3>1
      <3>3. OnHand(ms) = ms[i-1].after
        BY <2>3, <3>2 DEF OnHand
      <3> QED
        BY <1>2, <1>3, <2>1, <2>3, <3>2, <3>3
    <2> QED
      BY <2>2, <2>3
  <1> QED
    BY <1>4, <1>5

(* A history and movements that lead on from its end lead on as one.       *)
LEMMA LeadsOnConcat ==
    ASSUME NEW h \in Seq(StockMovement), NEW ms \in Seq(StockMovement), NEW qty,
           LeadsOn(h, qty), LeadsOn(ms, IF h = <<>> THEN qty ELSE OnHand(h))
    PROVE  LeadsOn(h \o ms, qty)
  <1> DEFINE new == h \o ms
  <1>1. DOMAIN new = 1..(Len(h) + Len(ms)) /\ DOMAIN h = 1..Len(h) /\ DOMAIN ms = 1..Len(ms)
        /\ Len(h) \in Nat /\ Len(ms) \in Nat
    OBVIOUS
  <1>2. \A i \in DOMAIN h : new[i] = h[i]
    OBVIOUS
  <1>3. \A i \in DOMAIN ms : new[Len(h) + i] = ms[i]
    OBVIOUS
  <1> SUFFICES ASSUME NEW i \in DOMAIN new PROVE new[i].before = IF i = 1 THEN qty ELSE new[i-1].after
    BY DEF LeadsOn
  <1> HIDE DEF new
  <1>4. CASE i \in DOMAIN h
    <2>1. i # 1 => i - 1 \in DOMAIN h
      BY <1>1, <1>4
    <2> QED
      BY <1>2, <1>4, <2>1 DEF LeadsOn
  <1>5. CASE i \notin DOMAIN h
    <2> DEFINE j == i - Len(h)
    <2>1. j \in DOMAIN ms /\ i = Len(h) + j /\ i \in Nat
      BY <1>1, <1>5
    <2>2. new[i] = ms[j]
      BY <1>3, <2>1
    <2>3. CASE j = 1 /\ h = <<>>
      <3>1. i = 1
        BY <2>1, <2>3
      <3> QED
        BY <2>1, <2>2, <2>3, <3>1 DEF LeadsOn
    <2>4. CASE j = 1 /\ h # <<>>
      <3>1. Len(h) # 0
        BY <2>4
      <3>2. i # 1 /\ i - 1 = Len(h) /\ i - 1 \in DOMAIN h
        <4>1. i = Len(h) + 1
          BY <2>1, <2>4
        <4> QED
          BY <1>1, <3>1, <4>1
      <3>3. ms[j].before = OnHand(h)
        BY <2>1, <2>4 DEF LeadsOn
      <3>4. OnHand(h) = h[i-1].after
        BY <2>4, <3>2 DEF OnHand
      <3> QED
        BY <1>2, <2>2, <3>2, <3>3, <3>4
    <2>5. CASE j # 1
      <3>1. j - 1 \in DOMAIN ms /\ i # 1 /\ i - 1 = Len(h) + (j - 1)
        BY <1>1, <2>1, <2>5
      <3>2. new[i-1] = ms[j-1]
        BY <1>3, <3>1
      <3>3. ms[j].before = ms[j-1].after
        BY <2>1, <2>5 DEF LeadsOn
      <3> QED
        BY <2>2, <3>1, <3>2, <3>3
    <2> QED
      BY <2>3, <2>4, <2>5
  <1> QED
    BY <1>4, <1>5

(* Where continuous histories lead to: the sum of what they moved is the   *)
(* quantity they end in.                                                   *)
Change(m) == m.after - m.before

LEMMA Telescope ==
    ASSUME NEW h \in Seq(StockMovement), LeadsOn(h, 0)
    PROVE  Sum([i \in DOMAIN h |-> Change(h[i])], DOMAIN h) = OnHand(h)
  <1> DEFINE f == [i \in DOMAIN h |-> Change(h[i])]
             end(n) == IF n = 0 THEN 0 ELSE h[n].after
             Good == {n \in Nat : n <= Len(h) => Sum(f, 1..n) = end(n)}
  <1>1. DOMAIN h = 1..Len(h) /\ Len(h) \in Nat
    OBVIOUS
  <1>2. \A i \in DOMAIN h : h[i].after \in Nat /\ h[i].before \in Nat
    <2>1. \A m \in StockMovement : m.after \in Nat /\ m.before \in Nat
      BY RowsAssumption DEF StockMovement
    <2> QED
      BY <2>1
  <1>3. \A i \in DOMAIN h : f[i] = h[i].after - h[i].before /\ f[i] \in Int
    BY <1>2 DEF Change
  <1>4. 0 \in Good
    <2>1. 1..0 = {}
      OBVIOUS
    <2>2. Sum(f, {}) = 0
      <3> HIDE DEF f
      <3> QED
        BY SumStep, FS_EmptySet
    <2> QED
      BY <2>1, <2>2
  <1>5. ASSUME NEW n \in Good PROVE n + 1 \in Good
    <2> SUFFICES ASSUME n + 1 <= Len(h) PROVE Sum(f, 1..(n + 1)) = h[n + 1].after
      OBVIOUS
    <2>1. n \in Nat /\ Sum(f, 1..n) = end(n)
      BY <1>1
    <2>2. IsFiniteSet(1..(n + 1))
      BY <2>1, FS_Interval
    <2>3. n + 1 \in 1..(n + 1) /\ (1..(n + 1)) \ {n + 1} = 1..n /\ n + 1 \in DOMAIN h
      BY <1>1, <2>1
    <2>4. \A i \in 1..(n + 1) : f[i] \in Int
      BY <1>1, <1>3, <2>1
    <2>5. Sum(f, 1..(n + 1)) = f[n + 1] + Sum(f, (1..(n + 1)) \ {n + 1})
      <3> HIDE DEF f
      <3> QED
        BY <2>2, <2>3, <2>4, SumTake
    <2>6. Sum(f, 1..(n + 1)) = (h[n + 1].after - h[n + 1].before) + end(n)
      BY <1>3, <2>1, <2>3, <2>5
    <2>7. h[n + 1].before = end(n)
      <3>1. h[n + 1].before = IF n + 1 = 1 THEN 0 ELSE h[(n + 1) - 1].after
        BY <2>3 DEF LeadsOn
      <3> QED
        BY <2>1, <3>1
    <2>8. h[n + 1].after \in Nat /\ h[n + 1].before \in Nat
      BY <1>2, <2>3
    <2> QED
      BY <2>6, <2>7, <2>8
  <1>6. Good \in SUBSET Nat
    OBVIOUS
  <1> HIDE DEF Good
  <1>7. Len(h) \in Good
    BY <1>1, <1>4, <1>5, <1>6, NumberInduction
  <1>8. Sum(f, 1..Len(h)) = end(Len(h))
    BY <1>1, <1>7 DEF Good
  <1>9. end(Len(h)) = OnHand(h)
    BY <1>1 DEF OnHand
  <1> QED
    BY <1>1, <1>8, <1>9

(* So what sales and others moved adds up to the quantity there is, which  *)
(* is not negative: nothing was sold that was not there.                   *)
LEMMA ContinuousNotOversold == DbInv /\ LedgerContinuous => NeverOversold
  <1> SUFFICES ASSUME DbInv, LedgerContinuous, NEW x \in Rows
               PROVE  Moved(x, FALSE) + Moved(x, TRUE) >= 0
    BY DEF NeverOversold
  <1> DEFINE h == ledger[x]
             f == [i \in DOMAIN h |-> Change(h[i])]
             S(b) == {i \in DOMAIN h : (h[i].type = "SOLD") = b}
             g(b) == [i \in S(b) |-> h[i].after - h[i].before]
  <1>1. h \in Seq(StockMovement)
    BY DEF DbInv, DbTypeOK
  <1>2. LeadsOn(h, 0)
    BY DEF LedgerContinuous, LeadsOn
  <1>3. Sum(f, DOMAIN h) = OnHand(h)
    <2> HIDE DEF h
    <2> QED
      BY <1>1, <1>2, Telescope
  <1>4. \A i \in DOMAIN h : f[i] = h[i].after - h[i].before /\ f[i] \in Int
    <2>1. \A m \in StockMovement : m.after \in Nat /\ m.before \in Nat
      BY RowsAssumption DEF StockMovement
    <2>2. \A i \in DOMAIN h : h[i] \in StockMovement
      BY <1>1
    <2> QED
      BY <2>1, <2>2 DEF Change
  <1>5. OnHand(h) \in Nat
    <2>1. \A m \in StockMovement : m.after \in Nat
      BY RowsAssumption DEF StockMovement
    <2>2. h # <<>> => h[Len(h)] \in StockMovement
      BY <1>1
    <2> QED
      BY <2>1, <2>2 DEF OnHand
  <1>6. IsFiniteSet(DOMAIN h)
    <2>1. DOMAIN h = 1..Len(h) /\ Len(h) \in Nat
      BY <1>1
    <2> QED
      BY <2>1, FS_Interval
  <1>7. ASSUME NEW b \in BOOLEAN PROVE Moved(x, b) = Sum(f, S(b)) /\ IsFiniteSet(S(b))
    <2>1. Moved(x, b) = Sum(g(b), S(b))
      BY DEF Moved, SumFunction, Sum
    <2>2. IsFiniteSet(S(b))
      BY <1>6, FS_Subset
    <2>3. \A i \in S(b) : g(b)[i] = f[i]
      BY <1>4
    <2>4. Sum(g(b), S(b)) = Sum(f, S(b))
      <3> HIDE DEF g, f, S
      <3> QED
        BY <2>2, <2>3, SumSame
    <2> QED
      BY <2>1, <2>2, <2>4
  <1>8. S(FALSE) \cup S(TRUE) = DOMAIN h /\ S(FALSE) \cap S(TRUE) = {}
    OBVIOUS
  <1>9. Sum(f, DOMAIN h) = Sum(f, S(FALSE)) + Sum(f, S(TRUE))
    <2>1. IsFiniteSet(S(FALSE)) /\ IsFiniteSet(S(TRUE))
      BY <1>7
    <2>2. \A i \in S(FALSE) \cup S(TRUE) : f[i] \in Int
      BY <1>4, <1>8
    <2> HIDE DEF f, S, h
    <2>3. Sum(f, S(FALSE) \cup S(TRUE)) = Sum(f, S(FALSE)) + Sum(f, S(TRUE))
      BY <1>8, <2>1, <2>2, SumUnion
    <2> QED
      BY <1>8, <2>3
  <1>10. Moved(x, FALSE) = Sum(f, S(FALSE)) /\ Moved(x, TRUE) = Sum(f, S(TRUE))
    BY <1>7
  <1> HIDE DEF f, S, h
  <1>11. Moved(x, FALSE) + Moved(x, TRUE) = Sum(f, S(FALSE)) + Sum(f, S(TRUE))
    BY <1>10
  <1>12. Moved(x, FALSE) + Moved(x, TRUE) = OnHand(h)
    BY <1>3, <1>9, <1>11
  <1>13. \A n \in Nat : n >= 0
    OBVIOUS
  <1> QED
    BY <1>5, <1>12, <1>13

-----------------------------------------------------------------------------
(* A statement that writes a row, and what it does to its transaction.     *)
LEMMA WriteRowEffect ==
    ASSUME DbTypeOK, NEW r \in Requests, NEW x \in Rows, NEW v, NEW m, WriteRow(r, x, v, m)
    PROVE  /\ stock' = stock /\ ledger' = ledger
           /\ tx'[r].own = tx[r].own \cup {x}
           /\ tx'[r].buf[x] = v
           /\ tx'[r].moves[x] = Append(tx[r].moves[x], m)
           /\ \A y \in Rows \ {x} : tx'[r].buf[y] = tx[r].buf[y] /\ tx'[r].moves[y] = tx[r].moves[y]
           /\ \A q \in Requests \ {r} : tx'[q] = tx[q]
           /\ DOMAIN tx'[r].moves = Rows
  <1>1. tx \in [Requests -> Transaction] /\ tx[r].buf \in [Rows -> StockItem]
        /\ tx[r].moves \in [Rows -> Seq(StockMovement)]
    BY DEF DbTypeOK, Transaction
  <1>2. tx[r] = [own |-> tx[r].own, buf |-> tx[r].buf, moves |-> tx[r].moves, ser |-> tx[r].ser, stale |-> tx[r].stale]
    BY <1>1 DEF Transaction
  <1>3. tx' = [tx EXCEPT ![r] = [tx[r] EXCEPT !.own = tx[r].own \cup {x},
                                              !.buf = [tx[r].buf EXCEPT ![x] = v],
                                              !.moves = [tx[r].moves EXCEPT ![x] = Append(tx[r].moves[x], m)]]]
    BY <1>1, <1>2 DEF WriteRow
  <1>4. tx'[r] = [tx[r] EXCEPT !.own = tx[r].own \cup {x},
                               !.buf = [tx[r].buf EXCEPT ![x] = v],
                               !.moves = [tx[r].moves EXCEPT ![x] = Append(tx[r].moves[x], m)]]
    BY <1>1, <1>3
  <1>5. /\ tx'[r].own = tx[r].own \cup {x}
        /\ tx'[r].buf = [tx[r].buf EXCEPT ![x] = v]
        /\ tx'[r].moves = [tx[r].moves EXCEPT ![x] = Append(tx[r].moves[x], m)]
    BY <1>2, <1>4
  <1>6. \A q \in Requests \ {r} : tx'[q] = tx[q]
    BY <1>1, <1>3
  <1>7. stock' = stock /\ ledger' = ledger
    BY DEF WriteRow
  <1> QED
    BY <1>1, <1>5, <1>6, <1>7

(* It goes on from what the transaction sees.                              *)
Amends(r, x, v, m) ==
    /\ v.state # "absent"
    /\ NoTwinLines => m.before = View(r)[x].qty

LEMMA TablesWrite ==
    ASSUME DbInv, TablesInv, NEW r \in Requests, Others(r), NEW x \in Rows, NEW v, NEW m \in StockMovement,
           WriteRow(r, x, v, m), Amends(r, x, v, m)
    PROVE  Serially(r)
  <1>0. DbTypeOK /\ BuffersMatch
    BY DEF DbInv
  <1>1. /\ stock' = stock /\ ledger' = ledger
        /\ tx'[r].own = tx[r].own \cup {x}
        /\ tx'[r].buf[x] = v
        /\ tx'[r].moves[x] = Append(tx[r].moves[x], m)
        /\ \A y \in Rows \ {x} : tx'[r].buf[y] = tx[r].buf[y] /\ tx'[r].moves[y] = tx[r].moves[y]
        /\ \A q \in Requests \ {r} : tx'[q] = tx[q]
    BY <1>0, WriteRowEffect
  <1>2. Others(r)'
    BY <1>1 DEF Others
  <1>3. \A q \in Requests \ {r} : tx'[q].own = {}
    BY <1>2 DEF Others, NoTransaction
  <1>5. ASSUME NoTwinLines PROVE LeadsOn(tx'[r].moves[x], stock[x].qty)
    <2>1. m.before = View(r)[x].qty
      BY <1>5 DEF Amends
    <2>2. tx[r].moves[x] \in Seq(StockMovement)
      BY <1>0 DEF DbTypeOK, Transaction
    <2>3. CASE x \in tx[r].own
      <3>1. tx[r].moves[x] # <<>> /\ tx[r].buf[x].qty = OnHand(tx[r].moves[x])
        BY <1>0, <2>3 DEF BuffersMatch
      <3>2. View(r)[x] = tx[r].buf[x]
        BY <2>3 DEF View
      <3>3. LeadsOn(tx[r].moves[x], stock[x].qty)
        BY <1>5, <2>3 DEF TablesInv
      <3> QED
        BY <1>1, <2>1, <2>2, <3>1, <3>2, <3>3, LeadsOnAppend
    <2>4. CASE x \notin tx[r].own
      <3>1. tx[r].moves[x] = <<>>
        BY <1>0, <2>4 DEF BuffersMatch
      <3>2. View(r)[x] = stock[x]
        BY <2>4 DEF View
      <3>3. LeadsOn(tx[r].moves[x], stock[x].qty)
        BY <3>1 DEF LeadsOn
      <3> QED
        BY <1>1, <2>1, <2>2, <3>1, <3>2, <3>3, LeadsOnAppend
    <2> QED
      BY <2>3, <2>4
  <1>6. ASSUME NEW y \in tx'[r].own
        PROVE  /\ tx'[r].buf[y].state # "absent"
               /\ NoTwinLines => LeadsOn(tx'[r].moves[y], stock[y].qty)
    <2>1. CASE y = x
      BY <1>1, <1>5, <2>1 DEF Amends
    <2>2. CASE y # x
      <3>1. y \in tx[r].own /\ y \in Rows
        BY <1>0, <1>1, <2>2 DEF DbTypeOK, Transaction
      <3>2. tx'[r].buf[y] = tx[r].buf[y] /\ tx'[r].moves[y] = tx[r].moves[y]
        BY <1>1, <2>2, <3>1
      <3> QED
        BY <3>1, <3>2 DEF TablesInv
    <2> QED
      BY <2>1, <2>2
  <1>7. LedgerContinuous => LedgerContinuous'
    BY <1>1 DEF LedgerContinuous
  <1>8. TablesInv'
    BY <1>1, <1>3, <1>6, <1>7 DEF TablesInv
  <1> QED
    BY <1>2, <1>8 DEF Serially

(* COMMIT publishes versions and movements that go on from the committed   *)
(* ones.                                                                   *)
LEMMA TablesCommit ==
    ASSUME DbInv, TablesInv, NEW r \in Requests, Others(r), NEW docs, Commit(r, docs)
    PROVE  Serially(r)
  <1>0. DbTypeOK /\ BuffersMatch /\ QuantityIsLastMovement
    BY DEF DbInv
  <1>1. stock' = View(r) /\ \A x \in Rows : ledger'[x] = ledger[x] \o tx[r].moves[x]
    BY DEF Commit
  <1>2. tx'[r] = NoTransaction /\ Others(r)'
    BY <1>0, OutdateQuiet DEF Commit
  <1>3. \A q \in Requests : tx'[q].own = {}
    BY <1>2 DEF Others, NoTransaction
  <1>4. \A x \in Rows : IF x \in tx[r].own THEN stock'[x] = tx[r].buf[x] ELSE stock'[x] = stock[x]
    BY <1>1 DEF View
  <1>5. \A x \in Rows : stock'[x].state = "absent" => stock'[x] = Missing
    BY <1>4 DEF TablesInv
  <1>6. ASSUME NoTwinLines PROVE LedgerContinuous'
    <2> SUFFICES ASSUME NEW x \in Rows PROVE LeadsOn(ledger'[x], 0)
      BY DEF LedgerContinuous, LeadsOn
    <2>1. ledger[x] \in Seq(StockMovement) /\ tx[r].moves[x] \in Seq(StockMovement)
      BY <1>0 DEF DbTypeOK, Transaction
    <2>2. LeadsOn(ledger[x], 0)
      BY <1>6 DEF TablesInv, LedgerContinuous, LeadsOn
    <2>3. stock[x].qty = IF ledger[x] = <<>> THEN 0 ELSE OnHand(ledger[x])
      BY <1>0 DEF QuantityIsLastMovement, OnHand
    <2>4. LeadsOn(tx[r].moves[x], stock[x].qty)
      <3>1. CASE x \in tx[r].own
        BY <1>6, <3>1 DEF TablesInv
      <3>2. CASE x \notin tx[r].own
        <4>1. tx[r].moves[x] = <<>>
          BY <1>0, <3>2 DEF BuffersMatch
        <4> QED
          BY <4>1 DEF LeadsOn
      <3> QED
        BY <3>1, <3>2
    <2>5. LeadsOn(ledger[x] \o tx[r].moves[x], 0)
      BY <2>1, <2>2, <2>3, <2>4, LeadsOnConcat
    <2> QED
      BY <1>1, <2>5
  <1>7. TablesInv'
    BY <1>3, <1>5, <1>6 DEF TablesInv
  <1> QED
    BY <1>2, <1>7 DEF Serially

(* A transaction with one write goes on from the committed row.            *)
Renews(x, v, ms) ==
    /\ v.state # "absent"
    /\ ms = <<>> \/ (ms \in Seq(StockMovement) /\ LeadsOn(ms, stock[x].qty))

LEMMA TablesRow ==
    ASSUME DbInv, TablesInv, NEW r \in Requests, Others(r), NEW x \in Rows, NEW v, NEW ms,
           CommitRow(r, x, v, ms), Renews(x, v, ms)
    PROVE  Serially(r)
  <1>0. DbTypeOK /\ QuantityIsLastMovement
    BY DEF DbInv
  <1>1. /\ stock' = [stock EXCEPT ![x] = v]
        /\ ledger' = [ledger EXCEPT ![x] = @ \o ms]
    BY DEF CommitRow
  <1>2. tx'[r] = NoTransaction /\ Others(r)'
    BY <1>0, OutdateQuiet DEF CommitRow
  <1>3. \A q \in Requests : tx'[q].own = {}
    BY <1>2 DEF Others, NoTransaction
  <1>4. \A y \in Rows : IF y = x THEN stock'[y] = v ELSE stock'[y] = stock[y]
    BY <1>0, <1>1 DEF DbTypeOK
  <1>5. \A y \in Rows : stock'[y].state = "absent" => stock'[y] = Missing
    BY <1>4 DEF TablesInv, Renews
  <1>6. ASSUME NoTwinLines PROVE LedgerContinuous'
    <2> SUFFICES ASSUME NEW y \in Rows PROVE LeadsOn(ledger'[y], 0)
      BY DEF LedgerContinuous, LeadsOn
    <2>1. ledger \in [Rows -> Seq(StockMovement)] /\ LeadsOn(ledger[y], 0)
      BY <1>0, <1>6 DEF DbTypeOK, TablesInv, LedgerContinuous, LeadsOn
    <2>2. CASE y # x
      BY <1>1, <2>1, <2>2
    <2>3. CASE y = x /\ ms = <<>>
      <3>1. ledger'[y] = ledger[y] \o <<>>
        BY <1>1, <2>1, <2>3
      <3>2. ledger[y] \o <<>> = ledger[y]
        BY <2>1
      <3> QED
        BY <2>1, <3>1, <3>2
    <2>4. CASE y = x /\ ms # <<>>
      <3>1. ledger'[y] = ledger[y] \o ms /\ ledger[y] \in Seq(StockMovement)
        BY <1>1, <2>1, <2>4
      <3>2. stock[y].qty = IF ledger[y] = <<>> THEN 0 ELSE OnHand(ledger[y])
        BY <1>0 DEF QuantityIsLastMovement, OnHand
      <3>3. ms \in Seq(StockMovement) /\ LeadsOn(ms, stock[y].qty)
        BY <2>4 DEF Renews
      <3>4. LeadsOn(ledger[y] \o ms, 0)
        BY <2>1, <3>1, <3>2, <3>3, LeadsOnConcat
      <3> QED
        BY <3>1, <3>4
    <2> QED
      BY <2>2, <2>3, <2>4
  <1>7. TablesInv'
    BY <1>3, <1>5, <1>6 DEF TablesInv
  <1> QED
    BY <1>2, <1>7 DEF Serially

(* One movement that starts from the row's quantity.                       *)
LEMMA OneLeadsOn ==
    ASSUME NEW m \in StockMovement
    PROVE  <<m>> \in Seq(StockMovement) /\ LeadsOn(<<m>>, m.before)
  BY DEF LeadsOn

-----------------------------------------------------------------------------
(* The stock handlers.  A step of one keeps the tables, leaves deleted     *)
(* items alone, and finds what it will need next as it is.                 *)
Frozen == \A x \in Rows : stock[x].state = "deleted" => stock'[x].qty = stock[x].qty

StockGoesOn(r) ==
    /\ Serially(r) /\ Frozen
    /\ \E c : call' = [call EXCEPT ![r] = c] /\ StockFits(r, c)'

LEMMA StockEnds ==
    ASSUME NEW r \in StockRequests, Finish(r), tx'[r] = NoTransaction, Serially(r), Frozen
    PROVE  StockGoesOn(r)
  <1> DEFINE c == [NewCall EXCEPT !.pc = "done"]
  <1>1. c.pc = "done"
    BY DEF NewCall
  <1>2. tx'[r].own = {}
    BY DEF NoTransaction
  <1>3. call' = [call EXCEPT ![r] = c]
    BY DEF Finish
  <1> HIDE DEF c
  <1>4. StockFits(r, c)'
    BY <1>1, <1>2 DEF StockFits
  <1> QED
    BY <1>3, <1>4 DEF StockGoesOn

(* Steps that only read, and steps that give up.                           *)
LEMMA StockReads ==
    ASSUME TablesInv, NEW r \in StockRequests, r \in Requests, Others(r), UNCHANGED dbVars, NEW c,
           call' = [call EXCEPT ![r] = c], StockFits(r, c)
    PROVE  StockGoesOn(r)
  <1>1. stock' = stock /\ tx' = tx
    BY DEF dbVars
  <1>2. View(r)' = View(r)
    BY <1>1 DEF View
  <1>3. StockFits(r, c)'
    BY <1>1, <1>2 DEF StockFits
  <1>4. Frozen
    BY <1>1 DEF Frozen
  <1> QED
    BY <1>3, <1>4, TablesSame DEF StockGoesOn

LEMMA StockRejects ==
    ASSUME TablesInv, NEW r \in StockRequests, r \in Requests, Others(r), tx[r] = NoTransaction, UNCHANGED dbVars, Finish(r)
    PROVE  StockGoesOn(r)
  <1>1. stock' = stock /\ tx' = tx
    BY DEF dbVars
  <1>2. Frozen
    BY <1>1 DEF Frozen
  <1> QED
    BY <1>1, <1>2, TablesSame, StockEnds

LEMMA StockGivesUp ==
    ASSUME DbTypeOK, TablesInv, NEW r \in StockRequests, r \in Requests, Others(r), Rollback(r), Finish(r)
    PROVE  StockGoesOn(r)
  <1>1. tx'[r] = NoTransaction /\ Serially(r)
    BY RollbackQuiet, TablesIdle
  <1>2. Frozen
    BY DEF Frozen, Rollback
  <1> QED
    BY <1>1, <1>2, StockEnds

LEMMA StockCommits ==
    ASSUME DbInv, TablesInv, NEW r \in StockRequests, r \in Requests, Others(r), StockFits(r, call[r]),
           Commit(r, {}), Finish(r)
    PROVE  StockGoesOn(r)
  <1>1. Serially(r) /\ DbTypeOK
    BY TablesCommit DEF DbInv
  <1>2. tx'[r] = NoTransaction
    BY <1>1, OutdateQuiet DEF Commit
  <1>3. Frozen
    BY DEF Commit, View, StockFits, Frozen
  <1> QED
    BY <1>1, <1>2, <1>3, StockEnds

LEMMA StockRow ==
    ASSUME DbInv, TablesInv, NEW r \in StockRequests, r \in Requests, Others(r), NEW x \in Rows, NEW v, NEW ms,
           CommitRow(r, x, v, ms), Renews(x, v, ms), stock[x].state = "deleted" => v.qty = stock[x].qty, Finish(r)
    PROVE  StockGoesOn(r)
  <1>1. Serially(r) /\ DbTypeOK
    BY TablesRow DEF DbInv
  <1>2. tx'[r] = NoTransaction
    BY <1>1, OutdateQuiet DEF CommitRow
  <1>3. Frozen
    BY <1>1 DEF CommitRow, Frozen, DbTypeOK
  <1> QED
    BY <1>1, <1>2, <1>3, StockEnds

LEMMA StockWrites ==
    ASSUME DbInv, TablesInv, NEW r \in StockRequests, r \in Requests, Others(r), StockFits(r, call[r]),
           NEW x \in Rows, NEW v, NEW m \in StockMovement,
           WriteRow(r, x, v, m), Amends(r, x, v, m), stock[x].state # "deleted", NEW c,
           call' = [call EXCEPT ![r] = c], c.pc \in {"entry", "bulkFind"}
    PROVE  StockGoesOn(r)
  <1>1. Serially(r) /\ DbTypeOK
    BY TablesWrite DEF DbInv
  <1>2. stock' = stock /\ tx'[r].own = tx[r].own \cup {x}
    BY <1>1, WriteRowEffect
  <1>3. StockFits(r, c)'
    BY <1>2 DEF StockFits
  <1>4. Frozen
    BY <1>2 DEF Frozen
  <1> QED
    BY <1>1, <1>3, <1>4 DEF StockGoesOn

(* A new row takes the place of none, and a movement from 0 starts it.     *)
LEMMA FreshMissing ==
    ASSUME TablesInv, NEW x \in Rows, Fresh(x), NEW r \in Requests
    PROVE  stock[x] = Missing /\ View(r)[x] = Missing
  <1>1. stock[x].state = "absent" /\ x \notin tx[r].own
    BY RowsAssumption DEF Fresh
  <1> QED
    BY <1>1 DEF TablesInv, View

LEMMA FreshRow ==
    ASSUME TablesInv, NEW x \in Rows, Fresh(x), NEW r \in Requests, NEW v, v.state = "active",
           NEW m \in StockMovement, m.before = 0
    PROVE  /\ Amends(r, x, v, m) /\ Renews(x, v, <<m>>)
           /\ stock[x].state # "deleted" /\ Missing.qty = 0
  <1>1. stock[x] = Missing /\ View(r)[x] = Missing
    BY FreshMissing
  <1>2. Missing.qty = 0 /\ Missing.state # "deleted"
    BY DEF Missing
  <1>3. <<m>> \in Seq(StockMovement) /\ LeadsOn(<<m>>, 0)
    BY OneLeadsOn
  <1> QED
    BY <1>1, <1>2, <1>3 DEF Amends, Renews

LEMMA InFrom0 ==
    ASSUME NEW qty \in 0..MaxQty, NEW doc \in Documents
    PROVE  Movement("IN", 0, qty, doc) \in StockMovement /\ Movement("IN", 0, qty, doc).before = 0
  BY RowsAssumption DEF Movement, StockMovement

LEMMA StockSerial ==
    ASSUME StockInv, TablesInv, NEW r \in StockRequests, Others(r), StockFits(r, call[r]), StockStep(r)
    PROVE  StockGoesOn(r)
  <1> DEFINE c == call[r]
  <1> USE CallFacts
  <1>0. DbInv /\ DbTypeOK /\ r \in Requests /\ \A x \in Rows : stock[x] \in StockItem /\ View(r)[x] \in StockItem
    BY DEF DbInv
  <1>a. ASSUME c.pc \notin {"entry", "bulkFind", "bulkWrite"}, UNCHANGED dbVars, Finish(r) PROVE StockGoesOn(r)
    BY <1>0, <1>a, StockRejects DEF StockFits
  <1>b. ASSUME Rollback(r), Finish(r) PROVE StockGoesOn(r)
    BY <1>0, <1>b, StockGivesUp
  <1>c. \A y \in tx[r].own : stock[y].state # "deleted"
    BY DEF StockFits
  <1>d. ASSUME NEW d, call' = [call EXCEPT ![r] = d], UNCHANGED dbVars, c.pc = "new",
               d.pc \in {"entry", "create", "delete", "restore", "bulkFind"}
        PROVE  StockGoesOn(r)
    <2>1. StockFits(r, d)
      BY <1>c, <1>d DEF StockFits
    <2> QED
      BY <1>0, <1>d, <2>1, StockReads
  <1>1. CASE EntryCheckImeis(r)
    <2>1. ASSUME Reject(r) PROVE StockGoesOn(r)
      BY <1>1, <1>a, <2>1 DEF EntryCheckImeis, At, Reject
    <2>2. ASSUME NEW item, NEW imeis, NEW edit, UNCHANGED dbVars,
                 call' = [call EXCEPT ![r].pc = "entry", ![r].item = item, ![r].imeis = imeis, ![r].edit = edit]
          PROVE  StockGoesOn(r)
      <3> DEFINE d == [c EXCEPT !.pc = "entry", !.item = item, !.imeis = imeis, !.edit = edit]
      <3>1. call' = [call EXCEPT ![r] = d] /\ d.pc = "entry"
        BY <2>2 DEF Call
      <3>2. c.pc = "new"
        BY <1>1 DEF EntryCheckImeis, At
      <3> HIDE DEF d
      <3> QED
        BY <1>d, <2>2, <3>1, <3>2
    <2> QED
      BY <1>1, <2>1, <2>2 DEF EntryCheckImeis
  <1>2. CASE EntryInsert(r)
    <2>1. ASSUME NEW imei \in call[r].imeis, NEW x \in Rows, Fresh(x),
                 WriteRow(r, x, [Edited(NewRow(c.item, 1), c.edit) EXCEPT !.imei = imei], Movement("IN", 0, 1, NoDoc)),
                 call' = [call EXCEPT ![r].imeis = @ \ {imei}]
          PROVE  StockGoesOn(r)
      <3> DEFINE d == [c EXCEPT !.imeis = @ \ {imei}]
                 edited == Edited(NewRow(c.item, 1), c.edit)
                 v == [edited EXCEPT !.imei = imei]
                 m == Movement("IN", 0, 1, NoDoc)
      <3>1. call' = [call EXCEPT ![r] = d] /\ d.pc = "entry"
        BY <1>2, <2>1 DEF Call, EntryInsert, At
      <3>2. c.item \in Items \cup {NoItem} /\ c.edit \in EditBody
        BY DEF Call
      <3>3. edited \in StockItem /\ edited.state = "active"
        <4>1. NewRow(c.item, 1) \in StockItem /\ edited \in StockItem
          BY <3>2, NewRowType, NewEditedType
        <4>2. edited.state = NewRow(c.item, 1).state
          BY <3>2, <4>1, BuiltRows
        <4> QED
          BY <4>1, <4>2, BuiltRows DEF NewRow, Missing
      <3>4. WriteRow(r, x, v, m)
        BY <2>1
      <3> HIDE DEF edited
      <3>5. v.state = "active"
        BY <3>3 DEF StockItem
      <3>6. m \in StockMovement /\ m.before = 0
        BY InFrom0
      <3> HIDE DEF d, v, m
      <3> QED
        BY <1>0, <2>1, <3>1, <3>4, <3>5, <3>6, FreshRow, StockWrites
    <2> QED
      BY <1>2, <1>b, <2>1 DEF EntryInsert
  <1>3. CASE EntryCommit(r) \/ BulkCommit(r)
    BY <1>0, <1>3, <1>b, StockCommits DEF EntryCommit, BulkCommit, BulkEnds
  <1>4. CASE EntryQuantity(r)
    <2>1. PICK item \in Items, qty \in Quantities, edit \in EntryBodies, x \in Rows :
             Fresh(x) /\ CommitRow(r, x, Edited(NewRow(item, qty), edit), <<Movement("IN", 0, qty, NoDoc)>>)
      BY <1>4 DEF EntryQuantity
    <2> DEFINE v == Edited(NewRow(item, qty), edit)
               m == Movement("IN", 0, qty, NoDoc)
    <2>2. v.state = "active"
      BY StockInputs, NewRowType, BuiltRows DEF EntryBodies
    <2>3. m \in StockMovement /\ m.before = 0
      BY InFrom0
    <2>4. CommitRow(r, x, v, <<m>>) /\ Finish(r) /\ Fresh(x)
      BY <1>4, <2>1 DEF EntryQuantity
    <2> HIDE DEF v, m
    <2> QED
      BY <1>0, <2>2, <2>3, <2>4, FreshRow, StockRow
  <1>5. CASE CreateCheckImei(r)
    <2>1. ASSUME Reject(r) PROVE StockGoesOn(r)
      BY <1>5, <1>a, <2>1 DEF CreateCheckImei, At, Reject
    <2>2. ASSUME NEW qty, NEW edit, UNCHANGED dbVars,
                 call' = [call EXCEPT ![r].pc = "create", ![r].after = qty, ![r].edit = edit]
          PROVE  StockGoesOn(r)
      <3> DEFINE d == [c EXCEPT !.pc = "create", !.after = qty, !.edit = edit]
      <3>1. call' = [call EXCEPT ![r] = d] /\ d.pc = "create"
        BY <2>2 DEF Call
      <3>2. c.pc = "new"
        BY <1>5 DEF CreateCheckImei, At
      <3> HIDE DEF d
      <3> QED
        BY <1>d, <2>2, <3>1, <3>2
    <2> QED
      BY <1>5, <2>1, <2>2 DEF CreateCheckImei
  <1>6. CASE CreateInsert(r)
    <2>1. ASSUME UNCHANGED dbVars PROVE StockGoesOn(r)
      BY <1>6, <1>a, <2>1 DEF CreateInsert, At
    <2>2. ASSUME LegacyItem \in Items, NEW x \in Rows, Fresh(x),
                 CommitRow(r, x, Edited(NewRow(LegacyItem, c.after), c.edit), <<Movement("IN", 0, c.after, NoDoc)>>)
          PROVE  StockGoesOn(r)
      <3> DEFINE v == Edited(NewRow(LegacyItem, c.after), c.edit)
                 m == Movement("IN", 0, c.after, NoDoc)
      <3>1. c.after \in 0..MaxQty /\ c.edit \in EditBody
        BY DEF Call
      <3>2. v.state = "active"
        BY <2>2, <3>1, NewRowType, BuiltRows
      <3>3. m \in StockMovement /\ m.before = 0
        BY <3>1, InFrom0
      <3>4. CommitRow(r, x, v, <<m>>) /\ Finish(r)
        BY <1>6, <2>2 DEF CreateInsert
      <3> HIDE DEF v, m
      <3> QED
        BY <1>0, <2>2, <3>2, <3>3, <3>4, FreshRow, StockRow
    <2> QED
      BY <1>6, <2>1, <2>2 DEF CreateInsert
  <1>7. CASE UpdateRead(r)
    <2>1. ASSUME Reject(r) PROVE StockGoesOn(r)
      BY <1>7, <1>a, <2>1 DEF UpdateRead, At, Reject
    <2>2. ASSUME NEW x \in Rows, NEW edit \in Edits, ~UpdateRefused(x, edit), UNCHANGED dbVars,
                 call' = [call EXCEPT ![r].pc = "update", ![r].row = x, ![r].edit = edit]
          PROVE  StockGoesOn(r)
      <3> DEFINE d == [c EXCEPT !.pc = "update", !.row = x, !.edit = edit]
      <3>1. call' = [call EXCEPT ![r] = d] /\ d.pc = "update" /\ d.row = x /\ d.edit = edit
        BY <2>2 DEF Call
      <3>2. c.pc = "new"
        BY <1>7 DEF UpdateRead, At
      <3> HIDE DEF d
      <3>3. StockFits(r, d)
        BY <1>c, <2>2, <3>1, <3>2 DEF StockFits, UpdateRefused, Active
      <3> QED
        BY <1>0, <2>2, <3>1, <3>3, StockReads
    <2> QED
      BY <1>7, <2>1, <2>2 DEF UpdateRead
  <1>8. CASE UpdateWrite(r)
    <2>1. ASSUME UNCHANGED dbVars PROVE StockGoesOn(r)
      BY <1>8, <1>a, <2>1 DEF UpdateWrite, At
    <2> DEFINE x == c.row
               v == Edited(stock[x], c.edit)
    <2>2. x \in Rows /\ c.edit \in EditBody
      BY <1>8 DEF UpdateWrite, At, StockInv, Call
    <2>3. stock[x].state # "absent"
      BY <1>8 DEF UpdateWrite, At, StockFits
    <2>4. v.state = stock[x].state /\ v.qty = stock[x].qty
      BY <1>0, <2>2, EditedType, BuiltRows
    <2>6. Renews(x, v, <<>>)
      BY <2>3, <2>4 DEF Renews
    <2>7. ASSUME CommitRow(r, x, v, <<>>) PROVE StockGoesOn(r)
      <3>1. Finish(r)
        BY <1>8 DEF UpdateWrite
      <3> HIDE DEF v, x
      <3> QED
        BY <1>0, <2>2, <2>4, <2>6, <2>7, <3>1, StockRow
    <2> QED
      BY <1>8, <2>1, <2>7 DEF UpdateWrite
  <1>9. CASE DeleteRead(r) \/ RestoreRead(r)
    <2>1. ASSUME Reject(r) PROVE StockGoesOn(r)
      BY <1>9, <1>a, <2>1 DEF DeleteRead, RestoreRead, At, Reject
    <2>2. ASSUME NEW x, NEW pc \in {"delete", "restore"}, UNCHANGED dbVars,
                 call' = [call EXCEPT ![r].pc = pc, ![r].row = x]
          PROVE  StockGoesOn(r)
      <3> DEFINE d == [c EXCEPT !.pc = pc, !.row = x]
      <3>1. call' = [call EXCEPT ![r] = d] /\ d.pc \in {"delete", "restore"}
        BY <2>2 DEF Call
      <3>2. c.pc = "new"
        BY <1>9 DEF DeleteRead, RestoreRead, At
      <3> HIDE DEF d
      <3> QED
        BY <1>d, <2>2, <3>1, <3>2
    <2> QED
      BY <1>9, <2>1, <2>2 DEF DeleteRead, RestoreRead
  <1>10. CASE DeleteWrite(r) \/ RestoreWrite(r)
    <2>1. c.row \in Rows
      BY <1>10 DEF DeleteWrite, RestoreWrite, At, StockInv
    <2>2. ASSUME NEW s \in {"active", "deleted"}, CommitRow(r, c.row, [stock[c.row] EXCEPT !.state = s], <<>>), Finish(r)
          PROVE  StockGoesOn(r)
      <3> DEFINE v == [stock[c.row] EXCEPT !.state = s]
      <3>1. v.state = s /\ v.qty = stock[c.row].qty /\ v.status = stock[c.row].status
        BY <1>0, <2>1 DEF StockItem
      <3>2. CommitRow(r, c.row, v, <<>>)
        BY <2>2
      <3> HIDE DEF v
      <3>3. Renews(c.row, v, <<>>)
        BY <3>1 DEF Renews
      <3> QED
        BY <1>0, <2>1, <2>2, <3>1, <3>2, <3>3, StockRow
    <2> QED
      BY <1>10, <2>2 DEF DeleteWrite, RestoreWrite
  <1>11. CASE AdjustRead(r)
    <2>1. ASSUME Reject(r) PROVE StockGoesOn(r)
      BY <1>11, <1>a, <2>1 DEF AdjustRead, At, Reject
    <2>2. ASSUME NEW x \in Rows, NEW after, Active(x), UNCHANGED dbVars,
                 call' = [call EXCEPT ![r].pc = "adjust", ![r].row = x, ![r].before = stock[x].qty, ![r].after = after]
          PROVE  StockGoesOn(r)
      <3> DEFINE d == [c EXCEPT !.pc = "adjust", !.row = x, !.before = stock[x].qty, !.after = after]
      <3>1. call' = [call EXCEPT ![r] = d] /\ d.pc = "adjust" /\ d.row = x /\ d.before = stock[x].qty
        BY <2>2 DEF Call
      <3>2. c.pc = "new"
        BY <1>11 DEF AdjustRead, At
      <3> HIDE DEF d
      <3>3. StockFits(r, d)
        BY <1>c, <2>2, <3>1, <3>2 DEF StockFits, Active
      <3> QED
        BY <1>0, <2>2, <3>1, <3>3, StockReads
    <2> QED
      BY <1>11, <2>1, <2>2 DEF AdjustRead, AdjustRefused
  <1>12. CASE AdjustWrite(r)
    <2> DEFINE x == c.row
               v == [stock[x] EXCEPT !.qty = c.after]
               m == Movement("ADJUST", c.before, c.after, NoDoc)
    <2>1. x \in Rows /\ c.before \in 0..MaxQty /\ c.after \in 0..MaxQty
      BY <1>12 DEF AdjustWrite, At, StockInv, Call
    <2>2. stock[x].state = "active" /\ c.before = stock[x].qty
      BY <1>12 DEF AdjustWrite, At, StockFits
    <2>3. v.state = "active" /\ v.status = stock[x].status
      BY <1>0, <2>1, <2>2 DEF StockItem
    <2>4. m \in StockMovement /\ m.before = stock[x].qty
      BY <2>1, <2>2, MovementType DEF Movement
    <2>5. CommitRow(r, x, v, <<m>>) /\ Finish(r)
      BY <1>12 DEF AdjustWrite
    <2> HIDE DEF v, m, x
    <2>6. <<m>> \in Seq(StockMovement) /\ LeadsOn(<<m>>, stock[x].qty)
      BY <2>4, OneLeadsOn
    <2>7. Renews(x, v, <<m>>)
      BY <2>3, <2>6 DEF Renews
    <2> QED
      BY <1>0, <2>1, <2>2, <2>5, <2>7, StockRow
  <1>13. CASE BulkStart(r)
    <2>1. PICK orders : call' = [call EXCEPT ![r].pc = "bulkFind", ![r].asked = orders, ![r].orders = orders]
      BY <1>13 DEF BulkStart
    <2> DEFINE d == [c EXCEPT !.pc = "bulkFind", !.asked = orders, !.orders = orders]
    <2>2. call' = [call EXCEPT ![r] = d] /\ d.pc = "bulkFind"
      BY <2>1 DEF Call
    <2>3. c.pc = "new" /\ UNCHANGED dbVars
      BY <1>13 DEF BulkStart, At
    <2> HIDE DEF d
    <2> QED
      BY <1>d, <2>2, <2>3
  <1>e. ASSUME NEW item, c.pc = "bulkFind", BulkSkip(r, item) PROVE StockGoesOn(r)
    <2> DEFINE d == [c EXCEPT !.failed = TRUE, !.orders[item] = 0]
    <2>1. call' = [call EXCEPT ![r] = d] /\ d.pc = "bulkFind"
      BY <1>e DEF BulkSkip, Call
    <2> HIDE DEF d
    <2>2. StockFits(r, d)
      BY <1>c, <2>1 DEF StockFits
    <2> QED
      BY <1>0, <1>e, <2>1, <2>2, StockReads DEF BulkSkip
  <1>14. CASE BulkFind(r)
    <2>1. ASSUME NEW item, NEW x \in NonSerialized(r, item), NEW after, UNCHANGED dbVars,
                 call' = [call EXCEPT ![r].pc = "bulkWrite", ![r].row = x, ![r].item = item,
                                      ![r].before = View(r)[x].qty, ![r].after = after]
          PROVE  StockGoesOn(r)
      <3> DEFINE d == [c EXCEPT !.pc = "bulkWrite", !.row = x, !.item = item,
                                !.before = View(r)[x].qty, !.after = after]
      <3>1. call' = [call EXCEPT ![r] = d] /\ d.pc = "bulkWrite" /\ d.row = x /\ d.before = View(r)[x].qty
        BY <2>1 DEF Call
      <3>2. View(r)[x].state = "active"
        BY DEF NonSerialized
      <3> HIDE DEF d
      <3>3. StockFits(r, d)
        BY <1>c, <3>1, <3>2 DEF StockFits
      <3> QED
        BY <1>0, <2>1, <3>1, <3>3, StockReads
    <2>2. \/ \E item : BulkSkip(r, item)
          \/ \E item : \E x \in NonSerialized(r, item) :
                /\ \E after : call' = [call EXCEPT ![r].pc = "bulkWrite", ![r].row = x, ![r].item = item,
                                                 ![r].before = View(r)[x].qty, ![r].after = after]
                /\ UNCHANGED dbVars
      BY <1>14 DEF BulkFind
    <2>3. c.pc = "bulkFind"
      BY <1>14 DEF BulkFind, At
    <2>4. ASSUME NEW item, BulkSkip(r, item) PROVE StockGoesOn(r)
      BY <1>e, <2>3, <2>4
    <2>5. CASE ~\E item : BulkSkip(r, item)
      <3>0. PICK item : \E x \in NonSerialized(r, item) :
               /\ \E after : call' = [call EXCEPT ![r].pc = "bulkWrite", ![r].row = x, ![r].item = item,
                                                ![r].before = View(r)[x].qty, ![r].after = after]
               /\ UNCHANGED dbVars
        BY <2>2, <2>5
      <3>1. PICK x \in NonSerialized(r, item) :
               /\ \E after : call' = [call EXCEPT ![r].pc = "bulkWrite", ![r].row = x, ![r].item = item,
                                                ![r].before = View(r)[x].qty, ![r].after = after]
               /\ UNCHANGED dbVars
        BY <3>0
      <3>2. PICK after : call' = [call EXCEPT ![r].pc = "bulkWrite", ![r].row = x, ![r].item = item,
                                              ![r].before = View(r)[x].qty, ![r].after = after]
        BY <3>1
      <3> QED
        BY <2>1, <3>1, <3>2
    <2> QED
      BY <2>4, <2>5
  <1>15. CASE BulkCreate(r)
    <2>1. ASSUME NEW item \in Items, NEW x \in Rows, Fresh(x), ~(c.orders[item] > MaxQty),
                 WriteRow(r, x, NewRow(item, c.orders[item]), Movement("IN", 0, c.orders[item], NoDoc)),
                 NEW auditFails, call' = [call EXCEPT ![r].orders[item] = 0, ![r].failed = @ \/ auditFails]
          PROVE  StockGoesOn(r)
      <3> DEFINE d == [c EXCEPT !.orders[item] = 0, !.failed = @ \/ auditFails]
                 after == c.orders[item]
      <3>1. call' = [call EXCEPT ![r] = d] /\ d.pc = "bulkFind"
        BY <1>15, <2>1 DEF Call, BulkCreate, At
      <3>2. after \in 0..MaxQty
        BY <2>1, RowsAssumption DEF Call
      <3> HIDE DEF d, after
      <3> DEFINE v == NewRow(item, after)
                 m == Movement("IN", 0, after, NoDoc)
      <3>3. v.state = "active"
        BY DEF NewRow, Missing
      <3>4. m \in StockMovement /\ m.before = 0
        BY <3>2, InFrom0
      <3>5. WriteRow(r, x, v, m)
        BY <2>1 DEF after
      <3> HIDE DEF v, m
      <3> QED
        BY <1>0, <2>1, <3>1, <3>3, <3>4, <3>5, FreshRow, StockWrites
    <2> QED
      BY <1>15, <1>e, <2>1 DEF BulkCreate, Ordered, At
  <1>16. CASE BulkWrite(r)
    <2>0. PICK auditFails \in BOOLEAN :
             call' = [call EXCEPT ![r].pc = "bulkFind", ![r].row = NoRow, ![r].orders[call[r].item] = 0,
                                  ![r].failed = @ \/ auditFails]
      BY <1>16 DEF BulkWrite
    <2> DEFINE d == [c EXCEPT !.pc = "bulkFind", !.row = NoRow, !.orders[c.item] = 0, !.failed = @ \/ auditFails]
               x == c.row
               v == [View(r)[x] EXCEPT !.qty = c.after]
               m == Movement("IN", c.before, c.after, NoDoc)
    <2>1. x \in Rows /\ c.before \in 0..MaxQty /\ c.after \in 0..MaxQty
      BY <1>16 DEF BulkWrite, At, StockInv, Call
    <2>2. View(r)[x].state = "active" /\ c.before = View(r)[x].qty
      BY <1>16 DEF BulkWrite, At, StockFits
    <2>3. v.state = "active"
      BY <1>0, <2>1, <2>2 DEF StockItem
    <2>4. m \in StockMovement /\ m.before = View(r)[x].qty
      BY <2>1, <2>2, MovementType DEF Movement
    <2>5. WriteRow(r, x, v, m)
      BY <1>16 DEF BulkWrite
    <2>6. call' = [call EXCEPT ![r] = d] /\ d.pc = "bulkFind"
      BY <2>0 DEF Call
    <2>7. stock[x].state # "deleted"
      BY <1>c, <2>1, <2>2 DEF View
    <2> HIDE DEF d, v, m, x
    <2>8. Amends(r, x, v, m)
      BY <2>3, <2>4 DEF Amends
    <2> QED
      BY <1>0, <2>1, <2>4, <2>5, <2>6, <2>7, <2>8, StockWrites
  <1>17. CASE Abandon(r)
    BY <1>17, <1>b DEF Abandon
  <1> QED
    BY <1>1, <1>2, <1>3, <1>4, <1>5, <1>6, <1>7, <1>8, <1>9, <1>10, <1>11, <1>12, <1>13, <1>14, <1>15, <1>16, <1>17
       DEF StockStep, Continue

-----------------------------------------------------------------------------
(* The sale handlers, in the same way.                                     *)
SaleGoesOn(r) ==
    /\ Serially(r) /\ SaleTable'
    /\ \E c : saleCall' = [saleCall EXCEPT ![r] = c] /\ SaleFits(r, c)'

LEMMA SaleEnds ==
    ASSUME NEW r \in SaleRequests, EndSaleCall(r), tx'[r] = NoTransaction, Serially(r), SaleTable'
    PROVE  SaleGoesOn(r)
  <1> DEFINE c == [NewSaleCall EXCEPT !.pc = "done"]
  <1>1. c.pc = "done" /\ saleCall' = [saleCall EXCEPT ![r] = c]
    BY DEF NewSaleCall, EndSaleCall
  <1> HIDE DEF c
  <1>2. SaleFits(r, c)'
    BY <1>1 DEF SaleFits
  <1> QED
    BY <1>1, <1>2 DEF SaleGoesOn

LEMMA SaleReadsOn ==
    ASSUME TablesInv, SaleTable, NEW r \in SaleRequests, r \in Requests, Others(r),
           UNCHANGED <<stock, ledger, tx, sale>>, NEW c, saleCall' = [saleCall EXCEPT ![r] = c], SaleFits(r, c)
    PROVE  SaleGoesOn(r)
  <1>1. Serially(r)
    BY TablesSame DEF dbVars
  <1>2. SaleFits(r, c)'
    BY DEF SaleFits
  <1>3. SaleTable'
    BY DEF SaleTable
  <1> QED
    BY <1>1, <1>2, <1>3 DEF SaleGoesOn

LEMMA SaleRejects ==
    ASSUME TablesInv, SaleTable, NEW r \in SaleRequests, r \in Requests, Others(r), tx[r] = NoTransaction, RejectSale(r)
    PROVE  SaleGoesOn(r)
  <1>1. Serially(r)
    BY TablesSame DEF dbVars, RejectSale
  <1>2. SaleTable' /\ tx'[r] = NoTransaction
    BY DEF SaleTable, RejectSale
  <1> QED
    BY <1>1, <1>2, SaleEnds DEF RejectSale

LEMMA SaleGivesUp ==
    ASSUME DbTypeOK, TablesInv, SaleTable, NEW r \in SaleRequests, r \in Requests, Others(r), Rollback(r),
           EndSaleCall(r), UNCHANGED sale
    PROVE  SaleGoesOn(r)
  <1>1. tx'[r] = NoTransaction /\ Serially(r)
    BY RollbackQuiet, TablesIdle
  <1>2. SaleTable'
    BY DEF SaleTable
  <1> QED
    BY <1>1, <1>2, SaleEnds

(* A read of a sale that the handler admits, and its write.                *)
LEMMA SaleReadOn ==
    ASSUME SalesInv, TablesInv, SaleTable, NEW r \in SaleRequests, Others(r), SaleFits(r, saleCall[r]),
           NEW pc \in {"update", "payStock", "cancel", "ship", "deliver", "delete", "restore"},
           NEW admitted, ReadSale(r, pc, admitted),
           \A s \in admitted \cap Sales :
              /\ pc \in {"payStock", "delete"} => sale[s].status = "DRAFT"
              /\ pc \in {"payStock", "cancel", "deliver"} => ~sale[s].deleted
              /\ pc = "cancel" => sale[s].status \in {"DRAFT", "PAID"}
              /\ pc = "ship" => sale[s].status = "PAID"
              /\ pc = "deliver" => sale[s].status = "SHIPPED"
    PROVE  SaleGoesOn(r)
  <1> DEFINE c == saleCall[r]
  <1>1. r \in Requests /\ c \in SaleCall /\ tx[r] = NoTransaction /\ saleCall \in [SaleRequests -> SaleCall]
    BY SaleFacts DEF ReadSale, SaleAt, SaleFits
  <1>2. ASSUME NEW s \in Sales, s \in admitted,
               saleCall' = [saleCall EXCEPT ![r].pc = pc, ![r].sale = s, ![r].lines = sale[s].lines],
               UNCHANGED <<stock, ledger, tx, sale>>
        PROVE  SaleGoesOn(r)
    <2> DEFINE d == [c EXCEPT !.pc = pc, !.sale = s, !.lines = sale[s].lines]
    <2>1. saleCall' = [saleCall EXCEPT ![r] = d] /\ d.pc = pc /\ d.sale = s
      BY <1>1, <1>2 DEF SaleCall
    <2> HIDE DEF d
    <2>2. SaleFits(r, d)
      BY <1>1, <1>2, <2>1 DEF SaleFits
    <2> QED
      BY <1>1, <1>2, <2>1, <2>2, SaleReadsOn
  <1>3. ASSUME RejectSale(r) PROVE SaleGoesOn(r)
    BY <1>1, <1>3, SaleRejects
  <1> QED
    BY <1>2, <1>3 DEF ReadSale

LEMMA SaleWriteOn ==
    ASSUME SalesInv, TablesInv, SaleTable, NEW r \in SaleRequests, Others(r),
           NEW new, saleCall[r].pc \notin {"new", "create", "done"}, WriteSale(r, new), new.lines = This(r).lines,
           \/ new.status = This(r).status /\ new.stamps = This(r).stamps
           \/ new.status \notin {"NONE", "DRAFT"}
    PROVE  SaleGoesOn(r)
  <1> DEFINE s == saleCall[r].sale
  <1>1. DbTypeOK /\ r \in Requests /\ s \in Sales /\ sale \in [Sales -> Sale]
    BY SaleFacts DEF SalesInv, DbInv
  <1>2. Serially(r) /\ tx'[r] = NoTransaction
    BY <1>1, TablesIdle, OutdateQuiet DEF WriteSale, CommitDocs
  <1>3. SaleTable'
    BY <1>1 DEF WriteSale, SaleTable, This
  <1> QED
    BY <1>2, <1>3, SaleEnds DEF WriteSale

LEMMA SaleReadsSerial ==
    ASSUME SalesInv, TablesInv, SaleTable, NEW r \in SaleRequests, Others(r), SaleFits(r, saleCall[r]),
           \/ UpdateSaleRead(r) \/ PayRead(r) \/ CancelRead(r) \/ ShipRead(r)
           \/ DeliverRead(r) \/ DeleteSaleRead(r) \/ RestoreSaleRead(r)
    PROVE  SaleGoesOn(r)
  <1>1. \A s \in Sales : sale[s].status \in SaleStatus \cup {"NONE"}
    BY SaleFacts DEF Sale
  <1>2. CASE UpdateSaleRead(r)
    BY <1>2, SaleReadOn DEF UpdateSaleRead
  <1>3. CASE PayRead(r)
    <2>1. \A s \in Kept \cap Having({"DRAFT"}) : sale[s].status = "DRAFT" /\ ~sale[s].deleted
      BY DEF Kept, Having
    <2> QED
      BY <1>3, <2>1, SaleReadOn DEF PayRead
  <1>4. CASE CancelRead(r)
    <2>1. \A s \in Kept \ Having({"SHIPPED", "DELIVERED", "CANCELLED"}) :
             sale[s].status \in {"DRAFT", "PAID"} /\ ~sale[s].deleted
      BY <1>1 DEF Kept, Having, SaleStatus
    <2> QED
      BY <1>4, <2>1, SaleReadOn DEF CancelRead
  <1>5. CASE ShipRead(r)
    <2>1. \A s \in Having({"PAID"}) : sale[s].status = "PAID"
      BY DEF Having
    <2> QED
      BY <1>5, <2>1, SaleReadOn DEF ShipRead
  <1>6. CASE DeliverRead(r)
    <2>1. \A s \in Kept \cap Having({"SHIPPED"}) : sale[s].status = "SHIPPED" /\ ~sale[s].deleted
      BY DEF Kept, Having
    <2> QED
      BY <1>6, <2>1, SaleReadOn DEF DeliverRead
  <1>7. CASE DeleteSaleRead(r)
    <2>1. \A s \in Kept \cap Having({"DRAFT"}) : sale[s].status = "DRAFT"
      BY DEF Having
    <2> QED
      BY <1>7, <2>1, SaleReadOn DEF DeleteSaleRead
  <1>8. CASE RestoreSaleRead(r)
    BY <1>8, SaleReadOn DEF RestoreSaleRead
  <1> QED
    BY <1>2, <1>3, <1>4, <1>5, <1>6, <1>7, <1>8

LEMMA SaleWritesSerial ==
    ASSUME SalesInv, TablesInv, SaleTable, NEW r \in SaleRequests, Others(r),
           \/ UpdateSaleWrite(r) \/ CancelWrite(r) \/ ShipWrite(r)
           \/ DeliverWrite(r) \/ DeleteSaleWrite(r) \/ RestoreSaleWrite(r)
    PROVE  SaleGoesOn(r)
  <1> DEFINE old == This(r)
  <1>0. saleCall[r].pc \notin {"new", "create", "done"}
    BY DEF UpdateSaleWrite, CancelWrite, ShipWrite, DeliverWrite, DeleteSaleWrite, RestoreSaleWrite, SaleAt
  <1>1. old \in Sale
    BY <1>0, SaleFacts DEF This, SaleCallOK
  <1>2. ASSUME NEW new, WriteSale(r, new), new.lines = old.lines,
               \/ new.status = old.status /\ new.stamps = old.stamps
               \/ new.status \notin {"NONE", "DRAFT"}
        PROVE  SaleGoesOn(r)
    BY <1>0, <1>2, SaleWriteOn
  <1> HIDE DEF old
  <1>3. ASSUME NEW d, WriteSale(r, [old EXCEPT !.discount = d]) PROVE SaleGoesOn(r)
    BY <1>1, <1>2, <1>3 DEF Sale
  <1>4. ASSUME NEW d, WriteSale(r, [old EXCEPT !.deleted = d]) PROVE SaleGoesOn(r)
    BY <1>1, <1>2, <1>4 DEF Sale
  <1>5. ASSUME WriteSale(r, [old EXCEPT !.status = "CANCELLED"]) PROVE SaleGoesOn(r)
    BY <1>1, <1>2, <1>5 DEF Sale
  <1>6. ASSUME NEW status \in {"SHIPPED", "DELIVERED"}, NEW stamp,
               WriteSale(r, [old EXCEPT !.status = status, !.stamps = @ \cup {stamp}])
        PROVE  SaleGoesOn(r)
    BY <1>1, <1>2, <1>6 DEF Sale
  <1> QED
    BY <1>3, <1>4, <1>5, <1>6 DEF UpdateSaleWrite, CancelWrite, ShipWrite, DeliverWrite, DeleteSaleWrite,
                                  RestoreSaleWrite, old

LEMMA SaleCreateSerial ==
    ASSUME SalesInv, TablesInv, SaleTable, NEW r \in SaleRequests, Others(r), SaleFits(r, saleCall[r]),
           CreateSaleRead(r) \/ CreateSaleWrite(r)
    PROVE  SaleGoesOn(r)
  <1> DEFINE c == saleCall[r]
  <1>1. /\ r \in Requests /\ c \in SaleCall /\ tx[r] = NoTransaction
        /\ saleCall \in [SaleRequests -> SaleCall] /\ sale \in [Sales -> Sale]
    BY SaleFacts DEF CreateSaleRead, CreateSaleWrite, SaleAt, SaleFits
  <1>2. CASE CreateSaleRead(r)
    <2>1. ASSUME NEW cart \in Carts, saleCall' = [saleCall EXCEPT ![r].pc = "create", ![r].lines = cart],
                 UNCHANGED <<stock, ledger, tx, sale>>
          PROVE  SaleGoesOn(r)
      <3> DEFINE d == [c EXCEPT !.pc = "create", !.lines = cart]
      <3>1. saleCall' = [saleCall EXCEPT ![r] = d] /\ d.pc = "create" /\ d.lines = cart
        BY <1>1, <2>1 DEF SaleCall
      <3> HIDE DEF d
      <3>2. SaleFits(r, d)
        BY <1>1, <3>1 DEF SaleFits, NoTwinLines
      <3> QED
        BY <1>1, <2>1, <3>1, <3>2, SaleReadsOn
    <2>2. ASSUME RejectSale(r) PROVE SaleGoesOn(r)
      BY <1>1, <2>2, SaleRejects
    <2> QED
      BY <1>2, <2>1, <2>2 DEF CreateSaleRead
  <1>3. CASE CreateSaleWrite(r)
    <2>1. PICK s \in Sales : sale' = [sale EXCEPT ![s] = [NoSale EXCEPT !.status = "DRAFT", !.lines = c.lines]]
      BY <1>3 DEF CreateSaleWrite
    <2>2. sale'[s].stamps = {} /\ sale'[s].lines = c.lines
      BY <1>1, <2>1 DEF NoSale
    <2>3. \A o \in Sales \ {s} : sale'[o] = sale[o]
      BY <1>1, <2>1
    <2>4. NoTwinLines => OncePerRow(c.lines)
      BY <1>3 DEF CreateSaleWrite, SaleAt, SaleFits
    <2>5. SaleTable'
      <3>1. ASSUME NEW o \in Sales
            PROVE  /\ sale'[o].status \in {"NONE", "DRAFT"} => "paid" \notin sale'[o].stamps
                   /\ NoTwinLines => OncePerRow(sale'[o].lines)
        <4>1. CASE o = s
          BY <2>2, <2>4, <4>1
        <4>2. CASE o # s
          BY <2>3, <4>2 DEF SaleTable
        <4> QED
          BY <4>1, <4>2
      <3> QED
        BY <3>1 DEF SaleTable
    <2>6. UNCHANGED dbVars /\ EndSaleCall(r)
      BY <1>3 DEF CreateSaleWrite
    <2>7. Serially(r)
      BY <1>1, <2>6, TablesSame
    <2>8. tx'[r] = NoTransaction
      BY <1>1, <2>6 DEF dbVars
    <2> QED
      BY <2>5, <2>6, <2>7, <2>8, SaleEnds
  <1> QED
    BY <1>2, <1>3

(* A payment works through its lines in order.                             *)
LEMMA LinesDoneStep ==
    ASSUME NEW c \in SaleCall, NEW d \in SaleCall, d.lines = c.lines, d.k = c.k + 1, c.k \in DOMAIN c.lines, NEW x \in Rows
    PROVE  /\ IsFiniteSet(LinesDone(c, x))
           /\ c.lines[c.k].row # x => Cardinality(LinesDone(d, x)) = Cardinality(LinesDone(c, x))
           /\ c.lines[c.k].row = x => Cardinality(LinesDone(d, x)) = Cardinality(LinesDone(c, x)) + 1
  <1>1. c.lines \in Seq(Line) /\ c.k \in Nat
    BY DEF SaleCall
  <1>2. DOMAIN c.lines = 1..Len(c.lines) /\ Len(c.lines) \in Nat
    BY <1>1
  <1>3. LinesDone(c, x) \subseteq 1..Len(c.lines)
    BY <1>2 DEF LinesDone, StockLines
  <1>4. IsFiniteSet(LinesDone(c, x))
    <2>1. IsFiniteSet(1..Len(c.lines))
      BY <1>2, FS_Interval
    <2> QED
      BY <1>3, <2>1, FS_Subset
  <1>5. \A k \in DOMAIN c.lines : k < d.k <=> k < c.k \/ k = c.k
    BY <1>1, <1>2
  <1>6. CASE c.lines[c.k].row # x
    <2>1. LinesDone(d, x) = LinesDone(c, x)
      BY <1>5, <1>6 DEF LinesDone, StockLines
    <2> QED
      BY <1>4, <1>6, <2>1
  <1>7. CASE c.lines[c.k].row = x
    <2>1. x # NoRow
      BY SentinelAssumption
    <2>2. LinesDone(d, x) = LinesDone(c, x) \cup {c.k}
      BY <1>5, <1>7, <2>1 DEF LinesDone, StockLines
    <2>3. c.k \notin LinesDone(c, x)
      BY <1>1 DEF LinesDone
    <2> HIDE DEF LinesDone
    <2> QED
      BY <1>4, <1>7, <2>2, <2>3, FS_AddElement
  <1> QED
    BY <1>4, <1>6, <1>7

LEMMA LinesDoneNone ==
    ASSUME NEW c \in SaleCall, c.k = 1, NEW x \in Rows
    PROVE  LinesDone(c, x) = {}
  <1>1. \A k \in DOMAIN c.lines : ~(k < 1)
    BY DEF SaleCall
  <1> QED
    BY <1>1 DEF LinesDone, StockLines

LEMMA SalePayStarts ==
    ASSUME SalesInv, PaymentInv, TablesInv, SaleTable, NEW r \in SaleRequests, Others(r), SaleFits(r, saleCall[r]),
           PayReadStock(r) \/ PayBegin(r)
    PROVE  SaleGoesOn(r)
  <1> DEFINE c == saleCall[r]
  <1>1. /\ r \in Requests /\ c \in SaleCall /\ tx[r] = NoTransaction
        /\ saleCall \in [SaleRequests -> SaleCall] /\ DbTypeOK
    BY SaleFacts DEF PayReadStock, PayBegin, SaleAt, SaleFits, DbInv
  <1>2. CASE PayReadStock(r)
    <2> DEFINE seen == [x \in Rows |-> IF x \in {c.lines[k].row : k \in StockLines(c.lines)}
                                      THEN stock[x] ELSE Missing]
               d == [c EXCEPT !.pc = "payBegin", !.seen = seen]
    <2>1. saleCall' = [saleCall EXCEPT ![r] = d] /\ UNCHANGED <<stock, ledger, tx, sale>> /\ c.pc = "payStock"
      BY <1>1, <1>2 DEF PayReadStock, SaleAt, SaleCall
    <2>2. d.pc = "payBegin" /\ d.sale = c.sale /\ d.lines = c.lines /\ d.seen = seen
      BY <1>1 DEF SaleCall
    <2>3. \A k \in StockLines(c.lines) : c.lines[k].row \in Rows
      <3>1. c.lines \in Seq(Line)
        BY <1>1 DEF SaleCall
      <3>2. \A k \in DOMAIN c.lines : c.lines[k] \in Line
        BY <3>1
      <3> QED
        BY <3>2 DEF StockLines, Line
    <2>4. \A k \in StockLines(c.lines) : seen[c.lines[k].row] = stock[c.lines[k].row]
      BY <2>3
    <2> HIDE DEF seen, d
    <2>5. SaleFits(r, d)
      BY <1>1, <2>1, <2>2, <2>4 DEF SaleFits
    <2> QED
      BY <1>1, <2>1, <2>5, SaleReadsOn
  <1>3. CASE PayBegin(r)
    <2>0. PICK d : d = [c EXCEPT !.pc = "payTx"]
      OBVIOUS
    <2>1. saleCall' = [saleCall EXCEPT ![r] = d] /\ UNCHANGED <<stock, ledger, sale>> /\ c.pc = "payBegin"
      BY <1>1, <1>3, <2>0 DEF PayBegin, BeginSerializable, SaleAt, SaleCall
    <2>2. /\ d.pc = "payTx" /\ d.sale = c.sale /\ d.lines = c.lines /\ d.seen = c.seen /\ d.k = c.k
          /\ d \in SaleCall
      BY <1>1, <2>0 DEF SaleCall
    <2>3. c.k = 1
      BY <2>1 DEF PaymentInv, Paying
    <2>4. Serially(r) /\ tx'[r].moves = tx[r].moves
      BY <1>1, <1>3, TablesBegin DEF PayBegin, NoTransaction
    <2>5. \A x \in Rows : tx'[r].moves[x] = <<>>
      BY <1>1, <2>4 DEF NoTransaction
    <2>6. \A x \in Rows : LinesDone(d, x) = {}
      BY <2>2, <2>3, LinesDoneNone
    <2>7. SaleFits(r, d)'
      <3>1. \A x \in Rows : Len(tx'[r].moves[x]) = Cardinality(LinesDone(d, x))
        <4>1. Len(<<>>) = 0 /\ Cardinality({}) = 0
          BY FS_EmptySet
        <4> QED
          BY <2>5, <2>6, <4>1
      <3>2. \A k \in StockLines(d.lines) : d.seen[d.lines[k].row] = stock[d.lines[k].row]
        BY <2>1, <2>2 DEF SaleFits
      <3> QED
        BY <2>1, <2>2, <3>1, <3>2 DEF SaleFits
    <2>8. SaleTable'
      BY <2>1 DEF SaleTable
    <2> QED
      BY <2>1, <2>4, <2>7, <2>8 DEF SaleGoesOn
  <1> QED
    BY <1>2, <1>3

(* Each line is taken once: no other line of the payment is for its row.   *)
LEMMA NotYetTaken ==
    ASSUME DbInv, PaymentInv, SaleTable, NoTwinLines, NEW r \in SaleRequests, r \in Requests, NEW x \in Rows,
           saleCall[r] \in SaleCall, saleCall[r].sale \in Sales,
           saleCall[r].pc = "payTx", SaleFits(r, saleCall[r]), saleCall[r].k \in DOMAIN saleCall[r].lines,
           saleCall[r].lines[saleCall[r].k].row = x
    PROVE  x \notin tx[r].own
  <1> DEFINE c == saleCall[r]
  <1>1. c.lines = sale[c.sale].lines
    BY DEF PaymentInv, Paying
  <1>2. OncePerRow(c.lines)
    BY <1>1 DEF SaleTable
  <1>3. LinesDone(c, x) = {}
    <2>1. \A k \in StockLines(c.lines) : c.lines[k].row = x => k = c.k
      BY <1>2 DEF StockLines, OncePerRow
    <2>2. c.k \in Nat
      BY DEF SaleCall
    <2>3. ~(c.k < c.k)
      BY <2>2
    <2> QED
      BY <2>1, <2>3 DEF LinesDone
  <1>4. Len(tx[r].moves[x]) = 0
    <2>1. Len(tx[r].moves[x]) = Cardinality(LinesDone(c, x))
      BY DEF SaleFits
    <2> QED
      BY <1>3, <2>1, FS_EmptySet
  <1>5. tx[r].moves[x] \in Seq(StockMovement)
    BY DEF DbInv, DbTypeOK, Transaction
  <1>6. tx[r].moves[x] = <<>>
    BY <1>4, <1>5
  <1> QED
    BY <1>6 DEF DbInv, BuffersMatch

LEMMA SalePayLine ==
    ASSUME SalesInv, PaymentInv, TablesInv, SaleTable, NEW r \in SaleRequests, Others(r), SaleFits(r, saleCall[r]),
           PayLine(r)
    PROVE  SaleGoesOn(r)
  <1> DEFINE c == saleCall[r]
             line == c.lines[c.k]
             x == line.row
             before == c.seen[x].qty
             after == before - line.qty
             v == SoldRow(View(r)[x], c.seen[x], after)
             m == Movement("SOLD", before, after, c.sale)
  <1>1. /\ r \in Requests /\ c \in SaleCall /\ c.pc = "payTx" /\ c.sale \in Sales /\ c.k \in DOMAIN c.lines
        /\ saleCall \in [SaleRequests -> SaleCall] /\ UNCHANGED sale
    BY SaleFacts DEF PayLine, SaleAt, SaleCallOK
  <1>2. DbInv /\ DbTypeOK /\ BuffersMatch /\ stock \in [Rows -> StockItem] /\ View(r) \in [Rows -> StockItem]
    BY SaleFacts DEF DbInv
  <1>3. line \in Line /\ c.lines \in Seq(Line) /\ c.k \in Nat
    BY <1>1 DEF SaleCall
  <1>4. PICK d : d = [c EXCEPT !.k = c.k + 1]
    OBVIOUS
  <1>5. d \in SaleCall /\ d.pc = "payTx" /\ d.sale = c.sale /\ d.lines = c.lines /\ d.seen = c.seen /\ d.k = c.k + 1
    <2>1. c.k + 1 \in Nat /\ c.pc = "payTx" /\ c \in SaleCall
      BY <1>1, <1>3
    <2> HIDE DEF c
    <2> QED
      BY <1>4, <2>1 DEF SaleCall
  <1>6. [saleCall EXCEPT ![r].k = @ + 1] = [saleCall EXCEPT ![r] = d]
    BY <1>1, <1>4 DEF SaleCall
  <1>7. \/ x = NoRow /\ saleCall' = [saleCall EXCEPT ![r] = d] /\ UNCHANGED dbVars
        \/ Rollback(r) /\ EndSaleCall(r)
        \/ /\ x # NoRow /\ ~(after < 0)
           /\ WriteRow(r, x, v, m)
           /\ saleCall' = [saleCall EXCEPT ![r] = d]
    BY <1>6 DEF PayLine, LineFails
  <1>8. SaleTable'
    BY <1>1 DEF SaleTable
  <1>9. /\ sale[d.sale].status = "DRAFT" /\ ~sale[d.sale].deleted
        /\ \A k \in StockLines(d.lines) : d.seen[d.lines[k].row] = stock[d.lines[k].row]
        /\ \A y \in Rows : Len(tx[r].moves[y]) = Cardinality(LinesDone(c, y))
    BY <1>1, <1>5 DEF SaleFits
  <1>10. ASSUME stock' = stock, Serially(r), saleCall' = [saleCall EXCEPT ![r] = d],
                \A y \in Rows : Len(tx'[r].moves[y]) = Cardinality(LinesDone(d, y))
         PROVE  SaleGoesOn(r)
    <2>1. SaleFits(r, d)'
      BY <1>1, <1>5, <1>9, <1>10 DEF SaleFits
    <2> QED
      BY <1>8, <1>10, <2>1 DEF SaleGoesOn
  <1>11. CASE x = NoRow /\ saleCall' = [saleCall EXCEPT ![r] = d] /\ UNCHANGED dbVars
    <2>1. \A y \in Rows : Cardinality(LinesDone(d, y)) = Cardinality(LinesDone(c, y))
      BY <1>1, <1>5, <1>11, LinesDoneStep, SentinelAssumption
    <2>2. stock' = stock /\ tx' = tx
      BY <1>11 DEF dbVars
    <2>3. Serially(r)
      BY <1>1, <1>11, TablesSame
    <2> QED
      BY <1>9, <1>10, <1>11, <2>1, <2>2, <2>3
  <1>12. CASE Rollback(r) /\ EndSaleCall(r)
    BY <1>1, <1>2, <1>12, SaleGivesUp
  <1>13. CASE /\ x # NoRow /\ ~(after < 0)
              /\ WriteRow(r, x, v, m)
              /\ saleCall' = [saleCall EXCEPT ![r] = d]
    <2>1. x \in Rows /\ c.k \in StockLines(c.lines)
      BY <1>1, <1>3, <1>13 DEF Line, StockLines
    <2>2. c.seen[x] = stock[x] /\ stock[x] \in StockItem
      BY <1>2, <1>5, <1>9, <2>1
    <2>3. before = stock[x].qty /\ before \in 0..MaxQty /\ line.qty \in 1..MaxQty
      BY <1>3, <2>2 DEF StockItem, Line
    <2>4. after \in 0..MaxQty /\ before # 0
      <3> HIDE DEF before, line
      <3> QED
        BY <1>13, <2>3, RowsAssumption
    <2>5. stock[x].state # "absent"
      <3>1. Missing.qty = 0
        BY DEF Missing
      <3>2. stock[x].qty # 0
        BY <2>3, <2>4
      <3> HIDE DEF x
      <3> QED
        BY <2>1, <3>1, <3>2 DEF TablesInv
    <2>6. View(r)[x].state # "absent"
      <3> HIDE DEF x
      <3> QED
        BY <1>1, <2>1, <2>5 DEF TablesInv, View
    <2>7. v.state = View(r)[x].state
      <3>1. View(r)[x] \in StockItem
        BY <1>2, <2>1
      <3> HIDE DEF after, x
      <3> QED
        BY <3>1 DEF SoldRow, StockItem
    <2>8. m \in StockMovement /\ m.before = before
      <3> HIDE DEF before, after
      <3> QED
        BY <1>1, <2>3, <2>4 DEF Movement, StockMovement, Documents
    <2>9. NoTwinLines => x \notin tx[r].own
      BY <1>1, <1>2, <2>1, NotYetTaken
    <2>10. NoTwinLines => View(r)[x] = stock[x]
      BY <2>1, <2>9 DEF View
    <2> HIDE DEF v, m, before, after
    <2>11. Amends(r, x, v, m)
      BY <2>3, <2>6, <2>7, <2>8, <2>10 DEF Amends
    <2> HIDE DEF x, line
    <2>12. Serially(r)
      BY <1>1, <1>2, <1>13, <2>1, <2>8, <2>11, TablesWrite
    <2>13. /\ stock' = stock
           /\ tx'[r].moves[x] = Append(tx[r].moves[x], m)
           /\ \A y \in Rows \ {x} : tx'[r].moves[y] = tx[r].moves[y]
      BY <1>1, <1>2, <1>13, <2>1, WriteRowEffect
    <2>14. ASSUME NEW y \in Rows PROVE Len(tx'[r].moves[y]) = Cardinality(LinesDone(d, y))
      <3>1. tx[r].moves[y] \in Seq(StockMovement)
        BY <1>1, <1>2 DEF DbTypeOK, Transaction
      <3>2. CASE y = x
        <4>1. Len(tx'[r].moves[y]) = Len(tx[r].moves[y]) + 1
          <5>1. \A ms \in Seq(StockMovement) : Len(Append(ms, m)) = Len(ms) + 1
            BY <2>8
          <5> QED
            BY <2>13, <3>1, <3>2, <5>1
        <4>2. Cardinality(LinesDone(d, y)) = Cardinality(LinesDone(c, y)) + 1
          BY <1>1, <1>5, <3>2, LinesDoneStep DEF x, line
        <4> QED
          BY <1>9, <4>1, <4>2
      <3>3. CASE y # x
        <4>1. Cardinality(LinesDone(d, y)) = Cardinality(LinesDone(c, y))
          BY <1>1, <1>5, <3>3, LinesDoneStep DEF x, line
        <4> QED
          BY <1>9, <2>13, <3>3, <4>1
      <3> QED
        BY <3>2, <3>3
    <2> QED
      BY <1>10, <1>13, <2>12, <2>13, <2>14
  <1> QED
    BY <1>7, <1>11, <1>12, <1>13

LEMMA SalePayCommit ==
    ASSUME SalesInv, TablesInv, SaleTable, NEW r \in SaleRequests, Others(r), PayCommit(r)
    PROVE  SaleGoesOn(r)
  <1> DEFINE s == saleCall[r].sale
  <1>1. r \in Requests /\ s \in Sales /\ sale \in [Sales -> Sale] /\ DbInv /\ DbTypeOK
    BY SaleFacts DEF PayCommit, SaleAt, SaleCallOK, DbInv
  <1>2. CASE Rollback(r) /\ UNCHANGED sale
    BY <1>1, <1>2, SaleGivesUp DEF PayCommit
  <1>3. CASE /\ Commit(r, {s})
             /\ sale' = [sale EXCEPT ![s].status = "PAID", ![s].stamps = @ \cup {"paid"}]
    <2>1. Serially(r) /\ tx'[r] = NoTransaction
      BY <1>1, <1>3, TablesCommit, OutdateQuiet DEF Commit
    <2>2. sale'[s].status = "PAID" /\ sale'[s].lines = sale[s].lines /\ \A o \in Sales \ {s} : sale'[o] = sale[o]
      BY <1>1, <1>3 DEF Sale
    <2>3. SaleTable'
      BY <1>1, <2>2 DEF SaleTable
    <2> QED
      BY <2>1, <2>3, SaleEnds DEF PayCommit
  <1> QED
    BY <1>2, <1>3 DEF PayCommit

(* Every step of a sale handler.                                           *)
LEMMA SalesSerial ==
    ASSUME SalesInv, PaymentInv, TablesInv, SaleTable, NEW r \in SaleRequests, Others(r), SaleFits(r, saleCall[r]),
           SalesStep(r)
    PROVE  SaleGoesOn(r)
  <1>1. CASE AbandonSaleCall(r)
    BY <1>1, SaleFacts, SaleGivesUp DEF AbandonSaleCall, DbInv
  <1> QED
    BY <1>1, SaleCreateSerial, SaleReadsSerial, SaleWritesSerial, SalePayStarts, SalePayLine, SalePayCommit
       DEF SalesStep, ContinueSale

-----------------------------------------------------------------------------
(* The units that a history brought in for a purchase: the sum, over the   *)
(* movements of its goods, of what each changed.                           *)
Brought(ms, p) == Sum([i \in Goods(ms, p) |-> Change(ms[i])], Goods(ms, p))

LEMMA UnitsSum ==
    ASSUME NEW h, NEW p
    PROVE  Units(h, p) = Sum([x \in Rows |-> Brought(h[x], p)], Rows)
  <1>1. \A x \in Rows : SumFunction([i \in Goods(h[x], p) |-> h[x][i].after - h[x][i].before]) = Brought(h[x], p)
    BY DEF SumFunction, Sum, Brought, Change
  <1>2. [x \in Rows |-> SumFunction([i \in Goods(h[x], p) |-> h[x][i].after - h[x][i].before])]
           = [x \in Rows |-> Brought(h[x], p)]
    BY <1>1
  <1> QED
    BY <1>2 DEF Units, SumFunction, Sum

LEMMA GoodsType ==
    ASSUME NEW ms \in Seq(StockMovement), NEW p
    PROVE  IsFiniteSet(Goods(ms, p)) /\ (\A i \in DOMAIN ms : Change(ms[i]) \in Int) /\ Brought(ms, p) \in Int
  <1>1. DOMAIN ms = 1..Len(ms) /\ Len(ms) \in Nat /\ \A i \in DOMAIN ms : ms[i] \in StockMovement
    OBVIOUS
  <1>2. IsFiniteSet(1..Len(ms))
    BY <1>1, FS_Interval
  <1>3. IsFiniteSet(Goods(ms, p))
    BY <1>1, <1>2, FS_Subset DEF Goods
  <1>4. \A m \in StockMovement : Change(m) \in Int
    <2>1. \A m \in StockMovement : m.after \in Nat /\ m.before \in Nat
      BY RowsAssumption DEF StockMovement
    <2> QED
      BY <2>1 DEF Change
  <1>5. \A i \in Goods(ms, p) : [j \in Goods(ms, p) |-> Change(ms[j])][i] \in Int
    BY <1>1, <1>4 DEF Goods
  <1>6. Brought(ms, p) \in Int
    BY <1>3, <1>5, SumType DEF Brought
  <1> QED
    BY <1>1, <1>3, <1>4, <1>6

(* A movement of its goods adds what it changed.                           *)
LEMMA BroughtAppend ==
    ASSUME NEW ms \in Seq(StockMovement), NEW m \in StockMovement
    PROVE  Brought(Append(ms, m), m.doc) = Brought(ms, m.doc) + Change(m)
  <1> DEFINE p == m.doc
             new == Append(ms, m)
             n == Len(ms) + 1
             G == Goods(ms, p)
             H == Goods(new, p)
             f == [i \in G |-> Change(ms[i])]
             g == [i \in H |-> Change(new[i])]
  <1>1. new \in Seq(StockMovement) /\ new[n] = m /\ n \notin DOMAIN ms
        /\ DOMAIN new = DOMAIN ms \cup {n} /\ \A i \in DOMAIN ms : new[i] = ms[i]
    OBVIOUS
  <1>2. H = G \cup {n} /\ n \notin G
    BY <1>1 DEF Goods
  <1>3. IsFiniteSet(H) /\ \A i \in H : g[i] \in Int
    <2> HIDE DEF new
    <2>1. H \subseteq DOMAIN new
      BY DEF Goods
    <2> QED
      BY <1>1, <2>1, GoodsType
  <1>4. Sum(g, H) = g[n] + Sum(g, H \ {n})
    <2> HIDE DEF g, H
    <2> QED
      BY <1>2, <1>3, SumTake
  <1>5. H \ {n} = G /\ IsFiniteSet(G)
    BY <1>2, GoodsType
  <1>6. \A i \in G : g[i] = f[i]
    BY <1>1, <1>2 DEF Goods
  <1>7. Sum(g, G) = Sum(f, G)
    <2> HIDE DEF f, g, G
    <2> QED
      BY <1>5, <1>6, SumSame
  <1>8. g[n] = Change(m)
    BY <1>1, <1>2
  <1>9. Brought(ms, p) \in Int /\ Brought(ms, p) = Sum(f, G) /\ Brought(new, p) = Sum(g, H)
    BY GoodsType DEF Brought
  <1>10. Change(m) \in Int
    <2>1. m.after \in Nat /\ m.before \in Nat
      BY RowsAssumption DEF StockMovement
    <2> QED
      BY <2>1 DEF Change
  <1> HIDE DEF f, g, G, H, n, p, new
  <1>11. Sum(g, H) = Change(m) + Sum(f, G) /\ Sum(f, G) \in Int
    BY <1>4, <1>5, <1>7, <1>8, <1>9
  <1>12. Brought(new, p) = Brought(ms, p) + Change(m)
    BY <1>9, <1>10, <1>11
  <1> QED
    BY <1>12 DEF new, p

LEMMA UnitsAppend ==
    ASSUME IsFiniteSet(Rows), NEW h \in [Rows -> Seq(StockMovement)], NEW g, NEW x \in Rows, NEW m \in StockMovement,
           g[x] = Append(h[x], m), \A y \in Rows \ {x} : g[y] = h[y]
    PROVE  Units(g, m.doc) = Units(h, m.doc) + Change(m)
  <1> DEFINE p == m.doc
             f == [y \in Rows |-> Brought(h[y], p)]
             e == [y \in Rows |-> Brought(g[y], p)]
  <1>1. \A y \in Rows : f[y] = Brought(h[y], p) /\ e[y] = Brought(g[y], p)
    OBVIOUS
  <1>2. \A y \in Rows : h[y] \in Seq(StockMovement)
    OBVIOUS
  <1>3. Append(h[x], m) \in Seq(StockMovement)
    BY <1>2
  <1>4. \A y \in Rows : g[y] \in Seq(StockMovement)
    BY <1>2, <1>3
  <1>5. \A y \in Rows : f[y] \in Int /\ e[y] \in Int
    BY <1>1, <1>2, <1>4, GoodsType
  <1>6. e[x] = f[x] + Change(m)
    BY <1>1, <1>2, BroughtAppend
  <1>7. \A y \in Rows \ {x} : f[y] = e[y]
    BY <1>1
  <1>8. Units(h, p) = Sum(f, Rows) /\ Units(g, p) = Sum(e, Rows)
    BY UnitsSum
  <1>9. Change(m) \in Int
    <2>1. m.after \in Nat /\ m.before \in Nat
      BY RowsAssumption DEF StockMovement
    <2> QED
      BY <2>1 DEF Change
  <1> HIDE DEF f, e
  <1>10. Sum(e, Rows) = Sum(f, Rows) + (e[x] - f[x])
    BY <1>5, <1>7, SumChanged
  <1>11. Sum(f, Rows) \in Int /\ f[x] \in Int
    BY <1>5, SumType
  <1> QED
    BY <1>6, <1>8, <1>9, <1>10, <1>11

(* Without goods of the purchase there are none,                           *)
LEMMA UnitsNone ==
    ASSUME IsFiniteSet(Rows), NEW h, NEW p, \A x \in Rows : h[x] = <<>>
    PROVE  Units(h, p) = 0
  <1> DEFINE f == [x \in Rows |-> Brought(h[x], p)]
  <1>1. Goods(<<>>, p) = {}
    BY DEF Goods
  <1>2. Brought(<<>>, p) = 0
    BY <1>1, SumStep, FS_EmptySet DEF Brought
  <1>3. \A x \in Rows : f[x] = 0
    BY <1>2
  <1>4. Units(h, p) = Sum(f, Rows)
    BY UnitsSum
  <1> HIDE DEF f
  <1> QED
    BY <1>3, <1>4, SumType

(* the same goods are the same units,                                      *)
LEMMA UnitsSame ==
    ASSUME NEW h, NEW g, NEW p,
           \A x \in Rows : Goods(g[x], p) = Goods(h[x], p) /\ \A i \in Goods(h[x], p) : g[x][i] = h[x][i]
    PROVE  Units(g, p) = Units(h, p)
  <1>1. \A x \in Rows : [i \in Goods(g[x], p) |-> Change(g[x][i])] = [i \in Goods(h[x], p) |-> Change(h[x][i])]
    OBVIOUS
  <1>2. \A x \in Rows : Brought(g[x], p) = Brought(h[x], p)
    BY <1>1 DEF Brought
  <1>3. [x \in Rows |-> Brought(g[x], p)] = [x \in Rows |-> Brought(h[x], p)]
    BY <1>2
  <1> QED
    BY <1>3, UnitsSum

(* and what a commit appends to histories without any is all there is.     *)
LEMMA BroughtPublished ==
    ASSUME NEW h \in Seq(StockMovement), NEW ms \in Seq(StockMovement), NEW p, Goods(h, p) = {}
    PROVE  Brought(h \o ms, p) = Brought(ms, p)
  <1> DEFINE new == h \o ms
             G == Goods(ms, p)
             H == Goods(new, p)
             f == [i \in G |-> Change(ms[i])]
             g == [i \in H |-> Change(new[i])]
             b == [i \in G |-> i + Len(h)]
  <1>1. /\ \A i \in DOMAIN h : i \in DOMAIN new /\ new[i] = h[i]
        /\ \A i \in DOMAIN new \ DOMAIN h : i - Len(h) \in DOMAIN ms /\ new[i] = ms[i - Len(h)]
        /\ \A i \in DOMAIN ms : i + Len(h) \in DOMAIN new /\ new[i + Len(h)] = ms[i]
    BY Concatenated
  <1>2. Len(h) \in Nat /\ DOMAIN ms \subseteq Nat /\ DOMAIN new \subseteq Nat
    OBVIOUS
  <1>3. IsFiniteSet(G) /\ \A i \in DOMAIN ms : Change(ms[i]) \in Int
    BY GoodsType
  <1> HIDE DEF new
  <1>4. \A i \in G : i \in DOMAIN ms /\ b[i] = i + Len(h) /\ b[i] \in H /\ f[i] = Change(ms[i]) /\ g[b[i]] = Change(ms[i])
    BY <1>1 DEF Goods
  <1>5. \A i \in G : f[i] \in Int /\ f[i] = g[b[i]]
    BY <1>3, <1>4
  <1>6. \A i, j \in G : b[i] = b[j] => i = j
    <2>1. \A i \in G : i \in Nat /\ b[i] = i + Len(h)
      BY <1>2, <1>4
    <2> HIDE DEF b, G
    <2> QED
      BY <1>2, <2>1
  <1>7. H = {b[i] : i \in G}
    <2>1. ASSUME NEW i \in H PROVE \E j \in G : i = b[j]
      <3>1. i \in DOMAIN new /\ new[i].doc = p /\ i \notin DOMAIN h
        BY <1>1, <2>1 DEF Goods
      <3>2. i - Len(h) \in G
        BY <1>1, <3>1 DEF Goods
      <3>3. i = b[i - Len(h)]
        BY <1>2, <1>4, <3>1, <3>2
      <3> QED
        BY <3>2, <3>3
    <2> QED
      BY <1>4, <2>1
  <1>8. Brought(ms, p) = Sum(f, G) /\ Brought(new, p) = Sum(g, H)
    BY DEF Brought
  <1> HIDE DEF f, g, b, G, H
  <1>9. Sum(f, G) = Sum(g, {b[i] : i \in G})
    BY <1>3, <1>5, <1>6, SumRenamed
  <1> QED
    BY <1>7, <1>8, <1>9 DEF new

LEMMA UnitsPublished ==
    ASSUME NEW ms, NEW g, NEW p, \A x \in Rows : Brought(g[x], p) = Brought(ms[x], p)
    PROVE  Units(g, p) = Units(ms, p)
  <1>1. [x \in Rows |-> Brought(g[x], p)] = [x \in Rows |-> Brought(ms[x], p)]
    OBVIOUS
  <1> QED
    BY <1>1, UnitsSum

(* The total of a purchase, one line at a time.                            *)
LEMMA TotalSteps ==
    ASSUME NEW lines \in SUBSET PurchaseLine, IsFiniteSet(lines)
    PROVE  /\ Total(lines) \in Int /\ Total({}) = 0
           /\ \A a \in lines : Total(lines) = a.qty + Total(lines \ {a})
  <1> DEFINE f == [line \in lines |-> line.qty]
             g(a) == [line \in lines \ {a} |-> line.qty]
  <1>1. \A line \in lines : f[line] \in Int
    <2>1. \A line \in PurchaseLine : line.qty \in Int
      BY RowsAssumption DEF PurchaseLine
    <2> QED
      BY <2>1
  <1>2. Total(lines) = Sum(f, lines) /\ \A a : Total(lines \ {a}) = Sum(g(a), lines \ {a})
    BY DEF Total, SumFunction, Sum
  <1>3. Total({}) = 0
    <2>1. Total({}) = Sum([line \in {} |-> line.qty], {})
      BY DEF Total, SumFunction, Sum
    <2> QED
      BY <2>1, SumStep, FS_EmptySet
  <1>4. ASSUME NEW a \in lines PROVE Total(lines) = a.qty + Total(lines \ {a})
    <2>1. IsFiniteSet(lines \ {a})
      BY FS_Subset
    <2>2. \A line \in lines \ {a} : f[line] = g(a)[line]
      OBVIOUS
    <2>3. f[a] = a.qty
      OBVIOUS
    <2>4. Total(lines \ {a}) = Sum(g(a), lines \ {a})
      BY <1>2
    <2> HIDE DEF f, g
    <2>5. Sum(f, lines \ {a}) = Sum(g(a), lines \ {a})
      BY <2>1, <2>2, SumSame
    <2>6. Sum(f, lines) = f[a] + Sum(f, lines \ {a})
      BY <1>1, SumTake
    <2> QED
      BY <1>2, <2>3, <2>4, <2>5, <2>6
  <1>5. Total(lines) \in Int
    <2> HIDE DEF f
    <2> QED
      BY <1>1, <1>2, SumType
  <1> QED
    BY <1>3, <1>4, <1>5

-----------------------------------------------------------------------------
(* The purchase handlers, which never take RECEIVED back.                  *)
ReceivedKept == \A p \in Purchases : purchase[p].status = "RECEIVED" => purchase'[p].status = "RECEIVED"

PurchaseGoesOn(r) ==
    /\ Serially(r) /\ PurchaseTable' /\ ReceivedKept
    /\ \E c : purchaseCall' = [purchaseCall EXCEPT ![r] = c] /\ PurchaseFits(r, c)'

LEMMA PurchaseTableSame ==
    ASSUME PurchaseTable, UNCHANGED <<ledger, purchase, applied>>
    PROVE  PurchaseTable' /\ ReceivedKept
  BY DEF PurchaseTable, ReceivedKept, Received

LEMMA PurchaseTableWrite ==
    ASSUME PurchasesInv, PurchaseTable, NEW p \in Purchases, NEW new, purchase' = [purchase EXCEPT ![p] = new],
           UNCHANGED <<ledger, applied>>, new.total = Total(new.lines), IsFiniteSet(new.lines),
           p \notin applied \/ (new.status \notin {"NONE", "DRAFT"} /\ new.lines = purchase[p].lines),
           purchase[p].status = "RECEIVED" => new.status = "RECEIVED"
    PROVE  PurchaseTable' /\ ReceivedKept
  <1>1. \A o \in Purchases : purchase'[o] = (IF o = p THEN new ELSE purchase[o])
    BY DEF PurchasesInv
  <1>2. ReceivedKept
    BY <1>1 DEF ReceivedKept
  <1>3. ASSUME NEW o \in Purchases
        PROVE  /\ purchase'[o].total = Total(purchase'[o].lines)
               /\ IsFiniteSet(purchase'[o].lines)
               /\ o \in applied => purchase'[o].status \notin {"NONE", "DRAFT"} /\ purchase'[o].lines = purchase[o].lines
    BY <1>1 DEF PurchaseTable
  <1>4. PurchaseTable'
    BY <1>3 DEF PurchaseTable, Received
  <1> QED
    BY <1>2, <1>4

LEMMA PurchaseEnds ==
    ASSUME NEW r \in PurchaseRequests, EndPurchaseCall(r), tx'[r] = NoTransaction, Serially(r),
           PurchaseTable', ReceivedKept
    PROVE  PurchaseGoesOn(r)
  <1> DEFINE c == [NewPurchaseCall EXCEPT !.pc = "done"]
  <1>1. c.pc = "done" /\ purchaseCall' = [purchaseCall EXCEPT ![r] = c]
    BY DEF NewPurchaseCall, EndPurchaseCall
  <1> HIDE DEF c
  <1>2. PurchaseFits(r, c)'
    BY <1>1 DEF PurchaseFits, Receiving
  <1> QED
    BY <1>1, <1>2 DEF PurchaseGoesOn

LEMMA PurchaseReadsOn ==
    ASSUME TablesInv, PurchaseTable, NEW r \in PurchaseRequests, r \in Requests, Others(r), KeepTables,
           NEW c, purchaseCall' = [purchaseCall EXCEPT ![r] = c], PurchaseFits(r, c)
    PROVE  PurchaseGoesOn(r)
  <1>1. UNCHANGED <<stock, ledger, tx, purchase, applied>>
    BY DEF KeepTables
  <1>2. Serially(r)
    BY <1>1, TablesSame DEF dbVars
  <1>3. View(r)' = View(r)
    BY <1>1 DEF View
  <1>4. PurchaseFits(r, c)'
    BY <1>1, <1>3 DEF PurchaseFits
  <1> QED
    BY <1>1, <1>2, <1>4, PurchaseTableSame DEF PurchaseGoesOn

LEMMA PurchaseRejects ==
    ASSUME TablesInv, PurchaseTable, NEW r \in PurchaseRequests, r \in Requests, Others(r), tx[r] = NoTransaction,
           RejectPurchase(r)
    PROVE  PurchaseGoesOn(r)
  <1>1. UNCHANGED <<stock, ledger, tx, purchase, applied>>
    BY DEF RejectPurchase, KeepTables
  <1>2. Serially(r)
    BY <1>1, TablesSame DEF dbVars
  <1> QED
    BY <1>1, <1>2, PurchaseTableSame, PurchaseEnds DEF RejectPurchase

LEMMA PurchaseGivesUp ==
    ASSUME DbTypeOK, TablesInv, PurchaseTable, NEW r \in PurchaseRequests, r \in Requests, Others(r), Rollback(r),
           EndPurchaseCall(r), UNCHANGED <<purchase, applied>>
    PROVE  PurchaseGoesOn(r)
  <1>1. tx'[r] = NoTransaction /\ Serially(r)
    BY RollbackQuiet, TablesIdle
  <1>2. UNCHANGED ledger
    BY DEF Rollback
  <1> QED
    BY <1>1, <1>2, PurchaseTableSame, PurchaseEnds

(* The lines an order inserts are as many as its own.                      *)
LEMMA InsertedFinite ==
    ASSUME NEW r, NEW order \in Orders
    PROVE  IsFiniteSet(Inserted(r, order))
  <1> DEFINE f == [k \in DOMAIN order |-> [sku |-> order[k].sku, qty |-> order[k].qty, by |-> r, n |-> k]]
  <1>1. order \in Seq(OrderLine)
    BY PurchaseInputs
  <1>2. DOMAIN order = 1..Len(order) /\ Len(order) \in Nat
    BY <1>1
  <1>3. IsFiniteSet(DOMAIN order)
    BY <1>2, FS_Interval
  <1>4. f \in Surjection(DOMAIN order, Inserted(r, order))
    BY DEF Surjection, Inserted
  <1> QED
    BY <1>3, <1>4, FS_Surjection

LEMMA PurchaseEditSerial ==
    ASSUME PurchasesInv, TablesInv, PurchaseTable, NEW r \in PurchaseRequests, Others(r),
           PurchaseFits(r, purchaseCall[r]),
           CreatePurchase(r) \/ EditRead(r) \/ EditDelete(r) \/ EditCommit(r)
    PROVE  PurchaseGoesOn(r)
  <1> DEFINE c == purchaseCall[r]
  <1>1. /\ r \in Requests /\ c \in PurchaseCall /\ tx[r] = NoTransaction
        /\ purchaseCall \in [PurchaseRequests -> PurchaseCall]
    BY PurchaseFacts DEF CreatePurchase, EditRead, EditDelete, EditCommit, PurchaseAt, PurchaseFits, PurchaseCallOK
  <1>2. ASSUME UNCHANGED <<stock, ledger, tx>>, EndPurchaseCall(r), PurchaseTable', ReceivedKept PROVE PurchaseGoesOn(r)
    <2>1. Serially(r)
      BY <1>1, <1>2, TablesSame DEF dbVars
    <2> QED
      BY <1>1, <1>2, <2>1, PurchaseEnds
  <1>3. CASE CreatePurchase(r)
    <2>1. PICK p \in Purchases, order \in Orders :
             /\ purchase[p].status = "NONE"
             /\ purchase' = [purchase EXCEPT ![p] = [NoPurchase EXCEPT !.status = "DRAFT",
                                                                       !.lines = Inserted(r, order),
                                                                       !.total = Total(Inserted(r, order))]]
      BY <1>3 DEF CreatePurchase
    <2> DEFINE lines == Inserted(r, order)
               total == Total(lines)
               new == [NoPurchase EXCEPT !.status = "DRAFT", !.lines = lines, !.total = total]
    <2>2. IsFiniteSet(lines)
      BY InsertedFinite
    <2>3. new.lines = lines /\ new.total = total
      <3> HIDE DEF lines, total
      <3> QED
        BY DEF NoPurchase
    <2>4. p \notin applied
      BY <2>1 DEF PurchaseTable
    <2>5. purchase' = [purchase EXCEPT ![p] = new] /\ UNCHANGED <<stock, ledger, tx, applied>> /\ EndPurchaseCall(r)
      BY <1>3, <2>1 DEF CreatePurchase
    <2>6. new.total = Total(new.lines) /\ IsFiniteSet(new.lines)
      BY <2>2, <2>3
    <2> HIDE DEF new
    <2>7. PurchaseTable' /\ ReceivedKept
      BY <2>1, <2>4, <2>5, <2>6, PurchaseTableWrite
    <2> QED
      BY <1>2, <2>5, <2>7
  <1>4. CASE EditRead(r)
    <2>1. PICK p \in Purchases, order \in Orders :
             \/ RejectPurchase(r)
             \/ /\ purchase[p].status = "DRAFT"
                /\ purchaseCall' = [purchaseCall EXCEPT ![r].pc = "edit", ![r].purchase = p,
                                                        ![r].lines = Inserted(r, order)]
                /\ KeepTables
      BY <1>4 DEF EditRead
    <2>2. CASE RejectPurchase(r)
      BY <1>1, <2>2, PurchaseRejects
    <2>3. CASE ~RejectPurchase(r)
      <3> DEFINE lines == Inserted(r, order)
                 d == [c EXCEPT !.pc = "edit", !.purchase = p, !.lines = lines]
      <3>1. IsFiniteSet(lines)
        BY InsertedFinite
      <3>2. purchaseCall' = [purchaseCall EXCEPT ![r] = d] /\ KeepTables /\ purchase[p].status = "DRAFT"
        BY <1>1, <2>1, <2>3 DEF PurchaseCall
      <3> HIDE DEF lines
      <3>3. d.pc = "edit" /\ d.purchase = p /\ d.lines = lines
        BY <1>1 DEF PurchaseCall
      <3> HIDE DEF d
      <3>4. PurchaseFits(r, d)
        BY <1>1, <3>1, <3>2, <3>3 DEF PurchaseFits, Receiving
      <3> QED
        BY <1>1, <3>2, <3>4, PurchaseReadsOn
    <2> QED
      BY <2>2, <2>3
  <1>5. CASE EditDelete(r)
    <2> DEFINE removed == purchase[c.purchase].lines
               d == [c EXCEPT !.pc = "editCommit", !.removed = removed]
    <2>1. c.pc = "edit" /\ KeepTables
      BY <1>5 DEF EditDelete, PurchaseAt
    <2>2. purchaseCall' = [purchaseCall EXCEPT ![r] = d]
      BY <1>1, <1>5 DEF EditDelete, Subject, PurchaseCall
    <2>3. purchase[c.purchase].status = "DRAFT" /\ IsFiniteSet(c.lines)
      BY <2>1 DEF PurchaseFits
    <2>4. d.pc = "editCommit" /\ d.purchase = c.purchase /\ d.lines = c.lines /\ d.removed = removed
      <3> HIDE DEF removed
      <3> QED
        BY <1>1 DEF PurchaseCall
    <2> HIDE DEF d
    <2>5. PurchaseFits(r, d)
      BY <1>1, <2>3, <2>4 DEF PurchaseFits, Receiving
    <2> QED
      BY <1>1, <2>1, <2>2, <2>5, PurchaseReadsOn
  <1>6. CASE EditCommit(r)
    <2> DEFINE p == c.purchase
               old == purchase[p]
               lines == (old.lines \ c.removed) \cup c.lines
               total == Total(c.lines)
               new == [old EXCEPT !.lines = lines, !.total = total]
    <2>1. c.pc = "editCommit" /\ p \in Purchases /\ PurchaseShape(old) /\ DOMAIN purchase = Purchases
      BY <1>6, PurchaseFacts DEF EditCommit, PurchaseAt, PurchaseCallOK, PurchaseTablesOK
    <2>2. old.status = "DRAFT" /\ IsFiniteSet(c.lines) /\ c.removed = old.lines
      BY <2>1 DEF PurchaseFits
    <2>3. lines = c.lines
      BY <2>2
    <2>4. purchase' = [purchase EXCEPT ![p] = new] /\ UNCHANGED <<stock, ledger, tx, applied>> /\ EndPurchaseCall(r)
      BY <1>6, <2>1 DEF EditCommit, Survivors, Subject
    <2>5. new.status = old.status /\ new.lines = lines /\ new.total = total
      <3> HIDE DEF old, lines, total
      <3> QED
        BY <2>1 DEF PurchaseShape
    <2>6. p \notin applied
      BY <2>1, <2>2 DEF PurchaseTable
    <2>7. new.total = Total(new.lines) /\ IsFiniteSet(new.lines)
      BY <2>2, <2>3, <2>5
    <2> HIDE DEF new, p
    <2>8. PurchaseTable' /\ ReceivedKept
      BY <2>1, <2>2, <2>4, <2>6, <2>7, PurchaseTableWrite
    <2> QED
      BY <1>2, <2>4, <2>8
  <1> QED
    BY <1>3, <1>4, <1>5, <1>6

(* A status that a purchase may move to.                                   *)
LEMMA TransitionSerial ==
    ASSUME PurchasesInv, TablesInv, PurchaseTable, NEW r \in PurchaseRequests, Others(r),
           PurchaseFits(r, purchaseCall[r]),
           TransitionRead(r) \/ StatusWrite(r) \/ ApplyCheck(r) \/ ApplyReadLines(r) \/ ApplyInsert(r)
    PROVE  PurchaseGoesOn(r)
  <1> DEFINE c == purchaseCall[r]
  <1>1. /\ r \in Requests /\ c \in PurchaseCall /\ tx[r] = NoTransaction
        /\ purchaseCall \in [PurchaseRequests -> PurchaseCall]
        /\ c.pc \in {"new", "status", "applyCheck", "applyRead", "applyInsert"}
        /\ c.pc # "new" => c.purchase \in Purchases
    BY PurchaseFacts DEF TransitionRead, StatusWrite, ApplyCheck, ApplyReadLines, ApplyInsert, PurchaseAt,
                         PurchaseFits, PurchaseCallOK
  <1>2. CASE TransitionRead(r)
    <2>1. PICK p \in Purchases, target \in PurchaseStatus :
             \/ RejectPurchase(r)
             \/ /\ purchase[p].status # "NONE" /\ ValidTransition(purchase[p].status, target)
                /\ purchaseCall' = [purchaseCall EXCEPT
                                       ![r].pc = IF target = "RECEIVED" THEN "applyCheck" ELSE "status",
                                       ![r].purchase = p, ![r].target = target]
                /\ KeepTables
      BY <1>2 DEF TransitionRead
    <2>2. CASE RejectPurchase(r)
      BY <1>1, <2>2, PurchaseRejects
    <2>3. CASE ~RejectPurchase(r)
      <3> DEFINE pc == IF target = "RECEIVED" THEN "applyCheck" ELSE "status"
                 d == [c EXCEPT !.pc = pc, !.purchase = p, !.target = target]
      <3>1. purchaseCall' = [purchaseCall EXCEPT ![r] = d] /\ KeepTables
        BY <1>1, <2>1, <2>3 DEF PurchaseCall
      <3>2. d.pc = pc /\ d.purchase = p /\ d.target = target
        BY <1>1 DEF PurchaseCall
      <3>3. d.pc \in {"applyCheck", "status"} /\ (d.pc = "applyCheck" => d.target = "RECEIVED")
        BY <3>2
      <3>4. purchase[p].status # "NONE" /\ ValidTransition(purchase[p].status, target)
        BY <2>1, <2>3
      <3> HIDE DEF d, pc
      <3>5. PurchaseFits(r, d)
        BY <1>1, <3>2, <3>3, <3>4 DEF PurchaseFits, Receiving
      <3> QED
        BY <1>1, <3>1, <3>5, PurchaseReadsOn
    <2> QED
      BY <2>2, <2>3
  <1>3. CASE StatusWrite(r)
    <2> DEFINE p == c.purchase
               old == purchase[p]
               stamps == old.stamps \cup ({c.target} \ {"DRAFT"})
               new == [old EXCEPT !.status = c.target, !.stamps = stamps]
    <2>1. c.pc = "status" /\ p \in Purchases /\ PurchaseShape(old)
      BY <1>1, <1>3, PurchaseFacts DEF StatusWrite, PurchaseAt, PurchaseTablesOK
    <2>2. purchase' = [purchase EXCEPT ![p] = new] /\ UNCHANGED <<stock, ledger, tx, applied>> /\ EndPurchaseCall(r)
      BY <1>3, <2>1, PurchaseFacts DEF StatusWrite, Subject, PurchaseTablesOK
    <2>3. new.status = c.target /\ new.lines = old.lines /\ new.total = old.total
      <3> HIDE DEF old, stamps
      <3> QED
        BY <2>1 DEF PurchaseShape
    <2>4. old.status # "NONE" /\ ValidTransition(old.status, c.target)
      BY <2>1 DEF PurchaseFits
    <2>5. old.status \notin {"NONE", "DRAFT"} => c.target \notin {"NONE", "DRAFT"}
      BY <2>4 DEF ValidTransition
    <2>6. old.status = "RECEIVED" => c.target = "RECEIVED"
      BY <2>4 DEF ValidTransition
    <2>7. old.total = Total(old.lines) /\ IsFiniteSet(old.lines) /\ (p \in applied => old.status \notin {"NONE", "DRAFT"})
      BY <2>1 DEF PurchaseTable
    <2> HIDE DEF new, p
    <2>8. PurchaseTable' /\ ReceivedKept
      BY <2>1, <2>2, <2>3, <2>5, <2>6, <2>7, PurchaseTableWrite
    <2>9. Serially(r)
      BY <1>1, <2>2, TablesSame DEF dbVars
    <2> QED
      BY <1>1, <2>2, <2>8, <2>9, PurchaseEnds
  <1>4. ASSUME c.pc \in {"applyCheck", "applyRead", "applyInsert"}
        PROVE  /\ c.target = "RECEIVED" /\ purchase[c.purchase].status # "NONE"
               /\ ValidTransition(purchase[c.purchase].status, c.target)
    BY <1>4 DEF PurchaseFits, Receiving
  <1>5. CASE ApplyCheck(r)
    <2> DEFINE pc == IF c.purchase \in applied THEN "status" ELSE "applyRead"
    <2>1. PICK d : d = [c EXCEPT !.pc = pc]
      OBVIOUS
    <2>2. purchaseCall' = [purchaseCall EXCEPT ![r] = d] /\ KeepTables /\ c.pc = "applyCheck"
      BY <1>1, <1>5, <2>1 DEF ApplyCheck, PurchaseAt, Subject, PurchaseCall
    <2>3. d.pc \in {"status", "applyRead"} /\ d.purchase = c.purchase /\ d.target = c.target
      BY <1>1, <2>1 DEF PurchaseCall
    <2>4. PurchaseFits(r, d)
      BY <1>1, <1>4, <2>2, <2>3 DEF PurchaseFits, Receiving
    <2> QED
      BY <1>1, <2>2, <2>4, PurchaseReadsOn
  <1>6. CASE ApplyReadLines(r)
    <2> DEFINE lines == purchase[c.purchase].lines
               d == [c EXCEPT !.pc = "applyInsert", !.lines = lines]
    <2>1. purchaseCall' = [purchaseCall EXCEPT ![r] = d] /\ KeepTables /\ c.pc = "applyRead"
      BY <1>1, <1>6 DEF ApplyReadLines, PurchaseAt, Subject, PurchaseCall
    <2>2. d.pc = "applyInsert" /\ d.purchase = c.purchase /\ d.target = c.target /\ d.lines = lines
      <3> HIDE DEF lines
      <3> QED
        BY <1>1 DEF PurchaseCall
    <2> HIDE DEF d
    <2>3. PurchaseFits(r, d)
      BY <1>1, <1>4, <2>1, <2>2 DEF PurchaseFits, Receiving
    <2> QED
      BY <1>1, <2>1, <2>3, PurchaseReadsOn
  <1>7. CASE ApplyInsert(r)
    <2>1. CASE EndPurchaseCall(r)
      BY <1>1, <1>7, <2>1, PurchaseRejects DEF ApplyInsert, RejectPurchase
    <2>2. CASE ~EndPurchaseCall(r)
      <3> DEFINE d == [c EXCEPT !.pc = "applyFind"]
      <3>1. purchaseCall' = [purchaseCall EXCEPT ![r] = d] /\ KeepTables /\ c.pc = "applyInsert"
        BY <1>1, <1>7, <2>2 DEF ApplyInsert, PurchaseAt, PurchaseCall
      <3>2. d.pc = "applyFind" /\ d.purchase = c.purchase /\ d.target = c.target /\ d.lines = c.lines
        BY <1>1 DEF PurchaseCall
      <3>3. c.lines = purchase[c.purchase].lines /\ IsFiniteSet(c.lines)
        BY <1>1, <3>1 DEF PurchaseFits, PurchaseTable
      <3>4. IsFiniteSet(Rows) => Units(tx[r].moves, c.purchase) = 0
        <4>1. \A x \in Rows : tx[r].moves[x] = <<>>
          BY <1>1 DEF NoTransaction
        <4> QED
          BY <4>1, UnitsNone
      <3>5. Total(c.lines) \in Int
        BY <1>1, <3>3, TotalSteps DEF PurchaseCall
      <3>6. IsFiniteSet(Rows) => Units(tx[r].moves, c.purchase) + Total(c.lines) = Total(purchase[c.purchase].lines)
        BY <3>3, <3>4, <3>5
      <3> HIDE DEF d
      <3>7. PurchaseFits(r, d)
        BY <1>4, <3>1, <3>2, <3>3, <3>6 DEF PurchaseFits, Receiving
      <3> QED
        BY <1>1, <3>1, <3>7, PurchaseReadsOn
    <2> QED
      BY <2>1, <2>2
  <1> QED
    BY <1>2, <1>3, <1>5, <1>6, <1>7

(* A statement of a receipt enters a line.                                 *)
LEMMA PurchaseEnters ==
    ASSUME PurchasesInv, TablesInv, PurchaseTable, NEW r \in PurchaseRequests, Others(r),
           PurchaseFits(r, purchaseCall[r]), purchaseCall[r].pc \in {"applyFind", "applyWrite"},
           NEW line \in purchaseCall[r].lines, NEW x \in Rows, NEW v, NEW m \in StockMovement,
           WriteRow(r, x, v, m), Amends(r, x, v, m), m.doc = purchaseCall[r].purchase, Change(m) = line.qty,
           NEW d, purchaseCall' = [purchaseCall EXCEPT ![r] = d], d.pc = "applyFind",
           d.purchase = purchaseCall[r].purchase, d.target = purchaseCall[r].target,
           d.lines = purchaseCall[r].lines \ {line}, UNCHANGED <<purchase, applied>>
    PROVE  PurchaseGoesOn(r)
  <1> DEFINE c == purchaseCall[r]
  <1>1. r \in Requests /\ DbInv /\ DbTypeOK /\ c.lines \in SUBSET PurchaseLine
    BY PurchaseFacts DEF DbInv, PurchaseCallOK, PurchaseCall
  <1>2. Serially(r)
    BY <1>1, TablesWrite
  <1>3. /\ UNCHANGED ledger
        /\ tx'[r].moves[x] = Append(tx[r].moves[x], m)
        /\ \A y \in Rows \ {x} : tx'[r].moves[y] = tx[r].moves[y]
    BY <1>1, WriteRowEffect
  <1>4. PurchaseTable' /\ ReceivedKept
    BY <1>3, PurchaseTableSame
  <1>5. IsFiniteSet(c.lines) /\ IsFiniteSet(d.lines)
    <2>1. IsFiniteSet(c.lines)
      BY DEF PurchaseFits
    <2>2. IsFiniteSet(c.lines \ {line})
      BY <2>1, FS_Subset
    <2> QED
      BY <2>1, <2>2
  <1>6. ASSUME IsFiniteSet(Rows)
        PROVE  Units(tx'[r].moves, d.purchase) + Total(d.lines) = Total(purchase[d.purchase].lines)
    <2> DEFINE old == Units(tx[r].moves, c.purchase)
               new == Units(tx'[r].moves, c.purchase)
    <2>1. tx[r].moves \in [Rows -> Seq(StockMovement)]
      BY <1>1 DEF DbTypeOK, Transaction
    <2>2. new = old + Change(m)
      <3>1. PICK h : h = tx[r].moves
        OBVIOUS
      <3>2. PICK g : g = tx'[r].moves
        OBVIOUS
      <3>3. h \in [Rows -> Seq(StockMovement)] /\ g[x] = Append(h[x], m) /\ \A y \in Rows \ {x} : g[y] = h[y]
        BY <1>3, <2>1, <3>1, <3>2
      <3>4. Units(g, m.doc) = Units(h, m.doc) + Change(m)
        BY <1>6, <3>3, UnitsAppend
      <3> QED
        BY <3>1, <3>2, <3>4
    <2>3. Total(c.lines) = line.qty + Total(d.lines)
      BY <1>1, <1>5, TotalSteps
    <2>4. Total(d.lines) \in Int
      BY <1>1, <1>5, TotalSteps
    <2>5. old + Total(c.lines) = Total(purchase[c.purchase].lines)
      BY <1>6 DEF PurchaseFits
    <2>6. old \in Int
      <3> DEFINE f == [y \in Rows |-> Brought(tx[r].moves[y], c.purchase)]
      <3>1. \A y \in Rows : f[y] \in Int
        BY <2>1, GoodsType
      <3>2. old = Sum(f, Rows)
        BY UnitsSum
      <3> HIDE DEF f
      <3> QED
        BY <1>6, <3>1, <3>2, SumType
    <2>7. line.qty \in Int
      BY <1>1, RowsAssumption DEF PurchaseLine
    <2> HIDE DEF old, new
    <2>8. new + Total(d.lines) = Total(purchase[c.purchase].lines)
      BY <2>2, <2>3, <2>4, <2>5, <2>6, <2>7
    <2> QED
      BY <2>8 DEF new
  <1>7. d.target = "RECEIVED" /\ purchase[d.purchase].status # "NONE" /\ ValidTransition(purchase[d.purchase].status, d.target)
    BY DEF PurchaseFits, Receiving
  <1>8. PurchaseFits(r, d)'
    BY <1>5, <1>6, <1>7 DEF PurchaseFits, Receiving
  <1> QED
    BY <1>2, <1>4, <1>8 DEF PurchaseGoesOn

(* What every purchase lemma below starts from.                            *)
LEMMA ReceiptSubject ==
    ASSUME PurchasesInv, NEW r \in PurchaseRequests, purchaseCall[r].pc \in {"applyFind", "applyWrite"},
           PurchaseFits(r, purchaseCall[r])
    PROVE  /\ r \in Requests /\ DbInv /\ DbTypeOK /\ purchaseCall[r] \in PurchaseCall
           /\ purchaseCall[r].purchase \in Purchases /\ IsFiniteSet(purchaseCall[r].lines)
           /\ \A line \in purchaseCall[r].lines : line \in PurchaseLine /\ line.qty \in 1..MaxQty
           /\ purchaseCall[r].target = "RECEIVED" /\ purchase[purchaseCall[r].purchase].status # "NONE"
           /\ ValidTransition(purchase[purchaseCall[r].purchase].status, purchaseCall[r].target)
  <1> DEFINE c == purchaseCall[r]
  <1>1. r \in Requests /\ DbInv /\ DbTypeOK /\ c \in PurchaseCall /\ c.purchase \in Purchases
    BY PurchaseFacts DEF DbInv, PurchaseCallOK
  <1>2. \A line \in c.lines : line \in PurchaseLine /\ line.qty \in 1..MaxQty
    BY <1>1 DEF PurchaseCall, PurchaseLine
  <1>3. IsFiniteSet(c.lines)
    BY DEF PurchaseFits
  <1>4. c.target = "RECEIVED" /\ purchase[c.purchase].status # "NONE" /\ ValidTransition(purchase[c.purchase].status, c.target)
    BY DEF PurchaseFits, Receiving
  <1> QED
    BY <1>1, <1>2, <1>3, <1>4

(* A line is matched with a stock item, whose quantity is read.            *)
LEMMA ApplyFindSerial ==
    ASSUME PurchasesInv, TablesInv, PurchaseTable, NEW r \in PurchaseRequests, Others(r),
           PurchaseFits(r, purchaseCall[r]), ApplyFind(r)
    PROVE  PurchaseGoesOn(r)
  <1> DEFINE c == purchaseCall[r]
  <1>1. c.pc = "applyFind" /\ UNCHANGED <<purchase, applied>>
    BY DEF ApplyFind, PurchaseAt
  <1>2. /\ r \in Requests /\ DbTypeOK /\ c \in PurchaseCall /\ IsFiniteSet(c.lines)
        /\ c.target = "RECEIVED" /\ purchase[c.purchase].status # "NONE"
        /\ ValidTransition(purchase[c.purchase].status, c.target)
    BY <1>1, ReceiptSubject
  <1>3. PICK line \in c.lines : \E x \in SameSku(r, line) :
           IF Overflows(r, x, line)
           THEN Rollback(r) /\ EndPurchaseCall(r)
           ELSE /\ purchaseCall' = [purchaseCall EXCEPT ![r].pc = "applyWrite", ![r].line = {line},
                                                        ![r].row = x, ![r].before = View(r)[x].qty]
                /\ UNCHANGED <<stock, ledger, tx>>
    BY DEF ApplyFind
  <1>4. PICK x \in SameSku(r, line) :
           \/ Rollback(r) /\ EndPurchaseCall(r)
           \/ /\ purchaseCall' = [purchaseCall EXCEPT ![r].pc = "applyWrite", ![r].line = {line},
                                                      ![r].row = x, ![r].before = View(r)[x].qty]
              /\ UNCHANGED <<stock, ledger, tx>>
    BY <1>3
  <1>5. CASE Rollback(r) /\ EndPurchaseCall(r)
    BY <1>1, <1>2, <1>5, PurchaseGivesUp
  <1>6. CASE ~(Rollback(r) /\ EndPurchaseCall(r))
    <2>1. PICK before : before = View(r)[x].qty
      OBVIOUS
    <2> DEFINE d == [c EXCEPT !.pc = "applyWrite", !.line = {line}, !.row = x, !.before = before]
    <2>2. purchaseCall' = [purchaseCall EXCEPT ![r] = d] /\ KeepTables
      BY <1>1, <1>2, <1>4, <1>6, <2>1, PurchaseFacts DEF PurchaseCall, KeepTables
    <2>3. /\ d.pc = "applyWrite" /\ d.purchase = c.purchase /\ d.target = c.target /\ d.lines = c.lines
          /\ d.line = {line} /\ d.row = x /\ d.before = before
      BY <1>2 DEF PurchaseCall
    <2>4. View(r)[x].state # "absent"
      BY DEF SameSku
    <2> HIDE DEF d
    <2>5. IsFiniteSet(Rows) => Units(tx[r].moves, c.purchase) + Total(c.lines) = Total(purchase[c.purchase].lines)
      BY <1>1 DEF PurchaseFits
    <2>6. PurchaseFits(r, d)
      BY <1>2, <2>1, <2>3, <2>4, <2>5 DEF PurchaseFits, Receiving
    <2> QED
      BY <1>2, <2>2, <2>6, PurchaseReadsOn
  <1> QED
    BY <1>5, <1>6

(* A line nothing matches gets a stock item of its own.                    *)
LEMMA ApplyPlaceholderSerial ==
    ASSUME PurchasesInv, TablesInv, PurchaseTable, NEW r \in PurchaseRequests, Others(r),
           PurchaseFits(r, purchaseCall[r]), ApplyPlaceholder(r)
    PROVE  PurchaseGoesOn(r)
  <1> DEFINE c == purchaseCall[r]
  <1>1. c.pc = "applyFind" /\ UNCHANGED <<purchase, applied>>
    BY DEF ApplyPlaceholder, PurchaseAt
  <1>2. /\ r \in Requests /\ DbTypeOK /\ c \in PurchaseCall /\ c.purchase \in Purchases
        /\ \A line \in c.lines : line \in PurchaseLine /\ line.qty \in 1..MaxQty
    BY <1>1, ReceiptSubject
  <1>3. CASE Rollback(r) /\ EndPurchaseCall(r)
    BY <1>1, <1>2, <1>3, PurchaseGivesUp
  <1>4. CASE ~(Rollback(r) /\ EndPurchaseCall(r))
    <2>1. PICK line \in c.lines, x \in Rows :
             /\ Fresh(x)
             /\ WriteRow(r, x, [Missing EXCEPT !.state = "active", !.item = LegacyItem,
                                               !.sku = line.sku, !.qty = line.qty],
                         Movement("IN", 0, line.qty, Subject(r)))
             /\ purchaseCall' = [purchaseCall EXCEPT ![r].lines = @ \ {line}]
      BY <1>4 DEF ApplyPlaceholder
    <2> DEFINE v == [Missing EXCEPT !.state = "active", !.item = LegacyItem, !.sku = line.sku, !.qty = line.qty]
               m == Movement("IN", 0, line.qty, c.purchase)
               d == [c EXCEPT !.lines = @ \ {line}]
    <2>2. purchaseCall' = [purchaseCall EXCEPT ![r] = d]
      BY <1>2, <2>1, PurchaseFacts DEF PurchaseCall
    <2>3. d.pc = "applyFind" /\ d.purchase = c.purchase /\ d.target = c.target /\ d.lines = c.lines \ {line}
      BY <1>1, <1>2 DEF PurchaseCall
    <2>4. v.state = "active"
      BY DEF Missing
    <2>5. line.qty \in 0..MaxQty /\ line.qty \in Int /\ c.purchase \in Documents
      BY <1>2, RowsAssumption DEF Documents
    <2>6. m \in StockMovement /\ m.before = 0
      BY <2>5, InFrom0
    <2>7. m.doc = c.purchase /\ m.after = line.qty /\ m.before = 0
      BY DEF Movement
    <2>8. WriteRow(r, x, v, m)
      BY <2>1 DEF Subject
    <2> HIDE DEF v, m, d
    <2>9. Change(m) = line.qty
      BY <2>5, <2>7 DEF Change
    <2>10. Amends(r, x, v, m)
      BY <1>2, <2>1, <2>4, <2>6, FreshRow
    <2> QED
      BY <1>1, <2>2, <2>3, <2>6, <2>7, <2>8, <2>9, <2>10, PurchaseEnters
  <1> QED
    BY <1>3, <1>4

(* The matched stock item gets the line's units.                           *)
LEMMA ApplyWriteSerial ==
    ASSUME PurchasesInv, TablesInv, PurchaseTable, NEW r \in PurchaseRequests, Others(r),
           PurchaseFits(r, purchaseCall[r]), ApplyWrite(r)
    PROVE  PurchaseGoesOn(r)
  <1> DEFINE c == purchaseCall[r]
             x == c.row
             w == View(r)[x]
  <1>1. c.pc = "applyWrite" /\ UNCHANGED <<purchase, applied>>
    BY DEF ApplyWrite, PurchaseAt
  <1>2. /\ r \in Requests /\ DbTypeOK /\ c \in PurchaseCall /\ c.purchase \in Purchases
        /\ \A line \in c.lines : line \in PurchaseLine /\ line.qty \in 1..MaxQty
    BY <1>1, ReceiptSubject
  <1>3. PICK line \in c.lines : c.line = {line}
    BY <1>1 DEF PurchaseFits
  <1>4. w.state # "absent" /\ c.before = w.qty
    BY <1>1 DEF PurchaseFits
  <1>5. x \in Rows /\ c.before + line.qty <= MaxQty /\ w \in StockItem
    BY <1>1, <1>3, PurchaseFacts DEF PurchaseCallOK
  <1> DEFINE after == c.before + line.qty
             v == [w EXCEPT !.qty = after]
             m == Movement("IN", c.before, after, c.purchase)
             d == [c EXCEPT !.pc = "applyFind", !.lines = @ \ c.line, !.line = {}, !.row = NoRow, !.before = 0]
  <1>6. WriteRow(r, x, v, m) /\ purchaseCall' = [purchaseCall EXCEPT ![r] = d]
    <2>1. WriteRow(r, x, v, m)
      BY <1>3 DEF ApplyWrite, Subject
    <2>2. purchaseCall' = [purchaseCall EXCEPT ![r] = d]
      BY <1>2, PurchaseFacts DEF ApplyWrite, PurchaseCall
    <2> QED
      BY <2>1, <2>2
  <1>7. d.pc = "applyFind" /\ d.purchase = c.purchase /\ d.target = c.target /\ d.lines = c.lines \ {line}
    BY <1>2, <1>3 DEF PurchaseCall
  <1>8. c.before \in 0..MaxQty /\ line.qty \in 1..MaxQty
    BY <1>2 DEF PurchaseCall
  <1>9. after \in 0..MaxQty /\ after - c.before = line.qty
    BY <1>5, <1>8, RowsAssumption
  <1> HIDE DEF after, d
  <1>10. v.state = w.state /\ v.status = w.status
    <2> HIDE DEF w
    <2> QED
      BY <1>5 DEF StockItem
  <1>11. m \in StockMovement /\ m.doc = c.purchase /\ m.before = c.before /\ m.after = after
    BY <1>2, <1>8, <1>9 DEF Movement, StockMovement, Documents
  <1> HIDE DEF v, m
  <1>12. Change(m) = line.qty
    BY <1>9, <1>11 DEF Change
  <1>13. Amends(r, x, v, m)
    BY <1>4, <1>10, <1>11 DEF Amends
  <1> QED
    BY <1>1, <1>5, <1>6, <1>7, <1>11, <1>12, <1>13, PurchaseEnters

(* The receipt commits: with the application row, the purchase's movements *)
(* are the ones the transaction had, and they are all there.               *)
LEMMA ApplyCommitSerial ==
    ASSUME PurchasesInv, ReceiptInv, TablesInv, PurchaseTable, NEW r \in PurchaseRequests, Others(r),
           PurchaseFits(r, purchaseCall[r]), ApplyCommit(r)
    PROVE  PurchaseGoesOn(r)
  <1> DEFINE c == purchaseCall[r]
             p == c.purchase
  <1>1. /\ c.pc = "applyFind" /\ c.lines = {} /\ Commit(r, {}) /\ UNCHANGED purchase
        /\ applied' = applied \cup {p}
    BY DEF ApplyCommit, PurchaseAt, Subject
  <1>2. /\ r \in Requests /\ DbInv /\ DbTypeOK /\ c \in PurchaseCall /\ p \in Purchases
        /\ c.target = "RECEIVED" /\ purchase[p].status # "NONE" /\ ValidTransition(purchase[p].status, c.target)
    BY <1>1, ReceiptSubject
  <1>3. p \notin applied
    BY <1>1, ReceiptFacts
  <1>4. Serially(r)
    BY <1>1, <1>2, TablesCommit
  <1>5. tx'[r] = NoTransaction
    BY <1>1, <1>2, OutdateQuiet DEF Commit
  <1>6. \A x \in Rows : /\ ledger'[x] = ledger[x] \o tx[r].moves[x]
                        /\ ledger[x] \in Seq(StockMovement) /\ tx[r].moves[x] \in Seq(StockMovement)
    BY <1>1, <1>2 DEF Commit, DbTypeOK, Transaction
  <1>7. \A o \in Purchases, x \in Rows : o # p => Received(o, x)' = Received(o, x)
    BY ReceiptPublishes
  <1>8. purchase[p].status \notin {"NONE", "DRAFT"}
    BY <1>2 DEF ValidTransition
  <1>9. IsFiniteSet(Rows) => Units(ledger', p) = Total(purchase[p].lines)
    <2> SUFFICES ASSUME IsFiniteSet(Rows) PROVE Units(ledger', p) = Total(purchase[p].lines)
      OBVIOUS
    <2>1. PICK h : h = ledger
      OBVIOUS
    <2>2. PICK ms : ms = tx[r].moves
      OBVIOUS
    <2>3. PICK g : g = ledger'
      OBVIOUS
    <2>4. h \in [Rows -> Seq(StockMovement)] /\ ms \in [Rows -> Seq(StockMovement)]
      BY <1>2, <2>1, <2>2 DEF DbTypeOK, Transaction
    <2>5. \A x \in Rows : Goods(h[x], p) = {}
      BY <1>2, <1>3, <2>1 DEF PurchaseTable, Received
    <2>6. \A x \in Rows : Brought(g[x], p) = Brought(ms[x], p)
      <3> TAKE x \in Rows
      <3>1. h[x] \in Seq(StockMovement) /\ ms[x] \in Seq(StockMovement) /\ Goods(h[x], p) = {}
        BY <2>4, <2>5
      <3>2. Brought(h[x] \o ms[x], p) = Brought(ms[x], p)
        BY <3>1, BroughtPublished
      <3>3. g[x] = h[x] \o ms[x]
        BY <1>6, <2>1, <2>2, <2>3
      <3> QED
        BY <3>2, <3>3
    <2>7. Units(g, p) = Units(ms, p)
      BY <2>6, UnitsPublished
    <2>8. Units(ms, p) + Total({}) = Total(purchase[p].lines)
      BY <1>1, <2>2 DEF PurchaseFits
    <2>9. Total({}) = 0
      BY TotalSteps, FS_EmptySet
    <2>10. Units(ms, p) \in Int
      <3> DEFINE f == [x \in Rows |-> Brought(ms[x], p)]
      <3>1. \A x \in Rows : f[x] \in Int
        BY <2>4, GoodsType
      <3>2. Units(ms, p) = Sum(f, Rows)
        BY UnitsSum
      <3> HIDE DEF f
      <3> QED
        BY <3>1, <3>2, SumType
    <2>11. Units(ms, p) = Total(purchase[p].lines)
      BY <2>8, <2>9, <2>10
    <2> QED
      BY <2>3, <2>7, <2>11
  <1>10. ASSUME NEW o \in Purchases, o # p
         PROVE  Units(ledger', o) = Units(ledger, o)
    <2>1. PICK h : h = ledger
      OBVIOUS
    <2>2. PICK g : g = ledger'
      OBVIOUS
    <2>3. \A x \in Rows : Goods(g[x], o) = Goods(h[x], o)
      BY <1>7, <1>10, <2>1, <2>2 DEF Received
    <2>4. ASSUME NEW x \in Rows, NEW i \in Goods(h[x], o)
          PROVE  g[x][i] = h[x][i]
      <3>1. PICK k : k = h[x]
        OBVIOUS
      <3>2. PICK ms : ms = tx[r].moves[x]
        OBVIOUS
      <3>3. k \in Seq(StockMovement) /\ ms \in Seq(StockMovement) /\ g[x] = k \o ms
        BY <1>6, <2>1, <2>2, <3>1, <3>2
      <3>4. i \in DOMAIN k
        BY <3>1 DEF Goods
      <3>5. (k \o ms)[i] = k[i]
        BY <3>3, <3>4, Concatenated
      <3> QED
        BY <3>1, <3>3, <3>5
    <2>5. Units(g, o) = Units(h, o)
      BY <2>3, <2>4, UnitsSame
    <2> QED
      BY <2>1, <2>2, <2>5
  <1>11. PurchaseTable'
    <2> SUFFICES ASSUME NEW o \in Purchases
                 PROVE  /\ purchase'[o].total = Total(purchase'[o].lines)
                        /\ IsFiniteSet(purchase'[o].lines)
                        /\ o \in applied' => purchase'[o].status \notin {"NONE", "DRAFT"}
                        /\ o \notin applied' => \A x \in Rows : Received(o, x)' = {}
                        /\ o \in applied' /\ IsFiniteSet(Rows) => Units(ledger', o) = Total(purchase'[o].lines)
      BY DEF PurchaseTable
    <2>1. purchase'[o].total = Total(purchase'[o].lines) /\ IsFiniteSet(purchase'[o].lines)
      BY <1>1 DEF PurchaseTable
    <2>2. o \in applied' => purchase'[o].status \notin {"NONE", "DRAFT"}
      BY <1>1, <1>8 DEF PurchaseTable
    <2>3. o \notin applied' => \A x \in Rows : Received(o, x)' = {}
      BY <1>1, <1>7 DEF PurchaseTable
    <2>4. o \in applied' /\ IsFiniteSet(Rows) => Units(ledger', o) = Total(purchase'[o].lines)
      <3>1. CASE o = p
        BY <1>1, <1>9, <3>1
      <3>2. CASE o # p
        BY <1>1, <1>10, <3>2 DEF PurchaseTable
      <3> QED
        BY <3>1, <3>2
    <2> QED
      BY <2>1, <2>2, <2>3, <2>4
  <1>12. ReceivedKept
    BY <1>1 DEF ReceivedKept
  <1>13. PICK d : d = [c EXCEPT !.pc = "status"]
    OBVIOUS
  <1>14. purchaseCall' = [purchaseCall EXCEPT ![r] = d]
    BY <1>2, <1>13, PurchaseFacts DEF ApplyCommit, PurchaseCall
  <1>15. d.pc = "status" /\ d.purchase = p /\ d.target = c.target
    BY <1>2, <1>13 DEF PurchaseCall
  <1>16. PurchaseFits(r, d)'
    BY <1>1, <1>2, <1>5, <1>15 DEF PurchaseFits, Receiving
  <1> QED
    BY <1>4, <1>11, <1>12, <1>14, <1>16 DEF PurchaseGoesOn

(* Every step of a purchase handler, when nobody comes between.            *)
LEMMA PurchasesSerial ==
    ASSUME PurchasesInv, ReceiptInv, TablesInv, PurchaseTable, NEW r \in PurchaseRequests, Others(r),
           PurchaseFits(r, purchaseCall[r]), PurchaseStep(r)
    PROVE  PurchaseGoesOn(r)
  <1>1. CASE CreatePurchase(r) \/ EditRead(r) \/ EditDelete(r) \/ EditCommit(r)
    BY <1>1, PurchaseEditSerial
  <1>2. CASE TransitionRead(r) \/ StatusWrite(r) \/ ApplyCheck(r) \/ ApplyReadLines(r) \/ ApplyInsert(r)
    BY <1>2, TransitionSerial
  <1>3. CASE ApplyFind(r)
    BY <1>3, ApplyFindSerial
  <1>4. CASE ApplyPlaceholder(r)
    BY <1>4, ApplyPlaceholderSerial
  <1>5. CASE ApplyWrite(r)
    BY <1>5, ApplyWriteSerial
  <1>6. CASE ApplyCommit(r)
    BY <1>6, ApplyCommitSerial
  <1>7. CASE AbandonPurchaseCall(r)
    BY <1>7, PurchaseGivesUp, PurchaseFacts DEF AbandonPurchaseCall, DbInv
  <1> QED
    BY <1>1, <1>2, <1>3, <1>4, <1>5, <1>6, <1>7 DEF PurchaseStep, ContinuePurchase

-----------------------------------------------------------------------------
(* Goods that no receipt moves stay what they are.                         *)
LEMMA PurchaseTableFrame ==
    ASSUME ReceiptInv, PurchaseTable, DbTypeOK, DbTypeOK', NEW r \in Requests, r \notin PurchaseRequests,
           Quiet(r, GoodsIn), UNCHANGED <<purchase, applied>>
    PROVE  PurchaseTable'
  <1>1. \A x \in Rows, p \in Purchases : Goods(ledger'[x], p) = Goods(ledger[x], p)
    BY GoodsFrame
  <1>2. \A x \in Rows : Grew(ledger[x], ledger'[x], GoodsIn)
    <2>1. ASSUME NEW x \in Rows PROVE Free(tx[r].moves[x], GoodsIn)
      <3>1. tx[r].moves[x] \in Seq(StockMovement)
        BY DEF DbTypeOK, Transaction
      <3>2. PICK ms : ms = tx[r].moves[x]
        OBVIOUS
      <3>3. \A i \in DOMAIN ms : ms[i] \in StockMovement
        BY <3>1, <3>2
      <3>4. \A p \in Purchases : Goods(ms, p) = {}
        BY <3>2 DEF ReceiptInv, GoodsPending
      <3> QED
        BY <3>2, <3>3, <3>4 DEF Free, GoodsIn, Goods
    <2> QED
      BY <2>1 DEF Quiet
  <1>3. ASSUME NEW p \in Purchases PROVE Units(ledger', p) = Units(ledger, p)
    <2>1. PICK h : h = ledger
      OBVIOUS
    <2>2. PICK g : g = ledger'
      OBVIOUS
    <2>3. \A x \in Rows : Goods(g[x], p) = Goods(h[x], p) /\ \A i \in Goods(h[x], p) : g[x][i] = h[x][i]
      BY <1>1, <1>2, <2>1, <2>2 DEF Grew, Goods
    <2>4. Units(g, p) = Units(h, p)
      BY <2>3, UnitsSame
    <2> QED
      BY <2>1, <2>2, <2>4
  <1> QED
    BY <1>1, <1>3 DEF PurchaseTable, Received

(* Nobody else runs, before or after.                                      *)
LEMMA AloneOthers == \A r \in Requests : OneAtATime /\ Alone(r) => Others(r)
  BY DEF OneAtATime, Alone, Others

(* What is left to show of a step of r, who is alone.                      *)
LEMMA SerialKept ==
    ASSUME OneAtATime, NEW r \in StockRequests \cup SaleRequests \cup PurchaseRequests, r \in Requests, Alone(r), Others(r)',
           \A o \in Requests \ {r} : Running(o)' <=> Running(o),
           TablesInv', SaleTable', PurchaseTable',
           (r \in StockRequests => StockFits(r, call[r]))', (r \in SaleRequests => SaleFits(r, saleCall[r]))',
           (r \in PurchaseRequests => PurchaseFits(r, purchaseCall[r]))'
    PROVE  SerialInv'
  <1>1. \A o \in Requests \ {r} : ~Running(o)' /\ (tx[o] = NoTransaction)'
    BY DEF Alone, Others
  <1>2. ~Running(r)' => (tx[r] = NoTransaction)'
    BY DEF Running, StockFits, SaleFits, PurchaseFits
  <1>3. OneAtATime'
    BY <1>1, <1>2 DEF OneAtATime
  <1>4. ASSUME NEW o \in Requests \ {r}
        PROVE  /\ o \in StockRequests => StockFits(o, call[o])'
               /\ o \in SaleRequests => SaleFits(o, saleCall[o])'
               /\ o \in PurchaseRequests => PurchaseFits(o, purchaseCall[o])'
    <2>1. ~Running(o)' /\ (tx[o] = NoTransaction)'
      BY <1>1
    <2>2. (tx[o].own = {})'
      BY <2>1 DEF NoTransaction
    <2>3. o \in StockRequests => StockFits(o, call[o])'
      BY <2>1, <2>2 DEF Running, StockFits
    <2>4. o \in SaleRequests => SaleFits(o, saleCall[o])'
      BY <2>1 DEF Running, SaleFits
    <2>5. o \in PurchaseRequests => PurchaseFits(o, purchaseCall[o])'
      BY <2>1 DEF Running, PurchaseFits, Receiving
    <2> QED
      BY <2>3, <2>4, <2>5
  <1>5. StockRequests \subseteq Requests /\ SaleRequests \subseteq Requests /\ PurchaseRequests \subseteq Requests
    BY StockInputs, SalesInputs, PurchaseInputs
  <1>6. HandlersFit'
    BY <1>4, <1>5 DEF HandlersFit
  <1> QED
    BY <1>3, <1>6 DEF SerialInv

(* What a step shows of the tables, besides keeping the invariant.         *)
SerialActs ==
    /\ ReceivedKept
    /\ call' # call => Frozen

(* A step of a stock handler, alone.                                       *)
LEMMA StockAlone ==
    ASSUME InventoryInv, InventoryInv', ReceiptInv, SerialInv, NEW r \in StockRequests, Alone(r), StockStep(r),
           UNCHANGED <<sale, saleCall, purchase, applied, purchaseCall>>
    PROVE  SerialInv' /\ SerialActs
  <1>1. r \in Requests /\ r \notin SaleRequests /\ r \notin PurchaseRequests
    BY StockInputs, RequestKinds
  <1>2. StockInv /\ DbTypeOK /\ DbTypeOK' /\ call \in [StockRequests -> Call]
    BY DEF InventoryInv, StockInv, DbInv, StockTypeOK
  <1>3. Others(r) /\ TablesInv /\ PurchaseTable /\ SaleTable /\ OneAtATime /\ StockFits(r, call[r])
    BY <1>1, AloneOthers DEF SerialInv, HandlersFit
  <1>4. StockGoesOn(r)
    BY <1>2, <1>3, StockSerial
  <1>5. PICK c : call' = [call EXCEPT ![r] = c] /\ StockFits(r, c)'
    BY <1>4 DEF StockGoesOn
  <1>6. TablesInv' /\ Others(r)' /\ Frozen
    BY <1>4 DEF StockGoesOn, Serially
  <1>7. PurchaseTable'
    <2>1. Quiet(r, GoodsIn)
      BY <1>2, StockQuiet
    <2> QED
      BY <1>1, <1>2, <1>3, <2>1, PurchaseTableFrame
  <1>8. SaleTable'
    BY <1>3 DEF SaleTable
  <1>9. \A o \in Requests \ {r} : Running(o)' <=> Running(o)
    BY <1>2, <1>5 DEF Running
  <1>10. StockFits(r, call[r])'
    BY <1>2, <1>5
  <1>11. SerialInv'
    BY <1>1, <1>3, <1>6, <1>7, <1>8, <1>9, <1>10, SerialKept
  <1>12. SerialActs
    BY <1>6 DEF SerialActs, ReceivedKept
  <1> QED
    BY <1>11, <1>12

(* A step of a sale handler, alone.                                        *)
LEMMA SalesAlone ==
    ASSUME InventoryInv, InventoryInv', ReceiptInv, PaymentInv, SerialInv, NEW r \in SaleRequests, Alone(r), SalesStep(r),
           UNCHANGED <<call, purchase, applied, purchaseCall>>
    PROVE  SerialInv' /\ SerialActs
  <1>1. r \in Requests /\ r \notin StockRequests /\ r \notin PurchaseRequests
    BY SalesInputs, RequestKinds
  <1>2. SalesInv /\ DbTypeOK /\ DbTypeOK' /\ saleCall \in [SaleRequests -> SaleCall]
    BY DEF InventoryInv, SalesInv, DbInv, SalesTypeOK
  <1>3. Others(r) /\ TablesInv /\ PurchaseTable /\ SaleTable /\ OneAtATime /\ SaleFits(r, saleCall[r])
    BY <1>1, AloneOthers DEF SerialInv, HandlersFit
  <1>4. SaleGoesOn(r)
    BY <1>2, <1>3, SalesSerial
  <1>5. PICK c : saleCall' = [saleCall EXCEPT ![r] = c] /\ SaleFits(r, c)'
    BY <1>4 DEF SaleGoesOn
  <1>6. TablesInv' /\ Others(r)' /\ SaleTable'
    BY <1>4 DEF SaleGoesOn, Serially
  <1>7. PurchaseTable'
    <2>1. Quiet(r, GoodsIn)
      BY <1>2, SalesQuiet
    <2> QED
      BY <1>1, <1>2, <1>3, <2>1, PurchaseTableFrame
  <1>8. \A o \in Requests \ {r} : Running(o)' <=> Running(o)
    BY <1>2, <1>5 DEF Running
  <1>9. SaleFits(r, saleCall[r])'
    BY <1>2, <1>5
  <1>10. SerialInv'
    BY <1>1, <1>3, <1>6, <1>7, <1>8, <1>9, SerialKept
  <1>11. SerialActs
    BY <1>6 DEF SerialActs, ReceivedKept
  <1> QED
    BY <1>10, <1>11

(* A step of a purchase handler, alone.                                    *)
LEMMA PurchasesAlone ==
    ASSUME InventoryInv, InventoryInv', ReceiptInv, SerialInv, NEW r \in PurchaseRequests, Alone(r), PurchaseStep(r),
           UNCHANGED <<call, sale, saleCall>>
    PROVE  SerialInv' /\ SerialActs
  <1>1. r \in Requests /\ r \notin StockRequests /\ r \notin SaleRequests
    BY PurchaseInputs, RequestKinds
  <1>2. PurchasesInv /\ purchaseCall \in [PurchaseRequests -> PurchaseCall]
    BY DEF InventoryInv, PurchasesInv
  <1>3. Others(r) /\ TablesInv /\ PurchaseTable /\ SaleTable /\ OneAtATime /\ PurchaseFits(r, purchaseCall[r])
    BY <1>1, AloneOthers DEF SerialInv, HandlersFit
  <1>4. PurchaseGoesOn(r)
    BY <1>2, <1>3, PurchasesSerial
  <1>5. PICK c : purchaseCall' = [purchaseCall EXCEPT ![r] = c] /\ PurchaseFits(r, c)'
    BY <1>4 DEF PurchaseGoesOn
  <1>6. TablesInv' /\ Others(r)' /\ PurchaseTable' /\ ReceivedKept
    BY <1>4 DEF PurchaseGoesOn, Serially
  <1>7. SaleTable'
    BY <1>3 DEF SaleTable
  <1>8. \A o \in Requests \ {r} : Running(o)' <=> Running(o)
    BY <1>2, <1>5 DEF Running
  <1>9. PurchaseFits(r, purchaseCall[r])'
    BY <1>2, <1>5
  <1>10. SerialInv'
    BY <1>1, <1>3, <1>6, <1>7, <1>8, <1>9, SerialKept
  <1>11. SerialActs
    BY <1>6 DEF SerialActs
  <1> QED
    BY <1>10, <1>11

(* Nothing runs at the start, nothing has been received or sold.           *)
LEMMA SerialInvInit == Init => SerialInv
  <1> SUFFICES ASSUME Init PROVE SerialInv
    OBVIOUS
  <1>1. /\ stock = Seed /\ ledger = [x \in Rows |-> InitialLedger(x)]
        /\ \A r \in Requests : tx[r] = NoTransaction /\ tx[r].own = {}
    BY DEF Init, DbInit, NoTransaction
  <1>2. /\ \A r \in StockRequests : call[r].pc = "new"
        /\ \A r \in SaleRequests : saleCall[r].pc = "new"
        /\ \A r \in PurchaseRequests : purchaseCall[r].pc = "new"
    BY DEF Init, StockInit, SalesInit, PurchasesInit, NewCall, NewSaleCall, NewPurchaseCall
  <1>3. StockRequests \subseteq Requests /\ SaleRequests \subseteq Requests /\ PurchaseRequests \subseteq Requests
    BY StockInputs, SalesInputs, PurchaseInputs
  <1>4. \A r \in Requests : ~Running(r)
    BY <1>2 DEF Running
  <1>5. OneAtATime
    BY <1>1, <1>4 DEF OneAtATime
  <1>6. \A x \in Rows : \A i \in DOMAIN ledger[x] : i = 1 /\ ledger[x][i].before = 0 /\ ledger[x][i].doc = NoDoc
    BY <1>1 DEF InitialLedger, Movement
  <1>7. TablesInv
    <2>1. \A x \in Rows : stock[x].state = "absent" => stock[x] = Missing
      BY <1>1, SeedAssumption
    <2>2. LedgerContinuous
      BY <1>6 DEF LedgerContinuous
    <2> QED
      BY <1>1, <2>1, <2>2 DEF TablesInv
  <1>8. SaleTable
    <2>1. sale = SeedSales
      BY DEF Init, SalesInit
    <2> QED
      BY <2>1, SalesInputs DEF SaleTable, NoTwinLines
  <1>9. PurchaseTable
    <2>1. purchase = SeedPurchases /\ applied = {}
      BY DEF Init, PurchasesInit
    <2>2. \A p \in Purchases, x \in Rows : Received(p, x) = {}
      BY <1>6, SentinelAssumption DEF Received, Goods
    <2> QED
      BY <2>1, <2>2, PurchaseInputs DEF PurchaseTable
  <1>10. \A r \in StockRequests : StockFits(r, call[r])
    BY <1>1, <1>2, <1>3 DEF StockFits
  <1>11. \A r \in SaleRequests : SaleFits(r, saleCall[r])
    BY <1>1, <1>2, <1>3 DEF SaleFits
  <1>12. \A r \in PurchaseRequests : PurchaseFits(r, purchaseCall[r])
    BY <1>1, <1>2, <1>3 DEF PurchaseFits, Receiving
  <1>13. HandlersFit
    BY <1>10, <1>11, <1>12 DEF HandlersFit
  <1> QED
    BY <1>5, <1>7, <1>8, <1>9, <1>13 DEF SerialInv

(* The requests of a serial run take the steps they take among others.     *)
LEMMA SerialIsNext == [SerialNext]_vars => [Next]_vars
  BY DEF SerialNext, Next, StockNext, SalesNext, PurchasesNext

(* What holds of every run holds of a serial one, and the serial           *)
(* invariant with it.                                                      *)
LEMMA SerialStep ==
    ASSUME InventoryInv, ReceiptInv, PaymentInv, SerialInv, [SerialNext]_vars
    PROVE  SerialInv' /\ SerialActs
  <1> InventoryInv'
    BY InventoryInvNext, SerialIsNext
  <1>1. CASE \E r \in StockRequests : Alone(r) /\ StockStep(r) /\ UNCHANGED <<sale, saleCall, purchase, applied, purchaseCall>>
    BY <1>1, StockAlone
  <1>2. CASE \E r \in SaleRequests : Alone(r) /\ SalesStep(r) /\ UNCHANGED <<call, purchase, applied, purchaseCall>>
    BY <1>2, SalesAlone
  <1>3. CASE \E r \in PurchaseRequests : Alone(r) /\ PurchaseStep(r) /\ UNCHANGED <<call, sale, saleCall>>
    BY <1>3, PurchasesAlone
  <1>4. CASE UNCHANGED vars
    <2> USE <1>4 DEF vars
    <2>1. OneAtATime'
      BY DEF SerialInv, OneAtATime, Running
    <2>2. TablesInv'
      BY DEF SerialInv, TablesInv, LeadsOn, LedgerContinuous
    <2>3. SaleTable'
      BY DEF SerialInv, SaleTable
    <2>4. PurchaseTable'
      BY DEF SerialInv, PurchaseTable, Received
    <2>5. (\A r \in StockRequests : StockFits(r, call[r]))'
      BY DEF SerialInv, HandlersFit, StockFits, View
    <2>6. (\A r \in SaleRequests : SaleFits(r, saleCall[r]))'
      BY DEF SerialInv, HandlersFit, SaleFits
    <2>7. (\A r \in PurchaseRequests : PurchaseFits(r, purchaseCall[r]))'
      BY DEF SerialInv, HandlersFit, PurchaseFits, View
    <2>8. SerialActs
      BY DEF SerialActs, ReceivedKept
    <2> QED
      BY <2>1, <2>2, <2>3, <2>4, <2>5, <2>6, <2>7, <2>8 DEF SerialInv, HandlersFit
  <1> QED
    BY <1>1, <1>2, <1>3, <1>4 DEF SerialNext

(* A serial run is one of the runs that are possible.                      *)
LEMMA SerialIsSpec == SerialSpec => Spec
  BY SerialIsNext, PTL DEF SerialSpec, Spec

(* The invariant of payments, of any run.                                  *)
LEMMA PaymentInvariant == Spec => []PaymentInv
  <1>1. Init => PaymentInv
    BY PaymentInvInit DEF Init
  <1> QED
    BY <1>1, PaymentNext, InventoryInvariant, StampsInvariant, PTL DEF Spec

(* With one request at a time, whatever the requests are and wherever they *)
(* are abandoned, what a handler has read is still so when it writes.      *)
THEOREM SerialInvariant == SerialSpec => []SerialInv
  <1>1. InventoryInv /\ ReceiptInv /\ PaymentInv /\ SerialInv /\ [SerialNext]_vars => SerialInv'
    BY SerialStep
  <1> QED
    BY <1>1, SerialInvInit, SerialIsSpec, InventoryInvariant, ReceiptInvariant, PaymentInvariant, PTL DEF SerialSpec

(* And every step of it does only what SerialActs allows.                  *)
LEMMA SerialActsAlways == SerialSpec => [][SerialActs]_vars
  <1>1. InventoryInv /\ ReceiptInv /\ PaymentInv /\ SerialInv /\ [SerialNext]_vars => [SerialActs]_vars
    BY SerialStep
  <1> QED
    BY <1>1, SerialInvariant, SerialIsSpec, InventoryInvariant, ReceiptInvariant, PaymentInvariant, PTL DEF SerialSpec

-----------------------------------------------------------------------------
(* The stock handlers leave the quantity of a soft-deleted item alone when *)
(* nobody deletes it under their hands.                                    *)
THEOREM DeletedStaysFrozen == SerialSpec => DeletedIsFrozen
  <1>1. [SerialActs]_vars =>
           [call' # call => \A x \in Rows : stock[x].state = "deleted" => stock'[x].qty = stock[x].qty]_stockVars
    BY DEF SerialActs, Frozen, vars, stockVars
  <1> QED
    BY <1>1, SerialActsAlways, PTL DEF DeletedIsFrozen

(* A purchase that has been RECEIVED stays RECEIVED, if the status a       *)
(* transition was validated against is still the one it overwrites.        *)
THEOREM ReceivedStaysReceived == SerialSpec => ReceivedIsFinal
  <1>1. [SerialActs]_vars =>
           [\A p \in Purchases : purchase[p].status = "RECEIVED" => purchase'[p].status = "RECEIVED"]_purchaseVars
    BY DEF SerialActs, ReceivedKept, vars, purchaseVars
  <1> QED
    BY <1>1, SerialActsAlways, PTL DEF ReceivedIsFinal

(* The stored total of a purchase is the sum of its lines, if the lines an *)
(* edit deletes are all the lines there are when it inserts its own.       *)
THEOREM TotalAlwaysMatches == SerialSpec => []TotalMatchesLines
  <1>1. SerialInv => TotalMatchesLines
    BY DEF SerialInv, PurchaseTable, TotalMatchesLines
  <1> QED
    BY <1>1, SerialInvariant, PTL

(* The units that a purchase put into stock are those of its lines: a      *)
(* receipt, whatever rows it finds or creates, enters each line once.      *)
THEOREM StockAlwaysMatches == IsFiniteSet(Rows) => (SerialSpec => []StockMatchesLines)
  <1> SUFFICES ASSUME IsFiniteSet(Rows) PROVE SerialSpec => []StockMatchesLines
    OBVIOUS
  <1>1. ASSUME NEW p PROVE UnitsReceived(p) = Units(ledger, p)
    BY Zenon DEF UnitsReceived, Units, Received, Delta
  <1>2. InventoryInv /\ SerialInv => StockMatchesLines
    BY <1>1 DEF InventoryInv, PurchasesInv, SerialInv, PurchaseTable, StockMatchesLines
  <1> QED
    BY <1>2, SerialInvariant, SerialIsSpec, InventoryInvariant, PTL

(* Every movement starts from the quantity the one before it ended in:     *)
(* with one request at a time no handler writes a movement from a quantity *)
(* that somebody has changed since, provided no cart takes the same stock  *)
(* item twice.                                                             *)
THEOREM LedgerAlwaysContinuous == NoTwinLines => (SerialSpec => []LedgerContinuous)
  <1> SUFFICES ASSUME NoTwinLines PROVE SerialSpec => []LedgerContinuous
    OBVIOUS
  <1>1. SerialInv => LedgerContinuous
    BY DEF SerialInv, TablesInv
  <1> QED
    BY <1>1, SerialInvariant, PTL

(* Then nobody sells what was never in stock: the movements of a row add   *)
(* up to the quantity it has.                                              *)
THEOREM NeverSoldShort == NoTwinLines => (SerialSpec => []NeverOversold)
  <1> SUFFICES ASSUME NoTwinLines PROVE SerialSpec => []NeverOversold
    OBVIOUS
  <1>1. InventoryInv /\ SerialInv => NeverOversold
    BY ContinuousNotOversold DEF InventoryInv, StockInv, SerialInv, TablesInv
  <1> QED
    BY <1>1, SerialInvariant, SerialIsSpec, InventoryInvariant, PTL

-----------------------------------------------------------------------------
(* What a step of a sale handler does to sales and stock.  Most do         *)
(* nothing; one inserts a sale;                                            *)
Inserts(r, s) ==
    /\ sale[s].status = "NONE"
    /\ sale' = [sale EXCEPT ![s] = [NoSale EXCEPT !.status = "DRAFT", !.lines = saleCall[r].lines]]
    /\ UNCHANGED <<stock, ledger>>

(* some take a sale from one state to the next;                            *)
Retouched(old, new) ==
    \/ new.status = old.status /\ new.deleted = old.deleted
    \/ new.status = old.status /\ new.deleted = FALSE
    \/ old.status = "DRAFT" /\ new.status = "DRAFT" /\ new.deleted = TRUE
    \/ /\ new.deleted = old.deleted
       /\ \/ ~old.deleted /\ old.status \in {"DRAFT", "PAID"} /\ new.status = "CANCELLED"
          \/ old.status = "PAID" /\ new.status = "SHIPPED"
          \/ ~old.deleted /\ old.status = "SHIPPED" /\ new.status = "DELIVERED"

Retouches(s, new) ==
    /\ sale[s].status # "NONE" /\ new.lines = sale[s].lines /\ Retouched(sale[s], new)
    /\ sale' = [sale EXCEPT ![s] = new]
    /\ UNCHANGED <<stock, ledger>>

(* and one commits a payment.                                              *)
Pays(r, s) ==
    /\ saleCall[r].pc = "payTx" /\ saleCall[r].sale = s /\ saleCall[r].k = Len(saleCall[r].lines) + 1
    /\ Commit(r, {s})
    /\ sale' = [sale EXCEPT ![s].status = "PAID", ![s].stamps = @ \cup {"paid"}]

LEMMA SaleEffect ==
    ASSUME SalesInv, PaymentInv, NEW r \in SaleRequests, SaleFits(r, saleCall[r]), SalesStep(r)
    PROVE  \/ UNCHANGED <<stock, ledger, sale>>
           \/ \E s \in Sales : Inserts(r, s)
           \/ \E s \in Sales : \E new : Retouches(s, new)
           \/ \E s \in Sales : Pays(r, s)
  <1> DEFINE c == saleCall[r]
             s == c.sale
             old == sale[s]
  <1>1. c.pc \notin {"new", "create", "done"} => s \in Sales /\ old \in Sale /\ old.status # "NONE"
    BY SaleFacts DEF SaleCallOK, PaymentInv, Paying
  <1>2. ASSUME NEW pc, NEW admitted, ReadSale(r, pc, admitted) PROVE UNCHANGED <<stock, ledger, sale>>
    BY <1>2 DEF ReadSale, RejectSale
  <1>3. CASE \/ UpdateSaleRead(r) \/ PayRead(r) \/ CancelRead(r) \/ ShipRead(r)
             \/ DeliverRead(r) \/ DeleteSaleRead(r) \/ RestoreSaleRead(r)
    BY <1>2, <1>3 DEF UpdateSaleRead, PayRead, CancelRead, ShipRead, DeliverRead, DeleteSaleRead, RestoreSaleRead
  <1>4. CASE CreateSaleRead(r) \/ PayReadStock(r) \/ PayBegin(r) \/ PayLine(r) \/ AbandonSaleCall(r)
    BY <1>4 DEF CreateSaleRead, RejectSale, PayReadStock, PayBegin, BeginSerializable, PayLine, AbandonSaleCall,
                Rollback, WriteRow, dbVars
  <1>5. CASE CreateSaleWrite(r)
    BY <1>5 DEF CreateSaleWrite, Inserts, dbVars
  <1>6. CASE PayCommit(r)
    BY <1>1, <1>6 DEF PayCommit, SaleAt, Rollback, Pays
  <1>7. ASSUME NEW new, c.pc \notin {"new", "create", "done"}, WriteSale(r, new), new.lines = old.lines, Retouched(old, new)
        PROVE  \E t \in Sales : \E n : Retouches(t, n)
    <2>1. Retouches(s, new)
      BY <1>1, <1>7 DEF Retouches, WriteSale, CommitDocs
    <2> QED
      BY <1>1, <1>7, <2>1
  <1> HIDE DEF old
  <1>8. CASE UpdateSaleWrite(r)
    <2>1. PICK discount \in Discounts : c.pc = "update" /\ WriteSale(r, [old EXCEPT !.discount = discount])
      BY <1>8 DEF UpdateSaleWrite, SaleAt, This, old
    <2> DEFINE new == [old EXCEPT !.discount = discount]
    <2>2. new.lines = old.lines /\ new.status = old.status /\ new.deleted = old.deleted
      BY <1>1, <2>1 DEF Sale
    <2> HIDE DEF new
    <2> QED
      BY <1>7, <2>1, <2>2 DEF new, Retouched
  <1>9. CASE CancelWrite(r)
    <2>1. c.pc = "cancel" /\ WriteSale(r, [old EXCEPT !.status = "CANCELLED"])
      BY <1>9 DEF CancelWrite, SaleAt, This, old
    <2> DEFINE new == [old EXCEPT !.status = "CANCELLED"]
    <2>2. new.lines = old.lines /\ new.status = "CANCELLED" /\ new.deleted = old.deleted
      BY <1>1, <2>1 DEF Sale
    <2>3. ~old.deleted /\ old.status \in {"DRAFT", "PAID"}
      BY <2>1 DEF SaleFits, old
    <2> HIDE DEF new
    <2> QED
      BY <1>7, <2>1, <2>2, <2>3 DEF new, Retouched
  <1>10. CASE ShipWrite(r)
    <2>1. c.pc = "ship" /\ WriteSale(r, [old EXCEPT !.status = "SHIPPED", !.stamps = @ \cup {"shipped"}])
      BY <1>10 DEF ShipWrite, SaleAt, This, old
    <2> DEFINE new == [old EXCEPT !.status = "SHIPPED", !.stamps = @ \cup {"shipped"}]
    <2>2. new.lines = old.lines /\ new.status = "SHIPPED" /\ new.deleted = old.deleted
      BY <1>1, <2>1 DEF Sale
    <2>3. old.status = "PAID"
      BY <2>1 DEF SaleFits, old
    <2> HIDE DEF new
    <2> QED
      BY <1>7, <2>1, <2>2, <2>3 DEF new, Retouched
  <1>11. CASE DeliverWrite(r)
    <2>1. c.pc = "deliver" /\ WriteSale(r, [old EXCEPT !.status = "DELIVERED", !.stamps = @ \cup {"delivered"}])
      BY <1>11 DEF DeliverWrite, SaleAt, This, old
    <2> DEFINE new == [old EXCEPT !.status = "DELIVERED", !.stamps = @ \cup {"delivered"}]
    <2>2. new.lines = old.lines /\ new.status = "DELIVERED" /\ new.deleted = old.deleted
      BY <1>1, <2>1 DEF Sale
    <2>3. ~old.deleted /\ old.status = "SHIPPED"
      BY <2>1 DEF SaleFits, old
    <2> HIDE DEF new
    <2> QED
      BY <1>7, <2>1, <2>2, <2>3 DEF new, Retouched
  <1>12. CASE DeleteSaleWrite(r)
    <2>1. c.pc = "delete" /\ WriteSale(r, [old EXCEPT !.deleted = TRUE])
      BY <1>12 DEF DeleteSaleWrite, SaleAt, This, old
    <2> DEFINE new == [old EXCEPT !.deleted = TRUE]
    <2>2. new.lines = old.lines /\ new.status = old.status /\ new.deleted = TRUE
      BY <1>1, <2>1 DEF Sale
    <2>3. old.status = "DRAFT"
      BY <2>1 DEF SaleFits, old
    <2> HIDE DEF new
    <2> QED
      BY <1>7, <2>1, <2>2, <2>3 DEF new, Retouched
  <1>13. CASE RestoreSaleWrite(r)
    <2>1. c.pc = "restore" /\ WriteSale(r, [old EXCEPT !.deleted = FALSE])
      BY <1>13 DEF RestoreSaleWrite, SaleAt, This, old
    <2> DEFINE new == [old EXCEPT !.deleted = FALSE]
    <2>2. new.lines = old.lines /\ new.status = old.status /\ new.deleted = FALSE
      BY <1>1, <2>1 DEF Sale
    <2> HIDE DEF new
    <2> QED
      BY <1>7, <2>1, <2>2 DEF new, Retouched
  <1> QED
    BY <1>3, <1>4, <1>5, <1>6, <1>8, <1>9, <1>10, <1>11, <1>12, <1>13 DEF SalesStep, ContinueSale

-----------------------------------------------------------------------------
(* The SOLD movements of row x for sale s, and the lines of s they are for.*)
SoldFor(x, s) == {i \in DOMAIN ledger[x] : ledger[x][i].type = "SOLD" /\ ledger[x][i].doc = s}
LinesFor(s, x) == {k \in StockLines(sale[s].lines) : sale[s].lines[k].row = x}

LEMMA LinesForFinite ==
    ASSUME NEW lines \in Seq(Line), NEW x
    PROVE  LET set == {k \in StockLines(lines) : lines[k].row = x}
           IN  IsFiniteSet(set) /\ Cardinality(set) \in Nat
  <1> DEFINE set == {k \in StockLines(lines) : lines[k].row = x}
  <1>1. set \subseteq 1..Len(lines) /\ Len(lines) \in Nat
    BY DEF StockLines
  <1>2. IsFiniteSet(1..Len(lines))
    BY <1>1, FS_Interval
  <1> HIDE DEF set
  <1> QED
    BY <1>1, <1>2, FS_Subset, FS_CardinalityType DEF set

(* A movement that is not a sale's changes nothing of that.                *)
LEMMA SoldForFrame ==
    ASSUME PaymentInv, DbTypeOK, NEW r \in Requests, r \notin SaleRequests, Quiet(r, Sold), DbTypeOK',
           NEW x \in Rows, NEW s
    PROVE  SoldFor(x, s)' = SoldFor(x, s)
  <1>1. Free(tx[r].moves[x], Sold)
    BY DEF PaymentInv, Free, Sold
  <1>2. \A y \in Rows : Free(tx[r].moves[y], Sold)
    BY DEF PaymentInv, Free, Sold
  <1>3. Grew(ledger[x], ledger'[x], Sold)
    BY <1>2 DEF Quiet
  <1>4. \A i \in DOMAIN ledger'[x] : ledger'[x][i] \in StockMovement
    <2>1. PICK h : h = ledger'[x]
      OBVIOUS
    <2>2. h \in Seq(StockMovement)
      BY <2>1 DEF DbTypeOK
    <2> QED
      BY <2>1, <2>2
  <1> QED
    BY <1>3, <1>4 DEF SoldFor, Grew, Sold

(* What a payment publishes is its sale's alone, one movement per line.    *)
LEMMA PaysOnce ==
    ASSUME SalesInv, PaymentInv, SaleTable, NEW r \in SaleRequests, SaleFits(r, saleCall[r]),
           NEW s \in Sales, Pays(r, s), NEW x \in Rows
    PROVE  /\ \A t \in Sales \ {s} : SoldFor(x, t)' = SoldFor(x, t)
           /\ Cardinality(SoldFor(x, s)') <= Cardinality(LinesFor(s, x))
  <1> DEFINE c == saleCall[r]
             n == Cardinality(LinesDone(c, x))
  <1>1. /\ c.pc = "payTx" /\ c.sale = s /\ c.k = Len(c.lines) + 1 /\ Commit(r, {s})
        /\ r \in Requests /\ c \in SaleCall /\ DbTypeOK
    BY SaleFacts DEF Pays, SaleCallOK, DbInv
  <1>2. PICK h : h = ledger[x]
    OBVIOUS
  <1>3. PICK ms : ms = tx[r].moves[x]
    OBVIOUS
  <1>4. PICK g : g = ledger'[x]
    OBVIOUS
  <1>5. h \in Seq(StockMovement) /\ ms \in Seq(StockMovement) /\ g = h \o ms
    BY <1>1, <1>2, <1>3, <1>4 DEF Commit, DbTypeOK, Transaction
  <1>6. /\ \A i \in DOMAIN h : i \in DOMAIN g /\ g[i] = h[i]
        /\ \A i \in DOMAIN g \ DOMAIN h : i - Len(h) \in DOMAIN ms /\ g[i] = ms[i - Len(h)]
    BY <1>5, Concatenated
  <1>7. \A i \in DOMAIN ms : ms[i].type = "SOLD" => ms[i].doc = s
    BY <1>1, <1>3 DEF PaymentInv
  <1>8. \A t \in Sales \ {s} : SoldFor(x, t)' = SoldFor(x, t)
    BY <1>2, <1>4, <1>6, <1>7 DEF SoldFor
  <1>9. SoldFor(x, s) = {}
    <2>1. "paid" \notin sale[s].stamps
      BY <1>1 DEF SaleFits, SaleTable
    <2> QED
      BY <2>1 DEF SoldFor, PaymentInv, PaidIffTaken
  <1>10. LinesFor(s, x) = LinesDone(c, x)
    <2>1. c.lines = sale[s].lines /\ c.lines \in Seq(Line)
      BY <1>1 DEF PaymentInv, Paying, SaleCall
    <2>2. \A k \in DOMAIN c.lines : k < c.k
      BY <1>1, <2>1
    <2> QED
      BY <2>1, <2>2 DEF LinesFor, LinesDone, StockLines
  <1>11. Len(ms) = n /\ Len(ms) \in Nat /\ Len(h) \in Nat
    BY <1>1, <1>3, <1>5 DEF SaleFits
  <1> DEFINE a == Len(h) + 1
             b == Len(h) + Len(ms)
  <1>12. SoldFor(x, s)' \subseteq a..b
    <2>1. \A i \in SoldFor(x, s)' : i \in DOMAIN g \ DOMAIN h
      BY <1>2, <1>4, <1>6, <1>9 DEF SoldFor
    <2>2. \A i \in DOMAIN g \ DOMAIN h : i \in Int /\ i - Len(h) \in 1..Len(ms)
      BY <1>5, <1>6
    <2>3. \A i \in DOMAIN g \ DOMAIN h : i \in a..b
      BY <1>11, <2>2
    <2> QED
      BY <2>1, <2>3
  <1>13. IsFiniteSet(a..b) /\ Cardinality(a..b) = Len(ms)
    <2>1. a \in Int /\ b \in Int /\ (IF a > b THEN 0 ELSE b - a + 1) = Len(ms)
      BY <1>11
    <2> HIDE DEF a, b
    <2> QED
      BY <2>1, FS_Interval
  <1>14. Cardinality(SoldFor(x, s)') <= Cardinality(a..b)
    <2> HIDE DEF a, b
    <2> QED
      BY <1>12, <1>13, FS_Subset
  <1> QED
    BY <1>8, <1>10, <1>11, <1>13, <1>14

LEMMA PaidOnceStep ==
    ASSUME InventoryInv, InventoryInv', StampsInv, PaymentInv, SerialInv, PaidOnce, [SerialNext]_vars
    PROVE  PaidOnce'
  <1> SUFFICES ASSUME NEW s \in Sales, NEW x \in Rows
               PROVE  Cardinality(SoldFor(x, s)') <= Cardinality(LinesFor(s, x)')
    BY DEF PaidOnce, SoldFor, LinesFor
  <1>1. Cardinality(SoldFor(x, s)) <= Cardinality(LinesFor(s, x))
    BY DEF PaidOnce, SoldFor, LinesFor
  <1>2. StockInv /\ SalesInv /\ PurchasesInv /\ DbTypeOK /\ DbTypeOK'
    BY DEF InventoryInv, StockInv, DbInv
  <1>3. ASSUME NEW r \in Requests, r \notin SaleRequests, Quiet(r, Sold), UNCHANGED sale
        PROVE  Cardinality(SoldFor(x, s)') <= Cardinality(LinesFor(s, x)')
    BY <1>1, <1>2, <1>3, SoldForFrame DEF LinesFor
  <1>4. ASSUME NEW r \in StockRequests, StockStep(r), UNCHANGED sale
        PROVE  Cardinality(SoldFor(x, s)') <= Cardinality(LinesFor(s, x)')
    BY <1>2, <1>3, <1>4, StockQuiet, StockInputs, RequestKinds
  <1>5. ASSUME NEW r \in PurchaseRequests, PurchaseStep(r), UNCHANGED sale
        PROVE  Cardinality(SoldFor(x, s)') <= Cardinality(LinesFor(s, x)')
    BY <1>2, <1>3, <1>5, PurchasesQuiet, PurchaseInputs, RequestKinds
  <1>6. ASSUME NEW r \in SaleRequests, SalesStep(r)
        PROVE  Cardinality(SoldFor(x, s)') <= Cardinality(LinesFor(s, x)')
    <2>1. SaleFits(r, saleCall[r]) /\ SaleTable
      BY DEF SerialInv, HandlersFit
    <2>2. CASE UNCHANGED <<stock, ledger, sale>>
      BY <1>1, <2>2 DEF SoldFor, LinesFor
    <2>3. ASSUME NEW t \in Sales, Inserts(r, t)
          PROVE  Cardinality(SoldFor(x, s)') <= Cardinality(LinesFor(s, x)')
      <3>1. SoldFor(x, s)' = SoldFor(x, s) /\ \A u \in Sales \ {t} : sale'[u] = sale[u]
        BY <1>2, <2>3, SaleFacts DEF Inserts, SoldFor
      <3>2. CASE s # t
        BY <1>1, <3>1, <3>2 DEF LinesFor
      <3>3. CASE s = t
        <4>1. "paid" \notin sale[s].stamps
          BY <2>3, <3>3 DEF Inserts, StampsInv
        <4>2. SoldFor(x, s) = {}
          BY <4>1 DEF SoldFor, PaymentInv, PaidIffTaken
        <4>3. sale'[s].lines \in Seq(Line)
          BY DEF InventoryInv, SalesInv, SalesTypeOK, Sale
        <4>4. Cardinality(LinesFor(s, x)') \in Nat
          BY <4>3, LinesForFinite DEF LinesFor
        <4> QED
          BY <3>1, <4>2, <4>4, FS_EmptySet
      <3> QED
        BY <3>2, <3>3
    <2>4. ASSUME NEW t \in Sales, NEW new, Retouches(t, new)
          PROVE  Cardinality(SoldFor(x, s)') <= Cardinality(LinesFor(s, x)')
      BY <1>1, <1>2, <2>4, SaleFacts DEF Retouches, SoldFor, LinesFor
    <2>5. ASSUME NEW t \in Sales, Pays(r, t)
          PROVE  Cardinality(SoldFor(x, s)') <= Cardinality(LinesFor(s, x)')
      <3>1. sale'[s].lines = sale[s].lines
        BY <1>2, <2>5, SaleFacts DEF Pays, Sale
      <3>2. LinesFor(s, x)' = LinesFor(s, x)
        BY <3>1 DEF LinesFor
      <3> QED
        BY <1>1, <1>2, <2>1, <2>5, <3>2, PaysOnce
    <2> QED
      BY <1>2, <1>6, <2>1, <2>2, <2>3, <2>4, <2>5, SaleEffect
  <1>7. CASE UNCHANGED vars
    BY <1>1, <1>7 DEF vars, SoldFor, LinesFor
  <1> QED
    BY <1>4, <1>5, <1>6, <1>7 DEF SerialNext

(* A sale takes each of its lines from stock once: with one request at a   *)
(* time a sale that is PAID, cancelled or abandoned halfway is never paid  *)
(* again.                                                                  *)
THEOREM PaidAtMostOnce == SerialSpec => []PaidOnce
  <1>1. Init => PaidOnce
    <2> SUFFICES ASSUME Init, NEW s \in Sales, NEW x \in Rows
                 PROVE  Cardinality(SoldFor(x, s)) <= Cardinality(LinesFor(s, x))
      BY DEF PaidOnce, SoldFor, LinesFor
    <2>1. SoldFor(x, s) = {}
      BY DEF Init, DbInit, InitialLedger, Movement, SoldFor
    <2>2. sale[s].lines \in Seq(Line)
      BY SalesInputs DEF Init, SalesInit, Sale
    <2>3. Cardinality(LinesFor(s, x)) \in Nat
      BY <2>2, LinesForFinite DEF LinesFor
    <2> QED
      BY <2>1, <2>3, FS_EmptySet
  <1>2. InventoryInv /\ InventoryInv' /\ StampsInv /\ PaymentInv /\ SerialInv /\ PaidOnce /\ [SerialNext]_vars => PaidOnce'
    BY PaidOnceStep
  <1> QED
    BY <1>1, <1>2, SerialInvariant, SerialIsSpec, InventoryInvariant, StampsInvariant, PaymentInvariant, PTL DEF SerialSpec

-----------------------------------------------------------------------------
(* The state machine of sales.  The units that lines ask of a stock item:  *)
(* none, or those of its one line.                                         *)
LEMMA DemandOf ==
    ASSUME NEW lines \in Seq(Line), NEW x \in Rows
    PROVE  /\ Demand(lines)[x] \in Nat
           /\ (\A k \in DOMAIN lines : lines[k].row # x) => Demand(lines)[x] = 0
           /\ \A k \in DOMAIN lines : (\A j \in DOMAIN lines : lines[j].row = x <=> j = k) =>
                 Demand(lines)[x] = lines[k].qty
  <1> DEFINE D == {j \in DOMAIN lines : lines[j].row = x}
             f == [k \in D |-> lines[k].qty]
  <1>1. Demand(lines)[x] = Sum(f, D)
    BY DEF Demand, SumFunction, Sum
  <1>2. DOMAIN lines = 1..Len(lines) /\ Len(lines) \in Nat /\ \A k \in DOMAIN lines : lines[k] \in Line
    OBVIOUS
  <1>3. IsFiniteSet(D)
    <2>1. IsFiniteSet(1..Len(lines))
      BY <1>2, FS_Interval
    <2> QED
      BY <1>2, <2>1, FS_Subset
  <1>4. \A k \in D : f[k] = lines[k].qty /\ f[k] \in Nat
    BY <1>2, RowsAssumption DEF Line
  <1>5. ASSUME NEW k \in DOMAIN lines, \A j \in DOMAIN lines : lines[j].row = x <=> j = k
        PROVE  Sum(f, D) = lines[k].qty
    <2>1. D = {k} /\ k \in D /\ D \ {k} = {}
      BY <1>5
    <2>2. f[k] = lines[k].qty /\ f[k] \in Int /\ \A j \in D : f[j] \in Int
      BY <1>4, <2>1
    <2> HIDE DEF f, D
    <2>3. Sum(f, D) = f[k] + Sum(f, D \ {k})
      BY <1>3, <2>1, <2>2, SumTake
    <2>4. Sum(f, D \ {k}) = 0
      BY <2>1, FS_EmptySet, SumStep
    <2> QED
      BY <2>2, <2>3, <2>4
  <1>6. (\A k \in DOMAIN lines : lines[k].row # x) => Sum(f, D) = 0
    <2> SUFFICES ASSUME \A k \in DOMAIN lines : lines[k].row # x PROVE Sum(f, D) = 0
      OBVIOUS
    <2>1. D = {}
      OBVIOUS
    <2> HIDE DEF f, D
    <2> QED
      BY <2>1, FS_EmptySet, SumStep
  <1>7. Sum(f, D) \in Nat
    <2> HIDE DEF f, D
    <2> QED
      BY <1>3, <1>4, SumType
  <1> QED
    BY <1>1, <1>5, <1>6, <1>7

LEMMA OneLong ==
    ASSUME NEW S, NEW q \in Seq(S), Len(q) = 1
    PROVE  DOMAIN q = {1} /\ q # <<>> /\ q[1] \in S
  OBVIOUS

(* A payment that commits takes what its lines ask for, which is there.    *)
LEMMA PaysDemand ==
    ASSUME SalesInv, PaymentInv, TablesInv, SaleTable, NoTwinLines, NEW r \in SaleRequests, SaleFits(r, saleCall[r]),
           NEW s \in Sales, Pays(r, s), NEW x \in Rows
    PROVE  /\ Demand(sale[s].lines)[x] <= stock[x].qty
           /\ stock'[x].qty = stock[x].qty - Demand(sale[s].lines)[x]
  <1> DEFINE c == saleCall[r]
             lines == sale[s].lines
  <1>1. /\ c.pc = "payTx" /\ c.sale = s /\ c.k = Len(c.lines) + 1
        /\ r \in Requests /\ c \in SaleCall /\ DbInv
    BY SaleFacts DEF Pays, SaleCallOK
  <1>2. c.lines = lines /\ lines \in Seq(Line) /\ OncePerRow(lines)
    BY <1>1 DEF PaymentInv, Paying, SaleCall, SaleTable
  <1>3. \A k \in DOMAIN lines : k < c.k
    BY <1>1, <1>2
  <1>4. PICK ms : ms = tx[r].moves[x]
    OBVIOUS
  <1>5. ms \in Seq(StockMovement) /\ Len(ms) = Cardinality(LinesDone(c, x)) /\ stock[x].qty \in Nat
    BY <1>1, <1>4, RowsAssumption DEF DbInv, DbTypeOK, Transaction, SaleFits, StockItem
  <1>6. /\ x \in tx[r].own => ms # <<>> /\ tx[r].buf[x].qty = OnHand(ms) /\ stock'[x] = tx[r].buf[x]
        /\ x \notin tx[r].own => ms = <<>> /\ stock'[x] = stock[x]
    BY <1>1, <1>4 DEF DbInv, BuffersMatch, Pays, Commit, View
  <1>7. CASE \A k \in DOMAIN lines : lines[k].row # x
    <2>1. LinesDone(c, x) = {}
      BY <1>2, <1>7 DEF LinesDone, StockLines
    <2>2. Len(ms) = 0
      BY <1>5, <2>1, FS_EmptySet
    <2>3. ms = <<>>
      BY <1>5, <2>2
    <2>4. stock'[x] = stock[x]
      BY <1>6, <2>3
    <2>5. Demand(lines)[x] = 0
      BY <1>2, <1>7, DemandOf
    <2> HIDE DEF lines
    <2> QED
      BY <1>5, <2>4, <2>5 DEF lines
  <1>8. ASSUME NEW k \in DOMAIN lines, lines[k].row = x
        PROVE  /\ Demand(lines)[x] <= stock[x].qty
               /\ stock'[x].qty = stock[x].qty - Demand(lines)[x]
    <2>1. k \in StockLines(lines)
      BY <1>8, SentinelAssumption DEF StockLines
    <2>2. \A j \in DOMAIN lines : lines[j].row = x <=> j = k
      BY <1>2, <1>8, SentinelAssumption DEF OncePerRow
    <2>3. Demand(lines)[x] = lines[k].qty /\ lines[k].qty \in Nat
      <3>1. lines[k] \in Line
        BY <1>2
      <3>2. lines[k].qty \in Nat
        BY <3>1, RowsAssumption DEF Line
      <3> HIDE DEF lines
      <3> QED
        BY <1>2, <2>2, <3>2, DemandOf
    <2>4. LinesDone(c, x) = {k}
      BY <1>2, <1>3, <2>1, <2>2 DEF LinesDone, StockLines
    <2>5. Len(ms) = 1
      BY <1>5, <2>4, FS_Singleton
    <2>6. DOMAIN ms = {1} /\ ms # <<>> /\ OnHand(ms) = ms[1].after /\ ms[1] \in StockMovement
      <3>1. ms \in Seq(StockMovement) /\ Len(ms) = 1
        BY <1>5, <2>5
      <3> HIDE DEF lines, c
      <3>2. DOMAIN ms = {1} /\ ms # <<>> /\ ms[1] \in StockMovement
        BY <3>1, OneLong
      <3> QED
        BY <3>1, <3>2 DEF OnHand
    <2>7. TakesFor(r, s, x, lines[k].qty)
      BY <1>1, <1>2, <1>3, <1>8, <2>1 DEF PaymentInv, Paying
    <2>8. ms[1].before - ms[1].after = lines[k].qty
      BY <1>4, <2>6, <2>7 DEF TakesFor
    <2>9. x \in tx[r].own
      BY <1>6, <2>6
    <2>10. LeadsOn(ms, stock[x].qty)
      BY <1>1, <1>4, <2>9 DEF TablesInv
    <2>11. ms[1].before = stock[x].qty
      BY <2>6, <2>10 DEF LeadsOn
    <2>12. stock'[x].qty = ms[1].after
      BY <1>6, <2>6, <2>9
    <2>13. ms[1].after \in Nat
      BY <2>6, RowsAssumption DEF StockMovement
    <2> HIDE DEF lines
    <2> QED
      BY <1>5, <2>3, <2>8, <2>11, <2>12, <2>13
  <1> QED
    BY <1>7, <1>8

-----------------------------------------------------------------------------
(* Every step of a serial run is a step of the state machine of sales, or  *)
(* leaves what it sees alone.  Stock and purchase handlers only restock.   *)
LEMMA LifecycleRestock ==
    ASSUME stock' \in [Rows -> StockItem], UNCHANGED sale
    PROVE  [Lifecycle!Next]_(Lifecycle!vars)
  <1>1. [x \in Rows |-> stock'[x].qty] \in [Rows -> Nat]
    BY RowsAssumption DEF StockItem
  <1> QED
    BY <1>1 DEF Lifecycle!Next, Lifecycle!Restock

LEMMA LifecycleInserts ==
    ASSUME sale \in [Sales -> Sale], NEW r, NEW s \in Sales, Inserts(r, s), ~sale[s].deleted
    PROVE  Lifecycle!Next
  <1>1. sale'[s].status = "DRAFT" /\ ~sale'[s].deleted
    BY DEF Inserts, NoSale
  <1>2. \A t \in Sales \ {s} : sale'[t] = sale[t]
    BY DEF Inserts
  <1>3. [t \in Sales |-> sale'[t].status] = [[t \in Sales |-> sale[t].status] EXCEPT ![s] = "DRAFT"]
    BY <1>1, <1>2
  <1>4. {t \in Sales : sale'[t].deleted} = {t \in Sales : sale[t].deleted}
    BY <1>1, <1>2
  <1>5. \A t \in Sales \ {s} : Demand(sale'[t].lines) = Demand(sale[t].lines)
    BY <1>2
  <1>6. Lifecycle!Create(s)
    BY <1>3, <1>4, <1>5 DEF Lifecycle!Create, Lifecycle!Move, Inserts
  <1> QED
    BY <1>6 DEF Lifecycle!Next

LEMMA LifecycleRetouches ==
    ASSUME sale \in [Sales -> Sale], NEW s \in Sales, NEW new, Retouches(s, new)
    PROVE  [Lifecycle!Next]_(Lifecycle!vars)
  <1>1. sale'[s] = new /\ new.lines = sale[s].lines /\ UNCHANGED stock /\ sale[s].deleted \in BOOLEAN
    BY DEF Retouches, Sale
  <1>2. \A t \in Sales \ {s} : sale'[t] = sale[t]
    BY DEF Retouches
  <1>3. [t \in Sales |-> sale'[t].status] = [[t \in Sales |-> sale[t].status] EXCEPT ![s] = new.status]
    BY <1>1, <1>2
  <1>4. [t \in Sales |-> Demand(sale'[t].lines)] = [t \in Sales |-> Demand(sale[t].lines)]
    <2>1. \A t \in Sales : sale'[t].lines = sale[t].lines
      BY <1>1, <1>2
    <2> QED
      BY <2>1
  <1>5. [x \in Rows |-> stock'[x].qty] = [x \in Rows |-> stock[x].qty]
    BY <1>1
  <1>6. new.status = sale[s].status => [t \in Sales |-> sale'[t].status] = [t \in Sales |-> sale[t].status]
    BY <1>1, <1>2
  <1>7. new.deleted = sale[s].deleted => {t \in Sales : sale'[t].deleted} = {t \in Sales : sale[t].deleted}
    BY <1>1, <1>2
  <1>8. CASE new.status = sale[s].status /\ new.deleted = sale[s].deleted
    BY <1>4, <1>5, <1>6, <1>7, <1>8 DEF Lifecycle!vars
  <1>9. CASE new.status = sale[s].status /\ new.deleted = FALSE
    <2>1. {t \in Sales : sale'[t].deleted} = {t \in Sales : sale[t].deleted} \ {s}
      BY <1>1, <1>2, <1>9
    <2>2. Lifecycle!Restore(s)
      BY <1>4, <1>5, <1>6, <1>9, <2>1 DEF Lifecycle!Restore
    <2> QED
      BY <2>2 DEF Lifecycle!Next
  <1>10. CASE sale[s].status = "DRAFT" /\ new.status = "DRAFT" /\ new.deleted = TRUE
    <2>1. {t \in Sales : sale'[t].deleted} = {t \in Sales : sale[t].deleted} \cup {s}
      BY <1>1, <1>2, <1>10
    <2>2. Lifecycle!Delete(s)
      BY <1>4, <1>5, <1>6, <1>10, <2>1 DEF Lifecycle!Delete
    <2> QED
      BY <2>2 DEF Lifecycle!Next
  <1>11. CASE new.deleted = sale[s].deleted /\ ~sale[s].deleted /\ sale[s].status \in {"DRAFT", "PAID"} /\ new.status = "CANCELLED"
    <2>1. Lifecycle!Cancel(s)
      BY <1>3, <1>4, <1>5, <1>7, <1>11 DEF Lifecycle!Cancel, Lifecycle!Move
    <2> QED
      BY <2>1 DEF Lifecycle!Next
  <1>12. CASE new.deleted = sale[s].deleted /\ sale[s].status = "PAID" /\ new.status = "SHIPPED"
    <2>1. Lifecycle!Ship(s)
      BY <1>3, <1>4, <1>5, <1>7, <1>12 DEF Lifecycle!Ship, Lifecycle!Move
    <2> QED
      BY <2>1 DEF Lifecycle!Next
  <1>13. CASE new.deleted = sale[s].deleted /\ ~sale[s].deleted /\ sale[s].status = "SHIPPED" /\ new.status = "DELIVERED"
    <2>1. Lifecycle!Deliver(s)
      BY <1>3, <1>4, <1>5, <1>7, <1>13 DEF Lifecycle!Deliver, Lifecycle!Move
    <2> QED
      BY <2>1 DEF Lifecycle!Next
  <1> QED
    BY <1>8, <1>9, <1>10, <1>11, <1>12, <1>13 DEF Retouches, Retouched

LEMMA LifecyclePays ==
    ASSUME SalesInv, PaymentInv, TablesInv, SaleTable, NoTwinLines, NEW r \in SaleRequests, SaleFits(r, saleCall[r]),
           NEW s \in Sales, Pays(r, s)
    PROVE  Lifecycle!Next
  <1>1. sale[s].status = "DRAFT" /\ ~sale[s].deleted /\ sale \in [Sales -> Sale]
    BY DEF SaleFits, Pays, SalesInv, SalesTypeOK
  <1>2. sale'[s].status = "PAID" /\ sale'[s].deleted = sale[s].deleted /\ sale'[s].lines = sale[s].lines
    BY <1>1 DEF Pays, Sale
  <1>3. \A t \in Sales \ {s} : sale'[t] = sale[t]
    BY <1>1 DEF Pays
  <1>4. [t \in Sales |-> sale'[t].status] = [[t \in Sales |-> sale[t].status] EXCEPT ![s] = "PAID"]
    BY <1>2, <1>3
  <1>5. {t \in Sales : sale'[t].deleted} = {t \in Sales : sale[t].deleted}
    BY <1>2, <1>3
  <1>6. [t \in Sales |-> Demand(sale'[t].lines)] = [t \in Sales |-> Demand(sale[t].lines)]
    <2>1. \A t \in Sales : sale'[t].lines = sale[t].lines
      BY <1>2, <1>3
    <2> QED
      BY <2>1
  <1>7. \A x \in Rows : /\ Demand(sale[s].lines)[x] <= stock[x].qty
                        /\ stock'[x].qty = stock[x].qty - Demand(sale[s].lines)[x]
    BY PaysDemand
  <1>8. Lifecycle!Pay(s)
    BY <1>1, <1>4, <1>5, <1>6, <1>7 DEF Lifecycle!Pay, Lifecycle!Move
  <1> QED
    BY <1>8 DEF Lifecycle!Next

(* A sale that has not been created is not deleted either.                 *)
NoneKept == \A s \in Sales : sale[s].status = "NONE" => ~sale[s].deleted

LEMMA LifecycleStep ==
    ASSUME InventoryInv, InventoryInv', PaymentInv, SerialInv, NoneKept, NoTwinLines, [SerialNext]_vars
    PROVE  NoneKept' /\ [Lifecycle!Next]_(Lifecycle!vars)
  <1>1. SalesInv /\ sale \in [Sales -> Sale] /\ TablesInv /\ SaleTable
    BY DEF InventoryInv, SalesInv, SalesTypeOK, SerialInv
  <1>2. stock' \in [Rows -> StockItem]
    BY DEF InventoryInv, StockInv, DbInv, DbTypeOK
  <1>3. CASE UNCHANGED sale
    BY <1>2, <1>3, LifecycleRestock DEF NoneKept
  <1>4. ASSUME NEW r \in SaleRequests, SalesStep(r) PROVE NoneKept' /\ [Lifecycle!Next]_(Lifecycle!vars)
    <2>1. SaleFits(r, saleCall[r])
      BY DEF SerialInv, HandlersFit
    <2>2. CASE UNCHANGED <<stock, ledger, sale>>
      BY <1>3, <2>2
    <2>3. ASSUME NEW s \in Sales, Inserts(r, s) PROVE NoneKept' /\ [Lifecycle!Next]_(Lifecycle!vars)
      <3>1. ~sale[s].deleted
        BY <2>3 DEF NoneKept, Inserts
      <3>2. sale'[s].status = "DRAFT" /\ \A t \in Sales \ {s} : sale'[t] = sale[t]
        BY <1>1, <2>3 DEF Inserts, NoSale
      <3>3. NoneKept'
        BY <3>2 DEF NoneKept
      <3> QED
        BY <1>1, <2>3, <3>1, <3>3, LifecycleInserts
    <2>4. ASSUME NEW s \in Sales, NEW new, Retouches(s, new) PROVE NoneKept' /\ [Lifecycle!Next]_(Lifecycle!vars)
      <3>1. sale'[s] = new /\ sale[s].status # "NONE" /\ \A t \in Sales \ {s} : sale'[t] = sale[t]
        BY <1>1, <2>4 DEF Retouches
      <3>2. new.status # "NONE"
        BY <2>4, <3>1 DEF Retouches, Retouched
      <3>3. NoneKept'
        BY <3>1, <3>2 DEF NoneKept
      <3> QED
        BY <1>1, <2>4, <3>3, LifecycleRetouches
    <2>5. ASSUME NEW s \in Sales, Pays(r, s) PROVE NoneKept' /\ [Lifecycle!Next]_(Lifecycle!vars)
      <3>1. sale'[s].status = "PAID" /\ \A t \in Sales \ {s} : sale'[t] = sale[t]
        BY <1>1, <2>5 DEF Pays, Sale
      <3>2. NoneKept'
        BY <3>1 DEF NoneKept
      <3> QED
        BY <1>1, <2>1, <2>5, <3>2, LifecyclePays
    <2> QED
      BY <1>1, <1>4, <2>1, <2>2, <2>3, <2>4, <2>5, SaleEffect
  <1> QED
    BY <1>3, <1>4 DEF SerialNext, vars

LEMMA LifecycleInit == Init => NoneKept /\ Lifecycle!Init
  <1> SUFFICES ASSUME Init PROVE NoneKept /\ Lifecycle!Init
    OBVIOUS
  <1>1. sale = SeedSales /\ sale \in [Sales -> Sale] /\ stock \in [Rows -> StockItem]
    BY SalesInputs, SeedAssumption DEF Init, SalesInit, DbInit
  <1>2. \A s \in Sales : sale[s].status \in {"NONE", "DRAFT"} /\ (sale[s].status = "NONE" => ~sale[s].deleted)
    BY <1>1, SalesInputs
  <1>3. \A s \in Sales : Demand(sale[s].lines) \in [Rows -> Nat]
    <2> TAKE s \in Sales
    <2>1. sale[s].lines \in Seq(Line)
      BY <1>1 DEF Sale
    <2>2. \A x \in Rows : Demand(sale[s].lines)[x] \in Nat
      BY <2>1, DemandOf
    <2> QED
      BY <2>2 DEF Demand
  <1>4. \A x \in Rows : stock[x].qty \in Nat
    BY <1>1, RowsAssumption DEF StockItem
  <1> QED
    BY <1>2, <1>3, <1>4 DEF NoneKept, Lifecycle!Init

(* The sale handlers implement the state machine of sales, for carts that  *)
(* name a stock item once and one request at a time, wherever one is       *)
(* abandoned: no transition is skipped or undone, only drafts are paid,    *)
(* and a payment takes exactly the goods of its lines, which are there.    *)
THEOREM SalesFollowLifecycle == NoTwinLines => (SerialSpec => FollowsLifecycle)
  <1> SUFFICES ASSUME NoTwinLines PROVE SerialSpec => FollowsLifecycle
    OBVIOUS
  <1>1. Init => NoneKept /\ Lifecycle!Init
    BY LifecycleInit
  <1>2. InventoryInv /\ InventoryInv' /\ PaymentInv /\ SerialInv /\ NoneKept /\ [SerialNext]_vars
        => NoneKept' /\ [Lifecycle!Next]_(Lifecycle!vars)
    BY LifecycleStep
  <1> QED
    BY <1>1, <1>2, SerialInvariant, SerialIsSpec, InventoryInvariant, PaymentInvariant, PTL
       DEF SerialSpec, FollowsLifecycle, Lifecycle!Spec
=============================================================================
