---------------------------- MODULE TradeProofs -----------------------------
(***************************************************************************)
(* Every step of every sale handler preserves SalesInv, and every step of  *)
(* every purchase handler PurchasesInv, and with them the agreement of     *)
(* quantities and movements.                                               *)
(***************************************************************************)
EXTENDS SalesService, PurchasesService, DatabaseProofs

-----------------------------------------------------------------------------
(* Sales.                                                                  *)

(* A handler's well-formed local variables.                                *)
SaleCallOK(c) ==
    /\ c \in SaleCall
    /\ c.pc \notin {"new", "create", "done"} => c.sale \in Sales

(* What the proof of every handler starts from.                            *)
LEMMA SaleFacts ==
    ASSUME SalesInv, NEW r \in SaleRequests
    PROVE  /\ r \in Requests /\ saleCall \in [SaleRequests -> SaleCall] /\ SaleCallOK(saleCall[r])
           /\ DbInv /\ stock \in [Rows -> StockItem] /\ View(r) \in [Rows -> StockItem]
           /\ sale \in [Sales -> Sale] /\ Missing \in StockItem
  BY SalesInputs, RowsAssumption, SentinelAssumption, ViewType
     DEF SalesInv, SalesTypeOK, SaleCallOK, DbInv, DbTypeOK, StockItem, StockStatus, Missing

(* A handler moves from well-formed variables and tables to well-formed    *)
(* ones.                                                                   *)
LEMMA SaleCallStep ==
    ASSUME SalesInv, NEW r \in SaleRequests, NEW c, SaleCallOK(c),
           saleCall' = [saleCall EXCEPT ![r] = c], DbInv', sale' \in [Sales -> Sale]
    PROVE  SalesInv'
  BY DEF SalesInv, SalesTypeOK, SaleCallOK, DbInv

(* A handler ends.                                                         *)
LEMMA SaleEndStep ==
    ASSUME SalesInv, NEW r \in SaleRequests, EndSaleCall(r), DbInv', sale' \in [Sales -> Sale]
    PROVE  SalesInv'
  <1>1. Missing \in StockItem
    BY SaleFacts
  <1>2. NewSaleCall \in SaleCall
    BY <1>1 DEF NewSaleCall, SaleCall
  <1>3. SaleCallOK([NewSaleCall EXCEPT !.pc = "done"])
    BY <1>2 DEF SaleCallOK, SaleCall
  <1> QED
    BY <1>3, SaleCallStep DEF EndSaleCall

(* A handler ends before it has written anything.                          *)
LEMMA SaleRejectStep ==
    ASSUME SalesInv, NEW r \in SaleRequests, RejectSale(r)
    PROVE  SalesInv'
  <1>1. DbInv' /\ sale' \in [Sales -> Sale]
    BY DbUnchanged, SaleFacts DEF RejectSale, dbVars
  <1> QED
    BY <1>1, SaleEndStep DEF RejectSale

(* A handler ends and its transaction rolls back.                          *)
LEMMA SaleRollbackStep ==
    ASSUME SalesInv, NEW r \in SaleRequests, Rollback(r), EndSaleCall(r), UNCHANGED sale
    PROVE  SalesInv'
  BY RollbackInv, SaleEndStep, SaleFacts

(* Reading a sale.                                                         *)
LEMMA ReadSaleStep ==
    ASSUME SalesInv, NEW r \in SaleRequests,
           NEW pc \in {"update", "payStock", "cancel", "ship", "deliver", "delete", "restore"},
           NEW admitted, ReadSale(r, pc, admitted)
    PROVE  SalesInv'
  <1> DEFINE c == saleCall[r]
  <1>1. PICK s \in Sales :
           \/ /\ saleCall' = [saleCall EXCEPT ![r].pc = pc, ![r].sale = s, ![r].lines = sale[s].lines]
              /\ UNCHANGED <<stock, ledger, tx, sale>>
           \/ RejectSale(r)
    BY DEF ReadSale
  <1>2. CASE ~RejectSale(r)
    <2> DEFINE d == [c EXCEPT !.pc = pc, !.sale = s, !.lines = sale[s].lines]
    <2>1. SaleCallOK(d)
      BY SaleFacts DEF SaleCallOK, SaleCall, Sale
    <2>2. saleCall' = [saleCall EXCEPT ![r] = d]
      BY <1>1, <1>2, SaleFacts DEF SaleCallOK, SaleCall
    <2> HIDE DEF d
    <2> QED
      BY <1>1, <1>2, <2>1, <2>2, SaleFacts, SaleCallStep, DbUnchanged DEF dbVars
  <1> QED
    BY <1>1, <1>2, SaleRejectStep

(* Writing a sale by its id.                                               *)
LEMMA WriteSaleStep ==
    ASSUME SalesInv, NEW r \in SaleRequests, saleCall[r].sale \in Sales,
           NEW new \in Sale, WriteSale(r, new)
    PROVE  SalesInv'
  <1>1. DbInv'
    BY SaleFacts, CommitDocsInv DEF WriteSale
  <1>2. sale' \in [Sales -> Sale]
    BY SaleFacts DEF WriteSale
  <1> QED
    BY <1>1, <1>2, SaleEndStep DEF WriteSale

(* Every handler but createSale starts by reading the sale.                *)
LEMMA SaleReads ==
    ASSUME SalesInv, NEW r \in SaleRequests,
           \/ UpdateSaleRead(r) \/ PayRead(r) \/ CancelRead(r) \/ ShipRead(r)
           \/ DeliverRead(r) \/ DeleteSaleRead(r) \/ RestoreSaleRead(r)
    PROVE  SalesInv'
  BY ReadSaleStep
     DEF UpdateSaleRead, PayRead, CancelRead, ShipRead, DeliverRead, DeleteSaleRead, RestoreSaleRead

(* The handlers that write nothing but the sale.                           *)
LEMMA SaleWrites ==
    ASSUME SalesInv, NEW r \in SaleRequests,
           \/ UpdateSaleWrite(r) \/ CancelWrite(r) \/ ShipWrite(r) \/ DeliverWrite(r)
           \/ DeleteSaleWrite(r) \/ RestoreSaleWrite(r)
    PROVE  SalesInv'
  <1>1. saleCall[r].sale \in Sales
    BY SaleFacts DEF UpdateSaleWrite, CancelWrite, ShipWrite, DeliverWrite, DeleteSaleWrite,
                     RestoreSaleWrite, SaleAt, SaleCallOK
  <1>2. This(r) \in Sale
    BY <1>1, SaleFacts DEF This
  <1>3. CASE UpdateSaleWrite(r)
    <2>1. PICK discount \in Discounts : WriteSale(r, [This(r) EXCEPT !.discount = discount])
      BY <1>3 DEF UpdateSaleWrite
    <2>2. [This(r) EXCEPT !.discount = discount] \in Sale
      BY <1>2 DEF Sale
    <2> QED
      BY <1>1, <2>1, <2>2, WriteSaleStep
  <1>4. CASE CancelWrite(r)
    <2>1. [This(r) EXCEPT !.status = "CANCELLED"] \in Sale
      BY <1>2 DEF Sale, SaleStatus
    <2> QED
      BY <1>1, <1>4, <2>1, WriteSaleStep DEF CancelWrite
  <1>5. CASE ShipWrite(r)
    <2>1. [This(r) EXCEPT !.status = "SHIPPED", !.stamps = @ \cup {"shipped"}] \in Sale
      BY <1>2 DEF Sale, SaleStatus
    <2> QED
      BY <1>1, <1>5, <2>1, WriteSaleStep DEF ShipWrite
  <1>6. CASE DeliverWrite(r)
    <2>1. [This(r) EXCEPT !.status = "DELIVERED", !.stamps = @ \cup {"delivered"}] \in Sale
      BY <1>2 DEF Sale, SaleStatus
    <2> QED
      BY <1>1, <1>6, <2>1, WriteSaleStep DEF DeliverWrite
  <1>7. CASE DeleteSaleWrite(r)
    <2>1. [This(r) EXCEPT !.deleted = TRUE] \in Sale
      BY <1>2 DEF Sale
    <2> QED
      BY <1>1, <1>7, <2>1, WriteSaleStep DEF DeleteSaleWrite
  <1>8. CASE RestoreSaleWrite(r)
    <2>1. [This(r) EXCEPT !.deleted = FALSE] \in Sale
      BY <1>2 DEF Sale
    <2> QED
      BY <1>1, <1>8, <2>1, WriteSaleStep DEF RestoreSaleWrite
  <1> QED
    BY <1>3, <1>4, <1>5, <1>6, <1>7, <1>8

(* Creating a draft.                                                       *)
LEMMA CreateSaleStep ==
    ASSUME SalesInv, NEW r \in SaleRequests, CreateSaleRead(r) \/ CreateSaleWrite(r)
    PROVE  SalesInv'
  <1> DEFINE c == saleCall[r]
  <1>1. CASE CreateSaleRead(r)
    <2>1. PICK cart \in Carts :
             \/ RejectSale(r)
             \/ /\ saleCall' = [saleCall EXCEPT ![r].pc = "create", ![r].lines = cart]
                /\ UNCHANGED <<stock, ledger, tx, sale>>
      BY <1>1 DEF CreateSaleRead
    <2>2. CASE ~RejectSale(r)
      <3> DEFINE d == [c EXCEPT !.pc = "create", !.lines = cart]
      <3>1. SaleCallOK(d)
        BY SaleFacts, SalesInputs DEF SaleCallOK, SaleCall
      <3>2. saleCall' = [saleCall EXCEPT ![r] = d]
        BY <2>1, <2>2, SaleFacts DEF SaleCallOK, SaleCall
      <3> HIDE DEF d
      <3> QED
        BY <2>1, <2>2, <3>1, <3>2, SaleFacts, SaleCallStep, DbUnchanged DEF dbVars
    <2> QED
      BY <2>1, <2>2, SaleRejectStep
  <1>2. CASE CreateSaleWrite(r)
    <2>1. [NoSale EXCEPT !.status = "DRAFT", !.lines = c.lines] \in Sale
      BY SaleFacts DEF NoSale, Sale, SaleStatus, SaleCallOK, SaleCall
    <2>2. sale' \in [Sales -> Sale]
      BY <1>2, <2>1, SaleFacts DEF CreateSaleWrite
    <2> QED
      BY <1>2, <2>2, SaleFacts, SaleEndStep, DbUnchanged DEF CreateSaleWrite
  <1> QED
    BY <1>1, <1>2

(* Paying: the reads, the lines in turn, and the commit.                   *)
LEMMA PayStep ==
    ASSUME SalesInv, NEW r \in SaleRequests,
           PayReadStock(r) \/ PayBegin(r) \/ PayLine(r) \/ PayCommit(r)
    PROVE  SalesInv'
  <1> DEFINE c == saleCall[r]
  <1> USE SaleFacts
  <1>1. CASE PayReadStock(r)
    <2> DEFINE seen == [x \in Rows |-> IF x \in {c.lines[k].row : k \in StockLines(c.lines)}
                                      THEN stock[x] ELSE Missing]
               d == [c EXCEPT !.pc = "payBegin", !.seen = seen]
    <2>1. seen \in [Rows -> StockItem]
      OBVIOUS
    <2>2. saleCall' = [saleCall EXCEPT ![r] = d]
      BY <1>1 DEF PayReadStock, SaleCallOK, SaleCall
    <2> HIDE DEF seen
    <2>3. SaleCallOK(d)
      BY <1>1, <2>1 DEF PayReadStock, SaleAt, SaleCallOK, SaleCall
    <2> HIDE DEF d
    <2> QED
      BY <1>1, <2>2, <2>3, SaleCallStep, DbUnchanged DEF PayReadStock, dbVars
  <1>2. CASE PayBegin(r)
    <2> DEFINE d == [c EXCEPT !.pc = "payTx"]
    <2>1. SaleCallOK(d)
      BY <1>2 DEF PayBegin, SaleAt, SaleCallOK, SaleCall
    <2>2. saleCall' = [saleCall EXCEPT ![r] = d]
      BY <1>2 DEF PayBegin, SaleCallOK, SaleCall
    <2>3. DbInv' /\ sale' \in [Sales -> Sale]
      BY <1>2, BeginSerializableInv DEF PayBegin
    <2> HIDE DEF d
    <2> QED
      BY <2>1, <2>2, <2>3, SaleCallStep
  <1>3. CASE PayLine(r)
    <2> DEFINE line == c.lines[c.k]
               x == line.row
               before == c.seen[x].qty
               after == before - line.qty
               v == SoldRow(View(r)[x], c.seen[x], after)
               m == Movement("SOLD", before, after, c.sale)
               d == [c EXCEPT !.k = @ + 1]
    <2>1. c.k \in DOMAIN c.lines /\ UNCHANGED sale /\ c.pc = "payTx" /\ c.sale \in Sales
      BY <1>3 DEF PayLine, SaleAt, SaleCallOK
    <2>2. line \in Line
      BY <2>1 DEF SaleCallOK, SaleCall
    <2>3. SaleCallOK(d)
      <3>1. c \in SaleCall /\ c.k + 1 \in Nat
        BY DEF SaleCallOK, SaleCall
      <3>2. d \in SaleCall /\ d.sale = c.sale
        BY <3>1 DEF SaleCall
      <3> HIDE DEF d
      <3> QED
        BY <2>1, <3>2 DEF SaleCallOK
    <2>4. [saleCall EXCEPT ![r].k = @ + 1] = [saleCall EXCEPT ![r] = d]
      BY DEF SaleCallOK, SaleCall
    <2>5. \/ saleCall' = [saleCall EXCEPT ![r] = d] /\ UNCHANGED dbVars
          \/ Rollback(r) /\ EndSaleCall(r)
          \/ /\ x # NoRow /\ ~(after < 0)
             /\ WriteRow(r, x, v, m)
             /\ saleCall' = [saleCall EXCEPT ![r] = d]
      BY <1>3, <2>4 DEF PayLine, LineFails
    <2> HIDE DEF d
    <2>6. CASE saleCall' = [saleCall EXCEPT ![r] = d] /\ UNCHANGED dbVars
      BY <2>1, <2>3, <2>6, SaleCallStep, DbUnchanged
    <2>7. CASE Rollback(r) /\ EndSaleCall(r)
      BY <2>1, <2>7, SaleRollbackStep
    <2>8. CASE /\ x # NoRow /\ ~(after < 0)
               /\ WriteRow(r, x, v, m)
               /\ saleCall' = [saleCall EXCEPT ![r] = d]
      <3>1. x \in Rows
        BY <2>2, <2>8 DEF Line
      <3>2. before \in 0..MaxQty /\ line.qty \in 1..MaxQty
        <4>1. c.seen[x] \in StockItem
          BY <3>1 DEF SaleCallOK, SaleCall
        <4> QED
          BY <2>2, <4>1 DEF StockItem, Line
      <3>3. View(r)[x] \in StockItem
        BY <3>1
      <3> HIDE DEF before, x, line
      <3>4. after \in 0..MaxQty
        BY <2>8, <3>2, RowsAssumption
      <3> HIDE DEF after
      <3>5. v \in StockItem /\ v.qty = after
        BY <3>3, <3>4 DEF SoldRow, StockItem, StockStatus
      <3>6. m \in StockMovement /\ m.after = after
        BY <2>1, <3>2, <3>4 DEF Movement, StockMovement, Documents
      <3> HIDE DEF v, m
      <3>7. DbInv'
        BY <2>8, <3>1, <3>5, <3>6, WriteRowInv
      <3> QED
        BY <2>1, <2>3, <2>8, <3>7, SaleCallStep
    <2> QED
      BY <2>5, <2>6, <2>7, <2>8
  <1>4. CASE PayCommit(r)
    <2>1. c.sale \in Sales
      BY <1>4 DEF PayCommit, SaleAt, SaleCallOK
    <2>2. CASE Rollback(r) /\ UNCHANGED sale
      BY <1>4, <2>2, SaleRollbackStep DEF PayCommit
    <2>3. CASE /\ Commit(r, {c.sale})
               /\ sale' = [sale EXCEPT ![c.sale].status = "PAID", ![c.sale].stamps = @ \cup {"paid"}]
      <3>1. DbInv'
        BY <2>1, <2>3, CommitInv
      <3>2. sale' \in [Sales -> Sale]
        <4> DEFINE paid == [sale[c.sale] EXCEPT !.status = "PAID", !.stamps = @ \cup {"paid"}]
        <4>1. paid \in Sale
          <5>1. \A s \in Sale : [s EXCEPT !.status = "PAID", !.stamps = @ \cup {"paid"}] \in Sale
            BY DEF Sale, SaleStatus
          <5> QED
            BY <2>1, <5>1
        <4>2. sale' = [sale EXCEPT ![c.sale] = paid]
          BY <2>1, <2>3 DEF Sale
        <4> HIDE DEF paid
        <4> QED
          BY <4>1, <4>2
      <3> QED
        BY <1>4, <3>1, <3>2, SaleEndStep DEF PayCommit
    <2> QED
      BY <1>4, <2>2, <2>3 DEF PayCommit
  <1> QED
    BY <1>1, <1>2, <1>3, <1>4

(* The invariant of the sale handlers is inductive.                        *)
LEMMA SalesInvInit == DbInit /\ SalesInit => SalesInv
  <1>1. ASSUME DbInit PROVE Missing \in StockItem
    BY RowsAssumption, SentinelAssumption DEF StockItem, StockStatus, Missing
  <1>2. ASSUME DbInit PROVE SaleCallOK(NewSaleCall) /\ NewSaleCall.pc = "new"
    BY <1>1, <1>2 DEF SaleCallOK, NewSaleCall, SaleCall
  <1> QED
    BY <1>2, DbInitInv, SalesInputs DEF SalesInit, SalesInv, SalesTypeOK, SaleCallOK, DbInv

(* Every step of a sale handler preserves its invariant.                   *)
LEMMA SalesInvStep ==
    ASSUME SalesInv, NEW r \in SaleRequests, SalesStep(r)
    PROVE  SalesInv'
  <1>1. CASE AbandonSaleCall(r)
    BY <1>1, SaleRollbackStep DEF AbandonSaleCall
  <1> QED
    BY <1>1, CreateSaleStep, SaleReads, SaleWrites, PayStep DEF SalesStep, ContinueSale

(* The order of stamps and status in one sale.                             *)
InOrder(s) ==
    /\ "shipped" \in s.stamps => "paid" \in s.stamps
    /\ "delivered" \in s.stamps => "shipped" \in s.stamps
    /\ s.status = "PAID" => "paid" \in s.stamps
    /\ s.status = "SHIPPED" => "shipped" \in s.stamps
    /\ s.status = "DELIVERED" => "delivered" \in s.stamps
    /\ s.status = "NONE" => s.stamps = {}

(* A handler that has seen paidAt or shippedAt on the sale it read.        *)
HasSeen(c) ==
    /\ c.pc = "ship" => "paid" \in sale[c.sale].stamps
    /\ c.pc = "deliver" => "shipped" \in sale[c.sale].stamps

(* A handler changes its own variables only.                               *)
LEMMA StampsCall ==
    ASSUME SalesInv, StampsInv, NEW r \in SaleRequests, NEW c, HasSeen(c), UNCHANGED sale,
           saleCall' = [saleCall EXCEPT ![r] = c]
    PROVE  StampsInv'
  BY SaleFacts DEF StampsInv, StampsInOrder, SaleAt, Stamped, HasSeen

(* A handler ends without a write to the sale.                             *)
LEMMA StampsEnd ==
    ASSUME SalesInv, StampsInv, NEW r \in SaleRequests, EndSaleCall(r), UNCHANGED sale
    PROVE  StampsInv'
  <1>1. HasSeen([NewSaleCall EXCEPT !.pc = "done"])
    BY DEF HasSeen, NewSaleCall
  <1> QED
    BY <1>1, StampsCall DEF EndSaleCall

(* A handler ends with a write that clears no stamp.                       *)
LEMMA StampsWrite ==
    ASSUME SalesInv, StampsInv, NEW r \in SaleRequests, NEW s \in Sales, NEW new,
           EndSaleCall(r), sale' = [sale EXCEPT ![s] = new],
           InOrder(new), sale[s].stamps \subseteq new.stamps
    PROVE  StampsInv'
  <1>1. \A t \in Sales : sale'[t] = (IF t = s THEN new ELSE sale[t])
    BY SaleFacts
  <1>2. \A t \in Sales : InOrder(sale'[t]) /\ sale[t].stamps \subseteq sale'[t].stamps
    BY <1>1 DEF StampsInv, StampsInOrder, InOrder
  <1>3. \A q \in SaleRequests : saleCall'[q] = (IF q = r THEN [NewSaleCall EXCEPT !.pc = "done"] ELSE saleCall[q])
    BY SaleFacts DEF EndSaleCall
  <1>4. ASSUME NEW q \in SaleRequests
        PROVE  /\ SaleAt(q, "ship")' => Stamped(q, "paid")'
               /\ SaleAt(q, "deliver")' => Stamped(q, "shipped")'
    <2>1. CASE q = r
      BY <1>3, <2>1 DEF SaleAt, NewSaleCall
    <2>2. CASE q # r
      <3>1. saleCall'[q] = saleCall[q]
        BY <1>3, <2>2
      <3>2. saleCall[q].pc \in {"ship", "deliver"} => saleCall[q].sale \in Sales
        BY SaleFacts DEF SaleCallOK
      <3> QED
        BY <1>2, <3>1, <3>2 DEF SaleAt, Stamped, StampsInv
    <2> QED
      BY <2>1, <2>2
  <1> QED
    BY <1>2, <1>4 DEF StampsInv, StampsInOrder, InOrder

(* Reading a sale: only shipSale and deliverSale need to have seen a stamp,*)
(* which its status vouches for.                                           *)
LEMMA StampsRead ==
    ASSUME SalesInv, StampsInv, NEW r \in SaleRequests,
           \/ UpdateSaleRead(r) \/ PayRead(r) \/ CancelRead(r) \/ ShipRead(r)
           \/ DeliverRead(r) \/ DeleteSaleRead(r) \/ RestoreSaleRead(r)
    PROVE  StampsInv'
  <1>1. ASSUME NEW pc \in {"update", "payStock", "cancel", "ship", "deliver", "delete", "restore"},
               NEW admitted, ReadSale(r, pc, admitted),
               pc = "ship" => admitted \subseteq Having({"PAID"}),
               pc = "deliver" => admitted \subseteq Having({"SHIPPED"})
        PROVE  StampsInv'
    <2>1. PICK s \in Sales :
             \/ /\ s \in admitted
                /\ saleCall' = [saleCall EXCEPT ![r].pc = pc, ![r].sale = s, ![r].lines = sale[s].lines]
                /\ UNCHANGED sale
             \/ EndSaleCall(r) /\ UNCHANGED sale
      BY <1>1 DEF ReadSale, RejectSale
    <2>2. CASE EndSaleCall(r) /\ UNCHANGED sale
      BY <2>2, StampsEnd
    <2>3. CASE ~(EndSaleCall(r) /\ UNCHANGED sale)
      <3> DEFINE d == [saleCall[r] EXCEPT !.pc = pc, !.sale = s, !.lines = sale[s].lines]
      <3>1. saleCall' = [saleCall EXCEPT ![r] = d] /\ UNCHANGED sale /\ s \in admitted
        BY <2>1, <2>3, SaleFacts DEF SaleCallOK, SaleCall
      <3>2. d.pc = pc /\ d.sale = s
        BY SaleFacts DEF SaleCallOK, SaleCall
      <3>3. HasSeen(d)
        BY <1>1, <3>1, <3>2 DEF HasSeen, Having, StampsInv, StampsInOrder
      <3> HIDE DEF d
      <3> QED
        BY <3>1, <3>3, StampsCall
    <2> QED
      BY <2>2, <2>3
  <1> QED
    BY <1>1 DEF UpdateSaleRead, PayRead, CancelRead, ShipRead, DeliverRead, DeleteSaleRead, RestoreSaleRead

(* The writes keep the order and clear nothing.                            *)
LEMMA StampsWrites ==
    ASSUME SalesInv, StampsInv, NEW r \in SaleRequests,
           \/ UpdateSaleWrite(r) \/ CancelWrite(r) \/ ShipWrite(r) \/ DeliverWrite(r)
           \/ DeleteSaleWrite(r) \/ RestoreSaleWrite(r)
    PROVE  StampsInv'
  <1> DEFINE s == saleCall[r].sale
  <1>1. s \in Sales /\ sale[s] \in Sale /\ This(r) = sale[s]
    BY SaleFacts DEF UpdateSaleWrite, CancelWrite, ShipWrite, DeliverWrite, DeleteSaleWrite,
                     RestoreSaleWrite, SaleAt, SaleCallOK, This
  <1>2. InOrder(sale[s])
    BY <1>1 DEF StampsInv, StampsInOrder, InOrder
  <1>3. ASSUME NEW new, WriteSale(r, new), InOrder(new), sale[s].stamps \subseteq new.stamps
        PROVE  StampsInv'
    BY <1>1, <1>3, StampsWrite DEF WriteSale
  <1> HIDE DEF s
  <1>4. CASE UpdateSaleWrite(r)
    <2>1. PICK discount \in Discounts : WriteSale(r, [sale[s] EXCEPT !.discount = discount])
      BY <1>1, <1>4 DEF UpdateSaleWrite
    <2> QED
      BY <1>1, <1>2, <1>3, <2>1 DEF InOrder, Sale
  <1>5. CASE CancelWrite(r)
    <2>1. WriteSale(r, [sale[s] EXCEPT !.status = "CANCELLED"])
      BY <1>1, <1>5 DEF CancelWrite
    <2> QED
      BY <1>1, <1>2, <1>3, <2>1 DEF InOrder, Sale
  <1>6. CASE ShipWrite(r)
    <2>1. WriteSale(r, [sale[s] EXCEPT !.status = "SHIPPED", !.stamps = @ \cup {"shipped"}])
      BY <1>1, <1>6 DEF ShipWrite
    <2>2. "paid" \in sale[s].stamps
      BY <1>6 DEF ShipWrite, StampsInv, Stamped, s
    <2> QED
      BY <1>1, <1>2, <1>3, <2>1, <2>2 DEF InOrder, Sale
  <1>7. CASE DeliverWrite(r)
    <2>1. WriteSale(r, [sale[s] EXCEPT !.status = "DELIVERED", !.stamps = @ \cup {"delivered"}])
      BY <1>1, <1>7 DEF DeliverWrite
    <2>2. "shipped" \in sale[s].stamps
      BY <1>7 DEF DeliverWrite, StampsInv, Stamped, s
    <2> QED
      BY <1>1, <1>2, <1>3, <2>1, <2>2 DEF InOrder, Sale
  <1>8. CASE DeleteSaleWrite(r)
    <2>1. WriteSale(r, [sale[s] EXCEPT !.deleted = TRUE])
      BY <1>1, <1>8 DEF DeleteSaleWrite
    <2> QED
      BY <1>1, <1>2, <1>3, <2>1 DEF InOrder, Sale
  <1>9. CASE RestoreSaleWrite(r)
    <2>1. WriteSale(r, [sale[s] EXCEPT !.deleted = FALSE])
      BY <1>1, <1>9 DEF RestoreSaleWrite
    <2> QED
      BY <1>1, <1>2, <1>3, <2>1 DEF InOrder, Sale
  <1> QED
    BY <1>4, <1>5, <1>6, <1>7, <1>8, <1>9

(* Creating a sale starts from no stamps.                                  *)
LEMMA StampsCreate ==
    ASSUME SalesInv, StampsInv, NEW r \in SaleRequests, CreateSaleRead(r) \/ CreateSaleWrite(r)
    PROVE  StampsInv'
  <1>1. CASE CreateSaleRead(r)
    <2>1. PICK cart \in Carts :
             \/ EndSaleCall(r) /\ UNCHANGED sale
             \/ saleCall' = [saleCall EXCEPT ![r].pc = "create", ![r].lines = cart] /\ UNCHANGED sale
      BY <1>1 DEF CreateSaleRead, RejectSale
    <2> DEFINE d == [saleCall[r] EXCEPT !.pc = "create", !.lines = cart]
    <2>2. HasSeen(d)
      BY SaleFacts DEF HasSeen, SaleCallOK, SaleCall
    <2>3. [saleCall EXCEPT ![r].pc = "create", ![r].lines = cart] = [saleCall EXCEPT ![r] = d]
      BY SaleFacts DEF SaleCallOK, SaleCall
    <2> HIDE DEF d
    <2> QED
      BY <2>1, <2>2, <2>3, StampsEnd, StampsCall
  <1>2. CASE CreateSaleWrite(r)
    <2> DEFINE new == [NoSale EXCEPT !.status = "DRAFT", !.lines = saleCall[r].lines]
    <2>1. PICK s \in Sales : sale[s].status = "NONE" /\ sale' = [sale EXCEPT ![s] = new] /\ EndSaleCall(r)
      BY <1>2 DEF CreateSaleWrite
    <2>2. sale[s].stamps = {}
      BY <2>1 DEF StampsInv
    <2>3. InOrder(new)
      BY DEF InOrder, NoSale
    <2> HIDE DEF new
    <2> QED
      BY <2>1, <2>2, <2>3, StampsWrite
  <1> QED
    BY <1>1, <1>2

(* Paying is the only handler that sets paidAt, with the status PAID.      *)
LEMMA StampsPay ==
    ASSUME SalesInv, StampsInv, NEW r \in SaleRequests,
           PayReadStock(r) \/ PayBegin(r) \/ PayLine(r) \/ PayCommit(r)
    PROVE  StampsInv'
  <1> DEFINE c == saleCall[r]
             s == c.sale
  <1>1. CASE PayReadStock(r)
    <2>1. UNCHANGED sale /\ \E seen : saleCall' = [saleCall EXCEPT ![r].pc = "payBegin", ![r].seen = seen]
      BY <1>1 DEF PayReadStock
    <2>2. PICK seen : saleCall' = [saleCall EXCEPT ![r].pc = "payBegin", ![r].seen = seen]
      BY <2>1
    <2> DEFINE d == [c EXCEPT !.pc = "payBegin", !.seen = seen]
    <2>3. HasSeen(d) /\ saleCall' = [saleCall EXCEPT ![r] = d]
      BY <2>2, SaleFacts DEF HasSeen, SaleCallOK, SaleCall
    <2> HIDE DEF d
    <2> QED
      BY <2>1, <2>3, StampsCall
  <1>2. CASE PayBegin(r)
    <2> DEFINE d == [c EXCEPT !.pc = "payTx"]
    <2>1. HasSeen(d) /\ saleCall' = [saleCall EXCEPT ![r] = d] /\ UNCHANGED sale
      BY <1>2, SaleFacts DEF PayBegin, HasSeen, SaleCallOK, SaleCall
    <2> HIDE DEF d
    <2> QED
      BY <2>1, StampsCall
  <1>3. CASE PayLine(r)
    <2> DEFINE d == [c EXCEPT !.k = @ + 1]
    <2>1. [saleCall EXCEPT ![r].k = @ + 1] = [saleCall EXCEPT ![r] = d] /\ HasSeen(d)
      BY <1>3, SaleFacts DEF PayLine, SaleAt, HasSeen, SaleCallOK, SaleCall
    <2> HIDE DEF d
    <2>2. UNCHANGED sale /\ (EndSaleCall(r) \/ saleCall' = [saleCall EXCEPT ![r] = d])
      BY <1>3, <2>1 DEF PayLine
    <2> QED
      BY <2>1, <2>2, StampsEnd, StampsCall
  <1>4. CASE PayCommit(r)
    <2>1. s \in Sales /\ sale[s] \in Sale /\ EndSaleCall(r)
      BY <1>4, SaleFacts DEF PayCommit, SaleAt, SaleCallOK
    <2>2. CASE UNCHANGED sale
      BY <2>1, <2>2, StampsEnd
    <2>3. CASE sale' = [sale EXCEPT ![s].status = "PAID", ![s].stamps = @ \cup {"paid"}]
      <3> HIDE DEF s
      <3> DEFINE new == [sale[s] EXCEPT !.status = "PAID", !.stamps = @ \cup {"paid"}]
      <3>1. sale' = [sale EXCEPT ![s] = new]
        BY <2>1, <2>3 DEF Sale
      <3>2. InOrder(sale[s])
        BY <2>1 DEF StampsInv, StampsInOrder, InOrder
      <3>3. InOrder(new) /\ sale[s].stamps \subseteq new.stamps
        BY <2>1, <3>2 DEF InOrder, Sale
      <3> HIDE DEF new
      <3> QED
        BY <2>1, <3>1, <3>3, StampsWrite
    <2> QED
      BY <1>4, <2>2, <2>3 DEF PayCommit
  <1> QED
    BY <1>1, <1>2, <1>3, <1>4

(* At the start nothing is stamped and no handler has begun.               *)
LEMMA StampsInvInit == DbInit /\ SalesInit => StampsInv
  BY SalesInputs DEF SalesInit, StampsInv, StampsInOrder, SaleAt, NewSaleCall

(* Every step of a sale handler preserves the order of stamps.             *)
LEMMA StampsInvStep ==
    ASSUME SalesInv, StampsInv, NEW r \in SaleRequests, SalesStep(r)
    PROVE  StampsInv'
  <1>1. CASE AbandonSaleCall(r)
    BY <1>1, StampsEnd DEF AbandonSaleCall
  <1> QED
    BY <1>1, StampsCreate, StampsRead, StampsWrites, StampsPay DEF SalesStep, ContinueSale

(* No sale handler brings in the goods of a purchase.                      *)
LEMMA SalesQuiet ==
    ASSUME SalesInv, NEW r \in SaleRequests, SalesStep(r)
    PROVE  Quiet(r, GoodsIn)
  <1> USE SaleFacts
  <1>1. DbTypeOK /\ r \in Requests
    BY DEF DbInv
  <1>2. ASSUME UNCHANGED dbVars \/ Rollback(r) \/ BeginSerializable(r) PROVE Quiet(r, GoodsIn)
    BY <1>1, <1>2, QuietIdle
  <1>3. ASSUME NEW docs, Commit(r, docs) \/ CommitDocs(r, docs) PROVE Quiet(r, GoodsIn)
    BY <1>1, <1>3, QuietCommit, QuietIdle
  <1>4. ASSUME NEW admitted, NEW pc, ReadSale(r, pc, admitted) PROVE Quiet(r, GoodsIn)
    BY <1>2, <1>4 DEF ReadSale, RejectSale, dbVars
  <1>5. CASE \/ UpdateSaleRead(r) \/ PayRead(r) \/ CancelRead(r) \/ ShipRead(r)
             \/ DeliverRead(r) \/ DeleteSaleRead(r) \/ RestoreSaleRead(r)
    BY <1>4, <1>5 DEF UpdateSaleRead, PayRead, CancelRead, ShipRead, DeliverRead, DeleteSaleRead, RestoreSaleRead
  <1>6. CASE \/ UpdateSaleWrite(r) \/ CancelWrite(r) \/ ShipWrite(r) \/ DeliverWrite(r)
             \/ DeleteSaleWrite(r) \/ RestoreSaleWrite(r)
    BY <1>3, <1>6 DEF UpdateSaleWrite, CancelWrite, ShipWrite, DeliverWrite, DeleteSaleWrite,
                      RestoreSaleWrite, WriteSale
  <1>7. CASE PayLine(r)
    <2> DEFINE c == saleCall[r]
               line == c.lines[c.k]
               m == Movement("SOLD", c.seen[line.row].qty, c.seen[line.row].qty - line.qty, c.sale)
    <2>1. c.sale \in Sales /\ c.lines \in Seq(Line) /\ c.k \in DOMAIN c.lines
      BY <1>7 DEF PayLine, SaleAt, SaleCallOK, SaleCall
    <2>2. line.row \in Rows \cup {NoRow}
      <3>1. line \in Line
        BY <2>1
      <3> HIDE DEF line
      <3> QED
        BY <3>1 DEF Line
    <2>3. m \notin GoodsIn
      BY <2>1, KindOf
    <2>4. \/ UNCHANGED dbVars \/ Rollback(r)
          \/ line.row # NoRow /\ \E v : WriteRow(r, line.row, v, m)
      BY <1>7 DEF PayLine
    <2> HIDE DEF m
    <2> QED
      BY <1>1, <1>2, <2>2, <2>3, <2>4, QuietWrite
  <1>8. CASE PayCommit(r)
    BY <1>2, <1>3, <1>8 DEF PayCommit
  <1>9. CASE PayReadStock(r) \/ CreateSaleRead(r) \/ CreateSaleWrite(r)
    BY <1>2, <1>9 DEF PayReadStock, CreateSaleRead, CreateSaleWrite, RejectSale, dbVars
  <1>10. CASE PayBegin(r) \/ AbandonSaleCall(r)
    BY <1>2, <1>10 DEF PayBegin, AbandonSaleCall
  <1> QED
    BY <1>5, <1>6, <1>7, <1>8, <1>9, <1>10 DEF SalesStep, ContinueSale

(* No sale handler changes an IMEI.                                        *)
LEMMA SalesImei ==
    ASSUME SalesInv, ImeiInv, NEW r \in SaleRequests, SalesStep(r)
    PROVE  ImeiInv' /\ NoneVanish
  <1> USE SaleFacts
  <1>1. DbTypeOK /\ r \in Requests
    BY DEF DbInv
  <1>2. ASSUME UNCHANGED dbVars \/ Rollback(r) \/ BeginSerializable(r) PROVE ImeiInv' /\ NoneVanish
    BY <1>1, <1>2, ImeiIdle
  <1>3. ASSUME NEW docs, Commit(r, docs) \/ CommitDocs(r, docs) PROVE ImeiInv' /\ NoneVanish
    BY <1>1, <1>3, ImeiCommit, ImeiIdle
  <1>4. ASSUME NEW admitted, NEW pc, ReadSale(r, pc, admitted) PROVE ImeiInv' /\ NoneVanish
    BY <1>2, <1>4 DEF ReadSale, RejectSale, dbVars
  <1>5. CASE \/ UpdateSaleRead(r) \/ PayRead(r) \/ CancelRead(r) \/ ShipRead(r)
             \/ DeliverRead(r) \/ DeleteSaleRead(r) \/ RestoreSaleRead(r)
    BY <1>4, <1>5 DEF UpdateSaleRead, PayRead, CancelRead, ShipRead, DeliverRead, DeleteSaleRead, RestoreSaleRead
  <1>6. CASE \/ UpdateSaleWrite(r) \/ CancelWrite(r) \/ ShipWrite(r) \/ DeliverWrite(r)
             \/ DeleteSaleWrite(r) \/ RestoreSaleWrite(r)
    BY <1>3, <1>6 DEF UpdateSaleWrite, CancelWrite, ShipWrite, DeliverWrite, DeleteSaleWrite,
                      RestoreSaleWrite, WriteSale
  <1>7. CASE PayLine(r)
    <2> DEFINE c == saleCall[r]
               x == c.lines[c.k].row
    <2>1. x \in Rows \cup {NoRow}
      <3>1. c.lines \in Seq(Line) /\ c.k \in DOMAIN c.lines
        BY <1>7 DEF PayLine, SaleCallOK, SaleCall
      <3>2. c.lines[c.k] \in Line
        BY <3>1
      <3> QED
        BY <3>2 DEF Line
    <2>2. \/ UNCHANGED dbVars \/ Rollback(r)
          \/ x # NoRow /\ \E m, seen, after : WriteRow(r, x, SoldRow(View(r)[x], seen, after), m)
      BY <1>7 DEF PayLine
    <2> HIDE DEF x
    <2>3. ASSUME x \in Rows, NEW m, NEW seen, NEW after, NEW v, v = SoldRow(View(r)[x], seen, after), WriteRow(r, x, v, m)
          PROVE  ImeiInv' /\ NoneVanish
      <3>1. v.imei = View(r)[x].imei /\ v.state = View(r)[x].state
        <4>1. View(r)[x] \in StockItem
          BY <2>3
        <4> QED
          BY <2>3, <4>1 DEF SoldRow, StockItem
      <3> QED
        BY <1>1, <2>3, <3>1, ImeiAmend
    <2> QED
      BY <1>2, <2>1, <2>2, <2>3
  <1>8. CASE PayCommit(r)
    BY <1>2, <1>3, <1>8 DEF PayCommit
  <1>9. CASE PayReadStock(r) \/ CreateSaleRead(r) \/ CreateSaleWrite(r)
    BY <1>2, <1>9 DEF PayReadStock, CreateSaleRead, CreateSaleWrite, RejectSale, dbVars
  <1>10. CASE PayBegin(r) \/ AbandonSaleCall(r)
    BY <1>2, <1>10 DEF PayBegin, AbandonSaleCall
  <1> QED
    BY <1>5, <1>6, <1>7, <1>8, <1>9, <1>10 DEF SalesStep, ContinueSale

-----------------------------------------------------------------------------
(* Payment and stock.  Sales that exist keep their lines and their paidAt, *)
Lasting ==
    \A s \in Sales : /\ sale[s].status # "NONE" => sale'[s].status # "NONE" /\ sale'[s].lines = sale[s].lines
                     /\ "paid" \in sale[s].stamps => "paid" \in sale'[s].stamps

(* what has been taken is paid and what is paid has been taken,            *)
LedgerPaid ==
    /\ \A x \in Rows : \A i \in DOMAIN ledger[x] : ledger[x][i].type = "SOLD" => ledger[x][i].doc \in Sales
    /\ PaidIffTaken

(* and a handler whose call becomes d leaves pending what its call says.   *)
PaysOn(r, d) ==
    /\ saleCall' = [saleCall EXCEPT ![r] = d]
    /\ \A q \in Requests \ {r}, x \in Rows : tx'[q].moves[x] = tx[q].moves[x]
    /\ \A x \in Rows : \A i \in DOMAIN tx'[r].moves[x] :
          tx'[r].moves[x][i].type = "SOLD" => d.pc = "payTx" /\ tx'[r].moves[x][i].doc = d.sale
    /\ Paying(r, d)'

LEMMA PaymentKept ==
    ASSUME SalesInv, PaymentInv, NEW r \in SaleRequests, NEW d, Lasting, LedgerPaid', PaysOn(r, d)
    PROVE  PaymentInv'
  <1>1. saleCall'[r] = d /\ \A q \in SaleRequests \ {r} : saleCall'[q] = saleCall[q]
    BY SaleFacts DEF PaysOn
  <1>2. ASSUME NEW q \in SaleRequests \ {r} PROVE Paying(q, saleCall[q])'
    <2> DEFINE c == saleCall[q]
    <2>1. Paying(q, c) /\ (c.pc \notin {"new", "create", "done"} => c.sale \in Sales) /\ q \in Requests
      BY SalesInputs DEF PaymentInv, SalesInv
    <2>2. \A x \in Rows : tx'[q].moves[x] = tx[q].moves[x]
      BY <2>1 DEF PaysOn
    <2>3. c' = c
      BY <1>1
    <2>4. \A k \in StockLines(c.lines) : c.lines[k].row \in Rows
      <3>1. c.lines \in Seq(Line)
        BY SaleFacts DEF SaleCallOK, SaleCall
      <3> HIDE DEF c
      <3>2. \A k \in DOMAIN c.lines : c.lines[k] \in Line
        BY <3>1
      <3> QED
        BY <3>2 DEF StockLines, Line
    <2>5. \A x \in Rows : \A s, qty : TakesFor(q, s, x, qty)' <=> TakesFor(q, s, x, qty)
      BY <2>2 DEF TakesFor
    <2> HIDE DEF c
    <2> QED
      BY <2>1, <2>3, <2>4, <2>5 DEF Paying, Lasting, c
  <1>3. Paying(r, saleCall[r])'
    BY <1>1 DEF PaysOn, Paying
  <1>4. ASSUME NEW q \in Requests, NEW x \in Rows, NEW i \in DOMAIN tx'[q].moves[x], tx'[q].moves[x][i].type = "SOLD"
        PROVE  q \in SaleRequests /\ SaleAt(q, "payTx")' /\ tx'[q].moves[x][i].doc = saleCall'[q].sale
    <2>1. CASE q = r
      BY <1>1, <1>4, <2>1 DEF PaysOn, SaleAt
    <2>2. CASE q # r
      <3>1. tx'[q].moves[x] = tx[q].moves[x]
        BY <2>2 DEF PaysOn
      <3>2. q \in SaleRequests /\ SaleAt(q, "payTx") /\ tx[q].moves[x][i].doc = saleCall[q].sale
        BY <1>4, <3>1 DEF PaymentInv
      <3> QED
        BY <1>1, <2>2, <3>1, <3>2 DEF SaleAt
    <2> QED
      BY <2>1, <2>2
  <1> QED
    BY <1>2, <1>3, <1>4 DEF PaymentInv, LedgerPaid

(* A step that writes no ledger and pays nothing.                          *)
LEMMA PaymentIdle ==
    ASSUME SalesInv, StampsInv, PaymentInv, NEW r \in SaleRequests, NEW d, Lasting, UNCHANGED ledger,
           \A s \in Sales : "paid" \in sale'[s].stamps => "paid" \in sale[s].stamps, PaysOn(r, d)
    PROVE  PaymentInv'
  <1>1. \A x \in Rows : \A i \in DOMAIN ledger[x] : ledger[x][i].type = "SOLD" =>
           ledger[x][i].doc \in Sales /\ "paid" \in sale[ledger[x][i].doc].stamps
    BY DEF PaymentInv, PaidIffTaken
  <1>2. \A x \in Rows : \A i \in DOMAIN ledger'[x] : ledger'[x][i].type = "SOLD" =>
           ledger'[x][i].doc \in Sales /\ "paid" \in sale'[ledger'[x][i].doc].stamps
    BY <1>1 DEF Lasting
  <1>3. ASSUME NEW s \in Sales, "paid" \in sale'[s].stamps
        PROVE  (\A k \in StockLines(sale[s].lines) : TakenFor(s, sale[s].lines[k].row, sale[s].lines[k].qty))'
    <2>1. "paid" \in sale[s].stamps /\ sale[s].status # "NONE"
      BY <1>3 DEF StampsInv
    <2>2. PICK lines : lines = sale[s].lines
      OBVIOUS
    <2>3. sale'[s].lines = lines
      BY <2>1, <2>2 DEF Lasting
    <2>4. \A k \in StockLines(lines) : TakenFor(s, lines[k].row, lines[k].qty)
      BY <2>1, <2>2 DEF PaymentInv, PaidIffTaken
    <2>5. \A x, qty : TakenFor(s, x, qty)' <=> TakenFor(s, x, qty)
      BY DEF TakenFor
    <2> QED
      BY <2>3, <2>4, <2>5
  <1>4. PaidIffTaken'
    BY <1>2, <1>3 DEF PaidIffTaken
  <1>5. LedgerPaid'
    BY <1>2, <1>4 DEF LedgerPaid
  <1> QED
    BY <1>5, PaymentKept

(* A handler ends, with nothing taken and nothing left pending.            *)
LEMMA PaymentEnd ==
    ASSUME SalesInv, StampsInv, PaymentInv, NEW r \in SaleRequests, Lasting, UNCHANGED ledger,
           \A s \in Sales : "paid" \in sale'[s].stamps => "paid" \in sale[s].stamps, EndSaleCall(r),
           \A q \in Requests \ {r}, x \in Rows : tx'[q].moves[x] = tx[q].moves[x],
           \A x \in Rows : \A i \in DOMAIN tx'[r].moves[x] : tx'[r].moves[x][i].type # "SOLD"
    PROVE  PaymentInv'
  <1> DEFINE d == [NewSaleCall EXCEPT !.pc = "done"]
  <1>1. d.pc = "done" /\ d.k = 1 /\ d.lines = <<>>
    BY DEF NewSaleCall
  <1>2. saleCall' = [saleCall EXCEPT ![r] = d]
    BY DEF EndSaleCall
  <1> HIDE DEF d
  <1>3. Paying(r, d)'
    BY <1>1 DEF Paying, StockLines, d
  <1>4. PICK e : e = d
    OBVIOUS
  <1>5. PaysOn(r, e)
    BY <1>2, <1>3, <1>4 DEF PaysOn, d
  <1> QED
    BY <1>5, PaymentIdle

(* An error, wherever it comes.                                            *)
LEMMA PaymentRollback ==
    ASSUME SalesInv, StampsInv, PaymentInv, NEW r \in SaleRequests, Rollback(r), EndSaleCall(r), UNCHANGED sale
    PROVE  PaymentInv'
  <1>1. tx'[r] = NoTransaction /\ UNCHANGED ledger /\ \A q \in Requests \ {r} : tx'[q] = tx[q]
    BY SaleFacts DEF Rollback, DbInv, DbTypeOK
  <1>2. \A x \in Rows : tx'[r].moves[x] = <<>>
    BY <1>1 DEF NoTransaction
  <1> QED
    BY <1>1, <1>2, PaymentEnd DEF Lasting

(* What is pending for a sale belongs to a payment.                        *)
LEMMA NothingTaken ==
    ASSUME SalesInv, PaymentInv, NEW r \in SaleRequests, saleCall[r].pc # "payTx"
    PROVE  /\ \A x \in Rows : \A i \in DOMAIN tx[r].moves[x] : tx[r].moves[x][i].type # "SOLD"
           /\ saleCall[r].k = 1
  BY SalesInputs DEF PaymentInv, SaleAt, Paying

LEMMA PaymentReject ==
    ASSUME SalesInv, StampsInv, PaymentInv, NEW r \in SaleRequests, saleCall[r].pc # "payTx", RejectSale(r)
    PROVE  PaymentInv'
  BY NothingTaken, PaymentEnd DEF RejectSale, Lasting

(* A handler reads a sale, which then exists.                              *)
LEMMA PaymentRead ==
    ASSUME SalesInv, StampsInv, PaymentInv, NEW r \in SaleRequests,
           NEW pc \in {"update", "payStock", "cancel", "ship", "deliver", "delete", "restore"},
           NEW admitted, \A s \in admitted \cap Sales : sale[s].status # "NONE", ReadSale(r, pc, admitted)
    PROVE  PaymentInv'
  <1> DEFINE c == saleCall[r]
  <1>1. c.pc = "new" /\ c \in SaleCall /\ DOMAIN saleCall = SaleRequests
    BY SaleFacts DEF ReadSale, SaleAt, SaleCallOK
  <1>2. PICK s \in Sales :
           \/ RejectSale(r)
           \/ /\ sale[s].status # "NONE"
              /\ saleCall' = [saleCall EXCEPT ![r].pc = pc, ![r].sale = s, ![r].lines = sale[s].lines]
              /\ UNCHANGED <<stock, ledger, tx, sale>>
    BY DEF ReadSale
  <1>3. CASE RejectSale(r)
    BY <1>1, <1>3, PaymentReject
  <1>4. CASE ~RejectSale(r)
    <2>1. PICK lines : lines = sale[s].lines
      OBVIOUS
    <2>2. PICK d : d = [c EXCEPT !.pc = pc, !.sale = s, !.lines = lines]
      OBVIOUS
    <2>3. saleCall' = [saleCall EXCEPT ![r] = d] /\ UNCHANGED <<ledger, tx, sale>>
      BY <1>1, <1>2, <1>4, <2>1, <2>2 DEF SaleCall
    <2>4. d.pc = pc /\ d.sale = s /\ d.lines = lines /\ d.k = 1
      BY <1>1, <2>2, NothingTaken DEF SaleCall
    <2>5. \A k \in StockLines(lines) : ~(k < 1)
      <3>1. lines \in Seq(Line)
        BY <2>1, SaleFacts DEF Sale
      <3> QED
        BY <3>1 DEF StockLines
    <2>6. Paying(r, d)'
      BY <1>2, <1>4, <2>1, <2>3, <2>4, <2>5 DEF Paying
    <2>7. PaysOn(r, d)
      BY <1>1, <2>3, <2>6, NothingTaken DEF PaysOn
    <2> QED
      BY <2>3, <2>7, PaymentIdle DEF Lasting
  <1> QED
    BY <1>3, <1>4

LEMMA PaymentReads ==
    ASSUME SalesInv, StampsInv, PaymentInv, NEW r \in SaleRequests,
           \/ UpdateSaleRead(r) \/ PayRead(r) \/ CancelRead(r) \/ ShipRead(r)
           \/ DeliverRead(r) \/ DeleteSaleRead(r) \/ RestoreSaleRead(r)
    PROVE  PaymentInv'
  <1>1. /\ \A s \in Kept \cup Deleted : sale[s].status # "NONE"
        /\ \A statuses : "NONE" \notin statuses => \A s \in Having(statuses) : sale[s].status # "NONE"
    BY DEF Kept, Deleted, Having
  <1>2. CASE UpdateSaleRead(r)
    BY <1>1, <1>2, PaymentRead DEF UpdateSaleRead
  <1>3. CASE PayRead(r)
    BY <1>1, <1>3, PaymentRead DEF PayRead
  <1>4. CASE CancelRead(r)
    BY <1>1, <1>4, PaymentRead DEF CancelRead
  <1>5. CASE ShipRead(r)
    BY <1>1, <1>5, PaymentRead DEF ShipRead
  <1>6. CASE DeliverRead(r)
    BY <1>1, <1>6, PaymentRead DEF DeliverRead
  <1>7. CASE DeleteSaleRead(r) \/ RestoreSaleRead(r)
    BY <1>1, <1>7, PaymentRead DEF DeleteSaleRead, RestoreSaleRead
  <1> QED
    BY <1>2, <1>3, <1>4, <1>5, <1>6, <1>7

(* An UPDATE of a sale keeps its lines and whether it has been paid.       *)
LEMMA PaymentWrite ==
    ASSUME SalesInv, StampsInv, PaymentInv, NEW r \in SaleRequests, NEW new,
           saleCall[r].pc \notin {"new", "create", "done"}, WriteSale(r, new),
           new.status # "NONE", new.lines = This(r).lines, "paid" \in new.stamps <=> "paid" \in This(r).stamps
    PROVE  PaymentInv'
  <1> DEFINE s == saleCall[r].sale
  <1>1. s \in Sales /\ DbTypeOK /\ r \in Requests
    BY SaleFacts DEF SaleCallOK, DbInv
  <1>2. sale' = [sale EXCEPT ![s] = new] /\ DOMAIN sale = Sales
    BY SaleFacts DEF WriteSale
  <1>3. \A o \in Sales : sale'[o] = (IF o = s THEN new ELSE sale[o])
    BY <1>1, <1>2
  <1>4. Lasting /\ \A o \in Sales : "paid" \in sale'[o].stamps => "paid" \in sale[o].stamps
    BY <1>3 DEF Lasting, This
  <1>5. tx'[r] = NoTransaction /\ UNCHANGED ledger /\ \A q \in Requests \ {r} : tx'[q].moves = tx[q].moves
    BY <1>1, OutdateMoves DEF WriteSale, CommitDocs
  <1>6. \A x \in Rows : tx'[r].moves[x] = <<>>
    BY <1>5 DEF NoTransaction
  <1> QED
    BY <1>4, <1>5, <1>6, PaymentEnd DEF WriteSale

LEMMA PaymentWrites ==
    ASSUME SalesInv, StampsInv, PaymentInv, NEW r \in SaleRequests,
           \/ UpdateSaleWrite(r) \/ CancelWrite(r) \/ ShipWrite(r)
           \/ DeliverWrite(r) \/ DeleteSaleWrite(r) \/ RestoreSaleWrite(r)
    PROVE  PaymentInv'
  <1> DEFINE old == This(r)
  <1>1. saleCall[r].pc \notin {"new", "create", "done"}
    BY DEF UpdateSaleWrite, CancelWrite, ShipWrite, DeliverWrite, DeleteSaleWrite, RestoreSaleWrite, SaleAt
  <1>2. old \in Sale /\ old.status # "NONE"
    BY <1>1, SaleFacts DEF This, SaleCallOK, PaymentInv, Paying
  <1> HIDE DEF old
  <1>3. CASE UpdateSaleWrite(r)
    <2>1. PICK discount \in Discounts : WriteSale(r, [old EXCEPT !.discount = discount])
      BY <1>3 DEF UpdateSaleWrite, old
    <2> DEFINE new == [old EXCEPT !.discount = discount]
    <2>2. new.status = old.status /\ new.lines = old.lines /\ new.stamps = old.stamps
      BY <1>2 DEF Sale
    <2> HIDE DEF new
    <2> QED
      BY <1>1, <1>2, <2>1, <2>2, PaymentWrite DEF new, old
  <1>4. CASE CancelWrite(r)
    <2> DEFINE new == [old EXCEPT !.status = "CANCELLED"]
    <2>1. WriteSale(r, new)
      BY <1>4 DEF CancelWrite, old
    <2>2. new.status = "CANCELLED" /\ new.lines = old.lines /\ new.stamps = old.stamps
      BY <1>2 DEF Sale
    <2> HIDE DEF new
    <2> QED
      BY <1>1, <1>2, <2>1, <2>2, PaymentWrite DEF old
  <1>5. CASE ShipWrite(r)
    <2> DEFINE new == [old EXCEPT !.status = "SHIPPED", !.stamps = @ \cup {"shipped"}]
    <2>1. WriteSale(r, new)
      BY <1>5 DEF ShipWrite, old
    <2>2. new.status = "SHIPPED" /\ new.lines = old.lines /\ new.stamps = old.stamps \cup {"shipped"}
      BY <1>2 DEF Sale
    <2> HIDE DEF new
    <2> QED
      BY <1>1, <1>2, <2>1, <2>2, PaymentWrite DEF old
  <1>6. CASE DeliverWrite(r)
    <2> DEFINE new == [old EXCEPT !.status = "DELIVERED", !.stamps = @ \cup {"delivered"}]
    <2>1. WriteSale(r, new)
      BY <1>6 DEF DeliverWrite, old
    <2>2. new.status = "DELIVERED" /\ new.lines = old.lines /\ new.stamps = old.stamps \cup {"delivered"}
      BY <1>2 DEF Sale
    <2> HIDE DEF new
    <2> QED
      BY <1>1, <1>2, <2>1, <2>2, PaymentWrite DEF old
  <1>7. CASE DeleteSaleWrite(r) \/ RestoreSaleWrite(r)
    <2>1. PICK deleted : WriteSale(r, [old EXCEPT !.deleted = deleted])
      BY <1>7 DEF DeleteSaleWrite, RestoreSaleWrite, old
    <2>2. PICK new : new = [old EXCEPT !.deleted = deleted]
      OBVIOUS
    <2>3. new.status = old.status /\ new.lines = old.lines /\ new.stamps = old.stamps
      BY <1>2, <2>2 DEF Sale
    <2>4. WriteSale(r, new)
      BY <2>1, <2>2
    <2> QED
      BY <1>1, <1>2, <2>3, <2>4, PaymentWrite DEF old
  <1> QED
    BY <1>3, <1>4, <1>5, <1>6, <1>7

(* A new sale takes an id that nothing was taken for.                      *)
LEMMA PaymentCreate ==
    ASSUME SalesInv, StampsInv, PaymentInv, NEW r \in SaleRequests, CreateSaleRead(r) \/ CreateSaleWrite(r)
    PROVE  PaymentInv'
  <1> DEFINE c == saleCall[r]
  <1>1. c.pc \in {"new", "create"} /\ c \in SaleCall /\ DOMAIN saleCall = SaleRequests /\ DOMAIN sale = Sales
    BY SaleFacts DEF CreateSaleRead, CreateSaleWrite, SaleAt, SaleCallOK
  <1>2. CASE CreateSaleRead(r)
    <2>1. PICK cart \in Carts :
             \/ RejectSale(r)
             \/ /\ saleCall' = [saleCall EXCEPT ![r].pc = "create", ![r].lines = cart]
                /\ UNCHANGED <<stock, ledger, tx, sale>>
      BY <1>2 DEF CreateSaleRead
    <2>2. CASE RejectSale(r)
      BY <1>1, <2>2, PaymentReject
    <2>3. CASE ~RejectSale(r)
      <3>1. PICK d : d = [c EXCEPT !.pc = "create", !.lines = cart]
        OBVIOUS
      <3>2. saleCall' = [saleCall EXCEPT ![r] = d] /\ UNCHANGED <<ledger, tx, sale>>
        BY <1>1, <2>1, <2>3, <3>1 DEF SaleCall
      <3>3. d.pc = "create" /\ d.lines = cart /\ d.k = 1
        BY <1>1, <3>1, NothingTaken DEF SaleCall
      <3>4. \A k \in StockLines(cart) : ~(k < 1)
        <4>1. cart \in Seq(Line)
          BY SalesInputs
        <4> QED
          BY <4>1 DEF StockLines
      <3>5. PaysOn(r, d)
        BY <1>1, <3>2, <3>3, <3>4, NothingTaken DEF PaysOn, Paying
      <3> QED
        BY <3>2, <3>5, PaymentIdle DEF Lasting
    <2> QED
      BY <2>2, <2>3
  <1>3. CASE CreateSaleWrite(r)
    <2> DEFINE new == [NoSale EXCEPT !.status = "DRAFT", !.lines = c.lines]
    <2>1. PICK s \in Sales : sale[s].status = "NONE" /\ sale' = [sale EXCEPT ![s] = new]
      BY <1>3 DEF CreateSaleWrite
    <2>2. new.stamps = {} /\ sale[s].stamps = {}
      BY <2>1 DEF NoSale, StampsInv
    <2> HIDE DEF new
    <2>3. \A o \in Sales : sale'[o] = (IF o = s THEN new ELSE sale[o])
      BY <1>1, <2>1
    <2>4. Lasting /\ \A o \in Sales : "paid" \in sale'[o].stamps => "paid" \in sale[o].stamps
      BY <2>1, <2>2, <2>3 DEF Lasting
    <2>5. UNCHANGED <<ledger, tx>> /\ EndSaleCall(r)
      BY <1>3 DEF CreateSaleWrite, dbVars
    <2> QED
      BY <1>1, <2>4, <2>5, NothingTaken, PaymentEnd
  <1> QED
    BY <1>2, <1>3

(* What WriteRow makes of what is pending.                                 *)
LEMMA WriteRowTakes ==
    ASSUME DbTypeOK, NEW r \in Requests, NEW x \in Rows, NEW v, NEW m, WriteRow(r, x, v, m)
    PROVE  /\ UNCHANGED ledger
           /\ \A q \in Requests \ {r}, y \in Rows : tx'[q].moves[y] = tx[q].moves[y]
           /\ \E i \in DOMAIN tx'[r].moves[x] : tx'[r].moves[x][i] = m
           /\ \A y \in Rows : \A i \in DOMAIN tx[r].moves[y] :
                 i \in DOMAIN tx'[r].moves[y] /\ tx'[r].moves[y][i] = tx[r].moves[y][i]
           /\ \A y \in Rows : \A i \in DOMAIN tx'[r].moves[y] :
                 tx'[r].moves[y][i] = m \/ (i \in DOMAIN tx[r].moves[y] /\ tx'[r].moves[y][i] = tx[r].moves[y][i])
  <1> DEFINE old == tx[r].moves[x]
             new == tx'[r].moves[x]
  <1>1. /\ UNCHANGED ledger /\ old \in Seq(StockMovement) /\ new = Append(old, m)
        /\ \A y \in Rows \ {x} : tx'[r].moves[y] = tx[r].moves[y]
        /\ \A q \in Requests \ {r} : tx'[q].moves = tx[q].moves
    BY DEF WriteRow, DbTypeOK, Transaction
  <1> HIDE DEF old, new
  <1>2. Len(old) + 1 \in DOMAIN new /\ new[Len(old) + 1] = m
    BY <1>1
  <1>3. \A i \in DOMAIN old : i \in DOMAIN new /\ new[i] = old[i]
    BY <1>1
  <1>4. \A i \in DOMAIN new : new[i] = m \/ (i \in DOMAIN old /\ new[i] = old[i])
    BY <1>1
  <1>5. ASSUME NEW y \in Rows
        PROVE  /\ \A i \in DOMAIN tx[r].moves[y] :
                     i \in DOMAIN tx'[r].moves[y] /\ tx'[r].moves[y][i] = tx[r].moves[y][i]
               /\ \A i \in DOMAIN tx'[r].moves[y] :
                     tx'[r].moves[y][i] = m \/ (i \in DOMAIN tx[r].moves[y] /\ tx'[r].moves[y][i] = tx[r].moves[y][i])
    <2>1. CASE y = x
      BY <1>3, <1>4, <2>1 DEF old, new
    <2>2. CASE y # x
      <3>1. tx'[r].moves[y] = tx[r].moves[y]
        BY <1>1, <2>2
      <3> QED
        BY <3>1
    <2> QED
      BY <2>1, <2>2
  <1>6. \E i \in DOMAIN tx'[r].moves[x] : tx'[r].moves[x][i] = m
    BY <1>2 DEF new
  <1> QED
    BY <1>1, <1>5, <1>6

(* Working through the lines of a payment.                                 *)
LEMMA PaymentLine ==
    ASSUME SalesInv, StampsInv, PaymentInv, NEW r \in SaleRequests, PayLine(r)
    PROVE  PaymentInv'
  <1>0. PICK c : c = saleCall[r]
    OBVIOUS
  <1> DEFINE line == c.lines[c.k]
             m == Movement("SOLD", c.seen[line.row].qty, c.seen[line.row].qty - line.qty, c.sale)
             d == [c EXCEPT !.k = @ + 1]
  <1> USE SaleFacts
  <1>1. /\ c.pc = "payTx" /\ c \in SaleCall /\ c.k \in DOMAIN c.lines /\ c.sale \in Sales
        /\ c.lines \in Seq(Line) /\ UNCHANGED sale /\ DbTypeOK /\ DOMAIN saleCall = SaleRequests
        /\ r \in Requests
    BY <1>0 DEF PayLine, SaleAt, SaleCallOK, SaleCall, DbInv
  <1>2. line \in Line /\ c.k \in Nat
    BY <1>1
  <1>3. /\ d.pc = "payTx" /\ d.sale = c.sale /\ d.lines = c.lines /\ d.k = c.k + 1
        /\ [saleCall EXCEPT ![r].k = @ + 1] = [saleCall EXCEPT ![r] = d]
    BY <1>0, <1>1 DEF SaleCall
  <1>4. \/ Rollback(r) /\ EndSaleCall(r)
        \/ /\ saleCall' = [saleCall EXCEPT ![r] = d]
           /\ \/ line.row = NoRow /\ UNCHANGED dbVars
              \/ line.row # NoRow /\ \E v : WriteRow(r, line.row, v, m)
    BY <1>0, <1>3 DEF PayLine
  <1>6. line.row \in Rows \cup {NoRow} /\ line.qty \in Int
    <2> HIDE DEF line
    <2> QED
      BY <1>2, RowsAssumption DEF Line
  <1>7. Paying(r, c) /\ \A k \in StockLines(c.lines) : k < c.k + 1 => k < c.k \/ k = c.k
    BY <1>0, <1>1 DEF PaymentInv, StockLines
  <1>8. \A x \in Rows : \A i \in DOMAIN tx[r].moves[x] : tx[r].moves[x][i].type = "SOLD" => tx[r].moves[x][i].doc = c.sale
    BY <1>0 DEF PaymentInv
  <1>9. ASSUME NEW k \in StockLines(c.lines) PROVE c.lines[k].row \in Rows
    <2>1. k \in DOMAIN c.lines /\ c.lines[k].row # NoRow
      BY <1>9 DEF StockLines
    <2>2. c.lines[k] \in Line
      BY <1>1, <2>1
    <2> QED
      BY <2>1, <2>2 DEF Line
  <1> DEFINE s == c.sale
  <1> HIDE DEF d
  <1>10. CASE saleCall' = [saleCall EXCEPT ![r] = d] /\ line.row = NoRow /\ UNCHANGED dbVars
    <2>1. c.k \notin StockLines(c.lines)
      BY <1>10 DEF StockLines
    <2>2. UNCHANGED <<ledger, tx>>
      BY <1>10 DEF dbVars
    <2>3. Paying(r, d)'
      <3>1. sale[s].status # "NONE" /\ c.lines = sale[s].lines
        BY <1>1, <1>7 DEF Paying
      <3>2. \A k \in StockLines(c.lines) : k < c.k + 1 => TakesFor(r, s, c.lines[k].row, c.lines[k].qty)
        BY <1>7, <2>1 DEF Paying
      <3>3. \A x, qty : TakesFor(r, s, x, qty)' <=> TakesFor(r, s, x, qty)
        BY <2>2 DEF TakesFor
      <3> QED
        BY <1>1, <1>3, <3>1, <3>2, <3>3 DEF Paying
    <2>4. PaysOn(r, d)
      BY <1>3, <1>8, <1>10, <2>2, <2>3 DEF PaysOn
    <2> QED
      BY <1>1, <2>2, <2>4, PaymentIdle DEF Lasting
  <1>11. ASSUME NEW v, saleCall' = [saleCall EXCEPT ![r] = d], line.row # NoRow, WriteRow(r, line.row, v, m)
         PROVE  PaymentInv'
    <2> DEFINE x == line.row
    <2>1. x \in Rows /\ c.seen[x].qty \in Int
      <3>1. x \in Rows
        BY <1>6, <1>11
      <3>2. c.seen \in [Rows -> StockItem]
        BY <1>1 DEF SaleCall
      <3> HIDE DEF x
      <3>3. c.seen[x] \in StockItem
        BY <3>1, <3>2
      <3> QED
        BY <3>1, <3>3, RowsAssumption DEF StockItem
    <2>2. m.type = "SOLD" /\ m.doc = s /\ m.before - m.after = line.qty
      BY <1>6, <2>1 DEF Movement
    <2>3. WriteRow(r, x, v, m)
      BY <1>11
    <2> HIDE DEF m, x
    <2>4. /\ UNCHANGED ledger
          /\ \A q \in Requests \ {r}, y \in Rows : tx'[q].moves[y] = tx[q].moves[y]
          /\ \E i \in DOMAIN tx'[r].moves[x] : tx'[r].moves[x][i] = m
          /\ \A y \in Rows : \A i \in DOMAIN tx[r].moves[y] :
                 i \in DOMAIN tx'[r].moves[y] /\ tx'[r].moves[y][i] = tx[r].moves[y][i]
          /\ \A y \in Rows : \A i \in DOMAIN tx'[r].moves[y] :
                 tx'[r].moves[y][i] = m \/ (i \in DOMAIN tx[r].moves[y] /\ tx'[r].moves[y][i] = tx[r].moves[y][i])
      BY <1>1, <2>1, <2>3, WriteRowTakes
    <2>5. TakesFor(r, s, x, line.qty)'
      BY <1>1, <2>2, <2>4 DEF TakesFor
    <2>6. \A y \in Rows : \A qty : TakesFor(r, s, y, qty) => TakesFor(r, s, y, qty)'
      BY <2>4 DEF TakesFor
    <2>7. Paying(r, d)'
      <3>1. sale[s].status # "NONE" /\ c.lines = sale[s].lines
        BY <1>1, <1>7 DEF Paying
      <3>2. \A k \in StockLines(c.lines) : k < c.k + 1 => TakesFor(r, s, c.lines[k].row, c.lines[k].qty)'
        BY <1>7, <1>9, <2>5, <2>6 DEF Paying, x
      <3> QED
        BY <1>1, <1>3, <3>1, <3>2 DEF Paying
    <2>8. \A y \in Rows : \A i \in DOMAIN tx'[r].moves[y] : tx'[r].moves[y][i].type = "SOLD" => tx'[r].moves[y][i].doc = s
      BY <1>8, <2>2, <2>4
    <2>9. PaysOn(r, d)
      BY <1>3, <1>11, <2>4, <2>7, <2>8 DEF PaysOn
    <2> QED
      BY <1>1, <2>4, <2>9, PaymentIdle DEF Lasting
  <1> QED
    BY <1>1, <1>4, <1>10, <1>11, PaymentRollback

(* The commit of a payment takes the goods and sets paidAt together.       *)
LEMMA PaymentCommit ==
    ASSUME SalesInv, StampsInv, PaymentInv, NEW r \in SaleRequests, PayCommit(r)
    PROVE  PaymentInv'
  <1>0. PICK c : c = saleCall[r]
    OBVIOUS
  <1> DEFINE s == c.sale
  <1>1. /\ c.pc = "payTx" /\ c \in SaleCall /\ s \in Sales /\ c.lines \in Seq(Line) /\ c.k = Len(c.lines) + 1
        /\ r \in Requests /\ DbTypeOK /\ sale \in [Sales -> Sale]
    BY <1>0, SaleFacts DEF PayCommit, SaleAt, SaleCallOK, SaleCall, DbInv
  <1>2. CASE Rollback(r) /\ UNCHANGED sale
    BY <1>2, PaymentRollback DEF PayCommit
  <1>3. CASE /\ Commit(r, {s})
             /\ sale' = [sale EXCEPT ![s].status = "PAID", ![s].stamps = @ \cup {"paid"}]
    <2>1. Paying(r, c)
      BY <1>0 DEF PaymentInv
    <2>2. sale[s].status # "NONE" /\ c.lines = sale[s].lines
      BY <1>1, <2>1 DEF Paying
    <2> HIDE DEF s
    <2>3. /\ \A o \in Sales \ {s} : sale'[o] = sale[o]
          /\ sale'[s].status = "PAID" /\ sale'[s].lines = c.lines
          /\ sale'[s].stamps = sale[s].stamps \cup {"paid"}
      BY <1>1, <1>3, <2>2 DEF Sale
    <2>4. Lasting
      BY <1>1, <2>2, <2>3 DEF Lasting
    <2>5. tx'[r] = NoTransaction /\ \A q \in Requests \ {r} : tx'[q].moves = tx[q].moves
      BY <1>1, <1>3, OutdateMoves DEF Commit
    <2>6. \A x \in Rows : /\ ledger'[x] = ledger[x] \o tx[r].moves[x]
                          /\ ledger[x] \in Seq(StockMovement) /\ tx[r].moves[x] \in Seq(StockMovement)
      BY <1>1, <1>3 DEF Commit, DbTypeOK, Transaction
    <2>7. ASSUME NEW x \in Rows
          PROVE  /\ \A i \in DOMAIN ledger[x] : i \in DOMAIN ledger'[x] /\ ledger'[x][i] = ledger[x][i]
                 /\ \A i \in DOMAIN ledger'[x] \ DOMAIN ledger[x] :
                       \E j \in DOMAIN tx[r].moves[x] : ledger'[x][i] = tx[r].moves[x][j]
                 /\ \A j \in DOMAIN tx[r].moves[x] :
                       \E i \in DOMAIN ledger'[x] : ledger'[x][i] = tx[r].moves[x][j]
      <3> DEFINE h == ledger[x]
                 ms == tx[r].moves[x]
                 all == h \o ms
      <3>1. h \in Seq(StockMovement) /\ ms \in Seq(StockMovement) /\ ledger'[x] = all
        BY <2>6
      <3> HIDE DEF h, ms
      <3>2. /\ \A i \in DOMAIN h : i \in DOMAIN all /\ all[i] = h[i]
            /\ \A i \in DOMAIN all \ DOMAIN h : i - Len(h) \in DOMAIN ms /\ all[i] = ms[i - Len(h)]
            /\ \A i \in DOMAIN ms : i + Len(h) \in DOMAIN all /\ all[i + Len(h)] = ms[i]
        BY <3>1, Concatenated
      <3> HIDE DEF all
      <3> QED
        BY <3>1, <3>2 DEF h, ms
    <2>8. ASSUME NEW x \in Rows, NEW i \in DOMAIN ledger'[x], ledger'[x][i].type = "SOLD"
          PROVE  ledger'[x][i].doc \in Sales /\ "paid" \in sale'[ledger'[x][i].doc].stamps
      <3>1. CASE i \in DOMAIN ledger[x]
        <4>1. ledger'[x][i] = ledger[x][i]
          BY <2>7, <3>1
        <4>2. ledger[x][i].doc \in Sales /\ "paid" \in sale[ledger[x][i].doc].stamps
          BY <2>8, <3>1, <4>1 DEF PaymentInv, PaidIffTaken
        <4> QED
          BY <2>4, <4>1, <4>2 DEF Lasting
      <3>2. CASE i \notin DOMAIN ledger[x]
        <4>1. PICK j \in DOMAIN tx[r].moves[x] : ledger'[x][i] = tx[r].moves[x][j]
          BY <2>7, <2>8, <3>2
        <4>2. ledger'[x][i].doc = s
          BY <1>0, <1>1, <2>8, <4>1 DEF PaymentInv, s
        <4> QED
          BY <1>1, <2>3, <4>2
      <3> QED
        BY <3>1, <3>2
    <2>9. ASSUME NEW o \in Sales, "paid" \in sale'[o].stamps
          PROVE  (\A k \in StockLines(sale[o].lines) : TakenFor(o, sale[o].lines[k].row, sale[o].lines[k].qty))'
      <3>1. PICK lines : lines = sale[o].lines
        OBVIOUS
      <3>2. sale'[o].lines = lines /\ lines \in Seq(Line)
        BY <1>1, <2>2, <2>3, <3>1 DEF Sale
      <3>3. ASSUME NEW k \in StockLines(lines) PROVE lines[k].row \in Rows /\ k \in 1..Len(lines)
        <4>1. k \in 1..Len(lines) /\ lines[k] \in Line /\ lines[k].row # NoRow
          BY <3>2, <3>3 DEF StockLines
        <4> QED
          BY <4>1 DEF Line
      <3>4. CASE o = s
        <4>1. lines = c.lines
          BY <2>3, <3>2, <3>4
        <4>2. \A k \in StockLines(lines) : k < c.k
          BY <1>1, <3>3, <4>1
        <4>3. \A k \in StockLines(lines) : TakesFor(r, o, lines[k].row, lines[k].qty)
          BY <2>1, <3>4, <4>1, <4>2 DEF Paying, s
        <4>4. \A x \in Rows : \A qty : TakesFor(r, o, x, qty) => TakenFor(o, x, qty)'
          BY <2>7 DEF TakesFor, TakenFor
        <4> QED
          BY <3>2, <3>3, <4>3, <4>4
      <3>5. CASE o # s
        <4>1. \A k \in StockLines(lines) : TakenFor(o, lines[k].row, lines[k].qty)
          BY <2>3, <2>9, <3>1, <3>5 DEF PaymentInv, PaidIffTaken
        <4>2. \A x \in Rows : \A qty : TakenFor(o, x, qty) => TakenFor(o, x, qty)'
          BY <2>7 DEF TakenFor
        <4> QED
          BY <3>2, <3>3, <4>1, <4>2
      <3> QED
        BY <3>4, <3>5
    <2>10. LedgerPaid'
      <3>1. PaidIffTaken'
        BY <2>8, <2>9 DEF PaidIffTaken
      <3> QED
        BY <2>8, <3>1 DEF LedgerPaid
    <2>11. PICK d : d = [NewSaleCall EXCEPT !.pc = "done"]
      OBVIOUS
    <2>12. d.pc = "done" /\ d.k = 1 /\ d.lines = <<>> /\ saleCall' = [saleCall EXCEPT ![r] = d]
      BY <2>11 DEF NewSaleCall, PayCommit, EndSaleCall
    <2>13. \A x \in Rows : tx'[r].moves[x] = <<>>
      BY <2>5 DEF NoTransaction
    <2>14. PaysOn(r, d)
      BY <2>5, <2>12, <2>13 DEF PaysOn, Paying, StockLines
    <2> QED
      BY <2>4, <2>10, <2>14, PaymentKept
  <1> QED
    BY <1>0, <1>2, <1>3 DEF PayCommit

LEMMA PaymentPay ==
    ASSUME SalesInv, StampsInv, PaymentInv, NEW r \in SaleRequests, PayReadStock(r) \/ PayBegin(r)
    PROVE  PaymentInv'
  <1>0. PICK c : c = saleCall[r]
    OBVIOUS
  <1>1. /\ c.pc \in {"payStock", "payBegin"} /\ c \in SaleCall /\ UNCHANGED <<ledger, sale>>
        /\ \A q \in Requests, x \in Rows : tx'[q].moves[x] = tx[q].moves[x]
        /\ DOMAIN saleCall = SaleRequests
    <2>1. DbTypeOK /\ saleCall \in [SaleRequests -> SaleCall]
      BY SaleFacts DEF DbInv
    <2>2. CASE PayReadStock(r)
      BY <1>0, <2>1, <2>2 DEF PayReadStock, SaleAt
    <2>3. CASE PayBegin(r)
      <3>1. \A q \in Requests : tx'[q].moves = tx[q].moves
        BY <2>1, <2>3 DEF PayBegin, BeginSerializable, DbTypeOK, Transaction
      <3> QED
        BY <1>0, <2>1, <2>3, <3>1 DEF PayBegin, BeginSerializable, SaleAt
    <2> QED
      BY <2>2, <2>3
  <1>2. \E pc \in {"payBegin", "payTx"} : \E seen : saleCall' = [saleCall EXCEPT ![r].pc = pc, ![r].seen = seen]
    <2>1. CASE PayReadStock(r)
      BY <2>1 DEF PayReadStock
    <2>2. CASE PayBegin(r)
      <3>1. saleCall' = [saleCall EXCEPT ![r].pc = "payTx", ![r].seen = saleCall[r].seen]
        BY <1>0, <1>1, <2>2 DEF PayBegin, SaleCall
      <3> QED
        BY <3>1
    <2> QED
      BY <2>1, <2>2
  <1>3. PICK pc \in {"payBegin", "payTx"} : \E seen : saleCall' = [saleCall EXCEPT ![r].pc = pc, ![r].seen = seen]
    BY <1>2
  <1>4. PICK seen : saleCall' = [saleCall EXCEPT ![r].pc = pc, ![r].seen = seen]
    BY <1>3
  <1>5. PICK d : d = [c EXCEPT !.pc = pc, !.seen = seen]
    OBVIOUS
  <1>6. /\ saleCall' = [saleCall EXCEPT ![r] = d]
        /\ d.pc = pc /\ d.sale = c.sale /\ d.lines = c.lines /\ d.k = c.k
    BY <1>0, <1>1, <1>3, <1>4, <1>5 DEF SaleCall
  <1>7. c.k = 1 /\ sale[c.sale].status # "NONE" /\ c.lines = sale[c.sale].lines
    BY <1>0, <1>1 DEF PaymentInv, Paying
  <1>8. \A k \in StockLines(c.lines) : ~(k < 1)
    <2>1. c.lines \in Seq(Line)
      BY <1>1 DEF SaleCall
    <2> QED
      BY <2>1 DEF StockLines
  <1>9. \A x \in Rows : \A i \in DOMAIN tx[r].moves[x] : tx[r].moves[x][i].type # "SOLD"
    BY <1>0, <1>1, NothingTaken
  <1>10. Paying(r, d)'
    BY <1>1, <1>6, <1>7, <1>8 DEF Paying
  <1>11. PaysOn(r, d)
    BY <1>1, <1>6, <1>9, <1>10, SaleFacts DEF PaysOn
  <1> QED
    BY <1>1, <1>11, PaymentIdle DEF Lasting

(* At the start nothing is paid and nothing taken,                         *)
LEMMA PaymentInvInit == DbInit /\ SalesInit => PaymentInv
  <1> SUFFICES ASSUME DbInit, SalesInit PROVE PaymentInv
    OBVIOUS
  <1>1. \A x \in Rows : \A i \in DOMAIN ledger[x] : ledger[x][i].type # "SOLD"
    BY DEF DbInit, InitialLedger, Movement
  <1>2. \A s \in Sales : "paid" \notin sale[s].stamps
    BY SalesInputs DEF SalesInit
  <1>3. \A r \in Requests, x \in Rows : tx[r].moves[x] = <<>>
    BY DEF DbInit, NoTransaction
  <1>4. \A r \in SaleRequests : Paying(r, saleCall[r])
    BY DEF SalesInit, NewSaleCall, Paying, StockLines
  <1> QED
    BY <1>1, <1>2, <1>3, <1>4 DEF PaymentInv, PaidIffTaken

(* and every step of a sale handler keeps them in agreement.               *)
LEMMA PaymentInvStep ==
    ASSUME SalesInv, StampsInv, PaymentInv, NEW r \in SaleRequests, SalesStep(r)
    PROVE  PaymentInv'
  <1>1. CASE AbandonSaleCall(r)
    BY <1>1, PaymentRollback DEF AbandonSaleCall
  <1> QED
    BY <1>1, PaymentCreate, PaymentReads, PaymentWrites, PaymentPay, PaymentLine, PaymentCommit DEF SalesStep, ContinueSale

(* SalesService alone: sales, tables and the handlers' variables are       *)
(* always well-formed.                                                     *)
THEOREM SalesTypeCorrect == SalesSpec => []SalesTypeOK
  <1>1. DbInit /\ SalesInit => SalesInv
    BY SalesInvInit
  <1>2. SalesInv /\ [SalesNext]_salesVars => SalesInv'
    <2> SUFFICES ASSUME SalesInv, [SalesNext]_salesVars PROVE SalesInv'
      OBVIOUS
    <2>1. CASE SalesNext
      BY <2>1, SalesInvStep DEF SalesNext
    <2>2. CASE UNCHANGED salesVars
      BY <2>2, DbUnchanged DEF salesVars, dbVars, SalesInv, SalesTypeOK, DbInv
    <2> QED
      BY <2>1, <2>2
  <1>3. SalesInv => SalesTypeOK
    BY DEF SalesInv
  <1> QED
    BY <1>1, <1>2, <1>3, PTL DEF SalesSpec

-----------------------------------------------------------------------------
(* Purchases.                                                              *)

(* A handler's well-formed local variables.                                *)
PurchaseCallOK(c) ==
    /\ c \in PurchaseCall
    /\ c.pc \notin {"new", "done"} => c.purchase \in Purchases
    /\ c.pc = "applyWrite" => /\ c.row \in Rows
                              /\ \A line \in c.line : c.before + line.qty <= MaxQty

PurchaseTablesOK ==
    /\ DOMAIN purchase = Purchases
    /\ \A p \in Purchases : PurchaseShape(purchase[p])
    /\ applied \in SUBSET Purchases

(* What the proof of every handler starts from.                            *)
LEMMA PurchaseFacts ==
    ASSUME PurchasesInv, NEW r \in PurchaseRequests
    PROVE  /\ r \in Requests /\ purchaseCall \in [PurchaseRequests -> PurchaseCall]
           /\ PurchaseCallOK(purchaseCall[r]) /\ PurchaseTablesOK
           /\ DbInv /\ View(r) \in [Rows -> StockItem]
  BY PurchaseInputs, ViewType DEF PurchasesInv, PurchaseCallOK, PurchaseTablesOK, DbInv

(* Handlers change their own variables and one purchase; the tables stay   *)
(* well-formed.                                                            *)
LEMMA PurchaseCallStep ==
    ASSUME PurchasesInv, NEW r \in PurchaseRequests, NEW c, PurchaseCallOK(c),
           purchaseCall' = [purchaseCall EXCEPT ![r] = c], DbInv', PurchaseTablesOK'
    PROVE  PurchasesInv'
  BY DEF PurchasesInv, PurchaseCallOK, PurchaseTablesOK

(* A step that leaves the purchase tables alone keeps them well-formed.    *)
LEMMA PurchaseTablesKept ==
    ASSUME PurchaseTablesOK, UNCHANGED <<purchase, applied>>
    PROVE  PurchaseTablesOK'
  BY DEF PurchaseTablesOK, PurchaseShape

(* A row that is written keeps the shape of a purchase.                    *)
LEMMA PurchaseTablesWritten ==
    ASSUME PurchaseTablesOK, NEW p \in Purchases, NEW new, PurchaseShape(new),
           purchase' = [purchase EXCEPT ![p] = new], UNCHANGED applied
    PROVE  PurchaseTablesOK'
  BY DEF PurchaseTablesOK

(* A handler ends.                                                         *)
LEMMA PurchaseEndStep ==
    ASSUME PurchasesInv, NEW r \in PurchaseRequests, EndPurchaseCall(r), DbInv', PurchaseTablesOK'
    PROVE  PurchasesInv'
  <1>1. NewPurchaseCall \in PurchaseCall
    BY RowsAssumption DEF NewPurchaseCall, PurchaseCall, PurchaseStatus
  <1>2. PurchaseCallOK([NewPurchaseCall EXCEPT !.pc = "done"])
    BY <1>1 DEF PurchaseCallOK, PurchaseCall
  <1> QED
    BY <1>2, PurchaseCallStep DEF EndPurchaseCall

(* A handler ends before it has written anything.                          *)
LEMMA PurchaseRejectStep ==
    ASSUME PurchasesInv, NEW r \in PurchaseRequests, RejectPurchase(r)
    PROVE  PurchasesInv'
  <1>1. DbInv' /\ PurchaseTablesOK'
    BY DbUnchanged, PurchaseTablesKept, PurchaseFacts DEF RejectPurchase, KeepTables, dbVars
  <1> QED
    BY <1>1, PurchaseEndStep DEF RejectPurchase

(* A handler ends and its transaction rolls back.                          *)
LEMMA PurchaseRollbackStep ==
    ASSUME PurchasesInv, NEW r \in PurchaseRequests, Rollback(r), EndPurchaseCall(r),
           UNCHANGED <<purchase, applied>>
    PROVE  PurchasesInv'
  <1>1. DbInv' /\ PurchaseTablesOK'
    BY RollbackInv, PurchaseTablesKept, PurchaseFacts
  <1> QED
    BY <1>1, PurchaseEndStep

(* A step that only moves the handler on.                                  *)
LEMMA PurchaseMoveStep ==
    ASSUME PurchasesInv, NEW r \in PurchaseRequests, NEW c, PurchaseCallOK(c),
           purchaseCall' = [purchaseCall EXCEPT ![r] = c], KeepTables
    PROVE  PurchasesInv'
  <1>1. DbInv' /\ PurchaseTablesOK'
    BY DbUnchanged, PurchaseTablesKept, PurchaseFacts DEF KeepTables, dbVars
  <1> QED
    BY <1>1, PurchaseCallStep

(* The lines that an order inserts are PurchaseLine rows.                  *)
LEMMA InsertedType ==
    ASSUME NEW r \in PurchaseRequests, NEW order \in Orders
    PROVE  Inserted(r, order) \in SUBSET PurchaseLine
  <1>1. order \in Seq(OrderLine) /\ DOMAIN order \subseteq Nat
    BY PurchaseInputs
  <1>2. \A k \in DOMAIN order : order[k] \in OrderLine
    BY <1>1
  <1> QED
    BY <1>1, <1>2 DEF Inserted, PurchaseLine, OrderLine

(* Creating and editing purchases.                                         *)
LEMMA EditStep ==
    ASSUME PurchasesInv, NEW r \in PurchaseRequests,
           CreatePurchase(r) \/ EditRead(r) \/ EditDelete(r) \/ EditCommit(r)
    PROVE  PurchasesInv'
  <1> DEFINE c == purchaseCall[r]
  <1> USE PurchaseFacts
  <1>1. CASE CreatePurchase(r)
    <2>1. PICK p \in Purchases, order \in Orders :
             purchase' = [purchase EXCEPT ![p] = [NoPurchase EXCEPT !.status = "DRAFT",
                                                                    !.lines = Inserted(r, order),
                                                                    !.total = Total(Inserted(r, order))]]
      BY <1>1 DEF CreatePurchase
    <2> DEFINE lines == Inserted(r, order)
               total == Total(lines)
               new == [NoPurchase EXCEPT !.status = "DRAFT", !.lines = lines, !.total = total]
    <2>2. lines \in SUBSET PurchaseLine
      BY InsertedType
    <2>3. PurchaseShape(new)
      <3> HIDE DEF lines, total
      <3> QED
        BY <2>2 DEF NoPurchase, PurchaseShape, PurchaseStatus
    <2>4. purchase' = [purchase EXCEPT ![p] = new] /\ UNCHANGED applied
      BY <1>1, <2>1 DEF CreatePurchase
    <2> HIDE DEF new
    <2>5. PurchaseTablesOK'
      BY <2>3, <2>4, PurchaseTablesWritten
    <2> QED
      BY <1>1, <2>5, PurchaseEndStep, DbUnchanged DEF CreatePurchase, dbVars
  <1>2. CASE EditRead(r)
    <2>1. PICK p \in Purchases, order \in Orders :
             \/ RejectPurchase(r)
             \/ /\ purchaseCall' = [purchaseCall EXCEPT ![r].pc = "edit", ![r].purchase = p,
                                                        ![r].lines = Inserted(r, order)]
                /\ KeepTables
      BY <1>2 DEF EditRead
    <2>2. CASE ~RejectPurchase(r)
      <3> DEFINE d == [c EXCEPT !.pc = "edit", !.purchase = p, !.lines = Inserted(r, order)]
      <3>1. PurchaseCallOK(d)
        BY InsertedType DEF PurchaseCallOK, PurchaseCall
      <3>2. purchaseCall' = [purchaseCall EXCEPT ![r] = d]
        BY <2>1, <2>2 DEF PurchaseCallOK, PurchaseCall
      <3> HIDE DEF d
      <3> QED
        BY <2>1, <2>2, <3>1, <3>2, PurchaseMoveStep
    <2> QED
      BY <2>1, <2>2, PurchaseRejectStep
  <1>3. CASE EditDelete(r)
    <2> DEFINE d == [c EXCEPT !.pc = "editCommit", !.removed = purchase[Subject(r)].lines]
    <2>1. c.purchase \in Purchases
      BY <1>3 DEF EditDelete, PurchaseAt, PurchaseCallOK
    <2>2. purchase[Subject(r)].lines \in SUBSET PurchaseLine
      BY <2>1 DEF Subject, PurchaseTablesOK, PurchaseShape
    <2>3. PurchaseCallOK(d)
      BY <2>1, <2>2 DEF PurchaseCallOK, PurchaseCall
    <2>4. purchaseCall' = [purchaseCall EXCEPT ![r] = d]
      BY <1>3 DEF EditDelete, PurchaseCallOK, PurchaseCall
    <2> HIDE DEF d
    <2> QED
      BY <1>3, <2>3, <2>4, PurchaseMoveStep DEF EditDelete
  <1>4. CASE EditCommit(r)
    <2> DEFINE p == c.purchase
               old == purchase[p]
               lines == (old.lines \ c.removed) \cup c.lines
               total == Total(c.lines)
               new == [old EXCEPT !.lines = lines, !.total = total]
    <2>1. p \in Purchases /\ c.lines \in SUBSET PurchaseLine
      BY <1>4 DEF EditCommit, PurchaseAt, PurchaseCallOK, PurchaseCall
    <2>2. PurchaseShape(old)
      BY <2>1 DEF PurchaseTablesOK
    <2>3. lines \in SUBSET PurchaseLine
      BY <2>1, <2>2 DEF PurchaseShape
    <2>4. purchase' = [purchase EXCEPT ![p] = new] /\ UNCHANGED applied
      BY <1>4, <2>1 DEF EditCommit, Survivors, Subject, PurchaseTablesOK
    <2>5. PurchaseShape(new)
      <3> HIDE DEF old, lines, total
      <3> QED
        BY <2>2, <2>3 DEF PurchaseShape
    <2> HIDE DEF new, p
    <2>6. PurchaseTablesOK'
      BY <2>1, <2>4, <2>5, PurchaseTablesWritten
    <2> QED
      BY <1>4, <2>6, PurchaseEndStep, DbUnchanged DEF EditCommit, dbVars
  <1> QED
    BY <1>1, <1>2, <1>3, <1>4

(* Moving a purchase to another status.                                    *)
LEMMA TransitionStep ==
    ASSUME PurchasesInv, NEW r \in PurchaseRequests, TransitionRead(r) \/ StatusWrite(r)
    PROVE  PurchasesInv'
  <1> DEFINE c == purchaseCall[r]
  <1> USE PurchaseFacts
  <1>1. CASE TransitionRead(r)
    <2>1. PICK p \in Purchases, target \in PurchaseStatus :
             \/ RejectPurchase(r)
             \/ /\ purchaseCall' = [purchaseCall EXCEPT
                                       ![r].pc = IF target = "RECEIVED" THEN "applyCheck" ELSE "status",
                                       ![r].purchase = p, ![r].target = target]
                /\ KeepTables
      BY <1>1 DEF TransitionRead
    <2>2. CASE ~RejectPurchase(r)
      <3> DEFINE pc == IF target = "RECEIVED" THEN "applyCheck" ELSE "status"
                 d == [c EXCEPT !.pc = pc, !.purchase = p, !.target = target]
      <3>1. PurchaseCallOK(d)
        BY DEF PurchaseCallOK, PurchaseCall
      <3>2. purchaseCall' = [purchaseCall EXCEPT ![r] = d]
        BY <2>1, <2>2 DEF PurchaseCallOK, PurchaseCall
      <3> HIDE DEF d
      <3> QED
        BY <2>1, <2>2, <3>1, <3>2, PurchaseMoveStep
    <2> QED
      BY <2>1, <2>2, PurchaseRejectStep
  <1>2. CASE StatusWrite(r)
    <2> DEFINE p == c.purchase
               old == purchase[p]
               stamps == old.stamps \cup ({c.target} \ {"DRAFT"})
               new == [old EXCEPT !.status = c.target, !.stamps = stamps]
    <2>1. p \in Purchases /\ c.target \in PurchaseStatus
      BY <1>2 DEF StatusWrite, PurchaseAt, PurchaseCallOK, PurchaseCall
    <2>2. PurchaseShape(old)
      BY <2>1 DEF PurchaseTablesOK
    <2>3. stamps \in SUBSET PurchaseStatus
      BY <2>1, <2>2 DEF PurchaseShape
    <2>4. purchase' = [purchase EXCEPT ![p] = new] /\ UNCHANGED applied
      BY <1>2, <2>1 DEF StatusWrite, Subject, PurchaseTablesOK
    <2>5. PurchaseShape(new)
      <3> HIDE DEF old, stamps
      <3> QED
        BY <2>1, <2>2, <2>3 DEF PurchaseShape
    <2> HIDE DEF new, p
    <2>6. PurchaseTablesOK'
      BY <2>1, <2>4, <2>5, PurchaseTablesWritten
    <2> QED
      BY <1>2, <2>6, PurchaseEndStep, DbUnchanged DEF StatusWrite, dbVars
  <1> QED
    BY <1>1, <1>2

(* The reads and the INSERT before any stock is touched.                   *)
LEMMA ApplyStartStep ==
    ASSUME PurchasesInv, NEW r \in PurchaseRequests, ApplyCheck(r) \/ ApplyReadLines(r) \/ ApplyInsert(r)
    PROVE  PurchasesInv'
  <1> DEFINE c == purchaseCall[r]
  <1> USE PurchaseFacts
  <1>1. c.purchase \in Purchases
    BY DEF ApplyCheck, ApplyReadLines, ApplyInsert, PurchaseAt, PurchaseCallOK
  <1>2. ASSUME NEW pc \in {"status", "applyRead", "applyFind"}, KeepTables,
               purchaseCall' = [purchaseCall EXCEPT ![r].pc = pc]
        PROVE  PurchasesInv'
    <2> DEFINE d == [c EXCEPT !.pc = pc]
    <2>1. PurchaseCallOK(d)
      BY <1>1 DEF PurchaseCallOK, PurchaseCall
    <2>2. purchaseCall' = [purchaseCall EXCEPT ![r] = d]
      BY <1>2 DEF PurchaseCallOK, PurchaseCall
    <2> HIDE DEF d
    <2> QED
      BY <1>2, <2>1, <2>2, PurchaseMoveStep
  <1>3. CASE ApplyCheck(r)
    BY <1>2, <1>3 DEF ApplyCheck
  <1>4. CASE ApplyReadLines(r)
    <2> DEFINE d == [c EXCEPT !.pc = "applyInsert", !.lines = purchase[c.purchase].lines]
    <2>1. purchase[c.purchase].lines \in SUBSET PurchaseLine
      BY <1>1 DEF PurchaseTablesOK, PurchaseShape
    <2>2. PurchaseCallOK(d)
      BY <1>1, <2>1 DEF PurchaseCallOK, PurchaseCall
    <2>3. purchaseCall' = [purchaseCall EXCEPT ![r] = d]
      BY <1>4 DEF ApplyReadLines, Subject, PurchaseCallOK, PurchaseCall
    <2> HIDE DEF d
    <2> QED
      BY <1>4, <2>2, <2>3, PurchaseMoveStep DEF ApplyReadLines
  <1>5. CASE ApplyInsert(r)
    <2>1. CASE EndPurchaseCall(r)
      BY <1>5, <2>1, PurchaseRejectStep DEF ApplyInsert, RejectPurchase
    <2> QED
      BY <1>2, <1>5, <2>1 DEF ApplyInsert
  <1> QED
    BY <1>3, <1>4, <1>5

(* Entering the lines into stock and committing.                           *)
LEMMA ApplyStep ==
    ASSUME PurchasesInv, NEW r \in PurchaseRequests,
           ApplyFind(r) \/ ApplyPlaceholder(r) \/ ApplyWrite(r) \/ ApplyCommit(r)
    PROVE  PurchasesInv'
  <1> DEFINE c == purchaseCall[r]
  <1> USE PurchaseFacts
  <1>1. c.purchase \in Purchases
    BY DEF ApplyFind, ApplyPlaceholder, ApplyWrite, ApplyCommit, PurchaseAt, PurchaseCallOK
  <1>2. ASSUME Rollback(r), EndPurchaseCall(r), UNCHANGED <<purchase, applied>> PROVE PurchasesInv'
    BY <1>2, PurchaseRollbackStep
  <1>3. \A line \in c.lines \cup c.line : line \in PurchaseLine /\ line.qty \in 1..MaxQty
    BY DEF PurchaseCallOK, PurchaseCall, PurchaseLine
  <1>4. CASE ApplyFind(r)
    <2>1. PICK line \in c.lines : \E x \in SameSku(r, line) :
             IF View(r)[x].qty + line.qty > MaxQty
             THEN Rollback(r) /\ EndPurchaseCall(r)
             ELSE /\ purchaseCall' = [purchaseCall EXCEPT ![r].pc = "applyWrite", ![r].line = {line},
                                                          ![r].row = x, ![r].before = View(r)[x].qty]
                  /\ UNCHANGED <<stock, ledger, tx>>
      BY <1>4 DEF ApplyFind, Overflows
    <2>2. PICK x \in SameSku(r, line) :
             \/ Rollback(r) /\ EndPurchaseCall(r)
             \/ /\ ~(View(r)[x].qty + line.qty > MaxQty)
                /\ purchaseCall' = [purchaseCall EXCEPT ![r].pc = "applyWrite", ![r].line = {line},
                                                        ![r].row = x, ![r].before = View(r)[x].qty]
                /\ UNCHANGED <<stock, ledger, tx>>
      BY <2>1
    <2>3. UNCHANGED <<purchase, applied>>
      BY <1>4 DEF ApplyFind
    <2>4. CASE ~(Rollback(r) /\ EndPurchaseCall(r))
      <3> DEFINE before == View(r)[x].qty
                 d == [c EXCEPT !.pc = "applyWrite", !.line = {line}, !.row = x, !.before = before]
      <3>1. x \in Rows
        BY DEF SameSku
      <3>2. before \in 0..MaxQty /\ line \in PurchaseLine /\ line.qty \in 1..MaxQty
        BY <1>3, <3>1 DEF StockItem
      <3>3. ~(before + line.qty > MaxQty)
        BY <2>2, <2>4
      <3>4. purchaseCall' = [purchaseCall EXCEPT ![r] = d] /\ KeepTables
        BY <2>2, <2>3, <2>4 DEF PurchaseCallOK, PurchaseCall, KeepTables
      <3> HIDE DEF before
      <3>5. before + line.qty <= MaxQty
        BY <3>2, <3>3, RowsAssumption
      <3>6. PurchaseCallOK(d)
        BY <1>1, <3>1, <3>2, <3>5 DEF PurchaseCallOK, PurchaseCall
      <3> HIDE DEF d
      <3> QED
        BY <3>4, <3>6, PurchaseMoveStep
    <2> QED
      BY <1>2, <2>3, <2>4
  <1>5. CASE ApplyPlaceholder(r)
    <2>1. UNCHANGED <<purchase, applied>>
      BY <1>5 DEF ApplyPlaceholder
    <2>2. ASSUME NEW line \in c.lines, NEW x \in Rows, LegacyItem \in Items,
                 WriteRow(r, x, [Missing EXCEPT !.state = "active", !.item = LegacyItem,
                                                !.sku = line.sku, !.qty = line.qty],
                          Movement("IN", 0, line.qty, Subject(r))),
                 purchaseCall' = [purchaseCall EXCEPT ![r].lines = @ \ {line}]
          PROVE  PurchasesInv'
      <3> DEFINE d == [c EXCEPT !.lines = @ \ {line}]
                 v == [Missing EXCEPT !.state = "active", !.item = LegacyItem, !.sku = line.sku, !.qty = line.qty]
                 m == Movement("IN", 0, line.qty, Subject(r))
      <3>1. line.sku \in Skus \cup {NoSku} /\ line.qty \in 0..MaxQty /\ 0 \in 0..MaxQty
        BY <1>3, RowsAssumption DEF PurchaseLine
      <3>2. v \in StockItem /\ v.qty = line.qty
        BY <2>2, <3>1 DEF Missing, StockItem, StockStatus
      <3>3. m \in StockMovement /\ m.after = line.qty
        BY <1>1, <3>1 DEF Movement, StockMovement, Documents, Subject
      <3>4. PurchaseCallOK(d)
        BY <1>1, <1>5 DEF PurchaseCallOK, PurchaseCall, ApplyPlaceholder, PurchaseAt
      <3>5. purchaseCall' = [purchaseCall EXCEPT ![r] = d]
        BY <2>2 DEF PurchaseCallOK, PurchaseCall
      <3> HIDE DEF d, v, m
      <3>6. DbInv'
        BY <2>2, <3>2, <3>3, WriteRowInv DEF v, m
      <3>7. PurchaseTablesOK'
        BY <2>1, PurchaseTablesKept
      <3> QED
        BY <3>4, <3>5, <3>6, <3>7, PurchaseCallStep
    <2> QED
      BY <1>2, <1>5, <2>1, <2>2 DEF ApplyPlaceholder
  <1>6. CASE ApplyWrite(r)
    <2>1. PICK line \in c.line :
             WriteRow(r, c.row, [View(r)[c.row] EXCEPT !.qty = c.before + line.qty],
                      Movement("IN", c.before, c.before + line.qty, Subject(r)))
      BY <1>6 DEF ApplyWrite
    <2> DEFINE after == c.before + line.qty
               v == [View(r)[c.row] EXCEPT !.qty = after]
               m == Movement("IN", c.before, after, Subject(r))
               d == [c EXCEPT !.pc = "applyFind", !.lines = @ \ c.line,
                              !.line = {}, !.row = NoRow, !.before = 0]
    <2>2. c.row \in Rows /\ after <= MaxQty
      BY <1>6 DEF ApplyWrite, PurchaseAt, PurchaseCallOK
    <2>3. c.before \in 0..MaxQty /\ line.qty \in 1..MaxQty
      BY <1>3 DEF PurchaseCallOK, PurchaseCall
    <2>4. after \in 0..MaxQty
      BY <2>2, <2>3, RowsAssumption
    <2>5. View(r)[c.row] \in StockItem
      BY <2>2
    <2>6. PurchaseCallOK(d)
      <3>1. c \in PurchaseCall
        BY DEF PurchaseCallOK
      <3>2. /\ c.lines \ c.line \in SUBSET PurchaseLine /\ {} \in SUBSET PurchaseLine
            /\ 0 \in 0..MaxQty /\ NoRow \in Rows \cup {NoRow}
        BY <3>1, RowsAssumption DEF PurchaseCall
      <3>3. d \in PurchaseCall
        BY <3>1, <3>2 DEF PurchaseCall
      <3>4. d.pc = "applyFind" /\ d.purchase = c.purchase
        BY <3>1 DEF PurchaseCall
      <3> HIDE DEF d
      <3> QED
        BY <1>1, <3>3, <3>4 DEF PurchaseCallOK
    <2>7. purchaseCall' = [purchaseCall EXCEPT ![r] = d]
      BY <1>6 DEF ApplyWrite, PurchaseCallOK, PurchaseCall
    <2>8. PurchaseTablesOK'
      BY <1>6, PurchaseTablesKept DEF ApplyWrite
    <2>9. WriteRow(r, c.row, v, m)
      BY <2>1
    <2> HIDE DEF after, d
    <2>10. v \in StockItem /\ v.qty = after
      BY <2>4, <2>5 DEF StockItem
    <2>11. m \in StockMovement /\ m.after = after
      BY <1>1, <2>3, <2>4 DEF Movement, StockMovement, Documents, Subject
    <2> HIDE DEF v, m
    <2>12. DbInv'
      BY <2>2, <2>9, <2>10, <2>11, WriteRowInv
    <2> QED
      BY <2>6, <2>7, <2>8, <2>12, PurchaseCallStep
  <1>7. CASE ApplyCommit(r)
    <2> DEFINE d == [c EXCEPT !.pc = "status"]
    <2>1. PurchaseCallOK(d)
      BY <1>1 DEF PurchaseCallOK, PurchaseCall
    <2>2. purchaseCall' = [purchaseCall EXCEPT ![r] = d]
      BY <1>7 DEF ApplyCommit, PurchaseCallOK, PurchaseCall
    <2>3. DbInv'
      BY <1>7, CommitInv DEF ApplyCommit
    <2>4. PurchaseTablesOK'
      BY <1>1, <1>7 DEF ApplyCommit, Subject, PurchaseTablesOK
    <2> HIDE DEF d
    <2> QED
      BY <2>1, <2>2, <2>3, <2>4, PurchaseCallStep
  <1> QED
    BY <1>4, <1>5, <1>6, <1>7

(* The invariant of the purchase handlers is inductive.                    *)
LEMMA PurchasesInvInit == DbInit /\ PurchasesInit => PurchasesInv
  <1>1. NewPurchaseCall \in PurchaseCall /\ NewPurchaseCall.pc = "new"
    BY RowsAssumption DEF NewPurchaseCall, PurchaseCall, PurchaseStatus
  <1>2. \A p \in Purchases : PurchaseShape(SeedPurchases[p])
    BY PurchaseInputs DEF Purchase, PurchaseShape
  <1> QED
    BY <1>1, <1>2, DbInitInv, PurchaseInputs DEF PurchasesInit, PurchasesInv

(* Every step of a purchase handler preserves its invariant.               *)
LEMMA PurchasesInvStep ==
    ASSUME PurchasesInv, NEW r \in PurchaseRequests, PurchaseStep(r)
    PROVE  PurchasesInv'
  <1>1. CASE AbandonPurchaseCall(r)
    BY <1>1, PurchaseRollbackStep DEF AbandonPurchaseCall
  <1> QED
    BY <1>1, EditStep, TransitionStep, ApplyStartStep, ApplyStep DEF PurchaseStep, ContinuePurchase
-----------------------------------------------------------------------------
(* The receipt of a purchase: which movements bring in its goods, and when *)
(* its status may say so.                                                  *)

(* A handler, known by its local variables, with an open receipt of p.     *)
Applies(c, p) == c.pc \in {"applyFind", "applyWrite"} /\ c.purchase = p

ReceiptTables ==
    \A p \in Purchases :
        /\ purchase[p].status = "RECEIVED" => p \in applied
        /\ purchase[p].status # "NONE" => purchase[p].lines # {}
        /\ p \in applied => \E x \in Rows : Received(p, x) # {}

(* What a step of r must leave behind for ReceiptInv to hold.              *)
LEMMA ReceiptKept ==
    ASSUME PurchasesInv, ReceiptInv, NEW r \in PurchaseRequests, NEW d,
           purchaseCall' = [purchaseCall EXCEPT ![r] = d], ReceiptTables',
           \A p \in Purchases : purchase[p].lines # {} => purchase'[p].lines # {},
           applied \subseteq applied',
           \A q \in PurchaseRequests \ {r}, p \in Purchases : Applying(q, p) => p \notin applied',
           \A q \in Requests \ {r}, p \in Purchases : GoodsPending(q, p)' <=> GoodsPending(q, p),
           \A p \in Purchases : GoodsPending(r, p)' => Applies(d, p),
           \A p \in Purchases : Applies(d, p) =>
              /\ p \notin applied' /\ \A q \in PurchaseRequests \ {r} : ~Applying(q, p)
              /\ d.lines # {} \/ GoodsPending(r, p)',
           d.pc \notin {"new", "done"} => purchase'[d.purchase].lines # {},
           d.pc \in {"edit", "editCommit", "applyInsert"} => d.lines # {},
           d.pc = "status" /\ d.target = "RECEIVED" => d.purchase \in applied'
    PROVE  ReceiptInv'
  <1> USE PurchaseFacts
  <1>1. \A q \in PurchaseRequests : purchaseCall'[q] = (IF q = r THEN d ELSE purchaseCall[q])
    OBVIOUS
  <1>2. \A q \in PurchaseRequests : \A p : Applying(q, p)' <=> (IF q = r THEN Applies(d, p) ELSE Applying(q, p))
    BY <1>1 DEF Applying, Applies, Subject
  <1>3. \A p \in Purchases :
           /\ (purchase[p].status = "RECEIVED" => p \in applied)'
           /\ (purchase[p].status # "NONE" => purchase[p].lines # {})'
           /\ (p \in applied => \E x \in Rows : Received(p, x) # {})'
    BY DEF ReceiptTables
  <1>4. ASSUME NEW q \in Requests, NEW p \in Purchases, GoodsPending(q, p)'
        PROVE  q \in PurchaseRequests /\ Applying(q, p)'
    BY <1>2, <1>4 DEF ReceiptInv
  <1>5. ASSUME NEW q \in PurchaseRequests, NEW p \in Purchases, Applying(q, p)'
        PROVE  /\ p \notin applied'
               /\ \A o \in PurchaseRequests \ {q} : ~Applying(o, p)'
               /\ purchaseCall'[q].lines # {} \/ GoodsPending(q, p)'
    <2>1. q \in Requests
      BY PurchaseInputs
    <2>2. CASE q = r
      BY <1>1, <1>2, <1>5, <2>2
    <2>3. CASE q # r
      <3>1. Applying(q, p) /\ purchaseCall'[q] = purchaseCall[q]
        BY <1>1, <1>2, <1>5, <2>3
      <3>2. ~Applies(d, p) /\ p \notin applied'
        BY <2>3, <3>1
      <3>3. purchaseCall[q].lines # {} \/ GoodsPending(q, p)
        BY <3>1 DEF ReceiptInv
      <3>4. \A o \in PurchaseRequests \ {q} : ~Applying(o, p)
        BY <3>1 DEF ReceiptInv
      <3> QED
        BY <1>2, <2>1, <2>3, <3>1, <3>2, <3>3, <3>4
    <2> QED
      BY <2>2, <2>3
  <1>6. ASSUME NEW q \in PurchaseRequests
        PROVE  /\ purchaseCall'[q].pc \notin {"new", "done"} => purchase'[purchaseCall'[q].purchase].lines # {}
               /\ purchaseCall'[q].pc \in {"edit", "editCommit", "applyInsert"} => purchaseCall'[q].lines # {}
               /\ purchaseCall'[q].pc = "status" /\ purchaseCall'[q].target = "RECEIVED" =>
                     purchaseCall'[q].purchase \in applied'
    <2>1. CASE q = r
      BY <1>1, <2>1
    <2>2. CASE q # r
      <3>1. purchaseCall'[q] = purchaseCall[q]
        BY <1>1, <2>2
      <3>2. purchaseCall[q].pc \notin {"new", "done"} => purchaseCall[q].purchase \in Purchases
        BY DEF PurchasesInv
      <3>3. /\ purchaseCall[q].pc \notin {"new", "done"} => purchase[purchaseCall[q].purchase].lines # {}
            /\ purchaseCall[q].pc \in {"edit", "editCommit", "applyInsert"} => purchaseCall[q].lines # {}
            /\ purchaseCall[q].pc = "status" /\ purchaseCall[q].target = "RECEIVED" => purchaseCall[q].purchase \in applied
        BY DEF ReceiptInv, Subject, PurchaseAt
      <3> QED
        BY <3>1, <3>2, <3>3
    <2> QED
      BY <2>1, <2>2
  <1> QED
    BY <1>3, <1>4, <1>5, <1>6 DEF ReceiptInv, Subject, PurchaseAt

(* A step outside a receipt, before one or without one.                    *)
LEMMA ReceiptIdle ==
    ASSUME PurchasesInv, ReceiptInv, NEW r \in PurchaseRequests, NEW d,
           purchaseCall' = [purchaseCall EXCEPT ![r] = d], UNCHANGED <<ledger, tx, applied>>,
           purchaseCall[r].pc \notin {"applyFind", "applyWrite"}, d.pc \notin {"applyFind", "applyWrite"},
           \A p \in Purchases : /\ purchase[p].lines # {} => purchase'[p].lines # {}
                                /\ purchase'[p].status = "RECEIVED" => p \in applied
                                /\ purchase'[p].status # "NONE" => purchase'[p].lines # {},
           d.pc \notin {"new", "done"} => purchase'[d.purchase].lines # {},
           d.pc \in {"edit", "editCommit", "applyInsert"} => d.lines # {},
           d.pc = "status" /\ d.target = "RECEIVED" => d.purchase \in applied
    PROVE  ReceiptInv'
  <1>1. \A q \in Requests : \A p : GoodsPending(q, p)' <=> GoodsPending(q, p)
    BY DEF GoodsPending
  <1>2. \A p \in Purchases : ~Applies(d, p) /\ ~GoodsPending(r, p)
    BY PurchaseFacts DEF Applies, Applying, ReceiptInv
  <1>3. ReceiptTables'
    BY DEF ReceiptTables, ReceiptInv, Received
  <1>4. \A q \in PurchaseRequests, p \in Purchases : Applying(q, p) => p \notin applied
    BY DEF ReceiptInv
  <1> QED
    BY <1>1, <1>2, <1>3, <1>4, ReceiptKept, PurchaseFacts

(* A handler that leaves the purchases alone, and what it must know.       *)
LEMMA ReceiptMove ==
    ASSUME PurchasesInv, ReceiptInv, NEW r \in PurchaseRequests, NEW d,
           purchaseCall' = [purchaseCall EXCEPT ![r] = d], KeepTables,
           purchaseCall[r].pc \notin {"applyFind", "applyWrite"}, d.pc \notin {"applyFind", "applyWrite"},
           d.pc \notin {"new", "done"} => purchase[d.purchase].lines # {},
           d.pc \in {"edit", "editCommit", "applyInsert"} => d.lines # {},
           d.pc = "status" /\ d.target = "RECEIVED" => d.purchase \in applied
    PROVE  ReceiptInv'
  <1>1. \A p \in Purchases : /\ purchase[p].status = "RECEIVED" => p \in applied
                             /\ purchase[p].status # "NONE" => purchase[p].lines # {}
    BY DEF ReceiptInv
  <1> QED
    BY <1>1, ReceiptIdle DEF KeepTables

(* A handler that ends before its transaction.                             *)
LEMMA ReceiptReject ==
    ASSUME PurchasesInv, ReceiptInv, NEW r \in PurchaseRequests, RejectPurchase(r),
           purchaseCall[r].pc \notin {"applyFind", "applyWrite"}
    PROVE  ReceiptInv'
  <1> DEFINE d == [NewPurchaseCall EXCEPT !.pc = "done"]
  <1>1. d.pc = "done"
    BY DEF NewPurchaseCall
  <1>2. purchaseCall' = [purchaseCall EXCEPT ![r] = d] /\ KeepTables
    BY DEF RejectPurchase, EndPurchaseCall
  <1> HIDE DEF d
  <1> QED
    BY <1>1, <1>2, ReceiptMove

(* A handler that ends with its transaction rolled back.                   *)
LEMMA ReceiptRollback ==
    ASSUME PurchasesInv, ReceiptInv, NEW r \in PurchaseRequests, Rollback(r), EndPurchaseCall(r),
           UNCHANGED <<purchase, applied>>
    PROVE  ReceiptInv'
  <1> DEFINE d == [NewPurchaseCall EXCEPT !.pc = "done"]
  <1>1. d.pc = "done" /\ \A p : ~Applies(d, p)
    BY DEF NewPurchaseCall, Applies
  <1>2. purchaseCall' = [purchaseCall EXCEPT ![r] = d]
    BY DEF EndPurchaseCall
  <1>3. UNCHANGED ledger /\ tx'[r] = NoTransaction /\ \A q \in Requests \ {r} : tx'[q] = tx[q]
    BY PurchaseFacts DEF Rollback, DbInv, DbTypeOK
  <1>4. /\ \A q \in Requests \ {r} : \A p : GoodsPending(q, p)' <=> GoodsPending(q, p)
        /\ \A p : ~GoodsPending(r, p)'
    BY <1>3 DEF GoodsPending, NoTransaction, Goods
  <1>5. ReceiptTables'
    BY <1>3 DEF ReceiptTables, ReceiptInv, Received
  <1>6. \A q \in PurchaseRequests, p \in Purchases : Applying(q, p) => p \notin applied
    BY DEF ReceiptInv
  <1> HIDE DEF d
  <1> QED
    BY <1>1, <1>2, <1>4, <1>5, <1>6, ReceiptKept

(* An order has lines.                                                     *)
LEMMA InsertedSome ==
    ASSUME NEW r, NEW order \in Orders
    PROVE  Inserted(r, order) # {}
  <1>1. order \in Seq(OrderLine) /\ order # <<>>
    BY PurchaseInputs
  <1>2. 1 \in DOMAIN order
    BY <1>1
  <1> QED
    BY <1>2 DEF Inserted
(* Creating and editing keep lines in every purchase.                      *)
LEMMA ReceiptEdit ==
    ASSUME PurchasesInv, ReceiptInv, NEW r \in PurchaseRequests,
           CreatePurchase(r) \/ EditRead(r) \/ EditDelete(r) \/ EditCommit(r)
    PROVE  ReceiptInv'
  <1> DEFINE c == purchaseCall[r]
             done == [NewPurchaseCall EXCEPT !.pc = "done"]
  <1> USE PurchaseFacts
  <1>1. c.pc \notin {"applyFind", "applyWrite"}
    BY DEF CreatePurchase, EditRead, EditDelete, EditCommit, PurchaseAt
  <1>2. done.pc = "done"
    BY DEF NewPurchaseCall
  <1>3. \A p \in Purchases : /\ purchase[p].status = "RECEIVED" => p \in applied
                             /\ purchase[p].status # "NONE" => purchase[p].lines # {}
    BY DEF ReceiptInv
  <1> HIDE DEF done
  <1>4. CASE CreatePurchase(r)
    <2>1. PICK p \in Purchases, order \in Orders :
             /\ purchase' = [purchase EXCEPT ![p] = [NoPurchase EXCEPT !.status = "DRAFT",
                                                                       !.lines = Inserted(r, order),
                                                                       !.total = Total(Inserted(r, order))]]
             /\ EndPurchaseCall(r)
      BY <1>4 DEF CreatePurchase
    <2> DEFINE lines == Inserted(r, order)
               total == Total(lines)
               new == [NoPurchase EXCEPT !.status = "DRAFT", !.lines = lines, !.total = total]
    <2>2. lines # {}
      BY InsertedSome
    <2>3. new.status = "DRAFT" /\ new.lines # {}
      <3> HIDE DEF lines, total
      <3> QED
        BY <2>2 DEF NoPurchase
    <2>4. purchase' = [purchase EXCEPT ![p] = new] /\ DOMAIN purchase = Purchases
      BY <2>1 DEF PurchaseTablesOK
    <2> HIDE DEF new
    <2>5. \A o \in Purchases : purchase'[o] = (IF o = p THEN new ELSE purchase[o])
      BY <2>4
    <2>6. \A o \in Purchases : /\ purchase[o].lines # {} => purchase'[o].lines # {}
                               /\ purchase'[o].status = "RECEIVED" => o \in applied
                               /\ purchase'[o].status # "NONE" => purchase'[o].lines # {}
      BY <1>3, <2>3, <2>5
    <2>7. purchaseCall' = [purchaseCall EXCEPT ![r] = done] /\ UNCHANGED <<ledger, tx, applied>>
      BY <1>4, <2>1 DEF CreatePurchase, EndPurchaseCall, done
    <2> QED
      BY <1>1, <1>2, <2>6, <2>7, ReceiptIdle
  <1>5. CASE EditRead(r)
    <2>1. PICK p \in Purchases, order \in Orders :
             \/ RejectPurchase(r)
             \/ /\ purchase[p].status = "DRAFT"
                /\ purchaseCall' = [purchaseCall EXCEPT ![r].pc = "edit", ![r].purchase = p,
                                                        ![r].lines = Inserted(r, order)]
                /\ KeepTables
      BY <1>5 DEF EditRead
    <2>2. CASE ~RejectPurchase(r)
      <3> DEFINE lines == Inserted(r, order)
                 d == [c EXCEPT !.pc = "edit", !.purchase = p, !.lines = lines]
      <3>1. lines # {}
        BY InsertedSome
      <3>2. purchaseCall' = [purchaseCall EXCEPT ![r] = d] /\ KeepTables
        BY <2>1, <2>2 DEF PurchaseCallOK, PurchaseCall
      <3>3. purchase[p].lines # {}
        BY <1>3, <2>1, <2>2
      <3> HIDE DEF lines
      <3>4. d.pc = "edit" /\ d.purchase = p /\ d.lines = lines
        BY DEF PurchaseCallOK, PurchaseCall
      <3> HIDE DEF d
      <3> QED
        BY <1>1, <3>1, <3>2, <3>3, <3>4, ReceiptMove
    <2> QED
      BY <1>1, <2>1, <2>2, ReceiptReject
  <1>6. c.pc \notin {"new", "done"} => purchase[c.purchase].lines # {} /\ c.purchase \in Purchases
    BY DEF ReceiptInv, Subject, PurchaseCallOK
  <1>7. c.pc \in {"edit", "editCommit"} => c.lines # {}
    BY DEF ReceiptInv
  <1>8. CASE EditDelete(r)
    <2> DEFINE removed == purchase[c.purchase].lines
               d == [c EXCEPT !.pc = "editCommit", !.removed = removed]
    <2>1. c.pc = "edit" /\ KeepTables
      BY <1>8 DEF EditDelete, PurchaseAt
    <2>2. purchaseCall' = [purchaseCall EXCEPT ![r] = d]
      BY <1>8 DEF EditDelete, Subject, PurchaseCallOK, PurchaseCall
    <2> HIDE DEF removed
    <2>3. d.pc = "editCommit" /\ d.purchase = c.purchase /\ d.lines = c.lines
      BY DEF PurchaseCallOK, PurchaseCall
    <2> HIDE DEF d
    <2> QED
      BY <1>1, <1>6, <1>7, <2>1, <2>2, <2>3, ReceiptMove
  <1>9. CASE EditCommit(r)
    <2> DEFINE p == c.purchase
               old == purchase[p]
               lines == (old.lines \ c.removed) \cup c.lines
               total == Total(c.lines)
               new == [old EXCEPT !.lines = lines, !.total = total]
    <2>1. p \in Purchases /\ lines # {}
      BY <1>6, <1>7, <1>9 DEF EditCommit, PurchaseAt
    <2>2. purchase' = [purchase EXCEPT ![p] = new] /\ DOMAIN purchase = Purchases
      BY <1>9, <2>1 DEF EditCommit, Survivors, Subject, PurchaseTablesOK
    <2>3. PurchaseShape(old)
      BY <2>1 DEF PurchaseTablesOK
    <2>4. new.status = old.status /\ new.lines = lines
      <3> HIDE DEF old, lines, total
      <3> QED
        BY <2>3 DEF PurchaseShape
    <2> HIDE DEF new, lines
    <2>5. \A o \in Purchases : purchase'[o] = (IF o = p THEN new ELSE purchase[o])
      BY <2>2
    <2>6. \A o \in Purchases : /\ purchase[o].lines # {} => purchase'[o].lines # {}
                               /\ purchase'[o].status = "RECEIVED" => o \in applied
                               /\ purchase'[o].status # "NONE" => purchase'[o].lines # {}
      BY <1>3, <2>1, <2>4, <2>5
    <2>7. purchaseCall' = [purchaseCall EXCEPT ![r] = done] /\ UNCHANGED <<ledger, tx, applied>>
      BY <1>9 DEF EditCommit, EndPurchaseCall, done
    <2> QED
      BY <1>1, <1>2, <2>6, <2>7, ReceiptIdle
  <1> QED
    BY <1>4, <1>5, <1>8, <1>9

(* RECEIVED is written by a handler that has seen the application row.     *)
LEMMA ReceiptTransition ==
    ASSUME PurchasesInv, ReceiptInv, NEW r \in PurchaseRequests, TransitionRead(r) \/ StatusWrite(r)
    PROVE  ReceiptInv'
  <1> DEFINE c == purchaseCall[r]
             done == [NewPurchaseCall EXCEPT !.pc = "done"]
  <1> USE PurchaseFacts
  <1>1. c.pc \notin {"applyFind", "applyWrite"}
    BY DEF TransitionRead, StatusWrite, PurchaseAt
  <1>2. \A p \in Purchases : /\ purchase[p].status = "RECEIVED" => p \in applied
                             /\ purchase[p].status # "NONE" => purchase[p].lines # {}
    BY DEF ReceiptInv
  <1>3. CASE TransitionRead(r)
    <2>1. PICK p \in Purchases, target \in PurchaseStatus :
             \/ RejectPurchase(r)
             \/ /\ purchase[p].status # "NONE"
                /\ purchaseCall' = [purchaseCall EXCEPT
                                       ![r].pc = IF target = "RECEIVED" THEN "applyCheck" ELSE "status",
                                       ![r].purchase = p, ![r].target = target]
                /\ KeepTables
      BY <1>3 DEF TransitionRead
    <2>2. CASE ~RejectPurchase(r)
      <3> DEFINE pc == IF target = "RECEIVED" THEN "applyCheck" ELSE "status"
                 d == [c EXCEPT !.pc = pc, !.purchase = p, !.target = target]
      <3>1. purchaseCall' = [purchaseCall EXCEPT ![r] = d] /\ KeepTables
        BY <2>1, <2>2 DEF PurchaseCallOK, PurchaseCall
      <3>2. d.pc \in {"applyCheck", "status"} /\ d.purchase = p /\ d.target = target
        BY DEF PurchaseCallOK, PurchaseCall
      <3>3. ~(d.pc = "status" /\ d.target = "RECEIVED")
        BY DEF PurchaseCallOK, PurchaseCall
      <3>4. purchase[p].lines # {}
        BY <1>2, <2>1, <2>2
      <3> HIDE DEF d
      <3> QED
        BY <1>1, <3>1, <3>2, <3>3, <3>4, ReceiptMove
    <2> QED
      BY <1>1, <2>1, <2>2, ReceiptReject
  <1>4. CASE StatusWrite(r)
    <2> DEFINE p == c.purchase
               old == purchase[p]
               stamps == old.stamps \cup ({c.target} \ {"DRAFT"})
               new == [old EXCEPT !.status = c.target, !.stamps = stamps]
    <2>1. c.pc = "status" /\ p \in Purchases
      BY <1>4 DEF StatusWrite, PurchaseAt, PurchaseCallOK
    <2>2. old.lines # {} /\ (c.target = "RECEIVED" => p \in applied)
      BY <2>1 DEF ReceiptInv, Subject, PurchaseAt
    <2>3. purchase' = [purchase EXCEPT ![p] = new] /\ DOMAIN purchase = Purchases
      BY <1>4, <2>1 DEF StatusWrite, Subject, PurchaseTablesOK
    <2>4. PurchaseShape(old)
      BY <2>1 DEF PurchaseTablesOK
    <2>5. new.status = c.target /\ new.lines = old.lines
      <3> HIDE DEF old, stamps
      <3> QED
        BY <2>4 DEF PurchaseShape
    <2> HIDE DEF new
    <2>6. \A o \in Purchases : purchase'[o] = (IF o = p THEN new ELSE purchase[o])
      BY <2>3
    <2>7. \A o \in Purchases : /\ purchase[o].lines # {} => purchase'[o].lines # {}
                               /\ purchase'[o].status = "RECEIVED" => o \in applied
                               /\ purchase'[o].status # "NONE" => purchase'[o].lines # {}
      BY <1>2, <2>1, <2>2, <2>5, <2>6
    <2>8. purchaseCall' = [purchaseCall EXCEPT ![r] = done] /\ UNCHANGED <<ledger, tx, applied>> /\ done.pc = "done"
      BY <1>4 DEF StatusWrite, EndPurchaseCall, NewPurchaseCall
    <2> HIDE DEF done
    <2> QED
      BY <1>1, <2>7, <2>8, ReceiptIdle
  <1> QED
    BY <1>3, <1>4
(* The receipt opens with an INSERT that waits for any other one of the    *)
(* same purchase, and fails after it.                                      *)
LEMMA ReceiptStart ==
    ASSUME PurchasesInv, ReceiptInv, NEW r \in PurchaseRequests, ApplyCheck(r) \/ ApplyReadLines(r) \/ ApplyInsert(r)
    PROVE  ReceiptInv'
  <1> DEFINE c == purchaseCall[r]
             p == c.purchase
  <1> USE PurchaseFacts
  <1>1. c.pc \in {"applyCheck", "applyRead", "applyInsert"} /\ KeepTables
    BY DEF ApplyCheck, ApplyReadLines, ApplyInsert, PurchaseAt
  <1>2. p \in Purchases /\ purchase[p].lines # {}
    BY <1>1 DEF PurchaseCallOK, ReceiptInv, Subject
  <1>3. CASE ApplyCheck(r)
    <2> DEFINE pc == IF p \in applied THEN "status" ELSE "applyRead"
               d == [c EXCEPT !.pc = pc]
    <2>1. purchaseCall' = [purchaseCall EXCEPT ![r] = d]
      BY <1>3 DEF ApplyCheck, Subject, PurchaseCallOK, PurchaseCall
    <2>2. /\ d.pc \in {"status", "applyRead"} /\ d.purchase = p
          /\ d.pc = "status" => p \in applied
      BY DEF PurchaseCallOK, PurchaseCall
    <2> HIDE DEF d
    <2> QED
      BY <1>1, <1>2, <2>1, <2>2, ReceiptMove
  <1>4. CASE ApplyReadLines(r)
    <2> DEFINE lines == purchase[p].lines
               d == [c EXCEPT !.pc = "applyInsert", !.lines = lines]
    <2>1. purchaseCall' = [purchaseCall EXCEPT ![r] = d]
      BY <1>4 DEF ApplyReadLines, Subject, PurchaseCallOK, PurchaseCall
    <2> HIDE DEF lines
    <2>2. d.pc = "applyInsert" /\ d.purchase = p /\ d.lines = lines
      BY DEF PurchaseCallOK, PurchaseCall
    <2> HIDE DEF d
    <2> QED
      BY <1>1, <1>2, <2>1, <2>2, ReceiptMove DEF lines
  <1>5. CASE ApplyInsert(r)
    <2>1. CASE EndPurchaseCall(r)
      BY <1>1, <2>1, ReceiptReject DEF RejectPurchase
    <2>2. CASE ~EndPurchaseCall(r)
      <3> DEFINE d == [c EXCEPT !.pc = "applyFind"]
      <3>1. purchaseCall' = [purchaseCall EXCEPT ![r] = d]
        BY <1>5, <2>2 DEF ApplyInsert, PurchaseCallOK, PurchaseCall
      <3>2. d.pc = "applyFind" /\ d.purchase = p /\ d.lines = c.lines
        BY DEF PurchaseCallOK, PurchaseCall
      <3>3. p \notin applied /\ \A q \in PurchaseRequests \ {r} : ~Applying(q, p)
        BY <1>5, <2>2 DEF ApplyInsert, Duplicate, Subject
      <3>4. c.lines # {}
        BY <1>5 DEF ApplyInsert, ReceiptInv, PurchaseAt
      <3>5. UNCHANGED <<stock, ledger, tx, purchase, applied>>
        BY <1>1 DEF KeepTables
      <3>6. \A q \in Requests : \A o : GoodsPending(q, o)' <=> GoodsPending(q, o)
        BY <3>5 DEF GoodsPending
      <3>7. \A o \in Purchases : ~GoodsPending(r, o)
        BY <1>1 DEF ReceiptInv, Applying
      <3>8. ReceiptTables'
        BY <3>5 DEF ReceiptTables, ReceiptInv, Received
      <3>9. \A q \in PurchaseRequests, o \in Purchases : Applying(q, o) => o \notin applied
        BY DEF ReceiptInv
      <3>10. \A o : Applies(d, o) => o = p
        BY <3>2 DEF Applies
      <3> HIDE DEF d
      <3>11. \A o \in Purchases : Applies(d, o) =>
                /\ o \notin applied' /\ \A q \in PurchaseRequests \ {r} : ~Applying(q, o)
                /\ d.lines # {} \/ GoodsPending(r, o)'
        BY <3>2, <3>3, <3>4, <3>5, <3>10
      <3>12. \A q \in PurchaseRequests \ {r}, o \in Purchases : Applying(q, o) => o \notin applied'
        BY <3>5, <3>9
      <3>13. \A o \in Purchases : GoodsPending(r, o)' => Applies(d, o)
        BY <3>6, <3>7
      <3>14. /\ d.pc \notin {"new", "done"} => purchase'[d.purchase].lines # {}
             /\ d.pc \notin {"edit", "editCommit", "applyInsert", "status"}
        BY <1>2, <3>2, <3>5
      <3>15. /\ \A o \in Purchases : purchase[o].lines # {} => purchase'[o].lines # {}
             /\ applied \subseteq applied'
        BY <3>5
      <3>16. \A q \in Requests \ {r}, o \in Purchases : GoodsPending(q, o)' <=> GoodsPending(q, o)
        BY <3>6
      <3> QED
        BY <3>1, <3>8, <3>11, <3>12, <3>13, <3>14, <3>15, <3>16, ReceiptKept
    <2> QED
      BY <2>1, <2>2
  <1> QED
    BY <1>3, <1>4, <1>5

(* What a receipt under way knows of itself.                               *)
LEMMA ReceiptFacts ==
    ASSUME PurchasesInv, ReceiptInv, NEW r \in PurchaseRequests, purchaseCall[r].pc \in {"applyFind", "applyWrite"}
    PROVE  LET p == purchaseCall[r].purchase
           IN  /\ p \in Purchases /\ p \notin applied /\ purchase[p].lines # {}
               /\ \A q \in PurchaseRequests \ {r} : ~Applying(q, p)
               /\ purchaseCall[r].lines # {} \/ GoodsPending(r, p)
               /\ \A o \in Purchases : GoodsPending(r, o) => o = p
  <1> DEFINE p == purchaseCall[r].purchase
  <1>1. p \in Purchases /\ Applying(r, p)
    BY PurchaseFacts DEF PurchaseCallOK, Applying, Subject
  <1>2. purchase[p].lines # {}
    BY <1>1 DEF ReceiptInv, Subject
  <1>3. \A o \in Purchases : GoodsPending(r, o) => o = p
    BY PurchaseFacts DEF ReceiptInv, Applying, Subject
  <1> QED
    BY <1>1, <1>2, <1>3 DEF ReceiptInv

(* A statement of a receipt turns its call into d, leaves goods of its     *)
(* purchase pending, if any, and has worked through its lines only if      *)
(* there are some:                                                         *)
Statement(r, d) ==
    /\ purchaseCall[r].pc \in {"applyFind", "applyWrite"}
    /\ d.pc \in {"applyFind", "applyWrite"} /\ d.purchase = purchaseCall[r].purchase
    /\ purchaseCall' = [purchaseCall EXCEPT ![r] = d]
    /\ UNCHANGED <<ledger, purchase, applied>>
    /\ \A q \in Requests \ {r}, o \in Purchases : GoodsPending(q, o)' <=> GoodsPending(q, o)
    /\ \A o \in Purchases : GoodsPending(r, o)' => o = d.purchase
    /\ \A o \in Purchases : o = d.purchase => d.lines # {} \/ GoodsPending(r, o)'

(* it keeps the invariant.                                                 *)
LEMMA ReceiptStatement ==
    ASSUME PurchasesInv, ReceiptInv, NEW r \in PurchaseRequests, NEW d, Statement(r, d)
    PROVE  ReceiptInv'
  <1> DEFINE p == purchaseCall[r].purchase
  <1> USE PurchaseFacts DEF Statement
  <1>1. p \in Purchases /\ p \notin applied /\ purchase[p].lines # {}
    BY ReceiptFacts
  <1>2. \A q \in PurchaseRequests \ {r} : ~Applying(q, p)
    BY ReceiptFacts
  <1>3. \A o : Applies(d, o) <=> o = p
    BY DEF Applies
  <1>4. ReceiptTables'
    BY DEF ReceiptTables, ReceiptInv, Received
  <1>5. \A o \in Purchases : Applies(d, o) =>
            /\ o \notin applied' /\ \A q \in PurchaseRequests \ {r} : ~Applying(q, o)
            /\ d.lines # {} \/ GoodsPending(r, o)'
    BY <1>1, <1>2, <1>3
  <1>6. \A q \in PurchaseRequests \ {r}, o \in Purchases : Applying(q, o) => o \notin applied'
    BY DEF ReceiptInv
  <1>7. \A o \in Purchases : GoodsPending(r, o)' => Applies(d, o)
    BY <1>3
  <1>8. /\ d.pc \notin {"new", "done"} => purchase'[d.purchase].lines # {}
        /\ d.pc \notin {"edit", "editCommit", "applyInsert", "status"}
    BY <1>1
  <1>9. /\ \A o \in Purchases : purchase[o].lines # {} => purchase'[o].lines # {}
        /\ applied \subseteq applied'
    OBVIOUS
  <1> QED
    BY <1>4, <1>5, <1>6, <1>7, <1>8, <1>9, ReceiptKept

(* What WriteRow makes of the pending movements, when its own is for p.    *)
LEMMA WriteRowPending ==
    ASSUME DbTypeOK, NEW r \in Requests, NEW x \in Rows, NEW v, NEW m \in StockMovement, WriteRow(r, x, v, m)
    PROVE  /\ UNCHANGED ledger
           /\ \A q \in Requests \ {r} : \A o : GoodsPending(q, o)' <=> GoodsPending(q, o)
           /\ GoodsPending(r, m.doc)'
           /\ \A o : GoodsPending(r, o)' => GoodsPending(r, o) \/ o = m.doc
  <1> DEFINE old == tx[r].moves[x]
             new == tx'[r].moves[x]
  <1>1. /\ UNCHANGED ledger /\ old \in Seq(StockMovement) /\ new = Append(old, m)
        /\ \A y \in Rows \ {x} : tx'[r].moves[y] = tx[r].moves[y]
        /\ \A q \in Requests \ {r} : tx'[q].moves = tx[q].moves
    BY DEF WriteRow, DbTypeOK, Transaction
  <1>2. \A q \in Requests \ {r} : \A o : GoodsPending(q, o)' <=> GoodsPending(q, o)
    BY <1>1 DEF GoodsPending
  <1> HIDE DEF old, new
  <1>3. Len(old) + 1 \in DOMAIN new /\ new[Len(old) + 1] = m
    BY <1>1
  <1>4. Goods(new, m.doc) # {}
    BY <1>3 DEF Goods
  <1>5. \A i \in DOMAIN new : i = Len(old) + 1 \/ (i \in DOMAIN old /\ new[i] = old[i])
    BY <1>1
  <1>6. \A o : Goods(new, o) # {} => Goods(old, o) # {} \/ o = m.doc
    BY <1>3, <1>5 DEF Goods
  <1>7. GoodsPending(r, m.doc)'
    BY <1>4 DEF GoodsPending, new
  <1>8. ASSUME NEW o, GoodsPending(r, o)' PROVE GoodsPending(r, o) \/ o = m.doc
    <2>1. PICK y \in Rows : Goods(tx'[r].moves[y], o) # {}
      BY <1>8 DEF GoodsPending
    <2>2. CASE y = x
      BY <1>6, <2>1, <2>2 DEF GoodsPending, old, new
    <2>3. CASE y # x
      BY <1>1, <2>1, <2>3 DEF GoodsPending
    <2> QED
      BY <2>2, <2>3
  <1> QED
    BY <1>1, <1>2, <1>7, <1>8

(* Entering the lines one at a time.                                       *)
LEMMA ReceiptLines ==
    ASSUME PurchasesInv, ReceiptInv, NEW r \in PurchaseRequests, ApplyFind(r) \/ ApplyPlaceholder(r) \/ ApplyWrite(r)
    PROVE  ReceiptInv'
  <1> DEFINE c == purchaseCall[r]
             p == c.purchase
  <1> USE PurchaseFacts
  <1>1. c.pc \in {"applyFind", "applyWrite"} /\ p \in Purchases /\ DbTypeOK
    BY DEF ApplyFind, ApplyPlaceholder, ApplyWrite, PurchaseAt, PurchaseCallOK, DbInv
  <1>2. UNCHANGED <<purchase, applied>>
    BY DEF ApplyFind, ApplyPlaceholder, ApplyWrite
  <1>3. ASSUME Rollback(r), EndPurchaseCall(r) PROVE ReceiptInv'
    BY <1>2, <1>3, ReceiptRollback
  <1>4. \A line \in c.lines \cup c.line : line \in PurchaseLine /\ line.qty \in 1..MaxQty
    BY DEF PurchaseCallOK, PurchaseCall, PurchaseLine
  <1>5. /\ \A o \in Purchases : GoodsPending(r, o) => o = p
        /\ c.lines # {} \/ GoodsPending(r, p)
    BY <1>1, ReceiptFacts
  <1>6. CASE ApplyFind(r)
    <2>1. PICK line \in c.lines, x \in Rows :
             \/ Rollback(r) /\ EndPurchaseCall(r)
             \/ /\ purchaseCall' = [purchaseCall EXCEPT ![r].pc = "applyWrite", ![r].line = {line},
                                                        ![r].row = x, ![r].before = View(r)[x].qty]
                /\ UNCHANGED <<stock, ledger, tx>>
      BY <1>6 DEF ApplyFind, SameSku
    <2>2. CASE ~(Rollback(r) /\ EndPurchaseCall(r))
      <3> DEFINE before == View(r)[x].qty
      <3>1. PICK d : d = [c EXCEPT !.pc = "applyWrite", !.line = {line}, !.row = x, !.before = before]
        OBVIOUS
      <3>2. purchaseCall' = [purchaseCall EXCEPT ![r] = d] /\ UNCHANGED <<ledger, tx>>
        BY <2>1, <2>2, <3>1 DEF PurchaseCallOK, PurchaseCall
      <3> HIDE DEF before
      <3>3. d.pc = "applyWrite" /\ d.purchase = p /\ d.lines = c.lines
        BY <3>1 DEF PurchaseCallOK, PurchaseCall
      <3>4. \A q \in Requests, o \in Purchases : GoodsPending(q, o)' <=> GoodsPending(q, o)
        BY <3>2 DEF GoodsPending
      <3>5. \A o \in Purchases : GoodsPending(r, o)' => o = d.purchase
        BY <1>1, <1>5, <3>3, <3>4
      <3>6. \A o \in Purchases : o = d.purchase => d.lines # {} \/ GoodsPending(r, o)'
        BY <1>1, <1>5, <3>3, <3>4
      <3>7. Statement(r, d)
        BY <1>1, <1>2, <3>2, <3>3, <3>4, <3>5, <3>6 DEF Statement
      <3> QED
        BY <3>7, ReceiptStatement
    <2> QED
      BY <1>3, <2>1, <2>2
  <1>7. ASSUME NEW x \in Rows, NEW v, NEW m \in StockMovement, m.doc = p, WriteRow(r, x, v, m),
               NEW d, purchaseCall' = [purchaseCall EXCEPT ![r] = d], d.pc \in {"applyFind", "applyWrite"}, d.purchase = p
        PROVE  ReceiptInv'
    <2>1. /\ UNCHANGED ledger
          /\ \A q \in Requests \ {r}, o \in Purchases : GoodsPending(q, o)' <=> GoodsPending(q, o)
          /\ GoodsPending(r, m.doc)'
          /\ \A o : GoodsPending(r, o)' => GoodsPending(r, o) \/ o = m.doc
      BY <1>1, <1>7, WriteRowPending
    <2>2. \A o \in Purchases : GoodsPending(r, o)' => o = d.purchase
      BY <1>7, <1>5, <2>1
    <2>3. \A o \in Purchases : o = d.purchase => d.lines # {} \/ GoodsPending(r, o)'
      BY <1>7, <2>1
    <2>4. Statement(r, d)
      BY <1>1, <1>2, <1>7, <2>1, <2>2, <2>3 DEF Statement
    <2> QED
      BY <2>4, ReceiptStatement
  <1>8. CASE ApplyPlaceholder(r)
    <2>1. ASSUME NEW line \in c.lines, NEW x \in Rows, NEW v,
                 WriteRow(r, x, v, Movement("IN", 0, line.qty, Subject(r))),
                 purchaseCall' = [purchaseCall EXCEPT ![r].lines = @ \ {line}]
          PROVE  ReceiptInv'
      <3> DEFINE d == [c EXCEPT !.lines = @ \ {line}]
                 m == Movement("IN", 0, line.qty, p)
      <3>1. line.qty \in 0..MaxQty /\ 0 \in 0..MaxQty
        BY <1>4, RowsAssumption
      <3>2. m \in StockMovement /\ m.doc = p
        BY <1>1, <3>1 DEF Movement, StockMovement, Documents
      <3>3. purchaseCall' = [purchaseCall EXCEPT ![r] = d] /\ WriteRow(r, x, v, m)
        BY <2>1 DEF PurchaseCallOK, PurchaseCall, Subject
      <3>4. d.pc \in {"applyFind", "applyWrite"} /\ d.purchase = p
        BY <1>1 DEF PurchaseCallOK, PurchaseCall
      <3> HIDE DEF d, m
      <3> QED
        BY <1>7, <3>2, <3>3, <3>4
    <2> QED
      BY <1>3, <1>8, <2>1 DEF ApplyPlaceholder
  <1>9. CASE ApplyWrite(r)
    <2>1. PICK line \in c.line :
             WriteRow(r, c.row, [View(r)[c.row] EXCEPT !.qty = c.before + line.qty],
                      Movement("IN", c.before, c.before + line.qty, Subject(r)))
      BY <1>9 DEF ApplyWrite
    <2> DEFINE after == c.before + line.qty
               v == [View(r)[c.row] EXCEPT !.qty = after]
               m == Movement("IN", c.before, after, p)
               d == [c EXCEPT !.pc = "applyFind", !.lines = @ \ c.line,
                              !.line = {}, !.row = NoRow, !.before = 0]
    <2>2. c.row \in Rows /\ after <= MaxQty
      BY <1>9 DEF ApplyWrite, PurchaseAt, PurchaseCallOK
    <2>3. c.before \in 0..MaxQty /\ line.qty \in 1..MaxQty
      BY <1>4 DEF PurchaseCallOK, PurchaseCall
    <2>4. after \in 0..MaxQty
      BY <2>2, <2>3, RowsAssumption
    <2>5. WriteRow(r, c.row, v, m)
      BY <2>1 DEF Subject
    <2> HIDE DEF after
    <2>6. m \in StockMovement /\ m.doc = p
      BY <1>1, <2>3, <2>4 DEF Movement, StockMovement, Documents
    <2>7. purchaseCall' = [purchaseCall EXCEPT ![r] = d]
      BY <1>9 DEF ApplyWrite, PurchaseCallOK, PurchaseCall
    <2>8. d.pc = "applyFind" /\ d.purchase = p
      BY DEF PurchaseCallOK, PurchaseCall
    <2> HIDE DEF v, m, d
    <2> QED
      BY <1>7, <2>2, <2>5, <2>6, <2>7, <2>8
  <1> QED
    BY <1>6, <1>8, <1>9

(* What the commit of a receipt publishes: goods of its purchase, and no   *)
(* others.                                                                 *)
LEMMA ReceiptPublishes ==
    ASSUME PurchasesInv, ReceiptInv, NEW r \in PurchaseRequests, ApplyCommit(r)
    PROVE  LET p == purchaseCall[r].purchase
           IN  /\ \A o \in Purchases, x \in Rows : o # p => Received(o, x)' = Received(o, x)
               /\ \A o \in Purchases, x \in Rows : Received(o, x) # {} => Received(o, x)' # {}
               /\ \E x \in Rows : Goods(ledger'[x], p) # {}
  <1> DEFINE p == purchaseCall[r].purchase
  <1> USE PurchaseFacts
  <1>1. purchaseCall[r].pc = "applyFind" /\ purchaseCall[r].lines = {} /\ Commit(r, {})
    BY DEF ApplyCommit, PurchaseAt
  <1>2. /\ GoodsPending(r, p) /\ p \in Purchases
        /\ \A o \in Purchases : GoodsPending(r, o) => o = p
    BY <1>1, ReceiptFacts
  <1>3. ASSUME NEW x \in Rows, NEW o \in Purchases
        PROVE  /\ Goods(tx[r].moves[x], o) = {} => Received(o, x)' = Received(o, x)
               /\ Received(o, x) # {} => Received(o, x)' # {}
               /\ Goods(tx[r].moves[x], o) # {} => Received(o, x)' # {}
    <2>1. /\ ledger'[x] = ledger[x] \o tx[r].moves[x]
          /\ ledger[x] \in Seq(StockMovement) /\ tx[r].moves[x] \in Seq(StockMovement)
      BY <1>1 DEF Commit, DbInv, DbTypeOK, Transaction
    <2> DEFINE h == ledger[x]
               ms == tx[r].moves[x]
    <2>2. /\ Goods(ms, o) = {} => Goods(h \o ms, o) = Goods(h, o)
          /\ Goods(h, o) # {} => Goods(h \o ms, o) # {}
          /\ Goods(ms, o) # {} => Goods(h \o ms, o) # {}
      BY <2>1, GoodsConcat
    <2> QED
      BY <2>1, <2>2 DEF Received
  <1>4. PICK x \in Rows : Goods(tx[r].moves[x], p) # {}
    BY <1>2 DEF GoodsPending
  <1>5. \A o \in Purchases, y \in Rows : o # p => Goods(tx[r].moves[y], o) = {}
    BY <1>2 DEF GoodsPending
  <1>6. \A o \in Purchases, y \in Rows : o # p => Received(o, y)' = Received(o, y)
    BY <1>3, <1>5
  <1>7. \A o \in Purchases, y \in Rows : Received(o, y) # {} => Received(o, y)' # {}
    BY <1>3
  <1>8. Goods(ledger'[x], p) # {}
    BY <1>2, <1>3, <1>4 DEF Received
  <1> QED
    BY <1>6, <1>7, <1>8

(* With the goods, the commit publishes the application row.               *)
LEMMA ReceiptCommit ==
    ASSUME PurchasesInv, ReceiptInv, NEW r \in PurchaseRequests, ApplyCommit(r)
    PROVE  ReceiptInv'
  <1> DEFINE c == purchaseCall[r]
             p == c.purchase
             d == [c EXCEPT !.pc = "status"]
  <1> USE PurchaseFacts
  <1>1. /\ c.pc = "applyFind" /\ Commit(r, {}) /\ applied' = applied \cup {p} /\ UNCHANGED purchase
        /\ purchaseCall' = [purchaseCall EXCEPT ![r] = d]
    BY DEF ApplyCommit, PurchaseAt, Subject, PurchaseCallOK, PurchaseCall
  <1>2. /\ p \in Purchases /\ purchase[p].lines # {}
        /\ \A q \in PurchaseRequests \ {r} : ~Applying(q, p)
    BY <1>1, ReceiptFacts
  <1>3. d.pc = "status" /\ d.purchase = p /\ \A o : ~Applies(d, o)
    BY DEF PurchaseCallOK, PurchaseCall, Applies
  <1>4. tx'[r] = NoTransaction /\ \A q \in Requests \ {r} : tx'[q].moves = tx[q].moves
    BY <1>1, OutdateMoves DEF Commit, DbInv
  <1>5. /\ \A q \in Requests \ {r}, o \in Purchases : GoodsPending(q, o)' <=> GoodsPending(q, o)
        /\ \A o \in Purchases : ~GoodsPending(r, o)'
    BY <1>4 DEF GoodsPending, NoTransaction, Goods
  <1>6. ReceiptTables'
    <2>1. /\ \A o \in Purchases, x \in Rows : Received(o, x) # {} => Received(o, x)' # {}
          /\ \E x \in Rows : Goods(ledger'[x], p) # {}
      BY ReceiptPublishes
    <2>2. ASSUME NEW o \in Purchases
          PROVE  /\ purchase'[o].status = "RECEIVED" => o \in applied'
                 /\ purchase'[o].status # "NONE" => purchase'[o].lines # {}
                 /\ o \in applied' => \E x \in Rows : Received(o, x)' # {}
      BY <1>1, <2>1 DEF ReceiptInv, Received
    <2> QED
      BY <2>2 DEF ReceiptTables
  <1>7. \A q \in PurchaseRequests \ {r}, o \in Purchases : Applying(q, o) => o \notin applied'
    BY <1>1, <1>2 DEF ReceiptInv
  <1>8. /\ \A o \in Purchases : purchase[o].lines # {} => purchase'[o].lines # {}
        /\ applied \subseteq applied' /\ p \in applied' /\ purchase'[p].lines # {}
    BY <1>1, <1>2
  <1>9. purchaseCall' = [purchaseCall EXCEPT ![r] = d]
    BY <1>1
  <1> HIDE DEF d
  <1> QED
    BY <1>3, <1>5, <1>6, <1>7, <1>8, <1>9, ReceiptKept

(* The invariant of receipts holds at the start                            *)
LEMMA ReceiptInvInit == DbInit /\ PurchasesInit => ReceiptInv
  <1> SUFFICES ASSUME DbInit, PurchasesInit PROVE ReceiptInv
    OBVIOUS
  <1>1. \A r \in Requests, p \in Purchases : ~GoodsPending(r, p)
    BY DEF DbInit, NoTransaction, GoodsPending, Goods
  <1>2. \A r \in PurchaseRequests : purchaseCall[r].pc = "new"
    BY DEF PurchasesInit, NewPurchaseCall
  <1>3. \A p \in Purchases : /\ purchase[p].status # "RECEIVED" /\ p \notin applied
                             /\ purchase[p].status # "NONE" => purchase[p].lines # {}
    <2>1. purchase = SeedPurchases /\ applied = {}
      BY DEF PurchasesInit
    <2>2. \A p \in Purchases : SeedPurchases[p].status \in {"NONE", "DRAFT", "APPROVED"}
      BY PurchaseInputs, Zenon
    <2>3. \A p \in Purchases : SeedPurchases[p].status # "NONE" => SeedPurchases[p].lines # {}
      BY PurchaseInputs, Zenon
    <2> QED
      BY <2>1, <2>2, <2>3
  <1> QED
    BY <1>1, <1>2, <1>3 DEF ReceiptInv, Applying, PurchaseAt

(* and every step of a purchase handler keeps it.                          *)
LEMMA ReceiptInvStep ==
    ASSUME PurchasesInv, ReceiptInv, NEW r \in PurchaseRequests, PurchaseStep(r)
    PROVE  ReceiptInv'
  <1>1. CASE AbandonPurchaseCall(r)
    BY <1>1, ReceiptRollback DEF AbandonPurchaseCall
  <1> QED
    BY <1>1, ReceiptEdit, ReceiptTransition, ReceiptStart, ReceiptLines, ReceiptCommit DEF PurchaseStep, ContinuePurchase

(* Goods enter with the application row, and never again.                  *)
LEMMA AppliedStep ==
    ASSUME PurchasesInv, ReceiptInv, NEW r \in PurchaseRequests, PurchaseStep(r),
           NEW p \in Purchases, NEW x \in Rows, Received(p, x)' # Received(p, x)
    PROVE  p \notin applied /\ p \in applied'
  <1>1. ApplyCommit(r)
    <2>1. ASSUME UNCHANGED ledger PROVE FALSE
      BY <2>1 DEF Received
    <2>2. CASE CreatePurchase(r) \/ EditRead(r) \/ EditDelete(r) \/ EditCommit(r) \/ TransitionRead(r) \/ StatusWrite(r)
      BY <2>1, <2>2 DEF CreatePurchase, EditRead, EditDelete, EditCommit, TransitionRead, StatusWrite,
                        RejectPurchase, KeepTables
    <2>3. CASE ApplyCheck(r) \/ ApplyReadLines(r) \/ ApplyInsert(r)
      BY <2>1, <2>3 DEF ApplyCheck, ApplyReadLines, ApplyInsert, KeepTables
    <2>4. CASE ApplyFind(r) \/ ApplyPlaceholder(r) \/ ApplyWrite(r) \/ AbandonPurchaseCall(r)
      BY <2>1, <2>4 DEF ApplyFind, ApplyPlaceholder, ApplyWrite, AbandonPurchaseCall, Rollback, WriteRow
    <2> QED
      BY <2>2, <2>3, <2>4 DEF PurchaseStep, ContinuePurchase
  <1>2. p = purchaseCall[r].purchase
    BY <1>1, ReceiptPublishes
  <1>3. p \notin applied
    BY <1>1, <1>2, ReceiptFacts DEF ApplyCommit, PurchaseAt
  <1> QED
    BY <1>1, <1>2, <1>3 DEF ApplyCommit, Subject

(* No purchase handler takes goods for a sale.                             *)
LEMMA PurchasesQuiet ==
    ASSUME PurchasesInv, NEW r \in PurchaseRequests, PurchaseStep(r)
    PROVE  Quiet(r, Sold)
  <1> USE PurchaseFacts
  <1>1. DbTypeOK /\ r \in Requests
    BY DEF DbInv
  <1>2. ASSUME UNCHANGED <<stock, ledger, tx>> \/ Rollback(r) PROVE Quiet(r, Sold)
    BY <1>1, <1>2, QuietIdle DEF dbVars
  <1>3. ASSUME NEW x \in Rows, NEW v, NEW before, NEW after, NEW doc, WriteRow(r, x, v, Movement("IN", before, after, doc))
        PROVE  Quiet(r, Sold)
    <2>1. Movement("IN", before, after, doc) \notin Sold
      BY KindOf
    <2> QED
      BY <1>1, <1>3, <2>1, QuietWrite
  <1>4. CASE CreatePurchase(r) \/ EditRead(r) \/ EditDelete(r) \/ EditCommit(r) \/ TransitionRead(r) \/ StatusWrite(r)
    BY <1>2, <1>4 DEF CreatePurchase, EditRead, EditDelete, EditCommit, TransitionRead, StatusWrite,
                      RejectPurchase, KeepTables
  <1>5. CASE ApplyCheck(r) \/ ApplyReadLines(r) \/ ApplyInsert(r)
    BY <1>2, <1>5 DEF ApplyCheck, ApplyReadLines, ApplyInsert, KeepTables
  <1>6. CASE ApplyFind(r) \/ ApplyPlaceholder(r) \/ AbandonPurchaseCall(r)
    BY <1>2, <1>3, <1>6 DEF ApplyFind, ApplyPlaceholder, AbandonPurchaseCall
  <1>7. CASE ApplyWrite(r)
    <2>1. purchaseCall[r].row \in Rows
      BY <1>7 DEF ApplyWrite, PurchaseAt, PurchaseCallOK
    <2> QED
      BY <1>2, <1>3, <1>7, <2>1 DEF ApplyWrite
  <1>8. CASE ApplyCommit(r)
    BY <1>1, <1>8, QuietCommit DEF ApplyCommit
  <1> QED
    BY <1>4, <1>5, <1>6, <1>7, <1>8 DEF PurchaseStep, ContinuePurchase

(* Receipts give no row an IMEI and change none.                           *)
LEMMA PurchasesImei ==
    ASSUME PurchasesInv, ImeiInv, NEW r \in PurchaseRequests, PurchaseStep(r)
    PROVE  ImeiInv' /\ NoneVanish
  <1> USE PurchaseFacts
  <1>1. DbTypeOK /\ r \in Requests /\ View(r) \in [Rows -> StockItem]
    BY ViewType DEF DbInv
  <1>2. ASSUME UNCHANGED <<stock, ledger, tx>> \/ Rollback(r) PROVE ImeiInv' /\ NoneVanish
    BY <1>1, <1>2, ImeiIdle DEF dbVars
  <1>3. CASE CreatePurchase(r) \/ EditRead(r) \/ EditDelete(r) \/ EditCommit(r) \/ TransitionRead(r) \/ StatusWrite(r)
    BY <1>2, <1>3 DEF CreatePurchase, EditRead, EditDelete, EditCommit, TransitionRead, StatusWrite,
                      RejectPurchase, KeepTables
  <1>4. CASE ApplyCheck(r) \/ ApplyReadLines(r) \/ ApplyInsert(r)
    BY <1>2, <1>4 DEF ApplyCheck, ApplyReadLines, ApplyInsert, KeepTables
  <1>5. CASE ApplyFind(r) \/ AbandonPurchaseCall(r)
    BY <1>2, <1>5 DEF ApplyFind, AbandonPurchaseCall
  <1>6. CASE ApplyPlaceholder(r)
    <2>1. ASSUME NEW x \in Rows, Fresh(x), NEW item, NEW sku, NEW qty, NEW m, NEW v,
                 v = [Missing EXCEPT !.state = "active", !.item = item, !.sku = sku, !.qty = qty],
                 WriteRow(r, x, v, m)
          PROVE  ImeiInv' /\ NoneVanish
      <3>1. v.imei = NoImei /\ v.state = "active"
        BY <2>1 DEF Missing
      <3> QED
        BY <1>1, <2>1, <3>1, ImeiAmend
    <2> QED
      BY <1>2, <1>6, <2>1 DEF ApplyPlaceholder
  <1>7. CASE ApplyWrite(r)
    <2>1. PICK x \in Rows : x = purchaseCall[r].row
      BY <1>7 DEF ApplyWrite, PurchaseAt, PurchaseCallOK
    <2>2. UNCHANGED <<stock, ledger, tx>> \/ \E m, after : WriteRow(r, x, [View(r)[x] EXCEPT !.qty = after], m)
      BY <1>7, <2>1 DEF ApplyWrite
    <2>3. ASSUME NEW m, NEW after, NEW v, v = [View(r)[x] EXCEPT !.qty = after], WriteRow(r, x, v, m)
          PROVE  ImeiInv' /\ NoneVanish
      <3>1. v.imei = View(r)[x].imei /\ v.state = View(r)[x].state
        BY <1>1, <2>3 DEF StockItem
      <3> QED
        BY <1>1, <2>3, <3>1, ImeiAmend
    <2> QED
      BY <1>2, <2>2, <2>3
  <1>8. CASE ApplyCommit(r)
    BY <1>1, <1>8, ImeiCommit DEF ApplyCommit
  <1> QED
    BY <1>3, <1>4, <1>5, <1>6, <1>7, <1>8 DEF PurchaseStep, ContinuePurchase
=============================================================================
