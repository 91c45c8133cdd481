---------------------------- MODULE SalesService ----------------------------
(***************************************************************************)
(* SalesService (apps/api/src/sales/sales.service.ts): the life of a sale  *)
(* from DRAFT to DELIVERED or CANCELLED, and the stock that paying takes.  *)
(* Every handler first reads the sale outside any transaction, decides on  *)
(* what it read, and writes later by primary key alone.                    *)
(***************************************************************************)
EXTENDS Database, Functions

CONSTANTS
    SaleRequests,
    Carts,       \* line lists a client may send to createSale
    Discounts,   \* discounts a client may send to updateSale
    SeedSales    \* the Sale table the system starts from

SaleStatus == {"DRAFT", "PAID", "SHIPPED", "DELIVERED", "CANCELLED"}

Line == [row : Rows \cup {NoRow}, qty : 1..MaxQty]

VARIABLES
    sale,      \* the committed Sale table, with its SaleItem lines
    saleCall   \* per request, the local variables of its handler

salesVars == <<stock, ledger, tx, sale, saleCall>>

(* status "NONE": not created.  stamps: which of paidAt, shippedAt and     *)
(* deliveredAt are set.                                                    *)
Sale ==
    [status : SaleStatus \cup {"NONE"}, deleted : BOOLEAN, lines : Seq(Line),
     stamps : SUBSET {"paid", "shipped", "delivered"}, discount : Discounts \cup {0}]

NoSale == [status |-> "NONE", deleted |-> FALSE, lines |-> <<>>, stamps |-> {}, discount |-> 0]

ASSUME SalesInputs ==
    /\ SaleRequests \subseteq Requests
    /\ Carts \subseteq Seq(Line) \ {<<>>}
    /\ SeedSales \in [Sales -> Sale]
    /\ \A s \in Sales : SeedSales[s].status \in {"NONE", "DRAFT"} /\ SeedSales[s].stamps = {}
    /\ \A s \in Sales : SeedSales[s].status = "NONE" => ~SeedSales[s].deleted

(* lines: the lines as read; seen: the stock rows as read; k: next line.   *)
SaleCall ==
    [pc : {"new", "create", "update", "payStock", "payBegin", "payTx", "cancel", "ship",
           "deliver", "delete", "restore", "done"},
     sale : Sales \cup {NoDoc}, lines : Seq(Line), seen : [Rows -> StockItem],
     k : Nat, discount : Discounts \cup {0}]

NewSaleCall ==
    [pc |-> "new", sale |-> NoDoc, lines |-> <<>>, seen |-> [x \in Rows |-> Missing],
     k |-> 1, discount |-> 0]

SalesInit ==
    /\ sale = SeedSales
    /\ saleCall = [r \in SaleRequests |-> NewSaleCall]

SaleAt(r, pc) == saleCall[r].pc = pc
EndSaleCall(r) == saleCall' = [saleCall EXCEPT ![r] = [NewSaleCall EXCEPT !.pc = "done"]]
(* Fault: soft-deleted sales not filtered out.                             *)
Existing == {s \in Sales : sale[s].status # "NONE"}

(* The sales that a query can find, the soft-deleted ones apart.           *)
Kept == {s \in Sales : sale[s].status # "NONE" /\ ~sale[s].deleted}
Deleted == {s \in Sales : sale[s].status # "NONE" /\ sale[s].deleted}

(* Fault: the status unchecked.                                            *)
HavingAny(statuses) == {s \in Sales : sale[s].status # "NONE"}

Having(statuses) == {s \in Sales : sale[s].status \in statuses}

RejectSale(r) == EndSaleCall(r) /\ UNCHANGED <<stock, ledger, tx, sale>>

(* The handler has read sale s and goes on if it is one it admits.         *)
ReadSale(r, pc, admitted) ==
    /\ SaleAt(r, "new")
    /\ \E s \in Sales :
          IF s \in admitted
          THEN /\ saleCall' = [saleCall EXCEPT ![r].pc = pc, ![r].sale = s, ![r].lines = sale[s].lines]
               /\ UNCHANGED <<stock, ledger, tx, sale>>
          ELSE RejectSale(r)

(* One UPDATE of the sale by its id: nothing that was read is rechecked.   *)
WriteSale(r, new) ==
    /\ sale' = [sale EXCEPT ![saleCall[r].sale] = new]
    /\ CommitDocs(r, {saleCall[r].sale})
    /\ EndSaleCall(r)

This(r) == sale[saleCall[r].sale]

-----------------------------------------------------------------------------
(* createSale: check the stock items of the lines, then insert the sale as *)
(* DRAFT.  Bound: at most Cardinality(Sales) sales are ever created.       *)
SaleIdsLeft ==
    Cardinality({r \in SaleRequests : SaleAt(r, "create")})
        < Cardinality({s \in Sales : sale[s].status = "NONE"})

CreateSaleRead(r) ==
    /\ SaleAt(r, "new") /\ SaleIdsLeft
    /\ \E cart \in Carts :
          IF \E k \in DOMAIN cart : cart[k].row # NoRow /\ stock[cart[k].row].state # "active"
          THEN RejectSale(r)
          ELSE /\ saleCall' = [saleCall EXCEPT ![r].pc = "create", ![r].lines = cart]
               /\ UNCHANGED <<stock, ledger, tx, sale>>

CreateSaleWrite(r) ==
    /\ SaleAt(r, "create")
    /\ \E s \in Sales :
          /\ sale[s].status = "NONE"
          /\ sale' = [sale EXCEPT ![s] = [NoSale EXCEPT !.status = "DRAFT", !.lines = saleCall[r].lines]]
    /\ EndSaleCall(r)
    /\ UNCHANGED dbVars

(* updateSale: the discount is the only column it changes that matters to  *)
(* the totals.                                                             *)
UpdateSaleRead(r) ==
    ReadSale(r, "update", Kept \ Having({"SHIPPED", "DELIVERED"}))

UpdateSaleWrite(r) ==
    /\ SaleAt(r, "update")
    /\ \E discount \in Discounts : WriteSale(r, [This(r) EXCEPT !.discount = discount])

-----------------------------------------------------------------------------
(* paySale reads the sale, then (Prisma loads an include with a query of   *)
(* its own) the stock rows of its lines; only then does it open the        *)
(* Serializable transaction, which never reads the sale or the stock       *)
(* again.                                                                  *)
PayRead(r) == ReadSale(r, "payStock", Kept \cap Having({"DRAFT"}))

StockLines(lines) == {k \in DOMAIN lines : lines[k].row # NoRow}

PayReadStock(r) ==
    /\ SaleAt(r, "payStock")
    /\ LET lines == saleCall[r].lines
           read == {lines[k].row : k \in StockLines(lines)}
       IN  saleCall' = [saleCall EXCEPT
                           ![r].pc = "payBegin",
                           ![r].seen = [x \in Rows |-> IF x \in read THEN stock[x] ELSE Missing]]
    /\ UNCHANGED <<stock, ledger, tx, sale>>

PayBegin(r) ==
    /\ SaleAt(r, "payBegin")
    /\ BeginSerializable(r)
    /\ saleCall' = [saleCall EXCEPT ![r].pc = "payTx"]
    /\ UNCHANGED sale

(* The row of a paid line: quantity from the read, SOLD once an IMEI row   *)
(* is empty, the other columns as they are.                                *)
SoldRow(row, seen, after) ==
    [row EXCEPT !.qty = after,
                !.status = IF seen.imei # NoImei /\ after = 0 THEN "SOLD" ELSE @]

(* Fault: the stock of the line unchecked.                                 *)
ConflictOnly(r, x, after) == x \in tx[r].stale /\ Unlocked(r, x)

(* The line is refused for lack of stock, or its UPDATE fails because      *)
(* somebody committed the row since the snapshot.                          *)
LineFails(r, x, after) == after < 0 \/ (x \in tx[r].stale /\ Unlocked(r, x))

PayLine(r) ==
    /\ SaleAt(r, "payTx")
    /\ saleCall[r].k \in DOMAIN saleCall[r].lines
    /\ UNCHANGED sale
    /\ LET line == saleCall[r].lines[saleCall[r].k]
           x == line.row
           before == saleCall[r].seen[x].qty
           after == before - line.qty
           next == saleCall' = [saleCall EXCEPT ![r].k = @ + 1]
       IN  IF x = NoRow THEN next /\ UNCHANGED dbVars
           ELSE IF LineFails(r, x, after)
           THEN Rollback(r) /\ EndSaleCall(r)
           ELSE /\ WriteRow(r, x, SoldRow(View(r)[x], saleCall[r].seen[x], after),
                            Movement("SOLD", before, after, saleCall[r].sale))
                /\ next

PayCommit(r) ==
    /\ SaleAt(r, "payTx")
    /\ saleCall[r].k = Len(saleCall[r].lines) + 1
    /\ IF saleCall[r].sale \in tx[r].stale
       THEN Rollback(r) /\ UNCHANGED sale
       ELSE /\ Commit(r, {saleCall[r].sale})
            /\ sale' = [sale EXCEPT ![saleCall[r].sale].status = "PAID",
                                    ![saleCall[r].sale].stamps = @ \cup {"paid"}]
    /\ EndSaleCall(r)

-----------------------------------------------------------------------------
(* cancelSale: its Serializable transaction holds one UPDATE, so nothing   *)
(* it could conflict with was read inside it.  The stock stays sold.       *)
CancelRead(r) ==
    ReadSale(r, "cancel", Kept \ Having({"SHIPPED", "DELIVERED", "CANCELLED"}))

CancelWrite(r) ==
    SaleAt(r, "cancel") /\ WriteSale(r, [This(r) EXCEPT !.status = "CANCELLED"])

(* shipSale does not look at deletedAt; deliverSale does.                  *)
ShipRead(r) == ReadSale(r, "ship", Having({"PAID"}))

ShipWrite(r) ==
    /\ SaleAt(r, "ship")
    /\ WriteSale(r, [This(r) EXCEPT !.status = "SHIPPED", !.stamps = @ \cup {"shipped"}])

DeliverRead(r) == ReadSale(r, "deliver", Kept \cap Having({"SHIPPED"}))

DeliverWrite(r) ==
    /\ SaleAt(r, "deliver")
    /\ WriteSale(r, [This(r) EXCEPT !.status = "DELIVERED", !.stamps = @ \cup {"delivered"}])

DeleteSaleRead(r) == ReadSale(r, "delete", Kept \cap Having({"DRAFT"}))

DeleteSaleWrite(r) == SaleAt(r, "delete") /\ WriteSale(r, [This(r) EXCEPT !.deleted = TRUE])

RestoreSaleRead(r) == ReadSale(r, "restore", Deleted)

RestoreSaleWrite(r) == SaleAt(r, "restore") /\ WriteSale(r, [This(r) EXCEPT !.deleted = FALSE])

-----------------------------------------------------------------------------
(* Process death, lost connection, deadlock victim, transaction timeout:   *)
(* the open transaction, if any, rolls back and the handler is gone.       *)
AbandonSaleCall(r) ==
    /\ saleCall[r].pc \notin {"new", "done"}
    /\ Rollback(r)
    /\ EndSaleCall(r)
    /\ UNCHANGED sale

ContinueSale(r) ==
    \/ CreateSaleWrite(r) \/ UpdateSaleWrite(r)
    \/ PayReadStock(r) \/ PayBegin(r) \/ PayLine(r) \/ PayCommit(r)
    \/ CancelWrite(r) \/ ShipWrite(r) \/ DeliverWrite(r) \/ DeleteSaleWrite(r) \/ RestoreSaleWrite(r)

SalesStep(r) ==
    \/ CreateSaleRead(r) \/ UpdateSaleRead(r) \/ PayRead(r) \/ CancelRead(r) \/ ShipRead(r)
    \/ DeliverRead(r) \/ DeleteSaleRead(r) \/ RestoreSaleRead(r)
    \/ ContinueSale(r)
    \/ AbandonSaleCall(r)

SalesNext == \E r \in SaleRequests : SalesStep(r)

SalesSpec == DbInit /\ SalesInit /\ [][SalesNext]_salesVars
-----------------------------------------------------------------------------
(* Type invariant of the sale handlers and of the tables they share.       *)
SalesTypeOK ==
    /\ DbTypeOK
    /\ sale \in [Sales -> Sale]
    /\ saleCall \in [SaleRequests -> SaleCall]

(* A handler that has read a sale knows which one.                         *)
SalesInv ==
    /\ DbInv
    /\ SalesTypeOK
    /\ \A r \in SaleRequests :
          saleCall[r].pc \notin {"new", "create", "done"} => saleCall[r].sale \in Sales

(* Movement i of row x took qty units for sale s.                          *)
TakenFor(s, x, qty) ==
    \E i \in DOMAIN ledger[x] :
        /\ ledger[x][i].type = "SOLD" /\ ledger[x][i].doc = s
        /\ ledger[x][i].before - ledger[x][i].after = qty

(* Stock and sales never disagree about payment: a SOLD movement exists    *)
(* only for a sale with paidAt, and a sale with paidAt has, for each of    *)
(* its stock lines, a SOLD movement of the line's quantity -- whatever     *)
(* requests raced, failed or were retried, since paySale writes both in    *)
(* one transaction.                                                        *)
PaidIffTaken ==
    /\ \A x \in Rows : \A i \in DOMAIN ledger[x] :
          ledger[x][i].type = "SOLD" => "paid" \in sale[ledger[x][i].doc].stamps
    /\ \A s \in Sales : "paid" \in sale[s].stamps =>
          \A k \in StockLines(sale[s].lines) : TakenFor(s, sale[s].lines[k].row, sale[s].lines[k].qty)

(* PaidIffTaken with what makes it inductive.  The SOLD movements that are *)
(* pending are those of a payment, for its sale, and include one for each  *)
(* stock line it has worked through; and the lines it read are those of    *)
(* the sale, since a sale that exists keeps its lines.                     *)
TakesFor(r, s, x, qty) ==
    \E i \in DOMAIN tx[r].moves[x] :
        /\ tx[r].moves[x][i].type = "SOLD" /\ tx[r].moves[x][i].doc = s
        /\ tx[r].moves[x][i].before - tx[r].moves[x][i].after = qty

Paying(r, c) ==
    /\ c.pc \notin {"new", "create", "done"} => sale[c.sale].status # "NONE"
    /\ c.pc \in {"payStock", "payBegin", "payTx"} => c.lines = sale[c.sale].lines
    /\ c.pc # "payTx" => c.k = 1
    /\ \A k \in StockLines(c.lines) : k < c.k => TakesFor(r, c.sale, c.lines[k].row, c.lines[k].qty)

PaymentInv ==
    /\ \A x \in Rows : \A i \in DOMAIN ledger[x] : ledger[x][i].type = "SOLD" => ledger[x][i].doc \in Sales
    /\ PaidIffTaken
    /\ \A r \in Requests, x \in Rows : \A i \in DOMAIN tx[r].moves[x] : tx[r].moves[x][i].type = "SOLD" =>
          r \in SaleRequests /\ SaleAt(r, "payTx") /\ tx[r].moves[x][i].doc = saleCall[r].sale
    /\ \A r \in SaleRequests : Paying(r, saleCall[r])

(* Goods leave only for paid sales: even when stale requests overwrite     *)
(* each other's status, shippedAt is never set without paidAt, nor         *)
(* deliveredAt without shippedAt, and a status never runs ahead of them.   *)
StampsInOrder ==
    \A s \in Sales :
        /\ "shipped" \in sale[s].stamps => "paid" \in sale[s].stamps
        /\ "delivered" \in sale[s].stamps => "shipped" \in sale[s].stamps
        /\ sale[s].status = "PAID" => "paid" \in sale[s].stamps
        /\ sale[s].status = "SHIPPED" => "shipped" \in sale[s].stamps
        /\ sale[s].status = "DELIVERED" => "delivered" \in sale[s].stamps

(* StampsInOrder with what makes it inductive: a sale that does not exist  *)
(* has no stamps, and a handler about to ship has seen paidAt, one about   *)
(* to deliver shippedAt -- stamps that are never cleared.                  *)
Stamped(r, stamp) == stamp \in sale[saleCall[r].sale].stamps

StampsInv ==
    /\ StampsInOrder
    /\ \A s \in Sales : sale[s].status = "NONE" => sale[s].stamps = {}
    /\ \A r \in SaleRequests :
          /\ SaleAt(r, "ship") => Stamped(r, "paid")
          /\ SaleAt(r, "deliver") => Stamped(r, "shipped")

(* A sale takes each of its lines from stock once: paying a sale that is   *)
(* already PAID is refused.                                                *)
PaidOnce ==
    \A s \in Sales, x \in Rows :
        Cardinality({i \in DOMAIN ledger[x] : ledger[x][i].type = "SOLD" /\ ledger[x][i].doc = s})
            <= Cardinality({k \in StockLines(sale[s].lines) : sale[s].lines[k].row = x})

(* The units that movements of row x moved, for sales or otherwise.        *)
Moved(x, forSales) ==
    LET moves == {i \in DOMAIN ledger[x] : (ledger[x][i].type = "SOLD") = forSales}
    IN  SumFunction([i \in moves |-> ledger[x][i].after - ledger[x][i].before])

(* Nobody sells what was never in stock: from any row, sales take at most  *)
(* the units that entries, adjustments and receipts left in it.            *)
NeverOversold == \A x \in Rows : Moved(x, FALSE) + Moved(x, TRUE) >= 0

(* What the state machine of a sale promises, with paying as one atomic    *)
(* step that takes the goods of every line.                                *)
Demand(lines) ==
    [x \in Rows |-> SumFunction([k \in {j \in DOMAIN lines : lines[j].row = x} |-> lines[k].qty])]

Lifecycle ==
    INSTANCE SaleLifecycle WITH
        status <- [s \in Sales |-> sale[s].status],
        deleted <- {s \in Sales : sale[s].deleted},
        demand <- [s \in Sales |-> Demand(sale[s].lines)],
        onHand <- [x \in Rows |-> stock[x].qty]

(* The handlers implement the state machine: no transition is skipped,     *)
(* none is undone, only drafts are paid, and each sale takes exactly its   *)
(* goods, only when they are there.                                        *)
FollowsLifecycle == Lifecycle!Spec
=============================================================================
