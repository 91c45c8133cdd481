------------------------------- MODULE Serial -------------------------------
(***************************************************************************)
(* The inventory when one call runs at a time, as a single worker behind a *)
(* single client would have it: each handler still takes its steps, may    *)
(* still be abandoned at any of them, but nobody comes between.  What the  *)
(* handlers keep only then is what they do not lock, recheck or order.     *)
(***************************************************************************)
EXTENDS Inventory

(* The request has begun and has not been answered.                        *)
Running(r) ==
    \/ r \in StockRequests /\ call[r].pc \notin {"new", "done"}
    \/ r \in SaleRequests /\ saleCall[r].pc \notin {"new", "done"}
    \/ r \in PurchaseRequests /\ purchaseCall[r].pc \notin {"new", "done"}

Alone(r) == \A o \in Requests \ {r} : ~Running(o)

SerialNext ==
    \/ \E r \in StockRequests : Alone(r) /\ StockStep(r) /\ UNCHANGED <<sale, saleCall, purchase, applied, purchaseCall>>
    \/ \E r \in SaleRequests : Alone(r) /\ SalesStep(r) /\ UNCHANGED <<call, purchase, applied, purchaseCall>>
    \/ \E r \in PurchaseRequests : Alone(r) /\ PurchaseStep(r) /\ UNCHANGED <<call, sale, saleCall>>

SerialSpec == Init /\ [][SerialNext]_vars

-----------------------------------------------------------------------------
(* Some of it a client can still defeat alone: no cart, and no sale there  *)
(* at the start, has two lines for one stock item.                         *)
OncePerRow(lines) ==
    \A j, k \in DOMAIN lines : lines[j].row # NoRow /\ lines[j].row = lines[k].row => j = k

NoTwinLines ==
    /\ \A cart \in Carts : OncePerRow(cart)
    /\ \A s \in Sales : OncePerRow(SeedSales[s].lines)

-----------------------------------------------------------------------------
(* The inductive invariant of a serial run.  Nobody but a running request  *)
(* has a transaction open, and only one runs.                              *)
OneAtATime ==
    /\ \A r, o \in Requests : Running(r) /\ Running(o) => r = o
    /\ \A r \in Requests : ~Running(r) => tx[r] = NoTransaction

(* The movements ms lead on from quantity qty.                             *)
LeadsOn(ms, qty) == \A i \in DOMAIN ms : ms[i].before = IF i = 1 THEN qty ELSE ms[i-1].after

(* A row that does not exist holds nothing; and what a transaction is      *)
(* about to publish removes no row, and its movements lead on from the     *)
(* row's quantity.                                                         *)
TablesInv ==
    /\ \A x \in Rows : stock[x].state = "absent" => stock[x] = Missing
    /\ \A r \in Requests : \A x \in tx[r].own :
          /\ tx[r].buf[x].state # "absent"
          /\ NoTwinLines => LeadsOn(tx[r].moves[x], stock[x].qty)
    /\ NoTwinLines => LedgerContinuous

(* What a stock handler with the variables c has read, or checked, is      *)
(* still so.                                                               *)
StockFits(r, c) ==
    /\ c.pc = "update" => stock[c.row].state # "absent"
    /\ c.pc = "adjust" => stock[c.row].state = "active" /\ c.before = stock[c.row].qty
    /\ c.pc = "bulkWrite" => View(r)[c.row].state = "active" /\ c.before = View(r)[c.row].qty
    /\ \A x \in tx[r].own : stock[x].state # "deleted"
    /\ c.pc \notin {"entry", "bulkFind", "bulkWrite"} => tx[r] = NoTransaction

(* The status a sale handler goes on with is the one the sale has, and the *)
(* stock a payment goes on with the one there is.  The payment has written *)
(* one movement for each stock line it has worked through.                 *)
LinesDone(c, x) == {k \in StockLines(c.lines) : k < c.k /\ c.lines[k].row = x}

SaleFits(r, c) ==
    /\ c.pc = "create" /\ NoTwinLines => OncePerRow(c.lines)
    /\ c.pc \in {"payStock", "payBegin", "payTx", "delete"} => sale[c.sale].status = "DRAFT"
    /\ c.pc \in {"payStock", "payBegin", "payTx", "cancel", "deliver"} => ~sale[c.sale].deleted
    /\ c.pc = "cancel" => sale[c.sale].status \in {"DRAFT", "PAID"}
    /\ c.pc = "ship" => sale[c.sale].status = "PAID"
    /\ c.pc = "deliver" => sale[c.sale].status = "SHIPPED"
    /\ c.pc \in {"payBegin", "payTx"} =>
          \A k \in StockLines(c.lines) : c.seen[c.lines[k].row] = stock[c.lines[k].row]
    /\ c.pc = "payTx" => \A x \in Rows : Len(tx[r].moves[x]) = Cardinality(LinesDone(c, x))
    /\ c.pc # "payTx" => tx[r] = NoTransaction

SaleTable ==
    \A s \in Sales :
        /\ sale[s].status \in {"NONE", "DRAFT"} => "paid" \notin sale[s].stamps
        /\ NoTwinLines => OncePerRow(sale[s].lines)

(* The units that movements of goods p in the histories h brought in.      *)
Units(h, p) == SumFunction([x \in Rows |-> SumFunction([i \in Goods(h[x], p) |-> h[x][i].after - h[x][i].before])])

(* A purchase whose goods are in stock is past DRAFT and keeps the lines   *)
(* they came from.                                                         *)
PurchaseTable ==
    \A p \in Purchases :
        /\ purchase[p].total = Total(purchase[p].lines)
        /\ IsFiniteSet(purchase[p].lines)
        /\ p \in applied => purchase[p].status \notin {"NONE", "DRAFT"}
        /\ p \notin applied => \A x \in Rows : Received(p, x) = {}
        /\ p \in applied /\ IsFiniteSet(Rows) => Units(ledger, p) = Total(purchase[p].lines)

Receiving == {"applyCheck", "applyRead", "applyInsert", "applyFind", "applyWrite"}

(* What a purchase handler has read, or checked, is still so; and what a   *)
(* receipt has entered and what it still has to are the whole purchase.    *)
PurchaseFits(r, c) ==
    /\ c.pc \in {"edit", "editCommit"} => purchase[c.purchase].status = "DRAFT" /\ IsFiniteSet(c.lines)
    /\ c.pc = "editCommit" => c.removed = purchase[c.purchase].lines
    /\ c.pc \in Receiving => c.target = "RECEIVED"
    /\ c.pc \in Receiving \cup {"status"} =>
          purchase[c.purchase].status # "NONE" /\ ValidTransition(purchase[c.purchase].status, c.target)
    /\ c.pc = "applyInsert" => c.lines = purchase[c.purchase].lines
    /\ c.pc \in {"applyFind", "applyWrite"} => IsFiniteSet(c.lines)
    /\ c.pc \in {"applyFind", "applyWrite"} /\ IsFiniteSet(Rows) =>
          Units(tx[r].moves, c.purchase) + Total(c.lines) = Total(purchase[c.purchase].lines)
    /\ c.pc = "applyWrite" => /\ \E line \in c.lines : c.line = {line}
                              /\ View(r)[c.row].state # "absent" /\ c.before = View(r)[c.row].qty
    /\ c.pc \notin {"applyFind", "applyWrite"} => tx[r] = NoTransaction

HandlersFit ==
    /\ \A r \in StockRequests : StockFits(r, call[r])
    /\ \A r \in SaleRequests : SaleFits(r, saleCall[r])
    /\ \A r \in PurchaseRequests : PurchaseFits(r, purchaseCall[r])

SerialInv == OneAtATime /\ TablesInv /\ SaleTable /\ PurchaseTable /\ HandlersFit
=============================================================================
