-------------------------- MODULE PurchasesService --------------------------
(***************************************************************************)
(* PurchasesService (apps/api/src/purchases/purchases.service.ts): drafting*)
(* a purchase, editing its lines, moving it through its states, and        *)
(* entering the received goods into stock exactly once, guarded by a       *)
(* PurchaseStockApplication row with a unique purchaseId.                  *)
(***************************************************************************)
EXTENDS Database, Functions

CONSTANTS
    PurchaseRequests,
    Orders,        \* line lists a client may send to create or update a purchase
    SeedPurchases  \* the Purchase table the system starts from

PurchaseStatus == {"DRAFT", "APPROVED", "RECEIVED", "CANCELLED"}

(* A line as sent; every unit costs one cent, so quantities are totals.    *)
OrderLine == [sku : Skus \cup {NoSku}, qty : 1..MaxQty]

VARIABLES
    purchase,     \* the committed Purchase table, with its PurchaseLine rows
    applied,      \* the purchases that have a PurchaseStockApplication row
    purchaseCall  \* per request, the local variables of its handler

purchaseVars == <<stock, ledger, tx, purchase, applied, purchaseCall>>

(* A PurchaseLine row is identified by the request that inserted it (NoDoc: *)
(* it was there at the start) and its place in the order.  stockItemId is  *)
(* left out: the only transaction that writes it also writes the           *)
(* application row, after which nothing reads it.                          *)
PurchaseLine ==
    [sku : Skus \cup {NoSku}, qty : 1..MaxQty, by : PurchaseRequests \cup {NoDoc}, n : Nat]

(* total: the stored totalCents.  stamps: approvedAt, receivedAt and       *)
(* cancelledAt.                                                            *)
Purchase ==
    [status : PurchaseStatus \cup {"NONE"}, lines : SUBSET PurchaseLine, total : Nat,
     stamps : SUBSET PurchaseStatus]

NoPurchase == [status |-> "NONE", lines |-> {}, total |-> 0, stamps |-> {}]

(* calculateTotals: the sum over the lines.                                *)
Total(lines) == SumFunction([line \in lines |-> line.qty])

ASSUME PurchaseInputs ==
    /\ PurchaseRequests \subseteq Requests
    /\ Orders \subseteq Seq(OrderLine) \ {<<>>}
    /\ SeedPurchases \in [Purchases -> Purchase]
    /\ \A p \in Purchases : SeedPurchases[p].status \in {"NONE", "DRAFT", "APPROVED"}
    /\ \A p \in Purchases : SeedPurchases[p].status # "NONE" => SeedPurchases[p].lines # {}
    /\ \A p \in Purchases : SeedPurchases[p].total = Total(SeedPurchases[p].lines)
    /\ \A p \in Purchases : IsFiniteSet(SeedPurchases[p].lines)

(* lines: the lines to insert, or still to enter into stock; removed: the  *)
(* lines deleted; line: the one being entered (none or one).               *)
PurchaseCall ==
    [pc : {"new", "edit", "editCommit", "applyCheck", "applyRead", "applyInsert", "applyFind",
           "applyWrite", "status", "done"},
     purchase : Purchases \cup {NoDoc}, target : PurchaseStatus,
     lines : SUBSET PurchaseLine, removed : SUBSET PurchaseLine, line : SUBSET PurchaseLine,
     row : Rows \cup {NoRow}, before : 0..MaxQty]

NewPurchaseCall ==
    [pc |-> "new", purchase |-> NoDoc, target |-> "DRAFT", lines |-> {}, removed |-> {},
     line |-> {}, row |-> NoRow, before |-> 0]

PurchasesInit ==
    /\ purchase = SeedPurchases
    /\ applied = {}
    /\ purchaseCall = [r \in PurchaseRequests |-> NewPurchaseCall]

PurchaseAt(r, pc) == purchaseCall[r].pc = pc
EndPurchaseCall(r) == purchaseCall' = [purchaseCall EXCEPT ![r] = [NewPurchaseCall EXCEPT !.pc = "done"]]
KeepTables == UNCHANGED <<stock, ledger, tx, purchase, applied>>
RejectPurchase(r) == EndPurchaseCall(r) /\ KeepTables
Subject(r) == purchaseCall[r].purchase

Inserted(r, order) ==
    {[sku |-> order[k].sku, qty |-> order[k].qty, by |-> r, n |-> k] : k \in DOMAIN order}

(* Fault: any transition allowed,                                          *)
AnyTransition(from, to) == TRUE

(* or a cancellation from any status.                                      *)
CancelAnytime(from, to) ==
    from = to \/ to = "CANCELLED" \/ <<from, to>> \in {<<"DRAFT", "APPROVED">>, <<"APPROVED", "RECEIVED">>}

(* validateTransition: a transition to the same status is let through.     *)
ValidTransition(from, to) ==
    \/ from = to
    \/ from = "DRAFT" /\ to \in {"APPROVED", "CANCELLED"}
    \/ from = "APPROVED" /\ to \in {"RECEIVED", "CANCELLED"}

-----------------------------------------------------------------------------
(* createPurchase.  Bound: at most Cardinality(Purchases) are created.     *)
CreatePurchase(r) ==
    /\ PurchaseAt(r, "new")
    /\ \E p \in Purchases, order \in Orders :
          /\ purchase[p].status = "NONE"
          /\ purchase' = [purchase EXCEPT ![p] = [NoPurchase EXCEPT !.status = "DRAFT",
                                                                    !.lines = Inserted(r, order),
                                                                    !.total = Total(Inserted(r, order))]]
    /\ EndPurchaseCall(r)
    /\ UNCHANGED <<stock, ledger, tx, applied>>

(* updatePurchase: the status is tested on a read outside the transaction; *)
(* deleteMany removes the lines its own statement can see; createMany and  *)
(* the new totals follow and the transaction commits.                      *)
EditRead(r) ==
    /\ PurchaseAt(r, "new")
    /\ \E p \in Purchases, order \in Orders :
          IF purchase[p].status # "DRAFT" THEN RejectPurchase(r)
          ELSE /\ purchaseCall' = [purchaseCall EXCEPT ![r].pc = "edit", ![r].purchase = p,
                                                       ![r].lines = Inserted(r, order)]
               /\ KeepTables

EditDelete(r) ==
    /\ PurchaseAt(r, "edit")
    /\ purchaseCall' = [purchaseCall EXCEPT ![r].pc = "editCommit",
                                            ![r].removed = purchase[Subject(r)].lines]
    /\ KeepTables

(* Fault: an edit that keeps the old lines.                                *)
AllLines(lines, removed) == lines

Survivors(lines, removed) == lines \ removed

EditCommit(r) ==
    /\ PurchaseAt(r, "editCommit")
    /\ purchase' = [purchase EXCEPT ![Subject(r)].lines = Survivors(@, purchaseCall[r].removed) \cup purchaseCall[r].lines,
                                    ![Subject(r)].total = Total(purchaseCall[r].lines)]
    /\ EndPurchaseCall(r)
    /\ UNCHANGED <<stock, ledger, tx, applied>>

-----------------------------------------------------------------------------
(* transitionPurchase: validate the status as read; when the target is     *)
(* RECEIVED enter the goods into stock first; then write the status.       *)
TransitionRead(r) ==
    /\ PurchaseAt(r, "new")
    /\ \E p \in Purchases, target \in PurchaseStatus :
          IF purchase[p].status = "NONE" \/ ~ValidTransition(purchase[p].status, target)
          THEN RejectPurchase(r)
          ELSE /\ purchaseCall' = [purchaseCall EXCEPT
                                      ![r].pc = IF target = "RECEIVED" THEN "applyCheck" ELSE "status",
                                      ![r].purchase = p, ![r].target = target]
               /\ KeepTables

StatusWrite(r) ==
    /\ PurchaseAt(r, "status")
    /\ LET target == purchaseCall[r].target
       IN  purchase' = [purchase EXCEPT ![Subject(r)].status = target,
                                        ![Subject(r)].stamps = @ \cup ({target} \ {"DRAFT"})]
    /\ EndPurchaseCall(r)
    /\ UNCHANGED <<stock, ledger, tx, applied>>

(* applyPurchaseToStock: skip when the application row exists.             *)
ApplyCheck(r) ==
    /\ PurchaseAt(r, "applyCheck")
    /\ purchaseCall' = [purchaseCall EXCEPT ![r].pc = IF Subject(r) \in applied THEN "status" ELSE "applyRead"]
    /\ KeepTables

ApplyReadLines(r) ==
    /\ PurchaseAt(r, "applyRead")
    /\ purchaseCall' = [purchaseCall EXCEPT ![r].pc = "applyInsert",
                                            ![r].lines = purchase[Subject(r)].lines]
    /\ KeepTables

(* q has an open INSERT of the application row of p.                       *)
Applying(q, p) == purchaseCall[q].pc \in {"applyFind", "applyWrite"} /\ Subject(q) = p

(* Fault: no unique index.                                                 *)
NeverDuplicate(p) == FALSE

(* The unique index on PurchaseStockApplication.purchaseId.                *)
Duplicate(p) == p \in applied

(* Fault: the application row is inserted outside the transaction.         *)
ApplyInsertAtOnce(r) ==
    /\ PurchaseAt(r, "applyInsert")
    /\ IF Duplicate(Subject(r))
       THEN EndPurchaseCall(r)
       ELSE purchaseCall' = [purchaseCall EXCEPT ![r].pc = "applyFind"]
    /\ applied' = applied \cup {Subject(r)}
    /\ UNCHANGED <<stock, ledger, tx, purchase>>

(* The transaction opens with the INSERT of the application row: the       *)
(* unique index makes it wait for another open insert of the same purchase *)
(* and fail when one has committed.                                        *)
ApplyInsert(r) ==
    /\ PurchaseAt(r, "applyInsert")
    /\ \A q \in PurchaseRequests \ {r} : ~Applying(q, Subject(r))
    /\ IF Duplicate(Subject(r))
       THEN EndPurchaseCall(r)
       ELSE purchaseCall' = [purchaseCall EXCEPT ![r].pc = "applyFind"]
    /\ KeepTables

SameSku(r, line) ==
    {x \in Rows : View(r)[x].state # "absent" /\ View(r)[x].sku = line.sku /\ line.sku # NoSku}

(* Fault: a column without a largest value.                                *)
NoOverflow(r, x, line) == FALSE

Overflows(r, x, line) == View(r)[x].qty + line.qty > MaxQty

(* Take the lines in the order the read returned them, which is any: find  *)
(* a stock item of the line's sku, deleted or not.                         *)
ApplyFind(r) ==
    /\ PurchaseAt(r, "applyFind")
    /\ \E line \in purchaseCall[r].lines : \E x \in SameSku(r, line) :
          IF Overflows(r, x, line)
          THEN Rollback(r) /\ EndPurchaseCall(r)
          ELSE /\ purchaseCall' = [purchaseCall EXCEPT ![r].pc = "applyWrite", ![r].line = {line},
                                                       ![r].row = x, ![r].before = View(r)[x].qty]
               /\ UNCHANGED <<stock, ledger, tx>>
    /\ UNCHANGED <<purchase, applied>>

(* None: create a placeholder stock item of the legacy catalogue item and  *)
(* point the line at it.  Both rows it refers to must exist, and an edit   *)
(* that is deleting the lines holds their locks.  A line without sku gives *)
(* it a sku of its own, which nothing else matches.                        *)
ApplyPlaceholder(r) ==
    /\ PurchaseAt(r, "applyFind")
    /\ \A q \in PurchaseRequests : ~(PurchaseAt(q, "editCommit") /\ Subject(q) = Subject(r))
    /\ \E line \in purchaseCall[r].lines :
          /\ SameSku(r, line) = {}
          /\ IF LegacyItem \notin Items \/ line \notin purchase[Subject(r)].lines
             THEN Rollback(r) /\ EndPurchaseCall(r)
             ELSE /\ \E x \in Rows :
                        /\ Fresh(x)
                        /\ WriteRow(r, x, [Missing EXCEPT !.state = "active", !.item = LegacyItem,
                                                          !.sku = line.sku, !.qty = line.qty],
                                    Movement("IN", 0, line.qty, Subject(r)))
                  /\ purchaseCall' = [purchaseCall EXCEPT ![r].lines = @ \ {line}]
    /\ UNCHANGED <<purchase, applied>>

ApplyWrite(r) ==
    /\ PurchaseAt(r, "applyWrite")
    /\ \E line \in purchaseCall[r].line :
          LET x == purchaseCall[r].row
              before == purchaseCall[r].before
              after == before + line.qty
          IN  WriteRow(r, x, [View(r)[x] EXCEPT !.qty = after], Movement("IN", before, after, Subject(r)))
    /\ purchaseCall' = [purchaseCall EXCEPT ![r].pc = "applyFind", ![r].lines = @ \ purchaseCall[r].line,
                                            ![r].line = {}, ![r].row = NoRow, ![r].before = 0]
    /\ UNCHANGED <<purchase, applied>>

ApplyCommit(r) ==
    /\ PurchaseAt(r, "applyFind")
    /\ purchaseCall[r].lines = {}
    /\ Commit(r, {})
    /\ applied' = applied \cup {Subject(r)}
    /\ purchaseCall' = [purchaseCall EXCEPT ![r].pc = "status"]
    /\ UNCHANGED purchase

-----------------------------------------------------------------------------
(* Process death, lost connection, deadlock victim, transaction timeout,   *)
(* and, in AUDIT_FAIL_MODE=CLOSED, an audit write that fails between the   *)
(* stock entry and the status.                                             *)
AbandonPurchaseCall(r) ==
    /\ purchaseCall[r].pc \notin {"new", "done"}
    /\ Rollback(r)
    /\ EndPurchaseCall(r)
    /\ UNCHANGED <<purchase, applied>>

ContinuePurchase(r) ==
    \/ EditDelete(r) \/ EditCommit(r)
    \/ ApplyCheck(r) \/ ApplyReadLines(r) \/ ApplyInsert(r) \/ ApplyFind(r)
    \/ ApplyPlaceholder(r) \/ ApplyWrite(r) \/ ApplyCommit(r)
    \/ StatusWrite(r)

PurchaseStep(r) ==
    \/ CreatePurchase(r) \/ EditRead(r) \/ TransitionRead(r)
    \/ ContinuePurchase(r)
    \/ AbandonPurchaseCall(r)

PurchasesNext == \E r \in PurchaseRequests : PurchaseStep(r)

PurchasesSpec == DbInit /\ PurchasesInit /\ [][PurchasesNext]_purchaseVars
-----------------------------------------------------------------------------
(* Type invariant of the purchase handlers and of the tables they share.   *)
PurchasesTypeOK ==
    /\ DbTypeOK
    /\ purchase \in [Purchases -> Purchase]
    /\ applied \in SUBSET Purchases
    /\ purchaseCall \in [PurchaseRequests -> PurchaseCall]

(* A handler that has read a purchase knows which one, and the line it is  *)
(* about to enter fits.  The stored total is left out: it is a sum.        *)
PurchaseShape(q) ==
    /\ {"status", "lines", "total", "stamps"} \subseteq DOMAIN q
    /\ q.status \in PurchaseStatus \cup {"NONE"}
    /\ q.lines \in SUBSET PurchaseLine
    /\ q.stamps \in SUBSET PurchaseStatus

PurchasesInv ==
    /\ DbInv
    /\ DOMAIN purchase = Purchases
    /\ \A p \in Purchases : PurchaseShape(purchase[p])
    /\ applied \in SUBSET Purchases
    /\ purchaseCall \in [PurchaseRequests -> PurchaseCall]
    /\ \A r \in PurchaseRequests :
          /\ purchaseCall[r].pc \notin {"new", "done"} => purchaseCall[r].purchase \in Purchases
          /\ purchaseCall[r].pc = "applyWrite" =>
                /\ purchaseCall[r].row \in Rows
                /\ \A line \in purchaseCall[r].line : purchaseCall[r].before + line.qty <= MaxQty

(* The movements that entered purchase p into row x.                       *)
Received(p, x) == Goods(ledger[x], p)

Delta(x, i) == ledger[x][i].after - ledger[x][i].before

(* The units that entered stock for purchase p.                            *)
UnitsReceived(p) ==
    SumFunction([x \in Rows |-> SumFunction([i \in Received(p, x) |-> Delta(x, i)])])

(* Goods of a purchase enter stock in one commit, the one that records the *)
(* application, and never again: however often RECEIVED is requested,      *)
(* concurrently or after a crash between stock and status.                 *)
AppliedOnce ==
    [][\A p \in Purchases :
          (\E x \in Rows : Received(p, x)' # Received(p, x)) => p \notin applied /\ p \in applied']_purchaseVars

(* A purchase is RECEIVED only when its goods are in stock: the status is  *)
(* written after the stock transaction has committed.                      *)
ReceivedIsInStock ==
    \A p \in Purchases : purchase[p].status = "RECEIVED" =>
        p \in applied /\ \E x \in Rows : Received(p, x) # {}

(* ReceivedIsInStock with what makes it inductive.  The movements of a     *)
(* purchase that are pending belong to the one transaction whose open      *)
(* INSERT keeps others of that purchase waiting; a receipt that has worked *)
(* through its lines has some pending; a handler about to write RECEIVED   *)
(* has seen the application row, which is never deleted; and no purchase   *)
(* loses its lines.                                                        *)
GoodsPending(r, p) == \E x \in Rows : Goods(tx[r].moves[x], p) # {}

ReceiptInv ==
    /\ \A p \in Purchases :
          /\ purchase[p].status = "RECEIVED" => p \in applied
          /\ purchase[p].status # "NONE" => purchase[p].lines # {}
          /\ p \in applied => \E x \in Rows : Received(p, x) # {}
    /\ \A r \in Requests, p \in Purchases : GoodsPending(r, p) => r \in PurchaseRequests /\ Applying(r, p)
    /\ \A r \in PurchaseRequests, p \in Purchases : Applying(r, p) =>
          /\ p \notin applied
          /\ \A q \in PurchaseRequests \ {r} : ~Applying(q, p)
          /\ purchaseCall[r].lines # {} \/ GoodsPending(r, p)
    /\ \A r \in PurchaseRequests :
          /\ purchaseCall[r].pc \notin {"new", "done"} => purchase[Subject(r)].lines # {}
          /\ purchaseCall[r].pc \in {"edit", "editCommit", "applyInsert"} => purchaseCall[r].lines # {}
          /\ PurchaseAt(r, "status") /\ purchaseCall[r].target = "RECEIVED" => Subject(r) \in applied

(* The stored total of a purchase is the sum of its lines.                 *)
TotalMatchesLines == \A p \in Purchases : purchase[p].total = Total(purchase[p].lines)

(* The units a purchase put into stock are the units of its lines.         *)
StockMatchesLines == \A p \in applied : UnitsReceived(p) = Total(purchase[p].lines)

(* RECEIVED is a final status.                                             *)
ReceivedIsFinal ==
    [][\A p \in Purchases : purchase[p].status = "RECEIVED" => purchase'[p].status = "RECEIVED"]_purchaseVars
=============================================================================
