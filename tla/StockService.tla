---------------------------- MODULE StockService ----------------------------
(***************************************************************************)
(* StockService (apps/api/src/stock/stock.service.ts): the handlers that   *)
(* create, edit, adjust and bulk-add stock items.  Each request runs one   *)
(* handler.  A handler that reads, validates in memory and writes later is *)
(* as many actions as it has database round trips that another request can *)
(* come between; "pc" names the next one.                                  *)
(***************************************************************************)
EXTENDS Database

CONSTANTS
    StockRequests,
    Quantities,   \* quantities a client may send to an entry or a bulk add
    Changes,      \* quantityChange values a client may send to adjustStock
    Edits,        \* bodies (status, imei, sku) a client may send
    BulkOrders,   \* bodies of bulkAddStock, already summed per item
    Keep          \* "field absent from the body"

(* The columns a body may set, and Keep where it is silent.                *)
EditBody == [status : StockStatus \cup {Keep}, imei : Imeis \cup {Keep}, sku : Skus \cup {Keep}]

ASSUME StockInputs ==
    /\ StockRequests \subseteq Requests
    /\ Quantities \subseteq 1..MaxQty
    /\ Changes \subseteq Int
    /\ Edits \subseteq EditBody
    /\ BulkOrders \subseteq [Items -> Nat]
    /\ Keep \notin StockStatus \cup Imeis \cup Skus

VARIABLE call   \* per request, the local variables of its handler

stockVars == <<stock, ledger, tx, call>>

(* createStockEntry takes a status; its IMEIs come apart and it has no sku. *)
EntryBodies == {edit \in Edits : edit.imei = Keep /\ edit.sku = Keep}

NoEdit == [status |-> Keep, imei |-> Keep, sku |-> Keep]

Call ==
    [pc     : {"new", "entry", "create", "update", "delete", "restore", "adjust",
               "bulkFind", "bulkWrite", "done"},
     row    : Rows \cup {NoRow},
     before : 0..MaxQty,
     after  : 0..MaxQty,
     item   : Items \cup {NoItem},
     imeis  : SUBSET Imeis,
     asked  : [Items -> Nat],
     orders : [Items -> Nat],
     failed : BOOLEAN,
     edit   : EditBody]

NewCall ==
    [pc |-> "new", row |-> NoRow, before |-> 0, after |-> 0, item |-> NoItem,
     imeis |-> {}, asked |-> [i \in Items |-> 0], orders |-> [i \in Items |-> 0], failed |-> FALSE, edit |-> NoEdit]

StockInit == call = [r \in StockRequests |-> NewCall]

At(r, pc) == call[r].pc = pc
Finish(r) == call' = [call EXCEPT ![r] = [NewCall EXCEPT !.pc = "done"]]

(* The handler answers with an error before it has written anything.       *)
Reject(r) == Finish(r) /\ UNCHANGED dbVars

Active(x) == stock[x].state = "active"

NewRow(item, qty) == [Missing EXCEPT !.state = "active", !.item = item, !.qty = qty]

(* The columns a body sets; an absent field keeps the row's value.         *)
Edited(row, edit) ==
    [row EXCEPT !.status = IF edit.status = Keep THEN @ ELSE edit.status,
                !.imei = IF edit.imei = Keep THEN @ ELSE edit.imei,
                !.sku = IF edit.sku = Keep THEN @ ELSE edit.sku]

-----------------------------------------------------------------------------
(* createStockEntry, IMEI mode: look for the IMEIs among the rows that are *)
(* not deleted, then insert one row of quantity 1 per IMEI.                *)
EntryCheckImeis(r) ==
    /\ At(r, "new")
    /\ \E item \in Items, imeis \in SUBSET Imeis \ {{}}, edit \in EntryBodies :
          IF \E x \in Rows : Active(x) /\ stock[x].imei \in imeis
          THEN Reject(r)
          ELSE /\ call' = [call EXCEPT ![r].pc = "entry", ![r].item = item,
                                       ![r].imeis = imeis, ![r].edit = edit]
               /\ UNCHANGED dbVars

EntryInsert(r) ==
    /\ At(r, "entry")
    /\ \E imei \in call[r].imeis :
          /\ ~ImeiPending(r, imei)
          /\ IF ImeiTaken(View(r), imei)
             THEN Rollback(r) /\ Finish(r)
             ELSE /\ \E x \in Rows :
                        /\ Fresh(x)
                        /\ WriteRow(r, x, [Edited(NewRow(call[r].item, 1), call[r].edit) EXCEPT !.imei = imei],
                                    Movement("IN", 0, 1, NoDoc))
                  /\ call' = [call EXCEPT ![r].imeis = @ \ {imei}]

EntryCommit(r) ==
    /\ At(r, "entry") /\ call[r].imeis = {}
    /\ Commit(r, {})
    /\ Finish(r)

(* createStockEntry, QUANTITY mode: one row without IMEI.                  *)
EntryQuantity(r) ==
    /\ At(r, "new")
    /\ \E item \in Items, qty \in Quantities, edit \in EntryBodies, x \in Rows :
          /\ Fresh(x)
          /\ CommitRow(r, x, Edited(NewRow(item, qty), edit), <<Movement("IN", 0, qty, NoDoc)>>)
    /\ Finish(r)

(* createStockItem: the legacy path.  Its IMEI check sees deleted rows too *)
(* and its INSERT refers to a placeholder catalogue item.                  *)
CreateCheckImei(r) ==
    /\ At(r, "new")
    /\ \E edit \in Edits, qty \in Quantities :
          IF edit.imei # Keep /\ (qty # 1 \/ ImeiTaken(stock, edit.imei))
          THEN Reject(r)
          ELSE /\ call' = [call EXCEPT ![r].pc = "create", ![r].after = qty, ![r].edit = edit]
               /\ UNCHANGED dbVars

CreateInsert(r) ==
    /\ At(r, "create")
    /\ LET edit == call[r].edit
           qty == call[r].after
       IN  /\ edit.imei # Keep => ~ImeiPending(r, edit.imei)
           /\ IF LegacyItem \notin Items \/ (edit.imei # Keep /\ ImeiTaken(stock, edit.imei))
              THEN UNCHANGED dbVars
              ELSE \E x \in Rows :
                      /\ Fresh(x)
                      /\ CommitRow(r, x, Edited(NewRow(LegacyItem, qty), edit),
                                   <<Movement("IN", 0, qty, NoDoc)>>)
    /\ Finish(r)

-----------------------------------------------------------------------------
UpdateRefused(x, edit) ==
    \/ ~Active(x)
    \/ edit.imei # Keep /\ edit.imei # stock[x].imei /\ ImeiTaken(stock, edit.imei)
    \/ edit.status = "AVAILABLE" /\ stock[x].status = "SOLD"

(* updateStockItem: validate against the row as read, then one blind       *)
(* UPDATE of the fields the body carries.  The quantity is never touched.  *)
UpdateRead(r) ==
    /\ At(r, "new")
    /\ \E x \in Rows, edit \in Edits :
          IF UpdateRefused(x, edit)
          THEN Reject(r)
          ELSE /\ call' = [call EXCEPT ![r].pc = "update", ![r].row = x, ![r].edit = edit]
               /\ UNCHANGED dbVars

UpdateWrite(r) ==
    /\ At(r, "update")
    /\ LET x == call[r].row
           edit == call[r].edit
           others == [y \in Rows |-> IF y = x THEN Missing ELSE stock[y]]
       IN  /\ edit.imei # Keep => ~ImeiPending(r, edit.imei)
           /\ IF edit.imei # Keep /\ ImeiTaken(others, edit.imei)
              THEN UNCHANGED dbVars
              ELSE CommitRow(r, x, Edited(stock[x], edit), <<>>)
    /\ Finish(r)

(* deleteStockItem and restoreStockItem set and clear deletedAt.           *)
DeleteRead(r) ==
    /\ At(r, "new")
    /\ \E x \in Rows :
          IF Active(x) THEN /\ call' = [call EXCEPT ![r].pc = "delete", ![r].row = x]
                            /\ UNCHANGED dbVars
                       ELSE Reject(r)

DeleteWrite(r) ==
    /\ At(r, "delete")
    /\ CommitRow(r, call[r].row, [stock[call[r].row] EXCEPT !.state = "deleted"], <<>>)
    /\ Finish(r)

RestoreRead(r) ==
    /\ At(r, "new")
    /\ \E x \in Rows :
          IF stock[x].state = "deleted"
          THEN /\ call' = [call EXCEPT ![r].pc = "restore", ![r].row = x]
               /\ UNCHANGED dbVars
          ELSE Reject(r)

RestoreWrite(r) ==
    /\ At(r, "restore")
    /\ CommitRow(r, call[r].row, [stock[call[r].row] EXCEPT !.state = "active"], <<>>)
    /\ Finish(r)

-----------------------------------------------------------------------------
(* Fault: the result of the change unchecked.                              *)
AdjustRefusedIfDeleted(x, change) == ~Active(x)

AdjustRefused(x, change) ==
    ~Active(x) \/ stock[x].qty + change < 0 \/ stock[x].qty + change > MaxQty

(* adjustStock: inside a READ COMMITTED transaction read the row, add the  *)
(* change in memory, and write the absolute result.                        *)
AdjustRead(r) ==
    /\ At(r, "new")
    /\ \E x \in Rows, change \in Changes :
          IF AdjustRefused(x, change)
          THEN Reject(r)
          ELSE /\ call' = [call EXCEPT ![r].pc = "adjust", ![r].row = x, ![r].before = stock[x].qty,
                                       ![r].after = stock[x].qty + change]
               /\ UNCHANGED dbVars

AdjustWrite(r) ==
    /\ At(r, "adjust")
    /\ LET x == call[r].row
       IN  CommitRow(r, x, [stock[x] EXCEPT !.qty = call[r].after],
                     <<Movement("ADJUST", call[r].before, call[r].after, NoDoc)>>)
    /\ Finish(r)

-----------------------------------------------------------------------------
(* bulkAddStock: in one READ COMMITTED transaction, for each item of the   *)
(* order find its newest row without IMEI, add to it, or create a row.  An *)
(* error on one item is caught and noted, the other items go on, and only  *)
(* the throw after the loop rolls every item back.                         *)
BulkStart(r) ==
    /\ At(r, "new")
    /\ \E orders \in BulkOrders :
          call' = [call EXCEPT ![r].pc = "bulkFind", ![r].asked = orders, ![r].orders = orders]
    /\ UNCHANGED dbVars

Ordered(r) == {i \in Items : call[r].orders[i] > 0}

(* Fault: deleted rows not filtered out.                                   *)
NonSerializedOrDeleted(r, item) ==
    {x \in Rows : LET row == View(r)[x]
                  IN  row.state # "absent" /\ row.item = item /\ row.imei = NoImei}

NonSerialized(r, item) ==
    {x \in Rows : LET row == View(r)[x]
                  IN  row.state = "active" /\ row.item = item /\ row.imei = NoImei}

(* Quantities that the column cannot hold are refused before they reach    *)
(* the database.                                                           *)
BulkSkip(r, item) ==
    call' = [call EXCEPT ![r].failed = TRUE, ![r].orders[item] = 0] /\ UNCHANGED dbVars

(* The row that is found is only read; a second round trip writes it.      *)
BulkFind(r) ==
    /\ At(r, "bulkFind")
    /\ \E item \in Ordered(r) : \E x \in NonSerialized(r, item) :
          /\ \A y \in NonSerialized(r, item) : y <= x
          /\ LET before == View(r)[x].qty
                 after == before + call[r].orders[item]
             IN  IF after > MaxQty
                 THEN BulkSkip(r, item)
                 ELSE /\ call' = [call EXCEPT ![r].pc = "bulkWrite", ![r].row = x, ![r].item = item,
                                              ![r].before = before, ![r].after = after]
                      /\ UNCHANGED dbVars

(* The audit row of an item may fail after the item is written (in mode    *)
(* CLOSED of the audit).                                                   *)
BulkCreate(r) ==
    /\ At(r, "bulkFind")
    /\ \E item \in Ordered(r) :
          LET after == call[r].orders[item]
          IN  /\ NonSerialized(r, item) = {}
              /\ IF after > MaxQty
                 THEN BulkSkip(r, item)
                 ELSE /\ \E x \in Rows :
                            Fresh(x) /\ WriteRow(r, x, NewRow(item, after), Movement("IN", 0, after, NoDoc))
                      /\ \E auditFails \in BOOLEAN :
                            call' = [call EXCEPT ![r].orders[item] = 0, ![r].failed = @ \/ auditFails]

BulkWrite(r) ==
    /\ At(r, "bulkWrite")
    /\ LET x == call[r].row
       IN  WriteRow(r, x, [View(r)[x] EXCEPT !.qty = call[r].after],
                    Movement("IN", call[r].before, call[r].after, NoDoc))
    /\ \E auditFails \in BOOLEAN :
          call' = [call EXCEPT ![r].pc = "bulkFind", ![r].row = NoRow, ![r].orders[call[r].item] = 0,
                               ![r].failed = @ \/ auditFails]

(* Fault: the errors are reported, not thrown.                             *)
BulkEndsReporting(r) == Commit(r, {})

BulkEnds(r) == IF call[r].failed THEN Rollback(r) ELSE Commit(r, {})

BulkCommit(r) ==
    /\ At(r, "bulkFind") /\ Ordered(r) = {}
    /\ BulkEnds(r)
    /\ Finish(r)

-----------------------------------------------------------------------------
(* The API process dies, the connection is lost, or Prisma's five-second   *)
(* limit on interactive transactions ends the handler.                     *)
Abandon(r) ==
    /\ call[r].pc \notin {"new", "done"}
    /\ Rollback(r)
    /\ Finish(r)

Continue(r) ==
    \/ EntryInsert(r) \/ EntryCommit(r) \/ CreateInsert(r)
    \/ UpdateWrite(r) \/ DeleteWrite(r) \/ RestoreWrite(r) \/ AdjustWrite(r)
    \/ BulkFind(r) \/ BulkCreate(r) \/ BulkWrite(r) \/ BulkCommit(r)

StockStep(r) ==
    \/ EntryCheckImeis(r) \/ EntryQuantity(r) \/ CreateCheckImei(r)
    \/ UpdateRead(r) \/ DeleteRead(r) \/ RestoreRead(r) \/ AdjustRead(r) \/ BulkStart(r)
    \/ Continue(r)
    \/ Abandon(r)

StockNext == \E r \in StockRequests : StockStep(r)

StockSpec == DbInit /\ StockInit /\ [][StockNext]_stockVars

-----------------------------------------------------------------------------
(* Type invariant of the stock handlers and of the tables they share.      *)
StockTypeOK == DbTypeOK /\ call \in [StockRequests -> Call]

(* A handler that is about to write a row has one to write.                *)
StockInv ==
    /\ DbInv
    /\ StockTypeOK
    /\ \A r \in StockRequests :
          call[r].pc \in {"update", "delete", "restore", "adjust", "bulkWrite"} => call[r].row \in Rows

(* Only createStockEntry and bulkAddStock hold locks between their steps.  *)
StockHolds == \A r \in StockRequests : tx[r].own # {} => call[r].pc \in {"entry", "bulkFind", "bulkWrite"}

(* updateStockItem gives an IMEI only to a row that exists: rows are       *)
(* deleted softly.                                                         *)
EditsExisting == \A r \in StockRequests : At(r, "update") => stock[call[r].row].state # "absent"

LastChange(history) == LET m == history[Len(history)] IN m.after - m.before

(* A bulk add that commits anything has added, to some row of each item,   *)
(* all the units asked for of that item: an error caught in the middle,    *)
(* after other items or even the item itself was written, leaves nothing.  *)
BulkAddsAllOrNothing ==
    [][\A r \in StockRequests :
          At(r, "bulkFind") /\ call'[r].pc = "done" /\ ledger' # ledger =>
             \A i \in Items : call[r].asked[i] > 0 =>
                \E x \in tx[r].own : /\ stock'[x].item = i
                                     /\ LastChange(ledger'[x]) = call[r].asked[i]]_stockVars

(* The stock handlers leave the quantity of a deleted item alone:          *)
(* adjustStock and bulkAddStock look for deletedAt = null first.           *)
DeletedIsFrozen ==
    [][call' # call => \A x \in Rows : stock[x].state = "deleted" => stock'[x].qty = stock[x].qty]_stockVars
=============================================================================
