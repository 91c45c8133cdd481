------------------------------ MODULE Database ------------------------------
(***************************************************************************)
(* The two PostgreSQL tables that every inventory handler of the API       *)
(* shares, StockItem and StockMovement, and the transactions in which the  *)
(* handlers change them.  One organization is modelled: every query of the *)
(* code filters by organizationId and no handler crosses organizations.    *)
(*                                                                         *)
(* A handler writes a row inside a Prisma interactive transaction: the     *)
(* UPDATE or INSERT takes the row's lock, the new version stays private to *)
(* the transaction, and COMMIT publishes rows and movements together.      *)
(* Transactions run at READ COMMITTED unless the code asks for             *)
(* Serializable; a serializable transaction must fail when it updates a    *)
(* row that somebody committed after its snapshot.                         *)
(*                                                                         *)
(* An operator under the comment "Fault" is a wrong variant of the one     *)
(* that follows.  Nothing uses it: put in its place, it must break the     *)
(* property it is meant for.                                               *)
(***************************************************************************)
EXTENDS Integers, Sequences, FiniteSets

CONSTANTS
    Requests,   \* HTTP calls; each runs one handler once
    Rows,       \* StockItem ids, numbered in the order of their createdAt
    Items,      \* rows of the catalogue table Item that StockItem refers to
    NoItem,     \* stands for the item of a row that does not exist yet
    LegacyItem, \* the hard-coded item id of the legacy creation paths
    Imeis, NoImei,
    Skus, NoSku,
    Sales, Purchases, NoDoc,
    MaxQty,     \* largest value of the INTEGER column StockItem.quantity
    NoRow,      \* "no stock item" in a nullable reference
    Seed        \* the StockItem table the system starts from

StockStatus == {"AVAILABLE", "RESERVED", "SOLD", "DAMAGED", "RETURNED", "CANCELLED"}

(* A StockItem row: "absent" until its INSERT commits, "deleted" while     *)
(* deletedAt is set.  Only the columns that the handlers test are kept.    *)
StockItem ==
    [state  : {"absent", "active", "deleted"},
     qty    : 0..MaxQty,
     status : StockStatus,
     imei   : Imeis \cup {NoImei},
     sku    : Skus \cup {NoSku},
     item   : Items \cup {NoItem}]

Missing == [state |-> "absent", qty |-> 0, status |-> "AVAILABLE",
            imei |-> NoImei, sku |-> NoSku, item |-> NoItem]

Documents == Sales \cup Purchases \cup {NoDoc}

(* A StockMovement row.  doc is its saleId, or the purchaseId that its     *)
(* metadata carries.  The column quantity is after - before.               *)
StockMovement ==
    [type : {"IN", "ADJUST", "SOLD"}, before : 0..MaxQty, after : 0..MaxQty, doc : Documents]

(* Fault: the quantities swapped.                                          *)
MovementSwapped(type, before, after, doc) ==
    [type |-> type, before |-> after, after |-> before, doc |-> doc]

Movement(type, before, after, doc) ==
    [type |-> type, before |-> before, after |-> after, doc |-> doc]

ASSUME RowsAssumption == Rows \subseteq Nat /\ MaxQty \in Nat \ {0}

ASSUME SentinelAssumption ==
    /\ NoItem \notin Items /\ NoImei \notin Imeis /\ NoSku \notin Skus
    /\ NoDoc \notin Sales \cup Purchases /\ Sales \cap Purchases = {}
    /\ NoRow \notin Rows

ASSUME SeedAssumption ==
    /\ Seed \in [Rows -> StockItem]
    /\ \A x \in Rows : Seed[x].state = "absent" => Seed[x] = Missing
    /\ \A x, y \in Rows : x # y /\ Seed[x].imei # NoImei => Seed[x].imei # Seed[y].imei

VARIABLES
    stock,   \* the committed StockItem table
    ledger,  \* per row, its committed StockMovement rows in insertion order
    tx       \* per request, the open transaction

dbVars == <<stock, ledger, tx>>

(* own: the rows whose locks the transaction holds; buf: their versions as *)
(* the transaction sees them; moves: the movements it has inserted; ser:   *)
(* it is serializable and has its snapshot; stale: the rows and sales that *)
(* others committed since that snapshot.                                   *)
Transaction ==
    [own : SUBSET Rows, buf : [Rows -> StockItem], moves : [Rows -> Seq(StockMovement)],
     ser : BOOLEAN, stale : SUBSET (Rows \cup Sales)]

NoTransaction ==
    [own |-> {}, buf |-> [x \in Rows |-> Missing], moves |-> [x \in Rows |-> <<>>],
     ser |-> FALSE, stale |-> {}]

(* A row that exists at the start was entered with createStockEntry: one   *)
(* IN movement from 0.                                                     *)
InitialLedger(x) ==
    IF Seed[x].state = "absent" THEN <<>>
    ELSE <<Movement("IN", 0, Seed[x].qty, NoDoc)>>

DbInit ==
    /\ stock = Seed
    /\ ledger = [x \in Rows |-> InitialLedger(x)]
    /\ tx = [r \in Requests |-> NoTransaction]

(* What a statement of r sees: its own versions over the committed ones.   *)
View(r) == [x \in Rows |-> IF x \in tx[r].own THEN tx[r].buf[x] ELSE stock[x]]

(* No other transaction holds the lock of row x.                           *)
Unlocked(r, x) == \A q \in Requests \ {r} : x \notin tx[q].own

(* Ids are handed out in insertion order, so a new row is the newest one.  *)
Fresh(x) ==
    LET used == {y \in Rows : stock[y].state # "absent" \/ \E q \in Requests : y \in tx[q].own}
    IN  /\ \A y \in used : y < x
        /\ \A y \in Rows : (\A z \in used : z < y) => x <= y

(* Fault: an index that leaves soft-deleted rows out.                      *)
ImeiTakenByActive(view, imei) == \E y \in Rows : view[y].state = "active" /\ view[y].imei = imei

(* The unique index on (organizationId, imei) covers soft-deleted rows.    *)
ImeiTaken(view, imei) == \E y \in Rows : view[y].state # "absent" /\ view[y].imei = imei

(* An INSERT of the same IMEI by an open transaction makes the second      *)
(* INSERT or UPDATE wait until the first ends.                             *)
ImeiPending(r, imei) ==
    \E q \in Requests \ {r} : \E y \in tx[q].own : tx[q].buf[y].imei = imei /\ stock[y].imei # imei

(* The first statement of a serializable transaction takes its snapshot.   *)
BeginSerializable(r) ==
    /\ tx' = [tx EXCEPT ![r].ser = TRUE, ![r].stale = {}]
    /\ UNCHANGED <<stock, ledger>>

(* Fault: a statement that runs outside its transaction.                   *)
WriteRowAtOnce(r, x, v, m) ==
    /\ Unlocked(r, x)
    /\ stock' = [stock EXCEPT ![x] = v]
    /\ ledger' = [ledger EXCEPT ![x] = Append(@, m)]
    /\ UNCHANGED tx

(* A statement of r writes version v of row x and inserts movement m.      *)
WriteRow(r, x, v, m) ==
    /\ Unlocked(r, x)
    /\ tx' = [tx EXCEPT ![r].own = @ \cup {x},
                        ![r].buf[x] = v,
                        ![r].moves[x] = Append(@, m)]
    /\ UNCHANGED <<stock, ledger>>

(* Every open serializable transaction but r's learns that keys changed.   *)
Outdate(r, keys) ==
    [q \in Requests |->
        IF q = r THEN NoTransaction
        ELSE IF tx[q].ser THEN [tx[q] EXCEPT !.stale = @ \cup keys] ELSE tx[q]]

(* COMMIT of r, whose last statements also wrote the rows docs of Sale.    *)
Commit(r, docs) ==
    /\ stock' = View(r)
    /\ ledger' = [x \in Rows |-> ledger[x] \o tx[r].moves[x]]
    /\ tx' = Outdate(r, tx[r].own \cup docs)

(* Fault: an error that leaves the transaction and its locks open.         *)
RollbackKeepsLocks(r) == UNCHANGED dbVars

(* ROLLBACK, or an error that ends the transaction.                        *)
Rollback(r) ==
    /\ tx' = [tx EXCEPT ![r] = NoTransaction]
    /\ UNCHANGED <<stock, ledger>>

(* Fault: a quantity written without its movement.                         *)
CommitRowWithoutMovements(r, x, v, ms) ==
    /\ Unlocked(r, x)
    /\ stock' = [stock EXCEPT ![x] = v]
    /\ tx' = Outdate(r, {x})
    /\ UNCHANGED ledger

(* A transaction, or a statement outside one, whose only stock write is    *)
(* version v of row x with the movements ms: between its lock and its      *)
(* COMMIT nobody can see or change anything of it.                         *)
CommitRow(r, x, v, ms) ==
    /\ Unlocked(r, x)
    /\ stock' = [stock EXCEPT ![x] = v]
    /\ ledger' = [ledger EXCEPT ![x] = @ \o ms]
    /\ tx' = Outdate(r, {x})

(* A single-statement UPDATE of the rows docs of another table.            *)
CommitDocs(r, docs) ==
    /\ tx' = Outdate(r, docs)
    /\ UNCHANGED <<stock, ledger>>

-----------------------------------------------------------------------------
DbTypeOK ==
    /\ stock \in [Rows -> StockItem]
    /\ ledger \in [Rows -> Seq(StockMovement)]
    /\ tx \in [Requests -> Transaction]

(* The quantity a movement history ends in.                                *)
OnHand(history) == IF history = <<>> THEN 0 ELSE history[Len(history)].after

(* The movements in a history that brought in the goods of purchase p.     *)
Goods(history, p) == {i \in DOMAIN history : history[i].doc = p}

(* The committed quantity of every stock item is the one its last          *)
(* committed movement ends in, whichever handlers raced to write it:       *)
(* quantity and movement are always written by the same transaction under  *)
(* the row's lock.                                                         *)
QuantityIsLastMovement == \A x \in Rows : stock[x].qty = OnHand(ledger[x])

(* A row's lock has one holder, and the movements a transaction has        *)
(* inserted for a row it locked end in the quantity it has written there:  *)
(* what COMMIT publishes is consistent.                                    *)
LocksExclusive == \A r, q \in Requests : r # q => tx[r].own \cap tx[q].own = {}

BuffersMatch ==
    \A r \in Requests, x \in Rows :
        IF x \in tx[r].own
        THEN tx[r].moves[x] # <<>> /\ tx[r].buf[x].qty = OnHand(tx[r].moves[x])
        ELSE tx[r].moves[x] = <<>>

(* The inductive invariant of the two tables and their transactions.       *)
DbInv == DbTypeOK /\ LocksExclusive /\ BuffersMatch /\ QuantityIsLastMovement

(* Two stock items of the organization never carry the same IMEI, deleted  *)
(* ones included, although handlers check for it long before they insert.  *)
ImeiUnique ==
    \A x, y \in Rows :
        x # y /\ stock[x].state # "absent" /\ stock[y].state # "absent" /\ stock[x].imei # NoImei
            => stock[x].imei # stock[y].imei

(* ImeiUnique with what makes it inductive.  A row is as committed, or as  *)
(* the transaction that holds it is about to leave it.  No version of a    *)
(* row has an IMEI that a version of another row has; a row that does not  *)
(* exist has none; and a transaction that holds a row that exists neither  *)
(* removes it nor changes its IMEI.                                        *)
Versions(x) == {stock[x]} \cup {tx[q].buf[x] : q \in {r \in Requests : x \in tx[r].own}}

ImeiInv ==
    /\ \A x, y \in Rows : x # y =>
          \A v \in Versions(x), w \in Versions(y) : v.imei # NoImei => v.imei # w.imei
    /\ \A x \in Rows : \A v \in Versions(x) : v.state = "absent" => v.imei = NoImei
    /\ \A r \in Requests : \A x \in tx[r].own :
          /\ stock[x].state # "absent" => tx[r].buf[x].state # "absent"
          /\ stock[x].imei # NoImei => tx[r].buf[x].imei = stock[x].imei

(* Every movement starts from the quantity the previous movement of the    *)
(* row ended in: "quantityBefore" is the quantity before the movement.     *)
LedgerContinuous ==
    \A x \in Rows : \A i \in DOMAIN ledger[x] :
        ledger[x][i].before = IF i = 1 THEN 0 ELSE ledger[x][i-1].after
=============================================================================
