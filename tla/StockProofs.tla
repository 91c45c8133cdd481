---------------------------- MODULE StockProofs -----------------------------
(***************************************************************************)
(* Every step of every stock handler preserves StockInv: one step of the   *)
(* proof per action, each reduced to the statement the action makes.       *)
(***************************************************************************)
EXTENDS StockService, DatabaseProofs

(* The rows that the handlers build are well-formed.                       *)
LEMMA NewRowType ==
    ASSUME NEW item \in Items \cup {NoItem}, NEW qty \in 0..MaxQty
    PROVE  NewRow(item, qty) \in StockItem /\ NewRow(item, qty).qty = qty
  BY DEF NewRow, Missing, StockItem, StockStatus

(* An edited row is a row.                                                 *)
LEMMA EditedType ==
    ASSUME NEW row \in StockItem, NEW edit \in EditBody
    PROVE  Edited(row, edit) \in StockItem /\ Edited(row, edit).qty = row.qty
  BY StockInputs DEF Edited, StockItem, EditBody

(* A new row with a body's columns is a row.                               *)
LEMMA NewEditedType ==
    ASSUME NEW item \in Items \cup {NoItem}, NEW qty \in 0..MaxQty, NEW edit \in EditBody
    PROVE  Edited(NewRow(item, qty), edit) \in StockItem /\ Edited(NewRow(item, qty), edit).qty = qty
  <1>1. NewRow(item, qty) \in StockItem /\ NewRow(item, qty).qty = qty
    BY NewRowType
  <1> QED
    BY <1>1, EditedType

(* Setting deletedAt does not change what kind of row it is.               *)
LEMMA StateType ==
    ASSUME NEW row \in StockItem, NEW state \in {"active", "deleted"}
    PROVE  [row EXCEPT !.state = state] \in StockItem /\ [row EXCEPT !.state = state].qty = row.qty
  BY DEF StockItem

(* A row with another legal quantity is a row.                             *)
LEMMA QtyType ==
    ASSUME NEW row \in StockItem, NEW qty \in 0..MaxQty
    PROVE  [row EXCEPT !.qty = qty] \in StockItem /\ [row EXCEPT !.qty = qty].qty = qty
  BY DEF StockItem

(* A movement between legal quantities is a movement.                      *)
LEMMA MovementType ==
    ASSUME NEW type \in {"IN", "ADJUST", "SOLD"}, NEW before \in 0..MaxQty,
           NEW after \in 0..MaxQty, NEW doc \in Documents
    PROVE  /\ Movement(type, before, after, doc) \in StockMovement
           /\ Movement(type, before, after, doc).after = after
           /\ <<Movement(type, before, after, doc)>> \in Seq(StockMovement)
           /\ <<Movement(type, before, after, doc)>> # <<>>
           /\ OnHand(<<Movement(type, before, after, doc)>>) = after
  BY DEF Movement, StockMovement, OnHand

(* The rows of the handlers' local variables.                              *)
StockCallOK(c) ==
    /\ c \in Call
    /\ c.pc \in {"update", "delete", "restore", "adjust", "bulkWrite"} => c.row \in Rows

(* A handler that changes its own well-formed variables into well-formed   *)
(* ones, over tables that satisfy DbInv, preserves the invariant.          *)
LEMMA CallStep ==
    ASSUME StockInv, NEW r \in StockRequests, NEW c, StockCallOK(c),
           call' = [call EXCEPT ![r] = c], DbInv'
    PROVE  StockInv'
  BY DEF StockInv, StockTypeOK, StockCallOK, DbInv

(* What a handler starts from.                                             *)
LEMMA NewCallType == NewCall \in Call /\ NewCall.pc = "new"
  <1>1. NoEdit \in EditBody /\ [i \in Items |-> 0] \in [Items -> Nat]
    BY DEF NoEdit, EditBody
  <1> QED
    BY <1>1, RowsAssumption DEF NewCall, Call

(* A handler ends.                                                         *)
LEMMA FinishStep ==
    ASSUME StockInv, NEW r \in StockRequests, Finish(r), DbInv'
    PROVE  StockInv'
  <1>1. NewCall \in Call
    BY NewCallType
  <1>2. StockCallOK([NewCall EXCEPT !.pc = "done"])
    BY <1>1 DEF StockCallOK, Call
  <1> QED
    BY <1>2, CallStep DEF Finish

(* A handler ends before it has written anything.                          *)
LEMMA RejectStep ==
    ASSUME StockInv, NEW r \in StockRequests, Reject(r)
    PROVE  StockInv'
  BY DbUnchanged, FinishStep DEF Reject, StockInv

(* A handler dies and its transaction rolls back.                          *)
LEMMA AbandonStep ==
    ASSUME StockInv, NEW r \in StockRequests, Rollback(r), Finish(r)
    PROVE  StockInv'
  BY StockInputs, RollbackInv, FinishStep DEF StockInv

(* What the proof of every handler starts from.                            *)
LEMMA CallFacts ==
    ASSUME StockInv, NEW r \in StockRequests
    PROVE  /\ r \in Requests /\ call \in [StockRequests -> Call] /\ call[r] \in Call
           /\ DbInv /\ stock \in [Rows -> StockItem] /\ View(r) \in [Rows -> StockItem]
           /\ NoDoc \in Documents /\ 0 \in 0..MaxQty /\ 1 \in 0..MaxQty
           /\ Quantities \subseteq 0..MaxQty
           /\ <<>> \in Seq(StockMovement)
  BY StockInputs, RowsAssumption, ViewType DEF StockInv, StockTypeOK, DbInv, DbTypeOK, Documents

(* A bulk add goes on with its items until it ends.                        *)
LEMMA BulkGoesOn ==
    ASSUME StockInv, NEW r \in StockRequests, BulkFind(r) \/ BulkCreate(r) \/ BulkWrite(r)
    PROVE  call'[r].pc \in {"bulkFind", "bulkWrite"}
  <1> USE CallFacts
  <1>1. ASSUME NEW item, call[r].pc = "bulkFind", BulkSkip(r, item) PROVE call'[r].pc = "bulkFind"
    <2>1. call' = [call EXCEPT ![r] = [call[r] EXCEPT !.failed = TRUE, !.orders[item] = 0]]
      BY <1>1 DEF BulkSkip
    <2> QED
      BY <1>1, <2>1 DEF Call
  <1>2. ASSUME NEW item, NEW auditFails, call[r].pc = "bulkFind",
               call' = [call EXCEPT ![r].orders[item] = 0, ![r].failed = @ \/ auditFails]
        PROVE  call'[r].pc = "bulkFind"
    <2>1. call' = [call EXCEPT ![r] = [call[r] EXCEPT !.orders[item] = 0, !.failed = @ \/ auditFails]]
      BY <1>2
    <2> QED
      BY <1>2, <2>1 DEF Call
  <1>3. ASSUME NEW x, NEW item, NEW before, NEW after,
               call' = [call EXCEPT ![r].pc = "bulkWrite", ![r].row = x, ![r].item = item,
                                    ![r].before = before, ![r].after = after]
        PROVE  call'[r].pc = "bulkWrite"
    BY <1>3 DEF Call
  <1>4. ASSUME NEW auditFails,
               call' = [call EXCEPT ![r].pc = "bulkFind", ![r].row = NoRow, ![r].orders[call[r].item] = 0,
                                    ![r].failed = @ \/ auditFails]
        PROVE  call'[r].pc = "bulkFind"
    <2> DEFINE d == [call[r] EXCEPT !.pc = "bulkFind", !.row = NoRow, !.orders[call[r].item] = 0,
                                    !.failed = @ \/ auditFails]
    <2>1. call' = [call EXCEPT ![r] = d]
      BY <1>4
    <2> QED
      BY <2>1 DEF Call
  <1>5. CASE BulkFind(r)
    BY <1>1, <1>3, <1>5 DEF BulkFind, At
  <1>6. CASE BulkCreate(r)
    BY <1>1, <1>2, <1>6 DEF BulkCreate, At
  <1>7. CASE BulkWrite(r)
    BY <1>4, <1>7 DEF BulkWrite
  <1> QED
    BY <1>5, <1>6, <1>7

(* Inserting one row per IMEI, or rejecting the request for one that is    *)
(* taken.                                                                  *)
LEMMA EntryStep ==
    ASSUME StockInv, NEW r \in StockRequests,
           EntryCheckImeis(r) \/ EntryInsert(r) \/ EntryCommit(r) \/ EntryQuantity(r)
    PROVE  StockInv'
  <1> DEFINE c == call[r]
  <1> USE CallFacts
  <1>1. CASE EntryCheckImeis(r)
    <2>1. ASSUME Reject(r) PROVE StockInv'
      BY <2>1, RejectStep
    <2>2. ASSUME NEW item \in Items, NEW imeis \in SUBSET Imeis, NEW edit \in EntryBodies,
                 call' = [call EXCEPT ![r].pc = "entry", ![r].item = item,
                                      ![r].imeis = imeis, ![r].edit = edit],
                 UNCHANGED dbVars
          PROVE  StockInv'
      <3> DEFINE d == [c EXCEPT !.pc = "entry", !.item = item, !.imeis = imeis, !.edit = edit]
      <3>1. StockCallOK(d)
        BY StockInputs DEF StockCallOK, Call, EntryBodies
      <3>2. call' = [call EXCEPT ![r] = d]
        BY <2>2 DEF Call
      <3> HIDE DEF d
      <3> QED
        BY <2>2, <3>1, <3>2, CallStep, DbUnchanged
    <2> QED
      BY <1>1, <2>1, <2>2 DEF EntryCheckImeis
  <1>2. CASE EntryInsert(r)
    <2>1. ASSUME Rollback(r), Finish(r) PROVE StockInv'
      BY <2>1, AbandonStep
    <2>2. ASSUME NEW imei \in call[r].imeis, NEW x \in Rows,
                 WriteRow(r, x, [Edited(NewRow(call[r].item, 1), call[r].edit) EXCEPT !.imei = imei],
                          Movement("IN", 0, 1, NoDoc)),
                 call' = [call EXCEPT ![r].imeis = @ \ {imei}]
          PROVE  StockInv'
      <3> DEFINE d == [c EXCEPT !.imeis = @ \ {imei}]
                 edited == Edited(NewRow(call[r].item, 1), call[r].edit)
      <3>1. StockCallOK(d)
        BY <1>2 DEF StockCallOK, Call, EntryInsert, At
      <3>2. call' = [call EXCEPT ![r] = d]
        BY <2>2 DEF Call
      <3>3. imei \in Imeis /\ call[r].item \in Items \cup {NoItem} /\ call[r].edit \in EditBody
        BY <2>2 DEF Call
      <3>4. edited \in StockItem /\ edited.qty = 1
        BY <3>3, NewEditedType
      <3> HIDE DEF d, edited
      <3>5. [edited EXCEPT !.imei = imei] \in StockItem /\ [edited EXCEPT !.imei = imei].qty = 1
        BY <3>3, <3>4 DEF StockItem
      <3>6. Movement("IN", 0, 1, NoDoc) \in StockMovement /\ Movement("IN", 0, 1, NoDoc).after = 1
        BY MovementType
      <3>7. WriteRow(r, x, [edited EXCEPT !.imei = imei], Movement("IN", 0, 1, NoDoc))
        BY <2>2 DEF edited
      <3>8. DbInv'
        BY <3>5, <3>6, <3>7, WriteRowInv
      <3> QED
        BY <3>1, <3>2, <3>8, CallStep
    <2> QED
      BY <1>2, <2>1, <2>2 DEF EntryInsert
  <1>3. CASE EntryCommit(r)
    BY <1>3, CommitInv, FinishStep DEF EntryCommit
  <1>4. CASE EntryQuantity(r)
    <2>1. PICK item \in Items, qty \in Quantities, edit \in EntryBodies, x \in Rows :
             CommitRow(r, x, Edited(NewRow(item, qty), edit), <<Movement("IN", 0, qty, NoDoc)>>)
      BY <1>4 DEF EntryQuantity
    <2>2. Edited(NewRow(item, qty), edit) \in StockItem /\ Edited(NewRow(item, qty), edit).qty = qty
      BY NewEditedType, StockInputs DEF EntryBodies
    <2>3. DbInv'
      BY <2>1, <2>2, MovementType, CommitRowInv
    <2> QED
      BY <1>4, <2>3, FinishStep DEF EntryQuantity
  <1> QED
    BY <1>1, <1>2, <1>3, <1>4

(* The legacy creation path.                                               *)
LEMMA CreateStep ==
    ASSUME StockInv, NEW r \in StockRequests, CreateCheckImei(r) \/ CreateInsert(r)
    PROVE  StockInv'
  <1> DEFINE c == call[r]
  <1> USE CallFacts
  <1>1. CASE CreateCheckImei(r)
    <2>1. ASSUME Reject(r) PROVE StockInv'
      BY <2>1, RejectStep
    <2>2. ASSUME NEW edit \in Edits, NEW qty \in Quantities,
                 call' = [call EXCEPT ![r].pc = "create", ![r].after = qty, ![r].edit = edit],
                 UNCHANGED dbVars
          PROVE  StockInv'
      <3> DEFINE d == [c EXCEPT !.pc = "create", !.after = qty, !.edit = edit]
      <3>1. StockCallOK(d)
        BY StockInputs DEF StockCallOK, Call
      <3>2. call' = [call EXCEPT ![r] = d]
        BY <2>2 DEF Call
      <3> HIDE DEF d
      <3> QED
        BY <2>2, <3>1, <3>2, CallStep, DbUnchanged
    <2> QED
      BY <1>1, <2>1, <2>2 DEF CreateCheckImei
  <1>2. CASE CreateInsert(r)
    <2>1. ASSUME UNCHANGED dbVars PROVE StockInv'
      BY <1>2, <2>1, DbUnchanged, FinishStep DEF CreateInsert
    <2>2. ASSUME LegacyItem \in Items, NEW x \in Rows,
                 CommitRow(r, x, Edited(NewRow(LegacyItem, c.after), c.edit),
                           <<Movement("IN", 0, c.after, NoDoc)>>)
          PROVE  StockInv'
      <3>1. c.after \in 0..MaxQty /\ c.edit \in EditBody
        BY DEF Call
      <3>2. /\ Edited(NewRow(LegacyItem, c.after), c.edit) \in StockItem
            /\ Edited(NewRow(LegacyItem, c.after), c.edit).qty = c.after
        BY <2>2, <3>1, NewEditedType
      <3>3. DbInv'
        BY <2>2, <3>1, <3>2, MovementType, CommitRowInv
      <3> QED
        BY <1>2, <3>3, FinishStep DEF CreateInsert
    <2> QED
      BY <1>2, <2>1, <2>2 DEF CreateInsert
  <1> QED
    BY <1>1, <1>2

(* Editing, deleting and restoring a row leave its quantity alone.         *)
LEMMA UpdateStep ==
    ASSUME StockInv, NEW r \in StockRequests,
           \/ UpdateRead(r) \/ UpdateWrite(r) \/ DeleteRead(r) \/ DeleteWrite(r)
           \/ RestoreRead(r) \/ RestoreWrite(r)
    PROVE  StockInv'
  <1> DEFINE c == call[r]
  <1> USE CallFacts
  <1>1. ASSUME Reject(r) PROVE StockInv'
    BY <1>1, RejectStep
  <1>2. ASSUME NEW v \in StockItem, c.row \in Rows, v.qty = stock[c.row].qty,
               CommitRow(r, c.row, v, <<>>), Finish(r)
        PROVE  StockInv'
    <2>1. DbInv'
      BY <1>2, CommitRowInv
    <2> QED
      BY <1>2, <2>1, FinishStep
  <1>3. CASE UpdateRead(r)
    <2>1. ASSUME NEW x \in Rows, NEW edit \in Edits,
                 call' = [call EXCEPT ![r].pc = "update", ![r].row = x, ![r].edit = edit],
                 UNCHANGED dbVars
          PROVE  StockInv'
      <3> DEFINE d == [c EXCEPT !.pc = "update", !.row = x, !.edit = edit]
      <3>1. StockCallOK(d)
        BY StockInputs DEF StockCallOK, Call
      <3>2. call' = [call EXCEPT ![r] = d]
        BY <2>1 DEF Call
      <3> HIDE DEF d
      <3> QED
        BY <2>1, <3>1, <3>2, CallStep, DbUnchanged
    <2> QED
      BY <1>1, <1>3, <2>1 DEF UpdateRead
  <1>4. CASE UpdateWrite(r)
    <2>1. c.row \in Rows /\ c.edit \in EditBody
      BY <1>4 DEF UpdateWrite, At, StockInv, Call
    <2>2. Edited(stock[c.row], c.edit) \in StockItem /\ Edited(stock[c.row], c.edit).qty = stock[c.row].qty
      BY <2>1, EditedType
    <2>3. UNCHANGED dbVars \/ CommitRow(r, c.row, Edited(stock[c.row], c.edit), <<>>)
      BY <1>4 DEF UpdateWrite
    <2> QED
      BY <1>2, <1>4, <2>1, <2>2, <2>3, DbUnchanged, FinishStep DEF UpdateWrite
  <1>5. CASE DeleteRead(r) \/ RestoreRead(r)
    <2>1. ASSUME NEW x \in Rows, NEW pc \in {"delete", "restore"},
                 call' = [call EXCEPT ![r].pc = pc, ![r].row = x],
                 UNCHANGED dbVars
          PROVE  StockInv'
      <3> DEFINE d == [c EXCEPT !.pc = pc, !.row = x]
      <3>1. StockCallOK(d)
        BY DEF StockCallOK, Call
      <3>2. call' = [call EXCEPT ![r] = d]
        BY <2>1 DEF Call
      <3> HIDE DEF d
      <3> QED
        BY <2>1, <3>1, <3>2, CallStep, DbUnchanged
    <2> QED
      BY <1>1, <1>5, <2>1 DEF DeleteRead, RestoreRead
  <1>6. CASE DeleteWrite(r) \/ RestoreWrite(r)
    <2>1. c.row \in Rows
      BY <1>6 DEF DeleteWrite, RestoreWrite, At, StockInv
    <2>2. \A s \in {"active", "deleted"} : /\ [stock[c.row] EXCEPT !.state = s] \in StockItem
                                           /\ [stock[c.row] EXCEPT !.state = s].qty = stock[c.row].qty
      BY <2>1, StateType
    <2> QED
      BY <1>2, <1>6, <2>1, <2>2 DEF DeleteWrite, RestoreWrite
  <1> QED
    BY <1>3, <1>4, <1>5, <1>6

(* adjustStock writes the quantity and the movement it has computed, valid *)
(* or stale: they agree with each other.                                   *)
LEMMA AdjustStep ==
    ASSUME StockInv, NEW r \in StockRequests, AdjustRead(r) \/ AdjustWrite(r)
    PROVE  StockInv'
  <1> DEFINE c == call[r]
  <1> USE CallFacts
  <1>1. CASE AdjustRead(r)
    <2>1. ASSUME Reject(r) PROVE StockInv'
      BY <2>1, RejectStep
    <2>2. ASSUME NEW x \in Rows, NEW change \in Changes,
                 stock[x].qty + change >= 0, stock[x].qty + change <= MaxQty,
                 call' = [call EXCEPT ![r].pc = "adjust", ![r].row = x, ![r].before = stock[x].qty,
                                      ![r].after = stock[x].qty + change],
                 UNCHANGED dbVars
          PROVE  StockInv'
      <3> DEFINE d == [c EXCEPT !.pc = "adjust", !.row = x, !.before = stock[x].qty,
                                !.after = stock[x].qty + change]
      <3>1. stock[x].qty \in 0..MaxQty /\ stock[x].qty + change \in 0..MaxQty
        BY <2>2, StockInputs, RowsAssumption DEF StockItem
      <3>2. StockCallOK(d)
        BY <3>1 DEF StockCallOK, Call
      <3>3. call' = [call EXCEPT ![r] = d]
        BY <2>2 DEF Call
      <3> HIDE DEF d
      <3> QED
        BY <2>2, <3>2, <3>3, CallStep, DbUnchanged
    <2>3. PICK x \in Rows, change \in Changes :
             IF ~Active(x) \/ stock[x].qty + change < 0 \/ stock[x].qty + change > MaxQty
             THEN Reject(r)
             ELSE /\ call' = [call EXCEPT ![r].pc = "adjust", ![r].row = x, ![r].before = stock[x].qty,
                                          ![r].after = stock[x].qty + change]
                  /\ UNCHANGED dbVars
      BY <1>1 DEF AdjustRead, AdjustRefused
    <2>4. stock[x].qty + change \in Int
      BY StockInputs, RowsAssumption DEF StockItem
    <2>5. CASE ~Reject(r)
      <3>1. stock[x].qty + change >= 0 /\ stock[x].qty + change <= MaxQty
        BY <2>3, <2>4, <2>5, RowsAssumption
      <3>2. /\ call' = [call EXCEPT ![r].pc = "adjust", ![r].row = x, ![r].before = stock[x].qty,
                                    ![r].after = stock[x].qty + change]
            /\ UNCHANGED dbVars
        BY <2>3, <2>5
      <3> QED
        BY <2>2, <3>1, <3>2
    <2> QED
      BY <2>1, <2>5
  <1>2. CASE AdjustWrite(r)
    <2> DEFINE v == [stock[c.row] EXCEPT !.qty = c.after]
               m == Movement("ADJUST", c.before, c.after, NoDoc)
    <2>1. c.row \in Rows /\ c.before \in 0..MaxQty /\ c.after \in 0..MaxQty
      BY <1>2 DEF AdjustWrite, At, StockInv, Call
    <2>2. v \in StockItem /\ v.qty = c.after
      BY <2>1, QtyType
    <2>3. <<m>> \in Seq(StockMovement) /\ <<m>> # <<>> /\ OnHand(<<m>>) = c.after
      BY <2>1, MovementType
    <2>4. CommitRow(r, c.row, v, <<m>>)
      BY <1>2 DEF AdjustWrite
    <2> HIDE DEF v, m
    <2>5. DbInv'
      BY <2>1, <2>2, <2>3, <2>4, CommitRowInv
    <2> QED
      BY <1>2, <2>5, FinishStep DEF AdjustWrite
  <1> QED
    BY <1>1, <1>2

(* bulkAddStock adds in memory to what it has found.                       *)
LEMMA BulkStep ==
    ASSUME StockInv, NEW r \in StockRequests,
           BulkStart(r) \/ BulkFind(r) \/ BulkCreate(r) \/ BulkWrite(r) \/ BulkCommit(r)
    PROVE  StockInv'
  <1> DEFINE c == call[r]
  <1> USE CallFacts
  <1>1. CASE BulkStart(r)
    <2>1. PICK orders \in BulkOrders :
             call' = [call EXCEPT ![r].pc = "bulkFind", ![r].asked = orders, ![r].orders = orders]
      BY <1>1 DEF BulkStart
    <2> DEFINE d == [c EXCEPT !.pc = "bulkFind", !.asked = orders, !.orders = orders]
    <2>2. StockCallOK(d)
      BY StockInputs DEF StockCallOK, Call
    <2>3. call' = [call EXCEPT ![r] = d]
      BY <2>1 DEF Call
    <2> HIDE DEF d
    <2> QED
      BY <1>1, <2>2, <2>3, CallStep, DbUnchanged DEF BulkStart
  <1>2. ASSUME NEW item \in Items, c.pc = "bulkFind", BulkSkip(r, item) PROVE StockInv'
    <2> DEFINE d == [c EXCEPT !.failed = TRUE, !.orders[item] = 0]
    <2>1. StockCallOK(d)
      BY <1>2 DEF StockCallOK, Call
    <2>2. call' = [call EXCEPT ![r] = d]
      BY <1>2 DEF BulkSkip, Call
    <2> HIDE DEF d
    <2> QED
      BY <1>2, <2>1, <2>2, CallStep, DbUnchanged DEF BulkSkip
  <1>3. CASE BulkFind(r)
    <2>1. PICK item \in Ordered(r) : \E x \in NonSerialized(r, item) :
             LET before == View(r)[x].qty
                 after == before + c.orders[item]
             IN  IF after > MaxQty
                 THEN BulkSkip(r, item)
                 ELSE /\ call' = [call EXCEPT ![r].pc = "bulkWrite", ![r].row = x, ![r].item = item,
                                              ![r].before = before, ![r].after = after]
                      /\ UNCHANGED dbVars
      BY <1>3 DEF BulkFind
    <2> DEFINE before(x) == View(r)[x].qty
               after(x) == before(x) + c.orders[item]
               d(x) == [c EXCEPT !.pc = "bulkWrite", !.row = x, !.item = item,
                                 !.before = before(x), !.after = after(x)]
    <2>2. PICK x \in NonSerialized(r, item) :
             \/ BulkSkip(r, item)
             \/ /\ ~(after(x) > MaxQty)
                /\ call' = [call EXCEPT ![r].pc = "bulkWrite", ![r].row = x, ![r].item = item,
                                        ![r].before = before(x), ![r].after = after(x)]
                /\ UNCHANGED dbVars
      BY <2>1
    <2>3. item \in Items /\ x \in Rows
      BY DEF Ordered, NonSerialized
    <2>4. CASE ~BulkSkip(r, item)
      <3>1. before(x) \in 0..MaxQty /\ c.orders[item] \in Nat
        BY <2>3 DEF StockItem, Call
      <3>2. after(x) \in 0..MaxQty
        BY <2>2, <2>4, <3>1, RowsAssumption
      <3> HIDE DEF before, after
      <3>3. StockCallOK(d(x))
        BY <2>3, <3>1, <3>2 DEF StockCallOK, Call
      <3>4. call' = [call EXCEPT ![r] = d(x)] /\ UNCHANGED dbVars
        BY <2>2, <2>4 DEF Call
      <3> HIDE DEF d
      <3> QED
        BY <3>3, <3>4, CallStep, DbUnchanged
    <2>5. c.pc = "bulkFind"
      BY <1>3 DEF BulkFind, At
    <2> QED
      BY <1>2, <2>3, <2>4, <2>5
  <1>4. CASE BulkCreate(r)
    <2>1. ASSUME NEW item \in Items, NEW x \in Rows, ~(c.orders[item] > MaxQty), NEW auditFails \in BOOLEAN,
                 WriteRow(r, x, NewRow(item, c.orders[item]), Movement("IN", 0, c.orders[item], NoDoc)),
                 call' = [call EXCEPT ![r].orders[item] = 0, ![r].failed = @ \/ auditFails]
          PROVE  StockInv'
      <3> DEFINE d == [c EXCEPT !.orders[item] = 0, !.failed = @ \/ auditFails]
                 after == c.orders[item]
      <3>1. StockCallOK(d)
        BY <1>4 DEF StockCallOK, Call, BulkCreate, At
      <3>2. call' = [call EXCEPT ![r] = d]
        BY <2>1 DEF Call
      <3>3. after \in 0..MaxQty
        BY <2>1, RowsAssumption DEF Call
      <3> HIDE DEF d, after
      <3>4. NewRow(item, after) \in StockItem /\ NewRow(item, after).qty = after
        BY <3>3, NewRowType
      <3>5. Movement("IN", 0, after, NoDoc) \in StockMovement /\ Movement("IN", 0, after, NoDoc).after = after
        BY <3>3, MovementType
      <3>6. DbInv'
        BY <2>1, <3>4, <3>5, WriteRowInv DEF after
      <3> QED
        BY <3>1, <3>2, <3>6, CallStep
    <2>2. c.pc = "bulkFind"
      BY <1>4 DEF BulkCreate, At
    <2> QED
      BY <1>2, <1>4, <2>1, <2>2 DEF BulkCreate, Ordered
  <1>5. CASE BulkWrite(r)
    <2>8. PICK auditFails \in BOOLEAN :
             call' = [call EXCEPT ![r].pc = "bulkFind", ![r].row = NoRow, ![r].orders[call[r].item] = 0,
                                  ![r].failed = @ \/ auditFails]
      BY <1>5 DEF BulkWrite
    <2> DEFINE d == [c EXCEPT !.pc = "bulkFind", !.row = NoRow, !.orders[c.item] = 0, !.failed = @ \/ auditFails]
               v == [View(r)[c.row] EXCEPT !.qty = c.after]
               m == Movement("IN", c.before, c.after, NoDoc)
    <2>1. c.row \in Rows /\ c.before \in 0..MaxQty /\ c.after \in 0..MaxQty
      BY <1>5 DEF BulkWrite, At, StockInv, Call
    <2>2. v \in StockItem /\ v.qty = c.after
      BY <2>1, QtyType
    <2>3. m \in StockMovement /\ m.after = c.after
      BY <2>1, MovementType
    <2>4. WriteRow(r, c.row, v, m)
      BY <1>5 DEF BulkWrite
    <2>5. StockCallOK(d)
      BY DEF StockCallOK, Call
    <2>6. call' = [call EXCEPT ![r] = d]
      BY <2>8 DEF Call
    <2> HIDE DEF d, v, m
    <2>7. DbInv'
      BY <2>1, <2>2, <2>3, <2>4, WriteRowInv
    <2> QED
      BY <2>5, <2>6, <2>7, CallStep
  <1>6. CASE BulkCommit(r)
    BY <1>6, CommitInv, RollbackInv, FinishStep DEF BulkCommit, BulkEnds
  <1> QED
    BY <1>1, <1>3, <1>4, <1>5, <1>6

(* The invariant of the stock handlers is inductive, whoever else changes  *)
(* the tables in between: it holds initially and every step keeps it.      *)
LEMMA StockInvInit == DbInit /\ StockInit => StockInv
  <1>1. StockCallOK(NewCall) /\ NewCall.pc = "new"
    BY NewCallType DEF StockCallOK
  <1> QED
    BY <1>1, DbInitInv DEF StockInit, StockInv, StockTypeOK, StockCallOK, DbInv

(* Every step of a stock handler preserves its invariant.                  *)
LEMMA StockInvStep ==
    ASSUME StockInv, NEW r \in StockRequests, StockStep(r)
    PROVE  StockInv'
  <1>1. CASE Abandon(r)
    BY <1>1, AbandonStep DEF Abandon
  <1> QED
    BY <1>1, EntryStep, CreateStep, UpdateStep, AdjustStep, BulkStep DEF StockStep, Continue

(* No stock handler brings in the goods of a purchase, or takes any for a  *)
(* sale.                                                                   *)
LEMMA StockQuiet ==
    ASSUME StockInv, NEW r \in StockRequests, StockStep(r), NEW M \in {GoodsIn, Sold}
    PROVE  Quiet(r, M)
  <1> USE CallFacts
  <1>1. DbTypeOK /\ r \in Requests
    BY DEF DbInv
  <1>2. \A type, before, after : type # "SOLD" => Movement(type, before, after, NoDoc) \notin M
    BY KindOf
  <1>3. ASSUME UNCHANGED dbVars \/ Rollback(r) \/ Commit(r, {}) PROVE Quiet(r, M)
    BY <1>1, <1>3, QuietIdle, QuietCommit
  <1>4. ASSUME NEW x \in Rows, NEW v, NEW type \in {"IN", "ADJUST"}, NEW before, NEW after,
               WriteRow(r, x, v, Movement(type, before, after, NoDoc))
        PROVE  Quiet(r, M)
    <2>1. Movement(type, before, after, NoDoc) \notin M
      BY <1>2
    <2> QED
      BY <1>1, <1>4, <2>1, QuietWrite
  <1>5. ASSUME NEW x \in Rows, NEW v, NEW type \in {"IN", "ADJUST"}, NEW before, NEW after,
               \/ CommitRow(r, x, v, <<Movement(type, before, after, NoDoc)>>)
               \/ CommitRow(r, x, v, <<>>)
        PROVE  Quiet(r, M)
    <2>1. Movement(type, before, after, NoDoc) \notin M
      BY <1>2
    <2> QED
      BY <1>1, <1>5, <2>1, QuietRows
  <1>6. CASE EntryInsert(r)
    BY <1>3, <1>4, <1>6 DEF EntryInsert
  <1>7. CASE EntryQuantity(r)
    BY <1>5, <1>7 DEF EntryQuantity
  <1>8. CASE CreateInsert(r)
    BY <1>3, <1>5, <1>8 DEF CreateInsert
  <1>9. CASE UpdateWrite(r) \/ DeleteWrite(r) \/ RestoreWrite(r) \/ AdjustWrite(r)
    <2>1. call[r].row \in Rows
      BY <1>9 DEF UpdateWrite, DeleteWrite, RestoreWrite, AdjustWrite, At, StockInv
    <2>2. CASE UpdateWrite(r)
      BY <1>3, <1>5, <2>1, <2>2 DEF UpdateWrite
    <2>3. CASE DeleteWrite(r) \/ RestoreWrite(r)
      BY <1>5, <2>1, <2>3 DEF DeleteWrite, RestoreWrite
    <2>4. CASE AdjustWrite(r)
      BY <1>5, <2>1, <2>4 DEF AdjustWrite
    <2> QED
      BY <1>9, <2>2, <2>3, <2>4
  <1>10. CASE BulkFind(r)
    BY <1>3, <1>10 DEF BulkFind, BulkSkip
  <1>11. CASE BulkCreate(r)
    BY <1>3, <1>4, <1>11 DEF BulkCreate, BulkSkip
  <1>12. CASE BulkWrite(r)
    <2>1. call[r].row \in Rows
      BY <1>12 DEF BulkWrite, At, StockInv
    <2> QED
      BY <1>4, <1>12, <2>1 DEF BulkWrite
  <1>13. CASE EntryCommit(r) \/ BulkCommit(r) \/ Abandon(r)
    BY <1>3, <1>13 DEF EntryCommit, BulkCommit, BulkEnds, Abandon
  <1>14. CASE \/ EntryCheckImeis(r) \/ CreateCheckImei(r) \/ UpdateRead(r) \/ DeleteRead(r)
              \/ RestoreRead(r) \/ AdjustRead(r) \/ BulkStart(r)
    BY <1>3, <1>14 DEF EntryCheckImeis, CreateCheckImei, UpdateRead, DeleteRead, RestoreRead, AdjustRead,
                       BulkStart, Reject
  <1> QED
    BY <1>6, <1>7, <1>8, <1>9, <1>10, <1>11, <1>12, <1>13, <1>14 DEF StockStep, Continue

-----------------------------------------------------------------------------
(* A step of r leaves the other handlers as they are.                      *)
LEMMA StockOthers ==
    ASSUME StockInv, NEW r \in StockRequests, StockStep(r)
    PROVE  \A q \in StockRequests \ {r} : call'[q] = call[q] /\ tx'[q].own = tx[q].own
  <1> USE CallFacts
  <1>1. DbInv /\ DbInv' /\ StockRequests \subseteq Requests
    BY StockInvStep, StockInputs DEF StockInv
  <1>2. ASSUME NEW q \in StockRequests \ {r}, Finish(r) \/ Reject(r) PROVE call'[q] = call[q]
    BY <1>2 DEF Finish, Reject
  <1>3. ASSUME NEW q \in StockRequests \ {r} PROVE call'[q] = call[q]
    <2>1. CASE \/ EntryInsert(r) \/ EntryCommit(r) \/ EntryQuantity(r) \/ EntryCheckImeis(r)
               \/ CreateCheckImei(r) \/ CreateInsert(r) \/ UpdateRead(r) \/ UpdateWrite(r)
      BY <1>2, <2>1 DEF EntryInsert, EntryCommit, EntryQuantity, EntryCheckImeis, CreateCheckImei, CreateInsert,
                        UpdateRead, UpdateWrite
    <2>2. CASE \/ DeleteRead(r) \/ DeleteWrite(r) \/ RestoreRead(r) \/ RestoreWrite(r)
               \/ AdjustRead(r) \/ AdjustWrite(r) \/ Abandon(r)
      BY <1>2, <2>2 DEF DeleteRead, DeleteWrite, RestoreRead, RestoreWrite, AdjustRead, AdjustWrite, Abandon
    <2>3. CASE BulkStart(r) \/ BulkFind(r) \/ BulkCreate(r) \/ BulkWrite(r) \/ BulkCommit(r)
      BY <1>2, <2>3 DEF BulkStart, BulkFind, BulkCreate, BulkWrite, BulkCommit, BulkSkip
    <2> QED
      BY <2>1, <2>2, <2>3 DEF StockStep, Continue
  <1> QED
    BY <1>1, <1>3, StockQuiet, OthersHold

(* Locks are held by handlers that run a transaction of several steps.     *)
LEMMA StockHoldsStep ==
    ASSUME StockInv, StockHolds, NEW r \in StockRequests, StockStep(r)
    PROVE  StockHolds'
  <1> USE CallFacts
  <1>1. DbTypeOK
    BY DEF DbInv
  <1>2. ASSUME tx[r].own = {}, UNCHANGED dbVars PROVE tx'[r].own = {}
    BY <1>2 DEF dbVars
  <1>3. \/ tx'[r].own = {}
        \/ call'[r].pc \in {"entry", "bulkFind", "bulkWrite"}
    <2>1. CASE EntryInsert(r)
      <3>1. Rollback(r) \/ \E S : call' = [call EXCEPT ![r].imeis = S]
        BY <2>1 DEF EntryInsert
      <3> QED
        BY <1>1, <2>1, <3>1, LocksReleased DEF EntryInsert, At, Call
    <2>6. CASE BulkFind(r) \/ BulkCreate(r) \/ BulkWrite(r)
      BY <2>6, BulkGoesOn
    <2>2. CASE EntryCommit(r) \/ BulkCommit(r) \/ Abandon(r) \/ EntryQuantity(r) \/ DeleteWrite(r) \/ RestoreWrite(r) \/ AdjustWrite(r)
      BY <1>1, <2>2, LocksReleased DEF EntryCommit, BulkCommit, BulkEnds, Abandon, EntryQuantity, DeleteWrite, RestoreWrite, AdjustWrite
    <2>3. CASE CreateInsert(r) \/ UpdateWrite(r)
      BY <1>1, <1>2, <2>3, LocksReleased DEF CreateInsert, UpdateWrite, At, StockHolds
    <2>4. CASE EntryCheckImeis(r) \/ CreateCheckImei(r) \/ UpdateRead(r) \/ DeleteRead(r)
      BY <1>2, <2>4 DEF EntryCheckImeis, CreateCheckImei, UpdateRead, DeleteRead, Reject, At, StockHolds
    <2>5. CASE RestoreRead(r) \/ AdjustRead(r) \/ BulkStart(r)
      BY <1>2, <2>5 DEF RestoreRead, AdjustRead, BulkStart, Reject, At, StockHolds
    <2> QED
      BY <2>1, <2>2, <2>3, <2>4, <2>5, <2>6 DEF StockStep, Continue
  <1> QED
    BY <1>3, StockOthers DEF StockHolds

(* The state and the IMEI of the rows that the handlers build.             *)
LEMMA BuiltRows ==
    ASSUME NEW row \in StockItem, NEW edit \in EditBody, NEW item, NEW qty
    PROVE  /\ Edited(row, edit).state = row.state
           /\ edit.imei = Keep => Edited(row, edit).imei = row.imei
           /\ edit.imei # Keep => Edited(row, edit).imei = edit.imei
           /\ NewRow(item, qty).state = "active" /\ NewRow(item, qty).imei = NoImei
  BY DEF Edited, NewRow, Missing, StockItem

(* An IMEI that passes the checks of an INSERT or UPDATE of row x is       *)
(* nobody else's.                                                          *)
LEMMA ImeiPassed ==
    ASSUME DbInv, ImeiInv, NEW r \in Requests, NEW x \in Rows, NEW v, ~ImeiPending(r, v.imei),
           \/ ~ImeiTaken(View(r), v.imei)
           \/ ~ImeiTaken(stock, v.imei) /\ tx[r].own = {}
           \/ ~ImeiTaken([y \in Rows |-> IF y = x THEN Missing ELSE stock[y]], v.imei) /\ tx[r].own = {}
    PROVE  Claimable(x, v)
  <1> SUFFICES ASSUME NEW y \in Rows \ {x}, NEW w \in Versions(y), v.imei # NoImei PROVE v.imei # w.imei
    BY DEF Claimable
  <1>1. stock[y].imei # v.imei
    <2>1. CASE ~ImeiTaken(View(r), v.imei)
      <3>1. View(r)[y].imei # v.imei
        BY <2>1, ViewVersion DEF ImeiTaken, ImeiInv
      <3> QED
        BY <3>1 DEF View, ImeiInv
    <2>2. CASE \/ ~ImeiTaken([z \in Rows |-> IF z = x THEN Missing ELSE stock[z]], v.imei)
               \/ ~ImeiTaken(stock, v.imei)
      <3>1. stock[y].state = "absent" \/ stock[y].imei # v.imei
        BY <2>2 DEF ImeiTaken
      <3> QED
        BY <3>1, ViewVersion DEF ImeiInv
    <2> QED
      BY <2>1, <2>2
  <1>2. ASSUME NEW q \in Requests, y \in tx[q].own PROVE tx[q].buf[y].imei # v.imei
    <2>1. CASE q # r
      BY <1>1, <1>2, <2>1 DEF ImeiPending
    <2>2. CASE q = r
      <3>1. ~ImeiTaken(View(r), v.imei)
        BY <1>2, <2>2
      <3>2. View(r)[y] = tx[r].buf[y]
        BY <1>2, <2>2 DEF View
      <3> QED
        BY <2>2, <3>1, <3>2, ViewVersion DEF ImeiTaken, ImeiInv
    <2> QED
      BY <2>1, <2>2
  <1> QED
    BY <1>1, <1>2 DEF Versions

(* A row that is about to be inserted is not there.                        *)
LEMMA FreshAbsent ==
    ASSUME ImeiInv, NEW x \in Rows, Fresh(x)
    PROVE  stock[x].state = "absent" /\ stock[x].imei = NoImei
  <1>1. stock[x].state = "absent"
    BY RowsAssumption DEF Fresh
  <1> QED
    BY <1>1 DEF ImeiInv, Versions

(* Handlers enter no IMEI that another row has, though they look for it    *)
(* long before.                                                            *)
LEMMA StockImei ==
    ASSUME StockInv, StockHolds, EditsExisting, ImeiInv, NEW r \in StockRequests, StockStep(r)
    PROVE  ImeiInv' /\ NoneVanish
  <1> USE CallFacts
  <1>1. DbTypeOK /\ r \in Requests /\ \A x \in Rows : stock[x] \in StockItem /\ View(r)[x] \in StockItem
    BY DEF DbInv
  <1>2. ASSUME UNCHANGED dbVars \/ Rollback(r) \/ Commit(r, {}) PROVE ImeiInv' /\ NoneVanish
    BY <1>1, <1>2, ImeiIdle, ImeiCommit
  <1>3. ASSUME NEW x \in Rows, NEW v, NEW ms, CommitRow(r, x, v, ms), v.imei = stock[x].imei,
               v.state = stock[x].state \/ v.state # "absent"
        PROVE  ImeiInv' /\ NoneVanish
    BY <1>3, ViewVersion, ClaimableSame, ImeiRow DEF ImeiInv
  <1>4. CASE EntryInsert(r)
    <2>1. ASSUME NEW imei \in call[r].imeis, NEW x \in Rows, Fresh(x), ~ImeiPending(r, imei), ~ImeiTaken(View(r), imei),
                 NEW v, v = [Edited(NewRow(call[r].item, 1), call[r].edit) EXCEPT !.imei = imei],
                 WriteRow(r, x, v, Movement("IN", 0, 1, NoDoc))
          PROVE  ImeiInv' /\ NoneVanish
      <3>1. /\ call[r].item \in Items \cup {NoItem} /\ call[r].edit \in EditBody
            /\ Edited(NewRow(call[r].item, 1), call[r].edit) \in StockItem
        BY NewEditedType DEF Call
      <3>2. Edited(NewRow(call[r].item, 1), call[r].edit).state = "active"
        <4>1. NewRow(call[r].item, 1) \in StockItem
          BY <3>1, NewRowType
        <4> QED
          BY <3>1, <4>1, BuiltRows
      <3>3. v.imei = imei /\ v.state = "active"
        BY <2>1, <3>1, <3>2 DEF StockItem
      <3>4. stock[x].state = "absent" /\ stock[x].imei = NoImei
        BY <2>1, FreshAbsent
      <3>5. Claimable(x, v)
        BY <1>1, <2>1, <3>3, ImeiPassed
      <3> QED
        BY <1>1, <2>1, <3>3, <3>4, <3>5, ImeiWrite
    <2> QED
      BY <1>2, <1>4, <2>1 DEF EntryInsert
  <1>5. CASE EntryQuantity(r)
    <2>1. PICK item \in Items, qty \in Quantities, edit \in EntryBodies, x \in Rows :
             Fresh(x) /\ CommitRow(r, x, Edited(NewRow(item, qty), edit), <<Movement("IN", 0, qty, NoDoc)>>)
      BY <1>5 DEF EntryQuantity
    <2>2. edit \in EditBody /\ edit.imei = Keep /\ NewRow(item, qty) \in StockItem
      BY StockInputs, NewRowType DEF EntryBodies
    <2>3. Edited(NewRow(item, qty), edit).imei = NoImei /\ Edited(NewRow(item, qty), edit).state = "active"
      BY <2>2, BuiltRows
    <2> QED
      BY <1>3, <2>1, <2>3, FreshAbsent
  <1>6. CASE CreateInsert(r)
    <2> DEFINE edit == call[r].edit
               v == Edited(NewRow(LegacyItem, call[r].after), edit)
    <2>1. ASSUME NEW x \in Rows, Fresh(x), LegacyItem \in Items,
                 edit.imei # Keep => ~ImeiPending(r, edit.imei) /\ ~ImeiTaken(stock, edit.imei),
                 CommitRow(r, x, v, <<Movement("IN", 0, call[r].after, NoDoc)>>)
          PROVE  ImeiInv' /\ NoneVanish
      <3>1. NewRow(LegacyItem, call[r].after) \in StockItem /\ edit \in EditBody
        BY <2>1, NewRowType DEF Call
      <3>2. v.state = "active" /\ v.imei = IF edit.imei = Keep THEN NoImei ELSE edit.imei
        BY <3>1, BuiltRows
      <3>3. tx[r].own = {}
        BY <1>6 DEF CreateInsert, At, StockHolds
      <3> HIDE DEF v, edit
      <3>4. Claimable(x, v)
        BY <2>1, <3>2, <3>3, ImeiPassed, ClaimableSame
      <3> QED
        BY <2>1, <3>2, <3>4, ImeiRow
    <2> QED
      BY <1>2, <1>6, <2>1 DEF CreateInsert
  <1>7. CASE UpdateWrite(r)
    <2> DEFINE edit == call[r].edit
               x == call[r].row
               v == Edited(stock[x], edit)
    <2>1. x \in Rows /\ stock[x].state # "absent" /\ tx[r].own = {} /\ edit \in EditBody
      BY <1>7 DEF UpdateWrite, At, StockInv, StockHolds, EditsExisting, Call
    <2>2. ASSUME edit.imei # Keep => /\ ~ImeiPending(r, edit.imei)
                                     /\ ~ImeiTaken([y \in Rows |-> IF y = x THEN Missing ELSE stock[y]], edit.imei),
                 CommitRow(r, x, v, <<>>)
          PROVE  ImeiInv' /\ NoneVanish
      <3>1. v.state = stock[x].state /\ v.imei = IF edit.imei = Keep THEN stock[x].imei ELSE edit.imei
        BY <1>1, <2>1, BuiltRows
      <3> HIDE DEF v, edit, x
      <3>2. Claimable(x, v)
        BY <2>1, <2>2, <3>1, ImeiPassed, ViewVersion, ClaimableSame
      <3> QED
        BY <2>1, <2>2, <3>1, <3>2, ImeiRow
    <2> QED
      BY <1>2, <1>7, <2>2 DEF UpdateWrite
  <1>8. CASE DeleteWrite(r) \/ RestoreWrite(r) \/ AdjustWrite(r)
    <2>1. PICK x \in Rows : x = call[r].row
      BY <1>8 DEF DeleteWrite, RestoreWrite, AdjustWrite, At, StockInv
    <2>2. CASE DeleteWrite(r)
      <3>1. CommitRow(r, x, [stock[x] EXCEPT !.state = "deleted"], <<>>)
        BY <2>1, <2>2 DEF DeleteWrite
      <3> QED
        BY <1>1, <1>3, <3>1 DEF StockItem
    <2>3. CASE RestoreWrite(r)
      <3>1. CommitRow(r, x, [stock[x] EXCEPT !.state = "active"], <<>>)
        BY <2>1, <2>3 DEF RestoreWrite
      <3> QED
        BY <1>1, <1>3, <3>1 DEF StockItem
    <2>4. CASE AdjustWrite(r)
      <3>1. \E ms : CommitRow(r, x, [stock[x] EXCEPT !.qty = call[r].after], ms)
        BY <2>1, <2>4 DEF AdjustWrite
      <3> QED
        BY <1>1, <1>3, <3>1 DEF StockItem
    <2> QED
      BY <1>8, <2>2, <2>3, <2>4
  <1>9. CASE BulkCreate(r)
    <2>1. ASSUME NEW item, NEW after, NEW x \in Rows, Fresh(x),
                 WriteRow(r, x, NewRow(item, after), Movement("IN", 0, after, NoDoc))
          PROVE  ImeiInv' /\ NoneVanish
      <3>1. NewRow(item, after).imei = NoImei /\ NewRow(item, after).state = "active"
        BY DEF NewRow, Missing
      <3> QED
        BY <2>1, <3>1, ImeiAmend
    <2> QED
      BY <1>2, <1>9, <2>1 DEF BulkCreate, BulkSkip
  <1>10. CASE BulkWrite(r)
    <2>1. PICK x \in Rows : x = call[r].row
      BY <1>10 DEF BulkWrite, At, StockInv
    <2>2. \E m : WriteRow(r, x, [View(r)[x] EXCEPT !.qty = call[r].after], m)
      BY <1>10, <2>1 DEF BulkWrite
    <2> QED
      BY <1>1, <2>2, ImeiAmend DEF StockItem
  <1>11. CASE BulkFind(r) \/ EntryCommit(r) \/ BulkCommit(r) \/ Abandon(r)
    BY <1>2, <1>11 DEF BulkFind, BulkSkip, EntryCommit, BulkCommit, BulkEnds, Abandon
  <1>12. CASE \/ EntryCheckImeis(r) \/ CreateCheckImei(r) \/ UpdateRead(r) \/ DeleteRead(r)
              \/ RestoreRead(r) \/ AdjustRead(r) \/ BulkStart(r)
    BY <1>2, <1>12 DEF EntryCheckImeis, CreateCheckImei, UpdateRead, DeleteRead, RestoreRead, AdjustRead,
                       BulkStart, Reject
  <1> QED
    BY <1>4, <1>5, <1>6, <1>7, <1>8, <1>9, <1>10, <1>11, <1>12 DEF StockStep, Continue

(* A row that is being edited exists.                                      *)
LEMMA EditsExistingStep ==
    ASSUME StockInv, EditsExisting, NoneVanish, NEW r \in StockRequests, StockStep(r)
    PROVE  EditsExisting'
  <1> USE CallFacts
  <1>1. ASSUME NEW q \in StockRequests \ {r}, call'[q].pc = "update" PROVE stock'[call'[q].row].state # "absent"
    <2>1. call'[q] = call[q] /\ call[q].row \in Rows
      BY <1>1, StockOthers DEF StockInv
    <2> QED
      BY <1>1, <2>1 DEF EditsExisting, NoneVanish, At
  <1>2. ASSUME call'[r].pc = "update" PROVE stock'[call'[r].row].state # "absent"
    <2>1. ~Finish(r)
      BY <1>2 DEF Finish, NewCall
    <2>2. UpdateRead(r)
      <3>1. ~EntryInsert(r)
        BY <1>2, <2>1 DEF EntryInsert, At, Call
      <3>2. ~EntryCheckImeis(r) /\ ~CreateCheckImei(r)
        <4>1. \A item, imeis, edit :
                 call' # [call EXCEPT ![r].pc = "entry", ![r].item = item, ![r].imeis = imeis, ![r].edit = edit]
          BY <1>2 DEF Call
        <4>2. \A qty, edit : call' # [call EXCEPT ![r].pc = "create", ![r].after = qty, ![r].edit = edit]
          BY <1>2 DEF Call
        <4> QED
          BY <2>1, <4>1, <4>2 DEF EntryCheckImeis, CreateCheckImei, Reject
      <3>3. ~DeleteRead(r) /\ ~RestoreRead(r) /\ ~AdjustRead(r)
        <4>1. \A x : \A pc \in {"delete", "restore"} : call' # [call EXCEPT ![r].pc = pc, ![r].row = x]
          BY <1>2 DEF Call
        <4>2. \A x, before, after :
                 call' # [call EXCEPT ![r].pc = "adjust", ![r].row = x, ![r].before = before, ![r].after = after]
          BY <1>2 DEF Call
        <4> QED
          BY <2>1, <4>1, <4>2 DEF DeleteRead, RestoreRead, AdjustRead, Reject
      <3>4. ~BulkStart(r)
        BY <1>2 DEF BulkStart, Call
      <3>5. ~BulkFind(r) /\ ~BulkCreate(r) /\ ~BulkWrite(r)
        <4>1. call'[r].pc \notin {"bulkFind", "bulkWrite"}
          BY <1>2
        <4> QED
          BY <4>1, BulkGoesOn
      <3> QED
        BY <2>1, <3>1, <3>2, <3>3, <3>4, <3>5 DEF StockStep, Continue, EntryCommit, EntryQuantity, CreateInsert, UpdateWrite, DeleteWrite,
                                RestoreWrite, AdjustWrite, BulkCommit, Abandon
    <2>3. PICK x \in Rows : Active(x) /\ call'[r].row = x /\ UNCHANGED dbVars
      BY <2>1, <2>2 DEF UpdateRead, UpdateRefused, Reject, Call
    <2> QED
      BY <2>3 DEF Active, dbVars
  <1> QED
    BY <1>1, <1>2 DEF EditsExisting, At

(* StockService alone: the tables and the handlers' variables are always   *)
(* well-formed.                                                            *)
THEOREM StockTypeCorrect == StockSpec => []StockTypeOK
  <1>1. DbInit /\ StockInit => StockInv
    BY StockInvInit
  <1>2. StockInv /\ [StockNext]_stockVars => StockInv'
    <2> SUFFICES ASSUME StockInv, [StockNext]_stockVars PROVE StockInv'
      OBVIOUS
    <2>1. CASE StockNext
      BY <2>1, StockInvStep DEF StockNext
    <2>2. CASE UNCHANGED stockVars
      BY <2>2, DbUnchanged DEF stockVars, dbVars, StockInv, StockTypeOK, DbInv
    <2> QED
      BY <2>1, <2>2
  <1>3. StockInv => StockTypeOK
    BY DEF StockInv
  <1> QED
    BY <1>1, <1>2, <1>3, PTL DEF StockSpec
=============================================================================
