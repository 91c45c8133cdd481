--------------------------- MODULE DatabaseProofs ---------------------------
(***************************************************************************)
(* Every way in which a handler touches the stock tables preserves DbInv,  *)
(* the invariant that ties quantities, locks and movements together.  The  *)
(* lemmas speak of single statements, so a handler's step is proved by     *)
(* naming the statement it makes and the version of the row it writes.     *)
(***************************************************************************)
EXTENDS Database, Sums, TLAPS

(* Appending movements to a history: where it ends depends on the last.    *)
LEMMA OnHandConcat ==
    ASSUME NEW h \in Seq(StockMovement), NEW ms \in Seq(StockMovement)
    PROVE  /\ h \o ms \in Seq(StockMovement)
           /\ ms # <<>> => OnHand(h \o ms) = OnHand(ms)
           /\ ms = <<>> => OnHand(h \o ms) = OnHand(h)
  <1>1. h \o ms \in Seq(StockMovement)
    OBVIOUS
  <1>2. ASSUME ms # <<>> PROVE OnHand(h \o ms) = OnHand(ms)
    <2>1. Len(ms) > 0 /\ Len(h \o ms) = Len(h) + Len(ms) /\ h \o ms # <<>>
      BY <1>2
    <2>2. (h \o ms)[Len(h) + Len(ms)] = ms[Len(ms)]
      BY <2>1
    <2> QED
      BY <1>2, <2>1, <2>2 DEF OnHand
  <1>3. ASSUME ms = <<>> PROVE h \o ms = h
    BY <1>3
  <1> QED
    BY <1>1, <1>2, <1>3

(* A history that has just been given one more movement ends in it.        *)
LEMMA OnHandAppend ==
    ASSUME NEW h \in Seq(StockMovement), NEW m \in StockMovement
    PROVE  /\ Append(h, m) \in Seq(StockMovement)
           /\ Append(h, m) # <<>>
           /\ OnHand(Append(h, m)) = m.after
  <1>1. Len(Append(h, m)) = Len(h) + 1 /\ Append(h, m)[Len(h) + 1] = m
    OBVIOUS
  <1> QED
    BY <1>1 DEF OnHand

(* An idle request holds nothing.                                          *)
LEMMA NoTransactionType == NoTransaction \in Transaction
  BY RowsAssumption, SentinelAssumption
     DEF NoTransaction, Transaction, StockItem, Missing, StockStatus

(* A row as seen inside a transaction is a well-formed row.                *)
LEMMA ViewType ==
    ASSUME DbTypeOK, NEW r \in Requests
    PROVE  View(r) \in [Rows -> StockItem]
  BY DEF DbTypeOK, View, Transaction

(* The tables of a freshly seeded database satisfy the invariant.          *)
LEMMA DbInitInv == DbInit => DbInv
  <1> SUFFICES ASSUME DbInit PROVE DbInv
    OBVIOUS
  <1>1. \A x \in Rows : /\ InitialLedger(x) \in Seq(StockMovement)
                        /\ Seed[x].qty = OnHand(InitialLedger(x))
    <2> TAKE x \in Rows
    <2>1. CASE Seed[x].state = "absent"
      BY <2>1, SeedAssumption, RowsAssumption DEF InitialLedger, OnHand, Missing
    <2>2. CASE Seed[x].state # "absent"
      <3>1. InitialLedger(x) = <<Movement("IN", 0, Seed[x].qty, NoDoc)>>
        BY <2>2 DEF InitialLedger
      <3>2. Movement("IN", 0, Seed[x].qty, NoDoc) \in StockMovement
        BY SeedAssumption, RowsAssumption DEF Movement, StockMovement, StockItem, Documents
      <3> QED
        BY <3>1, <3>2 DEF OnHand, Movement
    <2> QED
      BY <2>1, <2>2
  <1>2. DbTypeOK
    BY <1>1, SeedAssumption, NoTransactionType DEF DbInit, DbTypeOK
  <1>3. LocksExclusive /\ BuffersMatch
    BY DEF DbInit, LocksExclusive, BuffersMatch, NoTransaction
  <1>4. QuantityIsLastMovement
    BY <1>1 DEF DbInit, QuantityIsLastMovement
  <1> QED
    BY <1>2, <1>3, <1>4 DEF DbInv

(* A step that leaves the tables alone.                                    *)
LEMMA DbUnchanged == DbInv /\ UNCHANGED dbVars => DbInv'
  BY DEF dbVars, DbInv, DbTypeOK, LocksExclusive, BuffersMatch, QuantityIsLastMovement

(* A statement that locks a row and writes its quantity and movement.      *)
LEMMA WriteRowInv ==
    ASSUME DbInv, NEW r \in Requests, NEW x \in Rows, NEW v \in StockItem,
           NEW m \in StockMovement, v.qty = m.after, WriteRow(r, x, v, m)
    PROVE  DbInv'
  <1> USE DEF DbInv
  <1> DEFINE old == tx[r]
             buf == [old.buf EXCEPT ![x] = v]
             moves == [old.moves EXCEPT ![x] = Append(@, m)]
             new == [old EXCEPT !.own = @ \cup {x}, !.buf = buf, !.moves = moves]
  <1>10. old \in Transaction /\ tx \in [Requests -> Transaction]
    BY DEF DbTypeOK
  <1>11. buf \in [Rows -> StockItem] /\ moves \in [Rows -> Seq(StockMovement)]
    BY <1>10, OnHandAppend DEF Transaction
  <1>12. new \in Transaction
    BY <1>10, <1>11 DEF Transaction
  <1>13. tx' = [tx EXCEPT ![r] = new]
    BY <1>10 DEF WriteRow, Transaction
  <1>1. tx' \in [Requests -> Transaction]
    BY <1>10, <1>12, <1>13
  <1>2. /\ \A q \in Requests \ {r} : tx'[q] = tx[q]
        /\ tx'[r].own = tx[r].own \cup {x}
        /\ tx'[r].buf[x] = v
        /\ tx'[r].moves[x] = Append(tx[r].moves[x], m)
        /\ \A y \in Rows \ {x} : tx'[r].buf[y] = tx[r].buf[y] /\ tx'[r].moves[y] = tx[r].moves[y]
    <2>1. tx'[r] = new /\ \A q \in Requests \ {r} : tx'[q] = tx[q]
      BY <1>10, <1>13
    <2>2. new.own = old.own \cup {x} /\ new.buf = buf /\ new.moves = moves
      BY <1>10 DEF Transaction
    <2>3. /\ buf[x] = v /\ moves[x] = Append(old.moves[x], m)
          /\ \A y \in Rows \ {x} : buf[y] = old.buf[y] /\ moves[y] = old.moves[y]
      BY <1>10 DEF Transaction
    <2> HIDE DEF new, buf, moves
    <2> QED
      BY <2>1, <2>2, <2>3
  <1> HIDE DEF old, new, buf, moves
  <1>3. LocksExclusive'
    <2>1. \A q \in Requests \ {r} : x \notin tx[q].own /\ tx'[q].own \cap tx'[r].own = {}
      BY <1>2 DEF LocksExclusive, WriteRow, Unlocked
    <2> QED
      BY <1>2, <2>1 DEF LocksExclusive
  <1>4. BuffersMatch'
    <2>1. tx[r].moves[x] \in Seq(StockMovement)
      BY DEF DbTypeOK, Transaction
    <2>2. tx'[r].moves[x] # <<>> /\ OnHand(tx'[r].moves[x]) = v.qty
      BY <1>2, <2>1, OnHandAppend
    <2> SUFFICES ASSUME NEW q \in Requests, NEW y \in Rows
                 PROVE  IF y \in tx'[q].own
                        THEN tx'[q].moves[y] # <<>> /\ tx'[q].buf[y].qty = OnHand(tx'[q].moves[y])
                        ELSE tx'[q].moves[y] = <<>>
      BY DEF BuffersMatch
    <2>3. CASE q # r
      BY <2>3, <1>2 DEF BuffersMatch
    <2>4. CASE q = r /\ y = x
      BY <2>4, <1>2, <2>2
    <2>5. CASE q = r /\ y # x
      <3>1. /\ tx'[r].own = tx[r].own \cup {x} /\ y \in Rows \ {x}
            /\ tx'[r].buf[y] = tx[r].buf[y] /\ tx'[r].moves[y] = tx[r].moves[y]
        BY <1>2, <2>5
      <3> QED
        BY <3>1, <2>5 DEF BuffersMatch
    <2> QED
      BY <2>3, <2>4, <2>5
  <1>5. DbTypeOK' /\ QuantityIsLastMovement'
    BY <1>1 DEF WriteRow, DbTypeOK, QuantityIsLastMovement
  <1> QED
    BY <1>3, <1>4, <1>5

(* What a commit does to the other transactions: they keep their locks and *)
(* their versions.                                                         *)
LEMMA OutdateKeeps ==
    ASSUME DbInv, NEW r \in Requests, NEW keys \in SUBSET (Rows \cup Sales), tx' = Outdate(r, keys)
    PROVE  /\ tx' \in [Requests -> Transaction]
           /\ LocksExclusive'
           /\ BuffersMatch'
  <1> USE DEF DbInv
  <1>1. Outdate(r, keys) \in [Requests -> Transaction]
    BY NoTransactionType DEF Outdate, DbTypeOK, Transaction
  <1>2. /\ tx'[r] = NoTransaction
        /\ \A q \in Requests \ {r} : /\ tx'[q].own = tx[q].own
                                     /\ tx'[q].buf = tx[q].buf
                                     /\ tx'[q].moves = tx[q].moves
    BY DEF Outdate, DbTypeOK, Transaction
  <1>3. LocksExclusive'
    BY <1>2 DEF LocksExclusive, NoTransaction
  <1>4. BuffersMatch'
    <2> SUFFICES ASSUME NEW q \in Requests, NEW x \in Rows
                 PROVE  IF x \in tx'[q].own
                        THEN tx'[q].moves[x] # <<>> /\ tx'[q].buf[x].qty = OnHand(tx'[q].moves[x])
                        ELSE tx'[q].moves[x] = <<>>
      BY DEF BuffersMatch
    <2>1. CASE q = r
      BY <2>1, <1>2 DEF NoTransaction
    <2>2. CASE q # r
      BY <2>2, <1>2 DEF BuffersMatch
    <2> QED
      BY <2>1, <2>2
  <1> QED
    BY <1>1, <1>3, <1>4

(* The commit of a transaction of many statements publishes, for each row  *)
(* it locked, a quantity and the movements that end in it.                 *)
LEMMA CommitInv ==
    ASSUME DbInv, NEW r \in Requests, NEW docs \in SUBSET Sales, Commit(r, docs)
    PROVE  DbInv'
  <1> USE DEF DbInv
  <1>1. tx[r].own \cup docs \in SUBSET (Rows \cup Sales)
    BY DEF DbTypeOK, Transaction
  <1>2. tx' \in [Requests -> Transaction] /\ LocksExclusive' /\ BuffersMatch'
    BY <1>1, OutdateKeeps DEF Commit
  <1>3. stock' \in [Rows -> StockItem]
    BY ViewType DEF Commit
  <1>4. ledger' \in [Rows -> Seq(StockMovement)]
    BY OnHandConcat DEF Commit, DbTypeOK, Transaction
  <1>5. ASSUME NEW x \in Rows PROVE stock'[x].qty = OnHand(ledger'[x])
    <2>1. /\ ledger[x] \in Seq(StockMovement) /\ tx[r].moves[x] \in Seq(StockMovement)
          /\ ledger'[x] = ledger[x] \o tx[r].moves[x]
          /\ stock'[x] = IF x \in tx[r].own THEN tx[r].buf[x] ELSE stock[x]
      BY DEF Commit, DbTypeOK, Transaction, View
    <2>2. CASE x \in tx[r].own
      <3>1. tx[r].moves[x] # <<>> /\ tx[r].buf[x].qty = OnHand(tx[r].moves[x])
        BY <2>2 DEF BuffersMatch
      <3> QED
        BY <2>1, <2>2, <3>1, OnHandConcat
    <2>3. CASE x \notin tx[r].own
      <3>1. tx[r].moves[x] = <<>>
        BY <2>3 DEF BuffersMatch
      <3> QED
        BY <2>1, <2>3, <3>1, OnHandConcat DEF QuantityIsLastMovement
    <2> QED
      BY <2>2, <2>3
  <1> QED
    BY <1>2, <1>3, <1>4, <1>5 DEF DbTypeOK, QuantityIsLastMovement

(* Rolling back forgets the transaction and nothing else.                  *)
LEMMA RollbackInv ==
    ASSUME DbInv, NEW r \in Requests, Rollback(r)
    PROVE  DbInv'
  <1> USE DEF DbInv
  <1>1. /\ tx' \in [Requests -> Transaction]
        /\ tx'[r] = NoTransaction
        /\ \A q \in Requests \ {r} : tx'[q] = tx[q]
    BY NoTransactionType DEF Rollback, DbTypeOK
  <1>2. LocksExclusive'
    BY <1>1 DEF LocksExclusive, NoTransaction
  <1>3. BuffersMatch'
    BY <1>1 DEF BuffersMatch, NoTransaction
  <1> QED
    BY <1>1, <1>2, <1>3 DEF Rollback, DbTypeOK, QuantityIsLastMovement

(* A transaction with a single stock write: it must either write no        *)
(* movement and keep the quantity, or write movements that end in the new  *)
(* one.                                                                    *)
LEMMA CommitRowInv ==
    ASSUME DbInv, NEW r \in Requests, NEW x \in Rows, NEW v \in StockItem,
           NEW ms \in Seq(StockMovement),
           IF ms = <<>> THEN v.qty = stock[x].qty ELSE v.qty = OnHand(ms),
           CommitRow(r, x, v, ms)
    PROVE  DbInv'
  <1> USE DEF DbInv
  <1>1. tx' \in [Requests -> Transaction] /\ LocksExclusive' /\ BuffersMatch'
    BY OutdateKeeps DEF CommitRow
  <1>2. ledger[x] \in Seq(StockMovement)
    BY DEF DbTypeOK
  <1>3. ledger' = [ledger EXCEPT ![x] = @ \o ms] /\ stock' = [stock EXCEPT ![x] = v]
    BY DEF CommitRow
  <1>4. stock' \in [Rows -> StockItem] /\ ledger' \in [Rows -> Seq(StockMovement)]
    BY <1>2, <1>3, OnHandConcat DEF DbTypeOK
  <1>5. stock'[x].qty = OnHand(ledger'[x])
    <2>1. ledger'[x] = ledger[x] \o ms /\ stock'[x] = v
      BY <1>3 DEF DbTypeOK
    <2>2. CASE ms = <<>>
      BY <2>1, <2>2, <1>2, OnHandConcat DEF QuantityIsLastMovement
    <2>3. CASE ms # <<>>
      BY <2>1, <2>3, <1>2, OnHandConcat
    <2> QED
      BY <2>2, <2>3
  <1>6. \A y \in Rows \ {x} : stock'[y].qty = OnHand(ledger'[y])
    BY <1>3 DEF DbTypeOK, QuantityIsLastMovement
  <1> QED
    BY <1>1, <1>4, <1>5, <1>6 DEF DbTypeOK, QuantityIsLastMovement

(* Opening a serializable transaction, and committing a statement that     *)
(* only wrote other tables.                                                *)
LEMMA BeginSerializableInv ==
    ASSUME DbInv, NEW r \in Requests, BeginSerializable(r)
    PROVE  DbInv'
  <1> USE DEF DbInv
  <1>1. /\ tx' \in [Requests -> Transaction]
        /\ \A q \in Requests : tx'[q].own = tx[q].own /\ tx'[q].buf = tx[q].buf /\ tx'[q].moves = tx[q].moves
    BY DEF BeginSerializable, DbTypeOK, Transaction
  <1> QED
    BY <1>1 DEF BeginSerializable, DbTypeOK, LocksExclusive, BuffersMatch, QuantityIsLastMovement

(* An UPDATE of another table only tells the open snapshots.               *)
LEMMA CommitDocsInv ==
    ASSUME DbInv, NEW r \in Requests, NEW docs \in SUBSET Sales, CommitDocs(r, docs)
    PROVE  DbInv'
  <1>1. tx' \in [Requests -> Transaction] /\ LocksExclusive' /\ BuffersMatch'
    BY OutdateKeeps DEF CommitDocs
  <1> QED
    BY <1>1 DEF DbInv, CommitDocs, DbTypeOK, QuantityIsLastMovement

-----------------------------------------------------------------------------
(* Movements among which is none of the kind M, and a history that grew by *)
(* such movements only.                                                    *)
Free(ms, M) == \A i \in DOMAIN ms : ms[i] \notin M

Grew(h, g, M) ==
    /\ DOMAIN h \subseteq DOMAIN g /\ \A i \in DOMAIN h : g[i] = h[i]
    /\ \A i \in DOMAIN g \ DOMAIN h : g[i] \notin M

(* A step of r enters none, if its open transaction has not, and leaves    *)
(* the movements of the others alone.                                      *)
Quiet(r, M) ==
    /\ \A q \in Requests \ {r}, x \in Rows : tx'[q].moves[x] = tx[q].moves[x]
    /\ (\A x \in Rows : Free(tx[r].moves[x], M)) =>
          \A x \in Rows : Free(tx'[r].moves[x], M) /\ Grew(ledger[x], ledger'[x], M)

(* The two kinds: what brings in the goods of a purchase, what a sale took.*)
GoodsIn == {m \in StockMovement : m.doc \in Purchases}
Sold == {m \in StockMovement : m.type = "SOLD"}

(* What a commit appends to a history.                                     *)
LEMMA Concatenated ==
    ASSUME NEW h \in Seq(StockMovement), NEW S, NEW ms \in Seq(S)
    PROVE  /\ \A i \in DOMAIN h : i \in DOMAIN (h \o ms) /\ (h \o ms)[i] = h[i]
           /\ \A i \in DOMAIN (h \o ms) \ DOMAIN h : i - Len(h) \in DOMAIN ms /\ (h \o ms)[i] = ms[i - Len(h)]
           /\ \A i \in DOMAIN ms : i + Len(h) \in DOMAIN (h \o ms) /\ (h \o ms)[i + Len(h)] = ms[i]
  OBVIOUS

LEMMA GrewByFree ==
    ASSUME NEW h \in Seq(StockMovement), NEW S, NEW ms \in Seq(S), NEW M, Free(ms, M)
    PROVE  Grew(h, h \o ms, M)
  <1> DEFINE all == h \o ms
  <1>1. \A i \in DOMAIN h : i \in DOMAIN all /\ all[i] = h[i]
    BY Concatenated
  <1>2. \A i \in DOMAIN all \ DOMAIN h : i - Len(h) \in DOMAIN ms /\ all[i] = ms[i - Len(h)]
    BY Concatenated
  <1> HIDE DEF all
  <1>3. Grew(h, all, M)
    BY <1>1, <1>2 DEF Grew, Free
  <1> QED
    BY <1>3 DEF all

(* Goods of p come to those that are there.                                *)
LEMMA GoodsConcat ==
    ASSUME NEW h \in Seq(StockMovement), NEW S, NEW ms \in Seq(S), NEW p
    PROVE  /\ Goods(ms, p) = {} => Goods(h \o ms, p) = Goods(h, p)
           /\ Goods(h, p) # {} => Goods(h \o ms, p) # {}
           /\ Goods(ms, p) # {} => Goods(h \o ms, p) # {}
  <1> DEFINE all == h \o ms
  <1>1. \A i \in DOMAIN h : i \in DOMAIN all /\ all[i] = h[i]
    BY Concatenated
  <1>2. \A i \in DOMAIN all \ DOMAIN h : i - Len(h) \in DOMAIN ms /\ all[i] = ms[i - Len(h)]
    BY Concatenated
  <1>3. \A i \in DOMAIN ms : i + Len(h) \in DOMAIN all /\ all[i + Len(h)] = ms[i]
    BY Concatenated
  <1> HIDE DEF all
  <1>5. Goods(ms, p) = {} => Goods(all, p) = Goods(h, p)
    BY <1>1, <1>2 DEF Goods
  <1>6. Goods(h, p) # {} => Goods(all, p) # {}
    BY <1>1 DEF Goods
  <1>7. Goods(ms, p) # {} => Goods(all, p) # {}
    BY <1>3 DEF Goods
  <1> QED
    BY <1>5, <1>6, <1>7 DEF all

(* The transactions of the others after a commit.                          *)
LEMMA OutdateMoves ==
    ASSUME DbTypeOK, NEW r \in Requests, NEW keys, tx' = Outdate(r, keys)
    PROVE  tx'[r] = NoTransaction /\ \A q \in Requests \ {r} : tx'[q].moves = tx[q].moves
  BY DEF Outdate, DbTypeOK, Transaction

(* A step after which r has no movements pending and no ledger differs is  *)
(* quiet,                                                                  *)
LEMMA QuietEmptied ==
    ASSUME NEW r \in Requests, NEW M, tx'[r] = NoTransaction, UNCHANGED ledger,
           \A q \in Requests \ {r} : tx'[q].moves = tx[q].moves
    PROVE  Quiet(r, M)
  BY DEF Quiet, NoTransaction, Free, Grew

(* one that leaves the tables alone, an error, a snapshot, a write of      *)
(* another table too;                                                      *)
LEMMA QuietIdle ==
    ASSUME DbTypeOK, NEW r \in Requests, NEW M,
           \/ UNCHANGED dbVars \/ Rollback(r) \/ BeginSerializable(r)
           \/ \E docs : CommitDocs(r, docs)
    PROVE  Quiet(r, M)
  <1>1. CASE UNCHANGED dbVars \/ BeginSerializable(r)
    <2>1. UNCHANGED ledger
      BY <1>1 DEF dbVars, BeginSerializable
    <2>2. ASSUME BeginSerializable(r) PROVE \A q \in Requests : tx'[q].moves = tx[q].moves
      BY <2>2 DEF BeginSerializable, DbTypeOK, Transaction
    <2>3. ASSUME UNCHANGED dbVars PROVE \A q \in Requests : tx'[q].moves = tx[q].moves
      BY <2>3 DEF dbVars
    <2> QED
      BY <1>1, <2>1, <2>2, <2>3 DEF Quiet, Grew
  <1>2. CASE Rollback(r)
    <2>1. tx'[r] = NoTransaction /\ \A q \in Requests \ {r} : tx'[q] = tx[q]
      BY <1>2 DEF Rollback, DbTypeOK
    <2> QED
      BY <1>2, <2>1, QuietEmptied DEF Rollback
  <1>3. ASSUME NEW docs, CommitDocs(r, docs) PROVE Quiet(r, M)
    <2>1. tx'[r] = NoTransaction /\ \A q \in Requests \ {r} : tx'[q].moves = tx[q].moves
      BY <1>3, OutdateMoves DEF CommitDocs
    <2> QED
      BY <1>3, <2>1, QuietEmptied DEF CommitDocs
  <1> QED
    BY <1>1, <1>2, <1>3

(* a commit,                                                               *)
LEMMA QuietCommit ==
    ASSUME DbTypeOK, NEW r \in Requests, NEW M, NEW docs, Commit(r, docs)
    PROVE  Quiet(r, M)
  <1>1. tx'[r] = NoTransaction /\ \A q \in Requests \ {r} : tx'[q].moves = tx[q].moves
    BY OutdateMoves DEF Commit
  <1>2. \A x \in Rows : /\ ledger'[x] = ledger[x] \o tx[r].moves[x]
                        /\ ledger[x] \in Seq(StockMovement) /\ tx[r].moves[x] \in Seq(StockMovement)
    BY DEF Commit, DbTypeOK, Transaction
  <1>3. ASSUME NEW x \in Rows, Free(tx[r].moves[x], M) PROVE Grew(ledger[x], ledger'[x], M)
    <2>1. /\ ledger'[x] = ledger[x] \o tx[r].moves[x]
          /\ ledger[x] \in Seq(StockMovement) /\ tx[r].moves[x] \in Seq(StockMovement)
      BY <1>2
    <2>2. Grew(ledger[x], ledger[x] \o tx[r].moves[x], M)
      BY <1>3, <2>1, GrewByFree
    <2> QED
      BY <2>1, <2>2
  <1>4. \A x \in Rows : Free(tx'[r].moves[x], M)
    BY <1>1 DEF NoTransaction, Free
  <1> QED
    BY <1>1, <1>3, <1>4 DEF Quiet

(* a statement of a transaction whose movement is of another kind,         *)
LEMMA QuietWrite ==
    ASSUME DbTypeOK, NEW r \in Requests, NEW M, NEW x \in Rows, NEW v, NEW m, m \notin M, WriteRow(r, x, v, m)
    PROVE  Quiet(r, M)
  <1>1. /\ \A q \in Requests \ {r} : tx'[q].moves = tx[q].moves
        /\ \A y \in Rows : tx[r].moves[y] \in Seq(StockMovement)
        /\ \A y \in Rows \ {x} : tx'[r].moves[y] = tx[r].moves[y]
        /\ tx'[r].moves[x] = Append(tx[r].moves[x], m)
    BY DEF WriteRow, DbTypeOK, Transaction
  <1>2. ASSUME NEW ms \in Seq(StockMovement), Free(ms, M) PROVE Free(Append(ms, m), M)
    BY <1>2 DEF Free
  <1>3. (\A y \in Rows : Free(tx[r].moves[y], M)) => \A y \in Rows : Free(tx'[r].moves[y], M)
    BY <1>1, <1>2
  <1> QED
    BY <1>1, <1>3 DEF Quiet, WriteRow, Grew

(* and a transaction of one such write.                                    *)
LEMMA QuietRow ==
    ASSUME DbTypeOK, NEW r \in Requests, NEW M, NEW x \in Rows, NEW v, NEW S, NEW ms \in Seq(S), Free(ms, M),
           CommitRow(r, x, v, ms)
    PROVE  Quiet(r, M)
  <1>1. tx'[r] = NoTransaction /\ \A q \in Requests \ {r} : tx'[q].moves = tx[q].moves
    BY OutdateMoves DEF CommitRow
  <1>2. ledger[x] \in Seq(StockMovement) /\ ledger'[x] = ledger[x] \o ms /\ \A y \in Rows \ {x} : ledger'[y] = ledger[y]
    BY DEF CommitRow, DbTypeOK
  <1>3. Grew(ledger[x], ledger'[x], M) /\ \A y \in Rows \ {x} : Grew(ledger[y], ledger'[y], M)
    BY <1>2, GrewByFree DEF Grew
  <1>4. \A y \in Rows : Free(tx'[r].moves[y], M)
    BY <1>1 DEF NoTransaction, Free
  <1> QED
    BY <1>1, <1>3, <1>4 DEF Quiet

(* It writes no movement, or one of another kind.                          *)
LEMMA QuietRows ==
    ASSUME DbTypeOK, NEW r \in Requests, NEW M, NEW x \in Rows, NEW v
    PROVE  /\ CommitRow(r, x, v, <<>>) => Quiet(r, M)
           /\ \A m : m \notin M /\ CommitRow(r, x, v, <<m>>) => Quiet(r, M)
  <1>1. <<>> \in Seq(StockMovement) /\ Free(<<>>, M)
    BY DEF Free
  <1>2. ASSUME NEW m, m \notin M PROVE <<m>> \in Seq({m}) /\ Free(<<m>>, M)
    BY <1>2 DEF Free
  <1> QED
    BY <1>1, <1>2, QuietRow

(* Stock and sale handlers bring in no purchase; only a sale takes.        *)
LEMMA KindOf ==
    /\ \A type, before, after : \A doc \in Sales \cup {NoDoc} : Movement(type, before, after, doc) \notin GoodsIn
    /\ \A type, before, after, doc : type # "SOLD" => Movement(type, before, after, doc) \notin Sold
  BY SentinelAssumption DEF Movement, GoodsIn, Sold
-----------------------------------------------------------------------------
(* Locks.  A step of r leaves those of the others alone,                   *)
LEMMA OthersHold ==
    ASSUME DbInv, DbInv', NEW r \in Requests, NEW M, Quiet(r, M), NEW q \in Requests, q # r
    PROVE  tx'[q].own = tx[q].own
  <1>1. tx[q].own \subseteq Rows /\ tx'[q].own \subseteq Rows
    BY DEF DbInv, DbTypeOK, Transaction
  <1>2. \A x \in Rows : (x \in tx[q].own <=> tx[q].moves[x] # <<>>) /\ (x \in tx'[q].own <=> tx'[q].moves[x] # <<>>)
    BY DEF DbInv, BuffersMatch
  <1>3. \A x \in Rows : tx'[q].moves[x] = tx[q].moves[x]
    BY DEF Quiet
  <1> QED
    BY <1>1, <1>2, <1>3

(* and gives its own back, when it ends its transaction or had none.       *)
LEMMA LocksReleased ==
    ASSUME DbTypeOK, NEW r \in Requests
    PROVE  /\ Rollback(r) => tx'[r].own = {}
           /\ \A docs : Commit(r, docs) \/ CommitDocs(r, docs) => tx'[r].own = {}
           /\ \A x, v, ms : CommitRow(r, x, v, ms) => tx'[r].own = {}
           /\ UNCHANGED dbVars \/ BeginSerializable(r) => tx'[r].own = tx[r].own
  BY DEF Rollback, Commit, CommitDocs, CommitRow, Outdate, BeginSerializable, dbVars, NoTransaction, DbTypeOK, Transaction

-----------------------------------------------------------------------------
(* IMEIs.  Version v of row x has none that another row may have.          *)
Claimable(x, v) == \A y \in Rows \ {x} : \A w \in Versions(y) : v.imei # NoImei => v.imei # w.imei

(* No row ceases to exist.                                                 *)
NoneVanish == \A x \in Rows : stock'[x].state = "absent" => stock[x].state = "absent"

(* A version without IMEI, or with that of another version of its row.     *)
LEMMA ClaimableSame ==
    ASSUME ImeiInv, NEW x \in Rows, NEW v
    PROVE  /\ v.imei = NoImei => Claimable(x, v)
           /\ \A w \in Versions(x) : v.imei = w.imei => Claimable(x, v)
  BY DEF ImeiInv, Claimable

(* What a transaction sees of a row is a version of it.                    *)
LEMMA ViewVersion ==
    ASSUME NEW r \in Requests, NEW x \in Rows
    PROVE  View(r)[x] \in Versions(x) /\ stock[x] \in Versions(x)
  BY DEF View, Versions

(* A step after which every row has fewer versions,                        *)
LEMMA ImeiFewer ==
    ASSUME ImeiInv, \A x \in Rows : Versions(x)' \subseteq Versions(x),
           \A q \in Requests : \A x \in tx'[q].own :
              x \in tx[q].own /\ tx'[q].buf[x] = tx[q].buf[x] /\ stock'[x] = stock[x]
    PROVE  ImeiInv'
  <1>1. (\A x, y \in Rows : x # y => \A v \in Versions(x), w \in Versions(y) : v.imei # NoImei => v.imei # w.imei)'
    BY DEF ImeiInv
  <1>2. (\A x \in Rows : \A v \in Versions(x) : v.state = "absent" => v.imei = NoImei)'
    BY DEF ImeiInv
  <1>3. ASSUME NEW q \in Requests, NEW x \in tx'[q].own
        PROVE  /\ stock'[x].state # "absent" => tx'[q].buf[x].state # "absent"
               /\ stock'[x].imei # NoImei => tx'[q].buf[x].imei = stock'[x].imei
    BY <1>3 DEF ImeiInv
  <1> QED
    BY <1>1, <1>2, <1>3 DEF ImeiInv

(* one that writes no stock,                                               *)
LEMMA ImeiIdle ==
    ASSUME DbTypeOK, ImeiInv, NEW r \in Requests,
           \/ UNCHANGED dbVars \/ Rollback(r) \/ BeginSerializable(r)
           \/ \E docs : CommitDocs(r, docs)
    PROVE  ImeiInv' /\ NoneVanish
  <1>1. UNCHANGED stock
    BY DEF dbVars, Rollback, BeginSerializable, CommitDocs
  <1>2. \A q \in Requests : \A x \in tx'[q].own : x \in tx[q].own /\ tx'[q].buf[x] = tx[q].buf[x]
    <2>1. CASE UNCHANGED dbVars
      BY <2>1 DEF dbVars
    <2>2. CASE Rollback(r)
      BY <2>2 DEF Rollback, DbTypeOK, NoTransaction
    <2>3. CASE BeginSerializable(r)
      BY <2>3 DEF BeginSerializable, DbTypeOK, Transaction
    <2>4. ASSUME NEW docs, CommitDocs(r, docs)
          PROVE  \A q \in Requests : \A x \in tx'[q].own : x \in tx[q].own /\ tx'[q].buf[x] = tx[q].buf[x]
      BY <2>4 DEF CommitDocs, Outdate, DbTypeOK, Transaction, NoTransaction
    <2> QED
      BY <2>1, <2>2, <2>3, <2>4
  <1>3. \A x \in Rows : Versions(x)' \subseteq Versions(x)
    BY <1>1, <1>2 DEF Versions
  <1> QED
    BY <1>1, <1>2, <1>3, ImeiFewer DEF NoneVanish

(* and a commit.                                                           *)
LEMMA ImeiCommit ==
    ASSUME DbInv, ImeiInv, NEW r \in Requests, NEW docs, Commit(r, docs)
    PROVE  ImeiInv' /\ NoneVanish
  <1>1. /\ tx'[r] = NoTransaction
        /\ \A q \in Requests \ {r} : tx'[q].own = tx[q].own /\ tx'[q].buf = tx[q].buf
    BY DEF Commit, Outdate, DbInv, DbTypeOK, Transaction
  <1>2. \A x \in Rows : stock'[x] = IF x \in tx[r].own THEN tx[r].buf[x] ELSE stock[x]
    BY DEF Commit, View
  <1>3. \A q \in Requests : \A x \in tx'[q].own :
           x \in tx[q].own /\ tx'[q].buf[x] = tx[q].buf[x] /\ stock'[x] = stock[x]
    <2> SUFFICES ASSUME NEW q \in Requests, NEW x \in tx'[q].own
                 PROVE  x \in tx[q].own /\ tx'[q].buf[x] = tx[q].buf[x] /\ stock'[x] = stock[x]
      OBVIOUS
    <2>1. q # r /\ x \in tx[q].own /\ tx'[q].buf[x] = tx[q].buf[x]
      BY <1>1 DEF NoTransaction
    <2>2. x \in Rows /\ x \notin tx[r].own
      BY <2>1 DEF DbInv, DbTypeOK, Transaction, LocksExclusive
    <2> QED
      BY <1>2, <2>1, <2>2
  <1>4. \A x \in Rows : Versions(x)' \subseteq Versions(x)
    BY <1>2, <1>3 DEF Versions
  <1>5. NoneVanish
    BY <1>2 DEF ImeiInv, NoneVanish
  <1> QED
    BY <1>3, <1>4, <1>5, ImeiFewer

(* A row gets a version with an IMEI of its own, in a transaction          *)
LEMMA ImeiWrite ==
    ASSUME DbInv, ImeiInv, NEW r \in Requests, NEW x \in Rows, NEW v, NEW m, WriteRow(r, x, v, m), Claimable(x, v),
           v.state = "absent" => v.imei = NoImei,
           stock[x].state # "absent" => v.state # "absent",
           stock[x].imei # NoImei => v.imei = stock[x].imei
    PROVE  ImeiInv' /\ NoneVanish
  <1>1. /\ UNCHANGED stock
        /\ \A q \in Requests : \A y \in tx'[q].own :
              IF q = r /\ y = x THEN tx'[q].buf[y] = v ELSE y \in tx[q].own /\ tx'[q].buf[y] = tx[q].buf[y]
    BY DEF WriteRow, DbInv, DbTypeOK, Transaction
  <1>2. Versions(x)' \subseteq Versions(x) \cup {v} /\ \A y \in Rows \ {x} : Versions(y)' \subseteq Versions(y)
    BY <1>1 DEF Versions
  <1>3. ASSUME NEW y \in Rows, NEW z \in Rows, y # z, NEW w \in Versions(y)', NEW u \in Versions(z)', w.imei # NoImei
        PROVE  w.imei # u.imei
    BY <1>2, <1>3 DEF ImeiInv, Claimable
  <1>4. \A y \in Rows : \A w \in Versions(y)' : w.state = "absent" => w.imei = NoImei
    BY <1>2 DEF ImeiInv
  <1>5. ASSUME NEW q \in Requests, NEW y \in tx'[q].own
        PROVE  /\ stock'[y].state # "absent" => tx'[q].buf[y].state # "absent"
               /\ stock'[y].imei # NoImei => tx'[q].buf[y].imei = stock'[y].imei
    BY <1>1, <1>5 DEF ImeiInv
  <1> QED
    BY <1>1, <1>3, <1>4, <1>5 DEF ImeiInv, NoneVanish

(* or in one that commits at once.                                         *)
LEMMA ImeiRow ==
    ASSUME DbInv, ImeiInv, NEW r \in Requests, NEW x \in Rows, NEW v, NEW ms, CommitRow(r, x, v, ms), Claimable(x, v),
           v.state = "absent" => v.imei = NoImei /\ stock[x].state = "absent"
    PROVE  ImeiInv' /\ NoneVanish
  <1>1. stock'[x] = v /\ \A y \in Rows \ {x} : stock'[y] = stock[y]
    BY DEF CommitRow, DbInv, DbTypeOK
  <1>2. \A q \in Requests : \A y \in tx'[q].own : y # x /\ y \in tx[q].own /\ tx'[q].buf[y] = tx[q].buf[y]
    BY DEF CommitRow, Unlocked, Outdate, DbInv, DbTypeOK, Transaction, NoTransaction
  <1>3. Versions(x)' \subseteq {v} /\ \A y \in Rows \ {x} : Versions(y)' \subseteq Versions(y)
    BY <1>1, <1>2 DEF Versions
  <1>4. ASSUME NEW y \in Rows, NEW z \in Rows, y # z, NEW w \in Versions(y)', NEW u \in Versions(z)', w.imei # NoImei
        PROVE  w.imei # u.imei
    BY <1>3, <1>4 DEF ImeiInv, Claimable
  <1>5. \A y \in Rows : \A w \in Versions(y)' : w.state = "absent" => w.imei = NoImei
    BY <1>3 DEF ImeiInv
  <1>6. \A q \in Requests : tx'[q].own \subseteq Rows
    BY <1>2 DEF DbInv, DbTypeOK, Transaction
  <1>7. ASSUME NEW q \in Requests, NEW y \in tx'[q].own
        PROVE  /\ stock'[y].state # "absent" => tx'[q].buf[y].state # "absent"
               /\ stock'[y].imei # NoImei => tx'[q].buf[y].imei = stock'[y].imei
    BY <1>1, <1>2, <1>6, <1>7 DEF ImeiInv
  <1> QED
    BY <1>1, <1>4, <1>5, <1>7 DEF ImeiInv, NoneVanish

(* A version that keeps the IMEI and the state of the one a transaction    *)
(* sees, and a new row without IMEI.                                       *)
LEMMA ImeiAmend ==
    ASSUME DbInv, ImeiInv, NEW r \in Requests, NEW x \in Rows, NEW v, NEW m, WriteRow(r, x, v, m),
           \/ v.imei = View(r)[x].imei /\ v.state = View(r)[x].state
           \/ Fresh(x) /\ v.imei = NoImei /\ v.state = "active"
    PROVE  ImeiInv' /\ NoneVanish
  <1>1. CASE v.imei = View(r)[x].imei /\ v.state = View(r)[x].state
    <2>1. Claimable(x, v) /\ (v.state = "absent" => v.imei = NoImei)
      BY <1>1, ViewVersion, ClaimableSame DEF ImeiInv
    <2>2. stock[x].state # "absent" => v.state # "absent"
      BY <1>1 DEF ImeiInv, View
    <2>3. stock[x].imei # NoImei => v.imei = stock[x].imei
      BY <1>1 DEF ImeiInv, View
    <2> QED
      BY <2>1, <2>2, <2>3, ImeiWrite
  <1>2. CASE Fresh(x) /\ v.imei = NoImei /\ v.state = "active"
    <2>1. stock[x].state = "absent"
      BY <1>2, RowsAssumption DEF Fresh
    <2>2. stock[x].imei = NoImei
      BY <2>1, ViewVersion DEF ImeiInv
    <2> QED
      BY <1>2, <2>1, <2>2, ClaimableSame, ImeiWrite
  <1> QED
    BY <1>1, <1>2

(* No two seeded rows have one IMEI.                                       *)
LEMMA ImeiInvInit == DbInit => ImeiInv
  BY SeedAssumption DEF DbInit, ImeiInv, Versions, NoTransaction, Missing

(* What the index is for.                                                  *)
LEMMA ImeiUniqueness == ImeiInv => ImeiUnique
  BY DEF ImeiInv, ImeiUnique, Versions

=============================================================================
