--------------------------- MODULE MCStockService ---------------------------
(* StockService alone on a table of a few rows.                            *)
EXTENDS StockService, TLC

CONSTANTS i1, i2, m1, m2

Row(qty, status, imei, item) ==
    [state |-> "active", qty |-> qty, status |-> status, imei |-> imei, sku |-> NoSku, item |-> item]

(* A phone and a batch.                                                    *)
PhoneAndBatch ==
    [x \in Rows |-> CASE x = 1 -> Row(1, "AVAILABLE", m1, i1)
                      [] x = 2 -> Row(1, "AVAILABLE", NoImei, i1)
                      [] OTHER -> Missing]

NoEdits == {NoEdit}
MCChanges == {-1, 1}
OneOfEach == {[i \in Items |-> 1]}

(* Every request has been answered: the server waits for the next one.     *)
Idle == (\A r \in StockRequests : call[r].pc = "done") /\ UNCHANGED stockVars

MCInit == DbInit /\ StockInit
MCNext == StockNext \/ Idle
MCSpec == MCInit /\ [][MCNext]_stockVars
=============================================================================
