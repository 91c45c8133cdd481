--------------------------- MODULE MCSalesService ---------------------------
(* SalesService alone, over a small stock that only sales change.          *)
EXTENDS SalesService, TLC

CONSTANTS a, b, i1, m1

(* Two batches of which row 2 is a phone with an IMEI.                     *)
SaleSeed ==
    [x \in Rows |->
        [state |-> "active", qty |-> IF x = 2 THEN 1 ELSE 2, status |-> "AVAILABLE",
         imei |-> IF x = 2 THEN m1 ELSE NoImei, sku |-> NoSku, item |-> i1]]

Of(x, n) == [row |-> x, qty |-> n]

(* A cart of a service and a phone.                                        *)
PhoneCarts == {<<Of(NoRow, 1), Of(2, 1)>>}

Draft(cart) == [NoSale EXCEPT !.status = "DRAFT", !.lines = cart]

(* Two drafts that ask for the same rows in either order, and a free id.   *)
MixedSales ==
    [s \in Sales |-> CASE s = a -> Draft(<<Of(1, 1), Of(2, 1)>>)
                       [] s = b -> Draft(<<Of(2, 1), Of(NoRow, 1), Of(1, 1)>>)
                       [] OTHER -> NoSale]

(* A sale whose two lines name the same stock item.                        *)
TwinSales == [s \in Sales |-> IF s = a THEN Draft(<<Of(2, 1), Of(2, 1)>>) ELSE NoSale]

(* Every request has been answered: the server waits for the next one.     *)
Idle == (\A r \in SaleRequests : SaleAt(r, "done")) /\ UNCHANGED salesVars

MCInit == DbInit /\ SalesInit
MCNext == SalesNext \/ Idle
MCSpec == MCInit /\ [][MCNext]_salesVars
=============================================================================
