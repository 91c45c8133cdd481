--------------------------- MODULE SaleLifecycle ---------------------------
(***************************************************************************)
(* What SalesService promises about sales and stock, without requests,     *)
(* transactions or movements: every operation is one atomic step guarded   *)
(* by the status the sale has at that moment.                              *)
(***************************************************************************)
EXTENDS Naturals

CONSTANTS Sales, Rows

VARIABLES
    status,   \* per sale, "NONE" before it is created
    deleted,  \* the sales whose deletedAt is set
    demand,   \* per sale, the units of each stock item its lines ask for
    onHand    \* per stock item, its quantity

vars == <<status, deleted, demand, onHand>>

Init ==
    /\ status \in [Sales -> {"NONE", "DRAFT"}]
    /\ deleted \in SUBSET Sales
    /\ demand \in [Sales -> [Rows -> Nat]]
    /\ onHand \in [Rows -> Nat]

Move(s, from, to) ==
    /\ status[s] \in from
    /\ status' = [status EXCEPT ![s] = to]
    /\ UNCHANGED deleted

Create(s) ==
    /\ Move(s, {"NONE"}, "DRAFT")
    /\ \A t \in Sales \ {s} : demand'[t] = demand[t]
    /\ UNCHANGED onHand

Pay(s) ==
    /\ s \notin deleted
    /\ Move(s, {"DRAFT"}, "PAID")
    /\ \A x \in Rows : demand[s][x] <= onHand[x]
    /\ onHand' = [x \in Rows |-> onHand[x] - demand[s][x]]
    /\ UNCHANGED demand

Cancel(s) == s \notin deleted /\ Move(s, {"DRAFT", "PAID"}, "CANCELLED") /\ UNCHANGED <<demand, onHand>>

Ship(s) == Move(s, {"PAID"}, "SHIPPED") /\ UNCHANGED <<demand, onHand>>

Deliver(s) == s \notin deleted /\ Move(s, {"SHIPPED"}, "DELIVERED") /\ UNCHANGED <<demand, onHand>>

Delete(s) ==
    /\ status[s] = "DRAFT"
    /\ deleted' = deleted \cup {s}
    /\ UNCHANGED <<status, demand, onHand>>

Restore(s) ==
    /\ deleted' = deleted \ {s}
    /\ UNCHANGED <<status, demand, onHand>>

(* Entries, adjustments and receipts change what is on hand.               *)
Restock == onHand' \in [Rows -> Nat] /\ UNCHANGED <<status, deleted, demand>>

Next ==
    \/ Restock
    \/ \E s \in Sales :
          Create(s) \/ Pay(s) \/ Cancel(s) \/ Ship(s) \/ Deliver(s) \/ Delete(s) \/ Restore(s)

Spec == Init /\ [][Next]_vars
=============================================================================
