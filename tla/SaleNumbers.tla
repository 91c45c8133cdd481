----------------------------- MODULE SaleNumbers -----------------------------
(***************************************************************************)
(* How createSale numbers a sale: the greatest number of the organization  *)
(* and the year, plus one, padded to three digits; or a number the request *)
(* brings.  The number is found outside the transaction that inserts the   *)
(* sale, the greatest is the greatest as TEXT, and the index that keeps    *)
(* numbers unique knows no organizations.                                  *)
(*                                                                         *)
(* Digits are to base Base and Width of them are padded to (10 and 3 in    *)
(* the code).  Text is a number of the year, brought by a request, that is *)
(* not numeric: parseInt makes NaN of it, and every letter sorts behind    *)
(* the digits.                                                             *)
(*                                                                         *)
(* In calm weather a sale is inserted before the next is looked at.        *)
(***************************************************************************)
EXTENDS Naturals, Sequences, FiniteSets, Weather

CONSTANTS
    Shops,              \* organizations
    Tills,              \* requests under way
    Base, Width,
    NaN, Text,          \* numbers that are none
    Brought,            \* the numbers requests bring
    MaxSales            \* bound

ASSUME NumbersAssumption ==
    /\ Base \in Nat \ {0, 1} /\ Width \in Nat \ {0} /\ Base ^ Width \in Nat /\ MaxSales \in Nat
    /\ NaN \notin Nat /\ Text \notin Nat /\ Shops # {}
    /\ Brought \subseteq (Nat \ {0}) \cup {Text}

VARIABLES
    sold,       \* the sales in the order they were inserted: organization, number, and if it was brought
    till

numberVars == <<sold, till>>

IdleTill == [pc |-> "idle", shop |-> CHOOSE s \in Shops : TRUE, number |-> 0, own |-> FALSE]

(* The digits of a number once padded, and its place in the order of       *)
(* texts: numbers of one length as numbers, others digit by digit.         *)
Digits(n) ==
    IF n < Base ^ Width THEN Width
    ELSE CHOOSE d \in Width + 1 .. Width + n : Base ^ (d - 1) <= n /\ n < Base ^ d

TextBefore(m, n) ==
    IF m = n \/ n \in {NaN, Text} THEN TRUE
    ELSE IF m \in {NaN, Text} THEN FALSE
    ELSE IF Digits(m) = Digits(n) THEN m < n
    ELSE LET longest == IF Digits(m) > Digits(n) THEN Digits(m) ELSE Digits(n)
             left(k) == k * Base ^ (longest - Digits(k))
         IN  left(m) < left(n) \/ (left(m) = left(n) /\ Digits(m) < Digits(n))

NumbersOf(shop) == {sold[i].number : i \in {j \in DOMAIN sold : sold[j].shop = shop}}
NumberTaken(n) == \E i \in DOMAIN sold : sold[i].number = n

(* Fault: the first of the order, not the last.                            *)
FirstNumber(shop) == {n \in NumbersOf(shop) : \A m \in NumbersOf(shop) : TextBefore(n, m)}

(* What ordering the sales of a shop by their number finds last.           *)
LastNumber(shop) == {n \in NumbersOf(shop) : \A m \in NumbersOf(shop) : TextBefore(m, n)}

NextNumber(shop) ==
    IF NumbersOf(shop) = {} THEN {1} ELSE {IF n \in {NaN, Text} THEN NaN ELSE n + 1 : n \in LastNumber(shop)}

TillFree(t) == till[t].pc # "insert" /\ (calm => \A u \in Tills : till[u].pc # "insert")

(* generateSaleNumber.                                                     *)
NumberSale(t) ==
    /\ TillFree(t) /\ Len(sold) < MaxSales
    /\ \E s \in Shops : \E n \in NextNumber(s) :
          till' = [till EXCEPT ![t] = [pc |-> "insert", shop |-> s, number |-> n, own |-> FALSE]]
    /\ UNCHANGED sold

(* validateSaleNumber: not taken in this organization.                     *)
BringNumber(t) ==
    /\ TillFree(t) /\ Len(sold) < MaxSales
    /\ \E s \in Shops, n \in Brought :
          /\ n \notin NumbersOf(s)
          /\ till' = [till EXCEPT ![t] = [pc |-> "insert", shop |-> s, number |-> n, own |-> TRUE]]
    /\ UNCHANGED sold

(* The insert, which the unique index refuses if anybody has the number.   *)
InsertSale(t) ==
    LET n == till[t].number
    IN  /\ till[t].pc = "insert"
        /\ till' = [till EXCEPT ![t].pc = IF NumberTaken(n) THEN "refused" ELSE "done"]
        /\ sold' = IF NumberTaken(n) THEN sold ELSE Append(sold, [shop |-> till[t].shop, number |-> n, own |-> till[t].own])

NumbersInit == sold = <<>> /\ till = [t \in Tills |-> IdleTill]

NumbersNext == \E t \in Tills : NumberSale(t) \/ BringNumber(t) \/ InsertSale(t)

NumbersSpec == NumbersInit /\ [][NumbersNext /\ UNCHANGED calm]_<<numberVars, calm>>

-----------------------------------------------------------------------------
NumbersTypeOK ==
    /\ \A i \in DOMAIN sold : sold[i].shop \in Shops /\ sold[i].number \in Nat \cup {NaN, Text}
    /\ till \in [Tills -> [pc : {"idle", "insert", "done", "refused"}, shop : Shops, number : Nat \cup {NaN, Text},
                           own : BOOLEAN]]

(* As far as numbering can be relied on.  Under every interleaving numbers *)
(* are unique.  In calm weather, as long as only one organization has sold *)
(* and no request brought a number, none of its sales is refused for its   *)
(* number and numbers go up by one - up to the first of more than Width    *)
(* digits: as text it is before the last, so that it is given out again    *)
(* and every later sale is refused.                                        *)
AloneUnaided(shop) == \A i \in DOMAIN sold : sold[i].shop = shop /\ ~sold[i].own

NumbersRunOn ==
    /\ \A i, j \in DOMAIN sold : sold[i].number = sold[j].number => i = j
    /\ \A s \in Shops : calm /\ AloneUnaided(s) /\ Len(sold) < Base ^ Width =>
          /\ \A i \in DOMAIN sold : sold[i].number = i
          /\ \A t \in Tills : till[t].pc = "refused" => till[t].shop # s \/ till[t].own
=============================================================================
