----------------------------- MODULE MCBackOffice -----------------------------
(***************************************************************************)
(* The back office on small instances, in calm weather or not.  What the   *)
(* users ask for is counted, so that it can be bounded; the parts a        *)
(* behaviour does not exercise begin, and stay, in one state.              *)
(***************************************************************************)
EXTENDS BackOffice

VARIABLE calls      \* the requests this behaviour has begun

CONSTANTS e1, e2, o1, o2, t1, t2, A, B, g1, prodA, prodB, groupA, u1, u2, f1, f2, binder,
          MaxAccounts, MaxCatalogue, MaxPricing, MaxTouches, MaxClicksOnLists

mcVars == <<backOfficeVars, calls>>

(* Two products that differ in colour, seeded in two batches.              *)
MCBatches == <<{prodA}, {prodB}>>
MCGroupOf == [p \in Products |-> groupA]

(* Rules of every type and scope, two of them of one priority.             *)
MCThingOne == [base |-> 10, attr |-> [model |-> A, color |-> A]]
MCThingTwo == [base |-> 20, attr |-> [model |-> B, color |-> A]]
MCThingData == {MCThingOne, MCThingTwo}
Rule(p, on, type, scope, m, v) ==
    [priority |-> p, active |-> on, type |-> type, scope |-> scope, matchers |-> m, value |-> v]
MCRuleData ==
    {Rule(1, TRUE, "MARKUP_PERCENT", "GLOBAL", [x \in {} |-> A], 10),
     Rule(2, TRUE, "OVERRIDE_PRICE", "BY_PRODUCT", [model |-> A], 7),
     Rule(2, FALSE, "MARKUP_FIXED", "BY_CONDITION", [color |-> A], 3),
     Rule(3, TRUE, "MARKUP_FIXED", "BY_CATEGORY", [category |-> A], 3)}
CartLine(t, b, n, sum) == [thing |-> t, base |-> b, qty |-> n, total |-> sum]
MCCarts ==
    {<<CartLine(t1, NoBase, 2, 20), CartLine(t1, NoBase, 2, 20)>>,
     <<CartLine(t2, NoBase, 1, 20), CartLine(NoThing, NoBase, 3, 5)>>,
     <<CartLine(t1, 4, 1, 0)>>}

(* "a" and "a new" are the same once cleaned; nothing is found for "z".    *)
TextLine(q, c, n) == [query |-> q, clean |-> c, qty |-> n]
MCFinds == [q \in {"a", "a new", "z"} |-> IF q = "z" THEN NoGoods ELSE g1]
MCTexts == {<<TextLine("a new", "a", 1), TextLine("a", "a", 2), TextLine("z", "z", 1)>>, <<TextLine("z", "z", 0)>>}

(* A row that every filter finds, and one that none does.                  *)
EveryFilter == {"own", "search", "status", "sellerId", "type", "active", "action", "dateFrom", binder}
MCRowKinds == {EveryFilter, {"own", binder}}

MCInit ==
    /\ calm \in BOOLEAN /\ calls = 0
    /\ focus \in {"accounts", "catalogue", "pricing", "numbers", "form", "web", "migrations", "lists"}
    \* No property of a start speaks of calm weather, which is one of its storms.
    /\ focus = "migrations" => ~calm
    /\ focus # "migrations" => schema = {} /\ ledgerUsed = "no" /\ rows = [m \in Migration |-> <<>>]
    /\ focus # "lists" => tab = "sellers" /\ seller = FALSE /\ listed = [i \in 1..FirstRows |-> EveryFilter]
    /\ focus # "accounts" => role = [o \in Orgs |-> [e \in Emails |-> IF o = o1 THEN "ADMIN" ELSE "none"]]
    /\ thing = t1 :> MCThingOne @@ t2 :> MCThingTwo
    /\ BackOfficeInit
    \* One user of one organization, and one of one or of two.
    /\ belongs[u1] \in {<<f1>>, <<f1, f2>>} /\ belongs[u2] = <<f2>>
    /\ auth.user # u2 \/ ~calm
    /\ focus # "web" => belongs[u1] = <<f1>> /\ auth.user = Nobody
    /\ focus = "lists" => listed[FirstRows] = EveryFilter /\ (seller => tab \in {"sales", "customers"})

(* How many requests a step begins: what a user, a clerk or time does is   *)
(* counted, answers are not.                                               *)
PricingBegins ==
    \/ desk' # desk /\ \A d \in Desks : desk[d].op = "idle"
    \/ \E r \in Rules : ~rule[r].exists /\ rule'[r].exists
    \/ thing' # thing
    \/ \E q \in Quoters : quote[q].pc # "pricing" /\ quote'[q].pc = "pricing"
WebBegins == ~(Len(sent') = Len(sent) /\ sent' # sent /\ UNCHANGED page)
ListsBegin == <<typed, num, size, opened, listed, ticked>>' # <<typed, num, size, opened, listed, ticked>>

Begun ==
    CASE focus = "accounts" -> Cardinality({s \in Sessions : session'[s] # session[s] /\ ~InFlight(s)})
      [] focus = "catalogue" -> Cardinality({c \in Clerks : clerk'[c].op # clerk[c].op /\ clerk[c].op = "idle"})
      [] focus = "pricing" -> IF PricingBegins THEN 1 ELSE 0
      [] focus = "web" -> IF WebBegins THEN 1 ELSE 0
      [] focus = "lists" -> IF ListsBegin THEN 1 ELSE 0
      [] OTHER -> 0
MaxBegun ==
    CASE focus = "accounts" -> MaxAccounts
      [] focus = "catalogue" -> MaxCatalogue
      [] focus = "pricing" -> MaxPricing
      [] focus = "web" -> IF calm THEN 2 * MaxTouches ELSE MaxTouches
      [] focus = "lists" -> IF calm /\ tab # "movements" THEN MaxClicksOnLists + 1 ELSE MaxClicksOnLists
      [] OTHER -> 0

MCNext ==
    /\ BackOfficeNext
    /\ calls' = calls + Begun /\ calls' <= MaxBegun
    \* In calm weather users mark rows like the seeder's; in a storm they do not.
    /\ focus = "catalogue" /\ ~calm =>
          \A c \in Clerks : clerk'[c].op = "createItem" => clerk'[c].row.mark = "none" /\ ~clerk'[c].row.apple
    /\ focus = "web" => calm \/ Len(sent') < MaxSent

MCSpec == MCInit /\ [][MCNext]_mcVars
=============================================================================
