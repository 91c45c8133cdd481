------------------------------- MODULE Pricing -------------------------------
(***************************************************************************)
(* PricingService of one organization: the rules a price is made with, and *)
(* the quotes that use them.  A quote prices each of its lines by reads of *)
(* its own (Promise.all), between which others change the rules.  Rules of *)
(* equal priority come from the database in any order.                     *)
(*                                                                         *)
(* Prices are in hundredths, so that a percentage of a base price is       *)
(* exact; allowStacking, which no caller sets, is left out.  A stock item  *)
(* is edited like the rules are; the price of a sale's line stays what it  *)
(* was made with.                                                          *)
(*                                                                         *)
(* In calm weather a request is over before the next begins.               *)
(***************************************************************************)
EXTENDS Integers, Sequences, FiniteSets, Weather

CONSTANTS
    Rules,              \* rows of PricingRule
    RuleData,           \* what requests make of a rule: priority, active, type, scope, matchers, value
    Things,             \* stock items
    Fields,             \* model, condition, storage, color
    ThingData,          \* what a stock item can be: its fields (attr) and its base price
    NoThing, NoRule,
    Carts,              \* the lines of requests and of sales: thing, base (or NoBase), qty, total
    NoBase,
    Desks, Quoters      \* requests about rules, and requests for prices

ASSUME PricingAssumption ==
    /\ NoThing \notin Things /\ NoRule \notin Rules /\ \A d \in ThingData : d.base \in Int
    /\ \A cart \in Carts : \A i \in DOMAIN cart :
          /\ cart[i].thing \in Things \cup {NoThing} /\ cart[i].qty \in Nat /\ cart[i].total \in Int
          /\ cart[i].base = NoBase \/ cart[i].base \in Int
    /\ RuleData # {} /\ \A d \in RuleData : d.priority \in Int /\ d.value \in Int
    /\ \A d \in RuleData : d.type \in {"MARKUP_PERCENT", "MARKUP_FIXED", "OVERRIDE_PRICE"}
    /\ \A d \in RuleData : d.scope \in {"GLOBAL", "BY_PRODUCT", "BY_CONDITION", "BY_CATEGORY"}

VARIABLES
    rule,       \* the rows
    thing,      \* the stock items
    desk,       \* the request each desk has looked up a rule for
    quote,      \* the lines asked for and priced so far; even: two rules were of one priority;
                \* moved: a rule or an item was written meanwhile
    withdrawn   \* the rules that have been out of force ever since each quote began

pricingVars == <<rule, thing, desk, quote, withdrawn>>

IdleDesk == [op |-> "idle", rule |-> NoRule, data |-> CHOOSE d \in RuleData : TRUE]
IdleQuote == [pc |-> "idle", kind |-> "item", lines |-> <<>>, priced |-> <<>>, even |-> FALSE, moved |-> FALSE]
(* kept: the line of a sale keeps the total it has.                        *)
Unpriced == [done |-> FALSE, rule |-> NoRule, price |-> 0, kept |-> FALSE]
Kept(line) == [done |-> TRUE, rule |-> NoRule, price |-> 100 * line.total, kept |-> TRUE]

NoRuleRow == [exists |-> FALSE, deleted |-> FALSE, data |-> CHOOSE d \in RuleData : TRUE]
RuleRows == {r \in Rules : rule[r].exists}
EvenPriorities == \E r, s \in RuleRows : r # s /\ rule[r].data.priority = rule[s].data.priority
NobodyPrices == (\A d \in Desks : desk[d].op = "idle") /\ (\A q \in Quoters : quote[q].pc # "pricing")
DeskFree(d) == desk[d].op = "idle" /\ (calm => NobodyPrices)

-----------------------------------------------------------------------------
(* A rule without matchers is GLOBAL or matches nothing; categories are    *)
(* not implemented; every other field a rule names must be as it says.     *)
MatchesFields(m, t) == \A f \in DOMAIN m \cap Fields : thing[t].attr[f] = m[f]

RuleMatches(r, t) ==
    LET d == rule[r].data
    IN  \/ d.scope = "GLOBAL"
        \/ /\ DOMAIN d.matchers # {}
           /\ ~(d.scope = "BY_CATEGORY" /\ "category" \in DOMAIN d.matchers)
           /\ MatchesFields(d.matchers, t)

(* Fault: deleted rules still count.                                       *)
ActiveOnly(r) == rule[r].data.active

InForce(r) == rule[r].data.active /\ ~rule[r].deleted

(* The rules that can come first among those that match.                   *)
FirstRules(t) ==
    LET matching == {r \in RuleRows : InForce(r) /\ RuleMatches(r, t)}
    IN  {r \in matching : \A s \in matching : rule[s].data.priority <= rule[r].data.priority}

ApplyRule(base, d) ==
    CASE d.type = "OVERRIDE_PRICE" -> 100 * d.value
      [] d.type = "MARKUP_PERCENT" -> base * (100 + d.value)
      [] d.type = "MARKUP_FIXED"   -> 100 * (base + d.value)

(* computePrice: the price it may answer for an item.                      *)
BaseOf(line) == IF line.base = NoBase THEN thing[line.thing].base ELSE line.base
ComputePrice(line) ==
    IF FirstRules(line.thing) = {}
      THEN {[Unpriced EXCEPT !.done = TRUE, !.price = 100 * BaseOf(line)]}
      ELSE {[Unpriced EXCEPT !.done = TRUE, !.rule = r, !.price = ApplyRule(BaseOf(line), rule[r].data)] : r \in FirstRules(line.thing)}

-----------------------------------------------------------------------------
(* Rules.  Found under the condition that they are (not) deleted, then     *)
(* written by id.  What is written moves the quotes being made.            *)
Moved == [q \in Quoters |-> IF quote[q].pc = "pricing" THEN [quote[q] EXCEPT !.moved = TRUE] ELSE quote[q]]
NoticedBy(rows) == withdrawn' = [q \in Quoters |-> {r \in withdrawn[q] : ~rows[r].data.active \/ rows[r].deleted}]
WriteRule(r, row) ==
    LET rows == [rule EXCEPT ![r] = row]
    IN  rule' = rows /\ NoticedBy(rows) /\ quote' = Moved /\ UNCHANGED thing
DeskDone(d) == desk' = [desk EXCEPT ![d] = IdleDesk]

CreateRule(d) ==
    /\ DeskFree(d)
    /\ \E r \in Rules \ RuleRows, data \in RuleData : WriteRule(r, [exists |-> TRUE, deleted |-> FALSE, data |-> data])
    /\ UNCHANGED desk

FindRule(d) ==
    /\ DeskFree(d)
    /\ \E r \in RuleRows, op \in {"update", "delete", "restore"}, data \in RuleData :
          /\ rule[r].deleted <=> op = "restore"
          /\ op # "update" => data = IdleDesk.data
          /\ desk' = [desk EXCEPT ![d] = [op |-> op, rule |-> r, data |-> data]]
    /\ UNCHANGED <<rule, thing, quote, withdrawn>>

UpdateRule(d) ==
    LET r == desk[d].rule
    IN  /\ desk[d].op = "update"
        /\ WriteRule(r, [rule[r] EXCEPT !.data = desk[d].data])
        /\ DeskDone(d)

DeleteRule(d) ==
    LET r == desk[d].rule
    IN  /\ desk[d].op = "delete"
        /\ WriteRule(r, [rule[r] EXCEPT !.deleted = TRUE])
        /\ DeskDone(d)

RestoreRule(d) ==
    LET r == desk[d].rule
    IN  /\ desk[d].op = "restore"
        /\ WriteRule(r, [rule[r] EXCEPT !.deleted = FALSE])
        /\ DeskDone(d)

(* A query fails between the two.                                          *)
DeskFails(d) ==
    /\ ~calm /\ desk[d].op # "idle"
    /\ DeskDone(d) /\ UNCHANGED <<rule, thing, quote, withdrawn>>

(* updateStockItem: the fields of an item and its base price.              *)
ChangeThing(t) ==
    /\ calm => NobodyPrices
    /\ \E data \in ThingData : thing' = [thing EXCEPT ![t] = data]
    /\ quote' = Moved
    /\ UNCHANGED <<rule, desk, withdrawn>>

-----------------------------------------------------------------------------
(* Quotes: of an item, of several (none if one of them is not found), and  *)
(* of a sale, whose lines without an item keep the price they have.        *)
Asked(kind, lines) ==
    [pc |-> "pricing", kind |-> kind, lines |-> lines, priced |-> [i \in DOMAIN lines |-> Unpriced],
     even |-> EvenPriorities, moved |-> FALSE]

QuoteStart(q) ==
    /\ quote[q].pc # "pricing" /\ (calm => NobodyPrices)
    /\ \E kind \in {"item", "bulk", "sale"}, lines \in Carts :
          /\ kind = "item" => Len(lines) = 1
          /\ kind = "sale" => \A i \in DOMAIN lines : lines[i].base = NoBase
          /\ kind # "sale" => \A i \in DOMAIN lines : lines[i].thing # NoThing
          /\ quote' = [quote EXCEPT ![q] = Asked(kind, lines)]
    /\ withdrawn' = [withdrawn EXCEPT ![q] = Rules \ {r \in RuleRows : rule[r].data.active /\ ~rule[r].deleted}]
    /\ UNCHANGED <<rule, thing, desk>>

PriceLine(q, i) ==
    /\ quote[q].pc = "pricing" /\ ~quote[q].priced[i].done
    /\ LET line == quote[q].lines[i]
       IN  \E p \in IF line.thing = NoThing THEN {Kept(line)} ELSE ComputePrice(line) :
             quote' = [quote EXCEPT ![q].priced[i] = p]
    /\ UNCHANGED <<rule, thing, desk, withdrawn>>

QuoteAnswer(q) ==
    /\ quote[q].pc = "pricing" /\ \A i \in DOMAIN quote[q].priced : quote[q].priced[i].done
    /\ quote' = [quote EXCEPT ![q].pc = "answered"]
    /\ UNCHANGED <<rule, thing, desk, withdrawn>>

(* The queries of a line fail: a sale keeps the price the line has, other  *)
(* quotes fail as a whole.                                                 *)
LineFails(q, i) ==
    /\ ~calm /\ quote[q].pc = "pricing" /\ ~quote[q].priced[i].done
    /\ quote' = [quote EXCEPT ![q] = IF @.kind = "sale" THEN [@ EXCEPT !.priced[i] = Kept(quote[q].lines[i])]
                                                        ELSE IdleQuote]
    /\ UNCHANGED <<rule, thing, desk, withdrawn>>

-----------------------------------------------------------------------------
PricingInit ==
    /\ rule = [r \in Rules |-> NoRuleRow] /\ thing \in [Things -> ThingData]
    /\ desk = [d \in Desks |-> IdleDesk]
    /\ quote = [q \in Quoters |-> IdleQuote]
    /\ withdrawn = [q \in Quoters |-> {}]

PricingNext ==
    \/ \E d \in Desks : CreateRule(d) \/ FindRule(d) \/ UpdateRule(d) \/ DeleteRule(d) \/ RestoreRule(d) \/ DeskFails(d)
    \/ \E t \in Things : ChangeThing(t)
    \/ \E q \in Quoters : QuoteStart(q) \/ QuoteAnswer(q)
    \/ \E q \in Quoters : \E i \in DOMAIN quote[q].priced : PriceLine(q, i) \/ LineFails(q, i)

PricingSpec == PricingInit /\ [][PricingNext /\ UNCHANGED calm]_<<pricingVars, calm>>

-----------------------------------------------------------------------------
PricingTypeOK ==
    /\ rule \in [Rules -> [exists : BOOLEAN, deleted : BOOLEAN, data : RuleData]] /\ thing \in [Things -> ThingData]
    /\ desk \in [Desks -> [op : {"idle", "update", "delete", "restore"}, rule : Rules \cup {NoRule}, data : RuleData]]
    /\ \A q \in Quoters : /\ quote[q].pc \in {"idle", "pricing", "answered"} /\ withdrawn[q] \subseteq Rules
                          /\ \A i \in DOMAIN quote[q].priced : quote[q].priced[i].rule \in Rules \cup {NoRule}

(* Under every interleaving and fault: no line is priced by a rule that    *)
(* was deleted or inactive from before the quote began until now.  And the *)
(* reads of one quote agree unless something came between them: when the   *)
(* rules had different priorities, and no rule and no item was written     *)
(* while the quote was made, its equal lines have equal prices, but for a  *)
(* line of a sale whose queries failed, which keeps the price it had.      *)
QuoteConsistent ==
    \A q \in Quoters :
        /\ quote[q].pc = "pricing" => \A i \in DOMAIN quote[q].priced : quote[q].priced[i].rule \notin withdrawn[q]
        /\ ~quote[q].even /\ ~quote[q].moved /\ quote[q].pc = "answered" =>
              \A i, j \in DOMAIN quote[q].lines :
                  /\ quote[q].lines[i] = quote[q].lines[j]
                  /\ quote[q].priced[i].kept <=> quote[q].priced[j].kept
                  => quote[q].priced[i] = quote[q].priced[j]
=============================================================================
