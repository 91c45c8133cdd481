------------------------------ MODULE StockForm ------------------------------
(***************************************************************************)
(* The dialog with which stock is added in the browser                     *)
(* (AddStockItemDialog): one item, by quantity or by IMEI, or many rows at *)
(* once, typed, pasted or imported from a file.  Pasted lines are matched  *)
(* with the catalogue by searches that take time, a save waits for the     *)
(* server, and the dialog stays usable meanwhile.  Rows are told apart by  *)
(* the millisecond they were made in.                                      *)
(*                                                                         *)
(* The server adds all rows of a save or none; nothing tells a repeated    *)
(* save from a new one.  The quick variant, which no page uses, is left    *)
(* out, and so is marking the rows of missing items: the client reads them *)
(* from error.response, which ApiError does not have.                      *)
(*                                                                         *)
(* In calm weather the user waits for one thing before beginning the next, *)
(* searches succeed and answers arrive.                                    *)
(***************************************************************************)
EXTENDS Naturals, Sequences, FiniteSets, Functions, Weather

CONSTANTS
    Goods, NoGoods,     \* items of the catalogue
    Imeis,
    Finds,              \* Finds[query]: the best match of a search, or NoGoods
    Texts,              \* the lists of lines users paste or import: query, clean (the query once cleaned), qty (0: not a number)
    Amounts,            \* quantities users type (0: the field is empty)
    MaxRows, MaxClicks  \* bounds

(* A dialog shows items of the catalogue, and lists are texts with numbers.*)
Picks == Goods \cup {NoGoods}
Lines == [query : DOMAIN Finds, clean : DOMAIN Finds, qty : Nat]
ASSUME FormAssumption ==
    /\ IsFiniteSet(Goods) /\ NoGoods \notin Goods
    /\ Finds \in [DOMAIN Finds -> Picks] /\ Texts \subseteq Seq(Lines) /\ Amounts \subseteq Nat

VARIABLES
    form,       \* what the dialog shows
    feed,       \* the lists being pasted and imported
    post,       \* the save that is under way, and one whose answer was lost
    shelf,      \* the units the server has added of each item, and the IMEIs
    told,       \* the units in the saves the dialog reported as done, as it had shown them
    lost,       \* whether rows with contents have left the dialog unsaved
    clicks      \* bounds the user's actions

formVars == <<form, feed, post, shelf, told, lost, clicks>>

Feeds == {"paste", "import"}
NoUnits == [g \in Goods |-> 0]
Plus(u, v) == [g \in Goods |-> u[g] + v[g]]

(* meant: what the user or the match chose for this very row.              *)
EmptyRow(id) == [id |-> id, goods |-> NoGoods, text |-> FALSE, qty |-> 0, meant |-> NoGoods]
NoSave == [pc |-> "idle", kind |-> "bulk", units |-> NoUnits, shown |-> 0, imeis |-> {}, pending |-> <<>>, valid |-> <<>>]

FormInit ==
    /\ form = [open |-> FALSE, step |-> 1, mode |-> "none", goods |-> NoGoods, imeis |-> <<>>, qty |-> 0,
               rows |-> <<EmptyRow(1), EmptyRow(2)>>, now |-> 3, confirm |-> FALSE, dontAsk |-> FALSE]
    /\ feed = [f \in Feeds |-> [open |-> FALSE, text |-> <<>>, taken |-> <<>>, omit |-> FALSE, busy |-> FALSE]]
    /\ post = [now |-> NoSave, late |-> NoSave]
    /\ shelf = [units |-> NoUnits, imeis |-> {}]
    /\ told = 0 /\ lost = FALSE /\ clicks = 0

Loading == post.now.pc # "idle"
Matching == \E f \in Feeds : feed[f].busy
Press(changes) ==
    /\ form.open /\ clicks < MaxClicks /\ clicks' = clicks + 1
    /\ calm => ~Loading /\ ~Matching
    /\ form' = changes
    /\ UNCHANGED <<shelf, told, lost>>
(* The question whether to save only the valid rows covers the rest.       *)
Click(changes) == ~form.confirm /\ Press(changes)

-----------------------------------------------------------------------------
(* The steps of the dialog.                                                *)
OpenForm ==
    /\ ~form.open /\ clicks < MaxClicks /\ clicks' = clicks + 1
    /\ form' = [form EXCEPT !.open = TRUE, !.step = 1, !.mode = "none", !.goods = NoGoods, !.qty = 0]
    /\ UNCHANGED <<feed, post, shelf, told, lost>>

CloseForm == Click([form EXCEPT !.open = FALSE]) /\ UNCHANGED <<feed, post>>

ChooseMode == form.step = 1 /\ (\E m \in {"IMEI", "QUANTITY", "BULK"} : Click([form EXCEPT !.mode = m])) /\ UNCHANGED <<feed, post>>

ChooseGoods == form.step = 2 /\ (\E g \in Goods : Click([form EXCEPT !.goods = g])) /\ UNCHANGED <<feed, post>>

NextStep ==
    /\ ~Loading
    /\ \/ form.step = 1 /\ form.mode # "none" /\ Click([form EXCEPT !.step = IF form.mode = "BULK" THEN 3 ELSE 2])
       \/ form.step = 2 /\ form.goods # NoGoods /\ Click([form EXCEPT !.step = 3])
    /\ UNCHANGED <<feed, post>>

Back ==
    /\ form.step > 1 /\ ~Loading
    /\ Click([form EXCEPT !.step = IF form.step = 3 /\ form.mode # "BULK" THEN 2 ELSE 1])
    /\ UNCHANGED <<feed, post>>

Filling(mode) == form.step = 3 /\ form.mode = mode /\ ~Loading
TypeQuantity == Filling("QUANTITY") /\ (\E n \in Amounts : Click([form EXCEPT !.qty = n])) /\ UNCHANGED <<feed, post>>
TypeImei == Filling("IMEI") /\ (\E i \in Imeis : Click([form EXCEPT !.imeis = Append(@, i)])) /\ UNCHANGED <<feed, post>>
ClearImeis == Filling("IMEI") /\ form.imeis # <<>> /\ Click([form EXCEPT !.imeis = <<>>]) /\ UNCHANGED <<feed, post>>

-----------------------------------------------------------------------------
(* The members of a sequence at some positions, in their order.            *)
Only(s, I) ==
    LET at(k) == CHOOSE i \in I : Cardinality({j \in I : j <= i}) = k IN [k \in 1 .. Cardinality(I) |-> s[at(k)]]

(* Rows.  A change is for every row with the id of the row in question.    *)
AddRow ==
    /\ Filling("BULK") /\ Len(form.rows) < MaxRows
    /\ Click([form EXCEPT !.rows = Append(@, EmptyRow(form.now)), !.now = @ + 1])
    /\ UNCHANGED <<feed, post>>

SameId(k) == {i \in DOMAIN form.rows : form.rows[i].id = form.rows[k].id}

Picked(k, g) ==
    [i \in DOMAIN form.rows |->
        IF i \in SameId(k) THEN [form.rows[i] EXCEPT !.goods = g, !.text = TRUE, !.meant = IF i = k THEN g ELSE @] ELSE form.rows[i]]
PickGoods == Filling("BULK") /\ (\E k \in DOMAIN form.rows, g \in Goods : Click([form EXCEPT !.rows = Picked(k, g)])) /\ UNCHANGED <<feed, post>>

Typed(k, n) == [i \in DOMAIN form.rows |-> IF i \in SameId(k) THEN [form.rows[i] EXCEPT !.qty = n] ELSE form.rows[i]]
TypeRow == Filling("BULK") /\ (\E k \in DOMAIN form.rows, n \in Amounts : Click([form EXCEPT !.rows = Typed(k, n)])) /\ UNCHANGED <<feed, post>>

RemoveRow ==
    /\ Filling("BULK") /\ Len(form.rows) > 1
    /\ \E k \in DOMAIN form.rows : Click([form EXCEPT !.rows = Only(@, DOMAIN @ \ SameId(k))])
    /\ UNCHANGED <<feed, post>>

-----------------------------------------------------------------------------
(* Pasting a list and importing a file: both can go on while the other, or *)
(* a save, does, and another file can be chosen meanwhile.                 *)
FeedClick(f, rec) == form.step = 3 /\ form.mode = "BULK" /\ Click(form) /\ feed' = [feed EXCEPT ![f] = rec] /\ UNCHANGED post

ToggleFeed(f) == ~Loading /\ ~Matching /\ FeedClick(f, [feed[f] EXCEPT !.open = ~@])
EnterText(f) ==
    feed[f].open /\ (f = "paste" => ~feed[f].busy) /\ \E t \in Texts \cup {<<>>} : FeedClick(f, [feed[f] EXCEPT !.text = t])
OmitUnmatched(f) == feed[f].open /\ ~feed[f].busy /\ FeedClick(f, [feed[f] EXCEPT !.omit = ~@])

ProcessFeed(f) == feed[f].open /\ feed[f].text # <<>> /\ ~feed[f].busy /\ FeedClick(f, [feed[f] EXCEPT !.busy = TRUE, !.taken = feed[f].text])

(* batchMatchQueries: one search for the lines that are the same once      *)
(* cleaned, with the first of them; a search that fails finds nothing.     *)
Wellformed(lines) == Only(lines, {i \in DOMAIN lines : lines[i].qty >= 1})
Cleans(lines) == {lines[i].clean : i \in DOMAIN lines}
FirstOf(lines, c) == lines[CHOOSE i \in DOMAIN lines : lines[i].clean = c /\ \A j \in 1 .. i - 1 : lines[j].clean # c]
Matches(lines) ==
    {m \in [Cleans(lines) -> Picks] :
        \A c \in Cleans(lines) : m[c] = Finds[FirstOf(lines, c).query] \/ (~calm /\ m[c] = NoGoods)}

(* Lines of one item become one row, in the order in which items come up.  *)
Quantities(lines) == [i \in DOMAIN lines |-> lines[i].qty]
QuantityOf(lines, m, g) == SumFunctionOnSet(Quantities(lines), {i \in DOMAIN lines : m[lines[i].clean] = g})

NewRows(lines, m, omit) ==
    LET matched == {i \in DOMAIN lines : m[lines[i].clean] # NoGoods}
        first == Only(lines, {i \in matched : \A j \in 1 .. i - 1 : m[lines[j].clean] # m[lines[i].clean]})
        left == Only(lines, DOMAIN lines \ matched)
        rowOf(g) == [EmptyRow(0) EXCEPT !.goods = g, !.text = TRUE, !.meant = g, !.qty = QuantityOf(lines, m, g)]
    IN  [k \in DOMAIN first |-> rowOf(m[first[k].clean])]
        \o (IF omit THEN <<>> ELSE [k \in DOMAIN left |-> [EmptyRow(0) EXCEPT !.text = TRUE, !.qty = left[k].qty]])

(* The rows are made in one go, in the same millisecond unless the clock   *)
(* happens to tick.                                                        *)
FeedMatched(f) ==
    /\ feed[f].busy
    /\ LET lines == Wellformed(feed[f].taken)
       IN  \E m \in Matches(lines), tick \in {0, 1} :
             LET new == NewRows(lines, m, feed[f].omit)
                 stamped == [k \in DOMAIN new |-> [new[k] EXCEPT !.id = form.now + tick * k]]
             IN  /\ Len(form.rows) + Len(new) <= MaxRows
                 /\ form' = [form EXCEPT !.rows = @ \o stamped, !.now = @ + Len(new) + 1]
                 /\ feed' = [feed EXCEPT ![f].busy = FALSE, ![f].open = (lines = <<>>),
                                         ![f].text = IF lines = <<>> THEN @ ELSE <<>>]
    /\ UNCHANGED <<post, shelf, told, lost, clicks>>

(* The file cannot be read, or the search breaks off: no rows.             *)
FeedFails(f) ==
    /\ ~calm /\ feed[f].busy
    /\ feed' = [feed EXCEPT ![f].busy = FALSE]
    /\ UNCHANGED <<form, post, shelf, told, lost, clicks>>

-----------------------------------------------------------------------------
(* Saving.                                                                 *)
ValidRow(r) == r.goods # NoGoods /\ r.qty >= 1
PendingRow(r) == r.goods = NoGoods /\ r.qty >= 1 /\ r.text
ValidRows(rows) == Only(rows, {i \in DOMAIN rows : ValidRow(rows[i])})
PendingRows(rows) == Only(rows, {i \in DOMAIN rows : PendingRow(rows[i])})

UnitsShown(rows) == SumFunction(Quantities(rows))

(* Fault: of two rows of an item one counts.                               *)
OneRowCounts(rows) ==
    [g \in Goods |-> IF \E i \in DOMAIN rows : rows[i].goods = g THEN rows[CHOOSE i \in DOMAIN rows : rows[i].goods = g].qty ELSE 0]

Consolidated(rows) == [g \in Goods |-> SumFunctionOnSet(Quantities(rows), {i \in DOMAIN rows : rows[i].goods = g})]

Save == [NoSave EXCEPT !.pc = "sent", !.units = Consolidated(ValidRows(form.rows)), !.shown = UnitsShown(ValidRows(form.rows)),
                       !.valid = ValidRows(form.rows), !.pending = PendingRows(form.rows)]

Submittable(mode) == form.step = 3 /\ form.mode = mode /\ ~Loading

SubmitRows ==
    /\ Submittable("BULK") /\ \E i \in DOMAIN form.rows : ValidRow(form.rows[i])
    /\ IF (\E i \in DOMAIN form.rows : PendingRow(form.rows[i])) /\ ~form.dontAsk
         THEN Click([form EXCEPT !.confirm = TRUE]) /\ UNCHANGED post
         ELSE Click(form) /\ post' = [post EXCEPT !.now = Save]
    /\ UNCHANGED feed

DontAskAgain == form.confirm /\ Press([form EXCEPT !.dontAsk = ~@]) /\ UNCHANGED <<feed, post>>
CancelSave == form.confirm /\ Press([form EXCEPT !.confirm = FALSE]) /\ UNCHANGED <<feed, post>>
ConfirmSave == form.confirm /\ Press([form EXCEPT !.confirm = FALSE]) /\ post' = [post EXCEPT !.now = Save] /\ UNCHANGED feed

NoImeiTwice == \A i, j \in DOMAIN form.imeis : form.imeis[i] = form.imeis[j] => i = j
SubmitEntry ==
    /\ form.goods # NoGoods
    /\ \E n \in {IF form.mode = "IMEI" THEN Len(form.imeis) ELSE form.qty} :
          /\ n >= 1
          /\ \/ Submittable("QUANTITY")
             \/ Submittable("IMEI") /\ NoImeiTwice
          /\ Click(form)
          /\ post' = [post EXCEPT !.now = [NoSave EXCEPT !.pc = "sent", !.kind = "entry",
                        !.units = [NoUnits EXCEPT ![form.goods] = n], !.shown = n,
                        !.imeis = IF form.mode = "IMEI" THEN Range(form.imeis) ELSE {}]]
    /\ UNCHANGED feed

(* The server: everything or nothing, refused if an IMEI is known or, at   *)
(* any time, for an item that is gone.                                     *)
ServerAdds(which) ==
    /\ post[which].pc = "sent"
    /\ \E taken \in BOOLEAN :
          IF taken /\ post[which].imeis \cap shelf.imeis = {}
            THEN /\ shelf' = [units |-> Plus(shelf.units, post[which].units), imeis |-> shelf.imeis \cup post[which].imeis]
                 /\ post' = [post EXCEPT ![which] = IF which = "late" THEN NoSave ELSE [@ EXCEPT !.pc = "added"]]
            ELSE /\ post' = [post EXCEPT ![which] = IF which = "late" THEN NoSave ELSE [@ EXCEPT !.pc = "refused"]]
                 /\ UNCHANGED shelf
    /\ UNCHANGED <<form, feed, told, lost, clicks>>

(* The rows that are kept are those that were pending when the save began. *)
Contents(rows) == {rows[i] : i \in {j \in DOMAIN rows : ValidRow(rows[j]) \/ PendingRow(rows[j])}}

SaveDone ==
    /\ post.now.pc = "added"
    /\ post' = [post EXCEPT !.now = NoSave]
    /\ told' = told + post.now.shown
    /\ IF post.now.kind = "bulk"
         THEN /\ form' = [form EXCEPT !.rows = Append(post.now.pending, EmptyRow(form.now)), !.now = @ + 1,
                                      !.open = @ /\ post.now.pending # <<>>]
              /\ lost' = (lost \/ ~(Contents(form.rows) \subseteq Range(post.now.valid \o post.now.pending)))
         ELSE /\ form' = [form EXCEPT !.step = 1, !.mode = "none", !.goods = NoGoods, !.imeis = <<>>, !.qty = 0,
                                      !.open = FALSE]
              /\ UNCHANGED lost
    /\ UNCHANGED <<feed, shelf, clicks>>

SaveRefused ==
    /\ post.now.pc = "refused"
    /\ post' = [post EXCEPT !.now = NoSave]
    /\ UNCHANGED <<form, feed, shelf, told, lost, clicks>>

(* Thirty seconds without an answer are an error to the dialog, whether    *)
(* the server has added the rows, will yet, or never gets to see them.     *)
AnswerLost ==
    /\ ~calm /\ post.now.pc \in {"sent", "added"}
    /\ \E arrives \in BOOLEAN :
          post' = [now |-> NoSave, late |-> IF arrives /\ post.now.pc = "sent" THEN post.now ELSE post.late]
    /\ UNCHANGED <<form, feed, shelf, told, lost, clicks>>

FormStep == OpenForm \/ CloseForm \/ ChooseMode \/ ChooseGoods \/ NextStep \/ Back \/ TypeQuantity \/ TypeImei \/ ClearImeis
RowStep == AddRow \/ PickGoods \/ TypeRow \/ RemoveRow
FeedStep(f) == ToggleFeed(f) \/ EnterText(f) \/ OmitUnmatched(f) \/ ProcessFeed(f) \/ FeedMatched(f) \/ FeedFails(f)
SaveStep ==
    \/ SubmitRows \/ DontAskAgain \/ CancelSave \/ ConfirmSave \/ SubmitEntry
    \/ ServerAdds("now") \/ ServerAdds("late") \/ SaveDone \/ SaveRefused \/ AnswerLost

FormNext == FormStep \/ RowStep \/ (\E f \in Feeds : FeedStep(f)) \/ SaveStep

FormSpec == FormInit /\ [][FormNext /\ UNCHANGED calm]_<<formVars, calm>>

-----------------------------------------------------------------------------
FormTypeOK ==
    /\ form.step \in 1 .. 3 /\ form.mode \in {"none", "IMEI", "QUANTITY", "BULK"} /\ form.goods \in Picks
    /\ \A i \in DOMAIN form.rows : form.rows[i].goods \in Picks /\ form.rows[i].id \in Nat
    /\ shelf.units \in [Goods -> Nat] /\ told \in Nat

(* What the dialog has reported as saved is on the shelf, whatever happens;*)
(* in calm weather nothing else is, and no row with contents has left the  *)
(* dialog but by the user's hand or into the stock.  As long as no two     *)
(* rows were made in one millisecond, every row has the item chosen for it.*)
Distinct == \A i, j \in DOMAIN form.rows : form.rows[i].id = form.rows[j].id => i = j

OnShelf == SumFunction(shelf.units)

StockFormFaithful ==
    /\ told <= OnShelf
    /\ calm => /\ OnShelf = IF post.now.pc = "added" THEN told + post.now.shown ELSE told
               /\ ~lost
    /\ Distinct => \A i \in DOMAIN form.rows : form.rows[i].goods = form.rows[i].meant
=============================================================================
