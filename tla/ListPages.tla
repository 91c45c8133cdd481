------------------------------ MODULE ListPages ------------------------------
(***************************************************************************)
(* The list pages of the web application, one browser tab on one of them:  *)
(* filters, the page number, the answers react-query keeps for each        *)
(* combination of them, the pager and the dialogs that write.  A filter is *)
(* off or at the one value that matters, and a row is the set of filters   *)
(* that find it ("own" when it is the user's).  Rows are numbered in the   *)
(* order they were made, lists show the newest first, and page sizes are   *)
(* scaled down.                                                            *)
(*                                                                         *)
(* In calm weather nobody else changes rows and no request fails.          *)
(***************************************************************************)
EXTENDS Naturals, FiniteSets, Weather

CONSTANTS
    RowKinds,       \* sets of filters that find a row
    FirstRows,      \* number of rows at the start
    MaxRowId,       \* bound on the rows there ever are
    OpenableFolders,    \* folders of the catalogue
    AllFolders,     \* the view of all folders
    NoAnswer        \* nothing has been answered yet: the page is loading

ASSUME ListsAssumption == AllFolders \notin OpenableFolders /\ MaxRowId \in Nat \ {0} /\ FirstRows \in 0..MaxRowId

VARIABLES
    tab,        \* the page the tab is on
    seller,     \* whether the user is a seller, who sees his own rows
    num,        \* the page number
    size,       \* rows per page
    typed,      \* the filters that are on, as the controls show them
    asked,      \* the filters the query is about
    timer,      \* whether the search is about to be applied (250 ms)
    opened,     \* the folder of the catalogue the address names
    listed,     \* the rows of the database, and the filters that find each
    answers,    \* the answers kept, by request
    old,        \* the requests whose answer has been invalidated
    since,      \* what has changed without the page number going back to 1
    ticked,     \* the rows ticked
    dialog,     \* whether the bulk deletion has been asked for, or runs
    deleting    \* the rows it still has to delete

listVars == <<tab, seller, num, size, typed, asked, timer, opened, listed, answers, old, since, ticked, dialog, deleting>>

(* What the handlers of a page's controls do: `keeps' are the filters that *)
(* leave the page number, `clears' those the clear button switches off,    *)
(* `refused' those with which the server answers an error.                 *)
Toolbar(filters, keeps, clears, refused) ==
    [filters |-> filters, keeps |-> keeps, clears |-> clears, refused |-> refused]

(* A table is a skeleton until it is answered, a button to try again after *)
(* an error, a sentence when there is nothing, and the rows otherwise; its *)
(* pager stands beside the rows, always or never, and its next page is     *)
(* disabled by the count of pages or of rows.                              *)
Table(pager, next, writes) == [pager |-> pager, next |-> next, writes |-> writes]

SalesBar == Toolbar({"search", "status"}, {}, {"search", "status"}, {})
SalesTable == Table("rows", "byPages", {})
CustomersBar == Toolbar({"search", "status", "sellerId", "mine"}, {}, {}, {})
CustomersTable == Table("rows", "byRows", {"create", "edit"})
VendorsBar == Toolbar({"search", "status"}, {}, {}, {})
VendorsTable == Table("rows", "byRows", {"create", "edit"})
PurchasesBar == Toolbar({"search", "status"}, {}, {}, {})
PurchasesTable == Table("rows", "byRows", {})

(* @Min(3) on the text of the search refuses every text; SALE and the      *)
(* other labels of the settings page are not those of the enumeration.     *)
MovementFilters == {"dateFrom", "dateTo", "actorRole", "action", "entityType", "entityId", "search"}
MovementsBar == Toolbar(MovementFilters, {}, MovementFilters, {"search"})
MovementsTable == Table("rows", "byPages", {})
AuditLogBar == Toolbar({"entityType", "action"}, {}, {"entityType", "action"}, {"entityType"})
AuditLogTable == Table("rows", "byPages", {})

(* The API has no reservations: every request is refused.                  *)
ReservationsBar == Toolbar({"search", "status"}, {"search"}, {"search", "status"}, {"always"})
ReservationsTable == Table("always", "byRows", {"create", "edit"})

(* The ledger accounts ask for one page, and the server knows no search.   *)
LedgerAccountsBar == Toolbar({"search", "type", "isActive"}, {}, {}, {"search"})
LedgerAccountsTable == Table("never", "byRows", {})

(* The search of the items is applied by a timer, which goes to page 1.    *)
ItemsBar == Toolbar({"search"}, {}, {}, {})
ItemsTable == Table("rows", "byRows", {"create", "edit", "delete"})

(* These two ask for everything.                                           *)
SellersBar == Toolbar({}, {}, {}, {})
SellersTable == Table("never", "byRows", {"create"})
PriceListsTable == Table("never", "byRows", {"create", "delete"})

Toolbars ==
    [sales |-> SalesBar, customers |-> CustomersBar, vendors |-> VendorsBar, purchases |-> PurchasesBar, movements |-> MovementsBar,
     audit |-> AuditLogBar, reservations |-> ReservationsBar, accounts |-> LedgerAccountsBar, items |-> ItemsBar,
     sellers |-> SellersBar, priceLists |-> SellersBar]
Tables ==
    [sales |-> SalesTable, customers |-> CustomersTable, vendors |-> VendorsTable, purchases |-> PurchasesTable,
     movements |-> MovementsTable, audit |-> AuditLogTable, reservations |-> ReservationsTable,
     accounts |-> LedgerAccountsTable, items |-> ItemsTable, sellers |-> SellersTable, priceLists |-> PriceListsTable]
Controls(l) == IF l = "customers" /\ seller THEN {"search", "status", "mine"} ELSE Toolbars[l].filters
Sizes(l) == IF l = "sales" THEN {1, 2} ELSE IF l \in {"sellers", "priceLists"} THEN {MaxRowId} ELSE {1}

(* The rows a query finds.  A seller's search of the sales adds to his own *)
(* rows what it finds anywhere; of the customers it is forgotten, unless   *)
(* he asks for his own.  isActive=false is read as true.                   *)
Own == {r \in DOMAIN listed : "own" \in listed[r]}
Finding(c) == {r \in DOMAIN listed : c \in listed[r]}
FoundBy(on) == {r \in DOMAIN listed : on \subseteq listed[r]}
SalesFound(on) ==
    FoundBy(on \ {"search"}) \cap
        (IF "search" \notin on THEN IF seller THEN Own ELSE DOMAIN listed
         ELSE Finding("search") \cup (IF seller THEN Own ELSE {}))
CustomersFound(on) ==
    IF "mine" \in on THEN FoundBy(on \ {"mine", "sellerId"}) \cap Own
    ELSE IF seller THEN FoundBy(on \ {"search"}) \cap Own ELSE FoundBy(on)
AccountsFound(on) == FoundBy(IF "isActive" \in on THEN (on \ {"isActive"}) \cup {"active"} ELSE on)
ItemsFound(on, f) == FoundBy(on \cup {f})

Found(q) ==
    IF tab = "sales" THEN SalesFound(q.on)
    ELSE IF tab = "customers" THEN CustomersFound(q.on)
    ELSE IF tab = "accounts" THEN AccountsFound(q.on)
    ELSE IF tab = "items" THEN ItemsFound(q.on, q.folder)
    ELSE FoundBy(q.on)

(* skip and take, newest first.                                            *)
Answer(q) ==
    LET all == Found(q)
        rank(r) == Cardinality({x \in all : x >= r}) IN
    [rows |-> {r \in all : (q.num - 1) * q.size < rank(r) /\ rank(r) <= q.num * q.size}, total |-> Cardinality(all)]

Query == [num |-> num, size |-> size, on |-> asked, folder |-> opened]
Asking == tab # "items" \/ opened # AllFolders
Refused == asked \cap Toolbars[tab].refused # {} \/ "always" \in Toolbars[tab].refused
Shown == IF Asking /\ Query \in DOMAIN answers THEN answers[Query] ELSE NoAnswer

ListsInit ==
    /\ tab \in DOMAIN Tables /\ seller \in BOOLEAN
    /\ num = 1 /\ size \in Sizes(tab) /\ timer = FALSE
    /\ typed = {} /\ asked = {} /\ opened = AllFolders
    /\ listed \in [1..FirstRows -> RowKinds]
    /\ answers = [q \in {} |-> NoAnswer] /\ old = {} /\ since = {}
    /\ ticked = {} /\ dialog = "none" /\ deleting = {}

tickVars == <<ticked, dialog, deleting>>
answerVars == <<listed, answers, old>>
NoDialog == dialog = "none"

(* The page number goes to n, c having changed.                            *)
GoTo(n, c) == num' = n /\ since' = IF n = 1 THEN since \cap {"rows"} ELSE since \cup c

-----------------------------------------------------------------------------
(* A control of the toolbar.                                               *)
Filter(c) ==
    /\ NoDialog /\ c \in Controls(tab)
    /\ typed' = IF c \in typed THEN typed \ {c} ELSE typed \cup {c}
    /\ IF tab = "items" THEN timer' = TRUE /\ UNCHANGED <<asked, num, since>>
       ELSE asked' = typed' /\ GoTo(IF c \in Toolbars[tab].keeps THEN num ELSE 1, {c}) /\ UNCHANGED timer
    /\ UNCHANGED <<tab, seller, size, opened, answerVars, tickVars>>

(* Fault: the search is applied on the page the user was on.               *)
DebouncedOnly ==
    /\ timer
    /\ timer' = FALSE /\ asked' = typed /\ GoTo(num, {"search"})
    /\ UNCHANGED <<tab, seller, size, typed, opened, answerVars, tickVars>>

Debounced ==
    /\ timer
    /\ timer' = FALSE /\ asked' = typed /\ GoTo(1, {})
    /\ UNCHANGED <<tab, seller, size, typed, opened, answerVars, tickVars>>

Clear ==
    /\ NoDialog /\ Toolbars[tab].clears \cap typed # {}
    /\ typed' = typed \ Toolbars[tab].clears /\ asked' = typed' /\ GoTo(1, {})
    /\ UNCHANGED <<tab, seller, size, timer, opened, answerVars, tickVars>>

RecordsPerPage(n) ==
    /\ NoDialog /\ tab = "sales" /\ Shown # NoAnswer /\ Shown.rows # {} /\ n \in Sizes(tab) \ {size}
    /\ size' = n /\ GoTo(1, {"size"})
    /\ UNCHANGED <<tab, seller, typed, asked, timer, opened, answerVars, tickVars>>

PageCount(a) == (a.total + size - 1) \div size
PagerShown ==
    /\ Shown # NoAnswer /\ Tables[tab].pager # "never"
    /\ Tables[tab].pager = "always" \/ Shown.rows # {}
    /\ tab = "sales" \/ Shown.total > size
MoreRows == IF Tables[tab].next = "byPages" THEN num # PageCount(Shown) ELSE num * size < Shown.total

NextPage ==
    /\ NoDialog /\ PagerShown /\ MoreRows
    /\ GoTo(num + 1, {})
    /\ UNCHANGED <<tab, seller, size, typed, asked, timer, opened, answerVars, tickVars>>

(* Fault: on the first page the button takes one off the number too.       *)
PreviousFromFirst ==
    /\ NoDialog /\ PagerShown
    /\ GoTo(num - 1, {})
    /\ UNCHANGED <<tab, seller, size, typed, asked, timer, opened, answerVars, tickVars>>

PreviousPage ==
    /\ NoDialog /\ PagerShown /\ num > 1
    /\ GoTo(num - 1, {})
    /\ UNCHANGED <<tab, seller, size, typed, asked, timer, opened, answerVars, tickVars>>

-----------------------------------------------------------------------------
(* The query runs for a request that has no answer, or an old one.  One    *)
(* that fails or is refused leaves an error and a button to try again.     *)
Load ==
    /\ Asking /\ ~Refused /\ (Query \notin DOMAIN answers \/ Query \in old)
    /\ answers' = [q \in DOMAIN answers \cup {Query} |-> IF q = Query THEN Answer(q) ELSE answers[q]]
    /\ old' = old \ {Query}
    /\ UNCHANGED <<tab, seller, num, size, typed, asked, timer, opened, listed, since, tickVars>>

(* A write of this page invalidates the answers of its list; somebody      *)
(* else's does not, until they are 30 seconds old.                         *)
Writes(newRows, gone) ==
    /\ listed' = newRows
    /\ old' = DOMAIN answers
    /\ since' = IF gone THEN since \cup {"rows"} ELSE since

Put(r, k) == [x \in DOMAIN listed \cup {r} |-> IF x = r THEN k ELSE listed[x]]
Without(gone) == [x \in DOMAIN listed \ gone |-> listed[x]]
NewestId == IF DOMAIN listed = {} THEN 0 ELSE CHOOSE r \in DOMAIN listed : \A x \in DOMAIN listed : x <= r

CreateDialog(k) ==
    /\ NoDialog /\ "create" \in Tables[tab].writes /\ ~Refused /\ NewestId < MaxRowId
    /\ Writes(Put(NewestId + 1, k), FALSE)
    /\ UNCHANGED <<tab, seller, num, size, typed, asked, timer, opened, answers, tickVars>>

EditDialog(r, k) ==
    /\ NoDialog /\ "edit" \in Tables[tab].writes /\ Shown # NoAnswer /\ r \in Shown.rows \cap DOMAIN listed /\ k # listed[r]
    /\ Writes(Put(r, k), TRUE)
    /\ UNCHANGED <<tab, seller, num, size, typed, asked, timer, opened, answers, tickVars>>

DeleteDialog(r) ==
    /\ NoDialog /\ "delete" \in Tables[tab].writes /\ Shown # NoAnswer /\ r \in Shown.rows \cap DOMAIN listed
    /\ Writes(Without({r}), TRUE)
    /\ UNCHANGED <<tab, seller, num, size, typed, asked, timer, opened, answers, tickVars>>

SomebodyElse(r) ==
    /\ ~calm /\ r \in DOMAIN listed
    /\ listed' = Without({r}) /\ since' = since \cup {"rows"}
    /\ UNCHANGED <<tab, seller, num, size, typed, asked, timer, opened, answers, old, tickVars>>

(* The refresh button, or an answer that has grown old and is shown again. *)
RefreshList ==
    /\ ~calm /\ Shown # NoAnswer /\ Query \notin old
    /\ old' = DOMAIN answers
    /\ UNCHANGED <<tab, seller, num, size, typed, asked, timer, opened, listed, answers, since, tickVars>>

-----------------------------------------------------------------------------
(* The items: a folder is opened on whatever page the number says, and the *)
(* browser's own way back keeps search and number.                         *)
OpenFolder(f) ==
    /\ NoDialog /\ tab = "items" /\ opened = AllFolders
    /\ opened' = f /\ GoTo(num, {"folder"})
    /\ UNCHANGED <<tab, seller, size, typed, asked, timer, answerVars, tickVars>>

BackToFolders ==
    /\ NoDialog /\ tab = "items" /\ opened # AllFolders
    /\ opened' = AllFolders /\ typed' = {} /\ asked' = {} /\ GoTo(1, {})
    /\ timer' = (timer \/ typed # {})
    /\ UNCHANGED <<tab, seller, size, answerVars, tickVars>>

BrowserBack ==
    /\ NoDialog /\ tab = "items" /\ opened # AllFolders
    /\ opened' = AllFolders
    /\ UNCHANGED <<tab, seller, num, size, typed, asked, timer, answerVars, since, tickVars>>

Tick(r) ==
    /\ NoDialog /\ tab = "items" /\ Shown # NoAnswer /\ r \in Shown.rows
    /\ ticked' = IF r \in ticked THEN ticked \ {r} ELSE ticked \cup {r}
    /\ UNCHANGED <<tab, seller, num, size, typed, asked, timer, opened, answerVars, since, dialog, deleting>>

TickAll ==
    /\ NoDialog /\ tab = "items" /\ Shown # NoAnswer /\ Shown.rows # {}
    /\ ticked' = IF Shown.rows \subseteq ticked THEN {} ELSE Shown.rows
    /\ UNCHANGED <<tab, seller, num, size, typed, asked, timer, opened, answerVars, since, dialog, deleting>>

(* What is no longer listed is unticked, once the new rows are there.      *)
TrimTicks ==
    /\ Shown # NoAnswer /\ ~(ticked \subseteq Shown.rows)
    /\ ticked' = ticked \cap Shown.rows
    /\ UNCHANGED <<tab, seller, num, size, typed, asked, timer, opened, answerVars, since, dialog, deleting>>

AskBulkDelete ==
    /\ NoDialog /\ ticked # {} /\ opened # AllFolders
    /\ dialog' = "asked"
    /\ UNCHANGED <<tab, seller, num, size, typed, asked, timer, opened, answerVars, since, ticked, deleting>>

ConfirmBulkDelete ==
    /\ dialog = "asked"
    /\ \/ ticked # {} /\ dialog' = "running" /\ deleting' = ticked
       \/ dialog' = "none" /\ UNCHANGED deleting
    /\ UNCHANGED <<tab, seller, num, size, typed, asked, timer, opened, answerVars, since, ticked>>

(* All requests go out at once and each answer invalidates the list.       *)
BulkDeleteOne(r) ==
    /\ dialog = "running" /\ r \in deleting
    /\ deleting' = deleting \ {r}
    /\ \/ r \in DOMAIN listed /\ Writes(Without({r}), TRUE)
       \/ (~calm \/ r \notin DOMAIN listed) /\ UNCHANGED <<listed, old, since>>
    /\ UNCHANGED <<tab, seller, num, size, typed, asked, timer, opened, answers, ticked, dialog>>

BulkDeleteDone ==
    /\ dialog = "running" /\ deleting = {}
    /\ ticked' = {} /\ dialog' = "none" /\ old' = DOMAIN answers
    /\ UNCHANGED <<tab, seller, num, size, typed, asked, timer, opened, listed, answers, since, deleting>>

ItemsPage ==
    \/ \E f \in OpenableFolders : OpenFolder(f)
    \/ BackToFolders \/ BrowserBack
    \/ \E r \in 1..MaxRowId : Tick(r)
    \/ \E r \in deleting : BulkDeleteOne(r)
    \/ TickAll \/ TrimTicks \/ AskBulkDelete \/ ConfirmBulkDelete \/ BulkDeleteDone

ListsNext ==
    \/ \E c \in Toolbars[tab].filters : Filter(c)
    \/ Debounced \/ Clear \/ NextPage \/ PreviousPage \/ Load \/ RefreshList
    \/ \E n \in {1, 2} : RecordsPerPage(n)
    \/ \E k \in RowKinds : CreateDialog(k) \/ \E r \in DOMAIN listed : EditDialog(r, k)
    \/ \E r \in DOMAIN listed : DeleteDialog(r) \/ SomebodyElse(r)
    \/ ItemsPage

ListsSpec == ListsInit /\ [][ListsNext /\ UNCHANGED calm]_<<listVars, calm>>

-----------------------------------------------------------------------------
(* Every variable keeps to its type, the page number above zero.           *)
ListsTypeOK ==
    /\ tab \in DOMAIN Tables /\ seller \in BOOLEAN /\ num \in Nat \ {0} /\ size \in Nat \ {0} /\ timer \in BOOLEAN
    /\ typed \subseteq Toolbars[tab].filters /\ asked \subseteq Toolbars[tab].filters /\ opened \in OpenableFolders \cup {AllFolders}
    /\ DOMAIN listed \subseteq 1..MaxRowId /\ old \subseteq DOMAIN answers
    /\ since \subseteq Toolbars[tab].filters \cup {"rows", "size", "folder"}
    /\ ticked \subseteq 1..MaxRowId /\ deleting \subseteq 1..MaxRowId /\ dialog \in {"none", "asked", "running"}

(* Nothing that matches stays out of reach: a page that shows nothing was  *)
(* told that nothing matches, however filters, page sizes, searches and    *)
(* pages were chosen before, unless it is just asking again; and a page    *)
(* with rows offers the next one exactly when there are more.  Not so      *)
(* where the code forgets: after a folder was opened on a later page, for  *)
(* the ledger accounts, which have no pager, or when rows have left the    *)
(* list meanwhile.                                                         *)
NothingHidden ==
    Shown # NoAnswer =>
        /\ Shown.rows = {} /\ Shown.total > 0 /\ Query \notin old => since \cap {"folder", "rows"} # {}
        /\ Shown.rows # {} /\ tab # "accounts" =>
                ((PagerShown /\ MoreRows) <=> (num - 1) * size + Cardinality(Shown.rows) < Shown.total)
=============================================================================
