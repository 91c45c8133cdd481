------------------------------ MODULE Catalogue ------------------------------
(***************************************************************************)
(* ItemsService, ItemsSeederService and PriceListsService in one           *)
(* organization: folders, items, the seeding of the Apple catalogue and    *)
(* price lists.  Every handler looks first and writes later; between the   *)
(* two stand only the unique names of folders and lists and the foreign    *)
(* keys (an item whose folder is deleted stays, without a folder; the      *)
(* lines of a price list go with it).  Items have no unique index at all,  *)
(* so that skipDuplicates of the seeder has nothing to skip.               *)
(*                                                                         *)
(* A product stands for brand, model, storage, condition and colour; the   *)
(* lines of a price list are for groups of products, colours left out.     *)
(*                                                                         *)
(* In calm weather a request or seeding is over before the next begins,    *)
(* and the database answers.                                               *)
(***************************************************************************)
EXTENDS Naturals, Sequences, FiniteSets, Weather

CONSTANTS
    Folders, Items, Lists,      \* rows
    NoFolder, NoItem, NoList,
    FolderNames, DefaultName,   \* DefaultName is "IPHONE"
    ListNames,
    Products,                   \* what items can be; the catalogue lists them all
    Batches,                    \* the catalogue, in the order and portions of the seeder
    GroupOf,                    \* generateItemGroupKey of each product
    Prices, NoPrice,
    Clerks                      \* requests and seedings under way

ASSUME CatalogueAssumption ==
    /\ DefaultName \in FolderNames
    /\ NoFolder \notin Folders /\ NoItem \notin Items /\ NoList \notin Lists /\ NoPrice \notin Prices
    /\ ListNames # {} /\ Products # {} /\ IsFiniteSet(Products) /\ IsFiniteSet(Items)
    \* Every product is in one portion.
    /\ Batches \in Seq(SUBSET Products) /\ Batches # <<>>
    /\ \A p \in Products : \E b \in DOMAIN Batches : p \in Batches[b]
    /\ \A a, b \in DOMAIN Batches : a # b => Batches[a] \cap Batches[b] = {}

VARIABLES folder, item, list, clerk

catalogueVars == <<folder, item, list, clerk>>

NoFolderRow == [exists |-> FALSE, name |-> DefaultName, default |-> FALSE]
(* mark: seedSource and seedVersion, none, those of the seeder as it is    *)
(* ("seed") or as it was, or others; apple: the SKU starts with IPH, as    *)
(* generateSku has it, or brand and name are those of an Apple iPhone.     *)
NoItemRow == [state |-> "none", product |-> CHOOSE p \in Products : TRUE, folder |-> NoFolder,
              active |-> FALSE, mark |-> "none", apple |-> FALSE, by |-> "nobody"]
NoListRow == [exists |-> FALSE, name |-> CHOOSE n \in ListNames : TRUE, price |-> <<>>]
Idle == [op |-> "idle", pc |-> "idle", folder |-> NoFolder, item |-> NoItem, list |-> NoList,
         row |-> NoItemRow, fields |-> {}, name |-> "", groups |-> {}, prices |-> <<>>, old |-> {}, batch |-> 0]

CatalogueInit ==
    /\ folder = [f \in Folders |-> NoFolderRow]
    /\ item = [i \in Items |-> NoItemRow]
    /\ list = [l \in Lists |-> NoListRow]
    /\ clerk = [c \in Clerks |-> Idle]

FolderRows == {f \in Folders : folder[f].exists}
Live == {i \in Items : item[i].state = "live"}
ListRows == {l \in Lists : list[l].exists}
FreeItems == {i \in Items : item[i].state = "none"}

At(c, op, pc) == clerk[c].op = op /\ clerk[c].pc = pc
Free(c) == clerk[c].op = "idle" /\ (calm => \A d \in Clerks : clerk[d].op = "idle")
Starts(c, rec) == clerk' = [clerk EXCEPT ![c] = rec]
Goes(c, pc) == clerk' = [clerk EXCEPT ![c].pc = pc]
Done(c) == clerk' = [clerk EXCEPT ![c] = Idle]
AddFolder(name, isDefault) ==
    \E f \in Folders \ FolderRows :
        /\ f = CHOOSE g \in Folders \ FolderRows : TRUE
        /\ folder' = [folder EXCEPT ![f] = [exists |-> TRUE, name |-> name, default |-> isDefault]]
NameTaken(name) == \E f \in FolderRows : folder[f].name = name
DefaultFolder == {f \in FolderRows : folder[f].default /\ folder[f].name = DefaultName}

-----------------------------------------------------------------------------
(* Folders.  listFolders and createItem ensure the default folder: found   *)
(* by name and flag, or made, which fails if the name is taken, by another *)
(* request or by a folder a user called IPHONE.                            *)
ListFolders(c) ==
    /\ Free(c) /\ Starts(c, [Idle EXCEPT !.op = "folders", !.pc = "ensure"])
    /\ UNCHANGED <<folder, item, list>>

EnsureFind(c) ==
    /\ clerk[c].pc = "ensure"
    /\ Goes(c, IF DefaultFolder # {} THEN "ensured" ELSE "ensureCreate")
    /\ UNCHANGED <<folder, item, list>>

EnsureCreate(c) ==
    /\ clerk[c].pc = "ensureCreate"
    /\ IF NameTaken(DefaultName) THEN Done(c) /\ UNCHANGED folder
       ELSE AddFolder(DefaultName, TRUE) /\ Goes(c, "ensured")
    /\ UNCHANGED <<item, list>>

FoldersListed(c) ==
    /\ At(c, "folders", "ensured") /\ Done(c)
    /\ UNCHANGED <<folder, item, list>>

CreateFolderCheck(c) ==
    /\ Free(c)
    /\ \E n \in FolderNames : ~NameTaken(n) /\ Starts(c, [Idle EXCEPT !.op = "createFolder", !.pc = "write", !.name = n])
    /\ UNCHANGED <<folder, item, list>>

CreateFolder(c) ==
    /\ At(c, "createFolder", "write")
    /\ IF NameTaken(clerk[c].name) THEN UNCHANGED folder ELSE AddFolder(clerk[c].name, FALSE)
    /\ Done(c) /\ UNCHANGED <<item, list>>

(* Fault: the items of the folder are not counted.                         *)
DeletableEvenIfFull(f) == ~folder[f].default

(* Not the default folder, and no item in it, deleted ones included.       *)
Deletable(f) == ~folder[f].default /\ \A i \in Items : item[i].state # "none" => item[i].folder # f

DeleteFolderCheck(c) ==
    /\ Free(c)
    /\ \E f \in FolderRows : Deletable(f) /\ Starts(c, [Idle EXCEPT !.op = "deleteFolder", !.pc = "write", !.folder = f])
    /\ UNCHANGED <<folder, item, list>>

DeleteFolder(c) ==
    LET f == clerk[c].folder
    IN  /\ At(c, "deleteFolder", "write")
        /\ folder' = [folder EXCEPT ![f] = NoFolderRow]
        /\ item' = [i \in Items |-> IF item[i].folder = f THEN [item[i] EXCEPT !.folder = NoFolder] ELSE item[i]]
        /\ Done(c) /\ UNCHANGED list

-----------------------------------------------------------------------------
(* Items.  The SKU is generated and the name made up unless they are       *)
(* given; a request may also say what the seeder marks its rows with.      *)
Marks == {"none", "older", "seed", "other"}
CreateItem(c) ==
    /\ Free(c) /\ FreeItems # {}
    /\ \E p \in Products, f \in FolderRows \cup {NoFolder}, m \in Marks, apple \in BOOLEAN :
          Starts(c, [Idle EXCEPT !.op = "createItem", !.pc = "ensure", !.folder = f,
                       !.row = [NoItemRow EXCEPT !.state = "live", !.product = p, !.active = TRUE, !.mark = m,
                                                 !.apple = apple, !.by = "user"]])
    /\ UNCHANGED <<folder, item, list>>

(* The folder asked for must be there; none means the default folder.      *)
CreateItemFolder(c) ==
    /\ At(c, "createItem", "ensured")
    /\ IF clerk[c].folder = NoFolder
         THEN \E f \in DefaultFolder : clerk' = [clerk EXCEPT ![c].folder = f, ![c].pc = "write"]
         ELSE IF clerk[c].folder \in FolderRows THEN Goes(c, "write") ELSE Done(c)
    /\ UNCHANGED <<folder, item, list>>

(* Fault: the foreign key is not in the schema.                            *)
InsertDangling(c) ==
    item' = [item EXCEPT ![CHOOSE i \in FreeItems : TRUE] = [clerk[c].row EXCEPT !.folder = clerk[c].folder]]

InsertItem(c) ==
    IF clerk[c].folder \in FolderRows /\ FreeItems # {}
      THEN item' = [item EXCEPT ![CHOOSE i \in FreeItems : TRUE] = [clerk[c].row EXCEPT !.folder = clerk[c].folder]]
      ELSE UNCHANGED item

CreateItemInsert(c) ==
    /\ At(c, "createItem", "write")
    /\ InsertItem(c)
    /\ Done(c) /\ UNCHANGED <<folder, list>>

(* The fields the request has: a new product brings a new name and SKU,    *)
(* unless the request has those of its own.                                *)
Changed(row, p, a, given) ==
    (IF p # row.product THEN {"product", "apple"} ELSE {}) \cup (IF given THEN {"apple"} ELSE {})
    \cup (IF a # row.active THEN {"active"} ELSE {})

UpdateItemCheck(c) ==
    /\ Free(c)
    /\ \E i \in Live, p \in Products, a, given, apple \in BOOLEAN :
          /\ given \/ apple
          /\ Starts(c, [Idle EXCEPT !.op = "updateItem", !.pc = "write", !.item = i,
                          !.fields = Changed(item[i], p, a, given),
                          !.row = [item[i] EXCEPT !.product = p, !.active = a, !.apple = apple]])
    /\ UNCHANGED <<folder, item, list>>

(* By id, with the fields of the request only: deleted meanwhile or not.   *)
UpdateItem(c) ==
    /\ At(c, "updateItem", "write")
    /\ item' = [item EXCEPT ![clerk[c].item] =
                   [x \in DOMAIN @ |-> IF x \in clerk[c].fields THEN clerk[c].row[x] ELSE @[x]]]
    /\ Done(c) /\ UNCHANGED <<folder, list>>

DeleteItemCheck(c) ==
    /\ Free(c)
    /\ \E i \in Live : Starts(c, [Idle EXCEPT !.op = "deleteItem", !.pc = "write", !.item = i])
    /\ UNCHANGED <<folder, item, list>>

DeleteItem(c) ==
    /\ At(c, "deleteItem", "write")
    /\ item' = [item EXCEPT ![clerk[c].item].state = "deleted"]
    /\ Done(c) /\ UNCHANGED <<folder, list>>

-----------------------------------------------------------------------------
(* The seeder.  seedDefaultItemsForOrg (a new organization, or backfill)   *)
(* goes on only without live items, reseedAllOrganizations always.         *)
SeedDefault(c) ==
    /\ Free(c) /\ Live = {}
    /\ Starts(c, [Idle EXCEPT !.op = "seed", !.pc = "count"])
    /\ UNCHANGED <<folder, item, list>>

Reseed(c) ==
    /\ Free(c) /\ Starts(c, [Idle EXCEPT !.op = "seed", !.pc = "count"])
    /\ UNCHANGED <<folder, item, list>>

FromSeeder == {i \in Live : item[i].mark = "seed"}

(* Fault: looks for the version before.                                    *)
SeededBefore == FALSE

(* Nine tenths of the catalogue are there.                                 *)
AlreadySeeded == Cardinality(FromSeeder) * 10 >= Cardinality(Products) * 9

SeedCount(c) ==
    /\ At(c, "seed", "count")
    /\ IF AlreadySeeded THEN Done(c) ELSE Goes(c, "legacy")
    /\ UNCHANGED <<folder, item, list>>

(* Whatever looks like an older seeding: also what users made themselves   *)
(* with a generated SKU or the name of an iPhone.                          *)
LooksLegacy(row) == row.mark = "older" \/ (row.mark = "none" /\ row.apple)
SeedLegacy(c) ==
    /\ At(c, "seed", "legacy")
    /\ clerk' = [clerk EXCEPT ![c].old = {i \in Live : LooksLegacy(item[i])}, ![c].pc = "clear"]
    /\ UNCHANGED <<folder, item, list>>

SeedClear(c) ==
    /\ At(c, "seed", "clear")
    /\ item' = [i \in Items |-> IF i \in clerk[c].old THEN [item[i] EXCEPT !.state = "deleted"] ELSE item[i]]
    /\ clerk' = [clerk EXCEPT ![c].pc = "batch", ![c].batch = 1]
    /\ UNCHANGED <<folder, list>>

(* createMany of one batch: all of it or nothing, without a folder.        *)
SeedRow(p) == [NoItemRow EXCEPT !.state = "live", !.product = p, !.active = TRUE, !.mark = "seed", !.apple = TRUE,
                                !.by = "seeder"]
SeedBatch(c) ==
    LET n == clerk[c].batch  b == Batches[n]
    IN  /\ At(c, "seed", "batch")
        /\ Cardinality(FreeItems) >= Cardinality(b)
        /\ LET rows == CHOOSE f \in [b -> FreeItems] : \A p, q \in b : p # q => f[p] # f[q]
           IN  item' = [i \in Items |-> IF \E p \in b : rows[p] = i THEN SeedRow(CHOOSE p \in b : rows[p] = i)
                                                                    ELSE item[i]]
        /\ clerk' = [clerk EXCEPT ![c] = IF n = Len(Batches) THEN Idle ELSE [@ EXCEPT !.batch = n + 1]]
        /\ UNCHANGED <<folder, list>>

-----------------------------------------------------------------------------
(* Price lists: of all items, of some folders, or of some items, active    *)
(* and live; one line per group.                                           *)
Selections ==
    {Live} \cup {{i \in Live : item[i].folder \in fs} : fs \in SUBSET FolderRows \ {{}}} \cup (SUBSET Live \ {{}})
Active(is) == {i \in is : item[i].active}

CreateListCheck(c) ==
    /\ Free(c)
    /\ \E n \in ListNames, is \in Selections :
          /\ Active(is) # {} /\ \A l \in ListRows : list[l].name # n
          /\ Starts(c, [Idle EXCEPT !.op = "createList", !.pc = "write", !.name = n,
                          !.groups = {GroupOf[item[i].product] : i \in Active(is)}])
    /\ UNCHANGED <<folder, item, list>>

CreateList(c) ==
    /\ At(c, "createList", "write")
    /\ IF \E l \in ListRows : list[l].name = clerk[c].name
         THEN UNCHANGED list
         ELSE \E l \in Lists \ ListRows :
                list' = [list EXCEPT ![l] = [exists |-> TRUE, name |-> clerk[c].name,
                                             price |-> [g \in clerk[c].groups |-> NoPrice]]]
    /\ Done(c) /\ UNCHANGED <<folder, item>>

(* updatePriceListItem and bulkUpdatePriceListItems: the lines are there   *)
(* when looked for, and all of them are written or none.                   *)
PricesCheck(c) ==
    /\ Free(c)
    /\ \E l \in ListRows : \E gs \in SUBSET DOMAIN list[l].price \ {{}} : \E ps \in [gs -> Prices \cup {NoPrice}] :
          Starts(c, [Idle EXCEPT !.op = "prices", !.pc = "write", !.list = l, !.prices = ps])
    /\ UNCHANGED <<folder, item, list>>

UpdatePrices(c) ==
    LET l == clerk[c].list  ps == clerk[c].prices
    IN  /\ At(c, "prices", "write")
        /\ list' = IF l \in ListRows /\ DOMAIN ps \subseteq DOMAIN list[l].price
                     THEN [list EXCEPT ![l].price = [g \in DOMAIN @ |-> IF g \in DOMAIN ps THEN ps[g] ELSE @[g]]]
                     ELSE list
        /\ Done(c) /\ UNCHANGED <<folder, item>>

DeleteListCheck(c) ==
    /\ Free(c)
    /\ \E l \in ListRows : Starts(c, [Idle EXCEPT !.op = "deleteList", !.pc = "write", !.list = l])
    /\ UNCHANGED <<folder, item, list>>

DeleteList(c) ==
    /\ At(c, "deleteList", "write")
    /\ list' = [list EXCEPT ![clerk[c].list] = NoListRow]
    /\ Done(c) /\ UNCHANGED <<folder, item>>

(* A query fails or the process dies; what was written stays.              *)
ClerkFails(c) ==
    /\ ~calm /\ clerk[c].op # "idle"
    /\ Done(c) /\ UNCHANGED <<folder, item, list>>

FolderStep(c) ==
    \/ ListFolders(c) \/ EnsureFind(c) \/ EnsureCreate(c) \/ FoldersListed(c)
    \/ CreateFolderCheck(c) \/ CreateFolder(c) \/ DeleteFolderCheck(c) \/ DeleteFolder(c)
ItemStep(c) ==
    \/ CreateItem(c) \/ CreateItemFolder(c) \/ CreateItemInsert(c)
    \/ UpdateItemCheck(c) \/ UpdateItem(c) \/ DeleteItemCheck(c) \/ DeleteItem(c)
SeedStep(c) == SeedDefault(c) \/ Reseed(c) \/ SeedCount(c) \/ SeedLegacy(c) \/ SeedClear(c) \/ SeedBatch(c)
ListStep(c) ==
    \/ CreateListCheck(c) \/ CreateList(c) \/ PricesCheck(c) \/ UpdatePrices(c) \/ DeleteListCheck(c) \/ DeleteList(c)

CatalogueNext == \E c \in Clerks : FolderStep(c) \/ ItemStep(c) \/ SeedStep(c) \/ ListStep(c) \/ ClerkFails(c)

CatalogueSpec == CatalogueInit /\ [][CatalogueNext /\ UNCHANGED calm]_<<catalogueVars, calm>>

-----------------------------------------------------------------------------
ItemRow == [state : {"none", "live", "deleted"}, product : Products, folder : Folders \cup {NoFolder},
            active : BOOLEAN, mark : Marks, apple : BOOLEAN, by : {"nobody", "user", "seeder"}]

CatalogueTypeOK ==
    /\ folder \in [Folders -> [exists : BOOLEAN, name : FolderNames, default : BOOLEAN]]
    /\ item \in [Items -> ItemRow]
    /\ \A l \in Lists : list[l].name \in ListNames /\ \A g \in DOMAIN list[l].price : list[l].price[g] \in Prices \cup {NoPrice}
    /\ \A c \in Clerks : clerk[c].row \in ItemRow /\ clerk[c].old \subseteq Items

(* Whatever meets: an item is in a folder that exists or in none, names of *)
(* folders and lists are unique, and a price list has lines.  In calm      *)
(* weather what a user made and nobody deleted is in a folder; only a      *)
(* deleteFolder that meets a createItem takes it out of all folders, where *)
(* no page of the folders shows it any more.                               *)
ItemsKeepFolder ==
    /\ \A i \in Items : item[i].folder \in FolderRows \cup {NoFolder}
    /\ \A f, g \in FolderRows : f # g => folder[f].name # folder[g].name
    /\ \A l, m \in ListRows : (l # m => list[l].name # list[m].name) /\ DOMAIN list[l].price # {}
    /\ calm => \A i \in Live : item[i].by = "user" => item[i].folder # NoFolder

(* "Idempotent: only seeds if organization has no items" and "skip if      *)
(* duplicate exists": in calm weather, and as long as nobody has deleted   *)
(* items the seeder made (below nine tenths the rest is made again), it    *)
(* has made the catalogue once, however often it is run and whatever users *)
(* have made that looks like its own.                                      *)
Made == {i \in Live : item[i].by = "seeder"}
CatalogueOnce ==
    calm /\ (\A i \in Items : item[i].by = "seeder" => item[i].state # "deleted") =>
        Cardinality(Made) <= Cardinality(Products)
=============================================================================
