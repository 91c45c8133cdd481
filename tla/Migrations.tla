----------------------------- MODULE Migrations -----------------------------
(***************************************************************************)
(* How the container of the API starts (script start:api): it resolves the *)
(* migration of folder prefixes, recovers the ones it knows of, marks what *)
(* is still failed as rolled back, runs `prisma migrate deploy' and only   *)
(* then serves.  Every step that changes the database is an action of its  *)
(* own, and the container may die between any two of them.                 *)
(*                                                                         *)
(* The migrations are the four these scripts treat by name and one they do *)
(* not; PostgreSQL runs each file in one transaction.  A row of            *)
(* _prisma_migrations is failed (started, neither finished nor rolled      *)
(* back), rolled back or applied; a migration may have several, of which   *)
(* a query without ORDER BY returns any.  What the schema holds before the *)
(* first start is what `prisma db push' had left there.                    *)
(*                                                                         *)
(* In calm weather no container dies and no command or query fails.        *)
(***************************************************************************)
EXTENDS Naturals, Sequences, SequencesExt, Weather

CONSTANTS
    RescueMode,     \* PRISMA_MIGRATE_MODE = rescue
    MaxStarts       \* bound on the starts of the container

ASSUME MigrationsAssumption == RescueMode \in BOOLEAN /\ MaxStarts \in Nat

VARIABLES
    schema,     \* the objects there are
    rows,       \* the rows of each migration, the latest last
    ledgerUsed, \* whether somebody has made ledger accounts: "no", in a ledger that was half there, or in a "whole" one
    step,       \* what the container is about to do
    todo,       \* the migration it resolves, and how
    found,      \* the failed migrations, or the tables, it has listed
    instructed, \* whether it has asked for manual intervention
    starts

migrationVars == <<schema, rows, ledgerUsed, step, todo, found, instructed, starts>>

LedgerTables == <<"CustomerBalanceSnapshot", "LedgerCategory", "LedgerAccount">>
PriceTables == {"PriceList", "PriceListItem", "PriceListItemOverride"}
Pushed == {"Organization", "User", "Purchase", "PurchaseLine"}

(* What each file makes: the guarded files add what is missing, the others *)
(* fail on what is there.                                                  *)
Accounting == [makes |-> ToSet(LedgerTables) \cup {"purchaseColumns", "enumLabels"}, guarded |-> FALSE]
ItemsModel == [makes |-> {"Item"}, guarded |-> FALSE]
PurchaseStock == [makes |-> {"PurchaseStockApplication", "applicationKeys", "stockItemColumn"}, guarded |-> FALSE]
FolderPrefix == [makes |-> {"FolderPrefix", "prefixKeys"}, guarded |-> TRUE]
PriceListFile == [makes |-> PriceTables \cup {"priceKeys"}, guarded |-> TRUE]

Files ==
    [accounting |-> Accounting, items |-> ItemsModel, purchaseStock |-> PurchaseStock,
     folderPrefix |-> FolderPrefix, priceLists |-> PriceListFile]
Order == <<"accounting", "items", "purchaseStock", "folderPrefix", "priceLists">>
Migration == ToSet(Order)
Everything == Pushed \cup UNION {Files[m].makes : m \in Migration}

Is(m, s) == rows[m] # <<>> /\ Last(rows[m]) = s
AnyRowIs(m, s) == \E i \in DOMAIN rows[m] : rows[m][i] = s
Failed == {m \in Migration : AnyRowIs(m, "failed")}
Mark(m, s) == [i \in DOMAIN rows[m] |-> IF rows[m][i] = "failed" THEN s ELSE rows[m][i]]
NoTodo == [of |-> "accounting", as |-> "none"]

(* Fault: the audit asks for the table of accounts only.                   *)
AccountTableThere == "LedgerAccount" \in schema

(* Tables, columns and labels are all asked for.                           *)
LedgerThere == Accounting.makes \subseteq schema

IsFirst(order, i, S) == order[i] \in S /\ \A j \in 1 .. i - 1 : order[j] \notin S
FirstMissing(m, applied) == \E i \in DOMAIN Order : Order[i] = m /\ IsFirst(Order, i, Migration \ applied)

(* A database that earlier images migrated or pushed, perhaps while the    *)
(* ledger was half written and perhaps with a deployment that has failed,  *)
(* or a new one.  Where there is a table of accounts there may be accounts.*)
MigrationsInit ==
    /\ \E applied \in SUBSET Migration, failed \in BOOLEAN :
        /\ rows = [m \in Migration |->
                    IF m \in applied THEN <<"applied">> ELSE IF failed /\ FirstMissing(m, applied) THEN <<"failed">> ELSE <<>>]
        /\ \/ \E extra \in SUBSET Migration, notYet \in {{}, {"purchaseColumns"}, {"LedgerCategory"}} :
                schema = (Pushed \cup UNION {Files[m].makes : m \in applied \cup extra})
                            \ (IF "accounting" \in applied THEN {} ELSE notYet)
           \/ applied = {} /\ schema = {}
    /\ \/ ledgerUsed = "no"
       \/ "LedgerAccount" \in schema /\ ledgerUsed = IF LedgerThere THEN "whole" ELSE "half"
    /\ step = "prefix" /\ todo = NoTodo /\ found = {} /\ instructed = FALSE /\ starts = 1

Due(s) == step = s
Then(s) == step' = s
Resolve(m, as, next) == todo' = [of |-> m, as |-> as] /\ Then(next)

(* The process ends with an error; Railway starts the container again.     *)
Dies == Then("down")

(* What main catches: in rescue mode the start goes on.                    *)
Caught == Then(IF RescueMode THEN "cleanup" ELSE "down")

-----------------------------------------------------------------------------
(* `prisma migrate resolve': refuses a migration that has not failed, and  *)
(* one to be applied that is.                                              *)
CliSucceeds(m, as) ==
    /\ AnyRowIs(m, "failed")
    /\ rows' = [rows EXCEPT ![m] = IF as = "applied" THEN Append(Mark(m, "rolledBack"), "applied") ELSE Mark(m, "rolledBack")]

Cli(next) ==
    \/ CliSucceeds(todo.of, todo.as) /\ Then(next)
    \/ (~calm \/ ~AnyRowIs(todo.of, "failed")) /\ Dies /\ UNCHANGED rows

RunCli(here, next) ==
    /\ Due(here) /\ Cli(next)
    /\ UNCHANGED <<schema, ledgerUsed, todo, found, instructed, starts>>

-----------------------------------------------------------------------------
(* resolve-folder-prefix-migration.ts: one row of the migration, any, is   *)
(* looked at.                                                              *)
ResolveFolderPrefix ==
    /\ Due("prefix")
    /\ \/ /\ rows["folderPrefix"] = <<>> \/ AnyRowIs("folderPrefix", "applied") \/ AnyRowIs("folderPrefix", "rolledBack")
          /\ Then("audit") /\ UNCHANGED todo
       \/ /\ AnyRowIs("folderPrefix", "failed")
          /\ Resolve("folderPrefix", IF FolderPrefix.makes \subseteq schema THEN "applied" ELSE "rolledBack", "resolvePrefix")
    /\ UNCHANGED <<schema, rows, ledgerUsed, found, instructed, starts>>

PrefixResolved == RunCli("resolvePrefix", "audit")

(* prisma-recover.ts, auditDatabase: without the core tables the schema is *)
(* pushed, and nothing else is looked at.                                  *)
DatabaseEmpty == ~({"Purchase", "Organization", "User"} \subseteq schema)
AuditDatabase ==
    /\ Due("audit")
    /\ Then(IF DatabaseEmpty THEN "push" ELSE "p3018")
    /\ UNCHANGED <<schema, rows, ledgerUsed, todo, found, instructed, starts>>

DbPush ==
    /\ Due("push")
    /\ \/ schema' = Everything /\ Then("cleanup")
       \/ ~calm /\ Caught /\ UNCHANGED schema
    /\ UNCHANGED <<rows, ledgerUsed, todo, found, instructed, starts>>

(* Only the tables are asked for, and they count as missing when the       *)
(* database does not answer.                                               *)
PriceListsThere == PriceTables \subseteq schema
ResolvePriceLists(next) ==
    \/ PriceListsThere /\ Resolve("priceLists", "applied", next)
    \/ (~calm \/ ~PriceListsThere) /\ Resolve("priceLists", "rolledBack", next)

(* The price lists first: one of their rows, any; no answer is taken for   *)
(* not failed.                                                             *)
CheckP3018 ==
    /\ Due("p3018")
    /\ \/ AnyRowIs("priceLists", "failed") /\ ResolvePriceLists("resolveP3018")
       \/ (~calm \/ rows["priceLists"] = <<>> \/ AnyRowIs("priceLists", "applied") \/ AnyRowIs("priceLists", "rolledBack"))
            /\ Then("list") /\ UNCHANGED todo
    /\ UNCHANGED <<schema, rows, ledgerUsed, found, instructed, starts>>

P3018Resolved == RunCli("resolveP3018", "list")

ListFailed ==
    /\ Due("list")
    /\ found' = Failed /\ Then("priceLists")
    /\ UNCHANGED <<schema, rows, ledgerUsed, todo, instructed, starts>>

RecoverPriceLists ==
    /\ Due("priceLists")
    /\ IF "priceLists" \in found THEN ResolvePriceLists("resolveLists") ELSE Then("purchaseStock") /\ UNCHANGED todo
    /\ UNCHANGED <<schema, rows, ledgerUsed, found, instructed, starts>>

PriceListsResolved == RunCli("resolveLists", "purchaseStock")

(* Table, column, indexes and foreign keys are all asked for ...           *)
PurchaseStockThere == PurchaseStock.makes \subseteq schema

(* ... and when one is missing, the start ends with instructions.          *)
RecoverPurchaseStock ==
    /\ Due("purchaseStock")
    /\ \/ "purchaseStock" \notin found /\ Then("target") /\ UNCHANGED <<todo, instructed>>
       \/ "purchaseStock" \in found /\ PurchaseStockThere /\ Resolve("purchaseStock", "applied", "resolveStock") /\ UNCHANGED instructed
       \/ "purchaseStock" \in found /\ ~PurchaseStockThere /\ Dies /\ instructed' = TRUE /\ UNCHANGED todo
    /\ UNCHANGED <<schema, rows, ledgerUsed, found, starts>>

PurchaseStockResolved == RunCli("resolveStock", "target")

(* The accounting migration, by its latest row.                            *)
RecoverTarget ==
    /\ Due("target")
    /\ \/ ~Is("accounting", "failed") /\ Then("cleanup") /\ UNCHANGED <<todo, found>>
       \/ Is("accounting", "failed") /\ LedgerThere /\ Resolve("accounting", "applied", "resolveTarget") /\ UNCHANGED found
       \/ /\ Is("accounting", "failed") /\ ~LedgerThere
          /\ found' = ToSet(LedgerTables) \cap schema /\ Resolve("accounting", "rolledBack", "drop")
    /\ UNCHANGED <<schema, rows, ledgerUsed, instructed, starts>>

TargetResolved == RunCli("resolveTarget", "cleanup")

(* cleanupPartialTables: the tables found, in this order; the columns and  *)
(* the labels of the enumeration stay.                                     *)
DropPartialTable ==
    /\ Due("drop")
    /\ \/ found = {} /\ Then("rollback") /\ UNCHANGED <<schema, found>>
       \/ \E i \in DOMAIN LedgerTables :
             /\ IsFirst(LedgerTables, i, found)
             /\ schema' = schema \ {LedgerTables[i]} /\ found' = found \ {LedgerTables[i]} /\ UNCHANGED step
       \/ ~calm /\ found # {} /\ Caught /\ UNCHANGED <<schema, found>>
    /\ UNCHANGED <<rows, ledgerUsed, todo, instructed, starts>>

(* When the command fails the rows are updated by SQL.                     *)
RollBackTarget ==
    /\ Due("rollback")
    /\ \/ CliSucceeds("accounting", "rolledBack") /\ Then("cleanup")
       \/ (~calm \/ ~AnyRowIs("accounting", "failed")) /\ Then("forceRollback") /\ UNCHANGED rows
    /\ UNCHANGED <<schema, ledgerUsed, todo, found, instructed, starts>>

ForceRollback ==
    /\ Due("forceRollback")
    /\ \/ rows' = [rows EXCEPT !["accounting"] = Mark("accounting", "rolledBack")] /\ Then("cleanup")
       \/ ~calm /\ Caught /\ UNCHANGED rows
    /\ UNCHANGED <<schema, ledgerUsed, todo, found, instructed, starts>>

(* The other queries throw when the database does not answer.              *)
QueryFails ==
    /\ ~calm /\ step \in {"audit", "list", "purchaseStock", "target"}
    /\ Caught
    /\ UNCHANGED <<schema, rows, ledgerUsed, todo, found, instructed, starts>>

-----------------------------------------------------------------------------
(* pre-migrate-cleanup.ts: whatever is failed, one after the other.        *)
PreMigrateCleanup ==
    /\ Due("cleanup")
    /\ found' = Failed /\ Then("mark")
    /\ UNCHANGED <<schema, rows, ledgerUsed, todo, instructed, starts>>

MarkRolledBack ==
    /\ Due("mark")
    /\ IF found = {} THEN Then("deploy") /\ UNCHANGED <<rows, found>>
       ELSE \E m \in found :
                \/ rows' = [rows EXCEPT ![m] = Mark(m, "rolledBack")] /\ found' = found \ {m} /\ UNCHANGED step
                \/ ~calm /\ Dies /\ UNCHANGED <<rows, found>>
    /\ UNCHANGED <<schema, ledgerUsed, todo, instructed, starts>>

(* `prisma migrate deploy', which finds no row failed any more: each       *)
(* migration that is not applied, in the order of the names: its row is    *)
(* inserted, the file run, the row finished.                               *)
Undeployed == {m \in Migration : ~AnyRowIs(m, "applied")}
DeployBegins ==
    /\ Due("deploy")
    /\ \/ Undeployed = {} /\ Then("serving") /\ UNCHANGED <<rows, todo>>
       \/ \E i \in DOMAIN Order :
             /\ IsFirst(Order, i, Undeployed)
             /\ rows' = [rows EXCEPT ![Order[i]] = Append(@, "failed")] /\ Resolve(Order[i], "applied", "run")
    /\ UNCHANGED <<schema, ledgerUsed, found, instructed, starts>>

Runs(m) == Pushed \subseteq schema /\ (Files[m].guarded \/ Files[m].makes \cap schema = {})
DeployRuns ==
    /\ Due("run")
    /\ IF Runs(todo.of) THEN schema' = schema \cup Files[todo.of].makes /\ Then("finish") ELSE Dies /\ UNCHANGED schema
    /\ UNCHANGED <<rows, ledgerUsed, todo, found, instructed, starts>>

DeployFinishes ==
    /\ Due("finish")
    /\ rows' = [rows EXCEPT ![todo.of] = Append(Front(@), "applied")] /\ Then("deploy")
    /\ UNCHANGED <<schema, ledgerUsed, todo, found, instructed, starts>>

-----------------------------------------------------------------------------
(* The API serves, and somebody makes a ledger account.                    *)
UseLedger ==
    /\ Due("serving") /\ ledgerUsed # "whole"
    /\ ledgerUsed' = "whole"
    /\ UNCHANGED <<schema, rows, step, todo, found, instructed, starts>>

(* A new deployment, or Railway's restart (ON_FAILURE) of a dead one.      *)
StartAgain ==
    /\ step \in {"serving", "down"} /\ starts < MaxStarts
    /\ starts' = starts + 1 /\ Then("prefix")
    /\ UNCHANGED <<schema, rows, ledgerUsed, todo, found, instructed>>

Crash ==
    /\ ~calm /\ step \notin {"serving", "down"}
    /\ Dies
    /\ UNCHANGED <<schema, rows, ledgerUsed, todo, found, instructed, starts>>

(* The instructions followed: the missing parts of the purchase stock      *)
(* migration are made by hand, one after the other, at any time, and then  *)
(* it is resolved as applied.                                              *)
RepairByHand ==
    /\ instructed /\ Pushed \subseteq schema
    /\ \E o \in PurchaseStock.makes \ schema :
          /\ o = "applicationKeys" => "PurchaseStockApplication" \in schema
          /\ schema' = schema \cup {o}
    /\ UNCHANGED <<rows, ledgerUsed, step, todo, found, instructed, starts>>

ResolveByHand ==
    /\ instructed /\ Due("down") /\ PurchaseStock.makes \subseteq schema
    /\ CliSucceeds("purchaseStock", "applied")
    /\ instructed' = FALSE
    /\ UNCHANGED <<schema, ledgerUsed, step, todo, found, starts>>

(* migrate:resolve:failed <name>: any failed row of it makes every row of  *)
(* it rolled back.                                                         *)
ResolveFailed(m) ==
    /\ Due("down") /\ AnyRowIs(m, "failed")
    /\ rows' = [rows EXCEPT ![m] = [i \in DOMAIN @ |-> "rolledBack"]]
    /\ UNCHANGED <<schema, ledgerUsed, step, todo, found, instructed, starts>>

Recover ==
    \/ AuditDatabase \/ DbPush \/ CheckP3018 \/ P3018Resolved \/ ListFailed \/ RecoverPriceLists \/ PriceListsResolved
    \/ RecoverPurchaseStock \/ PurchaseStockResolved \/ RecoverTarget \/ TargetResolved \/ DropPartialTable
    \/ RollBackTarget \/ ForceRollback \/ QueryFails

MigrationsNext ==
    \/ ResolveFolderPrefix \/ PrefixResolved
    \/ Recover
    \/ PreMigrateCleanup \/ MarkRolledBack \/ DeployBegins \/ DeployRuns \/ DeployFinishes
    \/ UseLedger \/ StartAgain \/ Crash
    \/ RepairByHand \/ ResolveByHand \/ \E m \in Migration : ResolveFailed(m)

MigrationsSpec == MigrationsInit /\ [][MigrationsNext /\ UNCHANGED calm]_<<migrationVars, calm>>

-----------------------------------------------------------------------------
Steps ==
    {"prefix", "resolvePrefix", "audit", "push", "p3018", "resolveP3018", "list", "priceLists", "resolveLists", "purchaseStock",
     "resolveStock", "target", "resolveTarget", "drop", "rollback", "forceRollback", "cleanup", "mark", "deploy", "run", "finish",
     "serving", "down"}

(* Every variable keeps to its type; no start deals with a migration that  *)
(* no file defines.                                                        *)
MigrationsTypeOK ==
    /\ schema \subseteq Everything /\ rows \in [Migration -> Seq({"failed", "rolledBack", "applied"})]
    /\ ledgerUsed \in {"no", "half", "whole"} /\ instructed \in BOOLEAN /\ starts \in Nat /\ step \in Steps
    /\ todo \in [of : Migration, as : {"none", "applied", "rolledBack"}] /\ found \subseteq Migration \cup ToSet(LedgerTables)

(* What the record says is what the database has, whatever died where and  *)
(* however often it was recovered: a migration whose latest row says it is *)
(* applied has all its objects; the API serves only a database that has    *)
(* been migrated to the end; and accounts that were made in a whole ledger *)
(* are not dropped by the recovery, though its row be failed again and     *)
(* again (those of a half-pushed ledger are, see AccountsKept).            *)
SchemaKept ==
    /\ \A m \in Migration : Is(m, "applied") => Files[m].makes \subseteq schema
    /\ step = "serving" => \A m \in Migration : Is(m, "applied")
    /\ ledgerUsed = "whole" => "LedgerAccount" \in schema

(* The recovery aborts when it cannot resolve safely                       *)
(* (docs/PRISMA_MIGRATION_RECOVERY.md): no table with accounts is dropped. *)
AccountsKept == ledgerUsed # "no" => "LedgerAccount" \in schema
=============================================================================
