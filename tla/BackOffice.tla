----------------------------- MODULE BackOffice -----------------------------
(***************************************************************************)
(* The parts of the back office side by side: accounts, the catalogue,     *)
(* price quotes, sale numbers, the dialog that adds stock, the browser's   *)
(* session, the migrations and the list pages.  They share no variable     *)
(* with each other or with the inventory but the weather, so a step of one *)
(* leaves the others alone.  A behaviour exercises one of them.            *)
(***************************************************************************)
EXTENDS Accounts, Catalogue, Pricing, SaleNumbers, StockForm, WebSession, Migrations, ListPages

VARIABLE focus      \* the part this behaviour exercises

backOfficeVars ==
    <<calm, focus, accountVars, catalogueVars, pricingVars, numberVars, formVars, webVars, migrationVars, listVars>>

BackOfficeInit ==
    /\ focus \in {"accounts", "catalogue", "pricing", "numbers", "form", "web", "migrations", "lists"}
    /\ MigrationsInit /\ ListsInit /\ AccountsInit /\ CatalogueInit
    /\ PricingInit /\ NumbersInit /\ FormInit /\ WebInit

AccountsRun ==
    /\ focus = "accounts" /\ AccountsNext
    /\ UNCHANGED <<catalogueVars, pricingVars, numberVars, formVars, webVars, migrationVars, listVars>>

CatalogueRuns ==
    /\ focus = "catalogue" /\ CatalogueNext
    /\ UNCHANGED <<accountVars, pricingVars, numberVars, formVars, webVars, migrationVars, listVars>>

PricingRuns ==
    /\ focus = "pricing" /\ PricingNext
    /\ UNCHANGED <<accountVars, catalogueVars, numberVars, formVars, webVars, migrationVars, listVars>>

NumbersRun ==
    /\ focus = "numbers" /\ NumbersNext
    /\ UNCHANGED <<accountVars, catalogueVars, pricingVars, formVars, webVars, migrationVars, listVars>>

FormRuns ==
    /\ focus = "form" /\ FormNext
    /\ UNCHANGED <<accountVars, catalogueVars, pricingVars, numberVars, webVars, migrationVars, listVars>>

WebRuns ==
    /\ focus = "web" /\ WebNext
    /\ UNCHANGED <<accountVars, catalogueVars, pricingVars, numberVars, formVars, migrationVars, listVars>>

MigrationsRun ==
    /\ focus = "migrations" /\ MigrationsNext
    /\ UNCHANGED <<accountVars, catalogueVars, pricingVars, numberVars, formVars, webVars, listVars>>

ListsRun ==
    /\ focus = "lists" /\ ListsNext
    /\ UNCHANGED <<accountVars, catalogueVars, pricingVars, numberVars, formVars, webVars, migrationVars>>

BackOfficeNext ==
    /\ \/ AccountsRun \/ CatalogueRuns \/ PricingRuns \/ NumbersRun
       \/ FormRuns \/ WebRuns \/ MigrationsRun \/ ListsRun
    /\ UNCHANGED <<calm, focus>>

BackOfficeSpec == BackOfficeInit /\ [][BackOfficeNext]_backOfficeVars

-----------------------------------------------------------------------------
(* Every variable of the back office keeps to its type.                    *)
BackOfficeTypeOK ==
    /\ AccountsTypeOK /\ CatalogueTypeOK /\ PricingTypeOK /\ NumbersTypeOK
    /\ FormTypeOK /\ WebTypeOK /\ MigrationsTypeOK /\ ListsTypeOK
=============================================================================
