---------------------------- MODULE MCMigrations ----------------------------
(***************************************************************************)
(* The start-up alone, in calm weather: whether it keeps the accounts of   *)
(* whatever database it meets.                                             *)
(***************************************************************************)
EXTENDS Migrations

MCInit == calm = TRUE /\ MigrationsInit
MCSpec == MCInit /\ [][MigrationsNext /\ UNCHANGED calm]_<<migrationVars, calm>>
=============================================================================
