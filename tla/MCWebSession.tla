---------------------------- MODULE MCWebSession ----------------------------
(***************************************************************************)
(* One browser tab alone, whose user does not wait for answers.            *)
(***************************************************************************)
EXTENDS WebSession

MCInit == calm = FALSE /\ WebInit
MCSpec == MCInit /\ [][WebNext /\ UNCHANGED calm]_<<webVars, calm>>
=============================================================================
