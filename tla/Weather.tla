------------------------------- MODULE Weather -------------------------------
(* What the environment may do in a behaviour, chosen once at its start.   *)
(* In calm weather nothing crashes, fails or comes late; each module says  *)
(* which of its steps that rules out.  Promises that the code keeps only   *)
(* then are stated under `calm'.                                           *)
VARIABLE calm
=============================================================================
