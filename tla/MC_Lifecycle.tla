---------------------------- MODULE MC_Lifecycle ----------------------------
(* A small instance of Lifecycle for TLC; the values are in the .cfg file.   *)
EXTENDS Lifecycle
=============================================================================
