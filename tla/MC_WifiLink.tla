----------------------------- MODULE MC_WifiLink -----------------------------
(* Small instances of WifiLink for TLC; the values are in the .cfg files.   *)
EXTENDS WifiLink
==============================================================================
