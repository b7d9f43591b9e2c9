--------------------------- MODULE MC_HostController ---------------------------
(* The HCI layer with a few calls and unsolicited events.                   *)
EXTENDS HostController
==============================================================================
