---------------------------- MODULE PureFunctions ----------------------------
(***************************************************************************)
(* The pure functions of the driver beside its commands.  Their inputs are *)
(* constants, so what they compute is looked at in one place of the state  *)
(* graph of HciCommands: where no call is under way.                       *)
(***************************************************************************)
EXTENDS HciCommands, SmartConfig, ScanResults, PacketRead

\* wlan_smart_config_process adds the profile that was stored and returns what
\* became of that, or adds none if a read fails (wlan.c:1144-1250).
ProfileRecovered == pc = "idle" => KeysRecovered /\ ReadErrorsReturned

\* SpiReadAfterHeader takes every packet off the bus exactly, whatever its type
\* and length (cc3000_spi.c:411-452).
PacketsRead == pc = "idle" => AllReadWhole

\* cc3000_scan reports valid networks only, each once, and all of those in
\* front of the first invalid entry (cc3000_ifc.c:226-247).
ScanReported == pc = "idle" => /\ OnlyValidFound
                               /\ FoundOnceInOrder
                               /\ AllFoundInFront
==============================================================================
