----------------------------- MODULE SpiTransport -----------------------------
(***************************************************************************)
(* What the SPI driver promises to the layers above, without interrupts,   *)
(* semaphores or driver states: a half-duplex link.  A bus window carries  *)
(* exactly one packet in one direction, packets of the device arrive once  *)
(* and in order, and a host frame is accepted once.                        *)
(***************************************************************************)
EXTENDS Naturals

CONSTANTS MaxPackets, MaxWrites

VARIABLES produced,   \* packets the device has queued
          delivered,  \* packets handed to the host
          issued,     \* frames the host has asked to send
          accepted,   \* frames the device has taken
          bus         \* state of the bus window

vars == <<produced, delivered, issued, accepted, bus>>

Init == /\ produced = 0 /\ delivered = 0
        /\ issued = 0 /\ accepted = 0
        /\ bus = "free"

Produce == /\ produced < MaxPackets
           /\ produced' = produced + 1
           /\ UNCHANGED <<delivered, issued, accepted, bus>>

\* One frame at a time.
Issue == /\ issued < MaxWrites /\ accepted = issued
         /\ issued' = issued + 1
         /\ UNCHANGED <<produced, delivered, accepted, bus>>

OpenIn == /\ bus = "free" /\ delivered < produced
          /\ bus' = "in"
          /\ UNCHANGED <<produced, delivered, issued, accepted>>

OpenOut == /\ bus = "free" /\ accepted < issued
           /\ bus' = "out"
           /\ UNCHANGED <<produced, delivered, issued, accepted>>

Deliver == /\ bus = "in" /\ bus' = "inDone"
           /\ delivered' = delivered + 1
           /\ UNCHANGED <<produced, issued, accepted>>

Accept == /\ bus = "out" /\ bus' = "outDone"
          /\ accepted' = accepted + 1
          /\ UNCHANGED <<produced, delivered, issued>>

Close == /\ bus \in {"inDone", "outDone"}
         /\ bus' = "free"
         /\ UNCHANGED <<produced, delivered, issued, accepted>>

Next == \/ Produce \/ Issue \/ OpenIn \/ OpenOut \/ Deliver \/ Accept \/ Close

Spec == Init /\ [][Next]_vars
==============================================================================
