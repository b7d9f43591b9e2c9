----------------------------- MODULE FlowControl -----------------------------
(***************************************************************************)
(* Transmit flow control: the device reports how many packet buffers it    *)
(* has (READ_BUFFER_SIZE), every send takes one credit before it writes    *)
(* its data packet (HostFlowControlConsumeBuff), and the FREE_BUFF event   *)
(* gives credits back.  The credits are decremented by the host thread and *)
(* incremented by the reader thread without a lock; the host thread's      *)
(* decrement is a load and a store, and the reader, of higher priority,    *)
(* may run between the two.  The reader's own update is not interrupted.   *)
(*                                                                         *)
(* One send runs at a time (the natives hold `sem').                       *)
(***************************************************************************)
EXTENDS Naturals

CONSTANTS Buffers,        \* packet buffers of the device
          MaxSends,       \* bound: calls of simple_link_send
          EqualPriority   \* TRUE: the caller also sees a rejected send

ASSUME BuffersAssumption == Buffers \in Nat \ {0}
ASSUME BoundsAssumption == MaxSends \in Nat /\ EqualPriority \in BOOLEAN

VARIABLES usNumberOfFreeBuffers,    \* credits
          NumberOfSentPackets,
          NumberOfReleasedPackets,
          slTransmitDataError,      \* TRUE for a recorded transmit error
          socketActive,             \* the socket's bit of socket_active_status
          shutdownOk,               \* cc3000AsyncData, set on CAN_SHUT_DOWN
          pc,                       \* program counter of the sending thread
          reg,                      \* credits as loaded by the decrement
          calls,                    \* sends begun
          occupied,                 \* device buffers holding a packet
          freed                     \* device buffers freed, not yet reported

sharedVars == <<usNumberOfFreeBuffers, NumberOfSentPackets,
                NumberOfReleasedPackets>>
statusVars == <<slTransmitDataError, socketActive>>
vars == <<sharedVars, statusVars, shutdownOk, pc, reg, calls, occupied, freed>>

PCs == {"start", "idle", "testError", "testActive", "testCredits", "load",
        "store", "count", "dataSend", "waitEvent", "hung"}

Init == /\ usNumberOfFreeBuffers = 0
        /\ NumberOfSentPackets = 0 /\ NumberOfReleasedPackets = 0
        /\ slTransmitDataError = FALSE /\ socketActive = FALSE
        /\ shutdownOk = FALSE
        /\ pc = "start" /\ reg = 0 /\ calls = 0
        /\ occupied = 0 /\ freed = 0

-----------------------------------------------------------------------------
Goto(from, to) == pc = from /\ pc' = to

\* The answer to HCI_CMND_READ_BUFFER_SIZE, the last step of wlan_start.
ReadBufferSize == /\ Goto("start", "idle")
                  /\ usNumberOfFreeBuffers' = Buffers
                  /\ UNCHANGED <<NumberOfSentPackets, NumberOfReleasedPackets,
                                 statusVars, shutdownOk, reg, calls, occupied,
                                 freed>>

\* socket() marks the descriptor active.
OpenSocket == /\ pc = "idle" /\ ~socketActive
              /\ socketActive' = TRUE
              /\ UNCHANGED <<sharedVars, slTransmitDataError, shutdownOk, pc,
                             reg, calls, occupied, freed>>

\* closesocket() marks it inactive.
CloseSocket == /\ pc = "idle" /\ socketActive
               /\ socketActive' = FALSE
               /\ UNCHANGED <<sharedVars, slTransmitDataError, shutdownOk, pc,
                              reg, calls, occupied, freed>>

SendCall == /\ Goto("idle", "testError")
            /\ calls < MaxSends /\ calls' = calls + 1
            /\ UNCHANGED <<sharedVars, statusVars, shutdownOk, reg, occupied,
                           freed>>

-----------------------------------------------------------------------------
(* HostFlowControlConsumeBuff: the busy loop, then the decrement.          *)

\* The last failure is reported once, and no buffer is consumed.
TestError == /\ pc = "testError"
             /\ pc' = IF slTransmitDataError THEN "idle" ELSE "testActive"
             /\ slTransmitDataError' = FALSE
             /\ UNCHANGED <<sharedVars, socketActive, shutdownOk, reg, calls,
                            occupied, freed>>

TestActive == /\ pc = "testActive"
              /\ pc' = IF socketActive THEN "testCredits" ELSE "idle"
              /\ UNCHANGED <<sharedVars, statusVars, shutdownOk, reg, calls,
                             occupied, freed>>

TestCredits == /\ pc = "testCredits"
               /\ pc' = IF usNumberOfFreeBuffers = 0 THEN "testError"
                                                     ELSE "load"
               /\ UNCHANGED <<sharedVars, statusVars, shutdownOk, reg, calls,
                              occupied, freed>>

LoadCredits == /\ Goto("load", "store")
               /\ reg' = usNumberOfFreeBuffers
               /\ UNCHANGED <<sharedVars, statusVars, shutdownOk, calls,
                              occupied, freed>>

\* Mutant: the credit is not taken.
StoreCredits_Kept == /\ Goto("store", "count")
                     /\ usNumberOfFreeBuffers' = reg
                     /\ UNCHANGED <<NumberOfSentPackets, NumberOfReleasedPackets,
                                    statusVars, shutdownOk, reg, calls,
                                    occupied, freed>>

StoreCredits == /\ Goto("store", "count")
                /\ usNumberOfFreeBuffers' = reg - 1
                /\ UNCHANGED <<NumberOfSentPackets, NumberOfReleasedPackets,
                               statusVars, shutdownOk, reg, calls, occupied,
                               freed>>

-----------------------------------------------------------------------------
(* simple_link_send: count the packet, write it, wait for the SEND event.  *)

CountSent == /\ Goto("count", "dataSend")
             /\ NumberOfSentPackets' = NumberOfSentPackets + 1
             /\ UNCHANGED <<usNumberOfFreeBuffers, NumberOfReleasedPackets,
                            statusVars, shutdownOk, reg, calls, occupied,
                            freed>>

DataSend == /\ Goto("dataSend", "waitEvent")
            /\ occupied' = occupied + 1
            /\ UNCHANGED <<sharedVars, statusVars, shutdownOk, reg, calls,
                           freed>>

SendAccepted == /\ Goto("waitEvent", "idle")
                /\ UNCHANGED <<sharedVars, statusVars, shutdownOk, reg, calls,
                               occupied, freed>>

\* The SEND event has status -57: hci_unsol_event_handler records the error,
\* marks the socket and returns 1.  The reader then clears the packet and the
\* caller spins for ever, unless it saw the packet before that.
SendRejected == /\ pc = "waitEvent"
                /\ pc' \in IF EqualPriority THEN {"hung", "idle"} ELSE {"hung"}
                /\ slTransmitDataError' = TRUE /\ socketActive' = FALSE
                /\ UNCHANGED <<sharedVars, shutdownOk, reg, calls, occupied,
                               freed>>

ConsumeBuff == \/ TestError \/ TestActive \/ TestCredits \/ LoadCredits
               \/ StoreCredits

Sender == ConsumeBuff \/ CountSent \/ DataSend \/ SendAccepted

-----------------------------------------------------------------------------
\* The device has transmitted some of its packets (external).
DevTransmit == /\ \E k \in 1..occupied : /\ occupied' = occupied - k
                                         /\ freed' = freed + k
               /\ UNCHANGED <<sharedVars, statusVars, shutdownOk, pc, reg,
                              calls>>

\* Mutant: CAN_SHUT_DOWN is signalled without comparing the counts.
FreeBuff_Untested ==
    /\ freed > 0 /\ freed' = 0
    /\ usNumberOfFreeBuffers' = usNumberOfFreeBuffers + freed
    /\ NumberOfReleasedPackets' = NumberOfReleasedPackets + freed
    /\ shutdownOk' = TRUE
    /\ UNCHANGED <<NumberOfSentPackets, statusVars, pc, reg, calls, occupied>>

\* Mutant: the buffers are counted but not credited.
FreeBuff_Uncredited ==
    /\ freed > 0 /\ freed' = 0
    /\ NumberOfReleasedPackets' = NumberOfReleasedPackets + freed
    /\ shutdownOk' = (shutdownOk
                        \/ NumberOfReleasedPackets' = NumberOfSentPackets)
    /\ UNCHANGED <<usNumberOfFreeBuffers, NumberOfSentPackets, statusVars, pc,
                   reg, calls, occupied>>

\* FREE_BUFF: hci_event_unsol_flowcontrol_handler adds up the buffers of all
\* handles, then CAN_SHUT_DOWN is signalled if the two counts agree.
FreeBuff ==
    /\ freed > 0 /\ freed' = 0
    /\ usNumberOfFreeBuffers' = usNumberOfFreeBuffers + freed
    /\ NumberOfReleasedPackets' = NumberOfReleasedPackets + freed
    /\ shutdownOk' = (shutdownOk
                        \/ NumberOfReleasedPackets' = NumberOfSentPackets)
    /\ UNCHANGED <<NumberOfSentPackets, statusVars, pc, reg, calls, occupied>>

Finished == /\ pc = "idle" /\ calls = MaxSends
            /\ occupied = 0 /\ freed = 0
            /\ UNCHANGED vars

Next == \/ ReadBufferSize \/ OpenSocket \/ CloseSocket \/ SendCall
        \/ Sender \/ SendRejected \/ DevTransmit \/ FreeBuff \/ Finished

Spec == Init /\ [][Next]_vars

(* The sending thread and the reader are scheduled, and the device goes on *)
(* transmitting and answers a send at last.                                *)
FairSpec == /\ Spec
            /\ WF_vars(ConsumeBuff \/ CountSent \/ DataSend)
            /\ WF_vars(SendAccepted \/ SendRejected)
            /\ WF_vars(DevTransmit) /\ WF_vars(FreeBuff)

-----------------------------------------------------------------------------
(* Invariants *)

\* Type invariant; in particular no decrement takes the credits below 0.
TypeOK == /\ usNumberOfFreeBuffers \in Nat /\ reg \in Nat
          /\ NumberOfSentPackets \in Nat /\ NumberOfReleasedPackets \in Nat
          /\ slTransmitDataError \in BOOLEAN /\ socketActive \in BOOLEAN
          /\ shutdownOk \in BOOLEAN
          /\ pc \in PCs /\ calls \in Nat
          /\ occupied \in Nat /\ freed \in Nat

Claimed == IF pc \in {"count", "dataSend"} THEN 1 ELSE 0

\* Credits never promise a buffer the device does not have, whatever updates
\* are lost: a packet written to the device always finds a buffer there.
NeverOverrun == usNumberOfFreeBuffers + Claimed + occupied + freed <= Buffers

\* Every packet counted as sent is in the device, reported as released, or
\* about to be written: the two counts agree only if the device is drained.
PacketAccounting ==
    NumberOfSentPackets = NumberOfReleasedPackets + occupied + freed
                            + (IF pc = "dataSend" THEN 1 ELSE 0)

\* CAN_SHUT_DOWN is signalled only at a moment when the device holds no
\* packet and none is counted but unwritten.
ShutdownWhenDrained ==
    [][~shutdownOk /\ shutdownOk' => occupied' = 0 /\ freed' = 0
                                      /\ pc' # "dataSend"]_vars

\* The doc of hci_event_unsol_flowcontrol_handler ("Keep track on the number
\* of packets transmitted and update the number of free buffer in the SL
\* device"): with nothing in flight the credits are the device's buffers.
CreditsTracked == /\ pc = "idle" /\ occupied = 0 /\ freed = 0
                  => usNumberOfFreeBuffers = Buffers

-----------------------------------------------------------------------------
(* Liveness *)

\* A sender spinning in HostFlowControlConsumeBuff gets out: lost updates may
\* waste credits, but never the last one.
SenderGetsBuffer == (pc = "testError") ~> (pc \notin {"testError",
                        "testActive", "testCredits", "load", "store"})
==============================================================================
