---------------------------- MODULE HostController ----------------------------
(***************************************************************************)
(* The HCI layer: a command is sent with hci_command_send (or              *)
(* hci_data_send) and the caller then spins in hci_event_handler until the *)
(* event with the awaited opcode, and after a receive the data packet, has *)
(* been taken from the one receive buffer.  Packets are put there by the   *)
(* reader thread, which dispatches unsolicited events itself               *)
(* (SpiReceiveHandler, hci_unsolicited_event_handler).                     *)
(*                                                                         *)
(* The bus below is the one of CC3000Spi: a frame is written while the     *)
(* reader is not inside a packet, packets arrive once and in order.        *)
(***************************************************************************)
EXTENDS Naturals, Sequences

CONSTANTS
    MaxCommands,   \* bound: API calls of the host
    MaxUnsolicited,\* bound: events the device sends on its own
    MaxPatches,    \* patches the device asks for during SIMPLE_LINK_START
    Paced,         \* TRUE: the device is slower than the host, see DeviceWaits
    SendMayFail    \* TRUE: the device may answer a send with status -57

ASSUME BoundsAssumption ==
    MaxCommands \in Nat /\ MaxUnsolicited \in Nat /\ MaxPatches \in Nat
ASSUME ModesAssumption ==
    Paced \in BOOLEAN /\ SendMayFail \in BOOLEAN

\* START is HCI_CMND_SIMPLE_LINK_START, CMD any command answered by one event.
Opcodes == {"START", "CMD", "RECV", "SEND"}
None == "none"

\* UNSOLICITED stands for the event types hci_unsol_event_handler serves,
\* UNKNOWN for the types with the WLAN_UNSOL_BASE bit that it does not know.
EventOps == Opcodes \cup {"UNSOLICITED", "UNKNOWN", "PATCHES_REQ"}
Tags == {"ok", "more", "inactive"}

\* "id" is the number of the call a packet answers, 0 if there is none.
Packets == [type : {"EVNT", "DATA"}, op : EventOps \cup {None},
            id : Nat, tag : Tags]

Event(op, id, tag) == [type |-> "EVNT", op |-> op, id |-> id, tag |-> tag]
Data(id) == [type |-> "DATA", op |-> None, id |-> id, tag |-> "ok"]
NoPacket == Event("UNKNOWN", 0, "ok")

VARIABLES
    usEventOrDataReceived, \* the buffer holds a packet to take, 0 or 1
    rxBuffer,              \* the packet in spi_buffer (pucReceivedData)
    usRxEventOpcode,       \* opcode awaited, None for 0
    usRxDataPending,       \* 1 while a data packet is awaited
    hostPC,                \* program counter of the calling thread
    cmd, call,             \* opcode and number of the call in progress
    seen,                  \* type and opcode the host read from the buffer
    result, dataResult,    \* packets copied to the caller's two buffers
    readerPC,              \* program counter of the reader in the callback
    handled,               \* times an unsolicited event was acted upon
    arrived,               \* unsolicited events read from the device
    slTransmitDataError,   \* TRUE for a recorded transmit error
    toHost,                \* packets queued in the device
    spontaneous,           \* events the device has sent on its own
    inbox,                 \* the call the device is executing, 0 for none
    patches                \* patch requests left, and whether one is open

hciVars  == <<usEventOrDataReceived, usRxEventOpcode, usRxDataPending>>
callVars == <<cmd, call, result, dataResult>>
countVars == <<handled, arrived, slTransmitDataError>>
devVars  == <<toHost, inbox, patches, spontaneous>>
vars == <<hciVars, rxBuffer, hostPC, callVars, seen, readerPC, countVars,
          devVars>>

HostPCs == {"idle", "write", "setOpcode", "poll", "type", "unsol", "dispatch",
            "match", "copyData", "clear", "patch", "return", "setPending"}
ReaderPCs == {"idle", "flag", "handle", "clear"}

Init == /\ usEventOrDataReceived = 0 /\ rxBuffer = NoPacket
        /\ usRxEventOpcode = None /\ usRxDataPending = 0
        /\ hostPC = "idle" /\ cmd = "START" /\ call = 0 /\ seen = NoPacket
        /\ result = NoPacket /\ dataResult = NoPacket
        /\ readerPC = "idle" /\ handled = 0 /\ arrived = 0
        /\ slTransmitDataError = FALSE
        /\ toHost = <<>> /\ inbox = 0 /\ spontaneous = 0
        /\ patches = [left |-> MaxPatches, open |-> FALSE]

-----------------------------------------------------------------------------
(* hci_unsol_event_handler: TRUE when it returns 1.  A send completion with *)
(* status -57 is taken for an unsolicited report, one with another status   *)
(* never; of the remaining events those are dropped whose opcode is not     *)
(* awaited at this moment.                                                  *)

IsUnsolicited(p) == p.type = "EVNT" /\ p.op = "UNSOLICITED"
SendInactive(p)  == p.op = "SEND" /\ p.tag = "inactive"

\* Mutant: the last branch does not test the opcode awaited.
UnsolHandles_DropsAll(p) ==
    SendInactive(p) \/ p.op \notin {"UNKNOWN", "PATCHES_REQ", "SEND"}

UnsolHandles(p) ==
    \/ p.op = "UNSOLICITED"
    \/ SendInactive(p)
    \/ /\ p.op \notin {"UNSOLICITED", "UNKNOWN", "PATCHES_REQ", "SEND"}
       /\ p.op # usRxEventOpcode

UnsolEffect(p) ==
    /\ handled' = handled + (IF p.op = "UNSOLICITED" THEN 1 ELSE 0)
    /\ slTransmitDataError' = (slTransmitDataError \/ SendInactive(p))

-----------------------------------------------------------------------------
(* The device (external), and the pace it keeps in the Paced mode.         *)

DevSendUnsolicited ==
    /\ call > 0 /\ cmd # "START"
    /\ spontaneous < MaxUnsolicited /\ spontaneous' = spontaneous + 1
    /\ \E op \in {"UNSOLICITED", "UNKNOWN"} :
           toHost' = Append(toHost, Event(op, 0, "ok"))
    /\ UNCHANGED <<hciVars, rxBuffer, hostPC, callVars, seen, readerPC,
                   countVars, inbox, patches>>

DevAskPatch == /\ inbox > 0 /\ cmd = "START"
               /\ patches.left > 0 /\ ~patches.open
               /\ patches' = [patches EXCEPT !.open = TRUE]
               /\ toHost' = Append(toHost, Event("PATCHES_REQ", 0, "ok"))
               /\ UNCHANGED <<hciVars, rxBuffer, hostPC, callVars, seen,
                              readerPC, countVars, inbox, spontaneous>>

DevRespond ==
    /\ inbox > 0
    /\ cmd = "START" => patches.left = 0
    /\ \/ toHost' = Append(toHost, Event(cmd, inbox, "ok"))
       \/ /\ cmd = "RECV"
          /\ toHost' = toHost \o <<Event(cmd, inbox, "more"), Data(inbox)>>
       \/ /\ cmd = "SEND" /\ SendMayFail
          /\ toHost' = Append(toHost, Event(cmd, inbox, "inactive"))
    /\ inbox' = 0
    /\ UNCHANGED <<hciVars, rxBuffer, hostPC, callVars, seen, readerPC,
                   countVars, patches, spontaneous>>

\* The host is taking a packet out of the buffer.
HostTaking == hostPC \in {"type", "unsol", "dispatch", "match", "copyData",
                          "clear", "patch"}

\* The timing the driver relies on: the device announces its next packet only
\* after a spinning host has taken the last one, and answers only once the
\* host spins for the answer.
DeviceWaits(p) ==
    \/ HostTaking
    \/ usEventOrDataReceived = 1 /\ hostPC \notin {"idle", "write"}
    \/ p.op \in Opcodes /\ usRxEventOpcode # p.op
    \/ p.type = "DATA" /\ usRxDataPending = 0

-----------------------------------------------------------------------------
(* The reader thread: it fills the buffer over SPI, then SpiReceiveHandler  *)
(* sets the flag and dispatches the packet if it is an unsolicited event.   *)

ReaderRead ==
    /\ readerPC = "idle" /\ readerPC' = "flag"
    /\ toHost # <<>>
    /\ Paced => ~DeviceWaits(Head(toHost))
    /\ rxBuffer' = Head(toHost) /\ toHost' = Tail(toHost)
    /\ arrived' = arrived + (IF IsUnsolicited(Head(toHost)) THEN 1 ELSE 0)
    /\ UNCHANGED <<hciVars, hostPC, callVars, seen, handled,
                   slTransmitDataError, inbox, patches, spontaneous>>

SpiReceiveHandler ==
    /\ readerPC = "flag" /\ readerPC' = "handle"
    /\ usEventOrDataReceived' = 1
    /\ UNCHANGED <<usRxEventOpcode, usRxDataPending, rxBuffer, hostPC,
                   callVars, seen, countVars, devVars>>

\* hci_unsolicited_event_handler; the flag is tested again, the host may
\* have been faster.
ReaderHandle ==
    /\ readerPC = "handle"
    /\ IF usEventOrDataReceived = 1 /\ rxBuffer.type = "EVNT"
          /\ UnsolHandles(rxBuffer)
       THEN UnsolEffect(rxBuffer) /\ readerPC' = "clear"
       ELSE /\ readerPC' = "idle"
            /\ UNCHANGED <<handled, slTransmitDataError>>
    /\ UNCHANGED <<hciVars, rxBuffer, hostPC, callVars, seen, arrived, devVars>>

\* Mutant: the flag is left set after an event was handled.
ReaderClear_Missing ==
    /\ readerPC = "clear" /\ readerPC' = "idle"
    /\ UNCHANGED <<hciVars, rxBuffer, hostPC, callVars, seen, countVars, devVars>>

ReaderClear ==
    /\ readerPC = "clear" /\ readerPC' = "idle"
    /\ usEventOrDataReceived' = 0
    /\ UNCHANGED <<usRxEventOpcode, usRxDataPending, rxBuffer, hostPC,
                   callVars, seen, countVars, devVars>>

Reader == ReaderRead \/ SpiReceiveHandler \/ ReaderHandle \/ ReaderClear

-----------------------------------------------------------------------------
(* The host thread.  The reader has the higher priority: the host gets the  *)
(* processor only while the reader is blocked, on its semaphore or on the   *)
(* SPI transfer.                                                            *)

HostMay(from) == hostPC = from /\ readerPC \in {"idle", "flag"}

ApiCall ==
    /\ HostMay("idle") /\ hostPC' = "write"
    /\ call < MaxCommands /\ call' = call + 1
    /\ cmd' \in IF call = 0 THEN {"START"} ELSE Opcodes \ {"START"}
    /\ UNCHANGED <<hciVars, rxBuffer, result, dataResult, seen, readerPC,
                   countVars, devVars>>

\* hci_command_send, hci_data_send: no bus window opens within a packet.
hci_command_send ==
    /\ HostMay("write") /\ hostPC' = "setOpcode"
    /\ readerPC = "idle"
    /\ inbox' = call
    /\ UNCHANGED <<hciVars, rxBuffer, callVars, seen, readerPC, countVars,
                   toHost, patches, spontaneous>>

SimpleLinkWaitEvent ==
    /\ HostMay("setOpcode") /\ hostPC' = "poll"
    /\ usRxEventOpcode' = cmd
    /\ UNCHANGED <<usEventOrDataReceived, usRxDataPending, rxBuffer, callVars,
                   seen, readerPC, countVars, devVars>>

\* Mutant: the opcode is awaited again together with the data.
SimpleLinkWaitData_AndEvent ==
    /\ HostMay("setPending") /\ hostPC' = "poll"
    /\ usRxDataPending' = 1 /\ usRxEventOpcode' = cmd
    /\ UNCHANGED <<usEventOrDataReceived, rxBuffer, callVars, seen, readerPC,
                   countVars, devVars>>

SimpleLinkWaitData ==
    /\ HostMay("setPending") /\ hostPC' = "poll"
    /\ usRxDataPending' = 1
    /\ UNCHANGED <<usEventOrDataReceived, usRxEventOpcode, rxBuffer, callVars,
                   seen, readerPC, countVars, devVars>>

\* hci_event_handler, from the test of the flag to the test for returning.
HostPoll ==
    /\ HostMay("poll") /\ hostPC' = "type"
    /\ usEventOrDataReceived = 1
    /\ UNCHANGED <<hciVars, rxBuffer, callVars, seen, readerPC, countVars,
                   devVars>>

HostReadType ==
    /\ HostMay("type")
    /\ hostPC' = IF rxBuffer.type = "EVNT" THEN "unsol" ELSE "copyData"
    /\ seen' = rxBuffer
    /\ UNCHANGED <<hciVars, rxBuffer, callVars, readerPC, countVars, devVars>>

HostUnsol ==
    /\ HostMay("unsol")
    /\ IF UnsolHandles(rxBuffer)
       THEN UnsolEffect(rxBuffer) /\ hostPC' = "match"
       ELSE /\ hostPC' = "dispatch"
            /\ UNCHANGED <<handled, slTransmitDataError>>
    /\ UNCHANGED <<hciVars, rxBuffer, callVars, seen, readerPC, arrived,
                   devVars>>

\* The case of the opcode read before, on the parameters in the buffer now.
HostDispatch ==
    /\ HostMay("dispatch") /\ hostPC' = "match"
    /\ result' = IF seen.op \in Opcodes THEN rxBuffer ELSE result
    /\ UNCHANGED <<hciVars, rxBuffer, cmd, call, dataResult, seen, readerPC,
                   countVars, devVars>>

\* Mutant: any event ends the wait.
HostMatch_Any ==
    /\ HostMay("match") /\ hostPC' = "clear"
    /\ usRxEventOpcode' = None
    /\ UNCHANGED <<usEventOrDataReceived, usRxDataPending, rxBuffer, callVars,
                   seen, readerPC, countVars, devVars>>

HostMatch ==
    /\ HostMay("match") /\ hostPC' = "clear"
    /\ usRxEventOpcode' = IF seen.op = usRxEventOpcode THEN None
                                                       ELSE usRxEventOpcode
    /\ UNCHANGED <<usEventOrDataReceived, usRxDataPending, rxBuffer, callVars,
                   seen, readerPC, countVars, devVars>>

HostCopyData ==
    /\ HostMay("copyData") /\ hostPC' = "clear"
    /\ dataResult' = rxBuffer
    /\ usRxDataPending' = 0
    /\ UNCHANGED <<usEventOrDataReceived, usRxEventOpcode, rxBuffer, cmd, call,
                   result, seen, readerPC, countVars, devVars>>

HostClear ==
    /\ HostMay("clear")
    /\ usEventOrDataReceived' = 0
    /\ hostPC' = IF seen.op = "PATCHES_REQ" /\ rxBuffer.type = "EVNT"
                 THEN "patch" ELSE "return"
    /\ UNCHANGED <<usRxEventOpcode, usRxDataPending, rxBuffer, callVars, seen,
                   readerPC, countVars, devVars>>

\* hci_unsol_handle_patch_request: no patch is registered with wlan_init, so
\* the answer is a patch of length 0, written as one frame.
HostAnswerPatch ==
    /\ HostMay("patch") /\ hostPC' = "return"
    /\ readerPC = "idle"
    /\ patches' = [left |-> patches.left - 1, open |-> FALSE]
    /\ UNCHANGED <<hciVars, rxBuffer, callVars, seen, readerPC, countVars,
                   toHost, inbox, spontaneous>>

\* hci_event_handler returns or spins on; after the event of a receive with
\* more than 0 bytes simple_link_recv waits for the data packet.
HostReturn ==
    /\ HostMay("return")
    /\ LET awaits == usRxEventOpcode # None \/ usRxDataPending = 1
           more   == seen.type = "EVNT" /\ cmd = "RECV" /\ result.tag = "more"
       IN  hostPC' = CASE awaits            -> "poll"
                       [] ~awaits /\ more  -> "setPending"
                       [] ~awaits /\ ~more -> "idle"
    /\ UNCHANGED <<hciVars, rxBuffer, callVars, seen, readerPC, countVars,
                   devVars>>

HostStep == \/ hci_command_send \/ SimpleLinkWaitEvent \/ SimpleLinkWaitData
            \/ HostPoll \/ HostReadType \/ HostUnsol \/ HostDispatch
            \/ HostMatch \/ HostCopyData \/ HostClear \/ HostAnswerPatch
            \/ HostReturn

\* All calls have returned and the device has nothing to say.
Finished == /\ hostPC = "idle" /\ call = MaxCommands
            /\ readerPC = "idle" /\ toHost = <<>> /\ inbox = 0
            /\ UNCHANGED vars

Next == \/ DevSendUnsolicited \/ DevAskPatch \/ DevRespond
        \/ Reader \/ ApiCall \/ HostStep \/ Finished

Spec == Init /\ [][Next]_vars

(* The reader runs when a packet is announced, the host thread is          *)
(* scheduled, the device answers what it was asked.                        *)
FairSpec == /\ Spec
            /\ WF_vars(Reader) /\ WF_vars(HostStep)
            /\ WF_vars(DevAskPatch \/ DevRespond)

-----------------------------------------------------------------------------
(* Invariants *)

\* Type invariant of the HCI layer.
TypeOK == /\ usEventOrDataReceived \in {0, 1} /\ usRxDataPending \in {0, 1}
          /\ usRxEventOpcode \in Opcodes \cup {None}
          /\ {rxBuffer, seen, result, dataResult} \subseteq Packets
          /\ hostPC \in HostPCs /\ readerPC \in ReaderPCs
          /\ cmd \in Opcodes /\ call \in Nat /\ inbox \in Nat
          /\ spontaneous \in Nat
          /\ handled \in Nat /\ arrived \in Nat
          /\ slTransmitDataError \in BOOLEAN
          /\ toHost \in Seq(Packets)
          /\ patches \in [left : Nat, open : BOOLEAN]

\* A call that returns has copied the event that answers it, and after a
\* receive the data packet that belongs to that event; nothing of an earlier
\* call is left over.
ResultMatches ==
    hostPC = "idle" /\ call > 0 =>
        /\ result.op = cmd /\ result.id = call
        /\ cmd = "RECV" /\ result.tag = "more" => dataResult = Data(call)
        /\ usRxEventOpcode = None /\ usRxDataPending = 0

\* Every unsolicited event is acted upon once, by the reader or by the host
\* but not by both (FREE_BUFF counts buffers, the others call the user).
HandledOnce ==
    handled = arrived - (IF /\ readerPC \in {"flag", "handle"}
                            /\ IsUnsolicited(rxBuffer)
                         THEN 1 ELSE 0)

\* A data packet is copied only into the buffer of the receive it answers:
\* never over the parameters of the event wait.
DataIntoDataBuffer ==
    hostPC = "copyData" => /\ usRxEventOpcode = None /\ usRxDataPending = 1
                           /\ rxBuffer = Data(call)

\* The states of the HCI layer are of their types, and data goes where data is
\* awaited.
Inv == TypeOK /\ DataIntoDataBuffer

-----------------------------------------------------------------------------
(* Refinement *)

\* The device has executed the call when it answers; the call has returned
\* when the host spins no more.
Phase == IF hostPC = "idle" THEN "idle"
         ELSE IF hostPC = "write" \/ inbox # 0 THEN "asked" ELSE "executed"

\* What the caller has in its two buffers.
Reply == LET more == cmd = "RECV" /\ result.tag = "more"
         IN  IF hostPC = "idle" /\ call > 0
             THEN [op |-> result.op, id |-> result.id, more |-> more,
                   data |-> IF more THEN dataResult.id ELSE 0]
             ELSE [op |-> "none", id |-> 0, more |-> FALSE, data |-> 0]

Service == INSTANCE CommandService WITH phase <- Phase, reply <- Reply,
                                        unhandled <- arrived - handled

\* Buffer, flag and awaited opcode give the API functions one command at a time,
\* executed once and answered with its own event and data, whatever events and
\* patch requests come between (hci.c:65-119, evnt_handler.c:226-842).
ImplementsService == Service!Spec

-----------------------------------------------------------------------------
(* Liveness *)

\* Every API call returns, whatever events and patch requests come between,
\* but for a send that the device refuses with status -57.
CallReturns ==
    (hostPC = "write") ~> (hostPC = "idle" \/ slTransmitDataError)

\* simple_link_send: the call returns, with the length or with an error.
SendReturns == (hostPC = "write" /\ cmd = "SEND") ~> (hostPC = "idle")
==============================================================================
