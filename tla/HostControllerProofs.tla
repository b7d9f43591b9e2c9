------------------------- MODULE HostControllerProofs -------------------------
(***************************************************************************)
(* Proofs about HostController, for any number of calls, unsolicited       *)
(* events and patch requests, and a device that keeps the pace the driver  *)
(* relies on (Paced): without it the reader overwrites packets the host    *)
(* has not taken, and none of this holds.                                  *)
(*                                                                         *)
(* A call is answered by one event.  At any time it is in one place: in    *)
(* the device, on its way, or in the buffer; and it is there only while    *)
(* the host awaits it.  The data of a receive comes after its event and    *)
(* stays on its way until the host awaits the data.                        *)
(***************************************************************************)
EXTENDS HostController, SequenceTheorems, TLAPS

Spontaneous == {"UNSOLICITED", "UNKNOWN", "PATCHES_REQ"}

\* The event that answers the call in progress.
IsAnswer(p) == /\ p.type = "EVNT" /\ p.op = cmd /\ p.id = call
               /\ p.tag = "more" => cmd = "RECV"

\* What is on its way: events of the device, the answer, and its data.
EventOnWay == \E i \in 1..Len(toHost) : toHost[i].op \in Opcodes
DataOnWay  == \E i \in 1..Len(toHost) : toHost[i].type = "DATA"
PatchOnWay == \E i \in 1..Len(toHost) : toHost[i].op = "PATCHES_REQ"

QueueInv ==
    /\ \A i \in 1..Len(toHost) :
         \/ toHost[i].type = "EVNT" /\ toHost[i].op \in Spontaneous
         \/ IsAnswer(toHost[i])
         \/ toHost[i] = Data(call) /\ cmd = "RECV"
    /\ \A i, j \in 1..Len(toHost) :
         /\ toHost[i].op \in Opcodes /\ toHost[j].op \in Opcodes => i = j
         /\ toHost[i].type = "DATA" /\ toHost[j].type = "DATA" => i = j
         /\ toHost[i].op \in Opcodes /\ toHost[j].type = "DATA" => i < j
         /\ toHost[i].op = "PATCHES_REQ" /\ toHost[j].op = "PATCHES_REQ" => i = j
    /\ \A i \in 1..Len(toHost) :
         toHost[i].op \in Opcodes => (toHost[i].tag = "more" <=> DataOnWay)

\* The reader and the host do not use the buffer at the same time.
SyncInv ==
    /\ HostTaking => readerPC = "idle"
    /\ hostPC \in {"type", "unsol", "dispatch", "match", "copyData", "clear"}
           => usEventOrDataReceived = 1
    /\ hostPC = "patch" => usEventOrDataReceived = 0
    /\ readerPC \in {"handle", "clear"} => usEventOrDataReceived = 1
    /\ readerPC = "flag" /\ usEventOrDataReceived = 1 => hostPC \in {"idle", "write"}
    /\ hostPC \in {"unsol", "dispatch", "match", "copyData", "clear"}
           => seen = rxBuffer
    /\ hostPC = "copyData" => seen.type = "DATA"
    /\ hostPC \in {"unsol", "dispatch", "match", "patch"} => seen.type = "EVNT"

\* The answer is open, or the host has taken it.
Unanswered == hostPC = "setOpcode" \/ usRxEventOpcode # None
Answered   == hostPC \notin {"idle", "write"} /\ ~Unanswered

WaitInv ==
    /\ usRxEventOpcode # None =>
           usRxEventOpcode = cmd /\ hostPC \notin {"idle", "write", "setOpcode"}
    /\ usRxDataPending = 1 => Answered /\ cmd = "RECV" /\ result.tag = "more"
    /\ hostPC = "setPending" =>
           Answered /\ usRxDataPending = 0 /\ cmd = "RECV" /\ result.tag = "more"
    /\ Answered => result.op = cmd /\ result.id = call
    /\ hostPC \in {"match", "clear"} /\ seen.op \in Opcodes => result = seen
    /\ hostPC = "clear" /\ seen.op \in Opcodes => usRxEventOpcode = None

\* What is in the buffer, until it is taken.
Held        == readerPC # "idle" \/ usEventOrDataReceived = 1
EventInHand == Held /\ readerPC # "clear" /\ rxBuffer.op \in Opcodes
DataTaken   == hostPC \in {"clear", "return"} /\ seen.type = "DATA"

BufferInv ==
    /\ Held => \/ rxBuffer.type = "DATA" /\ rxBuffer.op = None
               \/ rxBuffer.type = "EVNT" /\ rxBuffer.op \in Spontaneous
               \/ IsAnswer(rxBuffer)
    /\ usEventOrDataReceived = 1 /\ readerPC = "idle" =>
           rxBuffer.op # "UNSOLICITED" /\ ~SendInactive(rxBuffer)

AnswerInv ==
    /\ inbox # 0 => /\ inbox = call /\ Unanswered
                    /\ ~EventOnWay /\ ~DataOnWay /\ ~EventInHand
    /\ EventOnWay => Unanswered /\ ~EventInHand
    /\ EventInHand => /\ usRxEventOpcode = cmd \/ hostPC = "clear"
                      /\ rxBuffer.tag = "more" <=> DataOnWay
    /\ DataOnWay => \/ EventOnWay \/ EventInHand
                    \/ Answered /\ cmd = "RECV" /\ result.tag = "more"
    /\ Held /\ rxBuffer.type = "DATA" =>
           /\ ~DataOnWay /\ rxBuffer = Data(call)
           /\ usRxDataPending = 1 \/ hostPC = "clear"
    /\ DataTaken => /\ ~DataOnWay /\ Answered /\ usRxDataPending = 0
                    /\ dataResult = Data(call)

\* At most one patch request is open, and it is in one place.
PatchInv ==
    LET inHand == Held /\ rxBuffer.op = "PATCHES_REQ"
        taken  == hostPC = "patch"
    IN  /\ PatchOnWay \/ inHand \/ taken => patches.open /\ patches.left > 0
        /\ ~(PatchOnWay /\ inHand) /\ ~(PatchOnWay /\ taken) /\ ~(inHand /\ taken)

IInv == /\ TypeOK /\ QueueInv /\ SyncInv /\ WaitInv /\ BufferInv /\ AnswerInv
        /\ PatchInv /\ HandledOnce /\ ResultMatches

-----------------------------------------------------------------------------
(* Packets and the queue of them.                                          *)

\* The packets that are built are packets.
LEMMA PacketTypes ==
    /\ \A op \in EventOps, id \in Nat, tag \in Tags : Event(op, id, tag) \in Packets
    /\ \A id \in Nat : Data(id) \in Packets
    /\ NoPacket \in Packets
BY DEF Event, Data, NoPacket, Packets, EventOps, Opcodes, Tags

\* A packet is put behind those on their way.
LEMMA Queued ==
    ASSUME NEW q \in Seq(Packets), NEW p \in Packets
    PROVE  /\ Append(q, p) \in Seq(Packets) /\ Len(q) \in Nat
           /\ Len(Append(q, p)) = Len(q) + 1
           /\ Append(q, p)[Len(q) + 1] = p
           /\ \A i \in 1..Len(q) : Append(q, p)[i] = q[i]
OBVIOUS

\* The first packet is taken, the others move up.
LEMMA Dequeued ==
    ASSUME NEW q \in Seq(Packets), q # <<>>
    PROVE  /\ Head(q) = q[1] /\ Head(q) \in Packets /\ 1 \in 1..Len(q)
           /\ Tail(q) \in Seq(Packets) /\ Len(Tail(q)) = Len(q) - 1
           /\ \A i \in 1..Len(Tail(q)) : Tail(q)[i] = q[i + 1] /\ i + 1 \in 2..Len(q)
           /\ \A i \in 2..Len(q) : q[i] = Tail(q)[i - 1] /\ i - 1 \in 1..Len(Tail(q))
<1>1. Len(q) \in Nat /\ Len(q) # 0
  OBVIOUS
<1>2. Tail(q) \in Seq(Packets) /\ Len(Tail(q)) = Len(q) - 1
  BY <1>1
<1>3. \A i \in 1..Len(Tail(q)) : Tail(q)[i] = q[i + 1]
  BY <1>1, <1>2
<1>4. \A i \in 1..Len(Tail(q)) : i + 1 \in 2..Len(q)
  BY <1>1, <1>2
<1>5. \A i \in 2..Len(q) : i - 1 \in 1..Len(Tail(q)) /\ (i - 1) + 1 = i
  BY <1>1, <1>2
<1>6. \A i \in 2..Len(q) : q[i] = Tail(q)[i - 1] /\ i - 1 \in 1..Len(Tail(q))
  BY <1>3, <1>5
<1>7. QED
  BY <1>1, <1>2, <1>3, <1>4, <1>6

\* The kinds of packets exclude each other.
LEMMA Kinds ==
    /\ \A p : IsAnswer(p) /\ cmd \in Opcodes => p.op \in Opcodes
    /\ None \notin Opcodes /\ \A op \in Spontaneous : op \notin Opcodes /\ op # None
    /\ \A id : Data(id).type = "DATA" /\ Data(id).op = None /\ Data(id).id = id
BY DEF IsAnswer, Opcodes, Spontaneous, None, Data

-----------------------------------------------------------------------------
(* Types, and the turns of reader and host.                                *)

\* What acting upon an unsolicited event counts and records.
LEMMA EffectTypes ==
    ASSUME NEW p, handled \in Nat, slTransmitDataError \in BOOLEAN, UnsolEffect(p)
    PROVE  handled' \in Nat /\ slTransmitDataError' \in BOOLEAN
<1>1. handled' \in Nat
  BY DEF UnsolEffect
<1>2. slTransmitDataError' = TRUE \/ slTransmitDataError' = FALSE
  BY Zenon DEF UnsolEffect
<1>3. QED
  BY <1>1, <1>2

\* Every step keeps the types.
LEMMA TypeStep ==
    ASSUME TypeOK, PatchInv, Next
    PROVE  TypeOK'
<1> USE DEF TypeOK, hciVars, callVars, countVars, devVars
<1>1. CASE DevSendUnsolicited
  <2>1. PICK op \in {"UNSOLICITED", "UNKNOWN"} :
            toHost' = Append(toHost, Event(op, 0, "ok"))
    BY <1>1 DEF DevSendUnsolicited
  <2>2. Event(op, 0, "ok") \in Packets
    BY PacketTypes DEF EventOps, Tags
  <2>3. toHost' \in Seq(Packets)
    BY <2>1, <2>2, Queued
  <2>4. QED
    BY <1>1, <2>3 DEF DevSendUnsolicited
<1>2. CASE DevAskPatch
  <2>1. Event("PATCHES_REQ", 0, "ok") \in Packets
    BY PacketTypes DEF EventOps, Tags
  <2>2. toHost' \in Seq(Packets)
    BY <1>2, <2>1, Queued DEF DevAskPatch
  <2>3. patches' \in [left : Nat, open : BOOLEAN]
    BY <1>2 DEF DevAskPatch
  <2>4. QED
    BY <1>2, <2>2, <2>3 DEF DevAskPatch
<1>3. CASE DevRespond
  <2>1. /\ \A tag \in Tags : Event(cmd, inbox, tag) \in Packets
        /\ Data(inbox) \in Packets
    BY PacketTypes DEF EventOps
  <2>2. toHost \o <<Event(cmd, inbox, "more"), Data(inbox)>> \in Seq(Packets)
    BY <2>1 DEF Tags
  <2>3. toHost' \in Seq(Packets)
    <3>1. \A tag \in {"ok", "inactive"} :
              Append(toHost, Event(cmd, inbox, tag)) \in Seq(Packets)
      BY <2>1, Queued DEF Tags
    <3>2. QED
      BY <1>3, <2>2, <3>1 DEF DevRespond
  <2>4. QED
    BY <1>3, <2>3 DEF DevRespond
<1>4. CASE ReaderRead
  <2>1. Head(toHost) \in Packets /\ Tail(toHost) \in Seq(Packets)
    BY <1>4, Dequeued DEF ReaderRead
  <2>2. arrived' \in Nat
    BY <1>4 DEF ReaderRead
  <2>3. QED
    BY <1>4, <2>1, <2>2 DEF ReaderRead, ReaderPCs
<1>5. CASE SpiReceiveHandler \/ ReaderClear
  BY <1>5 DEF SpiReceiveHandler, ReaderClear, ReaderPCs
<1>6. CASE ReaderHandle
  <2>1. handled' \in Nat /\ slTransmitDataError' \in BOOLEAN
    BY <1>6, EffectTypes DEF ReaderHandle
  <2>2. QED
    BY <1>6, <2>1 DEF ReaderHandle, ReaderPCs
<1>7. CASE ApiCall
  BY <1>7 DEF ApiCall, HostPCs, Opcodes
<1>8. CASE hci_command_send
  BY <1>8 DEF hci_command_send, HostPCs
<1>9. CASE HostUnsol
  <2>1. handled' \in Nat /\ slTransmitDataError' \in BOOLEAN
    BY <1>9, EffectTypes DEF HostUnsol
  <2>2. QED
    BY <1>9, <2>1 DEF HostUnsol, HostPCs
<1>10. CASE HostAnswerPatch
  <2>1. patches.left > 0 /\ patches.left \in Nat
    BY <1>10 DEF HostAnswerPatch, HostMay, PatchInv
  <2>2. patches' \in [left : Nat, open : BOOLEAN]
    BY <1>10, <2>1 DEF HostAnswerPatch
  <2>3. QED
    BY <1>10, <2>2 DEF HostAnswerPatch, HostPCs
<1>11. CASE SimpleLinkWaitEvent \/ SimpleLinkWaitData \/ HostPoll \/ HostReadType
  BY <1>11 DEF SimpleLinkWaitEvent, SimpleLinkWaitData, HostPoll, HostReadType,
               HostPCs
<1>12. CASE HostDispatch \/ HostMatch \/ HostCopyData
  BY <1>12 DEF HostDispatch, HostMatch, HostCopyData, HostPCs
<1>13. CASE HostClear
  BY <1>13 DEF HostClear, HostPCs
<1>14. CASE HostReturn
  BY <1>14 DEF HostReturn, HostPCs
<1>15. CASE Finished
  BY <1>15 DEF Finished, vars
<1>16. QED
  BY <1>1, <1>2, <1>3, <1>4, <1>5, <1>6, <1>7, <1>8, <1>9, <1>10, <1>11, <1>12,
     <1>13, <1>14, <1>15 DEF Next, Reader, HostStep

\* Every step keeps the turns.
LEMMA SyncStep ==
    ASSUME Paced, TypeOK, SyncInv, BufferInv, AnswerInv, Next
    PROVE  SyncInv'
<1> USE DEF SyncInv, HostTaking, hciVars, callVars, countVars, devVars
<1>1. CASE DevSendUnsolicited \/ DevAskPatch \/ DevRespond
  BY <1>1 DEF DevSendUnsolicited, DevAskPatch, DevRespond
<1>2. CASE ReaderRead
  BY <1>2 DEF ReaderRead, DeviceWaits
<1>3. CASE SpiReceiveHandler
  BY <1>3 DEF SpiReceiveHandler, TypeOK
<1>4. CASE ReaderHandle
  BY <1>4 DEF ReaderHandle
<1>5. CASE ReaderClear
  BY <1>5 DEF ReaderClear
<1>6. CASE ApiCall \/ hci_command_send \/ SimpleLinkWaitEvent \/ SimpleLinkWaitData
  BY <1>6 DEF ApiCall, hci_command_send, SimpleLinkWaitEvent, SimpleLinkWaitData,
              HostMay
<1>7. CASE HostPoll
  BY <1>7 DEF HostPoll, HostMay
<1>8. CASE HostReadType
  <2>1. rxBuffer.type \in {"EVNT", "DATA"}
    BY DEF TypeOK, Packets
  <2>2. QED
    BY <1>8, <2>1 DEF HostReadType, HostMay
<1>9. CASE HostUnsol \/ HostDispatch \/ HostMatch \/ HostCopyData
  BY <1>9 DEF HostUnsol, HostDispatch, HostMatch, HostCopyData, HostMay
<1>10. CASE HostClear
  BY <1>10 DEF HostClear, HostMay
<1>11. CASE HostAnswerPatch \/ HostReturn
  BY <1>11 DEF HostAnswerPatch, HostReturn, HostMay
<1>12. CASE Finished
  BY <1>12 DEF Finished, vars
<1>13. QED
  BY <1>1, <1>2, <1>3, <1>4, <1>5, <1>6, <1>7, <1>8, <1>9, <1>10, <1>11, <1>12
     DEF Next, Reader, HostStep

\* Every unsolicited event is acted upon once: by the reader, so that the host
\* finds none in the buffer.
LEMMA HandledStep ==
    ASSUME TypeOK, SyncInv, BufferInv, HandledOnce, Next
    PROVE  HandledOnce'
<1> USE DEF HandledOnce, hciVars, callVars, countVars, devVars
<1>a. handled \in Nat /\ arrived \in Nat
  BY DEF TypeOK
<1>1. CASE DevSendUnsolicited \/ DevAskPatch \/ DevRespond
  BY <1>1 DEF DevSendUnsolicited, DevAskPatch, DevRespond
<1>2. CASE ReaderRead
  BY <1>2, <1>a DEF ReaderRead
<1>3. CASE SpiReceiveHandler \/ ReaderClear
  BY <1>3, <1>a DEF SpiReceiveHandler, ReaderClear
<1>4. CASE ReaderHandle
  <2>1. readerPC = "handle" /\ usEventOrDataReceived = 1
    BY <1>4 DEF ReaderHandle, SyncInv
  <2>2. IsUnsolicited(rxBuffer) <=> rxBuffer.type = "EVNT" /\ UnsolHandles(rxBuffer)
                                    /\ rxBuffer.op = "UNSOLICITED"
    BY DEF IsUnsolicited, UnsolHandles
  <2>3. QED
    BY <1>4, <1>a, <2>1, <2>2 DEF ReaderHandle, UnsolEffect
<1>5. CASE HostUnsol
  <2>1. rxBuffer.op # "UNSOLICITED"
    BY <1>5 DEF HostUnsol, HostMay, SyncInv, HostTaking, BufferInv
  <2>2. handled' = handled
    BY <1>5, <1>a, <2>1 DEF HostUnsol, UnsolEffect
  <2>3. QED
    BY <1>5, <2>2 DEF HostUnsol
<1>6. CASE ApiCall \/ hci_command_send \/ SimpleLinkWaitEvent \/ SimpleLinkWaitData
  BY <1>6 DEF ApiCall, hci_command_send, SimpleLinkWaitEvent, SimpleLinkWaitData
<1>7. CASE HostPoll \/ HostReadType \/ HostDispatch \/ HostMatch \/ HostCopyData
  BY <1>7 DEF HostPoll, HostReadType, HostDispatch, HostMatch, HostCopyData
<1>8. CASE HostClear \/ HostAnswerPatch \/ HostReturn
  BY <1>8 DEF HostClear, HostAnswerPatch, HostReturn
<1>9. CASE Finished
  BY <1>9 DEF Finished, vars
<1>10. QED
  BY <1>1, <1>2, <1>3, <1>4, <1>5, <1>6, <1>7, <1>8, <1>9 DEF Next, Reader, HostStep

-----------------------------------------------------------------------------
(* The buffer and the event awaited.                                       *)

\* The reader hands over, and drops, only what the host must not see: an event
\* that answers the call in progress is awaited while it is in the buffer.
LEMMA Handing ==
    ASSUME TypeOK, SyncInv, WaitInv, BufferInv, AnswerInv, Held, readerPC # "clear",
           hostPC # "clear", rxBuffer.op \in Opcodes
    PROVE  /\ IsAnswer(rxBuffer) /\ usRxEventOpcode = cmd /\ rxBuffer.op = cmd
           /\ usRxEventOpcode # None /\ Unanswered /\ ~Answered
           /\ hostPC \notin {"idle", "write", "setOpcode"}
           /\ UnsolHandles(rxBuffer) => SendInactive(rxBuffer) /\ rxBuffer.tag # "more"
<1>1. rxBuffer.op # None /\ rxBuffer.op \notin Spontaneous
  BY Kinds
<1>2. IsAnswer(rxBuffer)
  BY <1>1 DEF BufferInv
<1>3. usRxEventOpcode = cmd /\ cmd # None
  BY Kinds DEF AnswerInv, EventInHand, TypeOK
<1>4. rxBuffer.op = cmd
  BY <1>2 DEF IsAnswer
<1>5. hostPC \notin {"idle", "write", "setOpcode"}
  BY <1>3 DEF WaitInv
<1>6. UnsolHandles(rxBuffer) => SendInactive(rxBuffer) /\ rxBuffer.tag # "more"
  BY <1>1, <1>3, <1>4 DEF UnsolHandles, SendInactive, Spontaneous
<1>7. QED
  BY <1>2, <1>3, <1>4, <1>5, <1>6 DEF Unanswered, Answered

\* Before a call is sent nothing of an earlier one is left.
LEMMA Resting ==
    ASSUME TypeOK, SyncInv, WaitInv, BufferInv, AnswerInv, hostPC \in {"idle", "write"}
    PROVE  /\ usRxEventOpcode = None /\ usRxDataPending = 0 /\ inbox = 0
           /\ ~EventOnWay /\ ~DataOnWay /\ ~EventInHand
           /\ ~(Held /\ rxBuffer.type = "DATA") /\ ~Unanswered /\ ~Answered
<1>1. usRxEventOpcode = None /\ ~Unanswered /\ ~Answered
  BY DEF WaitInv, Unanswered, Answered
<1>2. usRxDataPending = 0
  BY <1>1 DEF WaitInv, TypeOK
<1>3. cmd # None
  BY Kinds DEF TypeOK
<1>4. ~EventInHand
  BY <1>1, <1>3 DEF AnswerInv
<1>5. inbox = 0 /\ ~EventOnWay
  BY <1>1 DEF AnswerInv
<1>6. ~DataOnWay
  BY <1>1, <1>4, <1>5 DEF AnswerInv
<1>7. ~(Held /\ rxBuffer.type = "DATA")
  BY <1>2 DEF AnswerInv
<1>8. QED
  BY <1>1, <1>2, <1>4, <1>5, <1>6, <1>7

\* While the host takes a packet it is the one in the buffer, and no event that
\* hci_unsol_event_handler would drop or act upon.
LEMMA Taking ==
    ASSUME TypeOK, SyncInv, WaitInv, BufferInv, AnswerInv,
           hostPC \in {"type", "unsol", "dispatch", "match", "copyData", "clear"}
    PROVE  /\ Held /\ readerPC = "idle"
           /\ hostPC # "type" => seen = rxBuffer
           /\ rxBuffer.type \in {"EVNT", "DATA"}
           /\ hostPC # "clear" /\ rxBuffer.type = "EVNT" => ~UnsolHandles(rxBuffer)
           /\ rxBuffer.type = "EVNT" => rxBuffer.op # None
<1>1. Held /\ readerPC = "idle" /\ usEventOrDataReceived = 1
  BY DEF SyncInv, Held, HostTaking
<1>2. rxBuffer.type \in {"EVNT", "DATA"} /\ rxBuffer.op \in EventOps \cup {None}
  BY DEF TypeOK, Packets
<1>3. rxBuffer.op # "UNSOLICITED" /\ ~SendInactive(rxBuffer)
  BY <1>1 DEF BufferInv
<1>4. rxBuffer.type = "EVNT" => rxBuffer.op # None
  BY <1>1, Kinds DEF BufferInv, TypeOK, IsAnswer
<1>5. rxBuffer.op \in Opcodes /\ hostPC # "clear" => rxBuffer.op = usRxEventOpcode
  BY <1>1, Handing
<1>6. hostPC # "clear" /\ rxBuffer.type = "EVNT" => ~UnsolHandles(rxBuffer)
  BY <1>2, <1>3, <1>4, <1>5 DEF UnsolHandles, EventOps
<1>7. QED
  BY <1>1, <1>2, <1>4, <1>6 DEF SyncInv

\* Every step keeps what is awaited in step with what was received.
LEMMA WaitStep ==
    ASSUME TypeOK, SyncInv, WaitInv, BufferInv, AnswerInv, Next
    PROVE  WaitInv'
<1> USE DEF WaitInv, Answered, Unanswered, hciVars, callVars, countVars, devVars
<1>1. CASE DevSendUnsolicited \/ DevAskPatch \/ DevRespond
  BY <1>1 DEF DevSendUnsolicited, DevAskPatch, DevRespond
<1>2. CASE ReaderRead \/ SpiReceiveHandler \/ ReaderHandle \/ ReaderClear
  BY <1>2 DEF ReaderRead, SpiReceiveHandler, ReaderHandle, ReaderClear
<1>3. CASE ApiCall
  <2>1. usRxEventOpcode = None /\ usRxDataPending = 0
    BY <1>3, Resting DEF ApiCall, HostMay
  <2>2. QED
    BY <1>3, <2>1 DEF ApiCall, HostMay
<1>4. CASE hci_command_send
  <2>1. usRxEventOpcode = None /\ usRxDataPending = 0
    BY <1>4, Resting DEF hci_command_send, HostMay
  <2>2. QED
    BY <1>4, <2>1 DEF hci_command_send, HostMay
<1>5. CASE SimpleLinkWaitEvent
  <2>1. cmd # None
    BY Kinds DEF TypeOK
  <2>2. usRxDataPending # 1
    BY <1>5 DEF SimpleLinkWaitEvent, HostMay
  <2>3. QED
    BY <1>5, <2>1, <2>2 DEF SimpleLinkWaitEvent, HostMay
<1>6. CASE SimpleLinkWaitData
  BY <1>6 DEF SimpleLinkWaitData, HostMay
<1>7. CASE HostPoll \/ HostReadType
  BY <1>7 DEF HostPoll, HostReadType, HostMay
<1>8. CASE HostUnsol
  <2>1. hostPC' = "dispatch"
    BY <1>8, Taking DEF HostUnsol, HostMay, SyncInv
  <2>2. QED
    BY <1>8, <2>1 DEF HostUnsol, HostMay
<1>9. CASE HostDispatch
  <2>1. hostPC = "dispatch" /\ Held /\ readerPC = "idle" /\ seen = rxBuffer
    BY <1>9, Taking DEF HostDispatch, HostMay
  <2>2. CASE seen.op \in Opcodes
    <3>1. usRxEventOpcode # None
      BY <2>1, <2>2, Handing
    <3>2. result' = seen'
      BY <1>9, <2>1, <2>2 DEF HostDispatch
    <3>3. usRxDataPending # 1
      BY <3>1
    <3>4. QED
      BY <1>9, <2>1, <3>1, <3>2, <3>3 DEF HostDispatch
  <2>3. CASE seen.op \notin Opcodes
    BY <1>9, <2>1, <2>3 DEF HostDispatch
  <2>4. QED
    BY <2>2, <2>3
<1>10. CASE HostMatch
  <2>1. hostPC = "match" /\ Held /\ readerPC = "idle" /\ seen = rxBuffer
        /\ seen.type = "EVNT" /\ seen.op # None
    BY <1>10, Taking DEF HostMatch, HostMay, SyncInv
  <2>2. CASE seen.op \in Opcodes
    <3>1. IsAnswer(seen) /\ usRxEventOpcode = cmd /\ seen.op = cmd /\ result = seen
      BY <2>1, <2>2, Handing
    <3>2. usRxEventOpcode' = None /\ usRxDataPending # 1
      BY <1>10, <2>2, <3>1, Kinds DEF HostMatch
    <3>3. result'.op = cmd' /\ result'.id = call'
      BY <1>10, <3>1 DEF HostMatch, IsAnswer
    <3>4. QED
      BY <1>10, <2>1, <3>1, <3>2, <3>3 DEF HostMatch
  <2>3. CASE seen.op \notin Opcodes
    <3>1. usRxEventOpcode' = usRxEventOpcode
      BY <1>10, <2>1, <2>3 DEF HostMatch, TypeOK
    <3>2. QED
      BY <1>10, <2>1, <2>3, <3>1 DEF HostMatch
  <2>4. QED
    BY <2>2, <2>3
<1>11. CASE HostCopyData
  <2>1. seen = rxBuffer /\ seen.type = "DATA" /\ Held
    BY <1>11, Taking DEF HostCopyData, HostMay, SyncInv
  <2>2. seen.op = None
    BY <2>1, Kinds DEF AnswerInv
  <2>3. QED
    BY <1>11, <2>2, Kinds DEF HostCopyData, HostMay
<1>12. CASE HostClear
  BY <1>12 DEF HostClear, HostMay
<1>13. CASE HostAnswerPatch
  BY <1>13 DEF HostAnswerPatch, HostMay
<1>14. CASE HostReturn
  <2>1. usRxDataPending \in {0, 1}
    BY DEF TypeOK
  <2>2. QED
    BY <1>14, <2>1 DEF HostReturn, HostMay
<1>15. CASE Finished
  BY <1>15 DEF Finished, vars
<1>16. QED
  BY <1>1, <1>2, <1>3, <1>4, <1>5, <1>6, <1>7, <1>8, <1>9, <1>10, <1>11, <1>12,
     <1>13, <1>14, <1>15 DEF Next, Reader, HostStep

\* Every call returns with its own results.
LEMMA ResultStep ==
    ASSUME TypeOK, WaitInv, AnswerInv, ResultMatches, Next
    PROVE  ResultMatches'
<1> USE DEF ResultMatches, hciVars, callVars, countVars, devVars
<1>1. CASE DevSendUnsolicited \/ DevAskPatch \/ DevRespond
  BY <1>1 DEF DevSendUnsolicited, DevAskPatch, DevRespond, Data
<1>2. CASE ReaderRead \/ SpiReceiveHandler \/ ReaderHandle \/ ReaderClear
  BY <1>2 DEF ReaderRead, SpiReceiveHandler, ReaderHandle, ReaderClear, Data
<1>3. CASE ApiCall \/ hci_command_send \/ SimpleLinkWaitEvent \/ SimpleLinkWaitData
  BY <1>3 DEF ApiCall, hci_command_send, SimpleLinkWaitEvent, SimpleLinkWaitData,
              HostMay
<1>4. CASE HostPoll \/ HostReadType \/ HostUnsol \/ HostDispatch \/ HostMatch
  BY <1>4 DEF HostPoll, HostReadType, HostUnsol, HostDispatch, HostMatch, HostMay
<1>5. CASE HostCopyData \/ HostClear \/ HostAnswerPatch
  BY <1>5 DEF HostCopyData, HostClear, HostAnswerPatch, HostMay
<1>6. CASE HostReturn
  <2>1. CASE hostPC' = "idle"
    <3>1. /\ hostPC = "return" /\ usRxEventOpcode = None /\ usRxDataPending # 1
          /\ ~(seen.type = "EVNT" /\ cmd = "RECV" /\ result.tag = "more")
      BY <1>6, <2>1 DEF HostReturn, HostMay
    <3>2. usRxDataPending = 0 /\ seen.type \in {"EVNT", "DATA"}
      BY <3>1 DEF TypeOK, Packets
    <3>3. Answered /\ result.op = cmd /\ result.id = call
      BY <3>1 DEF Answered, Unanswered, WaitInv
    <3>4. cmd = "RECV" /\ result.tag = "more" => dataResult = Data(call)
      BY <3>1, <3>2 DEF AnswerInv, DataTaken
    <3>5. QED
      BY <1>6, <3>1, <3>2, <3>3, <3>4 DEF HostReturn, Data
  <2>2. QED
    BY <2>1
<1>7. CASE Finished
  BY <1>7 DEF Finished, vars, Data
<1>8. QED
  BY <1>1, <1>2, <1>3, <1>4, <1>5, <1>6, <1>7 DEF Next, Reader, HostStep

-----------------------------------------------------------------------------
(* What is on its way: the four steps that change it.                      *)

\* The queue as it is keeps what is on its way.
LEMMA OnWaySame ==
    ASSUME UNCHANGED toHost
    PROVE  (EventOnWay' <=> EventOnWay) /\ (DataOnWay' <=> DataOnWay)
           /\ (PatchOnWay' <=> PatchOnWay)
BY DEF EventOnWay, DataOnWay, PatchOnWay

\* An event the device sends on its own joins the queue.
LEMMA SentOnItsOwn ==
    ASSUME TypeOK, QueueInv, NEW p \in Packets, p.type = "EVNT", p.op \in Spontaneous,
           p.op = "PATCHES_REQ" => ~PatchOnWay,
           toHost' = Append(toHost, p), UNCHANGED <<cmd, call>>
    PROVE  /\ QueueInv'
           /\ EventOnWay' <=> EventOnWay
           /\ DataOnWay' <=> DataOnWay
           /\ PatchOnWay' <=> PatchOnWay \/ p.op = "PATCHES_REQ"
<1> DEFINE n == Len(toHost)
<1>1. /\ n \in Nat /\ Len(toHost') = n + 1 /\ toHost'[n + 1] = p
      /\ \A i \in 1..n : toHost'[i] = toHost[i]
  BY Queued DEF TypeOK
<1>2. 1..Len(toHost') = (1..n) \cup {n + 1} /\ n + 1 \notin 1..n
  BY <1>1
<1>3. p.op \notin Opcodes /\ p.type # "DATA"
  BY Kinds
<1> HIDE DEF n
<1>4. EventOnWay' <=> EventOnWay
  BY <1>1, <1>2, <1>3 DEF EventOnWay, n
<1>5. DataOnWay' <=> DataOnWay
  BY <1>1, <1>2, <1>3 DEF DataOnWay, n
<1>6. PatchOnWay' <=> PatchOnWay \/ p.op = "PATCHES_REQ"
  BY <1>1, <1>2 DEF PatchOnWay, n
<1>7. QueueInv'
  <2>1. \A i \in 1..Len(toHost') :
         \/ toHost'[i].type = "EVNT" /\ toHost'[i].op \in Spontaneous
         \/ IsAnswer(toHost[i])' /\ toHost'[i] = toHost[i]
         \/ toHost'[i] = Data(call') /\ cmd' = "RECV"
    BY <1>1, <1>2 DEF QueueInv, n, IsAnswer
  <2>2. \A i \in 1..Len(toHost') :
         \/ toHost'[i].type = "EVNT" /\ toHost'[i].op \in Spontaneous
         \/ IsAnswer(toHost[i])'
         \/ toHost'[i] = Data(call') /\ cmd' = "RECV"
    BY <2>1
  <2>3. \A i, j \in 1..Len(toHost') :
         /\ toHost'[i].op \in Opcodes /\ toHost'[j].op \in Opcodes => i = j
         /\ toHost'[i].type = "DATA" /\ toHost'[j].type = "DATA" => i = j
         /\ toHost'[i].op \in Opcodes /\ toHost'[j].type = "DATA" => i < j
    BY <1>1, <1>2, <1>3 DEF QueueInv, n
  <2>4. \A i, j \in 1..Len(toHost') :
            toHost'[i].op = "PATCHES_REQ" /\ toHost'[j].op = "PATCHES_REQ" => i = j
    BY <1>1, <1>2 DEF QueueInv, PatchOnWay, n
  <2>5. \A i \in 1..Len(toHost') :
            toHost'[i].op \in Opcodes => (toHost'[i].tag = "more" <=> DataOnWay')
    BY <1>1, <1>2, <1>3, <1>5 DEF QueueInv, n
  <2>6. QED
    BY <2>1, <2>3, <2>4, <2>5 DEF QueueInv, IsAnswer
<1>8. QED
  BY <1>4, <1>5, <1>6, <1>7

\* The device answers: the event, and after a receive the data.
LEMMA SentAnswer ==
    ASSUME TypeOK, QueueInv, inbox = call, ~EventOnWay, ~DataOnWay, DevRespond
    PROVE  /\ QueueInv'
           /\ EventOnWay'
           /\ DataOnWay' => cmd = "RECV"
           /\ PatchOnWay' <=> PatchOnWay
<1> DEFINE n == Len(toHost)
<1>1. UNCHANGED <<cmd, call>> /\ n \in Nat
  BY DEF DevRespond, callVars, TypeOK
<1>2. PICK m \in {0, 1}, tag \in Tags :
          /\ tag = "more" <=> m = 1
          /\ m = 1 => cmd = "RECV"
          /\ Len(toHost') = n + 1 + m
          /\ toHost'[n + 1] = Event(cmd, call, tag)
          /\ m = 1 => toHost'[n + 2] = Data(call)
          /\ \A i \in 1..n : toHost'[i] = toHost[i]
  <2>1. \A tag \in Tags : Event(cmd, call, tag) \in Packets
    BY PacketTypes DEF EventOps, TypeOK
  <2>2. Data(call) \in Packets
    BY PacketTypes DEF TypeOK
  <2>3. CASE cmd = "RECV"
              /\ toHost' = toHost \o <<Event(cmd, inbox, "more"), Data(inbox)>>
    <3> DEFINE e == Event(cmd, call, "more")
               d == Data(call)
    <3>1. e \in Packets /\ d \in Packets /\ toHost' = toHost \o <<e, d>>
      BY <2>1, <2>2, <2>3 DEF Tags
    <3> HIDE DEF e, d
    <3>2. /\ Len(toHost') = n + 2 /\ toHost'[n + 1] = e /\ toHost'[n + 2] = d
          /\ \A i \in 1..n : toHost'[i] = toHost[i]
      BY <3>1 DEF TypeOK
    <3>3. QED
      BY <2>3, <3>2, <1>1 DEF e, d, Tags
  <2>4. ASSUME NEW tag \in {"ok", "inactive"}, toHost' = Append(toHost, Event(cmd, inbox, tag))
        PROVE  /\ Len(toHost') = n + 1 + 0 /\ toHost'[n + 1] = Event(cmd, call, tag)
               /\ \A i \in 1..n : toHost'[i] = toHost[i]
    BY <2>1, <2>4, <1>1, Queued DEF TypeOK, Tags
  <2>5. \/ toHost' = Append(toHost, Event(cmd, inbox, "ok"))
        \/ toHost' = Append(toHost, Event(cmd, inbox, "inactive"))
        \/ /\ cmd = "RECV"
           /\ toHost' = toHost \o <<Event(cmd, inbox, "more"), Data(inbox)>>
    BY DEF DevRespond
  <2>6. QED
    BY <2>3, <2>4, <2>5 DEF Tags
<1> DEFINE e == Event(cmd, call, tag)
           d == Data(call)
<1>3. /\ e.type = "EVNT" /\ e.op = cmd /\ e.id = call /\ e.tag = tag
      /\ d.type = "DATA" /\ d.op = None
  BY DEF Event, Data
<1>4. cmd \in Opcodes /\ cmd \notin Spontaneous /\ None \notin Opcodes
      /\ cmd # "PATCHES_REQ" /\ None # "PATCHES_REQ"
  BY Kinds DEF TypeOK, Opcodes, None
<1>5. /\ Len(toHost') = n + 1 + m /\ toHost'[n + 1] = e
      /\ m = 1 => toHost'[n + 2] = d
      /\ \A i \in 1..n : toHost'[i] = toHost[i]
  BY <1>2
<1> HIDE DEF e, d
<1>6. /\ m = 0 => 1..Len(toHost') = (1..n) \cup {n + 1}
      /\ m = 1 => 1..Len(toHost') = (1..n) \cup {n + 1, n + 2}
      /\ n + 1 \notin 1..n /\ n + 2 \notin 1..n
  BY <1>1, <1>5 DEF n
<1> HIDE DEF n
<1>7. \A i \in 1..n : toHost[i].op \notin Opcodes /\ toHost[i].type # "DATA"
  BY DEF EventOnWay, DataOnWay, n
<1>8. \A i \in 1..Len(toHost') : /\ toHost'[i].op \in Opcodes => i = n + 1
                                 /\ toHost'[i].type = "DATA" => i = n + 2 /\ m = 1
  BY <1>3, <1>4, <1>5, <1>6, <1>7
<1>9. n + 1 \in 1..Len(toHost') /\ (m = 1 => n + 2 \in 1..Len(toHost'))
      /\ n + 1 < n + 2
  BY <1>1, <1>5
<1>10. EventOnWay'
  BY <1>3, <1>4, <1>5, <1>9 DEF EventOnWay
<1>11. DataOnWay' <=> m = 1
  BY <1>3, <1>5, <1>8, <1>9 DEF DataOnWay
<1>12. PatchOnWay' <=> PatchOnWay
  BY <1>3, <1>4, <1>5, <1>6 DEF PatchOnWay, n
<1>13. \A i \in 1..Len(toHost') :
         \/ toHost'[i].type = "EVNT" /\ toHost'[i].op \in Spontaneous
         \/ toHost'[i] = e
         \/ toHost'[i] = d /\ cmd = "RECV"
  <2>1. \A i \in 1..n : toHost[i].type = "EVNT" /\ toHost[i].op \in Spontaneous
    BY <1>4, <1>7, <1>3 DEF QueueInv, IsAnswer, n, d
  <2>2. QED
    BY <1>2, <1>5, <1>6, <2>1
<1>14. e.tag = "more" => cmd = "RECV"
  BY <1>2, <1>3
<1>15. QueueInv'
  <2>1. \A i \in 1..Len(toHost') :
         \/ toHost'[i].type = "EVNT" /\ toHost'[i].op \in Spontaneous
         \/ /\ toHost'[i].type = "EVNT" /\ toHost'[i].op = cmd'
            /\ toHost'[i].id = call'
            /\ toHost'[i].tag = "more" => cmd' = "RECV"
         \/ toHost'[i] = Data(call') /\ cmd' = "RECV"
    BY <1>1, <1>3, <1>13, <1>14 DEF d
  <2>2. \A i, j \in 1..Len(toHost') :
         /\ toHost'[i].op \in Opcodes /\ toHost'[j].op \in Opcodes => i = j
         /\ toHost'[i].type = "DATA" /\ toHost'[j].type = "DATA" => i = j
         /\ toHost'[i].op \in Opcodes /\ toHost'[j].type = "DATA" => i < j
    BY <1>8, <1>9
  <2>3. \A i, j \in 1..Len(toHost') :
            toHost'[i].op = "PATCHES_REQ" /\ toHost'[j].op = "PATCHES_REQ" => i = j
    BY <1>3, <1>4, <1>5, <1>6 DEF QueueInv, n
  <2>4. \A i \in 1..Len(toHost') :
            toHost'[i].op \in Opcodes => (toHost'[i].tag = "more" <=> DataOnWay')
    BY <1>2, <1>3, <1>5, <1>8, <1>11
  <2>5. QED
    BY <2>1, <2>2, <2>3, <2>4 DEF QueueInv, IsAnswer
<1>16. QED
  BY <1>2, <1>10, <1>11, <1>12, <1>15

\* The reader takes the first packet.
LEMMA TakenFirst ==
    ASSUME TypeOK, QueueInv, toHost # <<>>, toHost' = Tail(toHost),
           UNCHANGED <<cmd, call>>, NEW h, h = Head(toHost)
    PROVE  /\ QueueInv'
           /\ \/ h.type = "EVNT" /\ h.op \in Spontaneous
              \/ IsAnswer(h)
              \/ h = Data(call) /\ cmd = "RECV"
           /\ EventOnWay <=> EventOnWay' \/ h.op \in Opcodes
           /\ h.op \in Opcodes => ~EventOnWay' /\ (h.tag = "more" <=> DataOnWay')
           /\ DataOnWay <=> DataOnWay' \/ h.type = "DATA"
           /\ h.type = "DATA" => ~DataOnWay' /\ ~EventOnWay'
           /\ PatchOnWay <=> PatchOnWay' \/ h.op = "PATCHES_REQ"
           /\ h.op = "PATCHES_REQ" => ~PatchOnWay'
<1> DEFINE n == Len(toHost)
<1>1. /\ n \in Nat /\ 1 \in 1..n /\ h = toHost[1] /\ h \in Packets
      /\ Len(toHost') = n - 1
      /\ \A i \in 1..Len(toHost') : toHost'[i] = toHost[i + 1] /\ i + 1 \in 2..n
      /\ \A i \in 2..n : toHost[i] = toHost'[i - 1] /\ i - 1 \in 1..Len(toHost')
  BY Dequeued DEF TypeOK
<1>2. 1..n = {1} \cup (2..n) /\ 1 \notin 2..n
  BY <1>1
<1>3. \A i, j \in 1..Len(toHost') :
          /\ i + 1 = j + 1 => i = j
          /\ i + 1 < j + 1 => i < j
          /\ i + 1 \in 1..n /\ i + 1 # 1
  BY <1>1
<1> HIDE DEF n
<1>4. EventOnWay <=> EventOnWay' \/ h.op \in Opcodes
  <2>1. ASSUME NEW i \in 1..n, toHost[i].op \in Opcodes, i # 1
        PROVE  \E j \in 1..Len(toHost') : toHost'[j].op \in Opcodes
    BY <1>1, <1>2, <2>1
  <2>2. EventOnWay' => EventOnWay
    BY <1>1, <1>3 DEF EventOnWay, n
  <2>3. h.op \in Opcodes => EventOnWay
    BY <1>1 DEF EventOnWay, n
  <2>4. EventOnWay => EventOnWay' \/ h.op \in Opcodes
    BY <1>1, <2>1 DEF EventOnWay, n
  <2>5. QED
    BY <2>2, <2>3, <2>4
<1>5. DataOnWay <=> DataOnWay' \/ h.type = "DATA"
  <2>1. ASSUME NEW i \in 1..n, toHost[i].type = "DATA", i # 1
        PROVE  \E j \in 1..Len(toHost') : toHost'[j].type = "DATA"
    BY <1>1, <1>2, <2>1
  <2>2. DataOnWay' => DataOnWay
    BY <1>1, <1>3 DEF DataOnWay, n
  <2>3. h.type = "DATA" => DataOnWay
    BY <1>1 DEF DataOnWay, n
  <2>4. DataOnWay => DataOnWay' \/ h.type = "DATA"
    BY <1>1, <2>1 DEF DataOnWay, n
  <2>5. QED
    BY <2>2, <2>3, <2>4
<1>6. PatchOnWay <=> PatchOnWay' \/ h.op = "PATCHES_REQ"
  <2>1. ASSUME NEW i \in 1..n, toHost[i].op = "PATCHES_REQ", i # 1
        PROVE  \E j \in 1..Len(toHost') : toHost'[j].op = "PATCHES_REQ"
    BY <1>1, <1>2, <2>1
  <2>2. PatchOnWay' => PatchOnWay
    BY <1>1, <1>3 DEF PatchOnWay, n
  <2>3. h.op = "PATCHES_REQ" => PatchOnWay
    BY <1>1 DEF PatchOnWay, n
  <2>4. PatchOnWay => PatchOnWay' \/ h.op = "PATCHES_REQ"
    BY <1>1, <2>1 DEF PatchOnWay, n
  <2>5. QED
    BY <2>2, <2>3, <2>4
<1>7. \A i, j \in 1..n :
         /\ toHost[i].op \in Opcodes /\ toHost[j].op \in Opcodes => i = j
         /\ toHost[i].type = "DATA" /\ toHost[j].type = "DATA" => i = j
         /\ toHost[i].op \in Opcodes /\ toHost[j].type = "DATA" => i < j
         /\ toHost[i].op = "PATCHES_REQ" /\ toHost[j].op = "PATCHES_REQ" => i = j
  BY DEF QueueInv, n
<1>8. h.op \in Opcodes => ~EventOnWay'
  BY <1>1, <1>3, <1>7 DEF EventOnWay
<1>9. h.type = "DATA" => ~DataOnWay'
  BY <1>1, <1>3, <1>7 DEF DataOnWay
<1>10. h.type = "DATA" => ~EventOnWay'
  <2>1. \A i \in 1..Len(toHost') : ~(i + 1 < 1)
    BY <1>1
  <2>2. QED
    BY <1>1, <1>3, <1>7, <2>1 DEF EventOnWay
<1>11. h.op = "PATCHES_REQ" => ~PatchOnWay'
  BY <1>1, <1>3, <1>7 DEF PatchOnWay
<1>12. /\ \/ h.type = "EVNT" /\ h.op \in Spontaneous
          \/ IsAnswer(h)
          \/ h = Data(call) /\ cmd = "RECV"
       /\ h.op \in Opcodes => (h.tag = "more" <=> DataOnWay)
  BY <1>1 DEF QueueInv, n
<1>13. h.op \in Opcodes => (h.tag = "more" <=> DataOnWay')
  <2>1. h.op \in Opcodes => h.type # "DATA"
    BY <1>12, Kinds DEF IsAnswer
  <2>2. QED
    BY <1>5, <1>12, <2>1
<1>14. QueueInv'
  <2>1. \A i \in 1..Len(toHost') :
         \/ toHost'[i].type = "EVNT" /\ toHost'[i].op \in Spontaneous
         \/ IsAnswer(toHost'[i])
         \/ toHost'[i] = Data(call) /\ cmd = "RECV"
    BY <1>1, <1>3 DEF QueueInv, n
  <2>2. \A i, j \in 1..Len(toHost') :
         /\ toHost'[i].op \in Opcodes /\ toHost'[j].op \in Opcodes => i = j
         /\ toHost'[i].type = "DATA" /\ toHost'[j].type = "DATA" => i = j
         /\ toHost'[i].op \in Opcodes /\ toHost'[j].type = "DATA" => i < j
         /\ toHost'[i].op = "PATCHES_REQ" /\ toHost'[j].op = "PATCHES_REQ" => i = j
    BY <1>1, <1>3, <1>7
  <2>3. \A i \in 1..Len(toHost') :
            toHost'[i].op \in Opcodes => (toHost'[i].tag = "more" <=> DataOnWay')
    <3> SUFFICES ASSUME NEW i \in 1..Len(toHost'), toHost'[i].op \in Opcodes
                 PROVE  toHost'[i].tag = "more" <=> DataOnWay'
      OBVIOUS
    <3>1. toHost[i + 1].op \in Opcodes /\ i + 1 \in 1..n
      BY <1>1, <1>3
    <3>2. toHost[i + 1].tag = "more" <=> DataOnWay
      BY <3>1 DEF QueueInv, n
    <3>3. h.type # "DATA"
      BY <1>10, <3>1 DEF EventOnWay
    <3>4. QED
      BY <1>1, <1>5, <3>2, <3>3
  <2>4. QED
    BY <2>1, <2>2, <2>3 DEF QueueInv, IsAnswer
<1>15. QED
  BY <1>4, <1>5, <1>6, <1>8, <1>9, <1>10, <1>11, <1>12, <1>13, <1>14

-----------------------------------------------------------------------------
(* The steps that change what is on its way, one by one.                   *)

\* All that the four parts about packets say.
PacketInv == QueueInv /\ BufferInv /\ AnswerInv /\ PatchInv
Before    == TypeOK /\ SyncInv /\ WaitInv /\ PacketInv

\* An event that the device sends on its own disturbs nothing.
LEMMA SpontaneousStep ==
    ASSUME Before, DevSendUnsolicited \/ DevAskPatch
    PROVE  PacketInv'
<1> USE DEF Before, PacketInv, hciVars, callVars, countVars, devVars
<1>1. PICK p \in Packets :
          /\ p.type = "EVNT" /\ p.op \in Spontaneous /\ toHost' = Append(toHost, p)
          /\ \/ p.op # "PATCHES_REQ" /\ UNCHANGED patches
             \/ /\ p.op = "PATCHES_REQ" /\ ~patches.open /\ patches.left > 0
                /\ patches' = [patches EXCEPT !.open = TRUE]
  <2>1. \A op \in Spontaneous : /\ Event(op, 0, "ok") \in Packets
                                /\ Event(op, 0, "ok").type = "EVNT"
                                /\ Event(op, 0, "ok").op = op
    BY PacketTypes DEF Event, Spontaneous, EventOps, Tags
  <2>2. CASE DevSendUnsolicited
    BY <2>1, <2>2 DEF DevSendUnsolicited, Spontaneous
  <2>3. CASE DevAskPatch
    BY <2>1, <2>3 DEF DevAskPatch, Spontaneous
  <2>4. QED
    BY <2>2, <2>3
<1>2. UNCHANGED <<hciVars, rxBuffer, hostPC, callVars, seen, readerPC, inbox>>
  BY DEF DevSendUnsolicited, DevAskPatch
<1>3. p.op = "PATCHES_REQ" => ~PatchOnWay
  BY <1>1 DEF PatchInv
<1>4. /\ QueueInv' /\ (EventOnWay' <=> EventOnWay) /\ (DataOnWay' <=> DataOnWay)
      /\ PatchOnWay' <=> PatchOnWay \/ p.op = "PATCHES_REQ"
  BY <1>1, <1>2, <1>3, SentOnItsOwn
<1>5. BufferInv'
  BY <1>2 DEF BufferInv, Held, IsAnswer, SendInactive
<1>6. AnswerInv'
  BY <1>2, <1>4 DEF AnswerInv, Held, EventInHand, DataTaken, Answered, Unanswered,
                    Data
<1>7. PatchInv'
  <2>1. CASE p.op # "PATCHES_REQ"
    BY <1>1, <1>2, <1>4, <2>1 DEF PatchInv, Held
  <2>2. CASE p.op = "PATCHES_REQ"
    <3>1. ~PatchOnWay /\ ~(Held /\ rxBuffer.op = "PATCHES_REQ") /\ hostPC # "patch"
      BY <1>1, <2>2 DEF PatchInv
    <3>2. patches'.open /\ patches'.left > 0
      BY <1>1, <2>2 DEF TypeOK
    <3>3. QED
      BY <1>2, <3>1, <3>2 DEF PatchInv, Held
  <2>3. QED
    BY <2>1, <2>2
<1>8. QED
  BY <1>4, <1>5, <1>6, <1>7

\* The device answers a call that still waits for its event.
LEMMA RespondStep ==
    ASSUME Before, DevRespond
    PROVE  PacketInv'
<1> USE DEF Before, PacketInv, hciVars, callVars, countVars, devVars
<1>1. inbox = call /\ Unanswered /\ ~EventOnWay /\ ~DataOnWay /\ ~EventInHand
  BY DEF DevRespond, AnswerInv
<1>2. /\ UNCHANGED <<hciVars, rxBuffer, hostPC, callVars, seen, readerPC, patches>>
      /\ inbox' = 0
  BY DEF DevRespond
<1>3. /\ QueueInv' /\ EventOnWay' /\ (DataOnWay' => cmd = "RECV")
      /\ PatchOnWay' <=> PatchOnWay
  BY <1>1, SentAnswer
<1>4. ~Answered /\ usRxDataPending # 1
  BY <1>1 DEF Answered, WaitInv
<1>5. ~DataTaken
  BY <1>4 DEF AnswerInv
<1>6. ~(Held /\ rxBuffer.type = "DATA")
  <2>1. CASE hostPC = "clear"
    <3>1. seen = rxBuffer
      BY <2>1 DEF SyncInv
    <3>2. QED
      BY <1>5, <2>1, <3>1 DEF DataTaken
  <2>2. CASE hostPC # "clear"
    BY <1>4, <2>2 DEF AnswerInv
  <2>3. QED
    BY <2>1, <2>2
<1>7. BufferInv'
  BY <1>2 DEF BufferInv, Held, IsAnswer, SendInactive
<1>8. AnswerInv'
  <2>1. /\ Unanswered' /\ ~EventInHand' /\ ~DataTaken'
        /\ ~(Held' /\ rxBuffer'.type = "DATA")
    BY <1>1, <1>2, <1>5, <1>6 DEF Unanswered, EventInHand, DataTaken, Held
  <2>2. QED
    BY <1>2, <1>3, <2>1 DEF AnswerInv
<1>9. PatchInv'
  BY <1>2, <1>3 DEF PatchInv, Held
<1>10. QED
  BY <1>3, <1>7, <1>8, <1>9

\* The reader fills the buffer after the host has emptied it, and with an answer
\* or data only while they are awaited.
LEMMA ReadStep ==
    ASSUME Paced, Before, ReaderRead
    PROVE  PacketInv'
<1> USE DEF Before, PacketInv, hciVars, callVars, countVars, devVars
<1> DEFINE h == Head(toHost)
<1>1. /\ readerPC = "idle" /\ readerPC' = "flag" /\ toHost # <<>>
      /\ rxBuffer' = h /\ toHost' = Tail(toHost) /\ ~DeviceWaits(h)
      /\ UNCHANGED <<hciVars, hostPC, callVars, seen, inbox, patches>>
  BY DEF ReaderRead
<1> HIDE DEF h
<1>2. /\ QueueInv'
      /\ \/ h.type = "EVNT" /\ h.op \in Spontaneous
         \/ IsAnswer(h)
         \/ h = Data(call) /\ cmd = "RECV"
      /\ EventOnWay <=> EventOnWay' \/ h.op \in Opcodes
      /\ h.op \in Opcodes => ~EventOnWay' /\ (h.tag = "more" <=> DataOnWay')
      /\ DataOnWay <=> DataOnWay' \/ h.type = "DATA"
      /\ h.type = "DATA" => ~DataOnWay' /\ ~EventOnWay'
      /\ PatchOnWay <=> PatchOnWay' \/ h.op = "PATCHES_REQ"
      /\ h.op = "PATCHES_REQ" => ~PatchOnWay'
  BY <1>1, TakenFirst DEF h
<1>3. /\ hostPC \notin {"type", "unsol", "dispatch", "match", "copyData", "clear",
                        "patch"}
      /\ usEventOrDataReceived = 1 => hostPC \in {"idle", "write"}
      /\ h.op \in Opcodes => usRxEventOpcode = h.op
      /\ h.type = "DATA" => usRxDataPending = 1
  BY <1>1 DEF DeviceWaits, HostTaking, TypeOK
<1>4. ~EventInHand /\ ~(Held /\ rxBuffer.type = "DATA")
  <2>1. CASE hostPC \in {"idle", "write"}
    BY <2>1, Resting
  <2>2. CASE hostPC \notin {"idle", "write"}
    BY <1>1, <1>3, <2>2 DEF EventInHand, Held
  <2>3. QED
    BY <2>1, <2>2
<1>5. /\ h.type = "DATA" => h = Data(call) /\ h.op = None /\ cmd = "RECV"
      /\ h.op \in Opcodes => h.type = "EVNT" /\ h.op = cmd
      /\ h.type = "EVNT" \/ h.type = "DATA"
  BY <1>2, Kinds DEF IsAnswer, Spontaneous
<1>6. /\ Held' /\ (EventInHand' <=> h.op \in Opcodes)
      /\ (Unanswered' <=> Unanswered) /\ (Answered' <=> Answered)
      /\ (DataTaken' <=> DataTaken)
  BY <1>1 DEF Held, EventInHand, Unanswered, Answered, DataTaken
<1>7. BufferInv'
  <2>1. rxBuffer' = h /\ UNCHANGED <<cmd, call>> /\ readerPC' = "flag"
    BY <1>1
  <2>2. IsAnswer(h) => IsAnswer(rxBuffer)'
    BY ONLY <2>1 DEF IsAnswer
  <2>3. \/ h.type = "DATA" /\ h.op = None
        \/ h.type = "EVNT" /\ h.op \in Spontaneous
        \/ IsAnswer(rxBuffer)'
    BY <1>2, <2>2, Kinds
  <2>4. \/ rxBuffer'.type = "DATA" /\ rxBuffer'.op = None
        \/ rxBuffer'.type = "EVNT" /\ rxBuffer'.op \in Spontaneous
        \/ IsAnswer(rxBuffer)'
    BY ONLY <2>1, <2>3
  <2>5. QED
    BY <2>1, <2>4 DEF BufferInv
<1>8. AnswerInv'
  <2>1. inbox' # 0 => /\ inbox' = call' /\ Unanswered'
                      /\ ~EventOnWay' /\ ~DataOnWay' /\ ~EventInHand'
    BY <1>1, <1>2, <1>6 DEF AnswerInv
  <2>2. EventOnWay' => Unanswered' /\ ~EventInHand'
    BY <1>2, <1>6 DEF AnswerInv
  <2>3. EventInHand' => /\ usRxEventOpcode' = cmd' \/ hostPC' = "clear"
                        /\ rxBuffer'.tag = "more" <=> DataOnWay'
    BY <1>1, <1>2, <1>3, <1>5, <1>6
  <2>4. DataOnWay' => \/ EventOnWay' \/ EventInHand'
                      \/ Answered' /\ cmd' = "RECV" /\ result'.tag = "more"
    BY <1>1, <1>2, <1>4, <1>6 DEF AnswerInv
  <2>5. Held' /\ rxBuffer'.type = "DATA" =>
            /\ ~DataOnWay' /\ rxBuffer' = Data(call')
            /\ usRxDataPending' = 1 \/ hostPC' = "clear"
    BY <1>1, <1>2, <1>3, <1>5
  <2>6. DataTaken' => /\ ~DataOnWay' /\ Answered' /\ usRxDataPending' = 0
                      /\ dataResult' = Data(call')
    BY <1>1, <1>2, <1>6 DEF AnswerInv
  <2>7. QED
    BY <2>1, <2>2, <2>3, <2>4, <2>5, <2>6 DEF AnswerInv
<1>9. PatchInv'
  BY <1>1, <1>2, <1>3, <1>6 DEF PatchInv
<1>10. QED
  BY <1>2, <1>7, <1>8, <1>9

\* A new call finds nothing of an earlier one.
LEMMA CallStep ==
    ASSUME Before, ApiCall
    PROVE  PacketInv'
<1> USE DEF Before, PacketInv, hciVars, callVars, countVars, devVars
<1>1. /\ hostPC = "idle" /\ readerPC \in {"idle", "flag"} /\ hostPC' = "write"
      /\ UNCHANGED <<hciVars, rxBuffer, seen, readerPC, toHost, inbox, patches>>
  BY DEF ApiCall, HostMay
<1>2. /\ usRxEventOpcode = None /\ inbox = 0
      /\ ~EventOnWay /\ ~DataOnWay /\ ~EventInHand
      /\ ~(Held /\ rxBuffer.type = "DATA")
  BY <1>1, Resting
<1>3. (EventOnWay' <=> EventOnWay) /\ (DataOnWay' <=> DataOnWay)
      /\ (PatchOnWay' <=> PatchOnWay)
  BY <1>1, OnWaySame
<1>4. QueueInv'
  <2>1. \A i \in 1..Len(toHost) : toHost[i].op \notin Opcodes /\ toHost[i].type # "DATA"
    BY <1>2 DEF EventOnWay, DataOnWay
  <2>2. \A i \in 1..Len(toHost) : toHost[i].type = "EVNT" /\ toHost[i].op \in Spontaneous
    BY <2>1, Kinds DEF QueueInv, TypeOK
  <2>3. QED
    BY <1>1, <2>1, <2>2 DEF QueueInv
<1>5. BufferInv'
  <2>1. Held => rxBuffer.type = "EVNT" /\ rxBuffer.op \in Spontaneous
    BY <1>1, <1>2, Kinds DEF BufferInv, EventInHand, TypeOK
  <2>2. QED
    BY <1>1, <2>1 DEF BufferInv, Held, SendInactive
<1>6. AnswerInv'
  BY <1>1, <1>2, <1>3 DEF AnswerInv, EventInHand, Held, DataTaken
<1>7. PatchInv'
  BY <1>1, <1>3 DEF PatchInv, Held
<1>8. QED
  BY <1>4, <1>5, <1>6, <1>7

\* The command is sent while nothing answers it yet.
LEMMA SendStep ==
    ASSUME Before, hci_command_send
    PROVE  PacketInv'
<1> USE DEF Before, PacketInv, hciVars, callVars, countVars, devVars
<1>1. /\ hostPC = "write" /\ hostPC' = "setOpcode" /\ inbox' = call
      /\ UNCHANGED <<hciVars, rxBuffer, callVars, seen, readerPC, toHost, patches>>
  BY DEF hci_command_send, HostMay
<1>2. /\ usRxEventOpcode = None /\ inbox = 0
      /\ ~EventOnWay /\ ~DataOnWay /\ ~EventInHand
      /\ ~(Held /\ rxBuffer.type = "DATA")
  BY <1>1, Resting
<1>3. (EventOnWay' <=> EventOnWay) /\ (DataOnWay' <=> DataOnWay)
      /\ (PatchOnWay' <=> PatchOnWay)
  BY <1>1, OnWaySame
<1>4. QueueInv'
  BY <1>1, <1>3 DEF QueueInv, IsAnswer, Data
<1>5. BufferInv'
  BY <1>1 DEF BufferInv, Held, IsAnswer, SendInactive
<1>6. AnswerInv'
  BY <1>1, <1>2, <1>3 DEF AnswerInv, EventInHand, Held, DataTaken, Unanswered
<1>7. PatchInv'
  BY <1>1, <1>3 DEF PatchInv, Held
<1>8. QED
  BY <1>4, <1>5, <1>6, <1>7

-----------------------------------------------------------------------------
(* The steps on the buffer alone.                                          *)

\* What is on its way stays as it is, with what is said of it.
LEMMA QueueStill ==
    ASSUME QueueInv, UNCHANGED <<toHost, cmd, call>>
    PROVE  /\ QueueInv'
           /\ EventOnWay' <=> EventOnWay
           /\ DataOnWay' <=> DataOnWay
           /\ PatchOnWay' <=> PatchOnWay
<1>1. (EventOnWay' <=> EventOnWay) /\ (DataOnWay' <=> DataOnWay)
      /\ (PatchOnWay' <=> PatchOnWay)
  BY OnWaySame
<1>2. QueueInv'
  BY <1>1 DEF QueueInv, IsAnswer, Data
<1>3. QED
  BY <1>1, <1>2

\* So does a buffer that is not filled, when the reader leaves in it only what
\* the host is to take.
LEMMA BufferStill ==
    ASSUME BufferInv, UNCHANGED <<rxBuffer, cmd, call>>, Held' => Held,
           usEventOrDataReceived' = 1 /\ readerPC' = "idle" =>
               rxBuffer.op # "UNSOLICITED" /\ ~SendInactive(rxBuffer)
    PROVE  BufferInv'
<1>1. IsAnswer(rxBuffer) => IsAnswer(rxBuffer)'
  BY DEF IsAnswer
<1>2. SendInactive(rxBuffer)' => SendInactive(rxBuffer)
  BY DEF SendInactive
<1>3. QED
  BY <1>1, <1>2 DEF BufferInv

\* The reader gives the packet to the host or acts upon it.
LEMMA ReaderStep ==
    ASSUME Before, SpiReceiveHandler \/ ReaderHandle \/ ReaderClear
    PROVE  PacketInv'
<1> USE DEF Before, PacketInv, hciVars, callVars, countVars, devVars
<1>1. UNCHANGED <<usRxEventOpcode, usRxDataPending, rxBuffer, hostPC, callVars, seen,
                  toHost, inbox, patches>>
  BY DEF SpiReceiveHandler, ReaderHandle, ReaderClear
<1>2. /\ QueueInv' /\ (EventOnWay' <=> EventOnWay) /\ (DataOnWay' <=> DataOnWay)
      /\ (PatchOnWay' <=> PatchOnWay)
  BY <1>1, QueueStill
<1>3. /\ Held' => Held
      /\ EventInHand' => EventInHand
      /\ (Unanswered' <=> Unanswered) /\ (Answered' <=> Answered)
      /\ (DataTaken' <=> DataTaken)
  BY <1>1 DEF SpiReceiveHandler, ReaderHandle, ReaderClear, SyncInv, Held,
              EventInHand, Unanswered, Answered, DataTaken
<1>4. usEventOrDataReceived' = 1 /\ readerPC' = "idle" =>
          rxBuffer.op # "UNSOLICITED" /\ ~SendInactive(rxBuffer)
  <2>1. CASE ReaderHandle
    <3>1. readerPC = "handle" /\ usEventOrDataReceived = 1 /\ Held
      BY <2>1 DEF ReaderHandle, SyncInv, Held
    <3>2. rxBuffer.type = "EVNT" \/ rxBuffer.op = None
      BY <3>1 DEF BufferInv, IsAnswer
    <3>3. None # "UNSOLICITED" /\ None # "SEND"
      BY DEF None
    <3>4. readerPC' = "idle" => ~(rxBuffer.type = "EVNT" /\ UnsolHandles(rxBuffer))
      BY <2>1, <3>1 DEF ReaderHandle
    <3>5. QED
      BY <3>2, <3>3, <3>4 DEF UnsolHandles, SendInactive
  <2>2. CASE SpiReceiveHandler \/ ReaderClear
    BY <2>2 DEF SpiReceiveHandler, ReaderClear
  <2>3. QED
    BY <2>1, <2>2
<1>5. BufferInv'
  BY <1>1, <1>3, <1>4, BufferStill
<1>6. EventInHand => EventInHand' \/ ~DataOnWay
  <2>1. CASE ReaderHandle
    <3>1. readerPC = "handle" /\ usEventOrDataReceived = 1 /\ Held /\ hostPC # "clear"
      BY <2>1 DEF ReaderHandle, SyncInv, HostTaking, Held
    <3>2. CASE rxBuffer.type = "EVNT" /\ UnsolHandles(rxBuffer)
      <4>1. rxBuffer.op \in Opcodes => rxBuffer.tag # "more"
        BY <3>1, <3>2, Handing
      <4>2. QED
        BY <4>1 DEF AnswerInv, EventInHand
    <3>3. CASE ~(rxBuffer.type = "EVNT" /\ UnsolHandles(rxBuffer))
      <4>1. readerPC' = "idle" /\ usEventOrDataReceived' = 1
        BY <2>1, <3>1, <3>3 DEF ReaderHandle
      <4>2. QED
        BY <1>1, <4>1 DEF EventInHand, Held
    <3>4. QED
      BY <3>2, <3>3
  <2>2. CASE SpiReceiveHandler
    BY <1>1, <2>2 DEF SpiReceiveHandler, EventInHand, Held
  <2>3. CASE ReaderClear
    BY <2>3 DEF ReaderClear, EventInHand
  <2>4. QED
    BY <2>1, <2>2, <2>3
<1>7. AnswerInv'
  BY <1>1, <1>2, <1>3, <1>6 DEF AnswerInv, Data
<1>8. PatchInv'
  BY <1>1, <1>2, <1>3 DEF PatchInv
<1>9. QED
  BY <1>2, <1>5, <1>7, <1>8

\* The host waits, looks at the packet, or goes on after it.
LEMMA HostWaitStep ==
    ASSUME Before, \/ SimpleLinkWaitEvent \/ SimpleLinkWaitData
                   \/ HostPoll \/ HostReadType \/ HostUnsol \/ HostReturn
    PROVE  PacketInv'
<1> USE DEF Before, PacketInv, hciVars, callVars, countVars, devVars
<1>1. UNCHANGED <<usEventOrDataReceived, rxBuffer, callVars, readerPC, toHost, inbox,
                  patches>>
  BY DEF SimpleLinkWaitEvent, SimpleLinkWaitData, HostPoll, HostReadType, HostUnsol,
         HostReturn
<1>2. /\ QueueInv' /\ (EventOnWay' <=> EventOnWay) /\ (DataOnWay' <=> DataOnWay)
      /\ (PatchOnWay' <=> PatchOnWay)
  BY <1>1, QueueStill
<1>3. /\ hostPC \notin {"clear", "patch"} /\ hostPC' \notin {"clear", "patch", "return"}
      /\ ~DataTaken'
  <2>1. CASE HostUnsol
    <3>1. hostPC = "unsol"
      BY <2>1 DEF HostUnsol, HostMay
    <3>2. hostPC' = "dispatch"
      BY <2>1, <3>1, Taking DEF HostUnsol, SyncInv
    <3>3. QED
      BY <3>1, <3>2 DEF DataTaken
  <2>2. CASE ~HostUnsol
    BY <2>2 DEF SimpleLinkWaitEvent, SimpleLinkWaitData, HostPoll, HostReadType,
                HostReturn, HostMay, DataTaken
  <2>3. QED
    BY <2>1, <2>2
<1>4. (Held' <=> Held) /\ (EventInHand' <=> EventInHand)
  BY <1>1 DEF Held, EventInHand
<1>5. BufferInv'
  BY <1>1, <1>4, BufferStill DEF BufferInv
<1>6. PatchInv'
  BY <1>1, <1>2, <1>3, <1>4 DEF PatchInv
<1>7. AnswerInv'
  <2>1. CASE SimpleLinkWaitEvent
    <3>1. Unanswered /\ Unanswered' /\ ~Answered /\ usRxEventOpcode' = cmd
          /\ usRxDataPending' = usRxDataPending
      BY <2>1, Kinds DEF SimpleLinkWaitEvent, HostMay, Unanswered, Answered, TypeOK
    <3>2. QED
      BY <1>1, <1>2, <1>3, <1>4, <3>1 DEF AnswerInv
  <2>2. CASE SimpleLinkWaitData
    <3>1. /\ (Unanswered' <=> Unanswered) /\ (Answered' <=> Answered)
          /\ usRxDataPending' = 1 /\ UNCHANGED usRxEventOpcode
      BY <2>2 DEF SimpleLinkWaitData, HostMay, Unanswered, Answered
    <3>2. QED
      BY <1>1, <1>2, <1>3, <1>4, <3>1 DEF AnswerInv, Data
  <2>3. CASE HostPoll \/ HostReadType \/ HostUnsol
    <3>1. /\ (Unanswered' <=> Unanswered) /\ (Answered' <=> Answered)
          /\ UNCHANGED <<usRxEventOpcode, usRxDataPending>>
      BY <1>3, <2>3 DEF HostPoll, HostReadType, HostUnsol, HostMay, Unanswered,
                        Answered
    <3>2. QED
      BY <1>1, <1>2, <1>3, <1>4, <3>1 DEF AnswerInv, Data
  <2>4. CASE HostReturn
    <3>1. hostPC = "return" /\ UNCHANGED <<usRxEventOpcode, usRxDataPending>>
      BY <2>4 DEF HostReturn, HostMay
    <3>2. CASE hostPC' = "idle"
      <4>1. /\ usRxEventOpcode = None /\ usRxDataPending # 1
            /\ ~(seen.type = "EVNT" /\ cmd = "RECV" /\ result.tag = "more")
        BY <2>4, <3>2 DEF HostReturn
      <4>2. seen.type = "EVNT" \/ DataTaken
        BY <3>1 DEF DataTaken, TypeOK, Packets
      <4>3. ~Unanswered /\ cmd # None
        BY <3>1, <4>1, Kinds DEF Unanswered, TypeOK
      <4>4. inbox = 0 /\ ~EventOnWay /\ ~EventInHand
        BY <1>3, <4>1, <4>3 DEF AnswerInv
      <4>5. ~DataOnWay
        BY <4>1, <4>2, <4>4 DEF AnswerInv
      <4>6. ~(Held /\ rxBuffer.type = "DATA")
        BY <1>3, <4>1 DEF AnswerInv
      <4>7. QED
        BY <1>1, <1>2, <1>3, <1>4, <4>4, <4>5, <4>6 DEF AnswerInv
    <3>3. CASE hostPC' # "idle"
      <4>1. hostPC' \in {"poll", "setPending"}
        BY <2>4, <3>3 DEF HostReturn
      <4>2. (Unanswered' <=> Unanswered) /\ (Answered' <=> Answered)
        BY <3>1, <4>1 DEF Unanswered, Answered
      <4>3. QED
        BY <1>1, <1>2, <1>3, <1>4, <3>1, <4>2 DEF AnswerInv, Data
    <3>4. QED
      BY <3>2, <3>3
  <2>5. QED
    BY <2>1, <2>2, <2>3, <2>4
<1>8. QED
  BY <1>2, <1>5, <1>6, <1>7

\* The host takes the packet.
LEMMA HostTakeStep ==
    ASSUME Before, \/ HostDispatch \/ HostMatch \/ HostCopyData \/ HostClear
                   \/ HostAnswerPatch
    PROVE  PacketInv'
<1> USE DEF Before, PacketInv, hciVars, callVars, countVars, devVars
<1>1. UNCHANGED <<rxBuffer, cmd, call, seen, readerPC, toHost, inbox>>
  BY DEF HostDispatch, HostMatch, HostCopyData, HostClear, HostAnswerPatch
<1>2. /\ QueueInv' /\ (EventOnWay' <=> EventOnWay) /\ (DataOnWay' <=> DataOnWay)
      /\ (PatchOnWay' <=> PatchOnWay)
  BY <1>1, QueueStill
<1>3. CASE HostDispatch
  <2>1. /\ hostPC = "dispatch" /\ hostPC' = "match"
        /\ UNCHANGED <<hciVars, dataResult, patches>>
        /\ result' = IF seen.op \in Opcodes THEN rxBuffer ELSE result
    BY <1>3 DEF HostDispatch, HostMay
  <2>2. /\ (Held' <=> Held) /\ (EventInHand' <=> EventInHand) /\ ~DataTaken'
        /\ (Unanswered' <=> Unanswered) /\ (Answered' <=> Answered)
    BY <1>1, <2>1 DEF Held, EventInHand, DataTaken, Unanswered, Answered
  <2>3. Held /\ readerPC = "idle" /\ seen = rxBuffer
    BY <2>1, Taking
  <2>4. result' = result \/ EventInHand
    BY <2>1, <2>3 DEF EventInHand
  <2>5. BufferInv'
    BY <1>1, <2>1, <2>2, BufferStill DEF BufferInv
  <2>6. AnswerInv'
    BY <1>1, <1>2, <2>1, <2>2, <2>4 DEF AnswerInv, Data
  <2>7. PatchInv'
    BY <1>1, <1>2, <2>1, <2>2 DEF PatchInv
  <2>8. QED
    BY <1>2, <2>5, <2>6, <2>7
<1>4. CASE HostMatch
  <2>1. /\ hostPC = "match" /\ hostPC' = "clear"
        /\ UNCHANGED <<usEventOrDataReceived, usRxDataPending, result, dataResult,
                       patches>>
        /\ usRxEventOpcode' = IF seen.op = usRxEventOpcode THEN None
                                                           ELSE usRxEventOpcode
    BY <1>4 DEF HostMatch, HostMay
  <2>2. /\ Held /\ readerPC = "idle" /\ seen = rxBuffer /\ seen.type = "EVNT"
        /\ seen.op # None
    BY <2>1, Taking DEF SyncInv
  <2>3. /\ (Held' <=> Held) /\ (EventInHand' <=> EventInHand) /\ ~DataTaken'
    BY <1>1, <2>1, <2>2 DEF Held, EventInHand, DataTaken
  <2>4. BufferInv'
    BY <1>1, <2>1, <2>3, BufferStill DEF BufferInv
  <2>5. PatchInv'
    BY <1>1, <1>2, <2>1, <2>3 DEF PatchInv
  <2>6. CASE seen.op \in Opcodes
    <3>1. IsAnswer(seen) /\ usRxEventOpcode = cmd /\ seen.op = cmd /\ result = seen
          /\ EventInHand
      BY <2>1, <2>2, <2>6, Handing DEF WaitInv, EventInHand
    <3>2. inbox = 0 /\ ~EventOnWay /\ (rxBuffer.tag = "more" <=> DataOnWay)
      BY <3>1 DEF AnswerInv
    <3>3. Answered' /\ result' = rxBuffer
      BY <2>1, <2>2, <3>1 DEF Answered, Unanswered
    <3>4. rxBuffer.type # "DATA"
      BY <2>2
    <3>5. QED
      BY <1>1, <1>2, <2>1, <2>3, <2>4, <2>5, <3>2, <3>3, <3>4 DEF AnswerInv
  <2>7. CASE seen.op \notin Opcodes
    <3>1. UNCHANGED usRxEventOpcode
      BY <2>1, <2>2, <2>7 DEF TypeOK
    <3>2. (Unanswered' <=> Unanswered) /\ (Answered' <=> Answered) /\ ~EventInHand
          /\ rxBuffer.type # "DATA"
      BY <2>1, <2>2, <2>7, <3>1 DEF Unanswered, Answered, EventInHand
    <3>3. QED
      BY <1>1, <1>2, <2>1, <2>3, <2>4, <2>5, <3>1, <3>2 DEF AnswerInv
  <2>8. QED
    BY <2>6, <2>7
<1>5. CASE HostCopyData
  <2>1. /\ hostPC = "copyData" /\ hostPC' = "clear" /\ dataResult' = rxBuffer
        /\ usRxDataPending' = 0
        /\ UNCHANGED <<usEventOrDataReceived, usRxEventOpcode, result, patches>>
    BY <1>5 DEF HostCopyData, HostMay
  <2>2. Held /\ seen = rxBuffer /\ seen.type = "DATA"
    BY <2>1, Taking DEF SyncInv
  <2>3. ~DataOnWay /\ rxBuffer = Data(call) /\ usRxDataPending = 1
    BY <2>1, <2>2 DEF AnswerInv
  <2>4. Answered /\ Answered' /\ usRxEventOpcode = None /\ cmd # None
    BY <2>1, <2>3, Kinds DEF WaitInv, Answered, Unanswered, TypeOK
  <2>5. /\ (Held' <=> Held) /\ (EventInHand' <=> EventInHand)
        /\ (Unanswered' <=> Unanswered)
    BY <1>1, <2>1 DEF Held, EventInHand, Unanswered
  <2>6. BufferInv'
    BY <1>1, <2>1, <2>5, BufferStill DEF BufferInv
  <2>7. PatchInv'
    BY <1>1, <1>2, <2>1, <2>5 DEF PatchInv
  <2>8. ~EventInHand
    BY <2>1, <2>4 DEF AnswerInv
  <2>9. AnswerInv'
    BY <1>1, <1>2, <2>1, <2>3, <2>4, <2>5, <2>8 DEF AnswerInv
  <2>10. QED
    BY <1>2, <2>6, <2>7, <2>9
<1>6. CASE HostClear
  <2>1. /\ hostPC = "clear" /\ usEventOrDataReceived' = 0
        /\ hostPC' = IF seen.op = "PATCHES_REQ" /\ rxBuffer.type = "EVNT"
                     THEN "patch" ELSE "return"
        /\ UNCHANGED <<usRxEventOpcode, usRxDataPending, result, dataResult, patches>>
    BY <1>6 DEF HostClear, HostMay
  <2>2. Held /\ readerPC = "idle" /\ seen = rxBuffer
    BY <2>1, Taking
  <2>3. ~Held' /\ ~EventInHand'
    BY <1>1, <2>1, <2>2 DEF Held, EventInHand
  <2>4. (Unanswered' <=> Unanswered) /\ (Answered' <=> Answered)
        /\ (DataTaken' => DataTaken)
    BY <1>1, <2>1 DEF Unanswered, Answered, DataTaken
  <2>5. BufferInv'
    BY <1>1, <2>1, <2>3, BufferStill
  <2>6. EventInHand /\ DataOnWay => Answered /\ cmd = "RECV" /\ result.tag = "more"
    <3> SUFFICES ASSUME EventInHand, DataOnWay
                 PROVE  Answered /\ cmd = "RECV" /\ result.tag = "more"
      OBVIOUS
    <3>1. seen.op \in Opcodes /\ rxBuffer.tag = "more"
      BY <2>2 DEF EventInHand, AnswerInv
    <3>2. result = seen /\ usRxEventOpcode = None
      BY <2>1, <3>1 DEF WaitInv
    <3>3. IsAnswer(rxBuffer)
      BY <2>2, <3>1, Kinds DEF BufferInv
    <3>4. QED
      BY <2>1, <2>2, <3>1, <3>2, <3>3 DEF Answered, Unanswered, IsAnswer
  <2>7. AnswerInv'
    BY <1>1, <1>2, <2>1, <2>3, <2>4, <2>6 DEF AnswerInv, Data
  <2>8. PatchInv'
    BY <1>1, <1>2, <2>1, <2>2, <2>3 DEF PatchInv
  <2>9. QED
    BY <1>2, <2>5, <2>7, <2>8
<1>7. CASE HostAnswerPatch
  <2>1. /\ hostPC = "patch" /\ hostPC' = "return"
        /\ UNCHANGED <<hciVars, result, dataResult>>
    BY <1>7 DEF HostAnswerPatch, HostMay
  <2>2. /\ (Held' <=> Held) /\ (EventInHand' <=> EventInHand)
        /\ (Unanswered' <=> Unanswered) /\ (Answered' <=> Answered)
    BY <1>1, <2>1 DEF Held, EventInHand, Unanswered, Answered
  <2>3. ~DataTaken'
    BY <1>1, <2>1 DEF DataTaken, SyncInv
  <2>4. BufferInv'
    BY <1>1, <2>1, <2>2, BufferStill DEF BufferInv
  <2>5. AnswerInv'
    BY <1>1, <1>2, <2>1, <2>2, <2>3 DEF AnswerInv
  <2>6. PatchInv'
    BY <1>1, <1>2, <2>1, <2>2 DEF PatchInv
  <2>7. QED
    BY <1>2, <2>4, <2>5, <2>6
<1>8. QED
  BY <1>3, <1>4, <1>5, <1>6, <1>7

-----------------------------------------------------------------------------
(* The inductive invariant, and what follows from it.                      *)

\* It holds before the first call.
LEMMA Initially == Init => IInv
<1> SUFFICES ASSUME Init PROVE IInv
  OBVIOUS
<1> USE DEF Init
<1>1. TypeOK
  <2>1. toHost \in Seq(Packets)
    OBVIOUS
  <2>2. patches \in [left : Nat, open : BOOLEAN]
    BY BoundsAssumption
  <2>3. QED
    BY <2>1, <2>2, PacketTypes DEF TypeOK, HostPCs, ReaderPCs, Opcodes
<1>2. Len(toHost) = 0 /\ ~EventOnWay /\ ~DataOnWay /\ ~PatchOnWay
  BY DEF EventOnWay, DataOnWay, PatchOnWay
<1>3. QueueInv
  BY <1>2 DEF QueueInv
<1>4. SyncInv
  BY DEF SyncInv, HostTaking
<1>5. WaitInv
  BY DEF WaitInv, Answered
<1>6. ~Held /\ ~EventInHand /\ ~DataTaken
  BY DEF Held, EventInHand, DataTaken
<1>7. BufferInv /\ AnswerInv /\ PatchInv
  BY <1>2, <1>6 DEF BufferInv, AnswerInv, PatchInv
<1>8. HandledOnce /\ ResultMatches
  <2>1. readerPC \notin {"flag", "handle"} /\ handled = 0 /\ arrived = 0 /\ ~(call > 0)
    OBVIOUS
  <2>2. HandledOnce
    <3>1. (IF readerPC \in {"flag", "handle"} /\ IsUnsolicited(rxBuffer)
           THEN 1 ELSE 0) = 0
      BY ONLY <2>1
    <3>2. 0 = 0 - 0
      OBVIOUS
    <3>3. QED
      BY ONLY <2>1, <3>1, <3>2, Zenon DEF HandledOnce
  <2>3. ResultMatches
    BY ONLY <2>1 DEF ResultMatches
  <2>4. QED
    BY <2>2, <2>3
<1>9. QED
  BY <1>1, <1>3, <1>4, <1>5, <1>7, <1>8 DEF IInv

\* A step that changes nothing keeps it.
LEMMA Stutter ==
    ASSUME IInv, UNCHANGED vars
    PROVE  IInv'
<1> USE DEF vars, hciVars, callVars, countVars, devVars
<1>1. /\ QueueInv' /\ (EventOnWay' <=> EventOnWay) /\ (DataOnWay' <=> DataOnWay)
      /\ (PatchOnWay' <=> PatchOnWay)
  BY QueueStill DEF IInv
<1>2. /\ (Held' <=> Held) /\ (EventInHand' <=> EventInHand)
      /\ (Unanswered' <=> Unanswered) /\ (Answered' <=> Answered)
      /\ (DataTaken' <=> DataTaken)
  BY DEF Held, EventInHand, Unanswered, Answered, DataTaken
<1>3. BufferInv'
  BY <1>2, BufferStill DEF IInv, BufferInv
<1>4. AnswerInv' /\ PatchInv'
  BY <1>1, <1>2 DEF IInv, AnswerInv, PatchInv, Data
<1>5. TypeOK'
  BY DEF IInv, TypeOK
<1>6. SyncInv' /\ WaitInv'
  BY <1>2 DEF IInv, SyncInv, HostTaking, WaitInv
<1>7. HandledOnce' /\ ResultMatches'
  BY DEF IInv, HandledOnce, IsUnsolicited, ResultMatches, Data
<1>8. QED
  BY <1>1, <1>3, <1>4, <1>5, <1>6, <1>7 DEF IInv

\* Every step keeps it.
LEMMA Steps ==
    ASSUME Paced, IInv, Next
    PROVE  IInv'
<1>1. Before
  BY DEF IInv, Before, PacketInv
<1>2. CASE Finished
  BY <1>2, Stutter DEF Finished
<1>3. CASE ~Finished
  <2>1. PacketInv'
    BY <1>1, <1>3, SpontaneousStep, RespondStep, ReadStep, CallStep, SendStep,
       ReaderStep, HostWaitStep, HostTakeStep DEF Next, Reader, HostStep
  <2>2. QED
    BY <1>1, <2>1, TypeStep, SyncStep, WaitStep, HandledStep, ResultStep
       DEF IInv, Before, PacketInv
<1>4. QED
  BY <1>2, <1>3

\* While the device keeps its pace, every state of the HCI layer satisfies the
\* inductive invariant.
THEOREM Inductive ==
    ASSUME Paced
    PROVE  Spec => []IInv
<1>1. Init => IInv
  BY Initially
<1>2. IInv /\ [Next]_vars => IInv'
  BY Steps, Stutter
<1>3. QED
  BY <1>1, <1>2, PTL DEF Spec

\* Data goes where data is awaited: the host copies a data packet only for the
\* receive it belongs to, when the event of that receive has been taken.
THEOREM DataWhereAwaited ==
    ASSUME Paced
    PROVE  Spec => []Inv
<1>1. IInv => Inv
  <2> SUFFICES ASSUME IInv, hostPC = "copyData" PROVE DataIntoDataBuffer
    BY DEF IInv, Inv, DataIntoDataBuffer
  <2> USE DEF IInv
  <2>1. Held /\ rxBuffer.type = "DATA"
    BY Taking DEF SyncInv
  <2>2. rxBuffer = Data(call) /\ usRxDataPending = 1
    BY <2>1 DEF AnswerInv
  <2>3. usRxEventOpcode = None
    BY <2>2 DEF WaitInv, Answered, Unanswered
  <2>4. QED
    BY <2>2, <2>3 DEF DataIntoDataBuffer
<1>2. QED
  BY <1>1, Inductive, PTL

\* Every call returns with the event that answers it and its own data.
THEOREM OwnResults ==
    ASSUME Paced
    PROVE  Spec => []ResultMatches
<1>1. IInv => ResultMatches
  BY DEF IInv
<1>2. QED
  BY <1>1, Inductive, PTL

\* Every unsolicited event is acted upon once.
THEOREM ActedUponOnce ==
    ASSUME Paced
    PROVE  Spec => []HandledOnce
<1>1. IInv => HandledOnce
  BY DEF IInv
<1>2. QED
  BY <1>1, Inductive, PTL

-----------------------------------------------------------------------------
(* The service to the API functions: one action of CommandService for the   *)
(* call, the answer of the device, the return, and the reading and handling *)
(* of an unsolicited event; every other step is not visible.                *)

\* A thread is in a call.
CallInv == hostPC # "idle" => call > 0

\* A call that is in progress was made.
LEMMA CallsMade ==
    ASSUME Paced
    PROVE  Spec => []CallInv
<1>1. Init => CallInv
  BY DEF Init, CallInv
<1>2. TypeOK /\ CallInv /\ [Next]_vars => CallInv'
  <2> SUFFICES ASSUME TypeOK, CallInv, [Next]_vars
               PROVE  CallInv'
    OBVIOUS
  <2> USE DEF CallInv, HostMay, hciVars, callVars, countVars, devVars
  <2>1. CASE DevSendUnsolicited \/ DevAskPatch \/ DevRespond
    BY <2>1 DEF DevSendUnsolicited, DevAskPatch, DevRespond
  <2>2. CASE Reader
    BY <2>2 DEF Reader, ReaderRead, SpiReceiveHandler, ReaderHandle, ReaderClear
  <2>3. CASE ApiCall
    BY <2>3 DEF ApiCall, TypeOK
  <2>4. CASE HostStep
    <3>1. hostPC # "idle" /\ UNCHANGED call
      BY <2>4 DEF HostStep, hci_command_send, SimpleLinkWaitEvent,
                  SimpleLinkWaitData, HostPoll, HostReadType, HostUnsol,
                  HostDispatch, HostMatch, HostCopyData, HostClear,
                  HostAnswerPatch, HostReturn
    <3>2. QED
      BY <3>1
  <2>5. CASE Finished \/ UNCHANGED vars
    BY <2>5 DEF Finished, vars
  <2>6. QED
    BY <2>1, <2>2, <2>3, <2>4, <2>5 DEF Next
<1>3. IInv => TypeOK
  BY DEF IInv
<1>4. QED
  BY <1>1, <1>2, <1>3, Inductive, PTL DEF Spec

\* Within a call the caller has no reply.
LEMMA NoReplyYet ==
    /\ hostPC # "idle" => Reply = Service!NoReply
    /\ hostPC' # "idle" => Reply' = Service!NoReply
BY DEF Reply, Service!NoReply

\* A step that leaves the call, its phase and the counts alone is not visible.
LEMMA Invisible ==
    ASSUME UNCHANGED <<cmd, call, arrived, handled>>, Phase' = Phase, Reply' = Reply
    PROVE  UNCHANGED Service!vars
BY DEF Service!vars

\* What is missing from a count is what is left of it.
LEMMA Differences == \A a, b \in Nat : a = b - 0 => b - a = 0
OBVIOUS

\* Of the unsolicited events that were read at most one waits to be acted upon,
\* and it waits in the buffer for the reader.
LEMMA Waiting ==
    ASSUME handled \in Nat, arrived \in Nat, HandledOnce
    PROVE  arrived - handled =
               IF readerPC \in {"flag", "handle"} /\ IsUnsolicited(rxBuffer)
               THEN 1 ELSE 0
<1> DEFINE n == IF readerPC \in {"flag", "handle"} /\ IsUnsolicited(rxBuffer)
                THEN 1 ELSE 0
<1>1. handled = arrived - n
  BY DEF HandledOnce
<1>2. n \in Nat
  OBVIOUS
<1> HIDE DEF n
<1>3. arrived - handled = n
  BY <1>1, <1>2
<1>4. QED
  BY <1>3 DEF n

\* The steps of the device: only its answer is visible.
LEMMA DeviceService ==
    ASSUME IInv, DevSendUnsolicited \/ DevAskPatch \/ DevRespond
    PROVE  [Service!Next]_(Service!vars)
<1> USE DEF hciVars, callVars, countVars, devVars
<1>1. UNCHANGED <<hostPC, cmd, call, result, dataResult, arrived, handled>>
  BY DEF DevSendUnsolicited, DevAskPatch, DevRespond
<1>2. Reply' = Reply
  BY <1>1 DEF Reply
<1>3. CASE DevSendUnsolicited \/ DevAskPatch
  <2>1. Phase' = Phase
    BY <1>1, <1>3 DEF DevSendUnsolicited, DevAskPatch, Phase
  <2>2. QED
    BY <1>1, <1>2, <2>1, Invisible
<1>4. CASE DevRespond
  <2>1. inbox # 0 /\ inbox' = 0
    BY <1>4 DEF DevRespond, IInv, TypeOK
  <2>2. hostPC \notin {"idle", "write"}
    BY <2>1, Kinds DEF IInv, AnswerInv, WaitInv, Unanswered
  <2>3. Phase = "asked" /\ Phase' = "executed"
    BY <1>1, <2>1, <2>2 DEF Phase
  <2>4. Service!Execute
    BY <1>1, <1>2, <2>3 DEF Service!Execute
  <2>5. QED
    BY <2>4 DEF Service!Next
<1>5. QED
  BY <1>3, <1>4

\* The steps of the reader: an unsolicited event is read, or acted upon.
LEMMA ReaderService ==
    ASSUME IInv, IInv', Reader
    PROVE  [Service!Next]_(Service!vars)
<1> USE DEF hciVars, callVars, countVars, devVars
<1>1. UNCHANGED <<hostPC, inbox, cmd, call, result, dataResult>>
  BY DEF Reader, ReaderRead, SpiReceiveHandler, ReaderHandle, ReaderClear
<1>2. Reply' = Reply /\ Phase' = Phase
  BY <1>1 DEF Reply, Phase
<1>3. /\ handled \in Nat /\ arrived \in Nat /\ handled' \in Nat /\ arrived' \in Nat
      /\ HandledOnce /\ HandledOnce'
  BY DEF IInv, TypeOK
<1>4. CASE ReaderRead
  <2>1. arrived - handled = 0 /\ UNCHANGED handled
    BY <1>3, <1>4, Waiting DEF ReaderRead
  <2>2. arrived' = arrived \/ arrived' = arrived + 1
    BY <1>3, <1>4 DEF ReaderRead
  <2>3. CASE arrived' = arrived
    BY <1>1, <1>2, <2>1, <2>3, Invisible
  <2>4. CASE arrived' = arrived + 1
    <3>1. arrived' - handled' = 1
      BY <1>3, <2>1, <2>4
    <3>2. Service!Arrive
      BY <1>1, <1>2, <2>1, <3>1 DEF Service!Arrive
    <3>3. QED
      BY <3>2 DEF Service!Next
  <2>5. QED
    BY <2>2, <2>3, <2>4
<1>5. CASE SpiReceiveHandler \/ ReaderClear
  <2>1. UNCHANGED <<arrived, handled>>
    BY <1>5 DEF SpiReceiveHandler, ReaderClear
  <2>2. QED
    BY <1>1, <1>2, <2>1, Invisible
<1>6. CASE ReaderHandle
  <2>1. UNCHANGED arrived /\ (handled' = handled \/ handled' = handled + 1)
    BY <1>3, <1>6 DEF ReaderHandle, UnsolEffect
  <2>2. CASE handled' = handled
    BY <1>1, <1>2, <2>1, <2>2, Invisible
  <2>3. CASE handled' = handled + 1
    <3>1. /\ arrived - handled = 1 \/ arrived - handled = 0
          /\ arrived' - handled' = 1 \/ arrived' - handled' = 0
      <4>1. arrived - handled = 1 \/ arrived - handled = 0
        <5>1. \/ readerPC \in {"flag", "handle"} /\ IsUnsolicited(rxBuffer)
              \/ ~(readerPC \in {"flag", "handle"} /\ IsUnsolicited(rxBuffer))
          OBVIOUS
        <5>2. QED
          BY <1>3, <5>1, Waiting, Zenon
      <4>2. readerPC' \notin {"flag", "handle"}
        BY <1>6 DEF ReaderHandle
      <4>3. (IF readerPC' \in {"flag", "handle"} /\ IsUnsolicited(rxBuffer)'
             THEN 1 ELSE 0) = 0
        BY <4>2, Zenon
      <4>4. handled' = arrived' - 0
        BY <1>3, <4>3, Zenon DEF HandledOnce
      <4>5. arrived' - handled' = 0
        BY <1>3, <4>4, Differences, Zenon
      <4>6. QED
        BY <4>1, <4>5
    <3>2. arrived - handled = 1 /\ arrived' - handled' = 0
      BY <1>3, <2>1, <2>3, <3>1
    <3>3. Service!Handle
      BY <1>1, <1>2, <2>3, <3>2 DEF Service!Handle
    <3>4. QED
      BY <3>3 DEF Service!Next
  <2>4. QED
    BY <2>1, <2>2, <2>3
<1>7. QED
  BY <1>4, <1>5, <1>6 DEF Reader

\* A call begins, and its command is written.
LEMMA CallService ==
    ASSUME IInv, CallInv, ApiCall \/ hci_command_send
    PROVE  [Service!Next]_(Service!vars)
<1> USE DEF hciVars, callVars, countVars, devVars, HostMay
<1>1. CASE ApiCall
  <2>1. hostPC = "idle" /\ hostPC' = "write" /\ UNCHANGED <<arrived, handled>>
    BY <1>1 DEF ApiCall
  <2>2. Phase = "idle" /\ Phase' = "asked"
    BY <2>1 DEF Phase
  <2>3. Reply' = Service!NoReply
    BY <2>1, NoReplyYet
  <2>4. cmd' \in IF call = 0 THEN {"START"} ELSE Service!Commands
    BY <1>1 DEF ApiCall, Service!Commands, Opcodes
  <2>5. call < MaxCommands /\ call' = call + 1
    BY <1>1 DEF ApiCall
  <2>6. Service!Request
    BY <2>1, <2>2, <2>3, <2>4, <2>5 DEF Service!Request
  <2>7. QED
    BY <2>6 DEF Service!Next
<1>2. CASE hci_command_send
  <2>1. hostPC = "write" /\ hostPC' = "setOpcode" /\ inbox' = call
        /\ UNCHANGED <<cmd, call, arrived, handled>>
    BY <1>2 DEF hci_command_send
  <2>2. call # 0
    BY <2>1 DEF CallInv, IInv, TypeOK
  <2>3. Phase' = Phase
    BY <2>1, <2>2 DEF Phase
  <2>4. Reply' = Reply
    BY <2>1, NoReplyYet
  <2>5. QED
    BY <2>1, <2>3, <2>4, Invisible
<1>3. QED
  BY <1>1, <1>2

\* The host waits for packets and takes them: nothing of it is visible.
LEMMA WaitService ==
    ASSUME IInv, HostStep, ~hci_command_send, hostPC' # "idle"
    PROVE  UNCHANGED Service!vars
<1> USE DEF hciVars, callVars, countVars, devVars, HostMay
<1>1. hostPC \notin {"idle", "write"} /\ hostPC' # "write"
  BY DEF HostStep, SimpleLinkWaitEvent, SimpleLinkWaitData, HostPoll, HostReadType,
         HostUnsol, HostDispatch, HostMatch, HostCopyData, HostClear,
         HostAnswerPatch, HostReturn
<1>2. UNCHANGED <<cmd, call, inbox, arrived>>
  BY DEF HostStep, SimpleLinkWaitEvent, SimpleLinkWaitData, HostPoll, HostReadType,
         HostUnsol, HostDispatch, HostMatch, HostCopyData, HostClear,
         HostAnswerPatch, HostReturn
<1>3. UNCHANGED handled
  <2>1. CASE HostUnsol
    <3>1. hostPC = "unsol"
      BY <2>1 DEF HostUnsol
    <3>2. ~UnsolHandles(rxBuffer)
      BY <3>1, Taking DEF IInv, SyncInv
    <3>3. QED
      BY <2>1, <3>2 DEF HostUnsol
  <2>2. CASE ~HostUnsol
    BY <2>2 DEF HostStep, SimpleLinkWaitEvent, SimpleLinkWaitData, HostPoll,
                HostReadType, HostDispatch, HostMatch, HostCopyData, HostClear,
                HostAnswerPatch, HostReturn
  <2>3. QED
    BY <2>1, <2>2
<1>4. Phase' = Phase
  BY <1>1, <1>2 DEF Phase
<1>5. Reply' = Reply
  BY <1>1, NoReplyYet
<1>6. QED
  BY <1>2, <1>3, <1>4, <1>5, Invisible

\* The call returns: the device has executed it, and the reply is its own.
LEMMA ReturnService ==
    ASSUME IInv, CallInv, ResultMatches', HostStep, hostPC' = "idle"
    PROVE  Service!Answered
<1> USE DEF HostMay
<1>1. HostReturn
  BY DEF HostStep, hci_command_send, SimpleLinkWaitEvent, SimpleLinkWaitData, HostPoll,
         HostReadType, HostUnsol, HostDispatch, HostMatch, HostCopyData, HostClear,
         HostAnswerPatch
<1>2. hostPC = "return" /\ usRxEventOpcode = None
  BY <1>1 DEF HostReturn
<1>3. UNCHANGED <<cmd, call, result, dataResult, inbox, arrived, handled>>
  BY <1>1 DEF HostReturn, callVars, devVars, countVars
<1>4. inbox = 0
  BY <1>2 DEF IInv, AnswerInv, Unanswered
<1>5. Phase = "executed" /\ Phase' = "idle"
  BY <1>2, <1>4 DEF Phase
<1>6. call > 0
  BY <1>2 DEF CallInv
<1> DEFINE more == cmd = "RECV" /\ result.tag = "more"
<1>7. /\ result.op = cmd /\ result.id = call
      /\ more => dataResult.id = call
  BY <1>3, <1>6 DEF ResultMatches, Data
<1>8. Reply' = [op |-> cmd, id |-> call, more |-> more,
                data |-> IF more THEN call ELSE 0]
  BY <1>3, <1>6, <1>7 DEF Reply
<1>9. more \in IF cmd = "RECV" THEN BOOLEAN ELSE {FALSE}
  OBVIOUS
<1> HIDE DEF more
<1>10. Reply' \in Service!Replies
  BY <1>8, <1>9 DEF Service!Replies
<1>11. QED
  BY <1>3, <1>5, <1>10 DEF Service!Answered

\* Every step is one of the service, or not visible.
LEMMA ServiceStep ==
    ASSUME IInv, IInv', CallInv, [Next]_vars
    PROVE  [Service!Next]_(Service!vars)
<1>1. CASE HostStep
  <2>1. CASE hostPC' = "idle"
    <3>1. Service!Answered
      BY <1>1, <2>1, ReturnService DEF IInv
    <3>2. QED
      BY <3>1 DEF Service!Next
  <2>2. QED
    BY <1>1, <2>1, WaitService, CallService
<1>2. CASE Finished \/ UNCHANGED vars
  <2>1. UNCHANGED <<hostPC, cmd, call, result, dataResult, inbox, arrived, handled>>
    BY <1>2 DEF Finished, vars, callVars, devVars, countVars
  <2>2. Phase' = Phase /\ Reply' = Reply
    BY <2>1 DEF Phase, Reply
  <2>3. QED
    BY <2>1, <2>2, Invisible
<1>3. QED
  BY <1>1, <1>2, DeviceService, ReaderService, CallService DEF Next

\* While the device keeps its pace the HCI layer gives the API functions the
\* service they are written for: each command is executed once and answered with
\* its own event and its own data, and unsolicited events neither disturb it nor
\* are lost or acted upon twice.
THEOREM ControllerImplementsService ==
    ASSUME Paced
    PROVE  Spec => ImplementsService
<1>1. Init => Service!Init
  <2> SUFFICES ASSUME Init PROVE Service!Init
    OBVIOUS
  <2>1. hostPC = "idle" /\ call = 0 /\ cmd = "START" /\ handled = 0 /\ arrived = 0
    BY DEF Init
  <2>2. Phase = "idle" /\ Reply = Service!NoReply
    BY <2>1 DEF Phase, Reply, Service!NoReply
  <2>3. QED
    BY <2>1, <2>2 DEF Service!Init
<1>2. IInv /\ IInv' /\ CallInv /\ [Next]_vars => [Service!Next]_(Service!vars)
  BY ServiceStep
<1>3. QED
  BY <1>1, <1>2, Inductive, CallsMade, PTL DEF Spec, ImplementsService, Service!Spec

===============================================================================
