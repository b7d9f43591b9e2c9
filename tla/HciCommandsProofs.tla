-------------------------- MODULE HciCommandsProofs --------------------------
(***************************************************************************)
(* Proofs about HciCommands, for arguments of every length, and about the  *)
(* pure functions beside it: the lengths that SpiReadAfterHeader reads     *)
(* (PacketRead), the loop of cc3000_scan (ScanResults) and the profile     *)
(* that wlan_smart_config_process recovers (SmartConfig).                  *)
(*                                                                         *)
(* The lemmas about the table of API functions (LengthsDeclared,           *)
(* ResultsAwaited) are used at the steps that build a frame and that write *)
(* a result.  A frame is on the bus only if the guard byte is intact, so   *)
(* its arguments are short enough for the 8 bit length (FrameInv).         *)
(* The smart config proof follows the profile from the file it was stored  *)
(* in (Layout): each decryption replaces its block and keeps what lies     *)
(* around it (BlockReplaced), and the passphrase is then found (KeyFound). *)
(***************************************************************************)
EXTENDS PureFunctions, Integers, SequenceTheorems, WellFoundedInduction, TLAPS

\* What the proofs need of every row of the table.
LengthsOK(c) == /\ c.header \in {HCI_CMND_HEADER_SIZE, HCI_DATA_HEADER_SIZE}
                /\ c.written \in Nat /\ c.declared \in Nat
                /\ c.declared - c.written \in Unwritten(c)
                /\ c.declared <= c.written \/ c.declared <= 44

ResultOK(c) == /\ c.room \in Nat
               /\ c.event = EventOf(c.op)
               /\ ResultBytes(c.event) \in Nat
               /\ ResultBytes(c.event) <= c.room
               /\ c.op \notin {"SEND", "SENDTO"} =>
                    ResultBytes(c.event) = c.room

\* Every function of wlan.c declares the bytes it writes.
LEMMA WlanLengths == \A c \in WlanCalls : LengthsOK(c)
<1> USE LengthsAssumption
    DEF LengthsOK, Unwritten, Command, HCI_CMND_HEADER_SIZE, HCI_DATA_HEADER_SIZE
<1>1. ASSUME NEW s \in SsidLens, NEW k \in KeyLens
      PROVE  LengthsOK(wlan_connect(s, k))
  BY DEF wlan_connect
<1>2. ASSUME NEW s \in Nat, NEW k \in Nat
      PROVE  /\ LengthsOK(wlan_add_profile("none", s, 0))
             /\ LengthsOK(wlan_add_profile("wep", s, k))
             /\ LengthsOK(wlan_add_profile("wpa", s, k))
  BY DEF wlan_add_profile
<1>3. \A c \in {SimpleLink_Init_Start, wlan_start, wlan_disconnect,
                wlan_ioctl_set_connection_policy, wlan_ioctl_del_profile,
                wlan_ioctl_get_scan_results, wlan_ioctl_set_scan_params,
                wlan_ioctl_statusget, wlan_smart_config_start,
                wlan_smart_config_stop, wlan_smart_config_set_prefix} :
        LengthsOK(c)
  BY DEF SimpleLink_Init_Start, wlan_start, wlan_disconnect,
         wlan_ioctl_set_connection_policy, wlan_ioctl_del_profile,
         wlan_ioctl_get_scan_results, wlan_ioctl_set_scan_params,
         wlan_ioctl_statusget, wlan_smart_config_start,
         wlan_smart_config_stop, wlan_smart_config_set_prefix
<1>4. QED
  <2>1. SUFFICES ASSUME NEW c \in WlanCalls PROVE LengthsOK(c)
    OBVIOUS
  <2> HIDE DEF LengthsOK, Unwritten, Command
  <2>2. QED
    BY <1>1, <1>2, <1>3 DEF WlanCalls

\* Every function of netapp.c declares the bytes it writes, but for the timers.
LEMMA NetappLengths == \A c \in NetappCalls : LengthsOK(c)
  BY DEF NetappCalls, LengthsOK, Unwritten, Command, HCI_CMND_HEADER_SIZE,
         netapp_dhcp, netapp_timeout_values, netapp_ping_send,
         netapp_ping_report, netapp_ping_stop, netapp_ipconfig,
         netapp_arp_flush, netapp_set_debug_level

\* The function of nvmem.c on the data channel declares the bytes it writes.
LEMMA NvmemWriteLengths == \A len \in Nat : LengthsOK(nvmem_write(len))
  BY DEF nvmem_write, LengthsOK, Unwritten, DataCommand, Command,
         HCI_CMND_HEADER_SIZE, HCI_DATA_HEADER_SIZE

\* So do the others of nvmem.c.
LEMMA NvmemLengths == \A c \in NvmemCalls : LengthsOK(c)
<1>1. \A c \in {nvmem_read, nvmem_read_sp_version, nvmem_create_entry} :
        LengthsOK(c)
  BY DEF nvmem_read, nvmem_read_sp_version, nvmem_create_entry, LengthsOK,
         Unwritten, Command, HCI_CMND_HEADER_SIZE
<1>2. QED
  BY <1>1, NvmemWriteLengths, LengthsAssumption DEF NvmemCalls

\* Every function of socket.c declares the bytes it writes, but for select.
LEMMA SocketLengths == \A c \in SocketCalls : LengthsOK(c)
<1> USE LengthsAssumption
    DEF LengthsOK, Unwritten, Command, DataCommand, HCI_CMND_HEADER_SIZE,
        HCI_DATA_HEADER_SIZE
<1>1. \A c \in {socket, closesocket, accept, bind, listen, connect, getsockopt,
                getmssvalue, simple_link_recv("RECV"),
                simple_link_recv("RECVFROM")} : LengthsOK(c)
  BY DEF socket, closesocket, accept, bind, listen, connect, getsockopt,
         getmssvalue, simple_link_recv
<1>2. \A t \in BOOLEAN : LengthsOK(select(t))
  BY DEF select
<1>3. ASSUME NEW len \in Nat
      PROVE  /\ LengthsOK(gethostbyname(len)) /\ LengthsOK(setsockopt(len))
             /\ LengthsOK(mdnsAdvertiser(len))
             /\ LengthsOK(simple_link_send("SEND", len))
             /\ LengthsOK(simple_link_send("SENDTO", len))
  BY DEF gethostbyname, setsockopt, mdnsAdvertiser, simple_link_send
<1>4. QED
  <2>1. SUFFICES ASSUME NEW c \in SocketCalls PROVE LengthsOK(c)
    OBVIOUS
  <2> HIDE DEF LengthsOK, Unwritten, Command, DataCommand
  <2>2. QED
    BY <1>1, <1>2, <1>3 DEF SocketCalls

\* A frame announces what its command has written.
LEMMA LengthsDeclared == \A c \in AllCalls : LengthsOK(c)
<1>1. LengthsOK(EventMaskCommand)
  BY DEF EventMaskCommand, LengthsOK, Unwritten, Command, HCI_CMND_HEADER_SIZE
<1>2. \A len \in 1 .. SP_PORTION_SIZE : LengthsOK(nvmem_write(len))
  BY NvmemWriteLengths DEF SP_PORTION_SIZE
<1>3. QED
  BY <1>1, <1>2, WlanLengths, NetappLengths, NvmemLengths, SocketLengths
  DEF AllCalls, Calls

-----------------------------------------------------------------------------
\* Every function of wlan.c has a variable of the size of its result.
LEMMA WlanResults == \A c \in WlanCalls : ResultOK(c)
<1> USE DEF ResultOK, ResultBytes, EventOf, StatusEvents, WordEvents, Command
<1>1. \A s, k : ResultOK(wlan_connect(s, k))
  BY DEF wlan_connect
<1>2. \A s, k : /\ ResultOK(wlan_add_profile("none", s, 0))
                /\ ResultOK(wlan_add_profile("wep", s, k))
                /\ ResultOK(wlan_add_profile("wpa", s, k))
  BY DEF wlan_add_profile
<1>3. \A c \in {SimpleLink_Init_Start, wlan_start, wlan_disconnect,
                wlan_ioctl_set_connection_policy, wlan_ioctl_del_profile,
                wlan_ioctl_get_scan_results, wlan_ioctl_set_scan_params,
                wlan_ioctl_statusget, wlan_smart_config_start,
                wlan_smart_config_stop, wlan_smart_config_set_prefix} :
        ResultOK(c)
  BY DEF SimpleLink_Init_Start, wlan_start, wlan_disconnect,
         wlan_ioctl_set_connection_policy, wlan_ioctl_del_profile,
         wlan_ioctl_get_scan_results, wlan_ioctl_set_scan_params,
         wlan_ioctl_statusget, wlan_smart_config_start,
         wlan_smart_config_stop, wlan_smart_config_set_prefix
<1>4. QED
  <2>1. SUFFICES ASSUME NEW c \in WlanCalls PROVE ResultOK(c)
    OBVIOUS
  <2> HIDE DEF ResultOK, Command
  <2>2. QED
    BY <1>1, <1>2, <1>3 DEF WlanCalls

\* So has every function of netapp.c.
LEMMA NetappResults == \A c \in NetappCalls : ResultOK(c)
  BY DEF NetappCalls, ResultOK, ResultBytes, EventOf, StatusEvents, WordEvents,
         Command, netapp_dhcp, netapp_timeout_values, netapp_ping_send,
         netapp_ping_report, netapp_ping_stop, netapp_ipconfig,
         netapp_arp_flush, netapp_set_debug_level

\* So has the function of nvmem.c on the data channel.
LEMMA NvmemWriteResults == \A len : ResultOK(nvmem_write(len))
  BY DEF nvmem_write, ResultOK, ResultBytes, EventOf, StatusEvents, WordEvents,
         DataCommand, Command

\* So have the others of nvmem.c.
LEMMA NvmemResults == \A c \in NvmemCalls : ResultOK(c)
<1>1. \A c \in {nvmem_read, nvmem_read_sp_version, nvmem_create_entry} :
        ResultOK(c)
  BY DEF nvmem_read, nvmem_read_sp_version, nvmem_create_entry, ResultOK,
         ResultBytes, EventOf, StatusEvents, WordEvents, Command
<1>2. QED
  BY <1>1, NvmemWriteResults DEF NvmemCalls

\* So has every function of socket.c.
LEMMA SocketResults == \A c \in SocketCalls : ResultOK(c)
<1> USE DEF ResultOK, ResultBytes, EventOf, StatusEvents, WordEvents, Command,
            DataCommand
<1>1. \A c \in {socket, closesocket, accept, bind, listen, connect, getsockopt,
                getmssvalue, simple_link_recv("RECV"),
                simple_link_recv("RECVFROM")} : ResultOK(c)
  BY DEF socket, closesocket, accept, bind, listen, connect, getsockopt,
         getmssvalue, simple_link_recv
<1>2. \A t : ResultOK(select(t))
  BY DEF select
<1>3. \A len : /\ ResultOK(gethostbyname(len)) /\ ResultOK(setsockopt(len))
               /\ ResultOK(mdnsAdvertiser(len))
               /\ ResultOK(simple_link_send("SEND", len))
               /\ ResultOK(simple_link_send("SENDTO", len))
  BY DEF gethostbyname, setsockopt, mdnsAdvertiser, simple_link_send
<1>4. QED
  <2>1. SUFFICES ASSUME NEW c \in SocketCalls PROVE ResultOK(c)
    OBVIOUS
  <2> HIDE DEF ResultOK, Command, DataCommand
  <2>2. QED
    BY <1>1, <1>2, <1>3 DEF SocketCalls

\* A call awaits the event that answers its command, with a result variable
\* of the size the dispatcher writes.
LEMMA ResultsAwaited == \A c \in AllCalls : ResultOK(c)
<1>1. ResultOK(EventMaskCommand)
  BY DEF EventMaskCommand, ResultOK, ResultBytes, EventOf, StatusEvents,
         WordEvents, Command
<1>2. QED
  BY <1>1, WlanResults, NetappResults, NvmemWriteResults, NvmemResults,
     SocketResults
  DEF AllCalls, Calls

-----------------------------------------------------------------------------
(* Frames and results.  The lengths of portions come from the local         *)
(* variables of nvmem_write_patch (PatchTypes).                            *)

PatchTypes == /\ patch \in [phase : {"none", "active", "ok", "failed"},
                            total : Nat, left : Nat, offset : Nat, from : Nat]
              /\ patch.total < Short
              /\ patch.left <= patch.total
              /\ patch.offset = patch.from
              /\ patch.from = patch.total - patch.left

FrameOf(c) == [length |-> Hci(c).length, spi |-> Padded(Hci(c).size),
               bytes |-> Padded(Hci(c).size) + SPI_HEADER_SIZE]

\* Once the guard byte is lost the call that did it stays where it is.
GuardInv == /\ guard \in BOOLEAN
            /\ ~guard => ~Fits(call) /\ pc \in {"filled", "stopped"}
            /\ pc = "stopped" => ~guard

FrameInv == frame # NoFrame => frame = FrameOf(call)

ResultInv == /\ answer # NoAnswer => answer.event = EventOf(call.op)
             /\ pc \in {"data", "done"} => wrote = ResultBytes(EventOf(call.op))

CallInv == call \in AllCalls /\ GuardInv /\ FrameInv /\ ResultInv

\* Filling the buffer preserves the invariant.
LEMMA FillStep == ASSUME NEW c \in AllCalls, CallInv, Fill(c) PROVE CallInv'
  BY DEF Fill, CallInv, GuardInv, FrameInv, ResultInv

\* Every step preserves the invariant.
LEMMA CallInvStep == PatchTypes /\ CallInv /\ [Next]_vars => CallInv'
<1> SUFFICES ASSUME PatchTypes, CallInv, [Next]_vars PROVE CallInv'
  OBVIOUS
<1>1. CASE Call
  BY <1>1, FillStep DEF Call, AllCalls
<1>2. CASE wlan_set_event_mask
  <2>1. CASE Fill(EventMaskCommand)
    BY <2>1, FillStep DEF AllCalls
  <2>2. CASE UNCHANGED callVars
    BY <2>2 DEF CallInv, GuardInv, FrameInv, ResultInv, callVars
  <2>3. QED
    BY <1>2, <2>1, <2>2 DEF wlan_set_event_mask
<1>3. CASE NextPortion
  <2>1. nvmem_write(PortionLength) \in AllCalls
    <3>1. PortionLength \in 1 .. SP_PORTION_SIZE
      BY <1>3 DEF NextPortion, PatchTypes, PortionLength, SP_PORTION_SIZE
    <3>2. QED
      BY <3>1 DEF AllCalls
  <2>2. QED
    BY <1>3, <2>1, FillStep DEF NextPortion
<1>4. CASE BeginPatch
  BY <1>4 DEF BeginPatch, CallInv, GuardInv, FrameInv, ResultInv
<1>5. CASE EndPatch
  BY <1>5 DEF EndPatch, callVars, CallInv, GuardInv, FrameInv, ResultInv
<1>6. CASE SpiWrite
  BY <1>6 DEF SpiWrite, patchVars, CallInv, GuardInv, FrameInv, ResultInv,
              FrameOf
<1>7. CASE DeviceAnswer
  BY <1>7 DEF DeviceAnswer, CallInv, GuardInv, FrameInv, ResultInv, NoAnswer
<1>8. CASE HandleEvent
  BY <1>8 DEF HandleEvent, patchVars, CallInv, GuardInv, FrameInv, ResultInv
<1>9. CASE HandleData
  BY <1>9 DEF HandleData, patchVars, CallInv, GuardInv, FrameInv, ResultInv
<1>10. CASE Return
  BY <1>10 DEF Return, CallInv, GuardInv, FrameInv, ResultInv
<1>11. CASE UNCHANGED vars
  BY <1>11 DEF vars, callVars, CallInv, GuardInv, FrameInv, ResultInv
<1>12. QED
  BY <1>1, <1>2, <1>3, <1>4, <1>5, <1>6, <1>7, <1>8, <1>9, <1>10, <1>11
  DEF Next, Stopped

\* A step of nvmem_write_patch keeps its local variables in step.
LEMMA PatchTypesStep == PatchTypes /\ [Next]_vars => PatchTypes'
<1> SUFFICES ASSUME PatchTypes, [Next]_vars PROVE PatchTypes'
  OBVIOUS
<1>1. CASE BeginPatch
  <2>1. PICK n \in PatchLens :
          patch' = [NoPatch EXCEPT !.phase = "active", !.total = n, !.left = n]
    BY <1>1 DEF BeginPatch
  <2>2. n \in Nat /\ n < Short
    BY PatchLensAssumption DEF Short
  <2>3. patch' = [phase |-> "active", total |-> n, left |-> n, offset |-> 0,
                  from |-> 0]
    BY <2>1 DEF NoPatch
  <2>4. QED
    BY <2>2, <2>3 DEF PatchTypes
<1>2. CASE EndPatch
  BY <1>2 DEF EndPatch, PatchTypes
<1>3. CASE Return
  <2>1. CASE Patching /\ patch.left >= SP_PORTION_SIZE
    <3>1. patch' = [patch EXCEPT !.offset = (@ + SP_PORTION_SIZE) % Short,
                                 !.from = @ + SP_PORTION_SIZE,
                                 !.left = @ - SP_PORTION_SIZE]
      BY <1>3, <2>1 DEF Return, AfterPortion
    <3>2. (patch.offset + SP_PORTION_SIZE) % Short = patch.offset + SP_PORTION_SIZE
      BY <2>1 DEF PatchTypes, SP_PORTION_SIZE, Short
    <3>3. patch.offset + SP_PORTION_SIZE \in Nat /\ patch.from + SP_PORTION_SIZE \in Nat
          /\ patch.left - SP_PORTION_SIZE \in Nat
      BY <2>1 DEF PatchTypes, SP_PORTION_SIZE
    <3>4. patch' = [phase |-> patch.phase, total |-> patch.total,
                    left |-> patch.left - SP_PORTION_SIZE,
                    offset |-> patch.offset + SP_PORTION_SIZE,
                    from |-> patch.from + SP_PORTION_SIZE]
      BY <3>1, <3>2 DEF PatchTypes
    <3>5. QED
      BY <2>1, <3>3, <3>4 DEF PatchTypes, SP_PORTION_SIZE
  <2>2. CASE ~(Patching /\ patch.left >= SP_PORTION_SIZE)
    BY <1>3, <2>2 DEF Return, AfterPortion, PatchTypes
  <2>3. QED
    BY <2>1, <2>2
<1>4. CASE UNCHANGED patch
  BY <1>4 DEF PatchTypes
<1>5. QED
  BY <1>1, <1>2, <1>3, <1>4
  DEF Next, Call, wlan_set_event_mask, NextPortion, SpiWrite, DeviceAnswer,
      HandleEvent, HandleData, Stopped, vars, patchVars

-----------------------------------------------------------------------------
(* What nvmem_write_patch has written.                                     *)

Reached(n) == n = 0 \/ \E p \in flash : p.at + p.len = n
Unanswered == pc = "filled" \/ (pc = "sent" /\ answer = NoAnswer)
Answered == pc \in {"data", "done"} \/ (pc = "sent" /\ answer # NoAnswer)

PortionsInOrder == \A p \in flash : p.at = p.from /\ Reached(p.at)

FlashInv ==
  /\ status \in {0, 1}
  /\ pc = "filled" => answer = NoAnswer
  /\ Unanswered => status = 0
  /\ PortionsInOrder
  /\ Patching /\ pc # "idle" => call.op = "NVMEM_WRITE" /\ patch.left # 0
  /\ Patching /\ status = 0 /\ (pc = "idle" \/ Unanswered) => Reached(patch.offset)
  /\ Patching /\ status = 0 /\ Answered => Reached(patch.offset + PortionLength)
  /\ patch.phase = "ok" => Reached(patch.total)

\* A portion that the device has written is one more place reached.
LEMMA FlashInvAnswer == PatchTypes /\ FlashInv /\ DeviceAnswer => FlashInv'
<1> SUFFICES ASSUME PatchTypes, FlashInv, DeviceAnswer PROVE FlashInv'
  OBVIOUS
<1>1. call.op = "NVMEM_WRITE" => answer' # NoAnswer
  BY DEF DeviceAnswer, NoAnswer, EventOf
<1>2. UNCHANGED <<pc, call, patch>> /\ pc = "sent" /\ answer = NoAnswer
  BY DEF DeviceAnswer
<1>3. CASE flash' = flash /\ ~(Patching /\ status' = 0)
  BY <1>1, <1>2, <1>3
  DEF FlashInv, DeviceAnswer, DeviceWrites, PortionsInOrder, Reached, Unanswered,
      Answered, Patching, PortionLength
<1>4. CASE Patching /\ status' = 0
  <2> DEFINE new == [at |-> patch.offset, from |-> patch.from,
                     len |-> PortionLength]
  <2>1. call.op = "NVMEM_WRITE"
    BY <1>2, <1>4 DEF FlashInv
  <2>2. flash' = flash \cup {new}
    BY <1>4, <2>1 DEF DeviceAnswer, DeviceWrites
  <2>3. status = 0 /\ Reached(patch.offset)
    BY <1>2, <1>4 DEF FlashInv, Unanswered
  <2>4. new.at = new.from /\ Reached(new.at)
    BY <2>3 DEF PatchTypes
  <2>5. PortionsInOrder'
    BY <2>2, <2>4 DEF FlashInv, PortionsInOrder, Reached
  <2>6. Reached(patch.offset + PortionLength)'
    <3>1. new \in flash' /\ new.at + new.len = patch.offset + PortionLength
      BY <2>2
    <3>2. (patch.offset + PortionLength)' = patch.offset + PortionLength
      BY <1>2 DEF PortionLength
    <3>3. QED
      BY <3>1, <3>2 DEF Reached
  <2>7. QED
    BY <1>1, <1>2, <1>4, <2>1, <2>5, <2>6 DEF FlashInv, Unanswered, Answered, Patching
<1>5. QED
  BY <1>2, <1>3, <1>4 DEF DeviceAnswer, DeviceWrites, FlashInv

\* Every step preserves the invariant.
LEMMA FlashInvStep ==
  PatchTypes /\ CallInv /\ FlashInv /\ [Next]_vars => FlashInv'
<1> SUFFICES ASSUME PatchTypes, CallInv, FlashInv, [Next]_vars PROVE FlashInv'
  OBVIOUS
<1> USE DEF FlashInv, PortionsInOrder, Reached, Unanswered, Answered, Patching,
            PortionLength
<1>1. CASE Call
  BY <1>1 DEF Call, Fill, patchVars
<1>2. CASE wlan_set_event_mask
  BY <1>2 DEF wlan_set_event_mask, Fill, callVars, patchVars
<1>3. CASE BeginPatch
  BY <1>3 DEF BeginPatch, NoPatch
<1>4. CASE NextPortion
  <2>1. nvmem_write(PortionLength).op = "NVMEM_WRITE"
    BY DEF nvmem_write, DataCommand, Command
  <2>2. QED
    BY <1>4, <2>1 DEF NextPortion, Fill, patchVars
<1>5. CASE EndPatch
  <2>1. status = 0 => patch.offset = patch.total
    BY <1>5 DEF EndPatch, PatchTypes
  <2>2. QED
    BY <1>5, <2>1 DEF EndPatch, callVars, PatchTypes
<1>6. CASE SpiWrite
  BY <1>6 DEF SpiWrite, patchVars
<1>7. CASE DeviceAnswer
  BY <1>7, FlashInvAnswer
<1>8. CASE HandleEvent
  BY <1>8 DEF HandleEvent, patchVars
<1>9. CASE HandleData
  BY <1>9 DEF HandleData, patchVars
<1>10. CASE Return
  <2>1. CASE Patching /\ patch.left >= SP_PORTION_SIZE
    <3>1. patch'.offset = patch.offset + PortionLength
      BY <1>10, <2>1
      DEF Return, AfterPortion, PatchTypes, SP_PORTION_SIZE, Short
    <3>2. patch'.phase = "active" /\ patch'.total = patch.total
      BY <1>10, <2>1 DEF Return, AfterPortion, PatchTypes
    <3>3. QED
      BY <1>10, <3>1, <3>2 DEF Return
  <2>2. CASE Patching /\ ~(patch.left >= SP_PORTION_SIZE)
    <3>1. patch.offset + PortionLength = patch.total
      BY <2>2 DEF PatchTypes
    <3>2. patch' = [patch EXCEPT !.phase = IF status = 0 THEN "ok" ELSE "failed"]
      BY <1>10, <2>2 DEF Return, AfterPortion
    <3>3. QED
      BY <1>10, <2>2, <3>1, <3>2 DEF Return, PatchTypes
  <2>3. CASE ~Patching
    BY <1>10, <2>3 DEF Return
  <2>4. QED
    BY <2>1, <2>2, <2>3
<1>11. CASE UNCHANGED vars
  BY <1>11 DEF vars, callVars, patchVars
<1>12. QED
  BY <1>1, <1>2, <1>3, <1>4, <1>5, <1>6, <1>7, <1>8, <1>9, <1>10, <1>11
  DEF Next, Stopped

-----------------------------------------------------------------------------
IInv == PatchTypes /\ CallInv /\ FlashInv

\* The initial states satisfy the invariant.
LEMMA IInvInit == Init => IInv
<1> SUFFICES ASSUME Init PROVE IInv
  OBVIOUS
<1>1. PatchTypes
  BY DEF Init, PatchTypes, NoPatch, Short
<1>2. CallInv
  <2>1. call \in AllCalls
    BY DEF Init, AllCalls, Calls, WlanCalls
  <2>2. GuardInv
    BY DEF Init, GuardInv
  <2>3. QED
    BY <2>1, <2>2 DEF Init, CallInv, FrameInv, ResultInv
<1>3. FlashInv
  BY DEF Init, FlashInv, PortionsInOrder, Reached, Unanswered, Answered,
         Patching, NoPatch
<1>4. QED
  BY <1>1, <1>2, <1>3 DEF IInv

\* The inductive invariant holds in every reachable state.
THEOREM Inductive == Spec => []IInv
<1>1. IInv /\ [Next]_vars => IInv'
  BY PatchTypesStep, CallInvStep, FlashInvStep DEF IInv
<1>2. QED
  BY <1>1, IInvInit, PTL DEF Spec

\* Arguments that leave the guard byte intact are short enough for the length
\* fields: nothing is cut off.
LEMMA HciLengths ==
  ASSUME NEW c, LengthsOK(c), Fits(c)
  PROVE  /\ Hci(c).length = c.declared
         /\ Hci(c).size = c.declared + c.header
<1>1. c.written \in Nat /\ c.declared \in Nat /\ c.declared < 126
  BY DEF LengthsOK, Fits, EndOf, SPI_HEADER_SIZE, HCI_CMND_HEADER_SIZE,
         HCI_DATA_HEADER_SIZE, CC3000_SPI_TX_MAGIC_INDEX, CC3000_TX_BUFFER_SIZE
<1>2. c.declared % Byte = c.declared /\ c.declared % Short = c.declared
      /\ (c.declared + HCI_DATA_HEADER_SIZE) % Short
           = c.declared + HCI_DATA_HEADER_SIZE
  BY <1>1 DEF Byte, Short, HCI_DATA_HEADER_SIZE
<1>3. QED
  BY <1>2 DEF LengthsOK, Hci, CommandFrame, DataFrame, HCI_CMND_HEADER_SIZE,
              HCI_DATA_HEADER_SIZE

\* The frame of a command that fits the buffer, whatever its lengths, has an even
\* number of bytes, announces the HCI packet it carries, and ends before the
\* guard byte of the transmit buffer.
THEOREM FramesWellFormed == Spec => []FrameOnBus
<1>1. ASSUME IInv PROVE FrameOnBus
  <2>1. SUFFICES ASSUME frame # NoFrame, Fits(call) PROVE FrameOnBus
    BY DEF FrameOnBus
  <2>2. frame = FrameOf(call)
    BY <1>1, <2>1 DEF IInv, CallInv, FrameInv
  <2>3. LengthsOK(call)
    BY <1>1, LengthsDeclared DEF IInv, CallInv
  <2>4. /\ Hci(call).length = call.declared
        /\ Hci(call).size = call.declared + call.header
    BY <2>1, <2>3, HciLengths
  <2>5. /\ call.declared \in Nat /\ call.header \in {4, 5}
        /\ call.declared + call.header <= 125
    BY <2>1, <2>3
    DEF LengthsOK, Fits, EndOf, SPI_HEADER_SIZE, HCI_CMND_HEADER_SIZE,
        HCI_DATA_HEADER_SIZE, CC3000_SPI_TX_MAGIC_INDEX, CC3000_TX_BUFFER_SIZE
  <2> DEFINE n == call.declared + call.header
  <2>6. /\ Padded(n) \in {n, n + 1} /\ Padded(n) % 2 = 1 /\ Padded(n) <= 125
    BY <2>5 DEF Padded
  <2>7. frame.length = call.declared /\ frame.spi = Padded(n)
        /\ frame.bytes = Padded(n) + 5
    BY <2>2, <2>4 DEF FrameOf, SPI_HEADER_SIZE
  <2>8. (Padded(n) + 5) % 2 = 0
    BY <2>5, <2>6
  <2>9. QED
    BY <2>5, <2>6, <2>7, <2>8
    DEF FrameOnBus, SPI_HEADER_SIZE, CC3000_SPI_TX_MAGIC_INDEX,
        CC3000_TX_BUFFER_SIZE
<1>2. QED
  BY <1>1, Inductive, PTL

\* The frame of a command that fits the buffer, whatever its lengths, announces
\* exactly what its function has written, but for the two commands of `Unwritten'.
THEOREM FramesOwnBytes == Spec => []OwnBytesOnly
<1>1. ASSUME IInv, frame # NoFrame, Fits(call)
      PROVE  frame.length - call.written \in Unwritten(call)
  <2>1. frame = FrameOf(call)
    BY <1>1 DEF IInv, CallInv, FrameInv
  <2>2. LengthsOK(call)
    BY <1>1, LengthsDeclared DEF IInv, CallInv
  <2>3. frame.length = call.declared
    BY <1>1, <2>1, <2>2, HciLengths DEF FrameOf
  <2>4. QED
    BY <2>2, <2>3 DEF LengthsOK
<1>2. QED
  BY <1>1, Inductive, PTL DEF OwnBytesOnly

\* The dispatcher writes a result of exactly the size of the variable that
\* waits for it.
THEOREM ResultsFit == Spec => []ResultExact
<1>1. IInv => ResultExact
  BY ResultsAwaited DEF IInv, CallInv, ResultInv, ResultOK, ResultExact
<1>2. QED
  BY <1>1, Inductive, PTL

\* A patch of any length that a 16 bit offset can address is written portion
\* by portion to the place it comes from, completely if the call succeeds.
THEOREM PatchesWritten == Spec => []PatchWritten
<1>1. IInv => PatchWritten
  BY DEF IInv, PatchTypes, FlashInv, PortionsInOrder, Reached, PatchWritten
<1>2. QED
  BY <1>1, Inductive, PTL

-----------------------------------------------------------------------------
(* The guard byte.  One bound for each argument that a caller chooses the   *)
(* length of; together they are not only enough but all that is needed.    *)

\* The functions of wlan.c: the longest frame is a profile with a passphrase.
LEMMA WlanFits == \A c \in WlanCalls : Fits(c) \/ c \in OverLong
<1> USE LengthsAssumption
    DEF Fits, EndOf, Command, SPI_HEADER_SIZE, HCI_CMND_HEADER_SIZE,
        CC3000_SPI_TX_MAGIC_INDEX, CC3000_TX_BUFFER_SIZE
<1>1. ASSUME NEW s \in Nat, NEW k \in Nat
      PROVE  /\ s + k <= 93 => Fits(wlan_connect(s, k))
             /\ s + k <= 77 => Fits(wlan_add_profile("wpa", s, k))
             /\ s + 4*k <= 85 => Fits(wlan_add_profile("wep", s, k))
             /\ s <= 97 => Fits(wlan_add_profile("none", s, 0))
  BY DEF wlan_connect, wlan_add_profile
<1>2. \A c \in {SimpleLink_Init_Start, wlan_start, wlan_disconnect,
                wlan_ioctl_set_connection_policy, wlan_ioctl_del_profile,
                wlan_ioctl_get_scan_results, wlan_ioctl_set_scan_params,
                wlan_ioctl_statusget, wlan_smart_config_start,
                wlan_smart_config_stop, wlan_smart_config_set_prefix} : Fits(c)
  BY DEF SimpleLink_Init_Start, wlan_start, wlan_disconnect,
         wlan_ioctl_set_connection_policy, wlan_ioctl_del_profile,
         wlan_ioctl_get_scan_results, wlan_ioctl_set_scan_params,
         wlan_ioctl_statusget, wlan_smart_config_start,
         wlan_smart_config_stop, wlan_smart_config_set_prefix
<1> HIDE DEF Fits, Command
<1>3. ASSUME NEW s \in SsidLens, NEW k \in KeyLens
      PROVE  /\ Fits(wlan_connect(s, k)) \/ wlan_connect(s, k) \in OverLong
             /\ \/ Fits(wlan_add_profile("wpa", s, k))
                \/ wlan_add_profile("wpa", s, k) \in OverLong
  <2>1. s \in Nat /\ k \in Nat
    OBVIOUS
  <2> DEFINE p == <<s, k>>
  <2>a. p \in SsidLens \X KeyLens /\ p[1] = s /\ p[2] = k
    OBVIOUS
  <2> HIDE DEF p
  <2>2. s + k > 93 => wlan_connect(s, k) \in OverLong
    BY <2>a DEF OverLong
  <2>3. s + k > 77 => wlan_add_profile("wpa", s, k) \in OverLong
    BY <2>a DEF OverLong
  <2>4. QED
    BY <1>1, <2>1, <2>2, <2>3
<1>4. ASSUME NEW s \in SsidLens, NEW k \in WepKeyLens
      PROVE  \/ Fits(wlan_add_profile("wep", s, k))
             \/ wlan_add_profile("wep", s, k) \in OverLong
  <2>1. s \in Nat /\ k \in Nat
    OBVIOUS
  <2> DEFINE p == <<s, k>>
  <2>a. p \in SsidLens \X WepKeyLens /\ p[1] = s /\ p[2] = k
    OBVIOUS
  <2> HIDE DEF p
  <2>2. s + 4*k > 85 => wlan_add_profile("wep", s, k) \in OverLong
    BY <2>a DEF OverLong
  <2>3. QED
    BY <1>1, <2>1, <2>2
<1>5. ASSUME NEW s \in SsidLens
      PROVE  \/ Fits(wlan_add_profile("none", s, 0))
             \/ wlan_add_profile("none", s, 0) \in OverLong
  <2>1. s \in Nat /\ 0 \in Nat
    OBVIOUS
  <2>2. s > 97 => wlan_add_profile("none", s, 0) \in OverLong
    BY DEF OverLong
  <2>3. QED
    BY <1>1, <2>1, <2>2
<1> HIDE DEF OverLong
<1>6. QED
  BY <1>2, <1>3, <1>4, <1>5 DEF WlanCalls

\* The bounds of the functions with data, an option or a name.
LEMMA DataFits ==
    ASSUME NEW len \in Nat
    PROVE  /\ Fits(gethostbyname(len)) <=> len <= 113
           /\ Fits(setsockopt(len)) <=> len <= 101
           /\ Fits(mdnsAdvertiser(len)) <=> len <= 109
           /\ Fits(nvmem_write(len)) <=> len <= 104
           /\ Fits(simple_link_send("SEND", len)) <=> len <= 104
           /\ Fits(simple_link_send("SENDTO", len)) <=> len <= 80
  BY DEF Fits, EndOf, Command, DataCommand, SPI_HEADER_SIZE, HCI_CMND_HEADER_SIZE,
         HCI_DATA_HEADER_SIZE, CC3000_SPI_TX_MAGIC_INDEX, CC3000_TX_BUFFER_SIZE,
         gethostbyname, setsockopt, mdnsAdvertiser, nvmem_write, simple_link_send

\* The functions of socket.c.
LEMMA SocketFits == \A c \in SocketCalls : Fits(c) \/ c \in OverLong
<1>1. \A c \in {socket, closesocket, accept, bind, listen, connect, getsockopt,
                getmssvalue, simple_link_recv("RECV"),
                simple_link_recv("RECVFROM")} : Fits(c)
  BY DEF Fits, EndOf, Command, SPI_HEADER_SIZE, HCI_CMND_HEADER_SIZE,
         CC3000_SPI_TX_MAGIC_INDEX, CC3000_TX_BUFFER_SIZE,
         socket, closesocket, accept, bind, listen, connect, getsockopt,
         getmssvalue, simple_link_recv
<1>2. \A t \in BOOLEAN : Fits(select(t))
  BY DEF Fits, EndOf, Command, SPI_HEADER_SIZE, HCI_CMND_HEADER_SIZE,
         CC3000_SPI_TX_MAGIC_INDEX, CC3000_TX_BUFFER_SIZE, select
<1>3. ASSUME NEW len \in NameLens \cap 0 .. HOSTNAME_MAX_LENGTH
      PROVE  Fits(gethostbyname(len)) \/ gethostbyname(len) \in OverLong
  <2>1. len \in Nat /\ (len > 113 => len \in 114 .. HOSTNAME_MAX_LENGTH)
    BY LengthsAssumption DEF HOSTNAME_MAX_LENGTH
  <2>2. QED
    BY <2>1, DataFits DEF OverLong
<1>4. ASSUME NEW len \in OptLens
      PROVE  Fits(setsockopt(len)) \/ setsockopt(len) \in OverLong
  <2>1. len \in Nat
    BY LengthsAssumption
  <2>2. QED
    BY <2>1, DataFits DEF OverLong
<1>5. \A len \in 0 .. MDNS_DEVICE_SERVICE_MAX_LENGTH : Fits(mdnsAdvertiser(len))
  BY DataFits DEF MDNS_DEVICE_SERVICE_MAX_LENGTH
<1>6. ASSUME NEW len \in SendLens
      PROVE  \/ Fits(simple_link_send("SEND", len))
             \/ simple_link_send("SEND", len) \in OverLong
  <2>1. len \in Nat
    BY LengthsAssumption
  <2>2. QED
    BY <2>1, DataFits DEF OverLong
<1>7. ASSUME NEW len \in DatagramLens
      PROVE  \/ Fits(simple_link_send("SENDTO", len))
             \/ simple_link_send("SENDTO", len) \in OverLong
  <2>1. len \in Nat
    BY LengthsAssumption
  <2>2. QED
    BY <2>1, DataFits DEF OverLong
<1>8. QED
  BY <1>1, <1>2, <1>3, <1>4, <1>5, <1>6, <1>7 DEF SocketCalls

\* All others are short, but for long data for NVMEM.
LEMMA OtherFits ==
  /\ \A c \in NetappCalls \cup {EventMaskCommand} : Fits(c)
  /\ \A c \in NvmemCalls : Fits(c) \/ c \in OverLong
  /\ \A len \in 1 .. SP_PORTION_SIZE : Fits(nvmem_write(len))
<1>1. \A c \in NetappCalls \cup {EventMaskCommand, nvmem_read,
                                nvmem_read_sp_version, nvmem_create_entry} :
        Fits(c)
  BY DEF Fits, EndOf, Command, SPI_HEADER_SIZE, HCI_CMND_HEADER_SIZE,
         CC3000_SPI_TX_MAGIC_INDEX, CC3000_TX_BUFFER_SIZE,
         NetappCalls, netapp_dhcp, netapp_timeout_values, netapp_ping_send,
         netapp_ping_report, netapp_ping_stop, netapp_ipconfig, netapp_arp_flush,
         netapp_set_debug_level, EventMaskCommand, nvmem_read,
         nvmem_read_sp_version, nvmem_create_entry
<1>2. ASSUME NEW len \in NvmemLens
      PROVE  Fits(nvmem_write(len)) \/ nvmem_write(len) \in OverLong
  <2>1. len \in Nat
    BY LengthsAssumption
  <2>2. QED
    BY <2>1, DataFits DEF OverLong
<1>3. \A len \in 1 .. SP_PORTION_SIZE : Fits(nvmem_write(len))
  BY DataFits DEF SP_PORTION_SIZE
<1>4. QED
  BY <1>1, <1>2, <1>3 DEF NvmemCalls

\* What is said to be too long does not fit.
LEMMA OverLongOverruns == \A c \in OverLong : ~Fits(c)
<1>1. ASSUME NEW s \in Nat, NEW k \in Nat
      PROVE  /\ s + k > 93 => ~Fits(wlan_connect(s, k))
             /\ s + k > 77 => ~Fits(wlan_add_profile("wpa", s, k))
             /\ s + 4*k > 85 => ~Fits(wlan_add_profile("wep", s, k))
             /\ s > 97 => ~Fits(wlan_add_profile("none", s, 0))
  BY DEF Fits, EndOf, Command, SPI_HEADER_SIZE, HCI_CMND_HEADER_SIZE,
         CC3000_SPI_TX_MAGIC_INDEX, CC3000_TX_BUFFER_SIZE, wlan_connect,
         wlan_add_profile
<1>a. /\ \A p \in SsidLens \X KeyLens : p[1] \in Nat /\ p[2] \in Nat
      /\ \A p \in SsidLens \X WepKeyLens : p[1] \in Nat /\ p[2] \in Nat
  BY LengthsAssumption
<1>2. /\ \A s \in SsidLens : s \in Nat
      /\ \A len \in OptLens \cup NvmemLens \cup SendLens \cup DatagramLens :
           len \in Nat
      /\ \A len \in 114 .. HOSTNAME_MAX_LENGTH : len \in Nat /\ ~(len <= 113)
  BY LengthsAssumption DEF HOSTNAME_MAX_LENGTH
<1>3. /\ \A p \in {q \in SsidLens \X KeyLens : q[1] + q[2] > 93} :
           ~Fits(wlan_connect(p[1], p[2]))
      /\ \A p \in {q \in SsidLens \X KeyLens : q[1] + q[2] > 77} :
           ~Fits(wlan_add_profile("wpa", p[1], p[2]))
      /\ \A p \in {q \in SsidLens \X WepKeyLens : q[1] + 4*q[2] > 85} :
           ~Fits(wlan_add_profile("wep", p[1], p[2]))
      /\ \A s \in {n \in SsidLens : n > 97} :
           ~Fits(wlan_add_profile("none", s, 0))
  BY <1>1, <1>a, <1>2
<1>4. /\ \A len \in NameLens \cap 114 .. HOSTNAME_MAX_LENGTH :
           ~Fits(gethostbyname(len))
      /\ \A len \in {n \in OptLens : n > 101} : ~Fits(setsockopt(len))
      /\ \A len \in {n \in NvmemLens : n > 104} : ~Fits(nvmem_write(len))
      /\ \A len \in {n \in SendLens : n > 104} :
           ~Fits(simple_link_send("SEND", len))
      /\ \A len \in {n \in DatagramLens : n > 80} :
           ~Fits(simple_link_send("SENDTO", len))
  BY <1>2, DataFits
<1>5. QED
  BY <1>3, <1>4 DEF OverLong

\* The bounds on lengths are exact: with any longer argument the function writes
\* over the guard byte of the transmit buffer, with these none does
\* (wlan.c:385-435 and 593-712, socket.c:454-488, nvmem.c:133-160).
THEOREM BoundsExact == \A c \in AllCalls : Fits(c) <=> c \notin OverLong
<1>1. \A c \in AllCalls : Fits(c) \/ c \in OverLong
  BY WlanFits, SocketFits, OtherFits DEF AllCalls, Calls
<1>2. QED
  BY <1>1, OverLongOverruns

\* For arguments of any lengths: the guard byte is lost, and SpiWrite stops, only
\* in a call whose own arguments are longer than the buffer has room for
\* (cc3000_spi.c:346-350).
THEOREM StopsOnlyOverruns == Spec => []OnlyOverrunsStop
<1>1. IInv => OnlyOverrunsStop
  BY BoundsExact DEF IInv, CallInv, GuardInv, OnlyOverrunsStop
<1>2. QED
  BY <1>1, Inductive, PTL

-----------------------------------------------------------------------------
(* What SpiReadAfterHeader reads, for packets of any length.  The two      *)
(* conditions of the code look alike and are opposites, since the headers  *)
(* of data and events differ by one byte: each type is a lemma.            *)

\* Data of any length is read whole, with a padding byte if it ends odd.
LEMMA DataReadWhole ==
    ASSUME NEW len \in Nat
    PROVE  /\ ReadBytes("data", len) - PacketBytes("data", len) \in {0, 1}
           /\ ReadBytes("data", len) % 2 = 1
  BY DEF ReadBytes, PacketBytes, SpiReadAfterHeader, DataRest,
         CC3000_HEADERS_SIZE_EVNT, HEADER_BYTES

\* Likewise an event, whose first byte came with the headers.
LEMMA EventReadWhole ==
    ASSUME NEW len \in Nat \ {0}
    PROVE  /\ ReadBytes("event", len) - PacketBytes("event", len) \in {0, 1}
           /\ ReadBytes("event", len) % 2 = 0
  BY DEF ReadBytes, PacketBytes, SpiReadAfterHeader, EventRest,
         CC3000_HEADERS_SIZE_EVNT, HEADER_BYTES

\* Every packet is read whole, with at most one byte of padding.
LEMMA PacketReadWhole ==
    \A type \in Types, len \in Nat \ {0} :
        /\ ReadBytes(type, len) - PacketBytes(type, len) \in {0, 1}
        /\ PacketBytes(type, len) < CC3000_SPI_RX_MAGIC_INDEX
             => ReadBytes(type, len) <= CC3000_SPI_RX_MAGIC_INDEX
<1> TAKE type \in Types, len \in Nat \ {0}
<1>1. ReadBytes(type, len) - PacketBytes(type, len) \in {0, 1}
  BY DataReadWhole, EventReadWhole DEF Types
<1>2. ReadBytes(type, len) \in Int /\ PacketBytes(type, len) \in Int
  BY DEF Types, ReadBytes, PacketBytes, SpiReadAfterHeader, DataRest,
         EventRest, CC3000_HEADERS_SIZE_EVNT, HEADER_BYTES
<1>3. QED
  BY <1>1, <1>2 DEF CC3000_SPI_RX_MAGIC_INDEX, CC3000_RX_BUFFER_SIZE

\* Every packet is read whole and with at most one byte of padding, so that the
\* next one begins where the device puts it; and a packet that leaves a byte
\* of room in front of the guard byte does not reach it with the padding
\* (cc3000_spi.c:411-452).
THEOREM PacketsReadWhole == Spec => []PacketsRead
<1> DEFINE Whole(type, len) ==
             /\ ReadBytes(type, len) - PacketBytes(type, len) \in {0, 1}
             /\ PacketBytes(type, len) < CC3000_SPI_RX_MAGIC_INDEX
                  => ReadBytes(type, len) <= CC3000_SPI_RX_MAGIC_INDEX
<1>1. \A type \in Types, len \in Nat \ {0} : Whole(type, len)
  BY PacketReadWhole
<1> HIDE DEF Whole
<1>2. /\ \A len \in Lengths("data") : len \in Nat \ {0}
      /\ \A len \in Lengths("event") : len \in Nat \ {0}
  BY DEF Lengths
<1>3. /\ \A len \in Lengths("data") : Whole("data", len)
      /\ \A len \in Lengths("event") : Whole("event", len)
  <2>1. "data" \in Types /\ "event" \in Types
    BY DEF Types
  <2>2. QED
    BY ONLY <1>1, <1>2, <2>1, Zenon
<1>4. \A type \in Types : \A len \in Lengths(type) : Whole(type, len)
  BY <1>3 DEF Types
<1>5. AllReadWhole
  BY <1>4 DEF AllReadWhole, Whole
<1>6. PacketsRead
  BY <1>5 DEF PacketsRead
<1>7. QED
  BY <1>6, PTL

\* Whatever its length, data is read in an odd and an event in an even number
\* of bytes: the two padding conditions are each consistent, but not the same.
THEOREM ReadParity ==
    \A len \in Nat \ {0} : /\ ReadBytes("data", len) % 2 = 1
                           /\ ReadBytes("event", len) % 2 = 0
  BY DataReadWhole, EventReadWhole

-----------------------------------------------------------------------------
(* cc3000_scan, for tables of any length.  Its rounds are a recursive       *)
(* function; `Rounds' gives them in closed form, and a round where the two  *)
(* differ first cannot exist.                                               *)

\* A set of naturals that is not empty has a least element.
LEMMA LeastElement ==
    ASSUME NEW T, T \subseteq Nat, T # {} PROVE \E x \in T : \A y \in T : x <= y
<1> DEFINE R == {ss \in Nat \X Nat : ss[1] < ss[2]}
<1>1. IsWellFoundedOn(R, Nat)
  BY NatLessThanWellFounded DEF OpToRel
<1>2. \E x \in T : \A y \in T : <<y, x>> \notin R
  <2> HIDE DEF R
  <2>1. QED
    BY <1>1, WFMin
<1>3. PICK x \in T : \A y \in T : <<y, x>> \notin R
  BY <1>2
<1>4. \A y \in T : ~(y < x)
  BY <1>3
<1>5. QED
  BY <1>4

\* The first m entries are usable and the next is not.
Leading(table, m) == /\ m \in 0..Len(table)
                     /\ \A i \in 1..m : Usable(table[i])
                     /\ m < Len(table) => ~Usable(table[m + 1])

Ssids(table, k) == [j \in 1..k |-> table[j].ssid]

\* The state of the loop after each round.
Rounds(table, m) ==
    [i \in 0..Len(table) |->
       LET k == IF i <= m THEN i ELSE m
       IN  [at |-> k + 1, found |-> Ssids(table, k)]]

\* Every table has a longest usable beginning.
LEMMA LeadingExists ==
    ASSUME NEW S, NEW table \in Seq(S)
    PROVE  \E m : Leading(table, m)
<1> DEFINE T == {k \in 0..Len(table) : k = Len(table) \/ ~Usable(table[k + 1])}
<1>1. Len(table) \in Nat /\ T \subseteq Nat /\ Len(table) \in T
  OBVIOUS
<1>2. PICK m \in T : \A k \in T : m <= k
  <2> HIDE DEF T
  <2>1. QED
    BY <1>1, LeastElement
<1>3. ASSUME NEW i \in 1..m PROVE Usable(table[i])
  <2>1. m \in 0..Len(table)
    OBVIOUS
  <2>2. i - 1 \in 0..Len(table) /\ ~(m <= i - 1) /\ i - 1 # Len(table) /\ (i - 1) + 1 = i
    BY <2>1, <1>1
  <2>3. QED
    BY <1>2, <2>2
<1>4. QED
  BY <1>2, <1>3 DEF Leading

\* One round takes the closed form from each round to the next.
LEMMA OneRound ==
    ASSUME NEW S, NEW table \in Seq(S), NEW m, Leading(table, m),
           NEW i \in 1..Len(table)
    PROVE  ScanRound(table, Rounds(table, m)[i - 1]) = Rounds(table, m)[i]
<1>1. /\ Len(table) \in Nat /\ m \in 0..Len(table) /\ i - 1 \in 0..Len(table)
      /\ i \in 0..Len(table)
  BY DEF Leading
<1>2. CASE i <= m
  <2>1. /\ Rounds(table, m)[i - 1] = [at |-> (i - 1) + 1, found |-> Ssids(table, i - 1)]
        /\ Rounds(table, m)[i] = [at |-> i + 1, found |-> Ssids(table, i)]
    BY <1>1, <1>2 DEF Rounds
  <2>2. Answer(table, i) = table[i] /\ Usable(table[i]) /\ (i - 1) + 1 = i
    BY <1>1, <1>2 DEF Leading, Answer
  <2>3. Append(Ssids(table, i - 1), table[i].ssid) = Ssids(table, i)
    <3> DEFINE V == {table[j].ssid : j \in 1..Len(table)}
               s == Ssids(table, i - 1)
               e == table[i].ssid
    <3>1. s \in Seq(V) /\ Len(s) = i - 1 /\ e \in V
      BY <1>1 DEF Ssids
    <3>2. /\ Append(s, e) \in [1..i -> V]
          /\ \A j \in 1..(i - 1) : Append(s, e)[j] = s[j]
          /\ Append(s, e)[i] = e
      <4> HIDE DEF s, e, V
      <4>1. Len(s) \in Nat /\ Len(s) + 1 = i
        BY <1>1, <3>1
      <4>2. /\ Append(s, e) \in Seq(V) /\ Len(Append(s, e)) = Len(s) + 1
            /\ \A j \in 1..Len(s) : Append(s, e)[j] = s[j]
            /\ Append(s, e)[Len(s) + 1] = e
        BY <3>1, <4>1
      <4>3. Append(s, e) \in [1..i -> V]
        <5> DEFINE a == Append(s, e)
        <5>1. a \in Seq(V) /\ Len(a) = i
          BY <4>1, <4>2
        <5> HIDE DEF a
        <5>2. a \in [1..Len(a) -> V]
          BY ONLY <5>1
        <5>3. a \in [1..i -> V]
          BY ONLY <5>1, <5>2, Zenon
        <5>4. QED
          BY <5>3 DEF a
      <4>4. QED
        BY <3>1, <4>1, <4>2, <4>3
    <3>3. \A j \in 1..i : Append(s, e)[j] = Ssids(table, i)[j]
      BY <1>1, <3>2 DEF Ssids
    <3>4. Ssids(table, i) \in [1..i -> V]
      BY <1>1 DEF Ssids
    <3>5. \A f, g \in [1..i -> V] : (\A j \in 1..i : f[j] = g[j]) => f = g
      OBVIOUS
    <3>6. Append(s, e) = Ssids(table, i)
      <4> HIDE DEF s, e, V
      <4>1. QED
        BY ONLY <3>2, <3>3, <3>4, <3>5, Zenon
    <3>7. QED
      BY <3>6
  <2> DEFINE r == Rounds(table, m)[i - 1]
  <2>4. r.at = i /\ r.found = Ssids(table, i - 1)
    BY <2>1, <2>2
  <2> HIDE DEF r
  <2>5. ScanRound(table, r) = [at |-> i + 1, found |-> Ssids(table, i)]
    BY <2>2, <2>3, <2>4 DEF ScanRound
  <2>6. QED
    BY <2>1, <2>5 DEF r
<1>3. CASE ~(i <= m)
  <2>1. /\ Rounds(table, m)[i - 1] = [at |-> m + 1, found |-> Ssids(table, m)]
        /\ Rounds(table, m)[i] = [at |-> m + 1, found |-> Ssids(table, m)]
    <3>1. i - 1 <= m => i - 1 = m
      BY <1>1, <1>3
    <3>2. QED
      BY <1>1, <1>3, <3>1 DEF Rounds
  <2>2. m \in Nat /\ m < Len(table) /\ m + 1 <= Len(table)
    BY <1>1, <1>3
  <2>3. Answer(table, m + 1) = table[m + 1] /\ ~Usable(table[m + 1])
    BY <2>2 DEF Leading, Answer
  <2> DEFINE r == Rounds(table, m)[i - 1]
  <2>4. r.at = m + 1
    BY <2>1
  <2> HIDE DEF r
  <2>5. ScanRound(table, r) = r
    BY <2>3, <2>4 DEF ScanRound
  <2>6. QED
    BY <2>1, <2>5 DEF r
<1>4. QED
  BY <1>2, <1>3

\* cc3000_scan reports exactly the networks in front of the first invalid entry
\* of the device's table, each once and in its order, however long the table
\* is: nothing invalid, and nothing behind an invalid entry (cc3000_ifc.c:226-247).
THEOREM ScanFindsLeading ==
    ASSUME NEW S, NEW table \in Seq(S)
    PROVE  \E m : Leading(table, m) /\ cc3000_scan(table) = Ssids(table, m)
<1>1. PICK m : Leading(table, m)
  BY LeadingExists
<1> DEFINE n == Len(table)
           first == [at |-> 1, found |-> <<>>]
           G(f) == f = [i \in 0..n |-> IF i = 0 THEN first
                                                 ELSE ScanRound(table, f[i - 1])]
           F == Rounds(table, m)
           f0 == CHOOSE f : G(f)
<1>2. n \in Nat /\ m \in 0..n
  BY <1>1 DEF Leading
<1>3. F[0] = first
  <2>1. Ssids(table, 0) = <<>>
    BY DEF Ssids
  <2>2. QED
    BY <1>2, <2>1 DEF Rounds
<1>4. \A i \in 1..n : ScanRound(table, F[i - 1]) = F[i]
  BY <1>1, OneRound
<1>5. G(F)
  <2>1. F = [i \in 0..n |-> F[i]]
    BY DEF Rounds
  <2> HIDE DEF F, first
  <2>2. \A i \in 0..n : F[i] = IF i = 0 THEN first ELSE ScanRound(table, F[i - 1])
    BY <1>2, <1>3, <1>4
  <2>3. QED
    BY <2>1, <2>2
<1>6. G(f0)
  <2> HIDE DEF G
  <2>1. QED
    BY <1>5
<1>7. \A i \in 0..n : f0[i] = F[i]
  <2> DEFINE T == {i \in 0..n : f0[i] # F[i]}
  <2> HIDE DEF F, f0, first
  <2>1. T \subseteq Nat
    BY <1>2
  <2>2. ASSUME T # {} PROVE FALSE
    <3>1. PICK x \in T : \A y \in T : x <= y
      <4> HIDE DEF T
      <4>1. QED
        BY <2>1, <2>2, LeastElement
    <3>2. x \in 0..n /\ f0[x] # F[x]
      OBVIOUS
    <3>3. f0[x] = IF x = 0 THEN first ELSE ScanRound(table, f0[x - 1])
      BY <1>6, <3>2
    <3>4. x # 0
      BY <1>3, <3>2, <3>3
    <3>5. x - 1 \in 0..n /\ ~(x <= x - 1) /\ x \in 1..n
      BY <1>2, <3>2, <3>4
    <3>6. f0[x - 1] = F[x - 1]
      BY <3>1, <3>5
    <3>7. QED
      BY <1>4, <3>2, <3>3, <3>4, <3>5, <3>6
  <2>3. QED
    BY <2>2
<1>8. cc3000_scan(table) = f0[n].found
  BY DEF cc3000_scan
<1>9. F[n].found = Ssids(table, m)
  <2>1. (IF n <= m THEN n ELSE m) = m /\ n \in 0..n
    BY <1>2
  <2>2. QED
    BY <2>1 DEF Rounds
<1>10. QED
  BY <1>1, <1>2, <1>7, <1>8, <1>9

\* The places found are those up to the first invalid entry.
LEMMA FoundPlaces ==
    ASSUME NEW table \in Tables
    PROVE  \E m \in 0..Len(table) :
             /\ \A i \in 1..m : Usable(table[i])
             /\ m < Len(table) => ~Usable(table[m + 1])
             /\ DOMAIN cc3000_scan(table) = 1..m
             /\ \A i \in 1..m : cc3000_scan(table)[i] = i
<1>1. table \in Seq(Entries) /\ \A i \in 1..Len(table) : table[i].ssid = i
  BY TablesAssumption
<1>2. PICK m : Leading(table, m) /\ cc3000_scan(table) = Ssids(table, m)
  BY <1>1, ScanFindsLeading
<1>3. m \in 0..Len(table) /\ Len(table) \in Nat
  BY <1>1, <1>2 DEF Leading
<1>4. \A i \in 1..m : cc3000_scan(table)[i] = i
  BY <1>1, <1>2, <1>3 DEF Ssids
<1>5. DOMAIN cc3000_scan(table) = 1..m
  BY <1>2 DEF Ssids
<1>6. QED
  BY <1>2, <1>3, <1>4, <1>5 DEF Leading

\* cc3000_scan reports valid networks only, each once and in order, and all of
\* those in front of the first invalid entry, for any set of tables.
THEOREM ScanIsRight == Spec => []ScanReported
<1>1. OnlyValidFound
  <2> SUFFICES ASSUME NEW table \in Tables, NEW i \in FoundIn(table)
               PROVE  table[i].scanStatus \in {0, 1} /\ table[i].isValid
    BY DEF OnlyValidFound
  <2>1. PICK m \in 0..Len(table) :
               /\ \A j \in 1..m : Usable(table[j])
               /\ DOMAIN cc3000_scan(table) = 1..m
               /\ \A j \in 1..m : cc3000_scan(table)[j] = j
    BY FoundPlaces
  <2>2. i \in 1..m
    BY <2>1 DEF FoundIn
  <2>3. table \in Seq(Entries) /\ Len(table) \in Nat
    BY TablesAssumption
  <2>4. table[i] \in Entries
    BY <2>2, <2>3
  <2>5. QED
    BY <2>1, <2>2, <2>4 DEF Usable, Entries
<1>2. FoundOnceInOrder
  <2> SUFFICES ASSUME NEW table \in Tables,
                      NEW i \in DOMAIN cc3000_scan(table),
                      NEW j \in DOMAIN cc3000_scan(table), i < j
               PROVE  cc3000_scan(table)[i] < cc3000_scan(table)[j]
    BY DEF FoundOnceInOrder
  <2>1. QED
    BY FoundPlaces
<1>3. AllFoundInFront
  <2> SUFFICES ASSUME NEW table \in Tables,
                      \A i \in UsableIn(table) : 1..i \subseteq UsableIn(table)
               PROVE  FoundIn(table) = UsableIn(table)
    BY DEF AllFoundInFront
  <2>1. PICK m \in 0..Len(table) :
               /\ \A j \in 1..m : Usable(table[j])
               /\ m < Len(table) => ~Usable(table[m + 1])
               /\ DOMAIN cc3000_scan(table) = 1..m
               /\ \A j \in 1..m : cc3000_scan(table)[j] = j
    BY FoundPlaces
  <2>2. DOMAIN table = 1..Len(table) /\ Len(table) \in Nat
    BY TablesAssumption
  <2>3. FoundIn(table) = 1..m
    BY <2>1 DEF FoundIn
  <2>4. 1..m \subseteq UsableIn(table)
    BY <2>1, <2>2 DEF UsableIn
  <2>5. ASSUME NEW i \in UsableIn(table), i \notin 1..m PROVE FALSE
    <3>1. i \in 1..Len(table)
      BY <2>2 DEF UsableIn
    <3>2. m + 1 \in 1..i /\ m < Len(table)
      BY <2>2, <2>5, <3>1
    <3>3. m + 1 \in UsableIn(table)
      BY <2>5, <3>2
    <3>4. QED
      BY <2>1, <3>2, <3>3 DEF UsableIn
  <2>6. QED
    BY <2>3, <2>4, <2>5
<1>4. ScanReported
  BY <1>1, <1>2, <1>3 DEF ScanReported
<1>5. QED
  BY <1>4, PTL

-----------------------------------------------------------------------------
(* Smart config.                                                           *)

\* The bytes of two arrays, one behind the other.
LEMMA Behind ==
    ASSUME NEW s \in Seq(Octet), NEW t \in Seq(Octet)
    PROVE  /\ s \o t \in Seq(Octet) /\ Len(s \o t) = Len(s) + Len(t)
           /\ Len(s) \in Nat /\ Len(t) \in Nat
           /\ \A i \in 1..Len(s) : (s \o t)[i] = s[i]
           /\ \A i \in 1..Len(t) : (s \o t)[Len(s) + i] = t[i]
OBVIOUS

\* The bytes of a part of an array.
LEMMA Part ==
    ASSUME NEW s \in Seq(Octet), NEW from \in Nat, NEW n \in Nat,
           from + n <= Len(s)
    PROVE  /\ Bytes(s, from, n) \in Seq(Octet) /\ Len(Bytes(s, from, n)) = n
           /\ \A i \in 1..n : Bytes(s, from, n)[i] = s[from + i]
<1> DEFINE m == Len(s)
           b == Bytes(s, from, n)
<1>1. m \in Nat /\ m = Len(s) /\ from + n <= m
  OBVIOUS
<1>2. b = SubSeq(s, from + 1, from + n)
  BY DEF Bytes
<1> HIDE DEF m, b
<1>3. /\ from + 1 \in 1..m + 1 /\ from + n \in from..m
      /\ (from + n) - (from + 1) + 1 = n
  BY ONLY <1>1, from \in Nat, n \in Nat
<1>4. b \in Seq(Octet) /\ Len(b) = n
  BY <1>1, <1>2, <1>3
<1>5. \A i \in 1..n : b[i] = s[from + i]
  BY <1>1, <1>2, <1>3
<1>6. QED
  BY <1>4, <1>5 DEF b

\* A part of an array is known by its bytes.
LEMMA PartIs ==
    ASSUME NEW s \in Seq(Octet), NEW t \in Seq(Octet), NEW from \in Nat,
           from + Len(t) <= Len(s), \A i \in 1..Len(t) : s[from + i] = t[i]
    PROVE  Bytes(s, from, Len(t)) = t
<1>1. Len(t) \in Nat
  OBVIOUS
<1> DEFINE b == Bytes(s, from, Len(t))
<1>2. b \in Seq(Octet) /\ Len(b) = Len(t) /\ \A i \in 1..Len(t) : b[i] = t[i]
  BY <1>1, Part
<1> HIDE DEF b
<1>3. b = t
  BY <1>2, SeqEqual
<1>4. QED
  BY <1>3 DEF b

\* Padding.
LEMMA Padding ==
    ASSUME NEW n \in Nat
    PROVE  /\ Zeros(n) \in Seq(Octet) /\ Len(Zeros(n)) = n
           /\ \A i \in 1..n : Zeros(n)[i] = 0
BY DEF Zeros, Octet, UINT8

\* What is encrypted: 32 bytes, the length and the passphrase or, if it has 32
\* bytes, only the passphrase.
LEMMA PlainBytes ==
    ASSUME NEW text \in Seq(Octet), Len(text) <= 32
    PROVE  /\ Plain(text) \in Seq(Octet) /\ Len(Plain(text)) = 32
           /\ Len(text) = 32 => Plain(text) = text
           /\ Len(text) # 32 =>
                /\ Plain(text)[1] = Len(text)
                /\ \A i \in 1..Len(text) : Plain(text)[1 + i] = text[i]
                /\ Len(text) # 31 => Plain(text)[32] = 0
<1>1. Len(text) \in Nat
  OBVIOUS
<1>2. CASE Len(text) = 32
  BY <1>2 DEF Plain
<1>3. CASE Len(text) # 32
  <2> DEFINE n   == Len(text)
             one == <<Len(text)>>
             two == one \o text
             pad == Zeros(31 - Len(text))
             p   == two \o pad
  <2>1. n \in 0..31 /\ 31 - n \in Nat /\ n \in Octet
    <3>1. n \in Nat /\ n <= 32 /\ n # 32
      BY <1>1, <1>3
    <3> HIDE DEF n
    <3>2. QED
      BY <3>1 DEF Octet, UINT8
  <2>2. one \in Seq(Octet) /\ Len(one) = 1 /\ one[1] = n
    BY <2>1
  <2>3. pad \in Seq(Octet) /\ Len(pad) = 31 - n /\ \A i \in 1..(31 - n) : pad[i] = 0
    BY <2>1, Padding
  <2>4. Plain(text) = p
    BY <1>3 DEF Plain
  <2>5. /\ two \in Seq(Octet) /\ Len(two) = 1 + n /\ two[1] = n
        /\ \A i \in 1..n : two[1 + i] = text[i]
    <3> HIDE DEF one
    <3>0. one \in Seq(Octet) /\ text \in Seq(Octet)
      BY <2>2
    <3>1. /\ two \in Seq(Octet) /\ Len(two) = Len(one) + Len(text)
          /\ \A i \in 1..Len(one) : two[i] = one[i]
          /\ \A i \in 1..Len(text) : two[Len(one) + i] = text[i]
      BY ONLY <3>0, Behind
    <3> HIDE DEF two, n
    <3>2. n = Len(text)
      BY DEF n
    <3>3. QED
      BY <2>1, <2>2, <3>1, <3>2
  <2>6. /\ p \in Seq(Octet) /\ Len(p) = Len(two) + Len(pad)
        /\ \A i \in 1..Len(two) : p[i] = two[i]
        /\ \A i \in 1..Len(pad) : p[Len(two) + i] = pad[i]
    <3> HIDE DEF two, pad
    <3>1. QED
      BY <2>3, <2>5, Behind
  <2> HIDE DEF n, two, pad, p
  <2>7. Len(p) = 32 /\ p[1] = n
    BY <2>1, <2>3, <2>5, <2>6
  <2>8. \A i \in 1..n : p[1 + i] = text[i]
    BY <2>1, <2>5, <2>6
  <2>9. ASSUME n # 31 PROVE p[32] = 0
    <3>1. 31 - n \in 1..(31 - n) /\ (1 + n) + (31 - n) = 32
      BY <2>1, <2>9
    <3>2. QED
      BY <2>3, <2>5, <2>6, <3>1
  <2>10. QED
    BY <1>3, <2>4, <2>6, <2>7, <2>8, <2>9 DEF n
<1>4. QED
  BY <1>2, <1>3

\* An array holds these bytes from here on.
Holds(array, from, part) ==
    /\ from + Len(part) <= Len(array)
    /\ \A i \in 1..Len(part) : array[from + i] = part[i]

\* What the first of two arrays holds, and the second, both hold together.
LEMMA HoldsBehind ==
    ASSUME NEW s \in Seq(Octet), NEW t \in Seq(Octet)
    PROVE  /\ s \o t \in Seq(Octet) /\ Len(s \o t) = Len(s) + Len(t)
           /\ Holds(s \o t, Len(s), t)
           /\ \A from \in Nat : \A part \in Seq(Octet) :
                Holds(s, from, part) => Holds(s \o t, from, part)
<1> DEFINE a == s \o t
<1>1. /\ a \in Seq(Octet) /\ Len(a) = Len(s) + Len(t)
      /\ Len(s) \in Nat /\ Len(t) \in Nat
      /\ \A i \in 1..Len(s) : a[i] = s[i]
      /\ \A i \in 1..Len(t) : a[Len(s) + i] = t[i]
  BY Behind
<1> HIDE DEF a
<1>2. Holds(a, Len(s), t)
  BY <1>1 DEF Holds
<1>3. ASSUME NEW from \in Nat, NEW part \in Seq(Octet), Holds(s, from, part)
      PROVE  Holds(a, from, part)
  <2>1. from + Len(part) <= Len(s) /\ Len(part) \in Nat
    BY <1>3 DEF Holds
  <2>2. \A i \in 1..Len(part) : from + i \in 1..Len(s)
    BY <1>1, <2>1
  <2>3. from + Len(part) <= Len(a)
    BY <1>1, <2>1
  <2>4. QED
    BY <1>1, <1>3, <2>2, <2>3 DEF Holds
<1>4. QED
  BY <1>1, <1>2, <1>3 DEF a

\* Three arrays, one behind the other.
JoinedFrom(a, r, s, t) ==
    /\ a \in Seq(Octet) /\ Len(a) = (Len(r) + Len(s)) + Len(t)
    /\ \A i \in 1..Len(r) : a[i] = r[i]
    /\ \A i \in 1..Len(s) : a[Len(r) + i] = s[i]
    /\ \A i \in 1..Len(t) : a[(Len(r) + Len(s)) + i] = t[i]

\* Their bytes.
LEMMA Joined ==
    ASSUME NEW r \in Seq(Octet), NEW s \in Seq(Octet), NEW t \in Seq(Octet)
    PROVE  JoinedFrom(r \o s \o t, r, s, t)
<1> DEFINE half  == r \o s
           whole == half \o t
<1>1. /\ half \in Seq(Octet) /\ Len(half) = Len(r) + Len(s)
      /\ Len(r) \in Nat /\ Len(s) \in Nat
      /\ \A i \in 1..Len(r) : half[i] = r[i]
      /\ \A i \in 1..Len(s) : half[Len(r) + i] = s[i]
  BY Behind
<1> HIDE DEF half
<1>2. /\ whole \in Seq(Octet) /\ Len(whole) = Len(half) + Len(t)
      /\ \A i \in 1..Len(half) : whole[i] = half[i]
      /\ \A i \in 1..Len(t) : whole[Len(half) + i] = t[i]
  BY <1>1, Behind
<1> HIDE DEF whole
<1>3. \A i \in 1..Len(r) : i \in 1..Len(half)
  BY <1>1
<1>4. \A i \in 1..Len(s) : Len(r) + i \in 1..Len(half)
  BY <1>1
<1>5. \A i \in 1..Len(r) : whole[i] = r[i]
  BY <1>1, <1>2, <1>3
<1>6. \A i \in 1..Len(s) : whole[Len(r) + i] = s[i]
  BY <1>1, <1>2, <1>4
<1>7. QED
  BY <1>1, <1>2, <1>5, <1>6 DEF whole, half, JoinedFrom

\* An array with 16 of its bytes replaced.
Patched(array, from, d) ==
    Bytes(array, 0, from) \o d \o Bytes(array, from + 16, Len(array) - from - 16)

DiffersBy(a, array, from, d) ==
    /\ a \in Seq(Octet) /\ Len(a) = Len(array)
    /\ \A i \in 1..from : a[i] = array[i]
    /\ \A i \in 1..16 : a[from + i] = d[i]
    /\ \A i \in (from + 17)..Len(array) : a[i] = array[i]

\* The replaced bytes are new, the others stay.
LEMMA Replaced ==
    ASSUME NEW array \in Seq(Octet), NEW from \in Nat, from + 16 <= Len(array),
           NEW d \in Seq(Octet), Len(d) = 16
    PROVE  DiffersBy(Patched(array, from, d), array, from, d)
<1> DEFINE len   == Len(array)
           n     == len - from - 16
           front == Bytes(array, 0, from)
           rest  == Bytes(array, from + 16, n)
           whole == front \o d \o rest
<1>1. /\ len \in Nat /\ from + 16 \in Nat /\ n \in Nat /\ (from + 16) + n = len
      /\ 0 + from <= len /\ 0 \in Nat
  <2>1. len \in Nat
    OBVIOUS
  <2>2. from + 16 <= len
    OBVIOUS
  <2> HIDE DEF len
  <2>3. QED
    BY ONLY <2>1, <2>2, from \in Nat DEF n
<1> HIDE DEF n
<1>2. front \in Seq(Octet) /\ Len(front) = from /\ \A i \in 1..from : front[i] = array[0 + i]
  <2>1. 0 + from <= Len(array) /\ 0 \in Nat /\ from \in Nat /\ array \in Seq(Octet)
    BY <1>1
  <2>2. QED
    BY ONLY <2>1, Part, Zenon
<1>3. /\ rest \in Seq(Octet) /\ Len(rest) = n
      /\ \A i \in 1..n : rest[i] = array[(from + 16) + i]
  <2>1. /\ (from + 16) + n <= Len(array) /\ from + 16 \in Nat /\ n \in Nat
        /\ array \in Seq(Octet)
    BY <1>1
  <2>2. QED
    BY ONLY <2>1, Part, Zenon
<1>4. Patched(array, from, d) = whole
  BY DEF n, Patched
<1> HIDE DEF front, rest
<1>5. /\ whole \in Seq(Octet) /\ Len(whole) = (Len(front) + Len(d)) + Len(rest)
      /\ \A i \in 1..Len(front) : whole[i] = front[i]
      /\ \A i \in 1..Len(d) : whole[Len(front) + i] = d[i]
      /\ \A i \in 1..Len(rest) : whole[(Len(front) + Len(d)) + i] = rest[i]
  <2>1. front \in Seq(Octet) /\ d \in Seq(Octet) /\ rest \in Seq(Octet)
    BY <1>2, <1>3
  <2>2. JoinedFrom(whole, front, d, rest)
    BY ONLY <2>1, Joined, Zenon
  <2> HIDE DEF whole
  <2>3. QED
    BY <2>2 DEF JoinedFrom
<1> HIDE DEF whole, len
<1>6. /\ Len(whole) = len
      /\ \A i \in 1..from : whole[i] = front[i]
      /\ \A i \in 1..16 : whole[from + i] = d[i]
      /\ \A i \in 1..n : whole[(from + 16) + i] = rest[i]
  BY <1>1, <1>2, <1>3, <1>5
<1>7. \A i \in 1..from : whole[i] = array[i]
  <2>1. \A i \in 1..from : 0 + i = i
    OBVIOUS
  <2>2. QED
    BY ONLY <2>1, <1>2, <1>6
<1>8. ASSUME NEW i \in (from + 17)..len PROVE whole[i] = array[i]
  <2> DEFINE j == i - (from + 16)
  <2>1. j \in 1..n /\ (from + 16) + j = i
    BY ONLY <1>1, <1>8, from \in Nat
  <2> HIDE DEF j
  <2>2. whole[(from + 16) + j] = rest[j] /\ rest[j] = array[(from + 16) + j]
    BY ONLY <1>3, <1>6, <2>1, Zenon
  <2>3. QED
    BY ONLY <2>1, <2>2, Zenon
<1>9. QED
  BY <1>4, <1>5, <1>6, <1>7, <1>8 DEF len, DiffersBy

\* A block is replaced, and what lies in front of it or behind it is kept.
BlockReplaced(a, array, from, d) ==
    /\ a \in Seq(Octet) /\ Len(a) = Len(array) /\ Holds(a, from, d)
    /\ \A at \in Nat : \A part \in Seq(Octet) :
         Holds(array, at, part) /\ (at + Len(part) <= from \/ from + 16 <= at)
           => Holds(a, at, part)

\* aes_decrypt replaces 16 bytes of an array and leaves the others alone.
LEMMA DecryptsInPlace ==
    ASSUME NEW array \in Seq(Octet), NEW from \in Nat, from + 16 <= Len(array),
           NEW key, NEW d \in Seq(Octet), Len(d) = 16,
           d = Decrypt(Bytes(array, from, 16), key)
    PROVE  BlockReplaced(DecryptAt(array, from, key), array, from, d)
<1> DEFINE len   == Len(array)
           whole == DecryptAt(array, from, key)
<1>1. len \in Nat /\ from + 16 <= len
  OBVIOUS
<1>2. whole = Patched(array, from, d)
  BY DEF DecryptAt, Patched
<1>3. len = Len(array)
  OBVIOUS
<1> HIDE DEF whole, len
<1>4. /\ whole \in Seq(Octet) /\ Len(whole) = len
      /\ \A i \in 1..from : whole[i] = array[i]
      /\ \A i \in 1..16 : whole[from + i] = d[i]
      /\ \A i \in (from + 17)..len : whole[i] = array[i]
  <2>1. DiffersBy(whole, array, from, d)
    BY <1>2, Replaced
  <2>2. QED
    BY <1>3, <2>1 DEF DiffersBy
<1>5. Holds(whole, from, d)
  BY <1>1, <1>4 DEF Holds
<1>6. ASSUME NEW at \in Nat, NEW part \in Seq(Octet), Holds(array, at, part),
             at + Len(part) <= from \/ from + 16 <= at
      PROVE  Holds(whole, at, part)
  <2>1. at + Len(part) <= len /\ Len(part) \in Nat
    BY <1>3, <1>6 DEF Holds
  <2>2. ASSUME NEW i \in 1..Len(part)
        PROVE  at + i \in 1..from \/ at + i \in (from + 17)..len
    BY <1>1, <1>6, <2>1
  <2>3. \A i \in 1..Len(part) : whole[at + i] = array[at + i]
    BY <1>4, <2>2
  <2>4. QED
    BY <1>4, <1>6, <2>1, <2>3 DEF Holds
<1>7. QED
  BY <1>3, <1>4, <1>5, <1>6 DEF whole, BlockReplaced

\* The profile array: name, security type, and two blocks.
Layout(array, name, sec, x, y) ==
    /\ array \in Seq(Octet) /\ Len(array) = SMART_CONFIG_PROFILE_SIZE
    /\ Holds(array, 0, <<Len(name)>>)
    /\ Holds(array, 1, name)
    /\ Holds(array, Len(name) + 1, <<32, sec>>)
    /\ Holds(array, Len(name) + 3, x)
    /\ Holds(array, Len(name) + 19, y)

\* Putting one array behind another keeps what the first holds.
Grown(a, s, t) ==
    /\ a \in Seq(Octet) /\ Len(a) = Len(s) + Len(t)
    /\ Holds(a, Len(s), t)
    /\ \A from \in Nat : \A part \in Seq(Octet) :
         Holds(s, from, part) => Holds(a, from, part)

\* That is so for any two arrays of bytes.
LEMMA Growing ==
    ASSUME NEW s \in Seq(Octet), NEW t \in Seq(Octet)
    PROVE  Grown(s \o t, s, t)
BY HoldsBehind DEF Grown

\* The stored profile is laid out like that, with the blocks encrypted.
LEMMA StoredLayout ==
    ASSUME NEW name \in Seq(Octet), Len(name) <= 32, NEW sec \in 0..3,
           NEW text, NEW key, NEW x \in Seq(Octet), NEW y \in Seq(Octet),
           Len(x) = 16, Len(y) = 16,
           x = Encrypt(Bytes(Plain(text), 0, 16), key),
           y = Encrypt(Bytes(Plain(text), 16, 16), key)
    PROVE  Layout(Stored(sec, name, text, key), name, sec, x, y)
<1> DEFINE n   == Len(name)
           one == <<Len(name)>>
           two == <<32, sec>>
           a2  == one \o name
           a3  == a2 \o two
           a4  == a3 \o x
           a5  == a4 \o y
           pad == Zeros(SMART_CONFIG_PROFILE_SIZE - Len(a5))
           a6  == a5 \o pad
<1>1. Stored(sec, name, text, key) = a6
  BY DEF Stored
<1>2. n \in Nat /\ n <= 32 /\ n = Len(name)
  OBVIOUS
<1>3. one \in Seq(Octet) /\ Len(one) = 1
  <2>1. n \in Octet
    <3>1. n \in Nat /\ n <= 32
      BY <1>2
    <3> HIDE DEF n
    <3>2. QED
      BY ONLY <3>1 DEF Octet, UINT8
  <2>2. QED
    BY ONLY <2>1
<1>4. two \in Seq(Octet) /\ Len(two) = 2
  <2>1. 32 \in Octet /\ sec \in Octet
    BY DEF Octet, UINT8
  <2>2. QED
    BY <2>1
<1> HIDE DEF n, one, two
<1>5. Grown(a2, one, name)
  BY <1>3, Growing
<1> HIDE DEF a2
<1>6. a2 \in Seq(Octet) /\ Len(a2) = 1 + n /\ Len(a2) = n + 1
  BY <1>2, <1>3, <1>5 DEF Grown
<1>7. Grown(a3, a2, two)
  BY <1>4, <1>6, Growing
<1> HIDE DEF a3
<1>8. a3 \in Seq(Octet) /\ Len(a3) = n + 3
  BY <1>2, <1>4, <1>6, <1>7 DEF Grown
<1>9. Grown(a4, a3, x)
  BY <1>8, Growing
<1> HIDE DEF a4
<1>10. a4 \in Seq(Octet) /\ Len(a4) = n + 19
  <2>1. a4 \in Seq(Octet) /\ Len(a4) = Len(a3) + Len(x) /\ Len(x) = 16
    BY <1>9 DEF Grown
  <2>2. QED
    BY ONLY <1>2, <1>8, <2>1
<1>11. Grown(a5, a4, y)
  BY <1>10, Growing
<1> HIDE DEF a5
<1>12. a5 \in Seq(Octet) /\ Len(a5) = n + 35
  <2>1. a5 \in Seq(Octet) /\ Len(a5) = Len(a4) + Len(y) /\ Len(y) = 16
    BY <1>11 DEF Grown
  <2>2. QED
    BY ONLY <1>2, <1>10, <2>1
<1>13. pad \in Seq(Octet) /\ Len(a5) + Len(pad) = SMART_CONFIG_PROFILE_SIZE
  <2>1. SMART_CONFIG_PROFILE_SIZE - Len(a5) \in Nat
        /\ Len(a5) + (SMART_CONFIG_PROFILE_SIZE - Len(a5)) = SMART_CONFIG_PROFILE_SIZE
    BY ONLY <1>2, <1>12 DEF SMART_CONFIG_PROFILE_SIZE
  <2>2. QED
    BY <2>1, Padding
<1> HIDE DEF pad
<1>14. Grown(a6, a5, pad)
  BY <1>12, <1>13, Growing
<1> HIDE DEF a6
<1>15. \A from \in Nat : \A part \in Seq(Octet) :
         /\ Holds(a2, from, part) => Holds(a6, from, part)
         /\ Holds(a3, from, part) => Holds(a6, from, part)
         /\ Holds(a4, from, part) => Holds(a6, from, part)
         /\ Holds(a5, from, part) => Holds(a6, from, part)
  BY ONLY <1>7, <1>9, <1>11, <1>14 DEF Grown
<1>16. Holds(a2, 0, one)
  <2>1. Holds(one, 0, one)
    BY <1>3 DEF Holds, one
  <2>2. QED
    BY <1>3, <1>5, <2>1 DEF Grown
<1>17. Holds(a2, 1, name)
  BY <1>3, <1>5 DEF Grown
<1>18. Holds(a3, n + 1, two) /\ Holds(a4, n + 3, x) /\ Holds(a5, n + 19, y)
  BY <1>6, <1>7, <1>8, <1>9, <1>10, <1>11 DEF Grown
<1>19. a6 \in Seq(Octet) /\ Len(a6) = SMART_CONFIG_PROFILE_SIZE
  BY <1>13, <1>14 DEF Grown
<1>20. n + 1 \in Nat /\ n + 3 \in Nat /\ n + 19 \in Nat
  BY ONLY <1>2
<1>21. /\ Holds(a6, 0, one) /\ Holds(a6, 1, name) /\ Holds(a6, n + 1, two)
       /\ Holds(a6, n + 3, x) /\ Holds(a6, n + 19, y)
  BY <1>3, <1>4, <1>15, <1>16, <1>17, <1>18, <1>20
<1>22. QED
  BY <1>1, <1>19, <1>21 DEF Layout, one, two, n

\* Bytes of an array are what it holds there.
LEMMA HeldBytes ==
    ASSUME NEW array \in Seq(Octet), NEW from \in Nat, NEW part \in Seq(Octet),
           Holds(array, from, part)
    PROVE  Bytes(array, from, Len(part)) = part
BY PartIs DEF Holds

\* The fields in front of the blocks, as the function reads them.
FieldsRead(array, name, sec) ==
    /\ At(array, 0) = Len(name) /\ At(array, Len(name) + 1) = 32
    /\ At(array, Len(name) + 2) = sec /\ Bytes(array, 1, Len(name)) = name

\* They are read as they are laid out.
LEMMA Fields ==
    ASSUME NEW name \in Seq(Octet), NEW sec, NEW x, NEW y, NEW array,
           Layout(array, name, sec, x, y)
    PROVE  FieldsRead(array, name, sec)
<1> DEFINE n == Len(name)
<1>1. n \in Nat
  OBVIOUS
<1>2. Holds(array, 0, <<n>>) /\ Holds(array, n + 1, <<32, sec>>)
  BY DEF Layout
<1>3. Bytes(array, 1, n) = name
  BY HeldBytes DEF Layout
<1> HIDE DEF n
<1>4. array[0 + 1] = n
  BY <1>2 DEF Holds
<1>5. array[(n + 1) + 1] = 32 /\ array[(n + 1) + 2] = sec
  BY <1>2 DEF Holds
<1>6. (n + 1) + 2 = (n + 2) + 1
  BY <1>1
<1>7. QED
  BY <1>3, <1>4, <1>5, <1>6 DEF At, n, FieldsRead

\* Both blocks are decrypted, each in its place.
LEMMA DecryptedLayout ==
    ASSUME NEW name \in Seq(Octet), NEW sec \in Octet, NEW key, NEW array,
           NEW x \in Seq(Octet), NEW y \in Seq(Octet), Len(x) = 16, Len(y) = 16,
           NEW dx \in Seq(Octet), NEW dy \in Seq(Octet), Len(dx) = 16, Len(dy) = 16,
           dx = Decrypt(x, key), dy = Decrypt(y, key), Len(name) <= 32,
           Layout(array, name, sec, x, y)
    PROVE  Layout(Decrypted(array, Len(name) + 3, key), name, sec, dx, dy)
<1> DEFINE n     == Len(name)
           one   == <<n>>
           two   == <<32, sec>>
           first == DecryptAt(array, n + 3, key)
           both  == DecryptAt(first, (n + 3) + 16, key)
<1>1. n \in Nat /\ n <= 32 /\ n \in Octet
  <2>1. n \in Nat /\ n <= 32
    OBVIOUS
  <2> HIDE DEF n
  <2>2. QED
    BY ONLY <2>1 DEF Octet, UINT8
<1>2. Decrypted(array, n + 3, key) = both
  <2>1. At(array, At(array, 0) + 1) = 32
    <3>1. name \in Seq(Octet) /\ Layout(array, name, sec, x, y)
      OBVIOUS
    <3>2. FieldsRead(array, name, sec)
      BY ONLY <3>1, Fields, Zenon
    <3>3. At(array, 0) = Len(name) /\ At(array, Len(name) + 1) = 32
      BY <3>2 DEF FieldsRead
    <3>4. QED
      BY <3>3, Zenon
  <2>2. 32 > 16
    OBVIOUS
  <2>3. QED
    BY <2>1, <2>2 DEF Decrypted
<1> HIDE DEF n
<1>3. /\ one \in Seq(Octet) /\ Len(one) = 1 /\ two \in Seq(Octet) /\ Len(two) = 2
  <2>1. 32 \in Octet
    BY DEF Octet, UINT8
  <2>2. QED
    BY <1>1, <2>1
<1> HIDE DEF one, two
<1>4. /\ array \in Seq(Octet) /\ Len(array) = SMART_CONFIG_PROFILE_SIZE
      /\ Holds(array, 0, one) /\ Holds(array, 1, name) /\ Holds(array, n + 1, two)
      /\ Holds(array, n + 3, x) /\ Holds(array, n + 19, y)
  BY DEF Layout, one, two, n
<1>5. /\ n + 3 \in Nat /\ n + 1 \in Nat /\ n + 19 \in Nat /\ 0 \in Nat /\ 1 \in Nat
      /\ (n + 3) + 16 = n + 19
      /\ (n + 3) + 16 <= SMART_CONFIG_PROFILE_SIZE
      /\ (n + 19) + 16 <= SMART_CONFIG_PROFILE_SIZE
      /\ 0 + 1 <= n + 3 /\ 1 + n <= n + 3 /\ (n + 1) + 2 <= n + 3
      /\ 0 + 1 <= n + 19 /\ 1 + n <= n + 19 /\ (n + 1) + 2 <= n + 19
      /\ (n + 3) + 16 <= n + 19
  BY ONLY <1>1 DEF SMART_CONFIG_PROFILE_SIZE
<1>6. BlockReplaced(first, array, n + 3, dx)
  <2>1. Bytes(array, n + 3, 16) = x
    BY <1>4, <1>5, HeldBytes, Zenon
  <2>2. dx = Decrypt(Bytes(array, n + 3, 16), key)
    BY <2>1
  <2>3. QED
    BY <1>4, <1>5, <2>2, DecryptsInPlace
<1> HIDE DEF first
<1>7. Len(name) = n
  BY DEF n
<1>8. /\ first \in Seq(Octet) /\ Len(first) = SMART_CONFIG_PROFILE_SIZE
      /\ Holds(first, 0, one) /\ Holds(first, 1, name) /\ Holds(first, n + 1, two)
      /\ Holds(first, n + 3, dx) /\ Holds(first, n + 19, y)
  BY <1>3, <1>4, <1>5, <1>6, <1>7 DEF BlockReplaced
<1>9. BlockReplaced(both, first, n + 19, dy)
  <2>1. Bytes(first, n + 19, 16) = y
    BY <1>5, <1>8, HeldBytes, Zenon
  <2>2. dy = Decrypt(Bytes(first, n + 19, 16), key)
    BY <2>1
  <2>3. BlockReplaced(DecryptAt(first, n + 19, key), first, n + 19, dy)
    BY <1>5, <1>8, <2>2, DecryptsInPlace
  <2>4. QED
    BY <1>5, <2>3
<1> HIDE DEF both
<1>10. /\ both \in Seq(Octet) /\ Len(both) = SMART_CONFIG_PROFILE_SIZE
       /\ Holds(both, 0, one) /\ Holds(both, 1, name) /\ Holds(both, n + 1, two)
       /\ Holds(both, n + 3, dx) /\ Holds(both, n + 19, dy)
  BY <1>3, <1>5, <1>7, <1>8, <1>9 DEF BlockReplaced
<1>11. QED
  BY <1>2, <1>10 DEF Layout, n, one, two

\* An array that holds two arrays, one behind the other, holds both as one.
LEMMA HoldsHalves ==
    ASSUME NEW array \in Seq(Octet), NEW p \in Seq(Octet), Len(p) = 32,
           NEW at \in Nat, Holds(array, at, Bytes(p, 0, 16)),
           Holds(array, at + 16, Bytes(p, 16, 16))
    PROVE  Holds(array, at, p)
<1> DEFINE x == Bytes(p, 0, 16)
           y == Bytes(p, 16, 16)
<1>0. /\ p \in Seq(Octet) /\ 0 \in Nat /\ 16 \in Nat
      /\ 0 + 16 <= Len(p) /\ 16 + 16 <= Len(p)
  OBVIOUS
<1>1. Len(x) = 16 /\ \A i \in 1..16 : x[i] = p[0 + i]
  BY ONLY <1>0, Part, Zenon
<1>2. Len(y) = 16 /\ \A i \in 1..16 : y[i] = p[16 + i]
  BY ONLY <1>0, Part, Zenon
<1>3. Holds(array, at, x) /\ Holds(array, at + 16, y)
  OBVIOUS
<1> HIDE DEF x, y
<1>4. /\ \A i \in 1..16 : array[at + i] = x[i]
      /\ \A i \in 1..16 : array[(at + 16) + i] = y[i]
      /\ (at + 16) + 16 <= Len(array)
  BY <1>1, <1>2, <1>3 DEF Holds
<1>5. ASSUME NEW i \in 1..32 PROVE array[at + i] = p[i]
  <2>1. CASE i <= 16
    <3>1. i \in 1..16 /\ 0 + i = i
      BY <2>1
    <3>2. array[at + i] = x[i]
      BY ONLY <1>4, <3>1
    <3>3. x[i] = p[0 + i]
      BY ONLY <1>1, <3>1, Zenon
    <3>4. QED
      BY ONLY <3>1, <3>2, <3>3, Zenon
  <2>2. CASE ~(i <= 16)
    <3> DEFINE j == i - 16
    <3>1. j \in 1..16 /\ (at + 16) + j = at + i /\ 16 + j = i
      BY ONLY <2>2, at \in Nat, i \in 1..32
    <3> HIDE DEF j
    <3>2. array[(at + 16) + j] = y[j]
      BY ONLY <1>4, <3>1, Zenon
    <3>3. y[j] = p[16 + j]
      BY ONLY <1>2, <3>1, Zenon
    <3>4. QED
      BY ONLY <3>1, <3>2, <3>3, Zenon
  <2>3. QED
    BY <2>1, <2>2
<1>6. (at + 16) + 16 = at + 32
  OBVIOUS
<1>7. QED
  BY <1>4, <1>5, <1>6 DEF Holds

\* The passphrase is found: a length in front of it, or none if it fills all
\* bytes.  Text neither begins with the byte 31 nor ends with a zero.
LEMMA KeyFound ==
    ASSUME NEW array \in Seq(Octet), NEW at \in Nat,
           NEW text \in Seq(Octet), Len(text) <= 32,
           Len(text) \in {31, 32} => \A i \in 1..Len(text) : text[i] \notin {0, 31},
           Holds(array, at, Plain(text))
    PROVE  LET key == FindKey(array, at)
           IN  Bytes(array, key.from, key.len) = text
<1> DEFINE p == Plain(text)
           n == Len(text)
<1>1. n \in Nat /\ n <= 32
  OBVIOUS
<1>2. /\ p \in Seq(Octet) /\ Len(p) = 32 /\ (n = 32 => p = text)
      /\ n # 32 => /\ p[1] = n
                   /\ \A i \in 1..n : p[1 + i] = text[i]
                   /\ n # 31 => p[32] = 0
  BY PlainBytes
<1> HIDE DEF p
<1>3. at + 32 <= Len(array) /\ \A i \in 1..32 : array[at + i] = p[i]
  BY <1>2 DEF Holds, p
<1>4. At(array, at) = p[1] /\ At(array, at + 31) = p[32]
  <2>1. (at + 31) + 1 = at + 32
    OBVIOUS
  <2>2. QED
    BY <1>3, <2>1 DEF At
<1>5. CASE n = 32
  <2>1. p = text /\ p[1] # 31 /\ p[32] # 0
    BY <1>2, <1>5
  <2>2. FindKey(array, at) = [from |-> at, len |-> 32]
    BY ONLY <1>4, <2>1 DEF FindKey
  <2>3. Bytes(array, at, Len(text)) = text
    <3>1. Holds(array, at, text)
      BY <2>1 DEF p
    <3>2. array \in Seq(Octet) /\ at \in Nat /\ text \in Seq(Octet)
      OBVIOUS
    <3>3. QED
      BY ONLY <3>1, <3>2, HeldBytes, Zenon
  <2>4. QED
    BY <1>5, <2>2, <2>3
<1>6. CASE n # 32
  <2>1. FindKey(array, at) = [from |-> at + 1, len |-> n]
    <3>1. CASE n = 31
      <4>1. 31 \in 1..n /\ 1 + 31 = 32
        BY <3>1
      <4>2. p[32] = text[31] /\ text[31] # 0 /\ p[1] = 31
        BY <1>2, <3>1, <4>1
      <4>3. QED
        BY <1>4, <3>1, <4>2 DEF FindKey
    <3>2. CASE n # 31
      BY <1>2, <1>4, <1>6, <3>2 DEF FindKey
    <3>3. QED
      BY <3>1, <3>2
  <2>2. \A i \in 1..n : array[(at + 1) + i] = text[i]
    <3> SUFFICES ASSUME NEW i \in 1..n PROVE array[(at + 1) + i] = text[i]
      OBVIOUS
    <3> HIDE DEF n
    <3>1. 1 + i \in 1..32 /\ (at + 1) + i = at + (1 + i)
      BY ONLY <1>1, <1>6, at \in Nat, i \in 1..n
    <3>2. p[1 + i] = text[i]
      BY ONLY <1>2, <1>6, i \in 1..n, Zenon
    <3>3. array[at + (1 + i)] = p[1 + i]
      BY ONLY <1>3, <3>1, Zenon
    <3>4. QED
      BY ONLY <3>1, <3>2, <3>3, Zenon
  <2>3. Bytes(array, at + 1, Len(text)) = text
    <3>1. at + 1 \in Nat /\ (at + 1) + n <= Len(array)
      <4> DEFINE m == Len(array)
      <4>1. m \in Nat /\ at + 32 <= m
        BY <1>3
      <4> HIDE DEF n, m
      <4>2. (at + 1) + n <= m
        BY ONLY <1>1, <1>6, <4>1, at \in Nat
      <4>3. QED
        BY <4>2 DEF m
    <3>2. Holds(array, at + 1, text)
      BY <1>1, <2>2, <3>1 DEF Holds
    <3>3. array \in Seq(Octet) /\ at + 1 \in Nat /\ text \in Seq(Octet)
      BY <3>1
    <3>4. QED
      BY ONLY <3>2, <3>3, HeldBytes, Zenon
  <2>4. QED
    BY <2>1, <2>3
<1>7. QED
  BY <1>5, <1>6

\* The texts of each security type.
LEMMA TextsOf ==
    /\ Texts(0) = {<<>>} /\ Texts(1) = WepKeys
    /\ Texts(2) = Passphrases /\ Texts(3) = Passphrases
BY DEF Texts, WLAN_SEC_UNSEC, WLAN_SEC_WEP, WLAN_SEC_WPA, WLAN_SEC_WPA2

\* What the texts of the profiles have in common: bytes, 32 at most, and one
\* that nearly fills them has no control characters.
LEMMA TextBytes ==
    ASSUME NEW sec \in 0..3, NEW text, text \in Texts(sec)
    PROVE  /\ text \in Seq(Octet) /\ Len(text) <= 32
           /\ Len(text) \in {31, 32} =>
                \A i \in 1..Len(text) : text[i] \notin {0, 31}
<1> DEFINE n == Len(text)
<1>1. CASE sec = 0
  <2>1. text = <<>>
    BY <1>1, TextsOf
  <2>2. QED
    BY <2>1
<1>2. CASE sec = 1
  <2>1. text \in WepKeys
    BY <1>2, TextsOf
  <2>2. text \in Seq(Octet) /\ n \in {5, 13}
    BY <2>1, TextsAssumption
  <2> HIDE DEF n
  <2>3. n <= 32 /\ n \notin {31, 32}
    BY ONLY <2>2
  <2>4. QED
    BY ONLY <2>2, <2>3, Zenon DEF n
<1>3. CASE sec \in {2, 3}
  <2>1. text \in Passphrases
    BY <1>3, TextsOf
  <2>2. text \in Seq(32..255) /\ Len(text) \in 8..32
    BY <2>1, TextsAssumption
  <2>3. 32..255 \subseteq Octet
    BY DEF Octet, UINT8
  <2>4. \A i \in 1..Len(text) : text[i] \in 32..255
    BY ONLY <2>2, ElementOfSeq
  <2>5. text \in Seq(Octet)
    BY ONLY <2>2, <2>3, SeqMonotonic, Zenon
  <2>6. ASSUME NEW i \in 1..Len(text) PROVE text[i] \notin {0, 31}
    <3>1. text[i] \in 32..255
      BY ONLY <2>4, i \in 1..Len(text), Zenon
    <3> DEFINE byte == text[i]
    <3>2. byte \in 32..255
      BY <3>1
    <3> HIDE DEF byte
    <3>3. byte \notin {0, 31}
      BY ONLY <3>2
    <3>4. QED
      BY ONLY <3>3, Zenon DEF byte
  <2>7. n \in 8..32
    BY <2>2
  <2> HIDE DEF n
  <2>8. n <= 32
    BY ONLY <2>7
  <2>9. QED
    BY ONLY <2>5, <2>6, <2>8, Zenon DEF n
<1>4. QED
  BY <1>1, <1>2, <1>3

\* What the function makes of a stored profile.
LEMMA Recovered ==
    ASSUME NEW sec \in 0..3, NEW name \in Names, NEW key \in CipherKeys,
           NEW text \in Texts(sec), NEW result
    PROVE  wlan_smart_config_process(Read(0, key),
                                     Read(0, Stored(sec, name, text, key)), result)
             = Added(result, IF sec = WLAN_SEC_WPA THEN WLAN_SEC_WPA2 ELSE sec,
                     name, text)
<1> DEFINE p     == Plain(text)
           dx    == Bytes(p, 0, 16)
           dy    == Bytes(p, 16, 16)
           x     == Encrypt(dx, key)
           y     == Encrypt(dy, key)
           array == Stored(sec, name, text, key)
           at    == Len(name) + 3
           clear == Decrypted(array, at, key)
           found == FindKey(clear, at)
<1>1. name \in Seq(Octet) /\ Len(name) <= 32
  BY TextsAssumption
<1>2. /\ text \in Seq(Octet) /\ Len(text) <= 32
      /\ Len(text) \in {31, 32} =>
           \A i \in 1..Len(text) : text[i] \notin {0, 31}
  BY TextBytes
<1>3. p \in Seq(Octet) /\ Len(p) = 32
  BY <1>2, PlainBytes
<1>4. /\ x \in Seq(Octet) /\ Len(x) = 16 /\ Decrypt(x, key) = dx
      /\ y \in Seq(Octet) /\ Len(y) = 16 /\ Decrypt(y, key) = dy
  BY CipherAssumption
<1> HIDE DEF p
<1>5. dx \in Seq(Octet) /\ Len(dx) = 16 /\ dy \in Seq(Octet) /\ Len(dy) = 16
  <2>1. /\ p \in Seq(Octet) /\ 0 \in Nat /\ 16 \in Nat
        /\ 0 + 16 <= Len(p) /\ 16 + 16 <= Len(p)
    BY <1>3
  <2>2. QED
    BY ONLY <2>1, Part, Zenon
<1>6. x = Encrypt(Bytes(Plain(text), 0, 16), key)
      /\ y = Encrypt(Bytes(Plain(text), 16, 16), key)
  BY DEF p
<1> HIDE DEF dx, dy, x, y
<1>7. Layout(array, name, sec, x, y)
  BY <1>1, <1>4, <1>6, StoredLayout
<1> HIDE DEF array
<1>8. sec \in Octet
  BY DEF Octet, UINT8
<1>9. Layout(clear, name, sec, dx, dy)
  BY <1>1, <1>4, <1>5, <1>7, <1>8, DecryptedLayout
<1>10. FieldsRead(array, name, sec)
  BY ONLY <1>1, <1>7, Fields, Zenon
<1> HIDE DEF clear
<1>11. FieldsRead(clear, name, sec)
  BY ONLY <1>1, <1>9, Fields, Zenon
<1>12. Bytes(clear, found.from, found.len) = text
  <2>1. at \in Nat /\ at + 16 = Len(name) + 19
    BY <1>1
  <2>2. /\ clear \in Seq(Octet)
        /\ Holds(clear, at, dx) /\ Holds(clear, at + 16, dy)
    BY <1>9, <2>1 DEF Layout
  <2>3. Holds(clear, at, p)
    BY <1>3, <2>1, <2>2, HoldsHalves DEF dx, dy
  <2>4. QED
    BY <1>2, <2>1, <2>2, <2>3, KeyFound DEF p
<1> HIDE DEF found
<1>13. AddProfile(clear, found, result)
         = Added(result, IF sec = WLAN_SEC_WPA THEN WLAN_SEC_WPA2 ELSE sec, name, text)
  <2>1. CASE sec = 0
    <3>1. text = <<>>
      BY ONLY <2>1, TextsOf, text \in Texts(sec)
    <3>2. QED
      BY <1>11, <2>1, <3>1
      DEF FieldsRead, AddProfile, WLAN_SEC_UNSEC, WLAN_SEC_WEP, WLAN_SEC_WPA,
          WLAN_SEC_WPA2
  <2>2. CASE sec = 1
    BY <1>11, <1>12, <2>2
    DEF FieldsRead, AddProfile, WLAN_SEC_UNSEC, WLAN_SEC_WEP, WLAN_SEC_WPA
  <2>3. CASE sec \in {2, 3}
    BY <1>11, <1>12, <2>3
    DEF FieldsRead, AddProfile, WLAN_SEC_UNSEC, WLAN_SEC_WEP, WLAN_SEC_WPA,
        WLAN_SEC_WPA2
  <2>4. QED
    BY <2>1, <2>2, <2>3
<1>14. QED
  <2>1. At(array, 0) + 3 = at
    BY <1>10 DEF FieldsRead
  <2>2. wlan_smart_config_process(Read(0, key), Read(0, array), result)
          = AddProfile(clear, found, result)
    BY <2>1 DEF wlan_smart_config_process, Read, clear, found
  <2>3. QED
    BY <1>13, <2>2 DEF array

\* The profile a phone has stored is the profile the driver adds, name and
\* passphrase byte for byte, whatever the names, passphrases, WEP keys, cipher
\* and keys; whether the device could store it, and where, is what the function
\* returns; a failed read adds none (wlan.c:1144-1250).
THEOREM ProfilesRecovered == Spec => []ProfileRecovered
<1>1. KeysRecovered
  BY Recovered DEF KeysRecovered
<1>2. ReadErrorsReturned
  <2> SUFFICES ASSUME NEW a \in {0, 1}, NEW b \in {0, 1}, NEW key \in CipherKeys,
                      a + b > 0,
                      NEW bytes, NEW result
               PROVE  wlan_smart_config_process(Read(a, key), Read(b, bytes), result)
                        = NothingAdded(1)
    BY DEF ReadErrorsReturned
  <2>1. CASE a = 1
    BY <2>1 DEF wlan_smart_config_process, Read, NothingAdded
  <2>2. CASE a = 0 /\ b = 1
    BY <2>2 DEF wlan_smart_config_process, Read, NothingAdded
  <2>3. QED
    BY <2>1, <2>2
<1>3. ProfileRecovered
  BY <1>1, <1>2 DEF ProfileRecovered
<1>4. QED
  BY <1>3, PTL
==============================================================================
