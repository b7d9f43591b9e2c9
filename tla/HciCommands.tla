----------------------------- MODULE HciCommands -----------------------------
(***************************************************************************)
(* The commands of the host driver, as bytes: what each API function puts  *)
(* into the one transmit buffer, the lengths it declares to the device,    *)
(* the event it waits for and the variable the dispatcher of               *)
(* hci_event_handler writes the result to.                                 *)
(*                                                                         *)
(* Every function follows one scheme: fill the arguments behind the        *)
(* headers, send a frame (hci_command_send, or one of the two functions of *)
(* the data channel, then SpiWrite), wait for an event, perhaps for data,  *)
(* return.  The scheme is one set of actions; a function is a record.      *)
(* Contents are left out, lengths are kept.  Only nvmem_write_patch calls  *)
(* a command several times, so what it transfers is kept as well.          *)
(*                                                                         *)
(* Calls are made one at a time (under `sem'), and the answer of a call is *)
(* delivered to it, as HostController shows.                               *)
(***************************************************************************)
EXTENDS Naturals

CONSTANTS SsidLens, KeyLens,    \* lengths of network names and passphrases
          WepKeyLens,           \* lengths of one WEP key
          NameLens,             \* lengths of host names to resolve
          ServiceLens,          \* lengths of mDNS service names
          OptLens,              \* lengths of socket options
          SendLens,             \* lengths of data to send on a stream
          DatagramLens,         \* lengths of datagrams
          NvmemLens,            \* lengths of data written to NVMEM
          PatchLens             \* lengths of patches written to NVMEM

ASSUME LengthsAssumption ==
  /\ SsidLens \subseteq Nat /\ KeyLens \subseteq Nat
  /\ WepKeyLens \subseteq Nat /\ NameLens \subseteq Nat
  /\ ServiceLens \subseteq Nat /\ OptLens \subseteq Nat
  /\ SendLens \subseteq Nat /\ DatagramLens \subseteq Nat
  /\ NvmemLens \subseteq Nat

\* The offset of nvmem_write_patch is a UINT16.
ASSUME PatchLensAssumption == \A n \in PatchLens : n \in Nat /\ n < 65536

SPI_HEADER_SIZE == 5
HCI_CMND_HEADER_SIZE == 4
HCI_DATA_HEADER_SIZE == 5
\* Mutant: the buffer the longest profile fills, without the guard byte.
CC3000_TX_BUFFER_SIZE_NoGuard == 130
CC3000_TX_BUFFER_SIZE == 131
CC3000_SPI_TX_MAGIC_INDEX == CC3000_TX_BUFFER_SIZE - 1
SP_PORTION_SIZE == 32
HOSTNAME_MAX_LENGTH == 230
MDNS_DEVICE_SERVICE_MAX_LENGTH == 32
Byte == 256                     \* values of a UINT8
Short == 65536                  \* values of a UINT16

-----------------------------------------------------------------------------
(* The API functions.  `written' counts the bytes of arguments (and data)  *)
(* put into the buffer, `declared' is the length given to the HCI layer,   *)
(* `room' the size of the result variable, `data' tells whether the call   *)
(* then waits for a data packet.                                           *)

Command(op, written, declared, event, room) ==
  [op |-> op, header |-> HCI_CMND_HEADER_SIZE, written |-> written,
   declared |-> declared, event |-> event, room |-> room, data |-> "none"]

DataCommand(op, written, declared, event, room) ==
  [Command(op, written, declared, event, room)
     EXCEPT !.header = HCI_DATA_HEADER_SIZE]

\* wlan.c

SimpleLink_Init_Start ==
  Command("SIMPLE_LINK_START", 1, 1, "SIMPLE_LINK_START", 0)

wlan_start == Command("READ_BUFFER_SIZE", 0, 0, "READ_BUFFER_SIZE", 0)

\* Mutant: the length of the key is counted as if it had a terminator.
wlan_connect_Terminator(ssid, key) ==
  Command("WLAN_CONNECT", 5*4 + 2 + 6 + ssid + key, 29 + ssid + key,
          "WLAN_CONNECT", 4)

wlan_connect(ssid, key) ==
  Command("WLAN_CONNECT", 5*4 + 2 + 6 + ssid + key, 29 + ssid + key - 1,
          "WLAN_CONNECT", 4)

wlan_disconnect == Command("WLAN_DISCONNECT", 0, 0, "WLAN_DISCONNECT", 4)

wlan_ioctl_set_connection_policy ==
  Command("SET_CONNECTION_POLICY", 3*4, 12, "SET_CONNECTION_POLICY", 4)

\* WLAN_SEC_UNSEC, WLAN_SEC_WEP (four keys), and WLAN_SEC_WPA or _WPA2.
wlan_add_profile(sec, ssid, key) ==
  CASE sec = "none" ->
         Command("ADD_PROFILE", 3*4 + 2 + 6 + 4 + ssid, 24 + ssid,
                 "ADD_PROFILE", 4)
    [] sec = "wep" ->
         Command("ADD_PROFILE", 3*4 + 2 + 6 + 4*4 + ssid + 4*key,
                 36 + ssid + 4*key, "ADD_PROFILE", 4)
    [] sec = "wpa" ->
         Command("ADD_PROFILE", 3*4 + 2 + 6 + 6*4 + ssid + key,
                 44 + ssid + key, "ADD_PROFILE", 4)

wlan_ioctl_del_profile == Command("DEL_PROFILE", 4, 4, "DEL_PROFILE", 4)

wlan_ioctl_get_scan_results ==
  Command("GET_SCAN_RESULTS", 4, 4, "GET_SCAN_RESULTS", 4 + 4 + 1 + 1 + 2 + 32 + 6)

wlan_ioctl_set_scan_params ==
  Command("SET_SCANPARAM", 9*4 + 16*4, 100, "SET_SCANPARAM", 4)

EventMaskCommand == Command("EVENT_MASK", 4, 4, "EVENT_MASK", 4)

wlan_ioctl_statusget == Command("STATUSGET", 0, 0, "STATUSGET", 4)

wlan_smart_config_start ==
  Command("SIMPLE_CONFIG_START", 4, 4, "SIMPLE_CONFIG_START", 4)

wlan_smart_config_stop ==
  Command("SIMPLE_CONFIG_STOP", 0, 0, "SIMPLE_CONFIG_STOP", 4)

wlan_smart_config_set_prefix ==
  Command("SIMPLE_CONFIG_SET_PREFIX", 3, 3, "SIMPLE_CONFIG_SET_PREFIX", 4)

WlanCalls ==
  {SimpleLink_Init_Start, wlan_start, wlan_disconnect,
   wlan_ioctl_set_connection_policy, wlan_ioctl_del_profile,
   wlan_ioctl_get_scan_results, wlan_ioctl_set_scan_params,
   wlan_ioctl_statusget, wlan_smart_config_start, wlan_smart_config_stop,
   wlan_smart_config_set_prefix}
  \cup {wlan_connect(s, k) : s \in SsidLens, k \in KeyLens}
  \cup {wlan_add_profile("none", s, 0) : s \in SsidLens}
  \cup {wlan_add_profile("wep", s, k) : s \in SsidLens, k \in WepKeyLens}
  \cup {wlan_add_profile("wpa", s, k) : s \in SsidLens, k \in KeyLens}

\* netapp.c

netapp_dhcp == Command("DHCP", 5*4, 20, "DHCP", 1)
\* Four timeouts are written, NETAPP_SET_TIMER_PARAMS_LEN stands for five.
netapp_timeout_values == Command("SET_TIMERS", 4*4, 20, "SET_TIMERS", 1)
netapp_ping_send == Command("PING_SEND", 4*4, 16, "PING_SEND", 1)
netapp_ping_report == Command("PING_REPORT", 0, 0, "PING_REPORT", 1)
netapp_ping_stop == Command("PING_STOP", 0, 0, "PING_STOP", 1)
netapp_ipconfig == Command("IPCONFIG", 0, 0, "IPCONFIG", 5*4 + 6 + 32)
netapp_arp_flush == Command("ARP_FLUSH", 0, 0, "ARP_FLUSH", 1)
netapp_set_debug_level ==
  Command("SET_DEBUG_LEVEL", 4, 4, "SET_DEBUG_LEVEL", 1)

NetappCalls ==
  {netapp_dhcp, netapp_timeout_values, netapp_ping_send, netapp_ping_report,
   netapp_ping_stop, netapp_ipconfig, netapp_arp_flush,
   netapp_set_debug_level}

\* nvmem.c

\* Also nvmem_get_mac_address.
nvmem_read == [Command("NVMEM_READ", 3*4, 12, "NVMEM_READ", 1)
                 EXCEPT !.data = "always"]

\* Mutant: waits for the opcode of the command, not of its event.
nvmem_write_SameOpcode(len) ==
  DataCommand("NVMEM_WRITE", 4*4 + len, 16 + len, "NVMEM_WRITE", 4)

\* Also nvmem_set_mac_address.
nvmem_write(len) ==
  DataCommand("NVMEM_WRITE", 4*4 + len, 16 + len, "EVNT_NVMEM_WRITE", 4)

nvmem_read_sp_version ==
  Command("READ_SP_VERSION", 0, 0, "READ_SP_VERSION", 5)

nvmem_create_entry ==
  Command("NVMEM_CREATE_ENTRY", 2*4, 8, "NVMEM_CREATE_ENTRY", 1)

NvmemCalls == {nvmem_read, nvmem_read_sp_version, nvmem_create_entry}
              \cup {nvmem_write(len) : len \in NvmemLens}

\* socket.c

socket == Command("SOCKET", 3*4, 12, "SOCKET", 4)
closesocket == Command("CLOSE_SOCKET", 4, 4, "CLOSE_SOCKET", 4)
\* Mutant: a result variable without the peer's address.
accept_NoAddress == Command("ACCEPT", 4, 4, "ACCEPT", 4 + 4)
accept == Command("ACCEPT", 4, 4, "ACCEPT", 4 + 4 + 16)
bind == Command("BIND", 3*4 + 8, 20, "BIND", 4)
listen == Command("LISTEN", 2*4, 8, "LISTEN", 4)
gethostbyname(len) == Command("GETHOSTNAME", 2*4 + len, 9 + len - 1,
                              "GETHOSTNAME", 4 + 4)
connect == Command("CONNECT", 3*4 + 8, 20, "CONNECT", 4)
\* The timeout is written only if there is one, and always declared.
select(timeout) ==
  Command("BSD_SELECT", 9*4 + (IF timeout THEN 2*4 ELSE 0), 44,
          "BSD_SELECT", 4*4)
setsockopt(len) == Command("SETSOCKOPT", 5*4 + len, 20 + len, "SETSOCKOPT", 4)
getsockopt == Command("GETSOCKOPT", 3*4, 12, "GETSOCKOPT", 4 + 1)
simple_link_recv(op) == [Command(op, 3*4, 12, op, 3*4)
                           EXCEPT !.data = "ifAny"]
mdnsAdvertiser(len) == Command("MDNS_ADVERTISE", 3*4 + len, 12 + len,
                               "MDNS_ADVERTISE", 1)
getmssvalue == Command("GETMSSVALUE", 4, 4, "GETMSSVALUE", 2)

\* After HostFlowControlConsumeBuff; the peer's address is a whole sockaddr.
simple_link_send(op, len) ==
  IF op = "SENDTO"
    THEN DataCommand("SENDTO", 6*4 + len + 16, 24 + len + 16, "EVNT_SENDTO", 12)
    ELSE DataCommand("SEND", 4*4 + len, 16 + len, "EVNT_SEND", 12)

SocketCalls ==
  {socket, closesocket, accept, bind, listen, connect, getsockopt,
   getmssvalue, simple_link_recv("RECV"), simple_link_recv("RECVFROM")}
  \cup {gethostbyname(len) : len \in NameLens \cap 0 .. HOSTNAME_MAX_LENGTH}
  \cup {select(t) : t \in BOOLEAN}
  \cup {setsockopt(len) : len \in OptLens}
  \cup {mdnsAdvertiser(len) :
          len \in ServiceLens \cap 0 .. MDNS_DEVICE_SERVICE_MAX_LENGTH}
  \cup {simple_link_send("SEND", len) : len \in SendLens}
  \cup {simple_link_send("SENDTO", len) : len \in DatagramLens}

Calls == WlanCalls \cup NetappCalls \cup NvmemCalls \cup SocketCalls

\* With the commands of wlan_set_event_mask and nvmem_write_patch.
AllCalls == Calls \cup {EventMaskCommand}
            \cup {nvmem_write(len) : len \in 1 .. SP_PORTION_SIZE}

-----------------------------------------------------------------------------
(* The dispatcher: bytes written to the result variable for each event.    *)

StatusEvents ==
  {"WLAN_CONFIGURE_PATCH", "DHCP", "PING_SEND", "PING_STOP", "ARP_FLUSH",
   "SET_DEBUG_LEVEL", "SET_TIMERS", "NVMEM_READ", "NVMEM_CREATE_ENTRY",
   "NVMEM_WRITE_PATCH", "PING_REPORT", "MDNS_ADVERTISE"}

WordEvents ==
  {"SETSOCKOPT", "WLAN_CONNECT", "STATUSGET", "ADD_PROFILE", "DEL_PROFILE",
   "SET_CONNECTION_POLICY", "SET_SCANPARAM", "SIMPLE_CONFIG_START",
   "SIMPLE_CONFIG_STOP", "SIMPLE_CONFIG_SET_PREFIX", "EVENT_MASK",
   "WLAN_DISCONNECT", "SOCKET", "BIND", "LISTEN", "CLOSE_SOCKET", "CONNECT",
   "EVNT_NVMEM_WRITE"}

\* The last byte written through pRetParams, counted from its first.  The
\* scan result is written in words and short words that overlap.
ResultBytes(event) ==
  CASE event \in StatusEvents -> 1
    [] event \in WordEvents -> 4
    [] event = "READ_SP_VERSION" -> 1 + 4
    [] event = "GETHOSTNAME" -> 4 + 4
    [] event = "GETMSSVALUE" -> 2
    [] event = "ACCEPT" -> 4 + 4 + 16
    [] event \in {"RECV", "RECVFROM"} -> 4 + 4 + 4
    [] event \in {"EVNT_SEND", "EVNT_SENDTO"} -> 4 + 4
    [] event = "BSD_SELECT" -> 4*4
    [] event = "GETSOCKOPT" -> 4 + 1
    [] event = "GET_SCAN_RESULTS" -> 4 + 4 + 2 + 2 + 38
    [] event = "IPCONFIG" -> 5*4 + 6 + 32
    [] OTHER -> 0                 \* READ_BUFFER_SIZE, SIMPLE_LINK_START

\* The event with which the device answers a command: opcodes are shared, but
\* for the commands of the data channel.
EventOf(op) == CASE op = "NVMEM_WRITE" -> "EVNT_NVMEM_WRITE"
                 [] op = "SEND" -> "EVNT_SEND"
                 [] op = "SENDTO" -> "EVNT_SENDTO"
                 [] OTHER -> op

-----------------------------------------------------------------------------
(* State.                                                                  *)

VARIABLES pc,       \* where the calling thread is
          call,     \* the call in progress, or the last one
          guard,    \* the guard byte at the end of the buffer is as SpiOpen set it
          frame,    \* the frame of this call on the bus
          answer,   \* the event the device sent, and whether data follows it
          wrote,    \* bytes written to the result variable
          status,   \* the result of an NVMEM write
          inform,   \* tSLInformation.InformHostOnTxComplete
          patch,    \* nvmem_write_patch: its local variables
          flash     \* portions the device has written for this patch

callVars == <<pc, call, guard, frame, answer, wrote, status>>
patchVars == <<patch, flash>>
vars == <<callVars, inform, patchVars>>

NoFrame == [length |-> 0, spi |-> 0, bytes |-> 0]
NoAnswer == [event |-> "none", data |-> FALSE]
NoPatch == [phase |-> "none", total |-> 0, left |-> 0, offset |-> 0, from |-> 0]
Patching == patch.phase = "active"

Init == /\ pc = "idle" /\ call = wlan_start /\ guard = TRUE
        /\ frame = NoFrame /\ answer = NoAnswer /\ wrote = 0 /\ status = 0
        /\ inform = TRUE
        /\ patch = NoPatch /\ flash = {}

-----------------------------------------------------------------------------
(* One call.                                                               *)

\* The first index of the buffer behind what the call has written.
EndOf(c) == SPI_HEADER_SIZE + c.header + c.written

Fits(c) == EndOf(c) <= CC3000_SPI_TX_MAGIC_INDEX

\* The API function fills the buffer.  Arguments that reach the guard byte
\* change it, unless what they put there happens to be its own value.
Fill(c) == /\ pc = "idle" /\ pc' = "filled"
           /\ call' = c
           /\ IF Fits(c) THEN guard' = guard ELSE guard' \in {guard, FALSE}
           /\ frame' = NoFrame /\ answer' = NoAnswer
           /\ wrote' = 0 /\ status' = 0

Call == \E c \in Calls : ~Patching /\ Fill(c) /\ UNCHANGED <<inform, patchVars>>

\* TX_COMPLETE is a virtual event: alone, it needs no command.
wlan_set_event_mask ==
  /\ pc = "idle" /\ ~Patching
  /\ \E txComplete, others \in BOOLEAN :
       /\ inform' = ~txComplete
       /\ IF txComplete /\ ~others THEN UNCHANGED callVars
                                   ELSE Fill(EventMaskCommand)
  /\ UNCHANGED patchVars

\* hci_command_send: the length is an 8 bit parameter.
CommandFrame(c) == [length |-> c.declared % Byte,
                    size |-> (c.declared % Byte) + HCI_CMND_HEADER_SIZE]

\* hci_data_send, hci_data_command_send: the sum is a 16 bit field.
DataFrame(c) == [length |-> c.declared % Short,
                 size |-> (c.declared + HCI_DATA_HEADER_SIZE) % Short]

Hci(c) == IF c.header = HCI_CMND_HEADER_SIZE THEN CommandFrame(c)
                                             ELSE DataFrame(c)

\* Mutant: the length is padded to an even number, the frame to an odd one.
Padded_Even(n) == IF n % 2 = 1 THEN n + 1 ELSE n

\* SpiWrite pads the length to an odd number: with its header it is even.
Padded(n) == IF n % 2 = 0 THEN n + 1 ELSE n

\* SpiWrite never returns if the guard byte has changed.
SpiWrite == /\ pc = "filled"
            /\ pc' = IF guard THEN "sent" ELSE "stopped"
            /\ frame' = LET n == Padded(Hci(call).size)
                        IN  IF guard THEN [length |-> Hci(call).length, spi |-> n,
                                           bytes |-> n + SPI_HEADER_SIZE]
                                     ELSE NoFrame
            /\ UNCHANGED <<call, guard, answer, wrote, status, inform, patchVars>>

\* while (1);
Stopped == pc = "stopped" /\ UNCHANGED vars

-----------------------------------------------------------------------------
(* nvmem_write_patch: whole portions while they succeed, then the rest.    *)

PortionLength == IF patch.left >= SP_PORTION_SIZE THEN SP_PORTION_SIZE
                                                  ELSE patch.left

\* The device (external) writes what it was sent, or refuses it.
DeviceWrites ==
  \E s \in {0, 1} :
    /\ status' = s
    /\ flash' = IF Patching /\ s = 0
                  THEN flash \cup {[at |-> patch.offset, from |-> patch.from,
                                   len |-> PortionLength]}
                  ELSE flash

BeginPatch == /\ pc = "idle" /\ ~Patching
              /\ \E n \in PatchLens :
                   patch' = [NoPatch EXCEPT !.phase = "active", !.total = n,
                                            !.left = n]
              /\ flash' = {} /\ status' = 0
              /\ UNCHANGED <<pc, call, guard, frame, answer, wrote, inform>>

NextPortion == /\ pc = "idle" /\ Patching /\ status = 0 /\ patch.left # 0
               /\ Fill(nvmem_write(PortionLength))
               /\ UNCHANGED <<inform, patchVars>>

\* Mutant: the file offset stays where it is.
AfterPortion_OffsetKept ==
  IF patch.left >= SP_PORTION_SIZE
    THEN [patch EXCEPT !.from = @ + SP_PORTION_SIZE,
                       !.left = @ - SP_PORTION_SIZE]
    ELSE [patch EXCEPT !.phase = IF status = 0 THEN "ok" ELSE "failed"]

\* After a portion of the loop its offset (16 bit) and pointer advance; after
\* the rest the function returns the status.
AfterPortion ==
  IF patch.left >= SP_PORTION_SIZE
    THEN [patch EXCEPT !.offset = (@ + SP_PORTION_SIZE) % Short,
                       !.from = @ + SP_PORTION_SIZE,
                       !.left = @ - SP_PORTION_SIZE]
    ELSE [patch EXCEPT !.phase = IF status = 0 THEN "ok" ELSE "failed"]

EndPatch == /\ pc = "idle" /\ Patching /\ (status # 0 \/ patch.left = 0)
            /\ patch' = [patch EXCEPT !.phase = IF status = 0 THEN "ok"
                                                             ELSE "failed"]
            /\ UNCHANGED <<callVars, inform, flash>>

-----------------------------------------------------------------------------
(* The answer.                                                             *)

\* The device (external) answers a command once.  A read of NVMEM is followed
\* by data whatever its status, a receive if the device has any.
DeviceAnswer == /\ pc = "sent" /\ answer = NoAnswer
                /\ \E more \in BOOLEAN :
                     /\ call.data = "none" => ~more
                     /\ call.data = "always" => more
                     /\ answer' = [event |-> EventOf(call.op), data |-> more]
                /\ IF call.op = "NVMEM_WRITE"
                     THEN DeviceWrites
                     ELSE UNCHANGED <<status, flash>>
                /\ UNCHANGED <<pc, call, guard, frame, wrote, inform, patch>>

\* hci_event_handler writes the result, and returns if the event is awaited.
HandleEvent == /\ pc = "sent" /\ answer # NoAnswer
               /\ wrote' = ResultBytes(answer.event)
               /\ pc' = IF answer.event # call.event THEN "hung"
                        ELSE IF answer.data THEN "data" ELSE "done"
               /\ UNCHANGED <<call, guard, frame, answer, status, inform,
                              patchVars>>

\* SimpleLinkWaitData.
HandleData == /\ pc = "data" /\ pc' = "done"
              /\ UNCHANGED <<call, guard, frame, answer, wrote, status, inform,
                             patchVars>>

Return == /\ pc = "done" /\ pc' = "idle"
          /\ patch' = IF Patching THEN AfterPortion ELSE patch
          /\ UNCHANGED <<call, guard, frame, answer, wrote, status, inform, flash>>

Next == \/ Call \/ wlan_set_event_mask \/ BeginPatch
        \/ NextPortion \/ EndPatch
        \/ SpiWrite \/ DeviceAnswer \/ HandleEvent \/ HandleData \/ Return
        \/ Stopped

Spec == Init /\ [][Next]_vars

\* A call that has begun goes on, and the device answers.
Progress == \/ NextPortion \/ EndPatch
            \/ SpiWrite \/ DeviceAnswer \/ HandleEvent \/ HandleData \/ Return

FairSpec == Spec /\ WF_vars(Progress)

-----------------------------------------------------------------------------
(* Properties.                                                             *)

\* The values of the variables.
TypeOK == /\ pc \in {"idle", "filled", "sent", "data", "done", "hung", "stopped"}
          /\ call \in AllCalls /\ guard \in BOOLEAN /\ inform \in BOOLEAN
          /\ frame \in [length : Nat, spi : Nat, bytes : Nat]
          /\ wrote \in Nat /\ status \in {0, 1}
          /\ patch.phase \in {"none", "active", "ok", "failed"}
          /\ patch.left \in 0 .. patch.total /\ patch.offset \in 0 .. Short - 1

\* The frame of a command that fits the buffer occupies an even number of
\* bytes on the bus, as many as its SPI header says, and carries the whole HCI
\* packet with at most one byte of padding, which stays off the guard byte.
FrameOnBus == frame # NoFrame /\ Fits(call) =>
                /\ frame.bytes % 2 = 0
                /\ frame.bytes = frame.spi + SPI_HEADER_SIZE
                /\ frame.spi - (frame.length + call.header) \in {0, 1}
                /\ frame.bytes <= CC3000_SPI_TX_MAGIC_INDEX

\* Bytes a command declares although its function has not written them: the
\* fifth timeout, and the timeout of a select without one.
Unwritten(c) == IF c.op = "SET_TIMERS" THEN {4}
                ELSE IF c.op = "BSD_SELECT" THEN {0, 8} ELSE {0}

\* The length such a frame announces to the device covers what this call has
\* put into the shared buffer and nothing left there by an earlier call, except
\* for the two commands of `Unwritten'; lengths survive the 8 bit parameter.
OwnBytesOnly == frame # NoFrame /\ Fits(call) =>
                  frame.length - call.written \in Unwritten(call)

\* The dispatcher writes exactly the result variable of the call that waits:
\* no byte behind it, and (but for a send, which ignores its result) no byte
\* left unset.
ResultExact == pc \in {"data", "done"} =>
                 /\ wrote <= call.room
                 /\ call.op \notin {"SEND", "SENDTO"} => wrote = call.room

\* The calls with arguments longer than the transmit buffer has room for; only
\* gethostbyname and mdnsAdvertiser limit theirs, to 230 and 32.
OverLong ==
  {wlan_connect(p[1], p[2]) : p \in {q \in SsidLens \X KeyLens : q[1] + q[2] > 93}}
  \cup {wlan_add_profile("none", s, 0) : s \in {n \in SsidLens : n > 97}}
  \cup {wlan_add_profile("wep", p[1], p[2]) :
          p \in {q \in SsidLens \X WepKeyLens : q[1] + 4*q[2] > 85}}
  \cup {wlan_add_profile("wpa", p[1], p[2]) :
          p \in {q \in SsidLens \X KeyLens : q[1] + q[2] > 77}}
  \cup {gethostbyname(len) : len \in NameLens \cap 114 .. HOSTNAME_MAX_LENGTH}
  \cup {setsockopt(len) : len \in {n \in OptLens : n > 101}}
  \cup {nvmem_write(len) : len \in {n \in NvmemLens : n > 104}}
  \cup {simple_link_send("SEND", len) : len \in {n \in SendLens : n > 104}}
  \cup {simple_link_send("SENDTO", len) : len \in {n \in DatagramLens : n > 80}}

\* The guard byte is lost only in a call whose own arguments are too long, and
\* to be seen in that call: no other call is ever stopped by SpiWrite, whatever
\* overruns went unnoticed before it.
OnlyOverrunsStop == ~guard => call \in OverLong

\* nvmem_write_patch writes portions to the place they come from, one behind
\* the other, and reports success only when the last one is written.
PatchWritten ==
  /\ \A p \in flash : /\ p.at = p.from
                       /\ p.at # 0 => \E q \in flash : q.at + q.len = p.at
  /\ patch.phase = "ok" /\ patch.total > 0 =>
       \E p \in flash : p.at + p.len = patch.total

\* Every call returns, unless SpiWrite finds the guard byte changed: the event
\* it waits for is the one the device sends.
CallReturns == (pc # "idle" \/ Patching) ~> (pc = "idle" /\ ~Patching) \/ ~guard
==============================================================================
