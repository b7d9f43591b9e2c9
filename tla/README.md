# Verification of the CC3000 driver

TLA+ models of the Zerynth driver for the TI CC3000 WiFi chip, their TLC runs,
and TLAPS proofs about them. The modules are translated from the C sources
under `src/csrc`; the device itself is modelled from how the driver uses it.

## The system

A CC3000 is an SPI slave with one interrupt line (IRQ) and one enable pin. The
driver consists of layers that share global state:

| Component | Source | State it keeps | Operations |
|---|---|---|---|
| SPI driver | `drv/cc3000_spi.c` | `spiInformation.spiState`, two semaphores, the SPI peripheral lock, CS | interrupt handler `cc3000ExtCb`, reader thread `irqSignalHandlerThread`, `SpiOpen`, `SpiWrite`, `SpiFirstWrite`, `SpiClose` |
| Device start and stop | `drv/cc3000_ifc.c` (`cc3000_init`, `cc3000_done`), `wlan.c` (`wlan_init`, `wlan_start`, `wlan_stop`), `drv/cc3000_spi.c` (`cc3000WlanInit`, `SpiClose`) | `sem`, the semaphores and thread of the reader, WLAN_EN, the callbacks, the reset of `tSLInformation` | start up to `READ_BUFFER_SIZE`, stop, start again |
| HCI layer | `hci.c`, `evnt_handler.c` | `usEventOrDataReceived`, `usRxEventOpcode`, `usRxDataPending`, one receive and one transmit buffer | send command, data or patch; wait for event, wait for data; dispatch of unsolicited events |
| Flow control | `socket.c`, `evnt_handler.c` | `usNumberOfFreeBuffers`, sent and released packet counts, `slTransmitDataError` | `HostFlowControlConsumeBuff`, FREE_BUFF handler |
| Sockets | `drv/cc3000_ifc.c`, `socket.c`, `drv/async_handler.c` | table `sockets[4]`, `socket_active_status`, `sem`, the GIL | the natives `socket`, `bind`, `sockopt`, `listen`, `accept`, `connect`, `close`, `send*`, `recv*`, `select`, `resolve` |
| Link management | `drv/cc3000_ifc.c`, `drv/async_handler.c`, `wlan.c` | `cc3000AsyncData` | `wifi_link`, `wifi_unlink`, the callback `CC3000AsyncCb` |
| Configuration, netapp, NVMEM | `wlan.c`, `netapp.c`, `nvmem.c` | none in the host | one command and one event each; patch upload |
| Security, conversions | `security.c`, `cc3000_common.c` | none | AES for smart config, byte order |
| Python bindings | `cc3000.py`, `cc3000_tiny.py` | none | declarations of the natives |

### How the parts interact

* A *native* runs in a thread of the VM. It gives up the GIL, takes `sem`, and
  calls one or several functions of the host driver. Each sends an HCI command
  (`hci_command_send` → `SpiWrite`), sets the awaited opcode, and spins in
  `hci_event_handler` until the answer is in the receive buffer.
* The *reader thread* is woken by the interrupt handler, reads a packet while
  it holds CS, and calls `SpiReceiveHandler` before it releases CS. There an
  unsolicited event is acted upon at once: flow control credits are given
  back, `CC3000AsyncCb` changes the link flags and the socket table.
* The *interrupt handler* interprets a falling edge of IRQ by the driver state
  alone: end of boot, a packet, or the grant of a write.
* Shared without a lock: `spiState`, the receive buffer and its flag, the
  awaited opcode, the credits, the link flags, the socket table.

### What is hard here

* Edges are events: one that comes in the wrong state is gone (no retry).
* A read request and a write request collide on one line.
* One receive buffer, one flag and one awaited opcode for two consumers.
* Unlocked read-modify-write of the credits by two threads.
* A descriptor number is reused by the device before the driver's table knows
  that the old socket is gone.
* Flags describing the link outlive the link.
* Calls spin without a timeout: an event that is lost hangs the caller, which
  holds `sem`, and so every later native.
* A receive cuts its buffer into portions, each a command of its own, and takes
  counts, errors and results through types of different signs.
* A restart replaces semaphores and adds a reader thread, and ends nothing.
* Some forty functions add up lengths by hand, for one transmit buffer that is
  never cleared and one result pointer whose type depends on the event.

### What makes each component correct

* SPI: no edge is lost; a frame is clocked only while the device listens for
  it; packets and frames cross the bus exactly once, collisions included; a
  write returns and a packet arrives.
* HCI: a call gets the answer and the data of its own command; unsolicited
  events are handled once; every call returns.
* Flow control: the device is never sent a packet it has no buffer for; the
  sender is never starved; "can shut down" is true when it is said.
* Sockets: the table says which descriptors are open, and goes wrong only in
  known ways; a closed socket is not marked active; locks exclude and never
  deadlock.
* Data: one call's bytes stay together on the wire and in the buffer, the
  count returned is the count moved, and what select has found readable stays so
  until somebody reads it.
* Restart: nothing of an earlier start serves or disturbs the current one.
* Link: flags catch up with the device; success means an address.
* Cipher and profiles: the unrolled cipher is AES, and a stored profile comes
  out as it went in.
* Commands: a frame carries the bytes of its own call; the guard byte is lost only
  to arguments longer than the buffer; the result written is the one the caller
  has room for; a patch reported as written is written.

`PROJECT.json` lists the hazards with their lines and the properties that
would catch them.

## Modules

| Module | Models | Proofs |
|---|---|---|
| `CC3000Spi` | SPI driver from power-up, with the device's bus protocol | `CC3000SpiProofs` |
| `SpiTransport` | abstract: a half-duplex link that carries one packet per bus window, exactly once | implemented by `CC3000Spi` |
| `HostController` | commands, events, data, unsolicited dispatch, patch requests | `HostControllerProofs` |
| `CommandService` | abstract: one command at a time, executed once, answered by its own event and data; events acted upon once | implemented by `HostController` under `Paced` |
| `FlowControl` | credits at load/store grain, counts, refused sends, shutdown | `FlowControlProofs` |
| `SocketLayer` | natives, locks, socket table, status bits, accept polling, TCP_CLOSE_WAIT | `SocketLayerProofs` |
| `NetIo` | the loops of send, sendall, sendto, recv_into, recvfrom_into; select and its results | `NetIoProofs` |
| `Lifecycle` | cc3000_init, cc3000_done, restarts, the reader threads and semaphores of all starts | `LifecycleProofs` |
| `WifiLink` | link, unlink, asynchronous events and flags | `WifiLinkProofs` |
| `HciCommands` | the bytes of every command: lengths, frame, guard byte, awaited event, result; the NVMEM patch loop | `HciCommandsProofs` |
| `Aes` | AES-128 as `security.c` unrolls it, against its definition | |
| `SmartConfig` | `wlan_smart_config_process`: the profile behind the cipher | `HciCommandsProofs` |
| `ScanResults` | the loop of `cc3000_scan` | `HciCommandsProofs` |
| `PacketRead` | the number of bytes read for a packet | `HciCommandsProofs` |
| `ByteArrays` | arrays of the code as sequences, for `Aes` and `SmartConfig` | |
| `PureFunctions` | the properties of `SmartConfig`, `ScanResults` and `PacketRead` as invariants beside `HciCommands` | `HciCommandsProofs` |
| `MC_*` | instances for TLC | |

Each layer assumes of the one below what that one promises: `HostController`
treats a frame or packet as one step, as `SpiTransport` allows; `HciCommands`,
`SocketLayer`, `NetIo` and `FlowControl` treat a command as answered, as
`CommandService` says. `CC3000Spi` is shown to implement the one, `HostController`
under its timing assumption the other, by TLC and by proof; `Lifecycle` treats a frame with its grant as one step,
since its subject is what surrounds them; `WifiLink` takes events to be handled in order and once.

Definitions whose names end in a suffix after the name of an action
(`WaitGrant_NoWait`) and whose comment begins with "Mutant" are plausible bugs
of that action. They are used by no specification; each names a change that
breaks a property, and so shows that the property says something.

### CC3000Spi

`spiState` is `spiInformation.spiState`. `readerPC` and `writerPC` are the
program counters of `irqSignalHandlerThread` and of the thread that starts the
device and then calls `SpiWrite`; one action per step between two accesses to
shared state. `cc3000ExtCb` is one action that runs at any time after an edge
was latched (`edge`). The semaphores are token counts, the peripheral lock is
`bus`. The device (external) announces packets when it has any and CS is high,
grants a write when CS is asserted, and raises IRQ after CS was released; a
write frame clocked while it was announcing a packet is accepted, and the
packet announced again. That last point is how the driver's collision works;
`ImplementsTransport` rests on it.

### HostController

One program counter for the caller (`hostPC`) through `hci_command_send`,
`SimpleLinkWaitEvent`, the loop of `hci_event_handler` and
`SimpleLinkWaitData`; one for the reader inside its callback. Packets carry the
number of the call they answer, so that a stale answer can be told from the
right one. Constants choose the environment:

* `Paced`: the device announces its next packet only after a spinning host has
  taken the last one, and an answer only once it is awaited (`DeviceWaits`).
  The driver has no mechanism for this: `SpiPauseSpi` and `SpiResumeSpi` change
  `ccspi_int_enabled`, which nothing reads, so an answer that comes before it is
  awaited is dropped and a second packet overwrites the first. The driver relies
  on the device taking milliseconds where the host takes microseconds. With
  that the layer is correct; with `Paced` FALSE only
  the type invariant holds.
  The host runs only while the reader is blocked, as the comment in
  `cc3000WlanInit` on the reader's priority says; interleaved, both would
  handle an event.
* `SendMayFail`: a send may be answered with status -57.

No patch is registered with `wlan_init` in this repository, so a patch request
is answered with the empty patch.

### FlowControl

`usNumberOfFreeBuffers--` is a load (`LoadCredits`) and a store
(`StoreCredits`); the reader's FREE_BUFF handling may come between. The loop of
`HostFlowControlConsumeBuff` is three tests. `occupied` and `freed` are the
device's buffers. With `EqualPriority` the caller may see a refused send
before the reader clears it, and returns; without it only the reader does, and
the send hangs (`"hung"`): see the finding on `simple_link_send`.

### SocketLayer

Every native goes through `Call`, `SemWait`, its command, `SemSignal`,
`AcquireGil`, the table, `Return`; setsockopt keeps the GIL; receive updates the
table inside `sem`. `cc3000_handle_socket` is a search (`FindSlot`) and a store
(`StoreSlot`). `accept` and `recvfrom` return to `SemWait` to poll. `handles`
is what each program may still use; a program does not use another thread's
descriptor, and a peer may close (`PeerCloses`).

`active` is `socket_active_status`. `Closesocket` clears a mark, and so do a
pending `accept`, a send the device refuses or cannot transmit
(`DevSendFailed`, at any later moment and in either thread), and the dispatch of
a receive: it reads a length through a pointer past its struct, and marks one
socket or none (`MarkedByRecv`). So an open socket may well be marked inactive.
What holds is the other direction, `active \subseteq open`.

`ExactFor(d)` compares the entries of a descriptor with the device and with the
threads about to insert or remove one. Programs of certain kinds keep it for ever
(`socket_table`); for all others `TableLosses` says how it is lost: an accepted
descriptor is never inserted; a socket is closed twice; no entry is found, which
includes a full table; the reader removes an entry (TCP_CLOSE_WAIT); or a thread
stores into an entry that is no longer what it found. The last one takes a
thread of the other kind between search and store, one that closes with
close(), under the GIL, and one whose receive fails, under `sem`; or the reader.

### NetIo

A native is a record (`call`): which one, its socket, its length, how far it
has got. `sem` is held from the first portion of `cc3000_net_send` and
`cc3000_net_recv` to the last; `cc3000_sendall` gives it up and repeats
(`AfterSignal`), `recvfrom_into` polls with select (`Polling`) before it
receives. Each portion is one step, the command and its answer; its errors are
steps of their own: the error of an earlier send that is reported late
(`TakeTxError`), an inactive socket, a refusal that `simple_link_send` returns
as success, a timeout, a failure. Bytes are told apart by place: in the buffer
that sends them, in the stream that arrives (`wire`, `got`). The error of
`slTransmitDataError` is an unsigned byte of the event, so the next send returns
it as a positive count: `blurred` collects the calls for which that, or an
ignored status, made the count untrue. `CallSelect` has the timeout
`cc3000_select` looks at before it is set as a choice (`garbage`); `Reported` is
its loop bound. `seen` is what had been taken from each stream at a call's last
answer of select: `sem` is free between that answer and its use, and another
thread may come first.

The three descriptor sets of select are handled alike; one stands for them.
`MarkedByRecv` is the inactive mark of the receive dispatch, as in `SocketLayer`.

### Lifecycle

Semaphores are numbered by the `cc3000_init` that created them: `sem` and
`irqSem` are the variables that name one, `tokens` and `rtokens` what each
holds, `at` and `rat` where a thread waits. `vosSemWait(sem)` reads the variable
once, at the call (`SemCall`, `ReaderLoop`), and later changes of it do not wake
the waiter. Every init has a reader thread of its own, and all of them remain.
`cc3000_init` may raise early (`InitSpiFails`) and at the end of
`cc3000WlanInit`, which has no `return` (`InitRaises`). `cc3000_done` turns the
device off (`Disable`), then takes away buffers and interrupt (`SpiClose`),
at any moment of a reader inside a packet (`ReaderFault`, or it goes on with
zeros) and of natives that wait for `sem` (`NullWrite`).

### Aes, SmartConfig, ScanResults, PacketRead

Functions without state of their own, written as operators over arrays of bytes
(sequences; `At(a, i)` is `a[i]`). `Aes` has one operator per group of unrolled
statements: `SubShift` is the key, the table and the shift of rows that the code
does in place, `MixColumns` the columns, `Barreto` the correction by which
decryption reuses them. The reference is the field product `Times`, from which
the table and the columns are derived, and the published cipher text.
`SmartConfig` has the cipher and what `wlan_add_profile` returns as parameters,
and composes them with the layout the comment in the code gives for the stored
profile; `commands` gives it that of `Aes`.
The three are evaluated by `commands` over the inputs named below; what `SmartConfig`,
`ScanResults` and `PacketRead` compute is proved for all inputs.

A stored passphrase is preceded by its length unless it fills its 32 bytes, and
the function tells the cases apart by the bytes: the last one, and whether the first
is 31. That works because a passphrase is text (`TextsAssumption` takes
control characters out); 32 bytes of which the first is 31 or the last is 0 would be
misread.

### WifiLink

`cc3000_wifi_link`'s two polling loops, the connect command, the timeouts
command; `CC3000AsyncCb` takes one event at a time from a queue that the device
fills in the order things happen to it. `clean` and `leasedSince` are history
variables for the properties.

### HciCommands

Every API function fills its arguments behind the headers in the one transmit
buffer, sends the frame, waits for an event and perhaps for data. The scheme is
one set of actions (`Fill`, `SpiWrite`, `DeviceAnswer`, `HandleEvent`,
`HandleData`, `Return`); a function is a record of that scheme with the
function's name: how many bytes it writes (`written`), the length it passes on
(`declared`), the opcode it awaits (`event`) and the size of its result variable
(`room`). Each figure is taken from that function's code and constants.
`CommandFrame` keeps the 8 bit length parameter of `hci_command_send`,
`DataFrame` the 16 bit fields of the data channel; `Padded` is the padding of
`SpiWrite`. `guard` tells whether the byte at `CC3000_SPI_TX_MAGIC_INDEX` has its
value. A command that does not fit (`Fits`) changes it, or happens to write the
same value there (`Fill`); if it is changed, `SpiWrite` stops for good
(`Stopped`). What an overrun does to the memory behind the buffer is left out.
`ResultBytes` is the dispatcher's big switch, by the last byte it writes through
`pRetParams`. `nvmem_write_patch` is a loop over
the same actions (`NextPortion`, `AfterPortion`), with the device's file as the
set of portions written.

Constants are the lengths the caller chooses. Contents are left out, except
where a portion of a patch comes from and goes to. Lengths that the functions
refuse (host names above 230, service names above 32) are among the inputs.

## Runs

| Run | Question | Bounds |
|---|---|---|
| `spi_bus` | invariants, refinement and liveness of the bus protocol | 3 packets, 3 writes: a collision before, between and after, and a queue of several packets |
| `hci_paced` | right answer, right data, once; do calls return? is it a `CommandService`? | 4 calls, 2 events, 2 patch requests: the start, and calls of different kinds in each order with events in every gap; sends may be refused |
| `hci_sendfail` | finding: a refused send | 2 calls |
| `flow` | no overrun, accounting, shutdown, no starvation | 3 buffers, 6 sends: more sends than credits that can be lost, the buffers wrap twice |
| `flow_credits` | finding: lost credits | 2 buffers, 2 sends |
| `socket_table` | is the table exact, do natives return? | 2 threads, 2 descriptors, 3 entries: room for the open descriptors and one being removed while its descriptor is open again; programs of socket and close, and programs of socket and recv, both with setsockopt and natives that only send a command |
| `socket_shared` | exclusion, status bits, how the table goes wrong | 2 threads, 2 descriptors, a table of 1 entry: a full table, a missing entry and a store that was overtaken occur; programs mix accept, close() and receives that fail, peers close, programs close twice |
| `socket_closewait` | finding: entry of a live socket removed | 2 threads, 2 descriptors, peers close |
| `link` | flags, success, return | 4 calls, 2 polls, 2 faults: two links, each with a fault before or after |
| `net_io` | data in one piece, true counts, how long an answer of select holds, return | 2 threads, 2 calls, 2 sockets; buffers of 3 with portions of 2 and 1: several portions with a rest; a peer of socket 0 that sends 2 bytes, so that a receive runs short and another thread can take what select has seen (socket 1 is the highest descriptor, which select never reports) |
| `lifecycle` | restarts: exclusion, reader, tokens, buffer, return | 2 threads, 3 starts (two restarts: readers of two earlier starts), 2 natives, 1 unsolicited event |
| `commands` | frames, guard byte, results, patches, return; the pure functions | below |

`commands` takes for each length the values where something changes, on both
sides: names of 1 and 32 characters; no key, a short one, and keys around what
fits beside the longest name in `wlan_add_profile` (45, 46) and in `wlan_connect`
(61, 62), and the longest there is (63); WEP keys of 5 and 13 (with which the
padded frame of `wlan_add_profile` ends just in front of the guard byte); host
names of 1, at the limit of the buffer (113, 114) and at `HOSTNAME_MAX_LENGTH`
(230, 231); service names around theirs; options of 101 and 102, NVMEM contents
of 104 and 105, datagrams of 80, 81 and 1400 bytes. `cc3000_net_send` cuts a
stream into portions of 64, `sendto` cuts nothing. Patches of no portion, less
than one, whole ones, and whole ones with a rest.

The same run evaluates the pure functions: every entry of the tables of `Aes`,
every bit of a block through the columns (the step is linear), nine blocks
under three keys through all rounds; names of 1 and 32, passphrases of 8 to 32 bytes
around the blocks of the cipher and the two special lengths, the two lengths of WEP
keys, an add that succeeds and one that fails; scan tables of up to 4
entries with every combination of status and validity; the extremes of what a
passphrase may hold; packets of all lengths (1 to 65535 for data, to 255 for events).

Threads and descriptors are symmetric in `socket_shared`.

Deadlock is checked in every run but those with a send that never returns
(`hci_paced`, `hci_sendfail`, `flow`, `flow_credits`), where the system really
stops, and `net_io` and `lifecycle`, where a bounded behaviour ends with
threads waiting for a peer, or with a fault or a wait that lasts. A `Finished` stutter marks the end of bounded behaviours.

### Restrictions a reader should know

* `TableExact` is checked for programs that take entries out in one way: with
  close(), under the GIL and without `sem`, or with receives that fail, under
  `sem` and without the GIL; they do not accept. `MC_SocketTable` has behaviours
  of both, with an entry to spare. Of a program with both it is false, and so it
  is with a full table or with `accept`. `TableLosses` is about all programs: it
  names these losses, and does not say that they are right.
* `NativesReturn` is checked for natives that do not poll: `accept` and
  `recvfrom` wait for a peer for as long as it takes, and `accept` also repeats
  after a failure.
* The status bits are only claimed to be inactive for a socket the device has
  closed. An open socket can be marked inactive: by a send that failed, by the
  receive dispatch, and by a pending accept, after which a later success does not
  mark the listener active again. No line of the repository says that it should.
* `CallReturns` of `hci_paced` leaves out refused sends; the finding on
  `simple_link_send` is about them.
* `OwnBytesOnly` names two commands that declare more than they write:
  `netapp_timeout_values` (a fifth timeout) and `select` without a timeout. They
  send what an earlier command left in the buffer.
* `CleanLinkIsReal` is conditional on a clean state: on flags that an earlier
  connection left set, `wifi_link` may succeed at once. The comment on
  `dhcp.present` calls the structure relevant only while connected; the code
  tests it in the same way before.
* Arguments longer than the transmit buffer reach it: a passphrase of 63 beside a
  name of 32, a host name of 114 to 230, a datagram above 80 bytes. The caller then
  stops for good in `SpiWrite`, with `sem` held, or, if the guard byte happens to
  keep its value, goes on with a frame longer than the buffer. `OnlyOverrunsStop`
  says that nothing else does that; `FrameOnBus` and `OwnBytesOnly` are about
  commands that fit, and `CallReturns` about calls that are not stopped.
* `SentAsReturned` leaves out calls in `blurred`, `ReceivedAsReturned` the
  count 118, which is a timeout with its sign changed.
* `select` never reports the highest descriptor asked for, since the loops that
  build its results end before it (`cc3000_ifc.c:589`). `Reported` is that loop;
  no property says it should be otherwise, since no line of the repository does.
  `ReadyUntilTaken` is about the descriptors it does report.
* `wlan_smart_config_process` returns what `wlan_add_profile` returned: the index
  (1 to 7) of the profile, or -1. The comment in front of it (`wlan.c:1132`)
  says zero on success. `ProfileRecovered` says what the code does; zero is only
  returned for a security type that is none of the four.
* `NativesReturn` of `net_io` names the waits: a receive without data (which
  holds `sem`, so that everybody waits), a select without a timeout, a sendall to
  a socket marked inactive, a recvfrom that polls.
* `Lifecycle` assumes of the program that it calls `cc3000_init` only when no
  native is under way, and natives other than it only after an init and before
  a done; a done may come while others wait. `CallsReturn` names what then
  happens to them: a fault, or waiting for ever for a device that is off.
* `ReaderFault` is a choice: what writing to address 0 does depends on the
  board. After a fault the model stops.
* `SpiClose` unlocks a bus it has not locked; what a surplus unlock does depends
  on the VM, and is left out. So is what `vhalSpiDone` does to a transfer.
* `InitSleep` takes the second that `cc3000WlanInit` sleeps to be long enough for
  readers to finish what they are in; without it `CleanRestart` is false.
* `ScanReported` promises all valid networks only if no invalid one precedes
  them: the loop stays on an invalid entry.

## Fairness

* SPI: weak fairness of the interrupt handler, the reader, the device, and of
  the writer; the peripheral lock is a VOS semaphore with a FIFO queue, so a
  thread waiting for it is not overtaken for ever. Starting new calls is not
  fair.
* HCI: the reader, the spinning host and the device's answers (`WF` each).
  Starting calls and spontaneous events are not fair.
* Flow control: the sender's own steps, the device's transmission and answer,
  the FREE_BUFF handling.
* Sockets: strong fairness of taking `sem` and the GIL, since the semaphores of
  the VM wake the longest waiter, and weak fairness of a thread's own steps
  (`Work`). None for a peer that connects or sends, and none for the callback.
* Data: the same as for sockets; a timeout, a failure and whatever a peer does
  may stay away for ever.
* Restart: the threads' and the readers' own steps (`WF`), taking `sem` (`SF`),
  the device's boot and its announcement of what it has.
* Link: the calling thread only. Nothing is assumed of the network.
* Commands: a call that has begun goes on and is answered; starting one is not
  fair.

## Proofs

`CC3000SpiProofs`: for any number of packets and writes. No single property is
inductive, because each relies on where the other agent can be. The invariant
`IInv` lists, for each value of `spiState`, the possible places of both
threads, the tokens, and the device's phase (`StateInv`), with who holds the
lock and CS (`BusInv`), the device's protocol (`DevInv`) and the counts
(`CountInv`). `IInvInit` and `IInvStep` show it inductive, one step per action;
type correctness and the invariants of `spi_bus` follow from it, and `DriverImplementsTransport`
maps every step to a step of `SpiTransport` or a stutter.

`FlowControlProofs`: for any number of buffers and sends. The decrement writes
back an earlier load, so the invariant must say that the loaded value was not
0 and that the credits have only grown since (`LoadedInv`). From it:
credits never go below 0, the device is never overrun, the counts add up, and
CAN_SHUT_DOWN is only reported when drained.

`HciCommandsProofs`: for any lengths of names, keys, host names, options and
data, and for patches shorter than 64 KiB (the offset of `nvmem_write_patch` is
16 bits; `PatchLensAssumption`). Two tables are proved first, one case per
function: `LengthsDeclared` (the declared length covers what was written, but
for two named commands) and `ResultsAwaited` (the awaited event is the one the
device sends, and its result fills the variable). The invariant `IInv` then says
where a call is, and that the guard byte is only lost in the course of one that does
not fit (`CallInv`, `GuardInv`), so that the length of any other is below 256 and the
8 bit parameter loses nothing;
that offset, pointer and rest of a patch agree (`PatchTypes`); and that the
portions written form an unbroken prefix, up to the portion in progress
(`FlashInv`, which has to distinguish whether that portion has been answered).
`BoundsExact` proves of every function's arguments that they fit in front of the
guard byte unless they are `OverLong`, and that those do not: name and passphrase
together above 93 in `wlan_connect` and 77 in `wlan_add_profile`; name alone above 97;
name and four WEP keys above 85; host names above 113; options above 101; data and NVMEM
contents above 104; datagrams above 80. `StopsOnlyOverruns` follows, with nothing assumed
of the lengths but that they are natural numbers.
`PacketsReadWhole` and `ReadParity` are about packets of any length, one lemma
for each of the two padding conditions. `ScanIsRight` and `ScanFindsLeading` are about scan tables
of any length: the loop of `cc3000_scan` is brought into a closed form
(`Rounds`: the entries in front of the first invalid one, and that one for the
rest), and the first invalid entry is found as a least element.
`ProfilesRecovered` is about any names, passphrases and WEP keys
(`TextsAssumption`) and any cipher that decrypts what it has encrypted
(`CipherAssumption`; that `Aes` does is TLC's part). The argument follows the bytes of the array:
where the blocks lie behind a name of any length, that decrypting one in place
leaves the rest alone, that a second block which is not decrypted holds nothing
of the key, and that the bytes tell passphrases of 31 and 32 apart.

`HostControllerProofs`: for any number of calls, unsolicited events and patch
requests, sends refused or not. All theorems assume `Paced`. That a call gets
its own result is a statement about the end of a call; the invariant follows
the answer there. `AnswerInv` says that it is in one place (still owed by the
device, on its way, in the buffer) and that it is there only while the host
awaits it, and that the data of a receive is behind its event. `QueueInv` says what can be
on its way, `SyncInv` that host and reader do not use the buffer at once,
`WaitInv` what the two waits mean at each step of the host, `BufferInv` what the
buffer holds until it is taken, `PatchInv` that a patch request is in one place.
Without `Paced` the reader overwrites the buffer: `HandledOnce` is then false.
`ControllerImplementsService` maps the layer to `CommandService`: a command is
asked for until the device takes its frame, then executed, and answered when the
call returns; an event is read when it is
put into the buffer and acted upon where reader or host handles it. The rest, the
receive buffer and its flag, the opcode awaited, the patch requests, are steps
that stutter. It rests on `IInv` at both ends of a step: that the answer a call
returns with is its own is what `AnswerInv` and `BufferInv` say.

`SocketLayerProofs`: for any threads, descriptors, table and choice of natives.
Exclusion, type correctness and `active \subseteq open` need only which threads have a
descriptor in their hands (`SdInv`). `LossesKnown` assumes a finite number of threads
and nothing of the programs. `FlowInv` says who is about to change the table, with
what, and which lock covers it: the GIL for socket() and close(), `sem` for receives.
Steps that are no loss either leave everything that `ExactFor` counts alone (`Same`)
or change two counts by one (`SocketExact`, `CloseExact`, `StoreExact`). A thread
between search and store keeps what it found unless another stores (`StaysAtStore`),
and two that store at once would both hold the GIL, or both `sem`, unless one is a
receive and the other is not (`StaleStep`).

`NetIoProofs`: for any threads, calls, lengths and portion sizes, and
descriptors from 0 to 31 (`SocksAssumption`: a set of descriptors is a word of 32
bits). The thread that holds `sem` is the only one that sends or receives
(`SemInv`), so what the device accepted last on a connection is what the call in
hand sent (`InHand`), and the device holds of every call exactly the bytes the
call has counted so far (`SentInv`); a receive has filled its buffer without a
gap from one place of the stream (`RecvInv`). `StageInv` relates the stage of a
call to its counts, `ReadyInv` what select has answered to what can be read: the bytes
a peer has sent can only be taken by a thread, an end or a close stays, and what has
been taken only grows.

`WifiLinkProofs`: for any number of calls, polls and faults, and queues of any
length. That the flags agree with the device once everything is handled says nothing of
events on their way. The invariant does: each flag will be what the last event
that bears on it says, or is right already if there is none (`ConnectedInv`,
`LeaseInv`); a lease needs an association (`LeaseJoined`), so that the device
announces a loss in time.

`LifecycleProofs`: for any number of threads, starts, calls and events. Three
arguments carry it. An init under way is alone (`InitAlone`), so `sem` is replaced
when nobody waits on it (`Mutex`). A request of the device is in one place, a
token that a reader can take or a reader with it, among the semaphores and
readers of all starts (`ReaderSems`, `OneRequest`). From the sleep of an init to
its first command no reader has anything to do (`QuietInv`), with the device on
only between the steps that say so (`DeviceInv`).

Least elements (the entry `FirstSlot` finds, the first invalid scan entry) come from
`WFMin` and `NatLessThanWellFounded`, which need no induction schema.

`ExactlyOnce` and `HandledOnce` say in terms of the implementation what the two
refinements say in those of the abstract modules; they are proved, and the runs
check the refinements.

Where type correctness is proved as `TypeCorrect`, no run repeats it; in the
other modules `Inv` joins `TypeOK` with an invariant of the module.

Each inductive invariant was first checked by TLC on the instance of its run.
Two definitions of the model changed for the proofs: `AfterSemWait` and
`HostReturn` were CASE expressions whose arms overlapped, which TLC resolves by
their order and TLA+ leaves open. Their arms now exclude each other.

The proofs assume the named ASSUMEs of the constants and what is named above
(`Paced`; for `LossesKnown`, a finite number of threads). What stays with TLC:

* liveness under fairness (`CallReturns`, `NativesReturn`, `CallsReturn`,
  `LinkReturns` and the others), which the prover does not do;
* `CipherIsAes`: `Aes` needs bitwise operators and recursion over the key schedule,
  which the prover cannot use;
* `TableExact`, which is about programs of two kinds with an entry to spare; the
  theorem about the table of every program is `LossesKnown`;
* the three findings.

## Findings

Each is a run with a counterexample; `PROJECT.json` quotes the line that says
otherwise.

* `hci_sendfail`: a send refused with -57 never returns.
* `flow_credits`: credits are lost for good.
* `socket_closewait`: closing a socket after its peer did can remove another
  live socket's entry.

## Not modelled

* Wording, logging, the parsing of native arguments, Python conversions, and
  the Python bindings, which declare the natives.
* The smart config event (`smtConfigFinished`) and what `gethostbyname`
  returns beside its status.
* What `netapp_timeout_values` rounds up, and byte order: no property depends on
  the values.
* The transfer of a patch registered with `wlan_init` (`hci_patch_send`): the
  repository registers none. Reading it shows that it needs work before one is
  (portions overlap the SPI header, the total length is overwritten, a portion
  is longer than the buffer).
* Whether the device sends data after a failed `nvmem_read`; it is taken to, as
  the comment there says.
* The table of sockets across a restart: the driver does not clear it, and which
  descriptors a restarted device gives out is not known from the source.
* The allocations that `cc3000_select` and `cc3000_scan` make in the VM after
  they have given up the GIL: the allocator is not part of this repository.
* The three further WEP keys that `wlan_add_profile` reads behind the one
  smart config has.

## Plan

Done: the modules above, and the proofs of both refinements and of every safety
invariant and action property that a run checks, but for `CipherIsAes` and
`TableExact`. What is left, in this order:

1. `PatchTransfer`: `hci_patch_send` with its portions, as pure definitions
   against a reference.
2. Type correctness of `HostController` without `Paced` (TLC finds it to hold).
3. Status bits: what the code that reads them makes of a bit that is too low
   (a listener after `accept`, a socket marked by the receive dispatch).

Runs are kept to one per question; where two modules can share an instance they
do, and a finding whose cause is covered by a stronger one gives up its run.
