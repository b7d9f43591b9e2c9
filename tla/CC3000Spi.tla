------------------------------ MODULE CC3000Spi ------------------------------
(***************************************************************************)
(* The SPI driver of the CC3000 host (src/csrc/drv/cc3000_spi.c) together  *)
(* with the device at the other end of the bus.                            *)
(*                                                                         *)
(* Three agents of the host share the driver state `spiState':             *)
(*   - the host thread, which starts the device (wlan_start) and then      *)
(*     calls SpiWrite, one call at a time (every native holds `sem');      *)
(*   - the reader thread irqSignalHandlerThread;                           *)
(*   - the interrupt handler cc3000ExtCb, run on a falling edge of IRQ.    *)
(* A falling edge is latched (`edge') and the handler runs some time       *)
(* later.  The device lowers IRQ to announce a packet or to grant a write, *)
(* and raises it after chip select (CS) is released.                       *)
(*                                                                         *)
(* Packets and frames are counted, not carried: their layout is in the     *)
(* length and framing arithmetic, their meaning in HostController.         *)
(***************************************************************************)
EXTENDS Naturals

CONSTANTS MaxPackets,   \* bound: packets the device produces in a behaviour
          MaxWrites     \* bound: SpiWrite calls of the host in a behaviour

ASSUME BoundsAssumption == MaxPackets \in Nat /\ MaxWrites \in Nat

VARIABLES spiState,     \* spiInformation.spiState
          irqReadSem,   \* tokens of the semaphore the reader waits on
          irqWriteSem,  \* tokens of the semaphore SpiWrite waits on
          bus,          \* holder of the SPI peripheral lock
          cs,           \* TRUE while the device is selected
          readerPC,     \* program counter of irqSignalHandlerThread
          writerPC,     \* program counter of the host thread
          wen,          \* level of the WLAN_EN pin
          irq,          \* level of the IRQ pin
          edge,         \* a falling edge is latched, its handler has not run
          dev,          \* what the device is doing on the bus
          produced,     \* packets the device has queued for the host
          sent,         \* packets the device has shifted out
          delivered,    \* packets handed to rxHandlerCb
          issued,       \* SpiWrite calls begun
          received      \* frames the device has shifted in

hostVars == <<spiState, irqReadSem, irqWriteSem>>
busVars  == <<bus, cs>>
devVars  == <<wen, irq, edge, dev>>
counters == <<produced, sent, delivered, issued, received>>
vars == <<hostVars, busVars, readerPC, writerPC, devVars, counters>>

SpiStates == {"POWERUP", "INITIALIZED", "IDLE", "WRITE_REQUESTED",
              "WRITE_PERMITTED", "READ_REQUESTED", "READ_PERMITTED"}

ReaderPCs == {"wait", "check", "permit", "lock", "select", "header", "body",
              "trigger", "setIdle", "unselect", "unlock"}

StartPCs == {"open", "enable", "waitHigh", "waitLow"}
WriterPCs == StartPCs \cup
             {"ready", "entry", "pollInit", "branch",
              "firstLock", "firstSelect", "firstHead", "firstRest",
              "acquire", "lock", "select", "semWait", "transfer",
              "setIdle", "unselect", "unlock"}

\* "off"       not powered, or powered and still booting
\* "booted"    IRQ lowered to announce the end of the boot
\* "idle"      IRQ high, nothing under way
\* "reading"   IRQ lowered to announce a packet
\* "granted"   IRQ lowered because CS was asserted
\* "served"    one transfer was made in this CS window
\* "releasing" CS was released, IRQ is about to rise
DevStates == {"off", "booted", "idle", "reading", "granted", "served",
              "releasing"}

Init == /\ spiState = "POWERUP"
        /\ irqReadSem = 0 /\ irqWriteSem = 0
        /\ bus = "free" /\ cs = FALSE
        /\ readerPC = "wait" /\ writerPC = "open"
        /\ wen = FALSE /\ irq \in {0, 1} /\ edge = FALSE /\ dev = "off"
        /\ produced = 0 /\ sent = 0 /\ delivered = 0
        /\ issued = 0 /\ received = 0

-----------------------------------------------------------------------------
(* The device (external: the part of its protocol the driver relies on).   *)

LowerIrq == irq' = 0 /\ edge' = TRUE

\* WLAN_EN is up but the line is still low from before: it first rises.
DevRaise == /\ wen /\ dev = "off" /\ irq = 0
            /\ irq' = 1
            /\ UNCHANGED <<hostVars, busVars, readerPC, writerPC, wen, edge,
                           dev, counters>>

\* The device has booted.  wlan_start samples the line without sleeping and
\* a boot takes milliseconds, so the high level is always seen before.
DevBoot == /\ wen /\ dev = "off" /\ irq = 1 /\ writerPC # "waitHigh"
           /\ dev' = "booted" /\ LowerIrq
           /\ UNCHANGED <<hostVars, busVars, readerPC, writerPC, wen, counters>>

\* Something happened in the device: a response, an event, received data.
DevProduce == /\ dev \notin {"off", "booted"}
              /\ produced < MaxPackets
              /\ produced' = produced + 1
              /\ UNCHANGED <<hostVars, busVars, readerPC, writerPC, devVars,
                             sent, delivered, issued, received>>

DevRequestRead == /\ dev = "idle" /\ ~cs /\ sent < produced
                  /\ dev' = "reading" /\ LowerIrq
                  /\ UNCHANGED <<hostVars, busVars, readerPC, writerPC, wen,
                                 counters>>

DevGrantWrite == /\ dev = "idle" /\ cs
                 /\ dev' = "granted" /\ LowerIrq
                 /\ UNCHANGED <<hostVars, busVars, readerPC, writerPC, wen,
                                counters>>

DevRelease == /\ dev = "releasing"
              /\ dev' = "idle" /\ irq' = 1
              /\ UNCHANGED <<hostVars, busVars, readerPC, writerPC, wen, edge,
                             counters>>

\* The host clocks a read frame: the announced packet leaves the device.
\* Clocked at any other time it takes nothing out of the device.
ClockRead == IF dev = "reading"
             THEN dev' = "served" /\ sent' = sent + 1
             ELSE UNCHANGED <<dev, sent>>

\* The host clocks a write frame.  A device that had announced a packet sees
\* the write opcode, takes the frame and announces its packet again later.
ClockWrite == IF dev \in {"booted", "reading", "granted"}
              THEN dev' = "served" /\ received' = received + 1
              ELSE UNCHANGED <<dev, received>>

\* CS rises: the device raises IRQ some time later if it has been served.
SeeUnselect == dev' = IF dev = "served" THEN "releasing" ELSE dev

-----------------------------------------------------------------------------
(* cc3000ExtCb: the whole handler runs under the system lock.  In the last *)
(* branch of the source ("uhh?!?") the edge is consumed without effect.    *)

IsrState(s) == CASE s = "POWERUP"         -> "INITIALIZED"
                 [] s = "IDLE"            -> "READ_REQUESTED"
                 [] s = "WRITE_REQUESTED" -> "WRITE_PERMITTED"
                 [] OTHER                 -> s

\* Mutant: the write semaphore is not signalled.
cc3000ExtCb_NoGrant ==
    /\ edge /\ edge' = FALSE
    /\ spiState' = IsrState(spiState)
    /\ irqReadSem' = irqReadSem + (IF spiState = "IDLE" THEN 1 ELSE 0)
    /\ UNCHANGED <<irqWriteSem, busVars, readerPC, writerPC, wen, irq, dev,
                   counters>>

\* Mutant: the read semaphore is not signalled.
cc3000ExtCb_NoRead ==
    /\ edge /\ edge' = FALSE
    /\ spiState' = IsrState(spiState)
    /\ irqWriteSem' = irqWriteSem
                       + (IF spiState = "WRITE_REQUESTED" THEN 1 ELSE 0)
    /\ UNCHANGED <<irqReadSem, busVars, readerPC, writerPC, wen, irq, dev,
                   counters>>

cc3000ExtCb ==
    /\ edge /\ edge' = FALSE
    /\ spiState' = IsrState(spiState)
    /\ irqReadSem' = irqReadSem + (IF spiState = "IDLE" THEN 1 ELSE 0)
    /\ irqWriteSem' = irqWriteSem
                       + (IF spiState = "WRITE_REQUESTED" THEN 1 ELSE 0)
    /\ UNCHANGED <<busVars, readerPC, writerPC, wen, irq, dev, counters>>

-----------------------------------------------------------------------------
(* irqSignalHandlerThread: one action per step another agent can observe.  *)

ReaderGoto(from, to) == readerPC = from /\ readerPC' = to

ReaderWait == /\ ReaderGoto("wait", "check")
              /\ irqReadSem > 0 /\ irqReadSem' = irqReadSem - 1
              /\ UNCHANGED <<spiState, irqWriteSem, busVars, writerPC, devVars,
                             counters>>

ReaderCheck == /\ readerPC = "check"
               /\ readerPC' = IF spiState = "READ_REQUESTED" THEN "permit"
                                                             ELSE "wait"
               /\ UNCHANGED <<hostVars, busVars, writerPC, devVars, counters>>

ReaderPermit == /\ ReaderGoto("permit", "lock")
                /\ spiState' = "READ_PERMITTED"
                /\ UNCHANGED <<irqReadSem, irqWriteSem, busVars, writerPC,
                               devVars, counters>>

ReaderLock == /\ ReaderGoto("lock", "select")
              /\ bus = "free" /\ bus' = "reader"
              /\ UNCHANGED <<hostVars, cs, writerPC, devVars, counters>>

ReaderSelect == /\ ReaderGoto("select", "header")
                /\ cs' = TRUE
                /\ UNCHANGED <<hostVars, bus, writerPC, devVars, counters>>

\* The header tells the type and the length of the rest: nothing moves yet.
SpiReadHeader == /\ ReaderGoto("header", "body")
                 /\ UNCHANGED <<hostVars, busVars, writerPC, devVars, counters>>

\* Mutant: CS is released as soon as the packet has been clocked in.
SpiReadAfterHeader_Unselects ==
    /\ ReaderGoto("body", "trigger")
    /\ dev' = "releasing" /\ sent' = sent + 1 /\ cs' = FALSE
    /\ UNCHANGED <<hostVars, bus, writerPC, wen, irq, edge, produced,
                   delivered, issued, received>>

SpiReadAfterHeader == /\ ReaderGoto("body", "trigger")
                      /\ ClockRead
                      /\ UNCHANGED <<hostVars, busVars, writerPC, wen, irq,
                                     edge, produced, delivered, issued,
                                     received>>

SpiTriggerRxProcessing == /\ ReaderGoto("trigger", "setIdle")
                          /\ delivered' = delivered + 1
                          /\ UNCHANGED <<hostVars, busVars, writerPC, devVars,
                                         produced, sent, issued, received>>

\* Mutant: the state is not set back to IDLE after a read.
ReaderSetIdle_Missing ==
    /\ ReaderGoto("setIdle", "unselect")
    /\ UNCHANGED <<hostVars, busVars, writerPC, devVars, counters>>

ReaderSetIdle == /\ ReaderGoto("setIdle", "unselect")
                 /\ spiState' = "IDLE"
                 /\ UNCHANGED <<irqReadSem, irqWriteSem, busVars, writerPC,
                                devVars, counters>>

ReaderUnselect == /\ ReaderGoto("unselect", "unlock")
                  /\ cs' = FALSE /\ SeeUnselect
                  /\ UNCHANGED <<hostVars, bus, writerPC, wen, irq, edge,
                                 counters>>

ReaderUnlock == /\ ReaderGoto("unlock", "wait")
                /\ bus' = "free"
                /\ UNCHANGED <<hostVars, cs, writerPC, devVars, counters>>

Reader == \/ ReaderWait \/ ReaderCheck \/ ReaderPermit \/ ReaderLock
          \/ ReaderSelect \/ SpiReadHeader \/ SpiReadAfterHeader
          \/ SpiTriggerRxProcessing \/ ReaderSetIdle \/ ReaderUnselect
          \/ ReaderUnlock

-----------------------------------------------------------------------------
(* The host thread starting the device: wlan_start up to the first command *)

WriterGoto(from, to) == writerPC = from /\ writerPC' = to

SpiOpen == /\ WriterGoto("open", "enable")
           /\ spiState' = "POWERUP"
           /\ UNCHANGED <<irqReadSem, irqWriteSem, busVars, readerPC, devVars,
                          counters>>

EnableDevice == /\ writerPC = "enable"
                /\ writerPC' = IF irq = 1 THEN "waitLow" ELSE "waitHigh"
                /\ wen' = TRUE
                /\ UNCHANGED <<hostVars, busVars, readerPC, irq, edge, dev,
                               counters>>

WaitIrqHigh == /\ WriterGoto("waitHigh", "waitLow")
               /\ irq = 1
               /\ UNCHANGED <<hostVars, busVars, readerPC, devVars, counters>>

WaitIrqLow == /\ WriterGoto("waitLow", "ready")
              /\ irq = 0
              /\ UNCHANGED <<hostVars, busVars, readerPC, devVars, counters>>

-----------------------------------------------------------------------------
(* SpiWrite, called by the HCI layer with the global semaphore held.       *)

SpiWrite == /\ WriterGoto("ready", "entry")
            /\ issued < MaxWrites
            /\ issued' = issued + 1
            /\ UNCHANGED <<hostVars, busVars, readerPC, devVars, produced,
                           sent, delivered, received>>

WriteEntry == /\ writerPC = "entry"
              /\ writerPC' = IF spiState = "POWERUP" THEN "pollInit"
                                                     ELSE "branch"
              /\ UNCHANGED <<hostVars, busVars, readerPC, devVars, counters>>

PollInitialized == /\ WriterGoto("pollInit", "branch")
                   /\ spiState = "INITIALIZED"
                   /\ UNCHANGED <<hostVars, busVars, readerPC, devVars,
                                  counters>>

WriteBranch == /\ writerPC = "branch"
               /\ writerPC' = IF spiState = "INITIALIZED" THEN "firstLock"
                                                          ELSE "acquire"
               /\ UNCHANGED <<hostVars, busVars, readerPC, devVars, counters>>

\* Mutant: the write is requested without looking at the state.
AcquireIdle_Untested == /\ WriterGoto("acquire", "lock")
                        /\ spiState' = "WRITE_REQUESTED"
                        /\ UNCHANGED <<irqReadSem, irqWriteSem, busVars,
                                       readerPC, devVars, counters>>

\* The state is polled and changed under the system lock.
AcquireIdle == /\ WriterGoto("acquire", "lock")
               /\ spiState = "IDLE" /\ spiState' = "WRITE_REQUESTED"
               /\ UNCHANGED <<irqReadSem, irqWriteSem, busVars, readerPC,
                              devVars, counters>>

\* Mutant: the SPI peripheral is not locked by a write.
WriterLock_Unlocked == /\ \/ WriterGoto("lock", "select")
                          \/ WriterGoto("firstLock", "firstSelect")
                       /\ bus' = "writer"
                       /\ UNCHANGED <<hostVars, cs, readerPC, devVars, counters>>

WriterLock == /\ \/ WriterGoto("lock", "select")
                 \/ WriterGoto("firstLock", "firstSelect")
              /\ bus = "free" /\ bus' = "writer"
              /\ UNCHANGED <<hostVars, cs, readerPC, devVars, counters>>

WriterSelect == /\ \/ WriterGoto("select", "semWait")
                   \/ WriterGoto("firstSelect", "firstHead")
                /\ cs' = TRUE
                /\ UNCHANGED <<hostVars, bus, readerPC, devVars, counters>>

\* SpiFirstWrite sends four bytes, pauses, and sends the rest.
FirstWriteHead == /\ WriterGoto("firstHead", "firstRest")
                  /\ UNCHANGED <<hostVars, busVars, readerPC, devVars, counters>>

\* Mutant: the frame is clocked without waiting for the grant.
WaitGrant_NoWait == /\ WriterGoto("semWait", "transfer")
                    /\ UNCHANGED <<hostVars, busVars, readerPC, devVars,
                                   counters>>

WaitGrant == /\ WriterGoto("semWait", "transfer")
             /\ irqWriteSem > 0 /\ irqWriteSem' = irqWriteSem - 1
             /\ UNCHANGED <<spiState, irqReadSem, busVars, readerPC, devVars,
                            counters>>

WriteTransfer == /\ \/ WriterGoto("transfer", "setIdle")
                    \/ WriterGoto("firstRest", "setIdle")
                 /\ ClockWrite
                 /\ UNCHANGED <<hostVars, busVars, readerPC, wen, irq, edge,
                                produced, sent, delivered, issued>>

WriterSetIdle == /\ WriterGoto("setIdle", "unselect")
                 /\ spiState' = "IDLE"
                 /\ UNCHANGED <<irqReadSem, irqWriteSem, busVars, readerPC,
                                devVars, counters>>

WriterUnselect == /\ WriterGoto("unselect", "unlock")
                  /\ cs' = FALSE /\ SeeUnselect
                  /\ UNCHANGED <<hostVars, bus, readerPC, wen, irq, edge,
                                 counters>>

WriterUnlock == /\ WriterGoto("unlock", "ready")
                /\ bus' = "free"
                /\ UNCHANGED <<hostVars, cs, readerPC, devVars, counters>>

Start == SpiOpen \/ EnableDevice \/ WaitIrqHigh \/ WaitIrqLow

\* The steps of a SpiWrite call that has begun.
WriteCall == \/ WriteEntry \/ PollInitialized \/ WriteBranch \/ AcquireIdle
             \/ WriterLock \/ WriterSelect \/ FirstWriteHead \/ WaitGrant
             \/ WriteTransfer \/ WriterSetIdle \/ WriterUnselect
             \/ WriterUnlock

\* What the device must do; producing packets is its own decision.
DevProtocol == DevRaise \/ DevBoot \/ DevRequestRead \/ DevGrantWrite
               \/ DevRelease

\* The bounds are exhausted and nothing is left to move.
Finished == /\ writerPC = "ready" /\ issued = MaxWrites
            /\ readerPC = "wait" /\ dev = "idle"
            /\ produced = MaxPackets /\ sent = produced
            /\ UNCHANGED vars

Next == \/ DevProtocol \/ DevProduce \/ cc3000ExtCb \/ Reader
        \/ Start \/ SpiWrite \/ WriteCall \/ Finished

Spec == Init /\ [][Next]_vars

(* Interrupts are served, both threads are scheduled (the reader has the   *)
(* higher priority and blocks between packets, the host thread sleeps in   *)
(* its only polling loop under the scheduler) and the device follows its   *)
(* protocol.  Nothing makes the host call SpiWrite or the device produce.  *)
Fairness == /\ WF_vars(cc3000ExtCb)
            /\ WF_vars(Reader)
            /\ WF_vars(Start)
            /\ WF_vars(WriteCall)
            /\ WF_vars(DevProtocol)

FairSpec == Spec /\ Fairness

-----------------------------------------------------------------------------
(* Invariants *)

\* Type invariant of the driver and device state.
TypeOK == /\ spiState \in SpiStates
          /\ irqReadSem \in Nat /\ irqWriteSem \in Nat
          /\ bus \in {"free", "reader", "writer"} /\ cs \in BOOLEAN
          /\ readerPC \in ReaderPCs /\ writerPC \in WriterPCs
          /\ wen \in BOOLEAN /\ irq \in {0, 1} /\ edge \in BOOLEAN
          /\ dev \in DevStates
          /\ produced \in Nat /\ sent \in Nat /\ delivered \in Nat
          /\ issued \in Nat /\ received \in Nat

\* Whenever the interrupt handler may run, one of its first three branches
\* applies: no falling edge of the device is consumed without effect.
NoLostEdge == edge => spiState \in {"POWERUP", "IDLE", "WRITE_REQUESTED"}

\* The comment of irqSignalHandlerThread ("state must be read requested"):
\* nobody changes the state between the signal and the wake-up.
WokenToRead == readerPC \in {"check", "permit"} => spiState = "READ_REQUESTED"

\* A token of a semaphore is never stale and never counted twice: it stands
\* for the request or the grant that spiState still shows, and the request is
\* still there when the reader that took it looks.
TokensCurrent == /\ WokenToRead
                 /\ irqReadSem > 0 => /\ irqReadSem = 1
                                      /\ spiState = "READ_REQUESTED"
                                      /\ readerPC \in {"unlock", "wait"}
                 /\ irqWriteSem > 0 => /\ irqWriteSem = 1
                                       /\ spiState = "WRITE_PERMITTED"
                                       /\ writerPC \in {"lock", "select",
                                                        "semWait"}

\* The host clocks a frame only while the device is listening for one of
\* that direction, with CS held by the thread that clocks.
ClockedWhenGranted ==
    /\ readerPC \in {"header", "body"} =>
           cs /\ bus = "reader" /\ irq = 0 /\ dev = "reading"
    /\ writerPC = "transfer" =>
           cs /\ bus = "writer" /\ irq = 0 /\ dev \in {"reading", "granted"}
    /\ writerPC \in {"firstHead", "firstRest"} =>
           cs /\ bus = "writer" /\ irq = 0 /\ dev = "booted"

\* What the comment of SpiTriggerRxProcessing asks for: the device raises no
\* new interrupt while the received packet is being processed.
NoInterruptWhileProcessing == readerPC = "trigger" => ~edge /\ dev = "served"

InWriteCall == writerPC \in {"entry", "pollInit", "branch", "firstLock",
    "firstSelect", "firstHead", "firstRest", "acquire", "lock", "select",
    "semWait", "transfer"}

\* Every packet that leaves the device is handed to the HCI layer once, and
\* every frame of a finished SpiWrite has entered the device once, whatever
\* collisions of requests there were.
ExactlyOnce ==
    /\ sent = delivered + (IF readerPC = "trigger" THEN 1 ELSE 0)
    /\ issued = received + (IF InWriteCall THEN 1 ELSE 0)
    /\ sent <= produced

-----------------------------------------------------------------------------
(* Liveness *)

\* A call of SpiWrite returns (finitely many packets compete with it).
WriteReturns == (writerPC = "entry") ~> (writerPC = "ready")

\* Every packet the device produces reaches the HCI layer.
PacketsDelivered ==
    \A n \in 1..MaxPackets : (produced >= n) ~> (delivered >= n)

-----------------------------------------------------------------------------
(* Refinement: the driver is a half-duplex packet transport.               *)

TransportBus ==
    CASE ~cs -> "free"
      [] cs /\ readerPC \in {"header", "body", "trigger"} -> "in"
      [] cs /\ readerPC \in {"setIdle", "unselect"}       -> "inDone"
      [] cs /\ writerPC \in {"semWait", "transfer", "firstHead",
                             "firstRest"}                 -> "out"
      [] OTHER                                            -> "outDone"

Transport == INSTANCE SpiTransport WITH bus <- TransportBus,
                                        accepted <- received

\* Every step of the driver is a step of the abstract transport or leaves
\* it unchanged.
ImplementsTransport == Transport!Spec
==============================================================================
