--------------------------- MODULE CC3000SpiProofs ---------------------------
(***************************************************************************)
(* Proofs about the SPI driver, for every number of packets and writes.    *)
(*                                                                         *)
(* The inductive invariant lists, for every value of spiState, where the   *)
(* two threads and the device can be; the safety properties follow.        *)
(***************************************************************************)
EXTENDS CC3000Spi, TLAPS

\* The peripheral lock and CS are held exactly over these parts of the code.
ReaderHoldsBus == readerPC \in {"select", "header", "body", "trigger",
                                "setIdle", "unselect", "unlock"}
ReaderHoldsCS  == readerPC \in {"header", "body", "trigger", "setIdle",
                                "unselect"}
WriterHoldsBus == writerPC \in {"select", "firstSelect", "semWait",
                                "firstHead", "firstRest", "transfer",
                                "setIdle", "unselect", "unlock"}
WriterHoldsCS  == writerPC \in {"semWait", "firstHead", "firstRest",
                                "transfer", "setIdle", "unselect"}

BusInv == /\ bus = "reader" <=> ReaderHoldsBus
          /\ bus = "writer" <=> WriterHoldsBus
          /\ cs <=> ReaderHoldsCS \/ WriterHoldsCS

\* The level of IRQ and the CS window follow the device's protocol.
DevInv == /\ dev \in {"booted", "reading", "granted", "served", "releasing"}
                 => irq = 0
          /\ dev = "idle" => irq = 1
          /\ dev \in {"idle", "served", "releasing"} => ~edge
          /\ dev = "served" => \/ readerPC \in {"trigger", "setIdle",
                                                "unselect"}
                               \/ writerPC \in {"setIdle", "unselect"}
          /\ dev = "granted" => writerPC \in {"semWait", "transfer"}
          /\ readerPC \in {"header", "body"} => dev = "reading"
          /\ readerPC \in {"trigger", "setIdle", "unselect"} => dev = "served"
          /\ writerPC \in {"setIdle", "unselect"} => dev = "served"

\* The writer is between two calls or has not claimed the state yet.
WriterOutside == writerPC \in {"ready", "entry", "branch", "acquire"}

BeforeFirstWrite ==
    writerPC \in {"ready", "entry", "pollInit", "branch", "firstLock",
                  "firstSelect", "firstHead", "firstRest"}

NoTokens == irqReadSem = 0 /\ irqWriteSem = 0

PowerupInv == spiState = "POWERUP" =>
    /\ NoTokens /\ readerPC = "wait" /\ ~cs
    /\ writerPC \in StartPCs \cup {"ready", "entry", "pollInit"}
    /\ \/ /\ dev = "off" /\ ~edge /\ writerPC \in StartPCs
          /\ writerPC \in {"open", "enable"} => ~wen
          /\ writerPC = "waitLow" => irq = 1
       \/ /\ dev = "booted" /\ edge /\ writerPC \notin {"open", "enable",
                                                       "waitHigh"}

InitializedInv == spiState = "INITIALIZED" =>
    /\ NoTokens /\ readerPC = "wait" /\ ~edge
    /\ \/ dev = "booted" /\ (writerPC = "waitLow" \/ BeforeFirstWrite)
       \/ dev = "served" /\ writerPC = "setIdle"

IdleInv == spiState = "IDLE" =>
    /\ NoTokens
    /\ readerPC \in {"wait", "unselect", "unlock"}
    /\ WriterOutside \/ writerPC \in {"unselect", "unlock"}
    /\ dev \in {"served", "releasing", "idle", "reading"}
    /\ edge <=> dev = "reading"

WriteRequestedInv == spiState = "WRITE_REQUESTED" =>
    /\ NoTokens
    /\ readerPC \in {"wait", "unselect", "unlock"}
    /\ writerPC \in {"lock", "select", "semWait"}
    /\ dev \in {"served", "releasing", "idle", "reading", "granted"}
    /\ edge <=> dev \in {"reading", "granted"}

WritePermittedInv == spiState = "WRITE_PERMITTED" =>
    /\ ~edge /\ irqReadSem = 0
    /\ readerPC \in {"wait", "unlock"}
    /\ \/ /\ irqWriteSem = 1 /\ writerPC \in {"lock", "select", "semWait"}
          /\ dev \in {"reading", "granted"}
       \/ /\ irqWriteSem = 0 /\ writerPC = "transfer"
          /\ dev \in {"reading", "granted"}
       \/ /\ irqWriteSem = 0 /\ writerPC = "setIdle" /\ dev = "served"

ReadRequestedInv == spiState = "READ_REQUESTED" =>
    /\ ~edge /\ irqWriteSem = 0 /\ dev = "reading"
    /\ \/ irqReadSem = 1 /\ readerPC \in {"wait", "unlock"}
       \/ irqReadSem = 0 /\ readerPC \in {"check", "permit"}
    /\ WriterOutside \/ writerPC = "unlock"

ReadPermittedInv == spiState = "READ_PERMITTED" =>
    /\ ~edge /\ NoTokens
    /\ readerPC \in {"lock", "select", "header", "body", "trigger", "setIdle"}
    /\ readerPC \in {"lock", "select"} => dev = "reading"
    /\ WriterOutside \/ writerPC = "unlock"

StateInv == /\ PowerupInv /\ InitializedInv /\ IdleInv /\ WriteRequestedInv
            /\ WritePermittedInv /\ ReadRequestedInv /\ ReadPermittedInv

\* An announced packet exists; the counters agree with the threads.
CountInv == /\ dev = "reading" => sent < produced
            /\ ExactlyOnce

IInv == TypeOK /\ BusInv /\ DevInv /\ StateInv /\ CountInv

\* The initial states satisfy the inductive invariant.
LEMMA IInvInit == Init => IInv
<1> SUFFICES ASSUME Init PROVE IInv
  OBVIOUS
<1> USE DEF Init
<1>1. TypeOK
  BY DEF TypeOK, SpiStates, ReaderPCs, WriterPCs, StartPCs, DevStates
<1>2. BusInv
  BY DEF BusInv, ReaderHoldsBus, ReaderHoldsCS, WriterHoldsBus, WriterHoldsCS
<1>3. DevInv
  BY DEF DevInv
<1>4. StateInv
  BY DEF StateInv, PowerupInv, InitializedInv, IdleInv, WriteRequestedInv,
         WritePermittedInv, ReadRequestedInv, ReadPermittedInv, StartPCs,
         NoTokens
<1>5. CountInv
  BY DEF CountInv, ExactlyOnce, InWriteCall
<1>6. QED
  BY <1>1, <1>2, <1>3, <1>4, <1>5 DEF IInv

\* Every step of an agent preserves the inductive invariant.
LEMMA IInvStep == IInv /\ [Next]_vars => IInv'
<1> SUFFICES ASSUME IInv, [Next]_vars PROVE IInv'
  OBVIOUS
<1> USE DEF IInv, TypeOK, BusInv, DevInv, StateInv, CountInv,
            PowerupInv, InitializedInv, IdleInv, WriteRequestedInv,
            WritePermittedInv, ReadRequestedInv, ReadPermittedInv,
            ReaderHoldsBus, ReaderHoldsCS, WriterHoldsBus, WriterHoldsCS,
            WriterOutside, BeforeFirstWrite, NoTokens, InWriteCall,
            ExactlyOnce, SpiStates, ReaderPCs, WriterPCs, StartPCs, DevStates,
            vars, hostVars, busVars, devVars, counters
<1>1. CASE DevRaise
  BY <1>1 DEF DevRaise
<1>2. CASE DevBoot
  BY <1>2 DEF DevBoot, LowerIrq
<1>3. CASE DevProduce
  BY <1>3 DEF DevProduce
<1>4. CASE DevRequestRead
  BY <1>4 DEF DevRequestRead, LowerIrq
<1>5. CASE DevGrantWrite
  BY <1>5 DEF DevGrantWrite, LowerIrq
<1>6. CASE DevRelease
  BY <1>6 DEF DevRelease
<1>7. CASE cc3000ExtCb
  \* An edge is latched only in the three states the handler has a branch for.
  <2>1. spiState \in {"POWERUP", "IDLE", "WRITE_REQUESTED"}
    BY <1>7 DEF cc3000ExtCb
  <2>2. /\ edge /\ edge' = FALSE
       /\ UNCHANGED <<busVars, readerPC, writerPC, wen, irq, dev, counters>>
    BY <1>7 DEF cc3000ExtCb
  <2>3. CASE spiState = "POWERUP"
    <3>1. spiState' = "INITIALIZED" /\ UNCHANGED <<irqReadSem, irqWriteSem>>
      BY <1>7, <2>3 DEF cc3000ExtCb, IsrState
    <3>2. QED
      BY <2>2, <2>3, <3>1
  <2>4. CASE spiState = "IDLE"
    <3>1. spiState' = "READ_REQUESTED" /\ irqReadSem' = 1 /\ irqWriteSem' = 0
      BY <1>7, <2>4 DEF cc3000ExtCb, IsrState
    <3>2. QED
      BY <2>2, <2>4, <3>1
  <2>5. CASE spiState = "WRITE_REQUESTED"
    <3>1. spiState' = "WRITE_PERMITTED" /\ irqReadSem' = 0 /\ irqWriteSem' = 1
      BY <1>7, <2>5 DEF cc3000ExtCb, IsrState
    <3>2. QED
      BY <2>2, <2>5, <3>1
  <2>6. QED
    BY <2>1, <2>3, <2>4, <2>5
<1>8. CASE ReaderWait
  BY <1>8 DEF ReaderWait, ReaderGoto
<1>9. CASE ReaderCheck
  BY <1>9 DEF ReaderCheck
<1>10. CASE ReaderPermit
  BY <1>10 DEF ReaderPermit, ReaderGoto
<1>11. CASE ReaderLock
  BY <1>11 DEF ReaderLock, ReaderGoto
<1>12. CASE ReaderSelect
  BY <1>12 DEF ReaderSelect, ReaderGoto
<1>13. CASE SpiReadHeader
  BY <1>13 DEF SpiReadHeader, ReaderGoto
<1>14. CASE SpiReadAfterHeader
  BY <1>14 DEF SpiReadAfterHeader, ClockRead, ReaderGoto
<1>15. CASE SpiTriggerRxProcessing
  BY <1>15 DEF SpiTriggerRxProcessing, ReaderGoto
<1>16. CASE ReaderSetIdle
  BY <1>16 DEF ReaderSetIdle, ReaderGoto
<1>17. CASE ReaderUnselect
  BY <1>17 DEF ReaderUnselect, SeeUnselect, ReaderGoto
<1>18. CASE ReaderUnlock
  BY <1>18 DEF ReaderUnlock, ReaderGoto
<1>19. CASE SpiOpen
  BY <1>19 DEF SpiOpen, WriterGoto
<1>20. CASE EnableDevice
  BY <1>20 DEF EnableDevice
<1>21. CASE WaitIrqHigh
  BY <1>21 DEF WaitIrqHigh, WriterGoto
<1>22. CASE WaitIrqLow
  BY <1>22 DEF WaitIrqLow, WriterGoto
<1>23. CASE SpiWrite
  BY <1>23 DEF SpiWrite, WriterGoto
<1>24. CASE WriteEntry
  BY <1>24 DEF WriteEntry
<1>25. CASE PollInitialized
  BY <1>25 DEF PollInitialized, WriterGoto
<1>26. CASE WriteBranch
  BY <1>26 DEF WriteBranch
<1>27. CASE AcquireIdle
  BY <1>27 DEF AcquireIdle, WriterGoto
<1>28. CASE WriterLock
  BY <1>28 DEF WriterLock, WriterGoto
<1>29. CASE WriterSelect
  BY <1>29 DEF WriterSelect, WriterGoto
<1>30. CASE FirstWriteHead
  BY <1>30 DEF FirstWriteHead, WriterGoto
<1>31. CASE WaitGrant
  BY <1>31 DEF WaitGrant, WriterGoto
<1>32. CASE WriteTransfer
  BY <1>32 DEF WriteTransfer, ClockWrite, WriterGoto
<1>33. CASE WriterSetIdle
  BY <1>33 DEF WriterSetIdle, WriterGoto
<1>34. CASE WriterUnselect
  BY <1>34 DEF WriterUnselect, SeeUnselect, WriterGoto
<1>35. CASE WriterUnlock
  BY <1>35 DEF WriterUnlock, WriterGoto
<1>36. CASE UNCHANGED vars
  BY <1>36
<1>37. QED
  BY <1>1, <1>2, <1>3, <1>4, <1>5, <1>6, <1>7, <1>8, <1>9, <1>10, <1>11, <1>12, <1>13, <1>14, <1>15, <1>16, <1>17, <1>18, <1>19, <1>20, <1>21, <1>22, <1>23, <1>24, <1>25, <1>26, <1>27, <1>28, <1>29, <1>30, <1>31, <1>32, <1>33, <1>34, <1>35, <1>36
  DEF Next, DevProtocol, Reader, Start, WriteCall, Finished

\* The inductive invariant holds in every reachable state.
THEOREM Inductive == Spec => []IInv
<1>1. Init => IInv
  BY IInvInit
<1>2. IInv /\ [Next]_vars => IInv'
  BY IInvStep
<1>3. QED
  BY <1>1, <1>2, PTL DEF Spec

\* Type correctness of the driver and device state.
THEOREM TypeCorrect == Spec => []TypeOK
<1>1. IInv => TypeOK
  BY DEF IInv
<1>2. QED
  BY <1>1, Inductive, PTL

\* No falling edge is ever consumed by the empty branch of cc3000ExtCb.
THEOREM EdgesHandled == Spec => []NoLostEdge
<1>1. IInv => NoLostEdge
  BY DEF IInv, TypeOK, StateInv, InitializedInv, WritePermittedInv,
         ReadRequestedInv, ReadPermittedInv, SpiStates, NoLostEdge
<1>2. QED
  BY <1>1, Inductive, PTL

\* A woken reader always finds the state READ_REQUESTED.
THEOREM ReaderWokenToRead == Spec => []WokenToRead
<1>1. IInv => WokenToRead
  BY DEF IInv, TypeOK, StateInv, PowerupInv, InitializedInv, IdleInv,
         WriteRequestedInv, WritePermittedInv, ReadPermittedInv, SpiStates,
         WokenToRead
<1>2. QED
  BY <1>1, Inductive, PTL

\* Semaphore tokens are never stale and never counted twice.
THEOREM TokensNeverStale == Spec => []TokensCurrent
<1>1. IInv => TokensCurrent
  BY DEF IInv, TypeOK, StateInv, PowerupInv, InitializedInv, IdleInv,
         WriteRequestedInv, WritePermittedInv, ReadRequestedInv,
         ReadPermittedInv, NoTokens, SpiStates, WokenToRead, TokensCurrent
<1>2. QED
  BY <1>1, Inductive, PTL

\* The device listens in the direction of the frame being clocked.
LEMMA ClockingLemma == IInv => ClockedWhenGranted
<1> SUFFICES ASSUME IInv PROVE ClockedWhenGranted
  OBVIOUS
<1> USE DEF IInv, TypeOK, BusInv, DevInv, ReaderHoldsBus, ReaderHoldsCS,
            WriterHoldsBus, WriterHoldsCS, DevStates, SpiStates
<1>1. readerPC \in {"header", "body"} =>
          cs /\ bus = "reader" /\ irq = 0 /\ dev = "reading"
  OBVIOUS
<1>2. writerPC = "transfer" =>
          cs /\ bus = "writer" /\ irq = 0 /\ dev \in {"reading", "granted"}
  BY DEF StateInv, PowerupInv, InitializedInv, IdleInv, WriteRequestedInv,
         WritePermittedInv, ReadRequestedInv, ReadPermittedInv,
         WriterOutside, BeforeFirstWrite, StartPCs
<1>3. writerPC \in {"firstHead", "firstRest"} =>
          cs /\ bus = "writer" /\ irq = 0 /\ dev = "booted"
  BY DEF StateInv, PowerupInv, InitializedInv, IdleInv, WriteRequestedInv,
         WritePermittedInv, ReadRequestedInv, ReadPermittedInv,
         WriterOutside, StartPCs
<1>4. QED
  BY <1>1, <1>2, <1>3 DEF ClockedWhenGranted

\* A reader about to assert CS has an announced packet to read.
LEMMA PacketAnnounced == IInv /\ readerPC = "select" =>
                             delivered = sent /\ sent < produced
<1> SUFFICES ASSUME IInv, readerPC = "select"
             PROVE  delivered = sent /\ sent < produced
  OBVIOUS
<1>1. spiState = "READ_PERMITTED"
  BY DEF IInv, TypeOK, StateInv, PowerupInv, InitializedInv, IdleInv,
         WriteRequestedInv, WritePermittedInv, ReadRequestedInv, SpiStates
<1>2. dev = "reading"
  BY <1>1 DEF IInv, StateInv, ReadPermittedInv
<1>3. QED
  BY <1>2 DEF IInv, TypeOK, CountInv, ExactlyOnce

\* Frames are clocked only when the device listens for that direction.
THEOREM ClockingGranted == Spec => []ClockedWhenGranted
  BY ClockingLemma, Inductive, PTL

\* No interrupt is raised while a received packet is being processed.
THEOREM ProcessingUninterrupted == Spec => []NoInterruptWhileProcessing
<1>1. IInv => NoInterruptWhileProcessing
  BY DEF IInv, DevInv, NoInterruptWhileProcessing
<1>2. QED
  BY <1>1, Inductive, PTL

\* No packet and no frame is lost or duplicated on the bus.
THEOREM TransfersExactlyOnce == Spec => []ExactlyOnce
<1>1. IInv => ExactlyOnce
  BY DEF IInv, CountInv
<1>2. QED
  BY <1>1, Inductive, PTL

\* The abstract variables never change except where the abstract
\* specification has an action for it.
LEMMA TransportStep == IInv /\ [Next]_vars => [Transport!Next]_(Transport!vars)
<1> SUFFICES ASSUME IInv, [Next]_vars
             PROVE  Transport!Next \/ UNCHANGED Transport!vars
  OBVIOUS
<1> USE DEF IInv, TypeOK, BusInv, DevInv, CountInv, ExactlyOnce, InWriteCall,
            ReaderHoldsBus, ReaderHoldsCS, WriterHoldsBus, WriterHoldsCS,
            TransportBus, Transport!vars, ReaderGoto, WriterGoto,
            ReaderPCs, WriterPCs, StartPCs, DevStates,
            vars, hostVars, busVars, devVars, counters
<1>1. CASE DevRaise
  BY <1>1 DEF DevRaise
<1>2. CASE DevBoot
  BY <1>2 DEF DevBoot
<1>3. CASE DevProduce
  <2>1. Transport!Produce
    BY <1>3 DEF DevProduce, Transport!Produce
  <2>2. QED
    BY <2>1 DEF Transport!Next
<1>4. CASE DevRequestRead
  BY <1>4 DEF DevRequestRead
<1>5. CASE DevGrantWrite
  BY <1>5 DEF DevGrantWrite
<1>6. CASE DevRelease
  BY <1>6 DEF DevRelease
<1>7. CASE cc3000ExtCb
  BY <1>7 DEF cc3000ExtCb
<1>8. CASE ReaderWait
  BY <1>8 DEF ReaderWait
<1>9. CASE ReaderCheck
  BY <1>9 DEF ReaderCheck
<1>10. CASE ReaderPermit
  BY <1>10 DEF ReaderPermit
<1>11. CASE ReaderLock
  BY <1>11 DEF ReaderLock
<1>12. CASE ReaderSelect
  <2>1. Transport!OpenIn
    BY <1>12, PacketAnnounced DEF ReaderSelect, Transport!OpenIn
  <2>2. QED
    BY <2>1 DEF Transport!Next
<1>13. CASE SpiReadHeader
  BY <1>13 DEF SpiReadHeader
<1>14. CASE SpiReadAfterHeader
  BY <1>14 DEF SpiReadAfterHeader
<1>15. CASE SpiTriggerRxProcessing
  <2>1. Transport!Deliver
    BY <1>15 DEF SpiTriggerRxProcessing, Transport!Deliver
  <2>2. QED
    BY <2>1 DEF Transport!Next
<1>16. CASE ReaderSetIdle
  BY <1>16 DEF ReaderSetIdle
<1>17. CASE ReaderUnselect
  <2>1. Transport!Close
    BY <1>17 DEF ReaderUnselect, Transport!Close
  <2>2. QED
    BY <2>1 DEF Transport!Next
<1>18. CASE ReaderUnlock
  BY <1>18 DEF ReaderUnlock
<1>19. CASE SpiOpen
  BY <1>19 DEF SpiOpen
<1>20. CASE EnableDevice
  BY <1>20 DEF EnableDevice
<1>21. CASE WaitIrqHigh
  BY <1>21 DEF WaitIrqHigh
<1>22. CASE WaitIrqLow
  BY <1>22 DEF WaitIrqLow
<1>23. CASE SpiWrite
  <2>1. Transport!Issue
    BY <1>23 DEF SpiWrite, Transport!Issue
  <2>2. QED
    BY <2>1 DEF Transport!Next
<1>24. CASE WriteEntry
  BY <1>24 DEF WriteEntry
<1>25. CASE PollInitialized
  BY <1>25 DEF PollInitialized
<1>26. CASE WriteBranch
  BY <1>26 DEF WriteBranch
<1>27. CASE AcquireIdle
  BY <1>27 DEF AcquireIdle
<1>28. CASE WriterLock
  BY <1>28 DEF WriterLock
<1>29. CASE WriterSelect
  <2>1. Transport!OpenOut
    BY <1>29 DEF WriterSelect, Transport!OpenOut
  <2>2. QED
    BY <2>1 DEF Transport!Next
<1>30. CASE FirstWriteHead
  BY <1>30 DEF FirstWriteHead
<1>31. CASE WaitGrant
  BY <1>31 DEF WaitGrant
<1>32. CASE WriteTransfer
  <2>1. Transport!Accept
    BY <1>32, ClockingLemma
    DEF WriteTransfer, ClockWrite, ClockedWhenGranted, Transport!Accept
  <2>2. QED
    BY <2>1 DEF Transport!Next
<1>33. CASE WriterSetIdle
  BY <1>33 DEF WriterSetIdle
<1>34. CASE WriterUnselect
  <2>1. Transport!Close
    BY <1>34 DEF WriterUnselect, Transport!Close
  <2>2. QED
    BY <2>1 DEF Transport!Next
<1>35. CASE WriterUnlock
  BY <1>35 DEF WriterUnlock
<1>36. CASE UNCHANGED vars
  BY <1>36
<1>37. QED
  BY <1>1, <1>2, <1>3, <1>4, <1>5, <1>6, <1>7, <1>8, <1>9, <1>10, <1>11, <1>12, <1>13, <1>14, <1>15, <1>16, <1>17, <1>18, <1>19, <1>20, <1>21, <1>22, <1>23, <1>24, <1>25, <1>26, <1>27, <1>28, <1>29, <1>30, <1>31, <1>32, <1>33, <1>34, <1>35, <1>36
  DEF Next, DevProtocol, Reader, Start, WriteCall, Finished

\* The driver implements the half-duplex transport.
THEOREM DriverImplementsTransport == Spec => ImplementsTransport
<1>1. Init => Transport!Init
  BY DEF Init, Transport!Init, TransportBus
<1>2. IInv /\ [Next]_vars => [Transport!Next]_(Transport!vars)
  BY TransportStep
<1>3. QED
  BY <1>1, <1>2, Inductive, PTL DEF Spec, ImplementsTransport, Transport!Spec
==============================================================================
