---------------------------- MODULE LifecycleProofs ----------------------------
(***************************************************************************)
(* Proofs about Lifecycle, for any number of threads, restarts, calls and  *)
(* events.                                                                 *)
(*                                                                         *)
(* Three arguments carry them.  An init that is under way is alone, so     *)
(* that the semaphore of the natives is replaced when nobody waits on it.  *)
(* A request of the device is at one place: a token that a reader can      *)
(* take, or a reader with it.  And an init that has slept finds none, which*)
(* stays so until it sends its first command.                              *)
(***************************************************************************)
EXTENDS Lifecycle, FiniteSetTheorems, TLAPS

StartPCs == {"bus", "thread", "reset", "sleep", "result", "open", "enable", "boot"}
PCs  == Holding \cup StartPCs
                \cup {"idle", "call", "semWait", "return", "fault", "stuck"}
RPCs == {"none", "loop", "wait", "check", "read", "handle", "fault"}

\* TypeOK, with the functions it leaves open.
Types == /\ TypeOK
         /\ pc \in [Threads -> PCs] /\ op \in [Threads -> {"native", "init", "done"}]
         /\ left \in [Threads -> 0..InitCommands] /\ at \in [Threads -> Gens]
         /\ rpc \in [Readers -> RPCs] /\ rat \in [Readers -> Gens]
         /\ attached \in BOOLEAN /\ txBuf \in BOOLEAN /\ rxBuf \in BOOLEAN

Initing(t) == op[t] = "init" /\ pc[t] # "idle"

\* No other native is under way when one is an init.
InitAlone ==
    \A t \in Threads :
        /\ pc[t] \in StartPCs => op[t] = "init"
        /\ Initing(t) => /\ ~usable
                         /\ \A u \in Threads \ {t} : pc[u] = "idle"

\* A native that will send a command has one to send.
CommandsLeft ==
    \A t \in Threads :
        \/ pc[t] \in {"write", "await"}
        \/ pc[t] \in ({"call", "semWait"} \cup StartPCs) /\ op[t] # "done"
        => left[t] > 0

\* The token of sem is in the semaphore or with the one native that holds it.
Mutex ==
    /\ \A t \in Threads : pc[t] = "semWait" => at[t] = sem
    /\ \A t \in Threads : pc[t] \in Holding => tokens[sem] = 0
    /\ \A t, u \in Threads : pc[t] \in Holding /\ pc[u] \in Holding => t = u

\* An init that has put its semaphores in place.
Placed(t) == \/ pc[t] \in StartPCs \ {"bus"}
             \/ op[t] = "init" /\ pc[t] \in {"call", "semWait"}

\* Semaphores of the reader are used in the order in which they are made, and
\* the reader that was made with the last one is there.
ReaderSems ==
    /\ irqSem <= inits
    /\ \A t \in Threads : /\ pc[t] = "bus" => irqSem < inits
                          /\ Placed(t) => irqSem = inits /\ inits # 0
    /\ \A g \in Gens : g > irqSem => rtokens[g] = 0
    /\ \A r \in Readers : /\ rpc[r] # "none" => r <= irqSem
                          /\ rpc[r] = "wait" => r <= rat[r] /\ rat[r] <= irqSem
    /\ irqSem # 0 => \/ rpc[irqSem] # "none"
                     \/ \E t \in Threads : pc[t] = "thread"

\* A token of this semaphore can still reach a reader.
Live(g) == g = irqSem \/ \E r \in Readers : rpc[r] = "wait" /\ rat[r] = g
Busy(r) == rpc[r] \in {"check"} \cup InPacket

\* There is one request at most, in one place, and the state tells which.
OneRequest ==
    /\ \A g \in Gens : (rtokens[g] > 0 /\ Live(g)) =>
           /\ spiState = "READ_REQUESTED"
           /\ \A r \in Readers : ~Busy(r)
           /\ \A h \in Gens : (rtokens[h] > 0 /\ Live(h)) => h = g
    /\ \A r \in Readers : /\ rpc[r] = "check" => spiState = "READ_REQUESTED"
                          /\ rpc[r] \in InPacket => spiState = "READ_PERMITTED"
    /\ \A r, s \in Readers : Busy(r) /\ Busy(s) => r = s

\* The device is on between the steps of the driver that say so.
DeviceInv ==
    /\ dev = "off" => pending = {} /\ ~announced
    /\ dev = "booting" => spiState = "POWERUP"
    /\ dev # "off" => rxBuf /\ irqSem # 0
    /\ \A t \in Threads :
           /\ Placed(t) /\ pc[t] \notin {"thread", "reset", "boot"} => dev = "off"
           /\ pc[t] = "close" => dev = "off"
           /\ pc[t] = "enable" => spiState = "POWERUP" /\ rxBuf
           /\ pc[t] = "boot" => /\ pending = {}
                                /\ spiState \in {"POWERUP", "INITIALIZED"}

\* From the sleep of an init to its first command no reader has anything to do.
Slept(t) == Placed(t) /\ pc[t] \notin {"thread", "reset", "sleep"}
QuietInv ==
    \A t \in Threads : Slept(t) =>
        \A r \in Readers : \/ rpc[r] = "none"
                           \/ rpc[r] = "wait" /\ rtokens[rat[r]] = 0

IInv == /\ Types /\ InitAlone /\ CommandsLeft /\ Mutex
        /\ ReaderSems /\ OneRequest /\ DeviceInv /\ QuietInv
-----------------------------------------------------------------------------
\* The initial states satisfy the invariant.
LEMMA IInvInit == Init => IInv
<1> SUFFICES ASSUME Init PROVE IInv
  OBVIOUS
<1> USE BoundsAssumption, ThreadsAssumption DEF Init
<1>0. 0 \in Gens /\ 0 \in 0..InitCommands /\ 0 \in 0..1
  BY DEF Gens, InitCommands
<1>1. Types
  <2>1. TypeOK
    <3>1. \A t \in Threads : /\ op[t] \in {"native", "init", "done"}
                             /\ left[t] \in 0..InitCommands /\ at[t] \in Gens
      BY <1>0
    <3>2. tokens \in [Gens -> 0..1] /\ rtokens \in [Gens -> 0..1]
      BY <1>0
    <3>3. inits \in 0..MaxInits /\ calls \in 0..MaxCalls /\ events \in 0..MaxEvents
      OBVIOUS
    <3>4. QED
      BY <1>0, <3>1, <3>2, <3>3 DEF TypeOK
  <2>2. QED
    BY <1>0, <2>1 DEF Types, PCs, RPCs
<1>2. InitAlone /\ CommandsLeft /\ Mutex
  BY DEF InitAlone, CommandsLeft, Mutex, Initing, StartPCs, Holding
<1>3. ReaderSems
  BY DEF ReaderSems, Placed, StartPCs, Gens
<1>4. OneRequest
  BY DEF OneRequest, Busy, InPacket
<1>5. DeviceInv /\ QuietInv
  BY DEF DeviceInv, QuietInv, Placed, Slept, StartPCs
<1>6. QED
  BY <1>1, <1>2, <1>3, <1>4, <1>5 DEF IInv

-----------------------------------------------------------------------------
(* Steps.                                                                  *)

ReaderStep == \E r \in Readers : Reader(r) \/ ReaderFault(r)
DeviceStep == DevBoot \/ DevEvent \/ DevAnnounce
CallStep(t) == NativeCall(t) \/ InitCall(t) \/ DoneCall(t)

\* What the readers and the device leave to the natives.
LEMMA ProgramKept ==
    ReaderStep \/ DeviceStep => UNCHANGED <<prog, sem, tokens, irqSem>>
<1>1. ReaderStep => UNCHANGED <<prog, sem, tokens, irqSem>>
  BY DEF ReaderStep, Reader, ReaderLoop, ReaderWait, ReaderCheck, SpiRead,
         ReaderDone, ReaderFault, sems
<1>2. DeviceStep => UNCHANGED <<prog, sem, tokens, irqSem>>
  BY DEF DeviceStep, DevBoot, DevEvent, DevAnnounce, sems
<1>3. QED
  BY <1>1, <1>2

\* What the natives leave to the readers.
LEMMA RequestsKept ==
    ASSUME NEW t \in Threads, CallStep(t) \/ Work(t)
    PROVE  UNCHANGED <<rtokens, rat>>
<1>1. CallStep(t) => UNCHANGED <<rtokens, rat>>
  BY DEF CallStep, NativeCall, InitCall, DoneCall, sems, reader
<1>2. Work(t) => UNCHANGED <<rtokens, rat>>
  BY DEF Work, SemCall, SemWait, SemSignal, Return, SpiWrite, NullWrite,
         SimpleLinkWaitEvent, InitSemaphores, InitSpiFails, InitThread, InitReset,
         InitSleep, InitRaises, InitSem, SpiOpen, Enable, WaitIrqLow, Disable,
         SpiClose, sems, reader
<1>3. QED
  BY <1>1, <1>2

\* Every step is one of these.
LEMMA Steps ==
    [Next]_vars => \/ \E t \in Threads : CallStep(t) \/ Work(t)
                   \/ ReaderStep \/ DeviceStep
                   \/ UNCHANGED vars
  BY DEF Next, Step, ReaderStep, DeviceStep, CallStep

\* A step that changes nothing but the program keeps to the types if the
\* program does.
LEMMA ProgTypes ==
    ASSUME Types, UNCHANGED <<sems, reader, driver, device>>,
           gil' \in Threads \cup {None}, usable' \in BOOLEAN,
           answered' \in BOOLEAN, inits' \in 0..MaxInits, calls' \in 0..MaxCalls,
           pc' \in [Threads -> PCs], left' \in [Threads -> 0..InitCommands],
           op' \in [Threads -> {"native", "init", "done"}], at' \in [Threads -> Gens]
    PROVE  Types'
<1>1. \A t \in Threads : /\ op'[t] \in {"native", "init", "done"}
                         /\ left'[t] \in 0..InitCommands /\ at'[t] \in Gens
  OBVIOUS
<1>2. /\ sem' = sem /\ tokens' = tokens /\ irqSem' = irqSem /\ rtokens' = rtokens
      /\ rpc' = rpc /\ rat' = rat /\ UNCHANGED driver /\ UNCHANGED device
  BY DEF sems, reader
<1>3. TypeOK'
  BY <1>1, <1>2 DEF Types, TypeOK, driver, device
<1>4. QED
  BY <1>2, <1>3 DEF Types, driver

\* Types are preserved: the two places where a semaphore is signalled find it
\* empty, and a command is only counted when there is one left.
LEMMA TypesStep ==
    ASSUME Types, CommandsLeft, Mutex, OneRequest, [Next]_vars
    PROVE  Types'
<1> USE BoundsAssumption, ThreadsAssumption
<1>1. ASSUME NEW t \in Threads, CallStep(t) PROVE Types'
  <2> USE DEF Types, TypeOK, prog, sems, reader, driver, device, Enter, Goto, PCs, Holding, StartPCs, InitCommands
  <2>1. CASE NativeCall(t)
    <3>1. calls' \in 0..MaxCalls
      BY <2>1 DEF NativeCall
    <3>2. /\ pc' = [pc EXCEPT ![t] = "call"] /\ op' = [op EXCEPT ![t] = "native"]
          /\ left' = [left EXCEPT ![t] = 1]
      BY <2>1 DEF NativeCall
    <3>3. QED
      BY <2>1, <3>1, <3>2 DEF NativeCall
  <2>2. CASE InitCall(t)
    <3>1. inits' \in 0..MaxInits
      BY <2>2 DEF InitCall
    <3>2. /\ pc' = [pc EXCEPT ![t] = "bus"] /\ op' = [op EXCEPT ![t] = "init"]
          /\ left' = [left EXCEPT ![t] = InitCommands]
      BY <2>2 DEF InitCall
    <3>3. /\ pc' \in [Threads -> PCs] /\ op' \in [Threads -> {"native", "init", "done"}]
          /\ left' \in [Threads -> 0..InitCommands]
      BY <3>2
    <3>4. gil' = t /\ usable' = FALSE /\ UNCHANGED <<at, calls, sems, reader, driver,
                                                      device, answered>>
      BY <2>2 DEF InitCall
    <3>5. QED
      BY <3>1, <3>3, <3>4
  <2>3. CASE DoneCall(t)
    <3>1. /\ pc' \in [Threads -> PCs] /\ op' \in [Threads -> {"native", "init", "done"}]
          /\ left' \in [Threads -> 0..InitCommands]
      BY <2>3 DEF DoneCall
    <3>2. usable' = FALSE /\ UNCHANGED <<gil, at, calls, inits, answered>>
          /\ UNCHANGED <<sems, reader, driver, device>>
      BY <2>3 DEF DoneCall
    <3> HIDE DEF Types, TypeOK, sems, reader, driver, device, PCs, InitCommands
    <3>3. /\ gil \in Threads \cup {None} /\ at \in [Threads -> Gens]
          /\ calls \in 0..MaxCalls /\ inits \in 0..MaxInits /\ answered \in BOOLEAN
      BY DEF Types, TypeOK
    <3>4. QED
      BY <3>1, <3>2, <3>3, ProgTypes
  <2>4. QED
    BY <1>1, <2>1, <2>2, <2>3 DEF CallStep
<1>2. ASSUME NEW t \in Threads, Work(t) PROVE Types'
  <2> USE DEF Types, TypeOK, prog, sems, reader, driver, device, Goto, PCs, Holding, StartPCs, InitCommands
  <2>1. CASE SemCall(t)
    BY <2>1 DEF SemCall
  <2>2. CASE SemWait(t)
    <3>1. at[t] \in Gens /\ tokens[at[t]] = 1
      BY <2>2 DEF SemWait
    <3>2. tokens' \in [Gens -> 0..1]
      BY <2>2, <3>1 DEF SemWait
    <3>3. 0 \in Gens
      BY DEF Gens
    <3>4. at' = [at EXCEPT ![t] = 0] /\ \E to \in PCs : pc' = [pc EXCEPT ![t] = to]
      BY <2>2 DEF SemWait
    <3>5. UNCHANGED <<gil, op, left, inits, calls, usable, sem, irqSem, rtokens,
                      reader, driver, device, answered>>
      BY <2>2 DEF SemWait
    <3>6. QED
      BY <3>2, <3>3, <3>4, <3>5
  <2>3. CASE SemSignal(t)
    <3>1. tokens[sem] = 0
      BY <2>3 DEF SemSignal, Mutex
    <3>2. tokens' \in [Gens -> 0..1]
      BY <2>3, <3>1 DEF SemSignal
    <3>3. QED
      BY <2>3, <3>2 DEF SemSignal
  <2>4. CASE Return(t)
    BY <2>4 DEF Return
  <2>5. CASE SpiWrite(t)
    BY <2>5 DEF SpiWrite
  <2>6. CASE NullWrite(t)
    BY <2>6 DEF NullWrite
  <2>7. CASE SimpleLinkWaitEvent(t)
    <3>1. left[t] \in 1..3
      BY <2>7 DEF SimpleLinkWaitEvent, CommandsLeft
    <3>2. left' \in [Threads -> 0..3]
      BY <2>7, <3>1 DEF SimpleLinkWaitEvent
    <3>3. pc' \in [Threads -> PCs]
      BY <2>7 DEF SimpleLinkWaitEvent
    <3>4. answered' = FALSE /\ UNCHANGED <<gil, op, at, inits, calls, usable>>
          /\ UNCHANGED <<sems, reader, driver, device>>
      BY <2>7 DEF SimpleLinkWaitEvent
    <3>5. left' \in [Threads -> 0..InitCommands]
      BY <3>2
    <3> HIDE DEF Types, TypeOK, sems, reader, driver, device, PCs, InitCommands
    <3>6. /\ gil \in Threads \cup {None} /\ at \in [Threads -> Gens]
          /\ op \in [Threads -> {"native", "init", "done"}] /\ usable \in BOOLEAN
          /\ calls \in 0..MaxCalls /\ inits \in 0..MaxInits
      BY DEF Types, TypeOK
    <3>7. QED
      BY <3>3, <3>4, <3>5, <3>6, ProgTypes
  <2>8. CASE InitSemaphores(t)
    BY <2>8 DEF InitSemaphores, Gens
  <2>9. CASE InitSpiFails(t)
    BY <2>9 DEF InitSpiFails
  <2>10. CASE InitThread(t)
    <3>1. /\ pc' = [pc EXCEPT ![t] = "reset"]
          /\ rpc' = [rpc EXCEPT ![inits] = "loop"]
          /\ UNCHANGED <<gil, op, left, at, inits, calls, usable, sems, rat,
                         driver, device, answered>>
      BY <2>10 DEF InitThread
    <3>2. pc' \in [Threads -> PCs]
      BY <3>1
    <3>3. rpc' \in [Readers -> RPCs]
      BY <3>1 DEF RPCs
    <3>4. TypeOK'
      BY <3>1
    <3>5. QED
      BY <3>1, <3>2, <3>3, <3>4
  <2>11. CASE InitReset(t)
    BY <2>11 DEF InitReset, PowerOff
  <2>12. CASE InitSleep(t)
    BY <2>12 DEF InitSleep
  <2>13. CASE InitRaises(t)
    BY <2>13 DEF InitRaises
  <2>14. CASE InitSem(t)
    BY <2>14 DEF InitSem, Gens
  <2>15. CASE SpiOpen(t)
    BY <2>15 DEF SpiOpen
  <2>16. CASE Enable(t)
    BY <2>16 DEF Enable
  <2>17. CASE WaitIrqLow(t)
    BY <2>17 DEF WaitIrqLow, InitAlone
  <2>18. CASE Disable(t)
    BY <2>18 DEF Disable, PowerOff
  <2>19. CASE SpiClose(t)
    BY <2>19 DEF SpiClose
  <2>20. QED
    BY <1>2, <2>1, <2>2, <2>3, <2>4, <2>5, <2>6, <2>7, <2>8, <2>9, <2>10, <2>11, <2>12, <2>13, <2>14, <2>15, <2>16, <2>17, <2>18, <2>19 DEF Work
<1>3. ASSUME NEW r \in Readers, Reader(r) \/ ReaderFault(r) PROVE Types'
  <2>1. UNCHANGED <<prog, sem, tokens, irqSem>>
    BY <1>3, ProgramKept DEF ReaderStep
  <2>2. rpc' \in [Readers -> RPCs]
    BY <1>3 DEF Types, Reader, ReaderLoop, ReaderWait, ReaderCheck, SpiRead,
                ReaderDone, ReaderFault, ReaderGoto, RPCs, reader
  <2>3. rat' \in [Readers -> Gens]
    <3>1. \/ UNCHANGED rat \/ rat' = [rat EXCEPT ![r] = irqSem]
          \/ rat' = [rat EXCEPT ![r] = 0]
      BY <1>3 DEF Reader, ReaderLoop, ReaderWait, ReaderCheck, SpiRead,
                  ReaderDone, ReaderFault, reader
    <3>2. 0 \in Gens /\ irqSem \in Gens
      BY DEF Gens, Types, TypeOK
    <3>3. QED
      BY <3>1, <3>2 DEF Types
  <2>4. rtokens' \in [Gens -> 0..1]
    <3>1. CASE ReaderWait(r)
      <4>1. rat[r] \in Gens /\ rtokens[rat[r]] = 1
        BY <3>1 DEF Types, TypeOK, ReaderWait
      <4>2. QED
        BY <3>1, <4>1 DEF Types, TypeOK, ReaderWait
    <3>2. CASE ~ReaderWait(r)
      BY <1>3, <3>2 DEF Types, TypeOK, Reader, ReaderLoop, ReaderCheck, SpiRead,
                        ReaderDone, ReaderFault, sems
    <3>3. QED
      BY <3>1, <3>2
  <2>5. /\ spiState' \in {spiState, "READ_PERMITTED", "IDLE"}
        /\ UNCHANGED <<attached, txBuf, rxBuf, dev, events>>
        /\ pending' \subseteq pending /\ announced' \in BOOLEAN /\ answered' \in BOOLEAN
    BY <1>3 DEF Types, TypeOK, Reader, ReaderLoop, ReaderWait, ReaderCheck, SpiRead,
                ReaderDone, ReaderFault, driver, device
  <2>6. QED
    BY <2>1, <2>2, <2>3, <2>4, <2>5 DEF Types, TypeOK, prog
<1>4. CASE DeviceStep
  <2>1. UNCHANGED <<prog, sem, tokens, irqSem, reader>>
    BY <1>4, ProgramKept DEF DeviceStep, DevBoot, DevEvent, DevAnnounce
  <2>2. ASSUME Edge
        PROVE  rtokens' \in [Gens -> 0..1] /\ spiState' \in {spiState, "INITIALIZED", "READ_REQUESTED"}
    <3>1. irqSem \in Gens /\ (spiState = "IDLE" => rtokens[irqSem] = 0)
      BY DEF Types, TypeOK, OneRequest, Live
    <3>2. QED
      BY <2>2, <3>1 DEF Edge, Types, TypeOK
  <2>3. /\ rtokens' \in [Gens -> 0..1]
        /\ spiState' \in {spiState, "INITIALIZED", "READ_REQUESTED"}
    BY <1>4, <2>2 DEF DeviceStep, DevBoot, DevEvent, DevAnnounce, sems, driver, Types, TypeOK
  <2>4. events' \in 0..MaxEvents
    BY <1>4 DEF DeviceStep, DevBoot, DevEvent, DevAnnounce, Types, TypeOK
  <2>5. /\ UNCHANGED <<attached, txBuf, rxBuf, answered>> /\ dev' \in {dev, "on"}
        /\ pending' \in {pending, pending \cup {"event"}} /\ announced' \in BOOLEAN
    BY <1>4 DEF DeviceStep, DevBoot, DevEvent, DevAnnounce, driver, Types, TypeOK
  <2>6. QED
    BY <2>1, <2>3, <2>4, <2>5 DEF Types, TypeOK, prog, reader
<1>5. CASE UNCHANGED vars
  BY <1>5 DEF vars, Types, TypeOK, prog, sems, reader, driver, device
<1>6. QED
  BY <1>1, <1>2, <1>3, <1>4, <1>5, Steps DEF ReaderStep

\* A step moves one thread, and only a thread in an init takes the steps of one.
LEMMA WorkMoves ==
    ASSUME Types, InitAlone, NEW t \in Threads, Work(t)
    PROVE  /\ pc' = [pc EXCEPT ![t] = pc'[t]] /\ pc[t] # "idle"
           /\ pc'[t] \in StartPCs => op[t] = "init"
           /\ Return(t) \/ UNCHANGED <<op, usable>>
<1> USE DEF Types, Goto, StartPCs
<1>1. CASE SemCall(t)
  BY <1>1 DEF SemCall, InitAlone
<1>2. CASE SemWait(t)
  BY <1>2 DEF SemWait, InitAlone
<1>3. CASE SemSignal(t)
  BY <1>3 DEF SemSignal, InitAlone
<1>4. CASE Return(t)
  BY <1>4 DEF Return, InitAlone
<1>5. CASE SpiWrite(t)
  BY <1>5 DEF SpiWrite, InitAlone
<1>6. CASE NullWrite(t)
  BY <1>6 DEF NullWrite, InitAlone
<1>7. CASE SimpleLinkWaitEvent(t)
  BY <1>7 DEF SimpleLinkWaitEvent, InitAlone
<1>8. CASE InitSemaphores(t)
  BY <1>8 DEF InitSemaphores, InitAlone
<1>9. CASE InitSpiFails(t)
  BY <1>9 DEF InitSpiFails, InitAlone
<1>10. CASE InitThread(t)
  BY <1>10 DEF InitThread, InitAlone
<1>11. CASE InitReset(t)
  BY <1>11 DEF InitReset, InitAlone
<1>12. CASE InitSleep(t)
  BY <1>12 DEF InitSleep, InitAlone
<1>13. CASE InitRaises(t)
  BY <1>13 DEF InitRaises, InitAlone
<1>14. CASE InitSem(t)
  BY <1>14 DEF InitSem, InitAlone
<1>15. CASE SpiOpen(t)
  BY <1>15 DEF SpiOpen, InitAlone
<1>16. CASE Enable(t)
  BY <1>16 DEF Enable, InitAlone
<1>17. CASE WaitIrqLow(t)
  BY <1>17 DEF WaitIrqLow, InitAlone
<1>18. CASE Disable(t)
  BY <1>18 DEF Disable, InitAlone
<1>19. CASE SpiClose(t)
  BY <1>19 DEF SpiClose, InitAlone
<1>20. QED
  BY <1>1, <1>2, <1>3, <1>4, <1>5, <1>6, <1>7, <1>8, <1>9, <1>10, <1>11, <1>12, <1>13, <1>14, <1>15, <1>16, <1>17, <1>18, <1>19 DEF Work

\* An init starts alone and stays so: nothing else is called before it returns.
LEMMA InitAloneStep ==
    ASSUME Types, InitAlone, [Next]_vars PROVE InitAlone'
<1>1. ASSUME NEW t \in Threads, CallStep(t) PROVE InitAlone'
  <2>1. CASE InitCall(t)
    BY <2>1 DEF InitCall, Enter, Goto, Types, InitAlone, Initing, StartPCs
  <2>2. CASE NativeCall(t)
    BY <2>2 DEF NativeCall, Enter, Goto, Types, InitAlone, Initing, StartPCs
  <2>3. CASE DoneCall(t)
    BY <2>3 DEF DoneCall, Enter, Goto, Types, InitAlone, Initing, StartPCs
  <2>4. QED
    BY <1>1, <2>1, <2>2, <2>3 DEF CallStep
<1>2. ASSUME NEW t \in Threads, Work(t) PROVE InitAlone'
  <2>1. CASE Return(t)
    BY <2>1 DEF Return, Goto, Types, InitAlone, Initing, StartPCs
  <2>2. CASE ~Return(t)
    BY <1>2, <2>2, WorkMoves DEF Types, InitAlone, Initing
  <2>3. QED
    BY <2>1, <2>2
<1>3. CASE ReaderStep \/ DeviceStep
  BY <1>3, ProgramKept DEF prog, InitAlone, Initing
<1>4. CASE UNCHANGED vars
  BY <1>4 DEF vars, prog, InitAlone, Initing
<1>5. QED
  BY <1>1, <1>2, <1>3, <1>4, Steps

\* Each call counts its commands before it sends the first one.
LEMMA CommandsLeftStep ==
    ASSUME Types, InitAlone, CommandsLeft, [Next]_vars PROVE CommandsLeft'
<1> USE DEF Types, InitCommands, CommandsLeft, StartPCs, Goto
<1>1. ASSUME NEW t \in Threads, CallStep(t) PROVE CommandsLeft'
  <2>1. CASE InitCall(t)
    BY <2>1 DEF InitCall, Enter
  <2>2. CASE NativeCall(t)
    BY <2>2 DEF NativeCall, Enter
  <2>3. CASE DoneCall(t)
    BY <2>3 DEF DoneCall, Enter
  <2>4. QED
    BY <1>1, <2>1, <2>2, <2>3 DEF CallStep
<1>2. ASSUME NEW t \in Threads, Work(t) PROVE CommandsLeft'
  <2>1. CASE SemCall(t)
    BY <2>1 DEF SemCall
  <2>2. CASE SemWait(t)
    BY <2>2 DEF SemWait
  <2>3. CASE SemSignal(t)
    BY <2>3 DEF SemSignal
  <2>4. CASE Return(t)
    BY <2>4 DEF Return
  <2>5. CASE SpiWrite(t)
    BY <2>5 DEF SpiWrite
  <2>6. CASE NullWrite(t)
    BY <2>6 DEF NullWrite
  <2>7. CASE SimpleLinkWaitEvent(t)
    BY <2>7 DEF SimpleLinkWaitEvent
  <2>8. CASE InitSemaphores(t)
    BY <2>8 DEF InitSemaphores
  <2>9. CASE InitSpiFails(t)
    BY <2>9 DEF InitSpiFails
  <2>10. CASE InitThread(t)
    BY <2>10 DEF InitThread
  <2>11. CASE InitReset(t)
    BY <2>11 DEF InitReset
  <2>12. CASE InitSleep(t)
    BY <2>12 DEF InitSleep
  <2>13. CASE InitRaises(t)
    BY <2>13 DEF InitRaises
  <2>14. CASE InitSem(t)
    BY <2>14 DEF InitSem
  <2>15. CASE SpiOpen(t)
    BY <2>15 DEF SpiOpen
  <2>16. CASE Enable(t)
    BY <2>16 DEF Enable
  <2>17. CASE WaitIrqLow(t)
    <3>1. pc[t] = "boot" /\ op[t] = "init"
      BY <2>17 DEF WaitIrqLow, InitAlone
    <3>2. left[t] > 0
      BY <3>1
    <3>3. QED
      BY <2>17, <3>2 DEF WaitIrqLow
  <2>18. CASE Disable(t)
    BY <2>18 DEF Disable
  <2>19. CASE SpiClose(t)
    BY <2>19 DEF SpiClose
  <2>20. QED
    BY <1>2, <2>1, <2>2, <2>3, <2>4, <2>5, <2>6, <2>7, <2>8, <2>9, <2>10, <2>11, <2>12, <2>13, <2>14, <2>15, <2>16, <2>17, <2>18, <2>19 DEF Work
<1>3. CASE ReaderStep \/ DeviceStep
  BY <1>3, ProgramKept DEF prog
<1>4. CASE UNCHANGED vars
  BY <1>4 DEF vars, prog
<1>5. QED
  BY <1>1, <1>2, <1>3, <1>4, Steps

\* The semaphore of the natives keeps them apart; it is replaced when no native
\* waits for it or has it.
LEMMA MutexStep ==
    ASSUME Types, InitAlone, Mutex, [Next]_vars PROVE Mutex'
<1> USE DEF Types, TypeOK, Mutex, Holding, Goto
<1>1. ASSUME NEW t \in Threads, CallStep(t) PROVE Mutex'
  <2>1. CASE InitCall(t)
    BY <2>1 DEF InitCall, Enter, sems
  <2>2. CASE NativeCall(t)
    BY <2>2 DEF NativeCall, Enter, sems
  <2>3. CASE DoneCall(t)
    BY <2>3 DEF DoneCall, Enter, sems
  <2>4. QED
    BY <1>1, <2>1, <2>2, <2>3 DEF CallStep
<1>2. ASSUME NEW t \in Threads, Work(t) PROVE Mutex'
  <2>1. CASE SemCall(t)
    BY <2>1 DEF SemCall, sems
  <2>2. CASE SemWait(t)
    BY <2>2 DEF SemWait, sems
  <2>3. CASE SemSignal(t)
    BY <2>3 DEF SemSignal, sems
  <2>4. CASE Return(t)
    BY <2>4 DEF Return, sems
  <2>5. CASE SpiWrite(t)
    BY <2>5 DEF SpiWrite, sems
  <2>6. CASE NullWrite(t)
    BY <2>6 DEF NullWrite, sems
  <2>7. CASE SimpleLinkWaitEvent(t)
    BY <2>7 DEF SimpleLinkWaitEvent, sems
  <2>8. CASE InitSemaphores(t)
    BY <2>8 DEF InitSemaphores, sems
  <2>9. CASE InitSpiFails(t)
    BY <2>9 DEF InitSpiFails, sems
  <2>10. CASE InitThread(t)
    BY <2>10 DEF InitThread, sems
  <2>11. CASE InitReset(t)
    BY <2>11 DEF InitReset, sems
  <2>12. CASE InitSleep(t)
    BY <2>12 DEF InitSleep, sems
  <2>13. CASE InitRaises(t)
    BY <2>13 DEF InitRaises, sems
  <2>14. CASE InitSem(t)
    <3>1. \A u \in Threads \ {t} : pc[u] = "idle"
      BY <2>14 DEF InitSem, InitAlone, Initing, StartPCs
    <3>2. \A u \in Threads : pc'[u] \in {"idle", "call"}
      BY <2>14, <3>1 DEF InitSem
    <3>3. QED
      BY <3>2
  <2>15. CASE SpiOpen(t)
    BY <2>15 DEF SpiOpen, sems
  <2>16. CASE Enable(t)
    BY <2>16 DEF Enable, sems
  <2>17. CASE WaitIrqLow(t)
    BY <2>17 DEF WaitIrqLow, sems
  <2>18. CASE Disable(t)
    BY <2>18 DEF Disable, sems
  <2>19. CASE SpiClose(t)
    BY <2>19 DEF SpiClose, sems
  <2>20. QED
    BY <1>2, <2>1, <2>2, <2>3, <2>4, <2>5, <2>6, <2>7, <2>8, <2>9, <2>10, <2>11, <2>12, <2>13, <2>14, <2>15, <2>16, <2>17, <2>18, <2>19 DEF Work
<1>3. CASE ReaderStep \/ DeviceStep
  BY <1>3, ProgramKept DEF prog
<1>4. CASE UNCHANGED vars
  BY <1>4 DEF vars, prog, sems
<1>5. QED
  BY <1>1, <1>2, <1>3, <1>4, Steps

\* Only InitSemaphores names another semaphore for the reader, one that has
\* never been used, and InitThread makes the reader that waits on it.
LEMMA ReaderSemsStep ==
    ASSUME Types, InitAlone, ReaderSems, [Next]_vars PROVE ReaderSems'
<1> USE DEF Types, TypeOK, ReaderSems, Gens, Readers, Goto, StartPCs
<1>1. ASSUME NEW t \in Threads, CallStep(t) PROVE ReaderSems'
  <2>1. CASE InitCall(t)
    BY <2>1 DEF InitCall, Enter, Placed, sems, reader
  <2>2. CASE NativeCall(t)
    BY <2>2 DEF NativeCall, Enter, Placed, sems, reader
  <2>3. CASE DoneCall(t)
    BY <2>3 DEF DoneCall, Enter, Placed, sems, reader
  <2>4. QED
    BY <1>1, <2>1, <2>2, <2>3 DEF CallStep
<1>2. ASSUME NEW t \in Threads, Work(t) PROVE ReaderSems'
  <2>1. CASE SemCall(t)
    BY <2>1 DEF SemCall, Placed, sems, reader
  <2>2. CASE SemWait(t)
    BY <2>2 DEF SemWait, Placed, sems, reader
  <2>3. CASE SemSignal(t)
    BY <2>3 DEF SemSignal, Placed, sems, reader
  <2>4. CASE Return(t)
    BY <2>4 DEF Return, Placed, sems, reader
  <2>5. CASE SpiWrite(t)
    BY <2>5 DEF SpiWrite, Placed, sems, reader
  <2>6. CASE NullWrite(t)
    <3>1. /\ \E to \in {"fault", "stuck"} : pc' = [pc EXCEPT ![t] = to]
          /\ pc[t] = "write" /\ UNCHANGED <<op, inits, irqSem, rtokens, rpc, rat>>
      BY <2>6 DEF NullWrite, sems, reader
    <3>2. \A u \in Threads : /\ pc'[u] = "bus" => pc[u] = "bus"
                             /\ Placed(u)' => Placed(u)
                             /\ pc[u] = "thread" => pc'[u] = "thread"
      BY <3>1 DEF Placed
    <3> HIDE DEF Types, TypeOK, Gens, Readers, Placed
    <3>3. QED
      BY <3>1, <3>2
  <2>7. CASE SimpleLinkWaitEvent(t)
    BY <2>7 DEF SimpleLinkWaitEvent, Placed, sems, reader
  <2>8. CASE InitSemaphores(t)
    <3>1. /\ irqSem' = inits /\ inits' = inits /\ irqSem < inits
          /\ UNCHANGED <<rtokens, rpc, rat, op>>
      BY <2>8 DEF InitSemaphores, reader
    <3>2. pc'[t] = "thread" /\ \A u \in Threads \ {t} : pc'[u] = "idle"
      BY <2>8 DEF InitSemaphores, InitAlone, Initing
    <3>a. /\ irqSem \in Int /\ inits \in Int /\ \A g \in Gens : g \in Int
          /\ \A r \in Readers : r \in Int /\ rat[r] \in Int
      <4>1. irqSem \in Gens /\ inits \in Gens /\ rat \in [Readers -> Gens]
            /\ Readers \subseteq Gens
        OBVIOUS
      <4>2. Gens \subseteq Int
        OBVIOUS
      <4> HIDE DEF Types, TypeOK, ReaderSems, Gens, Readers
      <4>3. QED
        BY <4>1, <4>2
    <3>b. /\ \A g \in Gens : g > irqSem => rtokens[g] = 0
          /\ \A r \in Readers : /\ rpc[r] # "none" => r <= irqSem
                                /\ rpc[r] = "wait" => r <= rat[r] /\ rat[r] <= irqSem
      <4> HIDE DEF Types, TypeOK, Gens, Readers
      <4>1. QED
        BY DEF ReaderSems
    <3>3. \A g \in Gens : g > irqSem' => rtokens'[g] = 0
      <4> HIDE DEF Types, TypeOK, ReaderSems, Gens, Readers
      <4>1. QED
        BY <3>1, <3>a, <3>b
    <3>4. \A r \in Readers : /\ rpc'[r] # "none" => r <= irqSem'
                             /\ rpc'[r] = "wait" => r <= rat'[r] /\ rat'[r] <= irqSem'
      <4> HIDE DEF Types, TypeOK, ReaderSems, Gens, Readers
      <4>1. QED
        BY <3>1, <3>a, <3>b
    <3>c. inits # 0
      BY <3>1
    <3>5. \A u \in Threads : /\ pc'[u] # "bus"
                             /\ Placed(u)' => irqSem' = inits' /\ inits' # 0
      <4> HIDE DEF Types, TypeOK, ReaderSems, Gens, Readers, Placed
      <4>1. QED
        BY <3>1, <3>2, <3>c
    <3>6. QED
      BY <3>1, <3>2, <3>3, <3>4, <3>5
  <2>9. CASE InitSpiFails(t)
    BY <2>9 DEF InitSpiFails, Placed, sems, reader
  <2>10. CASE InitThread(t)
    BY <2>10 DEF InitThread, Placed, sems, reader
  <2>11. CASE InitReset(t)
    BY <2>11 DEF InitReset, Placed, sems, reader
  <2>12. CASE InitSleep(t)
    BY <2>12 DEF InitSleep, Placed, sems, reader
  <2>13. CASE InitRaises(t)
    BY <2>13 DEF InitRaises, Placed, sems, reader
  <2>14. CASE InitSem(t)
    BY <2>14 DEF InitSem, Placed, sems, reader
  <2>15. CASE SpiOpen(t)
    BY <2>15 DEF SpiOpen, Placed, sems, reader
  <2>16. CASE Enable(t)
    BY <2>16 DEF Enable, Placed, sems, reader
  <2>17. CASE WaitIrqLow(t)
    BY <2>17 DEF WaitIrqLow, Placed, sems, reader
  <2>18. CASE Disable(t)
    BY <2>18 DEF Disable, Placed, sems, reader
  <2>19. CASE SpiClose(t)
    BY <2>19 DEF SpiClose, Placed, sems, reader
  <2>20. QED
    BY <1>2, <2>1, <2>2, <2>3, <2>4, <2>5, <2>6, <2>7, <2>8, <2>9, <2>10, <2>11, <2>12, <2>13, <2>14, <2>15, <2>16, <2>17, <2>18, <2>19 DEF Work
<1>3. CASE ReaderStep
  <2>1. UNCHANGED <<irqSem, inits, pc, op>>
    BY <1>3, ProgramKept DEF prog
  <2>2. PICK r \in Readers : Reader(r) \/ ReaderFault(r)
    BY <1>3 DEF ReaderStep
  <2>3. /\ rpc[r] # "none" /\ rpc'[r] # "none"
        /\ rpc'[r] = "wait" => rat'[r] = irqSem
        /\ \A q \in Readers \ {r} : rpc'[q] = rpc[q] /\ rat'[q] = rat[q]
    BY <2>2 DEF Reader, ReaderLoop, ReaderWait, ReaderCheck, SpiRead, ReaderDone,
                ReaderFault, ReaderGoto, InPacket
  <2>4. \A g \in Gens : g > irqSem => rtokens'[g] = 0
    <3>1. CASE ReaderWait(r)
      <4>1. rat[r] \in Gens /\ rat[r] <= irqSem
        BY <3>1 DEF ReaderWait, ReaderGoto
      <4>2. QED
        BY <3>1, <4>1 DEF ReaderWait
    <3>2. CASE ~ReaderWait(r)
      BY <2>2, <3>2 DEF Reader, ReaderLoop, ReaderCheck, SpiRead, ReaderDone,
                        ReaderFault, sems
    <3>3. QED
      BY <3>1, <3>2
  <2>5. \A q \in Readers : /\ rpc'[q] # "none" => q <= irqSem
                           /\ rpc'[q] = "wait" => q <= rat'[q] /\ rat'[q] <= irqSem
    <3> TAKE q \in Readers
    <3>1. CASE q = r
      BY <2>3, <3>1
    <3>2. CASE q # r
      BY <2>3, <3>2
    <3>3. QED
      BY <3>1, <3>2
  <2>6. irqSem # 0 => \/ rpc'[irqSem] # "none"
                      \/ \E t \in Threads : pc[t] = "thread"
    <3>1. irqSem # 0 => irqSem \in Readers
      OBVIOUS
    <3>2. QED
      BY <2>3, <3>1
  <2>7. QED
    BY <2>1, <2>4, <2>5, <2>6 DEF Placed
<1>4. CASE DeviceStep
  <2>1. UNCHANGED <<irqSem, inits, pc, op, rpc, rat>>
    BY <1>4, ProgramKept DEF DeviceStep, DevBoot, DevEvent, DevAnnounce, prog, reader
  <2>2. \A g \in Gens : g # irqSem => rtokens'[g] = rtokens[g]
    BY <1>4 DEF DeviceStep, DevBoot, DevEvent, DevAnnounce, Edge, sems
  <2>3. QED
    BY <2>1, <2>2 DEF Placed
<1>5. CASE UNCHANGED vars
  BY <1>5 DEF vars, prog, sems, reader, Placed
<1>6. QED
  BY <1>1, <1>2, <1>3, <1>4, <1>5, Steps

\* An init that has slept meets no reader with a request and no token.
LEMMA Slept_NoRequest ==
    ASSUME Types, ReaderSems, QuietInv, NEW t \in Threads, Slept(t), InitAlone
    PROVE  /\ \A r \in Readers : ~Busy(r) /\ rpc[r] # "loop"
           /\ \A g \in Gens : Live(g) => rtokens[g] = 0
<1>1. \A r \in Readers : \/ rpc[r] = "none"
                         \/ rpc[r] = "wait" /\ rtokens[rat[r]] = 0
  BY DEF QuietInv
<1>2. \A r \in Readers : ~Busy(r) /\ rpc[r] # "loop"
  BY <1>1 DEF Busy, InPacket
<1>3. irqSem \in Readers /\ irqSem # 0
  BY DEF ReaderSems, Slept, Types, TypeOK, Gens, Readers
<1>4. ~ \E u \in Threads : pc[u] = "thread"
  BY DEF InitAlone, Initing, Slept, Placed, StartPCs
<1>5. rpc[irqSem] = "wait" /\ irqSem <= rat[irqSem] /\ rat[irqSem] <= irqSem
  BY <1>1, <1>3, <1>4 DEF ReaderSems
<1>6. rat[irqSem] = irqSem
  BY <1>3, <1>5 DEF Types, TypeOK, Gens
<1>7. rtokens[irqSem] = 0
  BY <1>1, <1>3, <1>5, <1>6
<1>8. QED
  BY <1>1, <1>2, <1>7 DEF Live

\* What the natives change of what OneRequest is about.
LEMMA OneRequestKept ==
    ASSUME OneRequest, UNCHANGED <<rtokens, rat, rpc, spiState, irqSem>>
    PROVE  OneRequest'
BY DEF OneRequest, Live, Busy

\* Each request is made when there is none and handed on from token to reader.
LEMMA OneRequestStep ==
    ASSUME Types, InitAlone, ReaderSems, OneRequest, QuietInv, [Next]_vars
    PROVE  OneRequest'
<1>1. ASSUME NEW t \in Threads, CallStep(t) PROVE OneRequest'
  BY <1>1, OneRequestKept DEF CallStep, NativeCall, InitCall, DoneCall, sems, reader, driver
<1>2. ASSUME NEW t \in Threads, Work(t) PROVE OneRequest'
  <2>0. UNCHANGED <<rtokens, rat>>
    BY <1>2, RequestsKept
  <2>1. CASE SpiWrite(t)
    <3>1. /\ spiState \in {"INITIALIZED", "IDLE"} /\ spiState' = "IDLE"
          /\ UNCHANGED <<rtokens, rat, rpc, irqSem>>
      BY <2>1 DEF SpiWrite, sems, reader
    <3>2. QED
      BY <3>1 DEF OneRequest, Live, Busy
  <2>2. CASE InitSemaphores(t)
    <3>1. irqSem' = inits /\ irqSem < inits /\ UNCHANGED <<rtokens, rat, rpc, spiState>>
      BY <2>0, <2>2 DEF InitSemaphores, ReaderSems, reader, Goto
    <3>2. inits \in Gens /\ rtokens[inits] = 0
      BY <3>1 DEF ReaderSems, Types, TypeOK, Gens
    <3>3. \A g \in Gens : rtokens'[g] > 0 /\ Live(g)' => rtokens[g] > 0 /\ Live(g)
      BY <3>1, <3>2 DEF Live, Types, TypeOK
    <3>4. QED
      BY <3>1, <3>3 DEF OneRequest, Busy
  <2>3. CASE InitThread(t)
    <3>1. /\ rpc' = [rpc EXCEPT ![inits] = "loop"]
          /\ UNCHANGED <<rtokens, rat, irqSem, spiState>>
      BY <2>0, <2>3 DEF InitThread, sems, driver
    <3>2. \A r \in Readers : rpc'[r] = rpc[r] \/ rpc'[r] = "loop"
      BY <3>1 DEF Types
    <3>3. QED
      BY <3>1, <3>2 DEF OneRequest, Live, Busy, InPacket
  <2>4. CASE SpiOpen(t)
    <3>1. UNCHANGED <<rtokens, rat, irqSem, rpc>> /\ Slept(t)
      BY <2>4 DEF SpiOpen, sems, reader, Goto, Slept, Placed, StartPCs
    <3>2. QED
      BY <3>1, Slept_NoRequest DEF OneRequest, Live, Busy
  <2>5. CASE ~(SpiWrite(t) \/ InitSemaphores(t) \/ InitThread(t) \/ SpiOpen(t))
    BY <1>2, <2>5, OneRequestKept
       DEF Work, SemCall, SemWait, SemSignal, Return, NullWrite, SimpleLinkWaitEvent,
           InitSpiFails, InitReset, InitSleep, InitRaises, InitSem, Enable, WaitIrqLow,
           Disable, SpiClose, sems, reader, driver
  <2>6. QED
    BY <2>1, <2>2, <2>3, <2>4, <2>5
<1>3. ASSUME NEW r \in Readers, Reader(r) \/ ReaderFault(r) PROVE OneRequest'
  <2>1. UNCHANGED irqSem
    BY <1>3, ProgramKept DEF ReaderStep
  <2> USE DEF Types, TypeOK, ReaderGoto
  <2>2. CASE ReaderLoop(r)
    <3>1. /\ UNCHANGED <<rtokens, spiState>>
          /\ \A q \in Readers : q # r => rpc'[q] = rpc[q] /\ rat'[q] = rat[q]
          /\ rpc'[r] = "wait" /\ rat'[r] = irqSem
      BY <2>2 DEF ReaderLoop, sems, driver
    <3>2. \A g \in Gens : Live(g)' => Live(g)
      BY <2>1, <3>1 DEF Live
    <3>3. \A q \in Readers : Busy(q)' => Busy(q) /\ rpc'[q] = rpc[q]
      BY <3>1 DEF Busy, InPacket
    <3>4. QED
      BY <3>1, <3>2, <3>3 DEF OneRequest, Busy
  <2>3. CASE ReaderWait(r)
    <3>0. /\ rat[r] \in Gens /\ rtokens[rat[r]] = 1 /\ rpc[r] = "wait"
          /\ rpc' = [rpc EXCEPT ![r] = "check"] /\ UNCHANGED spiState
          /\ rtokens' = [rtokens EXCEPT ![rat[r]] = @ - 1]
          /\ rat' = [rat EXCEPT ![r] = 0]
      BY <2>3 DEF ReaderWait, driver
    <3>1. /\ rat[r] \in Gens /\ rtokens[rat[r]] = 1 /\ Live(rat[r])
          /\ rpc' = [rpc EXCEPT ![r] = "check"] /\ UNCHANGED spiState
          /\ rtokens' = [rtokens EXCEPT ![rat[r]] = 0] /\ rat' = [rat EXCEPT ![r] = 0]
      BY <3>0 DEF Live
    <3>2. spiState = "READ_REQUESTED" /\ (\A q \in Readers : ~Busy(q))
      BY <3>1 DEF OneRequest
    <3>3. \A g \in Gens : Live(g)' => Live(g)
      BY <2>1, <3>1 DEF Live
    <3>4. \A g \in Gens : ~(rtokens'[g] > 0 /\ Live(g)')
      BY <3>1, <3>3 DEF OneRequest
    <3>5. \A q \in Readers : Busy(q)' => q = r /\ rpc'[q] = "check"
      BY <3>1, <3>2 DEF Busy
    <3>6. QED
      BY <3>1, <3>2, <3>4, <3>5 DEF OneRequest, Busy, InPacket
  <2>4. ASSUME Busy(r), UNCHANGED <<rtokens, rat>>,
               \A q \in Readers : q # r => rpc'[q] = rpc[q], rpc'[r] # "wait"
        PROVE  /\ \A g \in Gens : ~(rtokens'[g] > 0 /\ Live(g)')
               /\ \A q \in Readers : Busy(q)' => q = r
    <3>1. \A g \in Gens : Live(g)' => Live(g)
      BY <2>1, <2>4 DEF Live
    <3>2. QED
      BY <2>4, <3>1 DEF OneRequest, Busy
  <2>5. CASE ReaderCheck(r) \/ SpiRead(r) \/ ReaderDone(r) \/ ReaderFault(r)
    <3>1. /\ Busy(r) /\ UNCHANGED <<rtokens, rat>> /\ rpc'[r] # "wait"
          /\ \A q \in Readers : q # r => rpc'[q] = rpc[q]
      BY <2>5 DEF ReaderCheck, SpiRead, ReaderDone, ReaderFault, Busy, InPacket, sems
    <3>2. /\ rpc'[r] # "check"
          /\ rpc'[r] \in InPacket => spiState' = "READ_PERMITTED"
      BY <2>5 DEF ReaderCheck, SpiRead, ReaderDone, ReaderFault, InPacket, OneRequest, driver
    <3>3. QED
      BY <2>4, <3>1, <3>2 DEF OneRequest, Busy, InPacket
  <2>6. QED
    BY <1>3, <2>2, <2>3, <2>5 DEF Reader
<1>4. CASE DeviceStep
  <2>1. UNCHANGED <<irqSem, rpc, rat>>
    BY <1>4, ProgramKept DEF DeviceStep, DevBoot, DevEvent, DevAnnounce, reader
  <2>2. CASE UNCHANGED <<spiState, rtokens>>
    BY <2>1, <2>2, OneRequestKept
  <2>3. CASE Edge /\ attached
    <3>1. CASE spiState = "IDLE"
      <4>1. (\A q \in Readers : ~Busy(q)) /\ \A g \in Gens : Live(g) => rtokens[g] = 0
        BY <3>1 DEF OneRequest, Busy, Types, TypeOK
      <4>2. /\ spiState' = "READ_REQUESTED" /\ rtokens' = [rtokens EXCEPT ![irqSem] = @ + 1]
        BY <2>3, <3>1 DEF Edge
      <4>3. \A g \in Gens : /\ Live(g)' <=> Live(g)
                            /\ g # irqSem => rtokens'[g] = rtokens[g]
        BY <2>1, <4>2 DEF Live, Types, TypeOK
      <4>4. \A g \in Gens : rtokens'[g] > 0 /\ Live(g)' => g = irqSem
        BY <4>1, <4>3
      <4>5. QED
        BY <2>1, <4>1, <4>2, <4>4 DEF OneRequest, Busy, InPacket
    <3>2. CASE spiState = "POWERUP"
      <4>1. spiState' = "INITIALIZED" /\ UNCHANGED rtokens
        BY <2>3, <3>2 DEF Edge
      <4>2. QED
        BY <2>1, <3>2, <4>1 DEF OneRequest, Live, Busy
    <3>3. CASE spiState \notin {"IDLE", "POWERUP"}
      <4>1. UNCHANGED <<spiState, rtokens>>
        BY <2>3, <3>3 DEF Edge
      <4>2. QED
        BY <2>1, <4>1, OneRequestKept
    <3>4. QED
      BY <3>1, <3>2, <3>3
  <2>4. QED
    BY <1>4, <2>2, <2>3 DEF DeviceStep, DevBoot, DevEvent, DevAnnounce, Edge, sems, driver
<1>5. CASE UNCHANGED vars
  BY <1>5, OneRequestKept DEF vars, sems, reader, driver
<1>6. QED
  BY <1>1, <1>2, <1>3, <1>4, <1>5, Steps DEF ReaderStep

\* The device is switched on by an init that has prepared the driver for it, and
\* off before the buffers are taken away.
LEMMA DeviceInvStep ==
    ASSUME Types, InitAlone, ReaderSems, OneRequest, DeviceInv, QuietInv,
           [Next]_vars
    PROVE  DeviceInv'
<1> USE DEF Types, TypeOK, DeviceInv, Placed, Goto, StartPCs
<1>1. ASSUME NEW t \in Threads, CallStep(t) PROVE DeviceInv'
  <2>1. CASE InitCall(t)
    BY <2>1 DEF InitCall, Enter, driver, device, sems
  <2>2. CASE NativeCall(t)
    BY <2>2 DEF NativeCall, Enter, driver, device, sems
  <2>3. CASE DoneCall(t)
    BY <2>3 DEF DoneCall, Enter, driver, device, sems
  <2>4. QED
    BY <1>1, <2>1, <2>2, <2>3 DEF CallStep
<1>2. ASSUME NEW t \in Threads, Work(t) PROVE DeviceInv'
  <2>0. pc[t] # "idle" /\ \A u \in Threads \ {t} : ~Placed(u) /\ pc[u] # "bus"
    BY <1>2, WorkMoves DEF InitAlone, Initing
  <2>1. CASE SemCall(t)
    BY <2>1 DEF SemCall, driver, device, sems
  <2>2. CASE SemWait(t)
    BY <2>2 DEF SemWait, driver, device, sems
  <2>3. CASE SemSignal(t)
    BY <2>3 DEF SemSignal, driver, device, sems
  <2>4. CASE Return(t)
    BY <2>4 DEF Return, driver, device, sems
  <2>5. CASE SpiWrite(t)
    <3>1. /\ dev = "off" => UNCHANGED pending
          /\ spiState \in {"INITIALIZED", "IDLE"}
          /\ UNCHANGED <<op, rxBuf, irqSem, dev, announced>>
          /\ pc' = [pc EXCEPT ![t] = "await"]
      BY <2>5 DEF SpiWrite, driver, sems
    <3>2. \A u \in Threads : ~Placed(u)' /\ (pc'[u] = "close" => pc[u] = "close")
      BY <2>0, <3>1
    <3>3. QED
      BY <3>1, <3>2
  <2>6. CASE NullWrite(t)
    BY <2>6 DEF NullWrite, driver, device, sems
  <2>7. CASE SimpleLinkWaitEvent(t)
    BY <2>7 DEF SimpleLinkWaitEvent, driver, device, sems
  <2>8. CASE InitSemaphores(t)
    <3>1. /\ irqSem' = inits /\ inits # 0 /\ pc' = [pc EXCEPT ![t] = "thread"]
          /\ UNCHANGED <<op, rxBuf, spiState, device>>
      BY <2>8 DEF InitSemaphores, ReaderSems, Gens
    <3>2. \A u \in Threads \ {t} : ~Placed(u)' /\ pc'[u] = pc[u]
      BY <2>0, <3>1
    <3>3. QED
      BY <3>1, <3>2 DEF device
  <2>9. CASE InitSpiFails(t)
    BY <2>9 DEF InitSpiFails, driver, device, sems
  <2>10. CASE InitThread(t)
    BY <2>10 DEF InitThread, driver, device, sems
  <2>11. CASE InitReset(t)
    BY <2>11 DEF InitReset, driver, device, sems, PowerOff
  <2>12. CASE InitSleep(t)
    BY <2>12 DEF InitSleep, driver, device, sems
  <2>13. CASE InitRaises(t)
    BY <2>13 DEF InitRaises, driver, device, sems
  <2>14. CASE InitSem(t)
    BY <2>14 DEF InitSem, driver, device, sems
  <2>15. CASE SpiOpen(t)
    BY <2>15 DEF SpiOpen, driver, device, sems
  <2>16. CASE Enable(t)
    <3>1. /\ dev' = "booting" /\ pc' = [pc EXCEPT ![t] = "boot"] /\ dev = "off"
          /\ UNCHANGED <<op, rxBuf, spiState, irqSem, pending, announced>>
          /\ spiState = "POWERUP" /\ rxBuf /\ pending = {}
      BY <2>16 DEF Enable, driver, sems
    <3>2. irqSem # 0
      BY <2>16 DEF Enable, ReaderSems
    <3>3. \A u \in Threads \ {t} : ~Placed(u)' /\ pc'[u] # "close"
      BY <2>0, <2>16, <3>1 DEF Enable, InitAlone, Initing
    <3>4. QED
      BY <3>1, <3>2, <3>3
  <2>17. CASE WaitIrqLow(t)
    BY <2>17 DEF WaitIrqLow, driver, device, sems
  <2>18. CASE Disable(t)
    BY <2>18 DEF Disable, driver, device, sems, PowerOff
  <2>19. CASE SpiClose(t)
    <3>1. /\ pc' = [pc EXCEPT ![t] = "signal"] /\ dev = "off"
          /\ UNCHANGED <<op, spiState, irqSem, device>>
      BY <2>19 DEF SpiClose, sems
    <3>2. \A u \in Threads : ~Placed(u)' /\ (pc'[u] = "close" => pc[u] = "close")
      BY <2>0, <3>1
    <3>3. QED
      BY <3>1, <3>2 DEF device
  <2>20. QED
    BY <1>2, <2>1, <2>2, <2>3, <2>4, <2>5, <2>6, <2>7, <2>8, <2>9, <2>10, <2>11, <2>12, <2>13, <2>14, <2>15, <2>16, <2>17, <2>18, <2>19 DEF Work
<1>3. ASSUME NEW r \in Readers, Reader(r) \/ ReaderFault(r) PROVE DeviceInv'
  <2>1. UNCHANGED <<pc, op, irqSem, dev, rxBuf>>
    BY <1>3, ProgramKept DEF ReaderStep, prog, Reader, ReaderLoop, ReaderWait,
             ReaderCheck, SpiRead, ReaderDone, ReaderFault, driver, device
  <2>2. CASE ~Busy(r)
    <3>1. UNCHANGED <<spiState, pending, announced>>
      BY <1>3, <2>2 DEF Busy, InPacket, Reader, ReaderLoop, ReaderWait, ReaderCheck,
                        SpiRead, ReaderDone, ReaderFault, ReaderGoto, driver, device
    <3>2. QED
      BY <2>1, <3>1
  <2>3. CASE Busy(r)
    <3>1. \A t \in Threads : ~Slept(t)
      BY <2>3, Slept_NoRequest
    <3>2. spiState # "POWERUP"
      BY <2>3 DEF OneRequest, Busy
    <3>3. dev # "booting"
      BY <3>2
    <3>4. /\ pending' \subseteq pending
          /\ pending = {} => UNCHANGED announced
      BY <1>3 DEF Reader, ReaderLoop, ReaderWait,
             ReaderCheck, SpiRead, ReaderDone, ReaderFault, driver, device
    <3>5. QED
      BY <2>1, <3>1, <3>3, <3>4 DEF Slept
  <2>4. QED
    BY <2>2, <2>3
<1>4. CASE DeviceStep
  <2>1. UNCHANGED <<pc, op, irqSem, rxBuf>>
    BY <1>4, ProgramKept DEF prog, DeviceStep, DevBoot, DevEvent, DevAnnounce, driver
  <2>2. CASE DevBoot
    <3>1. dev = "booting" /\ dev' = "on" /\ spiState' \in {"POWERUP", "INITIALIZED"}
          /\ UNCHANGED pending
      BY <2>2 DEF DevBoot, Edge
    <3>2. QED
      BY <2>1, <3>1
  <2>3. CASE DevEvent
    <3>1. dev = "on" /\ dev' = "on" /\ spiState \notin {"POWERUP", "INITIALIZED"}
          /\ UNCHANGED spiState
      BY <2>3 DEF DevEvent, driver
    <3>2. QED
      BY <2>1, <3>1
  <2>4. CASE DevAnnounce
    <3>1. dev = "on" /\ dev' = "on" /\ pending # {} /\ UNCHANGED pending
      BY <2>4 DEF DevAnnounce
    <3>2. QED
      BY <2>1, <3>1
  <2>5. QED
    BY <1>4, <2>2, <2>3, <2>4 DEF DeviceStep
<1>5. CASE UNCHANGED vars
  BY <1>5 DEF vars, prog, sems, driver, device
<1>6. QED
  BY <1>1, <1>2, <1>3, <1>4, <1>5, Steps DEF ReaderStep

\* Between the sleep of an init and its first command the device is off or has
\* nothing to say, and nobody else does anything.
LEMMA QuietInvStep ==
    ASSUME Types, InitAlone, ReaderSems, OneRequest, DeviceInv, QuietInv,
           [Next]_vars
    PROVE  QuietInv'
<1> USE DEF Types, TypeOK, QuietInv, Slept, Placed, Goto, StartPCs
<1>1. ASSUME NEW t \in Threads, CallStep(t) PROVE QuietInv'
  <2>1. UNCHANGED <<rtokens, rat, rpc>>
    BY <1>1 DEF CallStep, InitCall, NativeCall, DoneCall, sems, reader
  <2>2. CASE InitCall(t)
    BY <2>1, <2>2 DEF InitCall, Enter
  <2>3. CASE NativeCall(t)
    BY <2>1, <2>3 DEF NativeCall, Enter
  <2>4. CASE DoneCall(t)
    BY <2>1, <2>4 DEF DoneCall, Enter
  <2>5. QED
    BY <1>1, <2>2, <2>3, <2>4 DEF CallStep
<1>2. ASSUME NEW t \in Threads, Work(t) PROVE QuietInv'
  <2> USE DEF sems, reader
  <2>1. CASE SemCall(t)
    BY <2>1 DEF SemCall
  <2>2. CASE SemWait(t)
    BY <2>2 DEF SemWait
  <2>3. CASE SemSignal(t)
    BY <2>3 DEF SemSignal
  <2>4. CASE Return(t)
    BY <2>4 DEF Return
  <2>5. CASE SpiWrite(t)
    BY <2>5 DEF SpiWrite
  <2>6. CASE NullWrite(t)
    BY <2>6 DEF NullWrite
  <2>7. CASE SimpleLinkWaitEvent(t)
    BY <2>7 DEF SimpleLinkWaitEvent
  <2>8. CASE InitSemaphores(t)
    BY <2>8 DEF InitSemaphores
  <2>9. CASE InitSpiFails(t)
    BY <2>9 DEF InitSpiFails
  <2>10. CASE InitThread(t)
    <3>1. pc' = [pc EXCEPT ![t] = "reset"] /\ UNCHANGED op
      BY <2>10 DEF InitThread
    <3>2. \A u \in Threads : ~Slept(u)'
      BY <2>10, <3>1 DEF InitThread, InitAlone, Initing
    <3>3. QED
      BY <3>2
  <2>11. CASE InitReset(t)
    BY <2>11 DEF InitReset
  <2>12. CASE InitSleep(t)
    BY <2>12 DEF InitSleep
  <2>13. CASE InitRaises(t)
    BY <2>13 DEF InitRaises
  <2>14. CASE InitSem(t)
    BY <2>14 DEF InitSem
  <2>15. CASE SpiOpen(t)
    BY <2>15 DEF SpiOpen
  <2>16. CASE Enable(t)
    BY <2>16 DEF Enable
  <2>17. CASE WaitIrqLow(t)
    BY <2>17 DEF WaitIrqLow
  <2>18. CASE Disable(t)
    BY <2>18 DEF Disable
  <2>19. CASE SpiClose(t)
    BY <2>19 DEF SpiClose
  <2>20. QED
    BY <1>2, <2>1, <2>2, <2>3, <2>4, <2>5, <2>6, <2>7, <2>8, <2>9, <2>10, <2>11, <2>12, <2>13, <2>14, <2>15, <2>16, <2>17, <2>18, <2>19 DEF Work
<1>3. ASSUME NEW r \in Readers, Reader(r) \/ ReaderFault(r) PROVE QuietInv'
  <2>1. UNCHANGED <<pc, op>>
    BY <1>3, ProgramKept DEF ReaderStep, prog
  <2>2. ASSUME NEW t \in Threads, Slept(t) PROVE FALSE
    <3>1. ~Busy(r) /\ rpc[r] # "loop" /\ (rpc[r] = "wait" => rtokens[rat[r]] = 0)
      BY <2>2, Slept_NoRequest
    <3>2. QED
      BY <1>3, <3>1 DEF Busy, InPacket, Reader, ReaderLoop, ReaderWait, ReaderCheck,
                        SpiRead, ReaderDone, ReaderFault, ReaderGoto
  <2>3. QED
    BY <2>1, <2>2
<1>4. CASE DeviceStep
  <2>1. UNCHANGED <<pc, op, rpc, rat>>
    BY <1>4, ProgramKept DEF prog, DeviceStep, DevBoot, DevEvent, DevAnnounce, reader
  <2>2. ASSUME NEW t \in Threads, Slept(t) PROVE UNCHANGED rtokens
    <3>1. dev = "off" \/ pending = {}
      BY <2>2 DEF DeviceInv
    <3>2. dev = "booting" => spiState = "POWERUP"
      BY DEF DeviceInv
    <3>3. QED
      BY <1>4, <3>1, <3>2 DEF DeviceStep, DevBoot, DevEvent, DevAnnounce, Edge, sems
  <2>3. QED
    BY <2>1, <2>2
<1>5. CASE UNCHANGED vars
  BY <1>5 DEF vars, prog, sems, reader
<1>6. QED
  BY <1>1, <1>2, <1>3, <1>4, <1>5, Steps DEF ReaderStep

-----------------------------------------------------------------------------
\* The inductive invariant holds in every reachable state.
THEOREM Inductive == Spec => []IInv
<1>1. IInv /\ [Next]_vars => IInv'
  BY TypesStep, InitAloneStep, CommandsLeftStep, MutexStep, ReaderSemsStep,
     OneRequestStep, DeviceInvStep, QuietInvStep DEF IInv
<1>2. QED
  BY IInvInit, <1>1, PTL DEF Spec

\* No semaphore collects a second token, and at most one native uses device and
\* buffers, over any number of inits and stops.
THEOREM OneCommandAtATime == Spec => []Inv
<1>1. IInv => Inv
  <2> SUFFICES ASSUME IInv PROVE OneCommand
    BY DEF IInv, Types, Inv
  <2> DEFINE S == {t \in Threads : pc[t] \in Holding}
  <2>1. CASE S = {}
    BY <2>1, FS_EmptySet DEF OneCommand
  <2>2. ASSUME NEW t \in S PROVE Cardinality(S) <= 1
    <3>1. S = {t}
      BY <2>2 DEF IInv, Mutex
    <3>2. Cardinality(S) = 1
      BY <3>1, FS_Singleton
    <3>3. QED
      BY <3>2
  <2>3. QED
    BY <2>1, <2>2 DEF OneCommand
<1>2. QED
  BY Inductive, <1>1, PTL

\* A device that is powered is never without a reader that its interrupt can
\* reach, although each init abandons the semaphore of the last one.
THEOREM AlwaysArmed == Spec => []ReaderArmed
<1>1. IInv => ReaderArmed
  <2> SUFFICES ASSUME IInv, dev # "off", ~ \E t \in Threads : pc[t] = "thread"
               PROVE  \E r \in Readers : \/ rpc[r] = "wait" /\ rat[r] = irqSem
                                         \/ rpc[r] \notin {"none", "wait"}
    BY DEF ReaderArmed
  <2>1. irqSem \in Readers /\ irqSem # 0
    BY DEF IInv, DeviceInv, Types, TypeOK, Gens, Readers
  <2>2. rpc[irqSem] # "none"
    BY <2>1 DEF IInv, ReaderSems
  <2>3. rpc[irqSem] = "wait" => irqSem <= rat[irqSem] /\ rat[irqSem] <= irqSem
    BY <2>1 DEF IInv, ReaderSems
  <2>4. rpc[irqSem] = "wait" => rat[irqSem] = irqSem
    BY <2>1, <2>3 DEF IInv, Types, TypeOK, Gens
  <2>5. QED
    BY <2>1, <2>2, <2>4
<1>2. QED
  BY Inductive, <1>1, PTL

\* No token of the time before a restart meets the driver that is booting, and
\* no reader reads without a buffer from a device that is on.
THEOREM RestartIsClean == Spec => []CleanRestart
<1>1. IInv => CleanRestart
  <2> SUFFICES ASSUME IInv PROVE NoStaleToken /\ BufferUnderReader
    BY DEF CleanRestart
  <2>1. NoStaleToken
    BY DEF IInv, OneRequest, Live, DeviceInv, NoStaleToken
  <2>2. BufferUnderReader
    BY DEF IInv, DeviceInv, BufferUnderReader
  <2>3. QED
    BY <2>1, <2>2
<1>2. QED
  BY Inductive, <1>1, PTL
==============================================================================
