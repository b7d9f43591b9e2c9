------------------------------ MODULE Lifecycle ------------------------------
(***************************************************************************)
(* Starting, stopping and starting again: cc3000_init, cc3000_done and     *)
(* natives between them.  Every cc3000_init creates semaphores and a       *)
(* reader thread of its own; those of the last one are neither destroyed   *)
(* nor ended, and each thread goes on with the semaphore whose address it  *)
(* read.  Semaphores are therefore numbered by the init that made them.    *)
(*                                                                         *)
(* A frame and its grant are one step, as SpiTransport promises; a native  *)
(* stands for any that sends one command under `sem'.                      *)
(***************************************************************************)
EXTENDS Naturals, FiniteSets

CONSTANTS Threads,   \* threads of the VM
          MaxInits,  \* bound on calls of cc3000_init
          MaxCalls,  \* bound on calls of other natives
          MaxEvents  \* bound on unsolicited events

None == "none"
ASSUME ThreadsAssumption == None \notin Threads
ASSUME BoundsAssumption == /\ MaxInits \in Nat /\ MaxCalls \in Nat
                           /\ MaxEvents \in Nat

Gens    == 0..MaxInits  \* 0 for what existed before the first init
Readers == 1..MaxInits  \* reader threads, by the init that made them

VARIABLES gil,      \* thread that holds the GIL across steps, or None
          pc,       \* program counter of each thread
          op,       \* native each thread is in
          left,     \* commands it has still to send
          at,       \* semaphore each thread waits on
          sem,      \* the variable sem: which semaphore it names
          tokens,   \* tokens of each semaphore that was in sem
          irqSem,   \* the variable irqReadSem
          rtokens,  \* tokens of each semaphore that was in irqReadSem
          rpc, rat, \* the same as pc and at, for the reader threads
          spiState, \* spiInformation.spiState, without those of a write
          attached, \* cc3000ExtCb is attached to the IRQ pin
          txBuf, rxBuf, \* pucTxCommandBuffer and pRxPacket are set
          dev,      \* the device: off, booting, on
          pending,  \* packets it holds: "answer", "event"
          announced,\* it has lowered IRQ for a packet
          answered, \* the answer has been handed to the waiting call
          inits, calls, events, usable \* counts; the program may use natives

prog   == <<gil, pc, op, left, at, inits, calls, usable>>
sems   == <<sem, tokens, irqSem, rtokens>>
reader == <<rpc, rat>>
driver == <<spiState, attached, txBuf, rxBuf>>
device == <<dev, pending, announced, events>>
vars   == <<prog, sems, reader, driver, device, answered>>

InPacket == {"read", "handle"}
Holding  == {"open", "enable", "boot", "write", "await", "disable", "close",
             "signal"}

Init == /\ gil = None /\ pc = [t \in Threads |-> "idle"]
        /\ op = [t \in Threads |-> "native"] /\ left = [t \in Threads |-> 0]
        /\ at = [t \in Threads |-> 0]
        /\ sem = 0 /\ tokens = [g \in Gens |-> 0]
        /\ irqSem = 0 /\ rtokens = [g \in Gens |-> 0]
        /\ rpc = [r \in Readers |-> "none"] /\ rat = [r \in Readers |-> 0]
        /\ spiState = "POWERUP"
        /\ attached = FALSE /\ txBuf = FALSE /\ rxBuf = FALSE
        /\ dev = "off" /\ pending = {} /\ announced = FALSE
        /\ answered = FALSE /\ usable = FALSE
        /\ inits = 0 /\ calls = 0 /\ events = 0

Faulted == (\E t \in Threads : pc[t] = "fault") \/ \E r \in Readers : rpc[r] = "fault"

Goto(t, from, to) == pc[t] = from /\ pc' = [pc EXCEPT ![t] = to]
ReaderGoto(r, from, to) == rpc[r] = from /\ rpc' = [rpc EXCEPT ![r] = to]

-----------------------------------------------------------------------------
(* The interrupt handler and the device (external).                        *)

\* cc3000ExtCb, if it is attached.
Edge == IF ~attached THEN UNCHANGED <<spiState, rtokens>>
        ELSE /\ spiState' = CASE spiState = "POWERUP" -> "INITIALIZED"
                              [] spiState = "IDLE"    -> "READ_REQUESTED"
                              [] OTHER                -> spiState
             /\ rtokens' = IF spiState = "IDLE"
                           THEN [rtokens EXCEPT ![irqSem] = @ + 1] ELSE rtokens

PowerOff == dev' = "off" /\ pending' = {} /\ announced' = FALSE

DevBoot == /\ dev = "booting" /\ dev' = "on"
           /\ Edge
           /\ UNCHANGED <<prog, sem, tokens, irqSem, reader, attached, txBuf,
                          rxBuf, pending, announced, events, answered>>

DevEvent == /\ dev = "on" /\ spiState \notin {"POWERUP", "INITIALIZED"}
            /\ events < MaxEvents /\ "event" \notin pending
            /\ pending' = pending \cup {"event"} /\ events' = events + 1
            /\ UNCHANGED <<prog, sems, reader, driver, dev, announced, answered>>

\* CS is high while no reader is in a packet.
DevAnnounce == /\ dev = "on" /\ pending # {} /\ ~announced
               /\ \A r \in Readers : rpc[r] \notin InPacket
               /\ announced' = TRUE
               /\ Edge
               /\ UNCHANGED <<prog, sem, tokens, irqSem, reader, attached,
                              txBuf, rxBuf, dev, pending, events, answered>>

-----------------------------------------------------------------------------
(* irqSignalHandlerThread, one for each init.                              *)

\* vosSemWait is given the semaphore that irqReadSem names now.
ReaderLoop(r) == /\ ReaderGoto(r, "loop", "wait")
                 /\ rat' = [rat EXCEPT ![r] = irqSem]
                 /\ UNCHANGED <<prog, sems, driver, device, answered>>

ReaderWait(r) == /\ ReaderGoto(r, "wait", "check")
                 /\ rtokens[rat[r]] > 0
                 /\ rtokens' = [rtokens EXCEPT ![rat[r]] = @ - 1]
                 /\ rat' = [rat EXCEPT ![r] = 0]
                 /\ UNCHANGED <<prog, sem, tokens, irqSem, driver, device,
                                answered>>

ReaderCheck(r) ==
    /\ rpc[r] = "check"
    /\ IF spiState = "READ_REQUESTED"
       THEN ReaderGoto(r, "check", "read") /\ spiState' = "READ_PERMITTED"
       ELSE ReaderGoto(r, "check", "loop") /\ UNCHANGED spiState
    /\ UNCHANGED <<prog, sems, rat, attached, txBuf, rxBuf, device, answered>>

\* Reading and writing at address 0 may fault, and may do nothing.
ReaderFault(r) == /\ rpc[r] \in InPacket /\ ~rxBuf
                  /\ rpc' = [rpc EXCEPT ![r] = "fault"]
                  /\ UNCHANGED <<prog, sems, rat, driver, device, answered>>

\* SpiReadHeader, SpiReadAfterHeader and the handler, for a packet or, from a device that is
\* off, for nothing.
SpiRead(r) ==
    /\ ReaderGoto(r, "read", "handle")
    /\ IF announced /\ dev = "on"
       THEN \E p \in pending : /\ pending' = pending \ {p}
                               /\ announced' = FALSE
                               /\ answered' = (answered \/ p = "answer")
       ELSE UNCHANGED <<pending, announced, answered>>
    /\ UNCHANGED <<prog, sems, rat, driver, dev, events>>

ReaderDone(r) == /\ ReaderGoto(r, "handle", "loop")
                 /\ spiState' = "IDLE"
                 /\ UNCHANGED <<prog, sems, rat, attached, txBuf, rxBuf, device,
                                answered>>

Reader(r) == \/ ReaderLoop(r) \/ ReaderWait(r) \/ ReaderCheck(r)
             \/ SpiRead(r) \/ ReaderDone(r)

-----------------------------------------------------------------------------
(* The semaphore of the natives.                                           *)

\* vosSemWait(sem) and vosSemSignal(sem) read the variable each time.
SemCall(t) == /\ Goto(t, "call", "semWait")
              /\ at' = [at EXCEPT ![t] = sem]
              /\ UNCHANGED <<gil, op, left, inits, calls, usable, sems, reader,
                             driver, device, answered>>

SemWait(t) == /\ Goto(t, "semWait", CASE op[t] = "init"   -> "open"
                                      [] op[t] = "done"   -> "disable"
                                      [] op[t] = "native" -> "write")
              /\ tokens[at[t]] > 0
              /\ tokens' = [tokens EXCEPT ![at[t]] = @ - 1]
              /\ at' = [at EXCEPT ![t] = 0]
              /\ UNCHANGED <<gil, op, left, inits, calls, usable, sem,
                             irqSem, rtokens, reader, driver, device, answered>>

SemSignal(t) == /\ Goto(t, "signal", "return")
                /\ tokens' = [tokens EXCEPT ![sem] = @ + 1]
                /\ UNCHANGED <<gil, op, left, at, inits, calls, usable, sem,
                               irqSem, rtokens, reader, driver, device, answered>>

\* ACQUIRE_GIL, and back to the program.
Return(t) == /\ Goto(t, "return", "idle")
             /\ gil = None
             /\ usable' = (usable \/ op[t] = "init")
             /\ op' = [op EXCEPT ![t] = "native"]
             /\ UNCHANGED <<gil, left, at, inits, calls, sems, reader,
                            driver, device, answered>>

-----------------------------------------------------------------------------
(* Natives that send one command.                                          *)

Enter(t, o, n, to) == /\ gil = None /\ Goto(t, "idle", to)
                      /\ op' = [op EXCEPT ![t] = o]
                      /\ left' = [left EXCEPT ![t] = n]

\* The program uses natives only between an init and a done.
NativeCall(t) == /\ usable /\ calls < MaxCalls /\ calls' = calls + 1
                 /\ Enter(t, "native", 1, "call")
                 /\ UNCHANGED <<gil, at, inits, usable, sems, reader, driver,
                                device, answered>>

\* A frame goes out when the driver is free, and is answered.  The first one
\* leaves the state IDLE.
SpiWrite(t) == /\ Goto(t, "write", "await") /\ txBuf
               /\ spiState \in {"INITIALIZED", "IDLE"} /\ spiState' = "IDLE"
               /\ pending' = pending \cup (IF dev = "on" THEN {"answer"} ELSE {})
               /\ answered' = FALSE
               /\ UNCHANGED <<gil, op, left, at, inits, calls, usable, sems,
                              reader, attached, txBuf, rxBuf, dev, announced,
                              events>>

\* A native that waited for sem while the device was stopped fills a buffer
\* at address 0 and then waits for a device that is off.
NullWrite(t) == /\ ~txBuf
                /\ \/ Goto(t, "write", "fault") \/ Goto(t, "write", "stuck")
                /\ UNCHANGED <<gil, op, left, at, inits, calls, usable, sems,
                               reader, driver, device, answered>>

SimpleLinkWaitEvent(t) ==
    /\ answered /\ answered' = FALSE
    /\ Goto(t, "await", IF left[t] > 1 THEN "write" ELSE "signal")
    /\ left' = [left EXCEPT ![t] = @ - 1]
    /\ UNCHANGED <<gil, op, at, inits, calls, usable, sems, reader, driver,
                   device>>

-----------------------------------------------------------------------------
(* cc3000_init.  The GIL is held until the semaphore has been created.     *)

InitCommands == 3 \* start, read buffer size, connection policy

\* The program calls init when no native is under way.
InitCall(t) ==
    /\ \A u \in Threads \ {t} : pc[u] = "idle"
    /\ inits < MaxInits /\ inits' = inits + 1
    /\ Enter(t, "init", InitCommands, "bus") /\ gil' = t
    /\ usable' = FALSE
    /\ UNCHANGED <<at, calls, sems, reader, driver, device, answered>>

\* The peripheral lock is waited for, then handler and semaphores replaced.
InitSemaphores(t) ==
    /\ Goto(t, "bus", "thread")
    /\ \A r \in Readers : rpc[r] \notin InPacket
    /\ attached' = TRUE /\ irqSem' = inits
    /\ UNCHANGED <<gil, op, left, at, inits, calls, usable, sem, tokens,
                   rtokens, reader, spiState, txBuf, rxBuf, device, answered>>

\* vhalSpiInit fails: nothing has been replaced yet.
InitSpiFails(t) == /\ Goto(t, "bus", "idle") /\ gil' = None
                   /\ \A r \in Readers : rpc[r] \notin InPacket
                   /\ UNCHANGED <<op, left, at, inits, calls, usable, sems,
                                  reader, driver, device, answered>>

\* Mutant: the reader was started before the semaphores were replaced.
InitThread_First(t) ==
    /\ Goto(t, "thread", "reset")
    /\ rpc' = [rpc EXCEPT ![inits] = "wait"]
    /\ rat' = [rat EXCEPT ![inits] = inits - 1]
    /\ UNCHANGED <<gil, op, left, at, inits, calls, usable, sems, driver,
                   device, answered>>

InitThread(t) ==
    /\ Goto(t, "thread", "reset")
    /\ rpc' = [rpc EXCEPT ![inits] = "loop"]
    /\ UNCHANGED <<gil, op, left, at, inits, calls, usable, sems, rat, driver,
                   device, answered>>

InitReset(t) ==
    /\ Goto(t, "reset", "sleep")
    /\ PowerOff
    /\ UNCHANGED <<gil, op, left, at, inits, calls, usable, sems, reader,
                   driver, events, answered>>

\* Mutant: the driver does not sleep after it has reset the device.
InitSleep_Not(t) ==
    /\ Goto(t, "sleep", "result")
    /\ UNCHANGED <<gil, op, left, at, inits, calls, usable, sems, reader,
                   driver, device, answered>>

\* A second goes by: readers finish what they are in and wait.
InitSleep(t) ==
    /\ Goto(t, "sleep", "result")
    /\ \A r \in Readers : \/ rpc[r] = "none"
                          \/ rpc[r] = "wait" /\ rtokens[rat[r]] = 0
    /\ UNCHANGED <<gil, op, left, at, inits, calls, usable, sems, reader,
                   driver, device, answered>>

\* cc3000WlanInit ends without a return: its value is any, and a negative one
\* makes the native raise.
InitRaises(t) == /\ Goto(t, "result", "idle") /\ gil' = None
                 /\ UNCHANGED <<op, left, at, inits, calls, usable, sems,
                                reader, driver, device, answered>>

\* Mutant: the new semaphore is created with two tokens.
InitSem_Two(t) ==
    /\ Goto(t, "result", "call") /\ gil' = None
    /\ sem' = inits /\ tokens' = [tokens EXCEPT ![inits] = 2]
    /\ UNCHANGED <<op, left, at, inits, calls, usable, irqSem, rtokens, reader,
                   driver, device, answered>>

InitSem(t) ==
    /\ Goto(t, "result", "call") /\ gil' = None
    /\ sem' = inits /\ tokens' = [tokens EXCEPT ![inits] = 1]
    /\ UNCHANGED <<op, left, at, inits, calls, usable, irqSem, rtokens, reader,
                   driver, device, answered>>

\* wlan_start up to the enable pin: buffers, state and interrupt are set.
SpiOpen(t) ==
    /\ Goto(t, "open", "enable")
    /\ spiState' = "POWERUP" /\ attached' = TRUE
    /\ txBuf' = TRUE /\ rxBuf' = TRUE
    /\ answered' = FALSE
    /\ UNCHANGED <<gil, op, left, at, inits, calls, usable, sems, reader, device>>

Enable(t) == /\ Goto(t, "enable", "boot")
             /\ dev' = "booting"
             /\ UNCHANGED <<gil, op, left, at, inits, calls, usable, sems,
                            reader, driver, pending, announced, events, answered>>

WaitIrqLow(t) == /\ Goto(t, "boot", "write")
                 /\ dev = "on"
                 /\ UNCHANGED <<gil, op, left, at, inits, calls, usable, sems,
                                reader, driver, device, answered>>

-----------------------------------------------------------------------------
(* cc3000_done.  Other natives may be waiting for sem at this time.        *)

DoneCall(t) == /\ usable /\ usable' = FALSE
               /\ Enter(t, "done", 0, "call")
               /\ UNCHANGED <<gil, at, inits, calls, sems, reader, driver,
                              device, answered>>

\* wlan_stop: the pin, which leaves IRQ high, then pointers and interrupt.
Disable(t) == /\ Goto(t, "disable", "close")
              /\ PowerOff
              /\ UNCHANGED <<gil, op, left, at, inits, calls, usable, sems,
                             reader, driver, events, answered>>

SpiClose(t) == /\ Goto(t, "close", "signal")
               /\ txBuf' = FALSE /\ rxBuf' = FALSE /\ attached' = FALSE
               /\ UNCHANGED <<gil, op, left, at, inits, calls, usable, sems,
                              reader, spiState, device, answered>>

-----------------------------------------------------------------------------
\* What a thread does in a native; raising from init is the other outcome of
\* its end.
Work(t) == \/ SemCall(t) \/ SemWait(t) \/ SemSignal(t) \/ Return(t)
           \/ SpiWrite(t) \/ NullWrite(t) \/ SimpleLinkWaitEvent(t)
           \/ InitSemaphores(t) \/ InitSpiFails(t) \/ InitThread(t)
           \/ InitReset(t) \/ InitSleep(t) \/ InitRaises(t) \/ InitSem(t) \/ SpiOpen(t)
           \/ Enable(t) \/ WaitIrqLow(t) \/ Disable(t) \/ SpiClose(t)

Step == \/ \E t \in Threads : NativeCall(t) \/ InitCall(t) \/ DoneCall(t) \/ Work(t)
        \/ \E r \in Readers : Reader(r) \/ ReaderFault(r)
        \/ DevBoot \/ DevEvent \/ DevAnnounce

Next == ~Faulted /\ Step

Spec == Init /\ [][Next]_vars

\* Threads are scheduled and semaphores are fair; the device boots and
\* announces what it has.
FairSpec == /\ Spec
            /\ \A t \in Threads : /\ WF_vars(~Faulted /\ Work(t))
                                  /\ SF_vars(~Faulted /\ SemWait(t))
            /\ \A r \in Readers : WF_vars(~Faulted /\ Reader(r))
            /\ WF_vars(~Faulted /\ DevBoot) /\ WF_vars(~Faulted /\ DevAnnounce)

-----------------------------------------------------------------------------
(* Properties *)

\* Type invariant of threads, semaphores, driver and device.
TypeOK ==
    /\ gil \in Threads \cup {None} /\ usable \in BOOLEAN
    /\ \A t \in Threads : /\ op[t] \in {"native", "init", "done"}
                          /\ left[t] \in 0..InitCommands /\ at[t] \in Gens
    /\ sem \in Gens /\ irqSem \in Gens
    /\ tokens \in [Gens -> 0..1] /\ rtokens \in [Gens -> 0..1]
    /\ spiState \in {"POWERUP", "INITIALIZED", "IDLE", "READ_REQUESTED",
                     "READ_PERMITTED"}
    /\ pending \subseteq {"answer", "event"} /\ announced \in BOOLEAN
    /\ dev \in {"off", "booting", "on"} /\ answered \in BOOLEAN
    /\ inits \in 0..MaxInits /\ calls \in 0..MaxCalls /\ events \in 0..MaxEvents

\* At most one native at a time uses device and buffers, whatever semaphore
\* it waited on: those of a driver that has been replaced keep out.
OneCommand == Cardinality({t \in Threads : pc[t] \in Holding}) <= 1

\* Threads, semaphores and device are of their types -- no semaphore collects a
\* second token -- and natives exclude each other across restarts.
Inv == TypeOK /\ OneCommand

\* While the device is powered there is a reader for the semaphore that the
\* interrupt handler signals, or one is about to be: readers that wait on the
\* semaphore of an earlier init do not count.
ReaderArmed ==
    dev # "off" =>
        \/ \E r \in Readers : \/ rpc[r] = "wait" /\ rat[r] = irqSem
                              \/ rpc[r] \notin {"none", "wait"}
        \/ \E t \in Threads : pc[t] = "thread"

\* A token that a reader can still take stands for a packet not yet looked at:
\* requests left over from before a restart never meet the driver that is
\* booting.  (A token of a semaphore that all readers have left is dead.)
NoStaleToken ==
    \A g \in Gens :
        /\ rtokens[g] > 0
        /\ g = irqSem \/ \E r \in Readers : rpc[r] = "wait" /\ rat[r] = g
        => spiState = "READ_REQUESTED" /\ dev # "booting"

\* A reader that reads from a device that is on has a buffer, although the
\* buffer is taken away from under it when the device is stopped.
BufferUnderReader ==
    dev = "on" => \A r \in Readers : rpc[r] \in InPacket => rxBuf

\* A restart meets neither requests of the time before nor a reader whose
\* buffer has been taken away.
CleanRestart == NoStaleToken /\ BufferUnderReader

\* init comes back after any number of stops, restarts and failures, and so
\* does every native, unless one was caught by a stop.
CallsReturn ==
    \A t \in Threads :
        pc[t] # "idle" ~> \/ pc[t] = "idle" \/ Faulted
                          \/ \E u \in Threads : pc[u] = "stuck"
==============================================================================
