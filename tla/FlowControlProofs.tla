-------------------------- MODULE FlowControlProofs --------------------------
(***************************************************************************)
(* Proofs about FlowControl, for any number of buffers and sends.          *)
(*                                                                         *)
(* NeverOverrun and PacketAccounting are not inductive by themselves: the  *)
(* decrement writes back a value loaded earlier, so the invariant also     *)
(* says that this value was not 0 and that the reader has only added to    *)
(* the credits since (LoadedInv).                                          *)
(***************************************************************************)
EXTENDS FlowControl, TLAPS

LoadedInv == /\ pc = "load"  => usNumberOfFreeBuffers >= 1
             /\ pc = "store" => reg >= 1 /\ reg <= usNumberOfFreeBuffers

StartInv == pc = "start" => occupied = 0 /\ freed = 0

IInv == TypeOK /\ NeverOverrun /\ PacketAccounting /\ LoadedInv /\ StartInv

\* The initial states satisfy the invariant.
LEMMA IInvInit == Init => IInv
<1> SUFFICES ASSUME Init PROVE IInv
  OBVIOUS
<1>1. TypeOK
  BY DEF Init, TypeOK, PCs
<1>2. NeverOverrun /\ PacketAccounting
  BY BuffersAssumption DEF Init, NeverOverrun, PacketAccounting, Claimed
<1>3. LoadedInv /\ StartInv
  BY DEF Init, LoadedInv, StartInv
<1>4. QED
  BY <1>1, <1>2, <1>3 DEF IInv

\* The steps of the sending thread that take a credit preserve it.
LEMMA ConsumeStep == IInv /\ ConsumeBuff => IInv'
<1> SUFFICES ASSUME IInv, ConsumeBuff PROVE IInv'
  OBVIOUS
<1> USE BuffersAssumption
    DEF IInv, TypeOK, NeverOverrun, PacketAccounting, LoadedInv, StartInv,
        Claimed, PCs, Goto, sharedVars, statusVars
<1>1. CASE TestError
  BY <1>1 DEF TestError
<1>2. CASE TestActive
  BY <1>2 DEF TestActive
<1>3. CASE TestCredits
  BY <1>3 DEF TestCredits
<1>4. CASE LoadCredits
  BY <1>4 DEF LoadCredits
<1>5. CASE StoreCredits
  BY <1>5 DEF StoreCredits
<1>6. QED
  BY <1>1, <1>2, <1>3, <1>4, <1>5 DEF ConsumeBuff

\* Every step preserves the invariant.
LEMMA IInvStep == IInv /\ [Next]_vars => IInv'
<1> SUFFICES ASSUME IInv, [Next]_vars PROVE IInv'
  OBVIOUS
<1>1. CASE ConsumeBuff
  BY <1>1, ConsumeStep
<1> USE BuffersAssumption
    DEF IInv, TypeOK, NeverOverrun, PacketAccounting, LoadedInv, StartInv,
        Claimed, PCs, Goto, sharedVars, statusVars
<1>2. CASE ReadBufferSize
  BY <1>2 DEF ReadBufferSize
<1>3. CASE OpenSocket
  BY <1>3 DEF OpenSocket
<1>4. CASE CloseSocket
  BY <1>4 DEF CloseSocket
<1>5. CASE SendCall
  BY <1>5 DEF SendCall
<1>6. CASE CountSent
  BY <1>6 DEF CountSent
<1>7. CASE DataSend
  BY <1>7 DEF DataSend
<1>8. CASE SendAccepted
  BY <1>8 DEF SendAccepted
<1>9. CASE SendRejected
  BY <1>9 DEF SendRejected
<1>10. CASE DevTransmit
  BY <1>10 DEF DevTransmit
<1>11. CASE FreeBuff
  BY <1>11 DEF FreeBuff
<1>12. CASE Finished \/ UNCHANGED vars
  BY <1>12 DEF Finished, vars
<1>13. QED
  BY <1>1, <1>2, <1>3, <1>4, <1>5, <1>6, <1>7, <1>8, <1>9, <1>10, <1>11,
     <1>12
  DEF Next, Sender

\* The inductive invariant holds in every reachable state.
THEOREM Inductive == Spec => []IInv
  BY IInvInit, IInvStep, PTL DEF Spec

\* Type correctness of the flow control state: in particular the credits,
\* an unsigned number in the driver, are never decremented below 0.
THEOREM TypeCorrect == Spec => []TypeOK
  BY Inductive, PTL DEF IInv

\* HostFlowControlConsumeBuff never lets out a packet for which the device
\* has no buffer, in spite of the unlocked update of the credits.
THEOREM DeviceNeverOverrun == Spec => []NeverOverrun
  BY Inductive, PTL DEF IInv

\* The counters of sent and released packets differ by the packets in the
\* device and the one about to be written.
THEOREM PacketsAccounted == Spec => []PacketAccounting
  BY Inductive, PTL DEF IInv

\* CAN_SHUT_DOWN is reported only when the device has transmitted everything.
THEOREM ShutdownSafe == Spec => ShutdownWhenDrained
<1> DEFINE Drained == ~shutdownOk /\ shutdownOk'
                        => occupied' = 0 /\ freed' = 0 /\ pc' # "dataSend"
<1>1. ASSUME IInv, Next PROVE Drained
  <2>1. CASE FreeBuff
    BY <1>1, <2>1 DEF IInv, TypeOK, PacketAccounting, FreeBuff
  <2>2. CASE ~FreeBuff
    BY <1>1, <2>2
    DEF IInv, TypeOK, Next, Sender, ConsumeBuff, ReadBufferSize, OpenSocket,
        CloseSocket, SendCall, TestError, TestActive, TestCredits,
        LoadCredits, StoreCredits, CountSent, DataSend, SendAccepted,
        SendRejected, DevTransmit, Finished, vars
  <2>3. QED
    BY <2>1, <2>2
<1>2. IInv /\ [Next]_vars => [Drained]_vars
  BY <1>1
<1>3. QED
  BY <1>2, Inductive, PTL DEF Spec, ShutdownWhenDrained
==============================================================================
