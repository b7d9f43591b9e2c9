-------------------------- MODULE SocketLayerProofs --------------------------
(***************************************************************************)
(* Proofs about SocketLayer, for any number of threads, descriptors and    *)
(* table entries and for every choice of natives.                          *)
(*                                                                         *)
(* TypeOK and OneCommand are inductive once it is known which threads have *)
(* a descriptor in their hands (SdInv).  What may happen to the table needs *)
(* who is about to change it, and under which lock (FlowInv).              *)
(***************************************************************************)
EXTENDS SocketLayer, FiniteSetTheorems, WellFoundedInduction, TLAPS

-----------------------------------------------------------------------------
(* The index cc3000_handle_socket finds.                                   *)

LessThan == {p \in Nat \X Nat : p[1] < p[2]}

\* A set of natural numbers that is not empty has a least element.
LEMMA LeastNumber ==
    ASSUME NEW S \in SUBSET Nat, S # {}
    PROVE  \E i \in S : \A j \in S : i <= j
<1>1. IsWellFoundedOn(LessThan, Nat)
  BY NatLessThanWellFounded DEF OpToRel, LessThan
<1>2. PICK i \in S : \A j \in S : <<j, i>> \notin LessThan
  BY <1>1, WFMin
<1>3. \A a, b \in Nat : a < b => <<a, b>> \in LessThan
  BY DEF LessThan
<1>4. \A j \in S : i <= j
  <2>1. SUFFICES ASSUME NEW j \in S, ~(i <= j) PROVE FALSE
    OBVIOUS
  <2>2. i \in Nat /\ j \in Nat /\ j < i
    BY <2>1
  <2>3. QED
    BY <1>2, <1>3, <2>2
<1>5. QED
  BY <1>4

\* FirstSlot is 0 if no entry has the value, else the index of one that has.
LEMMA FirstSlotFound ==
    ASSUME NEW v
    PROVE  \/ FirstSlot(v) = 0 /\ \A i \in Slots : sockets[i] # v
           \/ FirstSlot(v) \in Slots /\ sockets[FirstSlot(v)] = v
<1> DEFINE found == {i \in Slots : sockets[i] = v}
<1>1. CASE found = {}
  BY <1>1 DEF FirstSlot
<1>2. CASE found # {}
  <2>1. found \in SUBSET Nat
    BY TableAssumption DEF Slots
  <2>2. \E i \in found : \A j \in found : i <= j
    BY <1>2, <2>1, LeastNumber
  <2>3. FirstSlot(v) \in found
    BY <1>2, <2>2 DEF FirstSlot
  <2>4. QED
    BY <2>3
<1>3. QED
  BY <1>1, <1>2

-----------------------------------------------------------------------------
(* The inductive invariant.                                                *)

\* A native that works on a socket, or has opened one, knows its descriptor;
\* and it is a receive that closes its socket by itself.
SdInv ==
    \A t \in Threads :
        /\ op[t] \in {"acceptOpt", "accept"} => sd[t] \in Sds
        /\ /\ op[t] = "socket" /\ ~failed[t]
           /\ pc[t] \in {"signal", "gilWait", "find", "store", "return"}
           => sd[t] \in Sds
        /\ pc[t] = "recvClose" => op[t] \in {"recv", "recvfrom"}

IInv == Inv /\ SdInv

\* The initial states satisfy the invariant.
LEMMA IInvInit == Init => IInv
  BY TableAssumption
  DEF Init, IInv, Inv, TypeOK, OneCommand, SdInv, PCs, Stages, AllOps, Slots

\* Entering a native, and waiting for and giving back the locks, preserve it.
LEMMA LockSteps ==
    ASSUME IInv, NEW t \in Threads,
           \/ \E o \in Ops, d \in Sds \cup {None} : Call(t, o, d)
           \/ SemWait(t) \/ SemSignal(t) \/ AcquireGil(t) \/ Return(t)
    PROVE  IInv'
<1> USE SdsAssumption, ModesAssumption
    DEF IInv, Inv, TypeOK, OneCommand, SdInv, PCs, Stages, AllOps, Goto, locks,
        locals, devVars
<1>1. ASSUME NEW o \in Ops, NEW d \in Sds \cup {None}, Call(t, o, d)
      PROVE  IInv'
  BY <1>1 DEF Call, NeedsSocket, FirstStage
<1>2. CASE SemWait(t)
  BY <1>2 DEF SemWait
<1>3. CASE SemSignal(t)
  BY <1>3 DEF SemSignal, AfterSignal, NextStage
<1>4. CASE AcquireGil(t)
  BY <1>4 DEF AcquireGil
<1>5. CASE Return(t)
  BY <1>5 DEF Return
<1>6. QED
  BY <1>1, <1>2, <1>3, <1>4, <1>5

\* So do the commands.
LEMMA CommandSteps ==
    ASSUME IInv, NEW t \in Threads,
           \/ SocketCommand(t) \/ CloseCommand(t) \/ OptionCommand(t)
           \/ AcceptConnection(t) \/ AcceptPending(t)
           \/ SelectCommand(t, TRUE) \/ SelectCommand(t, FALSE)
           \/ RecvCommand(t) \/ RecvClose(t) \/ OtherCommand(t)
    PROVE  IInv'
<1> USE SdsAssumption
    DEF IInv, Inv, TypeOK, OneCommand, SdInv, PCs, Stages, AllOps, Goto, locks,
        locals, devVars, InCommand
<1>1. CASE SocketCommand(t)
  <2>1. TypeOK'
    <3>1. CASE UNCHANGED <<sd, open, active>>
      BY <1>1, <3>1 DEF SocketCommand
    <3>2. CASE \E d \in Sds : /\ sd' = [sd EXCEPT ![t] = d]
                              /\ open' = open \cup {d}
                              /\ active' = active \cup {d}
                              /\ UNCHANGED failed
      BY <1>1, <3>2 DEF SocketCommand
    <3>3. QED
      BY <1>1, <3>1, <3>2 DEF SocketCommand
  <2>2. OneCommand'
    BY <1>1 DEF SocketCommand
  <2>3. SdInv'
    BY <1>1 DEF SocketCommand
  <2>4. (active \subseteq open)'
    BY <1>1 DEF SocketCommand
  <2>5. QED
    BY <2>1, <2>2, <2>3, <2>4
<1>2. CASE CloseCommand(t)
  BY <1>2 DEF CloseCommand, Closesocket
<1>3. CASE OptionCommand(t)
  BY <1>3 DEF OptionCommand
<1>4. CASE AcceptConnection(t)
  BY <1>4 DEF AcceptConnection
<1>5. CASE AcceptPending(t)
  BY <1>5 DEF AcceptPending
<1>6. CASE SelectCommand(t, TRUE)
  BY <1>6 DEF SelectCommand
<1>7. CASE SelectCommand(t, FALSE)
  BY <1>7 DEF SelectCommand
<1>8. CASE RecvCommand(t)
  BY <1>8 DEF RecvCommand, MarkedByRecv
<1>9. CASE RecvClose(t)
  <2>1. TypeOK'
    BY <1>9 DEF RecvClose, Closesocket
  <2>2. OneCommand'
    BY <1>9 DEF RecvClose
  <2>3. SdInv'
    BY <1>9 DEF RecvClose
  <2>4. (active \subseteq open)'
    BY <1>9 DEF RecvClose, Closesocket
  <2>5. QED
    BY <2>1, <2>2, <2>3, <2>4
<1>10. CASE OtherCommand(t)
  BY <1>10 DEF OtherCommand
<1>11. QED
  BY <1>1, <1>2, <1>3, <1>4, <1>5, <1>6, <1>7, <1>8, <1>9, <1>10

\* So do the steps on the table, of the natives and of the reader thread.
LEMMA TableSteps ==
    ASSUME IInv,
           \/ \E t \in Threads : FindSlot(t) \/ StoreSlot(t) \/ CheckValid(t)
           \/ \E d \in Sds : DevFin(d) \/ DevSendFailed(d) \/ AsyncCloseWait(d)
    PROVE  IInv'
<1> USE SdsAssumption, TableAssumption
    DEF IInv, Inv, TypeOK, OneCommand, SdInv, PCs, Stages, AllOps, Goto, locks,
        locals, devVars, Slots
<1>1. ASSUME NEW t \in Threads, FindSlot(t) PROVE IInv'
  <2>1. FirstSlot(Old(t)) \in 0..MAX_SOCKETS
    BY FirstSlotFound
  <2>2. QED
    BY <1>1, <2>1 DEF FindSlot, AfterTable
<1>2. ASSUME NEW t \in Threads, StoreSlot(t) PROVE IInv'
  <2>1. New(t) \in Sds \cup {None}
    BY DEF New
  <2>2. sockets' \in [Slots -> Sds \cup {None}]
    BY <1>2, <2>1 DEF StoreSlot
  <2>3. TypeOK'
    BY <1>2, <2>2 DEF StoreSlot, AfterTable
  <2>4. OneCommand'
    BY <1>2 DEF StoreSlot, AfterTable
  <2>5. SdInv'
    BY <1>2 DEF StoreSlot, AfterTable
  <2>6. (active \subseteq open)'
    BY <1>2 DEF StoreSlot
  <2>7. QED
    BY <2>3, <2>4, <2>5, <2>6
<1>3. ASSUME NEW t \in Threads, CheckValid(t) PROVE IInv'
  BY <1>3 DEF CheckValid
<1>4. ASSUME NEW d \in Sds, DevFin(d) PROVE IInv'
  BY <1>4 DEF DevFin
<1>5. ASSUME NEW d \in Sds, AsyncCloseWait(d) PROVE IInv'
  BY <1>5 DEF AsyncCloseWait
<1>6. ASSUME NEW d \in Sds, DevSendFailed(d) PROVE IInv'
  BY <1>6 DEF DevSendFailed
<1>7. QED
  BY <1>1, <1>2, <1>3, <1>4, <1>5, <1>6

\* Every step preserves the invariant.
LEMMA IInvStep == IInv /\ [Next]_vars => IInv'
<1> SUFFICES ASSUME IInv, [Next]_vars PROVE IInv'
  OBVIOUS
<1>1. CASE Next
  BY <1>1, LockSteps, CommandSteps, TableSteps DEF Next, Work
<1>2. CASE UNCHANGED vars
  BY <1>2 DEF vars, locks, locals, devVars, IInv, Inv, TypeOK, OneCommand, SdInv
<1>3. QED
  BY <1>1, <1>2

\* The inductive invariant holds in every reachable state.
THEOREM Inductive == Spec => []IInv
  BY IInvInit, IInvStep, PTL DEF Spec

\* The natives and the table are of their types, and sem excludes: one thread
\* at a time is inside the HCI layer, also where a failed receive closes its
\* socket and updates the table before it signals (cc3000_ifc.c:80-110).
THEOREM NativesExclude == Spec => []Inv
  BY Inductive, PTL DEF IInv

-----------------------------------------------------------------------------
(* The table, whatever the programs do.                                    *)

Receiving == {"recv", "recvfrom"}
Changing  == {"find", "store"}
\* Those that change the table for socket() and close() have the GIL, and all
\* that return from a native or call setsockopt.
HasGil(t) == \/ pc[t] \in Changing /\ op[t] \notin Receiving
             \/ pc[t] = "return"
             \/ op[t] = "setsockopt" /\ pc[t] # "idle"

\* Who is about to change the table, and with what.
FlowInv ==
    \A t \in Threads :
        /\ op[t] = "socket" /\ pc[t] \in {"semWait", "command"} => ~failed[t]
        /\ op[t] \in {"close"} \cup Receiving => ~failed[t]
        /\ pc[t] \in Changing => /\ op[t] \in {"socket", "close"} \cup Receiving
                                 /\ ~failed[t] /\ sd[t] \in Sds
        /\ pc[t] = "store" => slot[t] \in Slots
        /\ op[t] \in {"close", "available"} \cup Receiving => sd[t] \in Sds
        /\ pc[t] = "check" => op[t] = "available"
        /\ HasGil(t) => gil = t

\* The initial states satisfy it.
LEMMA FlowInit == Init => FlowInv
  BY SdsAssumption DEF Init, FlowInv, HasGil, Changing, Receiving

\* Steps of a thread that change the table.
Alters(t) == FindSlot(t) \/ StoreSlot(t)

\* Its steps on its way to the table and back.
Moves(t) == \/ \E o \in Ops, d \in Sds \cup {None} : Call(t, o, d)
            \/ SemWait(t) \/ SemSignal(t) \/ AcquireGil(t) \/ Return(t)
            \/ CheckValid(t)

\* The commands.
Commands(t) == \/ SocketCommand(t) \/ CloseCommand(t) \/ OptionCommand(t)
               \/ AcceptConnection(t) \/ AcceptPending(t)
               \/ SelectCommand(t, TRUE) \/ SelectCommand(t, FALSE)
               \/ RecvCommand(t) \/ RecvClose(t) \/ OtherCommand(t)

\* What the device and the reader do by themselves.
Events == \E d \in Sds : DevFin(d) \/ DevSendFailed(d) \/ AsyncCloseWait(d)

\* Every step is one of these.
LEMMA Kinds ==
    ASSUME Next
    PROVE  Events \/ \E t \in Threads : Alters(t) \/ Moves(t) \/ Commands(t)
  BY DEF Next, Work, Alters, Moves, Commands, Events

\* Each kind of step preserves FlowInv.
LEMMA FlowStep == IInv /\ FlowInv /\ [Next]_vars => FlowInv'
<1> SUFFICES ASSUME IInv, FlowInv, [Next]_vars PROVE FlowInv'
  OBVIOUS
<1> USE SdsAssumption
    DEF IInv, Inv, TypeOK, SdInv, FlowInv, HasGil, Changing, Receiving, Goto, locks,
        locals, devVars
<1>1. CASE UNCHANGED vars
  BY <1>1 DEF vars
<1>2. ASSUME NEW t \in Threads, Alters(t) PROVE FlowInv'
  <2>1. CASE FindSlot(t)
    <3>1. FirstSlot(Old(t)) # 0 => FirstSlot(Old(t)) \in Slots
      BY FirstSlotFound
    <3>2. QED
      BY <2>1, <3>1 DEF FindSlot, AfterTable
  <2>2. CASE StoreSlot(t)
    BY <2>2 DEF StoreSlot, AfterTable
  <2>3. QED
    BY <1>2, <2>1, <2>2 DEF Alters
<1>3. ASSUME NEW t \in Threads, Moves(t) PROVE FlowInv'
  <2>1. ASSUME NEW o \in Ops, NEW d \in Sds \cup {None}, Call(t, o, d)
        PROVE  FlowInv'
    <3>1. o \in AllOps
      BY ModesAssumption
    <3>2. QED
      BY <2>1, <3>1 DEF Call, NeedsSocket, FirstStage, AllOps
  <2>2. CASE SemWait(t)
    BY <2>2 DEF SemWait
  <2>3. CASE SemSignal(t)
    BY <2>3 DEF SemSignal, AfterSignal, NextStage
  <2>4. CASE AcquireGil(t)
    BY <2>4 DEF AcquireGil
  <2>5. CASE Return(t)
    BY <2>5 DEF Return
  <2>6. CASE CheckValid(t)
    BY <2>6 DEF CheckValid
  <2>7. QED
    BY <1>3, <2>1, <2>2, <2>3, <2>4, <2>5, <2>6 DEF Moves
<1>4. ASSUME NEW t \in Threads, Commands(t) PROVE FlowInv'
  <2>1. CASE SocketCommand(t)
    BY <2>1 DEF SocketCommand, InCommand
  <2>2. CASE CloseCommand(t) \/ OptionCommand(t) \/ OtherCommand(t)
    BY <2>2 DEF CloseCommand, OptionCommand, OtherCommand, InCommand
  <2>3. CASE AcceptConnection(t) \/ AcceptPending(t)
    BY <2>3 DEF AcceptConnection, AcceptPending, InCommand
  <2>4. CASE SelectCommand(t, TRUE) \/ SelectCommand(t, FALSE)
    BY <2>4 DEF SelectCommand, InCommand
  <2>5. CASE RecvCommand(t)
    BY <2>5 DEF RecvCommand
  <2>6. CASE RecvClose(t)
    BY <2>6 DEF RecvClose
  <2>7. QED
    BY <1>4, <2>1, <2>2, <2>3, <2>4, <2>5, <2>6 DEF Commands
<1>5. CASE Events
  BY <1>5 DEF Events, DevFin, DevSendFailed, AsyncCloseWait
<1>6. QED
  BY <1>1, <1>2, <1>3, <1>4, <1>5, Kinds

\* FlowInv holds of every program, too.
LEMMA Flow == Spec => [](IInv /\ FlowInv)
<1>1. Init => IInv /\ FlowInv
  BY IInvInit, FlowInit
<1>2. (IInv /\ FlowInv) /\ [Next]_vars => (IInv /\ FlowInv)'
  BY IInvStep, FlowStep
<1>3. QED
  BY <1>1, <1>2, PTL DEF Spec

-----------------------------------------------------------------------------
(* What the table counts, step by step.                                    *)

\* What ExactFor counts is finite.
LEMMA CountsFinite ==
    ASSUME NEW d, IsFiniteSet(Threads)
    PROVE  /\ IsFiniteSet(Entries(d)) /\ Cardinality(Entries(d)) \in Nat
           /\ IsFiniteSet(Inserting(d)) /\ Cardinality(Inserting(d)) \in Nat
           /\ IsFiniteSet(Removing(d)) /\ Cardinality(Removing(d)) \in Nat
<1>1. IsFiniteSet(Slots)
  BY TableAssumption, FS_Interval DEF Slots
<1>2. /\ Entries(d) \in SUBSET Slots /\ Inserting(d) \in SUBSET Threads
      /\ Removing(d) \in SUBSET Threads
  BY DEF Entries, Inserting, Removing
<1>3. QED
  BY <1>1, <1>2, FS_Subset, FS_CardinalityType

\* What it counts for a descriptor stays the same.
Same(d) == /\ Entries(d)' = Entries(d) /\ (d \in open' <=> d \in open)
           /\ Inserting(d)' = Inserting(d) /\ Removing(d)' = Removing(d)

\* Then so does what it says.
LEMMA SameExact ==
    ASSUME NEW d, Same(d), ExactFor(d)
    PROVE  ExactFor(d)'
  BY DEF Same, ExactFor

\* The steps to the table and back leave what is counted alone.
LEMMA MovesSame ==
    ASSUME IInv, FlowInv, NEW d \in Sds, NEW t \in Threads, Moves(t)
    PROVE  Same(d)
<1> USE DEF Same, Entries, Inserting, Removing, IInv, Inv, TypeOK, Goto, locks,
            locals, devVars
<1>1. ASSUME NEW o \in Ops, NEW e \in Sds \cup {None}, Call(t, o, e)
      PROVE  Same(d)
  BY <1>1 DEF Call
<1>2. CASE SemWait(t) \/ Return(t)
  BY <1>2 DEF SemWait, Return
<1>3. CASE SemSignal(t)
  BY <1>3 DEF SemSignal, AfterSignal, NextStage, FlowInv
<1>4. CASE AcquireGil(t)
  BY <1>4 DEF AcquireGil, FlowInv, Receiving
<1>5. CASE CheckValid(t)
  BY <1>5 DEF CheckValid
<1>6. QED
  BY <1>1, <1>2, <1>3, <1>4, <1>5 DEF Moves

\* So do the commands that neither open nor close a socket.
LEMMA CommandsSame ==
    ASSUME IInv, FlowInv, NEW d \in Sds, NEW t \in Threads,
           \/ SocketCommand(t) /\ UNCHANGED <<sd, open>>
                               /\ failed' = [failed EXCEPT ![t] = TRUE]
           \/ OptionCommand(t) \/ OtherCommand(t) \/ AcceptPending(t)
           \/ SelectCommand(t, TRUE) \/ SelectCommand(t, FALSE)
           \/ RecvCommand(t)
    PROVE  Same(d)
<1> USE DEF Same, Entries, Inserting, Removing, IInv, Inv, TypeOK, Goto, locks,
            locals, devVars, InCommand
<1>1. CASE SocketCommand(t) /\ UNCHANGED <<sd, open>>
                            /\ failed' = [failed EXCEPT ![t] = TRUE]
  BY <1>1 DEF SocketCommand
<1>2. CASE OptionCommand(t) \/ OtherCommand(t) \/ AcceptPending(t)
  BY <1>2 DEF OptionCommand, OtherCommand, AcceptPending
<1>3. CASE SelectCommand(t, TRUE) \/ SelectCommand(t, FALSE)
  BY <1>3 DEF SelectCommand
<1>4. CASE RecvCommand(t)
  BY <1>4 DEF RecvCommand
<1>5. QED
  BY <1>1, <1>2, <1>3, <1>4

\* socket() opens a descriptor that is then about to be inserted.
LEMMA SocketExact ==
    ASSUME IsFiniteSet(Threads), IInv, FlowInv,
           NEW d \in Sds, ExactFor(d), NEW t \in Threads, SocketCommand(t),
           NEW e \in Sds \ open, sd' = [sd EXCEPT ![t] = e],
           open' = open \cup {e}, UNCHANGED failed
    PROVE  ExactFor(d)'
<1>1. /\ op[t] = "socket" /\ pc[t] = "command" /\ ~failed[t]
      /\ pc' = [pc EXCEPT ![t] = "signal"] /\ UNCHANGED <<op, sockets>>
  BY DEF SocketCommand, InCommand, Goto, locks, FlowInv
<1>2. pc \in [Threads -> PCs] /\ sd \in [Threads -> Sds \cup {None}]
  BY DEF IInv, Inv, TypeOK
<1>3. Entries(d)' = Entries(d) /\ Removing(d)' = Removing(d)
  BY <1>1, <1>2 DEF Entries, Removing
<1>4. CASE d # e
  BY <1>1, <1>2, <1>3, <1>4, SameExact DEF Same, Inserting
<1>5. CASE d = e
  <2>1. Inserting(d)' = Inserting(d) \cup {t} /\ t \notin Inserting(d)
    BY <1>1, <1>2, <1>5 DEF Inserting
  <2>2. Cardinality(Inserting(d)') = Cardinality(Inserting(d)) + 1
    BY <2>1, CountsFinite, FS_AddElement
  <2>3. d \in open' /\ d \notin open
    BY <1>5
  <2>4. QED
    BY <1>3, <2>2, <2>3, CountsFinite DEF ExactFor
<1>6. QED
  BY <1>4, <1>5

\* accept() opens a descriptor that nobody inserts: a loss, of it only.
LEMMA AcceptExact ==
    ASSUME IInv, FlowInv, NEW d \in Sds, ExactFor(d), NEW t \in Threads,
           AcceptConnection(t), sd'[t] # d
    PROVE  ExactFor(d)'
<1>1. Same(d)
  BY DEF Same, Entries, Inserting, Removing, AcceptConnection, InCommand, Goto,
         locks, IInv, Inv, TypeOK
<1>2. QED
  BY <1>1, SameExact

\* close() gives its descriptor back, and so does a receive that failed; both
\* are then about to remove the entry.  To do it twice is a loss.
LEMMA CloseExact ==
    ASSUME IsFiniteSet(Threads), IInv, FlowInv,
           NEW d \in Sds, ExactFor(d), NEW t \in Threads,
           CloseCommand(t) \/ RecvClose(t), d # sd[t] \/ d \in open
    PROVE  ExactFor(d)'
<1> USE DEF IInv, Inv, TypeOK, Goto, locks, locals, devVars, InCommand,
            CloseCommand, Closesocket, RecvClose, SdInv
<1>1. Entries(d)' = Entries(d) /\ Inserting(d)' = Inserting(d)
  BY DEF Entries, Inserting
<1>2. CASE d # sd[t]
  <2>1. Removing(d)' = Removing(d)
    BY <1>2 DEF Removing
  <2>2. d \in open' <=> d \in open
    BY <1>2
  <2>3. QED
    BY <1>1, <2>1, <2>2 DEF ExactFor
<1>3. CASE d = sd[t] /\ d \in open
  <2>1. Removing(d)' = Removing(d) \cup {t} /\ t \notin Removing(d)
    BY <1>3 DEF Removing
  <2>2. Cardinality(Removing(d)') = Cardinality(Removing(d)) + 1
    BY <2>1, CountsFinite, FS_AddElement
  <2>3. d \in open /\ d \notin open'
    BY <1>3
  <2>4. QED
    BY <1>1, <2>2, <2>3, CountsFinite DEF ExactFor
<1>4. QED
  BY <1>2, <1>3

\* To look for an entry changes nothing, unless none is found.
LEMMA FindExact ==
    ASSUME IInv, FlowInv, NEW d \in Sds, ExactFor(d), NEW t \in Threads,
           FindSlot(t), slot'[t] # 0 \/ sd[t] # d
    PROVE  ExactFor(d)'
<1>1. Same(d)
  BY DEF Same, Entries, Inserting, Removing, FindSlot, Goto, locks, locals,
         devVars, IInv, Inv, TypeOK
<1>2. QED
  BY <1>1, SameExact

\* Storing a new descriptor or -1 settles what the thread was about to do, if
\* the entry still is the one that was found; else it is a loss, of the
\* descriptor the thread is about and of the one in the entry.
LEMMA StoreExact ==
    ASSUME IsFiniteSet(Threads), IInv, FlowInv,
           NEW d \in Sds, ExactFor(d), NEW t \in Threads, StoreSlot(t),
           ~Stale(t) \/ d \notin {sd[t], sockets[slot[t]]}
    PROVE  ExactFor(d)'
<1>1. /\ op[t] \in {"socket", "close"} \cup Receiving /\ ~failed[t]
      /\ pc[t] = "store" /\ slot[t] \in Slots
      /\ sockets' = [sockets EXCEPT ![slot[t]] = New(t)]
      /\ pc' = [pc EXCEPT ![t] = AfterTable(t)]
      /\ UNCHANGED <<op, sd, failed, open>>
  BY DEF FlowInv, Changing, StoreSlot, Goto, locals, devVars
<1>2. AfterTable(t) = IF op[t] \in Receiving THEN "signal" ELSE "return"
  BY DEF AfterTable, Receiving
<1>3. /\ sockets \in [Slots -> Sds \cup {None}] /\ None \notin Sds
      /\ pc \in [Threads -> PCs]
  BY SdsAssumption DEF IInv, Inv, TypeOK
<1>4. CASE d # sd[t]
  <2>1. sockets[slot[t]] # d
    BY <1>1, <1>3, <1>4 DEF Stale, Old
  <2>2. Entries(d)' = Entries(d)
    BY <1>1, <1>3, <1>4, <2>1 DEF Entries, New
  <2>3. Inserting(d)' = Inserting(d) /\ Removing(d)' = Removing(d)
    BY <1>1, <1>2, <1>3, <1>4 DEF Inserting, Removing, Receiving
  <2>4. QED
    BY <1>1, <2>2, <2>3, SameExact DEF Same
<1>5. CASE d = sd[t] /\ op[t] = "socket"
  <2>1. sockets[slot[t]] = None
    BY <1>1, <1>5 DEF Stale, Old
  <2>2. Entries(d)' = Entries(d) \cup {slot[t]} /\ slot[t] \notin Entries(d)
    BY <1>1, <1>3, <1>5, <2>1 DEF Entries, New
  <2>3. Inserting(d)' = Inserting(d) \ {t} /\ t \in Inserting(d)
    BY <1>1, <1>2, <1>3, <1>5 DEF Inserting, Receiving
  <2>4. Removing(d)' = Removing(d)
    BY <1>1, <1>2, <1>3, <1>5 DEF Removing, Receiving
  <2>5. IsFiniteSet(Entries(d)) /\ IsFiniteSet(Inserting(d))
    BY CountsFinite
  <2>6. Cardinality(Entries(d)') = Cardinality(Entries(d)) + 1
    BY <2>2, <2>5, FS_AddElement
  <2>7. Cardinality(Inserting(d)') = Cardinality(Inserting(d)) - 1
    BY <2>3, <2>5, FS_RemoveElement
  <2>8. QED
    BY <1>1, <2>4, <2>6, <2>7, CountsFinite DEF ExactFor
<1>6. CASE d = sd[t] /\ op[t] # "socket"
  <2>1. sockets[slot[t]] = d
    BY <1>1, <1>6 DEF Stale, Old
  <2>2. Entries(d)' = Entries(d) \ {slot[t]} /\ slot[t] \in Entries(d)
    BY <1>1, <1>3, <1>6, <2>1 DEF Entries, New
  <2>3. Removing(d)' = Removing(d) \ {t} /\ t \in Removing(d)
    BY <1>1, <1>2, <1>3, <1>6 DEF Removing, Receiving
  <2>4. Inserting(d)' = Inserting(d)
    BY <1>1, <1>2, <1>3, <1>6 DEF Inserting, Receiving
  <2>5. IsFiniteSet(Entries(d)) /\ IsFiniteSet(Removing(d))
    BY CountsFinite
  <2>6. Cardinality(Entries(d)') = Cardinality(Entries(d)) - 1
    BY <2>2, <2>5, FS_RemoveElement
  <2>7. Cardinality(Removing(d)') = Cardinality(Removing(d)) - 1
    BY <2>3, <2>5, FS_RemoveElement
  <2>8. QED
    BY <1>1, <2>4, <2>6, <2>7, CountsFinite DEF ExactFor
<1>7. QED
  BY <1>1, <1>4, <1>5, <1>6

\* What the device and the reader do loses only the entry of TCP_CLOSE_WAIT.
LEMMA EventsExact ==
    ASSUME IInv, NEW d \in Sds, ExactFor(d), Events, ~AsyncCloseWait(d)
    PROVE  ExactFor(d)'
<1> USE DEF Same, Entries, Inserting, Removing, locks, locals, devVars, IInv,
            Inv, TypeOK
<1>1. ASSUME NEW e \in Sds, DevFin(e) \/ DevSendFailed(e)
      PROVE  Same(d)
  BY <1>1 DEF DevFin, DevSendFailed
<1>2. ASSUME NEW e \in Sds, AsyncCloseWait(e)
      PROVE  Same(d)
  <2>1. d # e
    BY <1>2
  <2>2. CASE FirstSlot(e) = 0
    BY <1>2, <2>2 DEF AsyncCloseWait
  <2>3. CASE FirstSlot(e) \in Slots /\ sockets[FirstSlot(e)] = e
    BY <1>2, <2>1, <2>3, SdsAssumption DEF AsyncCloseWait
  <2>4. QED
    BY <2>2, <2>3, FirstSlotFound
<1>3. QED
  BY <1>1, <1>2, SameExact DEF Events

-----------------------------------------------------------------------------
(* The ways to lose an entry.                                              *)

\* A descriptor the table is right about is lost in one of the known ways.
LEMMA LossStep ==
    ASSUME IsFiniteSet(Threads), IInv, FlowInv, [Next]_vars,
           NEW d \in Sds, ExactFor(d), ~Loss(d)
    PROVE  ExactFor(d)'
<1>1. CASE UNCHANGED vars
  BY <1>1, SameExact DEF Same, Entries, Inserting, Removing, vars, locals, devVars
<1>2. CASE Events
  BY <1>2, EventsExact DEF Loss
<1>3. ASSUME NEW t \in Threads, Moves(t) PROVE ExactFor(d)'
  BY <1>3, MovesSame, SameExact
<1>4. ASSUME NEW t \in Threads, Alters(t) PROVE ExactFor(d)'
  <2>1. CASE FindSlot(t)
    BY <2>1, FindExact DEF Loss
  <2>2. CASE StoreSlot(t)
    BY <2>2, StoreExact DEF Loss
  <2>3. QED
    BY <1>4, <2>1, <2>2 DEF Alters
<1>5. ASSUME NEW t \in Threads, Commands(t) PROVE ExactFor(d)'
  <2>1. CASE SocketCommand(t)
    <3>1. CASE UNCHANGED <<sd, open>> /\ failed' = [failed EXCEPT ![t] = TRUE]
      BY <2>1, <3>1, CommandsSame, SameExact
    <3>2. ASSUME NEW e \in Sds \ open, sd' = [sd EXCEPT ![t] = e],
                 open' = open \cup {e}, UNCHANGED failed
          PROVE  ExactFor(d)'
      BY <2>1, <3>2, SocketExact
    <3>3. QED
      BY <2>1, <3>1, <3>2 DEF SocketCommand
  <2>2. CASE CloseCommand(t) \/ RecvClose(t)
    BY <2>2, CloseExact DEF Loss
  <2>3. CASE AcceptConnection(t)
    BY <2>3, AcceptExact DEF Loss
  <2>4. CASE \/ OptionCommand(t) \/ OtherCommand(t) \/ AcceptPending(t)
             \/ SelectCommand(t, TRUE) \/ SelectCommand(t, FALSE)
             \/ RecvCommand(t)
    BY <2>4, CommandsSame, SameExact
  <2>5. QED
    BY <1>5, <2>1, <2>2, <2>3, <2>4 DEF Commands
<1>6. QED
  BY <1>1, <1>2, <1>3, <1>4, <1>5, Kinds

\* A thread at its store is there until it stores, with the entry it found.
LEMMA StaysAtStore ==
    ASSUME IInv, FlowInv, [Next]_vars, NEW t \in Threads,
           pc[t] = "store", pc'[t] = "store"
    PROVE  /\ slot'[t] = slot[t] /\ Old(t)' = Old(t)
           /\ \/ sockets' = sockets
              \/ \E d \in Sds : AsyncCloseWait(d)
              \/ \E u \in Threads \ {t} : StoreSlot(u) /\ pc[u] = "store"
<1> USE DEF Old, IInv, Inv, TypeOK, Goto, locks, locals, devVars
<1>1. CASE UNCHANGED vars
  BY <1>1 DEF vars
<1>2. CASE Events
  BY <1>2 DEF Events, DevFin, DevSendFailed, AsyncCloseWait
<1>3. ASSUME NEW u \in Threads, FindSlot(u) \/ StoreSlot(u)
      PROVE  /\ slot'[t] = slot[t] /\ Old(t)' = Old(t)
             /\ \/ sockets' = sockets
                \/ u # t /\ StoreSlot(u) /\ pc[u] = "store"
  BY <1>3 DEF FindSlot, StoreSlot, AfterTable
<1>4. ASSUME NEW u \in Threads, Moves(u)
      PROVE  slot'[t] = slot[t] /\ Old(t)' = Old(t) /\ sockets' = sockets
  <2>1. ASSUME NEW o \in Ops, NEW d \in Sds \cup {None}, Call(u, o, d)
        PROVE  slot'[t] = slot[t] /\ Old(t)' = Old(t) /\ sockets' = sockets
    BY <2>1 DEF Call
  <2>2. CASE SemWait(u) \/ AcquireGil(u) \/ Return(u) \/ CheckValid(u)
    BY <2>2 DEF SemWait, AcquireGil, Return, CheckValid
  <2>3. CASE SemSignal(u)
    BY <2>3 DEF SemSignal, AfterSignal
  <2>4. QED
    BY <1>4, <2>1, <2>2, <2>3 DEF Moves
<1>5. ASSUME NEW u \in Threads, Commands(u)
      PROVE  slot'[t] = slot[t] /\ Old(t)' = Old(t) /\ sockets' = sockets
  <2>1. CASE \/ SocketCommand(u) \/ CloseCommand(u) \/ OptionCommand(u)
             \/ AcceptConnection(u) \/ AcceptPending(u)
    BY <2>1 DEF SocketCommand, CloseCommand, OptionCommand, AcceptConnection,
                AcceptPending, InCommand
  <2>2. CASE \/ SelectCommand(u, TRUE) \/ SelectCommand(u, FALSE)
             \/ RecvCommand(u) \/ RecvClose(u) \/ OtherCommand(u)
    BY <2>2 DEF SelectCommand, RecvCommand, RecvClose, OtherCommand, InCommand
  <2>3. QED
    BY <1>5, <2>1, <2>2 DEF Commands
<1>6. QED
  BY <1>1, <1>2, <1>3, <1>4, <1>5, Kinds DEF Alters

\* What a thread has found is overtaken only by the reader, or by one that
\* works under the other lock.
LEMMA StaleStep ==
    ASSUME IInv, FlowInv, [Next]_vars, NEW t \in Threads,
           pc[t] = "store", ~Stale(t), Stale(t)'
    PROVE  Overtakes(t)
<1>1. pc'[t] = "store" /\ sockets'[slot'[t]] # Old(t)' /\ sockets[slot[t]] = Old(t)
  BY DEF Stale
<1>2. \/ \E d \in Sds : AsyncCloseWait(d)
      \/ \E u \in Threads \ {t} : StoreSlot(u) /\ pc[u] = "store"
  BY <1>1, StaysAtStore
<1>3. ASSUME NEW u \in Threads \ {t}, pc[u] = "store", Receives(u) <=> Receives(t)
      PROVE  FALSE
  <2>1. CASE Receives(t)
    BY <1>3, <2>1 DEF IInv, Inv, OneCommand, Receives
  <2>2. CASE ~Receives(t)
    BY <1>3, <2>2 DEF FlowInv, HasGil, Changing, Receiving, Receives
  <2>3. QED
    BY <2>1, <2>2
<1>4. QED
  BY <1>2, <1>3 DEF Overtakes, Receives

\* Whatever the programs do, the table of sockets loses an entry, or the count
\* of one, only to accept(), a second close, a full table, TCP_CLOSE_WAIT or a
\* store that a change under the other lock overtook (cc3000_ifc.c:24-110).
THEOREM LossesKnown ==
    ASSUME IsFiniteSet(Threads)
    PROVE  Spec => TableLosses
<1>1. IInv /\ FlowInv /\ [Next]_vars
      => /\ \A d \in Sds : ExactFor(d) /\ ~ExactFor(d)' => Loss(d)
         /\ \A t \in Threads : pc[t] = "store" /\ ~Stale(t) /\ Stale(t)'
                                => Overtakes(t)
  <2>1. SUFFICES ASSUME IInv, FlowInv, [Next]_vars
                 PROVE  /\ \A d \in Sds : ExactFor(d) /\ ~ExactFor(d)' => Loss(d)
                        /\ \A t \in Threads :
                             pc[t] = "store" /\ ~Stale(t) /\ Stale(t)'
                             => Overtakes(t)
    OBVIOUS
  <2>2. ASSUME NEW d \in Sds, ExactFor(d), ~Loss(d) PROVE ExactFor(d)'
    BY <2>1, <2>2, LossStep
  <2>3. ASSUME NEW t \in Threads, pc[t] = "store", ~Stale(t), Stale(t)'
        PROVE  Overtakes(t)
    BY <2>1, <2>3, StaleStep
  <2>4. QED
    BY <2>2, <2>3
<1>2. QED
  BY <1>1, Flow, PTL DEF Spec, TableLosses
==============================================================================
