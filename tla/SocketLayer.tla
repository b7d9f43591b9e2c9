----------------------------- MODULE SocketLayer -----------------------------
(***************************************************************************)
(* The socket natives of cc3000_ifc.c, called by the threads of the VM.    *)
(* A native gives up the interpreter lock (GIL), runs its HCI commands     *)
(* holding `sem', and takes the GIL back before it returns; setsockopt     *)
(* keeps the GIL throughout.  The table `sockets' is updated outside       *)
(* `sem' by socket() and close(), inside it by a failed receive, and by    *)
(* the reader thread when the peer has closed (TCP_CLOSE_WAIT); recvfrom   *)
(* polls it without either lock.                                           *)
(*                                                                         *)
(* A command under `sem' is one step here: HostController has its inside.  *)
(***************************************************************************)
EXTENDS Naturals, FiniteSets

CONSTANTS Threads,     \* threads of the VM that call natives
          Sds,         \* socket descriptors of the device
          MAX_SOCKETS, \* size of the table
          Ops,         \* natives the program uses
          PeerCloses,  \* TRUE: peers close connections (TCP_CLOSE_WAIT)
          CloseAgain   \* TRUE: a socket whose receive failed is closed again

\* "other" is any native that runs one command and touches no table entry.
AllOps == {"socket", "close", "accept", "recv", "recvfrom", "setsockopt",
           "other"}
None == "none"

ASSUME SdsAssumption == None \notin Sds /\ None \notin Threads
ASSUME TableAssumption == MAX_SOCKETS \in Nat \ {0}
ASSUME ModesAssumption == /\ Ops \subseteq AllOps
                          /\ PeerCloses \in BOOLEAN /\ CloseAgain \in BOOLEAN

VARIABLES sem,     \* thread in an HCI command, None for a free semaphore
          gil,     \* thread that holds the GIL inside a native, or None
          pc,      \* program counter of each thread
          op,      \* native (or stage of accept and recvfrom) it is in
          sd,      \* descriptor it works on
          failed,  \* TRUE if its command returned a negative value
          slot,    \* index found by cc3000_handle_socket, 0 for none
          sockets, \* the table: a descriptor, or None for -1
          active,  \* descriptors marked active in socket_active_status
          open,    \* descriptors open in the device
          handles, \* descriptors each thread's program may still use
          finned,  \* open descriptors whose peer has closed
          closeWait\* TCP_CLOSE_WAIT events on their way to the reader

locks   == <<sem, gil>>
locals  == <<op, sd, failed>>
devVars == <<open, finned>>
vars == <<locks, pc, locals, slot, sockets, active, devVars, handles,
          closeWait>>

Slots == 1..MAX_SOCKETS
PCs == {"idle", "semWait", "command", "recvClose", "signal", "gilWait",
        "check", "find", "store", "return"}
Stages == AllOps \cup {"acceptOpt", "available"}

Init == /\ sem = None /\ gil = None
        /\ pc = [t \in Threads |-> "idle"]
        /\ op = [t \in Threads |-> "other"] /\ sd = [t \in Threads |-> None]
        /\ failed = [t \in Threads |-> FALSE]
        /\ slot = [t \in Threads |-> 0]
        /\ sockets = [i \in Slots |-> None]
        /\ active = {} /\ open = {}
        /\ handles = [t \in Threads |-> {}]
        /\ finned = {} /\ closeWait = {}

-----------------------------------------------------------------------------
(* Entering a native and taking the locks.                                 *)

Goto(t, from, to) == pc[t] = from /\ pc' = [pc EXCEPT ![t] = to]

NeedsSocket == AllOps \ {"socket", "other"}
FirstStage(o) == CASE o = "accept"   -> "acceptOpt"
                   [] o = "recvfrom" -> "available"
                   [] OTHER          -> o

Call(t, o, d) ==
    /\ Goto(t, "idle", "semWait")
    /\ IF o \in NeedsSocket THEN d \in handles[t] ELSE d = None
    /\ gil = None /\ gil' = IF o = "setsockopt" THEN t ELSE None
    /\ op' = [op EXCEPT ![t] = FirstStage(o)]
    /\ sd' = [sd EXCEPT ![t] = d]
    /\ failed' = [failed EXCEPT ![t] = FALSE]
    /\ handles' = IF o = "close" THEN [handles EXCEPT ![t] = @ \ {d}]
                                 ELSE handles
    /\ UNCHANGED <<sem, slot, sockets, active, devVars, closeWait>>

\* Mutant: the native does not wait for the semaphore.
SemWait_Missing(t) == /\ Goto(t, "semWait", "command")
                      /\ sem' = t
                      /\ UNCHANGED <<gil, locals, slot, sockets, active,
                                     devVars, handles, closeWait>>

SemWait(t) == /\ Goto(t, "semWait", "command")
              /\ sem = None /\ sem' = t
              /\ UNCHANGED <<gil, locals, slot, sockets, active, devVars,
                             handles, closeWait>>

\* After a failed accept the thread sleeps and tries again.
AfterSignal(t) ==
    CASE op[t] = "setsockopt"                  -> "return"
      [] op[t] = "available" /\ failed[t]      -> "check"
      [] op[t] = "acceptOpt" /\ ~failed[t]     -> "semWait"
      [] op[t] = "accept" /\ failed[t]         -> "semWait"
      [] op[t] = "available" /\ ~failed[t]     -> "semWait"
      [] OTHER                                 -> "gilWait"

NextStage(t) == CASE op[t] = "acceptOpt" /\ ~failed[t] -> "accept"
                  [] op[t] = "available" /\ ~failed[t] -> "recvfrom"
                  [] OTHER                             -> op[t]

\* Mutant: an error path forgets to signal the semaphore.
SemSignal_SuccessOnly(t) ==
    /\ Goto(t, "signal", AfterSignal(t))
    /\ sem' = IF failed[t] THEN sem ELSE None
    /\ op' = [op EXCEPT ![t] = NextStage(t)]
    /\ UNCHANGED <<gil, sd, failed, slot, sockets, active, devVars, handles,
                   closeWait>>

SemSignal(t) == /\ Goto(t, "signal", AfterSignal(t))
                /\ sem' = None
                /\ op' = [op EXCEPT ![t] = NextStage(t)]
                /\ UNCHANGED <<gil, sd, failed, slot, sockets, active,
                               devVars, handles, closeWait>>

\* Mutant: the table is updated without the GIL.
AcquireGil_Missing(t) ==
    /\ Goto(t, "gilWait", IF op[t] \in {"socket", "close"} /\ ~failed[t]
                          THEN "find" ELSE "return")
    /\ gil' = t
    /\ UNCHANGED <<sem, locals, slot, sockets, active, devVars, handles,
                   closeWait>>

AcquireGil(t) ==
    /\ Goto(t, "gilWait", IF op[t] \in {"socket", "close"} /\ ~failed[t]
                          THEN "find" ELSE "return")
    /\ gil = None /\ gil' = t
    /\ UNCHANGED <<sem, locals, slot, sockets, active, devVars, handles,
                   closeWait>>

-----------------------------------------------------------------------------
(* The commands, under `sem'.                                              *)

InCommand(t, o) == pc[t] = "command" /\ op[t] = o

\* closesocket: the status is set inactive whatever the device answers.
Closesocket(d) ==
    /\ open' = open \ {d} /\ finned' = finned \ {d}
    /\ active' = active \ {d}

SocketCommand(t) ==
    /\ InCommand(t, "socket") /\ Goto(t, "command", "signal")
    /\ \/ \E d \in Sds \ open : /\ sd' = [sd EXCEPT ![t] = d]
                                /\ open' = open \cup {d}
                                /\ active' = active \cup {d}
                                /\ UNCHANGED failed
       \/ /\ failed' = [failed EXCEPT ![t] = TRUE]
          /\ UNCHANGED <<sd, open, active>>
    /\ UNCHANGED <<locks, op, slot, sockets, handles, finned,
                   closeWait>>

\* Whatever closesocket returned, close() goes on to the table.
CloseCommand(t) ==
    /\ InCommand(t, "close") /\ Goto(t, "command", "signal")
    /\ Closesocket(sd[t])
    /\ UNCHANGED <<locks, locals, slot, sockets, handles, closeWait>>

\* setsockopt, and the one accept() begins with; they fail on a closed socket.
OptionCommand(t) ==
    /\ op[t] \in {"setsockopt", "acceptOpt"} /\ Goto(t, "command", "signal")
    /\ failed' = [failed EXCEPT ![t] = sd[t] \notin open]
    /\ UNCHANGED <<locks, op, sd, slot, sockets, active, devVars, handles,
                   closeWait>>

\* accept: a new descriptor is marked active; otherwise (pending or failed)
\* the listening socket itself is marked inactive.
AcceptConnection(t) ==
    /\ InCommand(t, "accept") /\ Goto(t, "command", "signal")
    /\ sd[t] \in open
    /\ \E d \in Sds \ open : /\ sd' = [sd EXCEPT ![t] = d]
                             /\ open' = open \cup {d}
                             /\ active' = active \cup {d}
    /\ failed' = [failed EXCEPT ![t] = FALSE]
    /\ UNCHANGED <<locks, op, slot, sockets, finned, handles, closeWait>>

AcceptPending(t) ==
    /\ InCommand(t, "accept") /\ Goto(t, "command", "signal")
    /\ active' = active \ {sd[t]}
    /\ failed' = [failed EXCEPT ![t] = TRUE]
    /\ UNCHANGED <<locks, op, sd, slot, sockets, open, finned, handles,
                   closeWait>>

\* select on the one descriptor: ready, or not ready after the timeout.
SelectCommand(t, ready) ==
    /\ InCommand(t, "available") /\ Goto(t, "command", "signal")
    /\ ready => sd[t] \in open
    /\ failed' = [failed EXCEPT ![t] = ~ready]
    /\ UNCHANGED <<locks, op, sd, slot, sockets, active, devVars, handles,
                   closeWait>>

\* The dispatcher of a receive takes result and socket from behind the struct
\* they are in: it marks the socket with number 0 inactive, or none.
MarkedByRecv == {{}} \cup {{d} : d \in Sds}

\* recv, recvfrom: data or a timeout; on any other error the socket is closed.
RecvCommand(t) ==
    /\ op[t] \in {"recv", "recvfrom"} /\ pc[t] = "command"
    /\ \/ sd[t] \in open /\ pc' = [pc EXCEPT ![t] = "signal"]
       \/ pc' = [pc EXCEPT ![t] = "recvClose"]
    /\ \E m \in MarkedByRecv : active' = active \ m
    /\ UNCHANGED <<locks, locals, slot, sockets, devVars, handles, closeWait>>

\* Mutant: the failed receive leaves the table as it is.
RecvClose_KeepsEntry(t) ==
    /\ Goto(t, "recvClose", "signal")
    /\ Closesocket(sd[t])
    /\ handles' = IF CloseAgain THEN handles
                                ELSE [handles EXCEPT ![t] = @ \ {sd[t]}]
    /\ UNCHANGED <<locks, locals, slot, sockets, closeWait>>

RecvClose(t) ==
    /\ Goto(t, "recvClose", "find")
    /\ Closesocket(sd[t])
    /\ handles' = IF CloseAgain THEN handles
                                ELSE [handles EXCEPT ![t] = @ \ {sd[t]}]
    /\ UNCHANGED <<locks, locals, slot, sockets, closeWait>>

\* A send changes nothing here; that it failed is told later (DevSendFailed).
OtherCommand(t) ==
    /\ InCommand(t, "other") /\ Goto(t, "command", "signal")
    /\ UNCHANGED <<locks, locals, slot, sockets, active, devVars, handles,
                   closeWait>>

-----------------------------------------------------------------------------
(* cc3000_handle_socket: the first entry with one value gets another.  The *)
(* caller may be preempted between the test and the store.                 *)

FirstSlot(v) == LET found == {i \in Slots : sockets[i] = v}
                IN  IF found = {} THEN 0
                    ELSE CHOOSE i \in found : \A j \in found : i <= j

Old(t) == IF op[t] = "socket" THEN None ELSE sd[t]
New(t) == IF op[t] = "socket" THEN sd[t] ELSE None
AfterTable(t) == IF op[t] \in {"recv", "recvfrom"} THEN "signal" ELSE "return"

FindSlot(t) ==
    /\ slot' = [slot EXCEPT ![t] = FirstSlot(Old(t))]
    /\ Goto(t, "find", IF slot'[t] = 0 THEN AfterTable(t) ELSE "store")
    /\ UNCHANGED <<locks, locals, sockets, active, devVars, handles, closeWait>>

StoreSlot(t) ==
    /\ Goto(t, "store", AfterTable(t))
    /\ sockets' = [sockets EXCEPT ![slot[t]] = New(t)]
    /\ slot' = [slot EXCEPT ![t] = 0]
    /\ UNCHANGED <<locks, locals, active, devVars, handles, closeWait>>

\* cc3000_net_available: a socket that is not ready is looked up in the
\* table.  A valid one is polled again, one not found goes on to recvfrom.
CheckValid(t) ==
    /\ Goto(t, "check", "semWait")
    /\ op' = [op EXCEPT ![t] = IF FirstSlot(sd[t]) = 0 THEN "recvfrom"
                                                       ELSE "available"]
    /\ failed' = [failed EXCEPT ![t] = FALSE]
    /\ UNCHANGED <<locks, sd, slot, sockets, active, devVars, handles,
                   closeWait>>

\* The native returns; a new descriptor now belongs to the caller.
Return(t) ==
    /\ Goto(t, "return", "idle")
    /\ gil' = None
    /\ handles' = IF op[t] \in {"socket", "accept"} /\ ~failed[t]
                  THEN [handles EXCEPT ![t] = @ \cup {sd[t]}] ELSE handles
    /\ op' = [op EXCEPT ![t] = "other"] /\ sd' = [sd EXCEPT ![t] = None]
    /\ failed' = [failed EXCEPT ![t] = FALSE]
    /\ UNCHANGED <<sem, slot, sockets, active, devVars, closeWait>>

-----------------------------------------------------------------------------
\* The peer closes a connection; the device reports it once (external).
DevFin(d) == /\ PeerCloses /\ d \in open \ finned
             /\ finned' = finned \cup {d}
             /\ closeWait' = closeWait \cup {d}
             /\ UNCHANGED <<locks, pc, locals, slot, sockets, active, open,
                            handles>>

\* A send on a socket was refused, or could not be transmitted (external), and
\* hci_unsol_event_handler, in either thread, marks the socket inactive.  The
\* event may be as late as when the descriptor is open again.
DevSendFailed(d) ==
    /\ "other" \in Ops /\ d \in active
    /\ active' = active \ {d}
    /\ UNCHANGED <<locks, pc, locals, slot, sockets, devVars, handles, closeWait>>

\* CC3000AsyncCb in the reader thread, which no thread of the VM preempts.
AsyncCloseWait(d) ==
    /\ d \in closeWait /\ closeWait' = closeWait \ {d}
    /\ sockets' = IF FirstSlot(d) = 0 THEN sockets
                  ELSE [sockets EXCEPT ![FirstSlot(d)] = None]
    /\ UNCHANGED <<locks, pc, locals, slot, active, devVars, handles>>

\* The steps a thread takes by itself once it holds what it waits for.
Work(t) == \/ SemSignal(t) \/ SocketCommand(t) \/ CloseCommand(t)
           \/ OptionCommand(t) \/ AcceptPending(t) \/ SelectCommand(t, FALSE)
           \/ RecvCommand(t) \/ RecvClose(t) \/ OtherCommand(t) \/ FindSlot(t)
           \/ StoreSlot(t) \/ CheckValid(t) \/ Return(t)

Next == \/ \E t \in Threads :
             \/ \E o \in Ops, d \in Sds \cup {None} : Call(t, o, d)
             \/ SemWait(t) \/ AcquireGil(t) \/ Work(t)
             \/ AcceptConnection(t) \/ SelectCommand(t, TRUE)
        \/ \E d \in Sds : DevFin(d) \/ DevSendFailed(d) \/ AsyncCloseWait(d)

Spec == Init /\ [][Next]_vars

(* The semaphores of the VM wake the longest waiter, so a thread that      *)
(* waits is not passed over for ever, and threads are scheduled.           *)
Fairness == \A t \in Threads : /\ SF_vars(SemWait(t)) /\ SF_vars(AcquireGil(t))
                               /\ WF_vars(Work(t))

-----------------------------------------------------------------------------
(* Properties *)

\* Type invariant of the natives and the socket table.
TypeOK == /\ sem \in Threads \cup {None} /\ gil \in Threads \cup {None}
          /\ pc \in [Threads -> PCs] /\ op \in [Threads -> Stages]
          /\ sd \in [Threads -> Sds \cup {None}]
          /\ failed \in [Threads -> BOOLEAN]
          /\ slot \in [Threads -> 0..MAX_SOCKETS]
          /\ sockets \in [Slots -> Sds \cup {None}]
          /\ active \subseteq Sds /\ open \subseteq Sds
          /\ finned \subseteq open /\ closeWait \subseteq Sds
          /\ handles \in [Threads -> SUBSET Sds]

\* One thread at a time is inside the HCI layer, which has one transmit
\* buffer and one awaited opcode; a closing receive counts as inside.
OneCommand ==
    \A t \in Threads :
        pc[t] \in {"command", "recvClose", "signal"}
          \/ (pc[t] \in {"find", "store"} /\ op[t] \in {"recv", "recvfrom"})
        => sem = t

\* The natives and the table are of their types, and sem excludes, with every
\* native that holds it across calls, also while another thread closes; a send
\* is let through on no socket the device has closed.
Inv == TypeOK /\ OneCommand /\ active \subseteq open

Inserting(d) == {t \in Threads : /\ op[t] = "socket" /\ sd[t] = d /\ ~failed[t]
                                 /\ pc[t] \in {"signal", "gilWait", "find",
                                               "store"}}
Removing(d) == {t \in Threads :
    /\ op[t] \in {"close", "recv", "recvfrom"} /\ sd[t] = d
    /\ \/ pc[t] \in {"find", "store"}
       \/ op[t] = "close" /\ pc[t] \in {"signal", "gilWait"}}

Entries(d) == {i \in Slots : sockets[i] = d}
ExactFor(d) == Cardinality(Entries(d)) + Cardinality(Inserting(d))
                 = (IF d \in open THEN 1 ELSE 0) + Cardinality(Removing(d))

\* The table counts every descriptor once for the socket the device has open
\* and once for each thread that has closed it but not yet removed its entry,
\* although a descriptor may be opened again before the entry is gone.
TableExact == \A d \in Sds : ExactFor(d)

\* What makes the table wrong about a descriptor: accept(), which inserts none;
\* closing it a second time; no entry to be found, in a full table or for one
\* that is gone; an entry that has changed since it was found; the reader.
Stale(t) == pc[t] = "store" /\ sockets[slot[t]] # Old(t)
Loss(d) ==
    \/ AsyncCloseWait(d)
    \/ \E t \in Threads :
         \/ AcceptConnection(t) /\ sd'[t] = d
         \/ (CloseCommand(t) \/ RecvClose(t)) /\ sd[t] = d /\ d \notin open
         \/ FindSlot(t) /\ slot'[t] = 0 /\ sd[t] = d
         \/ StoreSlot(t) /\ Stale(t) /\ d \in {sd[t], sockets[slot[t]]}

\* An entry changes after it was found only by the reader, or by a close that
\* runs into a failed receive: the one has the GIL, the other sem.
Receives(t) == op[t] \in {"recv", "recvfrom"}
Overtakes(t) ==
    \/ \E d \in Sds : AsyncCloseWait(d)
    \/ \E u \in Threads : StoreSlot(u) /\ Receives(u) # Receives(t)

\* The ways to lose an entry of the table, for any program: no other order of
\* sockets opened, closed by close() or by receives that fail makes it wrong.
TableLosses ==
    [][/\ \A d \in Sds : ExactFor(d) /\ ~ExactFor(d)' => Loss(d)
       /\ \A t \in Threads : pc[t] = "store" /\ ~Stale(t) /\ Stale(t)'
                              => Overtakes(t)]_vars

\* The comment of hci_unsol_event_handler on TCP_CLOSE_WAIT ("the user can
\* close the socket"): doing so takes no other live socket out of the table.
\* (Of programs that do not accept; accepted sockets never enter the table.)
LiveSocketsTracked ==
    \A t \in Threads, d \in Sds :
        d \in handles[t] \ (finned \cup closeWait)
        => \E i \in Slots : sockets[i] = d

\* Every native returns: threads that give up the GIL to wait for sem, and
\* take it back afterwards, never block the setsockopt that waits for sem
\* with the GIL in its hands, nor it them.
NativesReturn == \A t \in Threads : (pc[t] # "idle") ~> (pc[t] = "idle")
==============================================================================
