-------------------------------- MODULE NetIo --------------------------------
(***************************************************************************)
(* The natives of cc3000_ifc.c that move data over sockets: send, sendall, *)
(* sendto, recv_into, recvfrom_into and select, called by the threads of   *)
(* the VM.  cc3000_net_send and cc3000_net_recv cut a buffer into portions *)
(* and hold `sem' from the first to the last; sendall repeats net_send,    *)
(* recvfrom_into polls with select before it receives.                     *)
(*                                                                         *)
(* Bytes are told apart by their place: in the buffer of the call that     *)
(* sends them, and in the stream a peer sends.  One HCI command is a step. *)
(***************************************************************************)
EXTENDS Integers, Sequences, FiniteSets

CONSTANTS Threads,      \* threads of the VM that call natives
          Socks,        \* connected sockets, by descriptor
          Natives,      \* natives the programs use
          Lens,         \* lengths of the buffers they pass
          SEND_PORTION, \* 64 in cc3000_net_send
          RECV_PORTION, \* 32 in cc3000_net_recv
          StatusBytes,  \* status bytes of an event that reports a failed send
          MaxCalls,     \* bound on the calls
          MaxInput      \* bound on the bytes the peer of each socket sends

AllNatives == {"send", "sendall", "sendto", "recv", "recvfrom", "select"}
None == "none"
RECV_TIMED_OUT == -118

\* A descriptor is a bit of an fd_set, which has __FD_SETSIZE of them.
ASSUME SocksAssumption == Socks \subseteq 0..31 /\ None \notin Threads
ASSUME NativesAssumption == Natives \subseteq AllNatives /\ Lens \subseteq Nat
ASSUME PortionsAssumption == /\ SEND_PORTION \in Nat \ {0}
                             /\ RECV_PORTION \in Nat \ {0}
ASSUME StatusAssumption == StatusBytes \subseteq 1..255
ASSUME BoundsAssumption == MaxCalls \in Nat /\ MaxInput \in [Socks -> Nat]

VARIABLES sem,     \* thread that holds the semaphore, or None
          pc,      \* program counter of each thread
          call,    \* the call each thread is in
          calls,   \* number of calls so far; they are numbered from 1
          wire,    \* portions the device accepted, per socket, in order
          active,  \* sockets marked active in socket_active_status
          open,    \* sockets neither closed by the driver nor off the table
          txError, \* slTransmitDataError, 0 for none
          inbox,   \* bytes the device holds for the host, per socket
          taken,   \* bytes of the peer's stream the host has received
          gone,    \* sockets whose peer will send no more
          got,     \* pieces each thread's receive has stored in its buffer
          blurred  \* calls that were told of a send that was none

vars == <<sem, pc, call, calls, wire, active, open, txError, inbox, taken,
          gone, got, blurred>>
device == <<wire, active, open, txError, blurred>>
input  == <<inbox, taken, gone, got>>

PCs == {"idle", "semWait", "sending", "receiving", "selecting", "signal",
        "return"}
Stages == AllNatives \cup {"available"}

NoCall == [id |-> 0, op |-> "send", sk |-> -1, len |-> 0, base |-> 0,
           wrt |-> 0, res |-> 0, asked |-> {}, timed |-> TRUE,
           ready |-> {}, reported |-> {}, seen |-> [s \in Socks |-> 0]]

Init == /\ sem = None
        /\ pc = [t \in Threads |-> "idle"]
        /\ call = [t \in Threads |-> NoCall] /\ calls = 0
        /\ wire = [s \in Socks |-> <<>>]
        /\ active = Socks /\ open = Socks /\ txError = 0
        /\ inbox = [s \in Socks |-> 0] /\ taken = [s \in Socks |-> 0]
        /\ gone = {} /\ got = [t \in Threads |-> {}] /\ blurred = {}

Least(m, n) == IF m < n THEN m ELSE n
Goto(t, from, to) == pc[t] = from /\ pc' = [pc EXCEPT ![t] = to]

-----------------------------------------------------------------------------
(* Entering a native, and the semaphore.                                   *)

\* sendall tests its length before the first net_send.
Call(t, o, s, n) ==
    /\ o \in Natives \ {"select"} /\ calls < MaxCalls
    /\ Goto(t, "idle", IF o = "sendall" /\ n = 0 THEN "return" ELSE "semWait")
    /\ calls' = calls + 1
    /\ call' = [call EXCEPT ![t] = [NoCall EXCEPT
                    !.id = calls', !.sk = s, !.len = n,
                    !.op = IF o = "recvfrom" THEN "available" ELSE o,
                    !.asked = IF o = "recvfrom" THEN {s} ELSE {}]]
    /\ got' = [got EXCEPT ![t] = {}]
    /\ UNCHANGED <<sem, device, inbox, taken, gone>>

\* cc3000_select: the test for None reads `timeout' before it is set, so it
\* may come out either way whatever argument was passed.
CallSelect(t, asked, none, garbage) ==
    /\ "select" \in Natives /\ calls < MaxCalls
    /\ Goto(t, "idle", IF none /\ ~garbage THEN "return" ELSE "semWait")
    /\ calls' = calls + 1
    /\ call' = [call EXCEPT ![t] = [NoCall EXCEPT
                    !.id = calls', !.op = "select", !.asked = asked,
                    !.timed = ~garbage,
                    !.res = IF none /\ ~garbage THEN -1 ELSE 0]]
    /\ UNCHANGED <<sem, device, input>>

AfterSemWait(t) ==
    IF call[t].op \in {"send", "sendall", "recv"} /\ call[t].len = 0 THEN "signal"
    ELSE CASE call[t].op \in {"send", "sendall", "sendto"} -> "sending"
           [] call[t].op \in {"recv", "recvfrom"}          -> "receiving"
           [] call[t].op \in {"available", "select"}       -> "selecting"

SemWait(t) == /\ Goto(t, "semWait", AfterSemWait(t))
              /\ sem = None /\ sem' = t
              /\ UNCHANGED <<call, calls, device, input>>

\* What the caller does with the count: sendall advances and repeats while
\* there is something left; send and recv return it.
AfterSignal(c) ==
    CASE c.op = "sendall"         -> [c EXCEPT !.len = @ - c.wrt,
                                               !.base = @ + c.wrt, !.wrt = 0]
      [] c.op \in {"send", "recv"} -> [c EXCEPT !.res = c.wrt]
      [] OTHER                     -> c

\* Mutant: the loop ends at any answer that is no error.
Polling_UntilAnswer(c) == c.op = "available" /\ c.res < 0 /\ c.sk \in open

\* cc3000_net_available and the loop around it: poll again while the socket
\* is not ready but in the table, otherwise receive.
Polling(c) == c.op = "available" /\ c.ready = {} /\ c.sk \in open

SemSignal(t) ==
    LET c     == AfterSignal(call[t])
        again == c.op = "available" \/ (c.op = "sendall" /\ c.len > 0)
    IN  /\ Goto(t, "signal", IF again THEN "semWait" ELSE "return")
        /\ sem' = None
        /\ call' = [call EXCEPT ![t] =
                        IF c.op = "available" /\ ~Polling(c)
                        THEN [c EXCEPT !.op = "recvfrom"] ELSE c]
        /\ UNCHANGED <<calls, device, input>>

Return(t) == /\ Goto(t, "return", "idle")
             /\ call' = [call EXCEPT ![t] = NoCall]
             /\ got' = [got EXCEPT ![t] = {}]
             /\ UNCHANGED <<sem, calls, device, inbox, taken, gone>>

-----------------------------------------------------------------------------
(* Sending.  Each portion passes HostFlowControlConsumeBuff: an error left *)
(* by an earlier send comes first, then the mark of the socket.            *)

Sending(t) == pc[t] = "sending"

\* Mutant: the portion is cut from the whole buffer, not from the rest.
Portion_OfWhole(c) == IF c.op = "sendto" THEN c.len
                      ELSE Least(SEND_PORTION, c.len)

Portion(c) == IF c.op = "sendto" THEN c.len
              ELSE Least(SEND_PORTION, c.len - c.wrt)

\* cc3000_net_send adds up what send() returned; sendto returns it.
Counted(t, n) ==
    LET wrt == call[t].wrt + n
    IN  /\ Goto(t, "sending",
                IF call[t].op = "sendto" \/ wrt >= call[t].len THEN "signal"
                                                               ELSE "sending")
        /\ call' = [call EXCEPT ![t].wrt = wrt, ![t].res = n]

\* The error is the status byte of an event, widened without a sign: it is
\* positive, and counts as bytes sent.
TakeTxError(t) ==
    /\ Sending(t) /\ txError # 0
    /\ txError' = 0
    /\ Counted(t, txError)
    /\ blurred' = blurred \cup {call[t].id}
    /\ UNCHANGED <<sem, calls, wire, active, open, input>>

SendInactive(t) ==
    /\ Sending(t) /\ txError = 0 /\ call[t].sk \notin active
    /\ Goto(t, "sending", "signal")
    /\ call' = [call EXCEPT ![t].res = -1]
    /\ UNCHANGED <<sem, calls, device, input>>

MaySend(t) == Sending(t) /\ txError = 0 /\ call[t].sk \in active

\* Mutant: the semaphore is held for one portion only.
SendPortion_Releases(t) ==
    LET c == call[t]
    IN  /\ MaySend(t)
        /\ wire' = [wire EXCEPT ![c.sk] = Append(@,
                       [id |-> c.id, from |-> c.base + c.wrt,
                        n |-> Portion(c)])]
        /\ call' = [call EXCEPT ![t].wrt = @ + Portion(c)]
        /\ IF c.op = "sendto" \/ c.wrt + Portion(c) >= c.len
           THEN Goto(t, "sending", "signal") /\ UNCHANGED sem
           ELSE Goto(t, "sending", "semWait") /\ sem' = None
        /\ UNCHANGED <<calls, active, open, txError, blurred, input>>

SendPortion(t) ==
    LET c == call[t]
    IN  /\ MaySend(t)
        /\ wire' = [wire EXCEPT ![c.sk] = Append(@,
                       [id |-> c.id, from |-> c.base + c.wrt,
                        n |-> Portion(c)])]
        /\ Counted(t, Portion(c))
        /\ UNCHANGED <<sem, calls, active, open, txError, blurred, input>>

\* The device answers with an error status; simple_link_send ignores it.
SendRefused(t) ==
    /\ MaySend(t)
    /\ Counted(t, Portion(call[t]))
    /\ blurred' = blurred \cup {call[t].id}
    /\ UNCHANGED <<sem, calls, wire, active, open, txError, input>>

\* The device could not transmit what it had accepted (external), and
\* hci_unsol_event_handler notes the status byte of the event.
DevSendFailed(s, b) ==
    /\ wire[s] # <<>> /\ s \in active
    /\ txError' = b
    /\ active' = active \ {s}
    /\ UNCHANGED <<sem, pc, call, calls, wire, open, blurred, input>>

-----------------------------------------------------------------------------
(* Receiving.                                                              *)

Receiving(t) == pc[t] = "receiving"
Wanted(c) == IF c.op = "recvfrom" THEN c.len
             ELSE Least(RECV_PORTION, c.len - c.wrt)

\* The dispatcher tests a word behind the result struct before it marks a
\* socket inactive, and takes the number of the socket from the flags, which
\* are 0 as this version supports none: socket 0 is marked, or none.
MarkedByRecv == {{}, {0}}

\* Mutant: every portion is stored at the start of the buffer.
RecvData_SamePlace(t) ==
    LET c == call[t]
    IN  /\ Receiving(t)
        /\ \E n \in 1..Least(Wanted(c), inbox[c.sk]) :
             /\ got' = [got EXCEPT ![t] = @ \cup
                            {[at |-> 0, pos |-> taken[c.sk], n |-> n]}]
             /\ taken' = [taken EXCEPT ![c.sk] = @ + n]
             /\ inbox' = [inbox EXCEPT ![c.sk] = @ - n]
             /\ call' = [call EXCEPT ![t].wrt = @ + n, ![t].res = n]
             /\ Goto(t, "receiving",
                     IF c.op = "recvfrom" \/ c.wrt + n >= c.len
                     THEN "signal" ELSE "receiving")
        /\ \E m \in MarkedByRecv : active' = active \ m
        /\ UNCHANGED <<sem, calls, wire, open, txError, gone, blurred>>

RecvData(t) ==
    LET c == call[t]
    IN  /\ Receiving(t)
        /\ \E n \in 1..Least(Wanted(c), inbox[c.sk]) :
             /\ got' = [got EXCEPT ![t] = @ \cup
                            {[at |-> c.wrt, pos |-> taken[c.sk], n |-> n]}]
             /\ taken' = [taken EXCEPT ![c.sk] = @ + n]
             /\ inbox' = [inbox EXCEPT ![c.sk] = @ - n]
             /\ call' = [call EXCEPT ![t].wrt = @ + n, ![t].res = n]
             /\ Goto(t, "receiving",
                     IF c.op = "recvfrom" \/ c.wrt + n >= c.len
                     THEN "signal" ELSE "receiving")
        /\ \E m \in MarkedByRecv : active' = active \ m
        /\ UNCHANGED <<sem, calls, wire, open, txError, gone, blurred>>

NoData(t) == Receiving(t) /\ inbox[call[t].sk] = 0

\* A result of 0: recv asks again, recvfrom returns it.
RecvNothing(t) ==
    /\ NoData(t)
    /\ \/ call[t].op = "recv" /\ UNCHANGED <<pc, call>>
       \/ /\ call[t].op = "recvfrom" /\ Goto(t, "receiving", "signal")
          /\ call' = [call EXCEPT ![t].res = 0]
    /\ UNCHANGED <<sem, calls, device, input>>

\* recv replaces its count by the error without its sign.
RecvTimedOut(t) ==
    /\ NoData(t)
    /\ Goto(t, "receiving", "signal")
    /\ call' = [call EXCEPT ![t].wrt = -RECV_TIMED_OUT,
                            ![t].res = RECV_TIMED_OUT]
    /\ UNCHANGED <<sem, calls, device, input>>

\* Mutant: the error path returns without the signal.
RecvFailed_KeepsSem(t) ==
    /\ NoData(t) /\ (call[t].sk \in gone \/ call[t].sk \notin open)
    /\ Goto(t, "receiving", "return")
    /\ call' = [call EXCEPT ![t].res = 0]
    /\ open' = open \ {call[t].sk} /\ active' = active \ {call[t].sk}
    /\ UNCHANGED <<sem, calls, wire, txError, blurred, input>>

\* Any other error: the socket is closed and leaves the table.
RecvFailed(t) ==
    /\ NoData(t) /\ (call[t].sk \in gone \/ call[t].sk \notin open)
    /\ Goto(t, "receiving", "signal")
    /\ call' = [call EXCEPT ![t].res = 0]
    /\ open' = open \ {call[t].sk} /\ active' = active \ {call[t].sk}
    /\ UNCHANGED <<sem, calls, wire, txError, blurred, input>>

\* The peer sends, or ends its stream (external); a peer with bound 0 only
\* listens.
PeerSends(s) == /\ s \in open \ gone /\ taken[s] + inbox[s] < MaxInput[s]
                /\ inbox' = [inbox EXCEPT ![s] = @ + 1]
                /\ UNCHANGED <<sem, pc, call, calls, device, taken, gone, got>>

PeerEnds(s) == /\ s \in open \ gone /\ MaxInput[s] > 0
               /\ gone' = gone \cup {s}
               /\ UNCHANGED <<sem, pc, call, calls, device, inbox, taken, got>>

-----------------------------------------------------------------------------
(* Selecting: cc3000_select with several descriptors, and                  *)
(* cc3000_net_available with one and the least timeout.                    *)

Selecting(t) == pc[t] = "selecting"
Readable(s) == inbox[s] > 0 \/ s \in gone \/ s \notin open

\* The highest descriptor asked for, -1 for none.
Highest(S) == IF S = {} THEN -1 ELSE CHOOSE s \in S : \A u \in S : u <= s

\* The lists are built with i < sock; net_available tests its one bit.
Reported(c, bits) == IF c.op = "available" THEN bits
                     ELSE {s \in bits : s < Highest(c.asked)}

SelectAnswer(t, ready) ==
    /\ Selecting(t)
    /\ ready \subseteq {s \in call[t].asked : Readable(s)}
    /\ ready = {} => call[t].timed
    /\ Goto(t, "selecting", "signal")
    /\ call' = [call EXCEPT ![t].ready = ready, ![t].res = Cardinality(ready),
                            ![t].reported = Reported(call[t], ready),
                            ![t].seen = taken]
    /\ UNCHANGED <<sem, calls, device, input>>

\* A negative status: the sets keep what was asked, and the native raises.
SelectFails(t) ==
    /\ Selecting(t) /\ ~(call[t].asked \subseteq open)
    /\ Goto(t, "selecting", "signal")
    /\ call' = [call EXCEPT ![t].ready = {}, ![t].res = -1,
                            ![t].reported = {}]
    /\ UNCHANGED <<sem, calls, device, input>>

-----------------------------------------------------------------------------
\* What a thread does without waiting for a peer.
Work(t) == \/ SemSignal(t) \/ Return(t)
           \/ TakeTxError(t) \/ SendInactive(t) \/ SendPortion(t)
           \/ RecvData(t) \/ \E ready \in SUBSET Socks : SelectAnswer(t, ready)

Next == \/ \E t \in Threads :
             \/ \E o \in AllNatives, s \in Socks, n \in Lens : Call(t, o, s, n)
             \/ \E asked \in SUBSET Socks, none, garbage \in BOOLEAN :
                    CallSelect(t, asked, none, garbage)
             \/ SemWait(t) \/ Work(t) \/ SendRefused(t) \/ RecvNothing(t)
             \/ RecvTimedOut(t) \/ RecvFailed(t) \/ SelectFails(t)
        \/ \E s \in Socks : \/ \E b \in StatusBytes : DevSendFailed(s, b)
                            \/ PeerSends(s) \/ PeerEnds(s)

Spec == Init /\ [][Next]_vars

(* Threads are scheduled and semaphores wake the longest waiter.  A timeout,*)
(* a failure and anything a peer does may stay away for ever.              *)
FairSpec == Spec /\ \A t \in Threads : SF_vars(SemWait(t)) /\ WF_vars(Work(t))

-----------------------------------------------------------------------------
(* Properties *)

\* Type invariant of calls, sockets and streams.
TypeOK ==
    /\ sem \in Threads \cup {None} /\ pc \in [Threads -> PCs]
    /\ calls \in 0..MaxCalls
    /\ \A t \in Threads :
         /\ call[t].id \in 0..MaxCalls /\ call[t].op \in Stages
         /\ call[t].sk \in Socks \cup {-1}
         /\ call[t].len \in Int /\ call[t].base \in Nat /\ call[t].wrt \in Nat
         /\ call[t].res \in Int
    /\ active \subseteq Socks /\ open \subseteq Socks /\ gone \subseteq Socks
    /\ txError \in StatusBytes \cup {0}
    /\ \A s \in Socks : taken[s] + inbox[s] \in 0..MaxInput[s]
    /\ blurred \subseteq 1..MaxCalls

\* The stretches of the buffer of call i that the device accepted.
Stretches(i) == UNION {{wire[s][k] : k \in {k \in 1..Len(wire[s]) :
                                             wire[s][k].id = i}} : s \in Socks}
BytesOf(stretches) == UNION {p.from..(p.from + p.n - 1) : p \in stretches}
Transmitted(i) == BytesOf(Stretches(i))

\* cc3000_net_send holds sem over its portions, so that the data of one call
\* stays in one piece on its connection, in order and without repetition,
\* whatever other threads send on it.
CallsStayTogether ==
    \A s \in Socks : \A j, k \in 1..Len(wire[s]) :
        (j < k /\ wire[s][j].id = wire[s][k].id) =>
            /\ wire[s][j + 1].id = wire[s][j].id
            /\ wire[s][j].from + wire[s][j].n <= wire[s][j + 1].from

\* Calls, sockets and streams are of their types, and what one call sends
\* stays together.
Inv == TypeOK /\ CallsStayTogether

\* The count send returns is the number of bytes from the start of the buffer
\* that the device accepted, and sendall returns when it has accepted all of
\* them; but for calls that were told of a send that was none.
SentAsReturned ==
    \A t \in Threads : pc[t] = "return" /\ call[t].id \notin blurred =>
        /\ call[t].op = "send" => Transmitted(call[t].id) = 0..(call[t].res - 1)
        /\ call[t].op = "sendall" =>
               Transmitted(call[t].id) = 0..(call[t].base - 1)
               /\ call[t].len = 0

\* A receive fills its buffer from the start with one unbroken piece of the
\* stream, although another thread may receive from the same socket.
ReceivedInOnePiece ==
    \A t \in Threads : \A p, q \in got[t] :
        /\ p.pos - p.at = q.pos - q.at
        /\ p.at < q.at => p.at + p.n <= q.at
        /\ p.at = 0 \/ \E r \in got[t] : r.at + r.n = p.at

\* recv_into returns the number of bytes it stored, unless the device timed
\* out; fewer than asked for only if the socket is closed.
CountAsReceived ==
    \A t \in Threads : pc[t] = "return" /\ call[t].op = "recv"
                       /\ call[t].res # -RECV_TIMED_OUT =>
        /\ call[t].res = Cardinality(UNION {p.at..(p.at + p.n - 1) : p \in got[t]})
        /\ call[t].res < call[t].len => call[t].sk \notin open

\* What a receive stores is one piece of the stream, of the size it returns.
ReceivedAsReturned == ReceivedInOnePiece /\ CountAsReceived

\* sem is free between the answer to a select and the use of it. What select
\* returns can still be read without a wait, and recvfrom_into, which holds
\* sem again when it receives, waits for its peer on no open socket: unless
\* another thread has received from that socket since the answer.
ReadyUntilTaken ==
    \A t \in Threads :
        /\ pc[t] = "return" /\ call[t].op = "select" =>
               \A s \in call[t].reported :
                   Readable(s) \/ taken[s] > call[t].seen[s]
        /\ Receiving(t) /\ call[t].op = "recvfrom" =>
               Readable(call[t].sk) \/ taken[call[t].sk] > call[t].seen[call[t].sk]

\* Threads that wait for a peer with sem in their hands: a receive without
\* data, and a select without a timeout (or whose timeout was not looked at).
WaitsForPeer == \E t \in Threads :
    \/ NoData(t)
    \/ Selecting(t) /\ ~call[t].timed
         /\ {s \in call[t].asked : Readable(s)} = {}

\* Every native comes back, unless a receive or select waits for ever for a
\* peer holding sem, or it is itself a sendall to a socket marked inactive
\* or a recvfrom that polls.
NativesReturn ==
    \A t \in Threads :
        \/ []<>(pc[t] = "idle")
        \/ <>[]WaitsForPeer
        \/ <>[](call[t].op = "sendall" /\ call[t].sk \notin active)
        \/ <>[](call[t].op = "available" /\ call[t].sk \in open)
==============================================================================
