------------------------------ MODULE NetIoProofs ------------------------------
(***************************************************************************)
(* Proofs about NetIo, for any number of threads, calls and connections,   *)
(* any lengths of buffers and any sizes of the portions.                   *)
(*                                                                         *)
(* The thread that holds sem is the only one that sends or receives.  So   *)
(* the last thing the device accepted on a connection is what the call in  *)
(* hand sent, and the place in the stream at which it receives is where it *)
(* left off.  sendall lets go of sem and begins another net_send only if   *)
(* it was refused for a socket that stays refused.                         *)
(***************************************************************************)
EXTENDS NetIo, FiniteSetTheorems, TLAPS

CallRec == [id : 0..MaxCalls, op : Stages, sk : Socks \cup {-1}, len : Int,
            base : Nat, wrt : Nat, res : Int, asked : SUBSET Socks,
            timed : BOOLEAN, ready : SUBSET Socks, reported : SUBSET Socks,
            seen : [Socks -> Nat]]
Piece == [id : 1..MaxCalls, from : Nat, n : Nat]
Chunk == [at : Nat, pos : Nat, n : Nat]

\* TypeOK, with the functions it leaves open.
Types == /\ TypeOK
         /\ call \in [Threads -> CallRec]
         /\ wire \in [Socks -> Seq(Piece)]
         /\ inbox \in [Socks -> Nat] /\ taken \in [Socks -> Nat]
         /\ got \in [Threads -> SUBSET Chunk]

Inside == {"sending", "receiving", "selecting", "signal"}
Sends  == {"send", "sendall", "sendto"}

\* Calls between the two calls of the semaphore hold it.
SemInv == \A t \in Threads : pc[t] \in Inside => sem = t

\* Each call under way has a number of its own.
IdInv == /\ \A t \in Threads : pc[t] # "idle" => call[t].id \in 1..calls
         /\ \A t, u \in Threads : /\ t # u /\ pc[t] # "idle" /\ pc[u] # "idle"
                                  => call[t].id # call[u].id
         /\ \A s \in Socks : \A k \in 1..Len(wire[s]) : wire[s][k].id <= calls

\* What a call does at its stages, and how far it is.
StageOf(t) ==
    /\ pc[t] # "idle" /\ call[t].op # "select" => call[t].sk \in Socks
    /\ pc[t] = "sending"   => call[t].op \in Sends
    /\ pc[t] = "receiving" => call[t].op \in {"recv", "recvfrom"}
    /\ pc[t] = "selecting" => call[t].op \in {"available", "select"}
    /\ pc[t] = "semWait"   => call[t].wrt = 0 /\ call[t].len >= 0
    /\ pc[t] = "sending" /\ call[t].op # "sendto" => call[t].wrt < call[t].len
    /\ call[t].op = "available" => call[t].wrt = 0
    /\ call[t].op # "sendall" => call[t].len >= 0
    /\ call[t].op = "send" => call[t].base = 0
StageInv == \A t \in Threads : StageOf(t)

\* A call that has sent something sends no more, cannot, or goes on where the
\* last portion on its connection ends.
LastOf(s) == wire[s][Len(wire[s])]
GoesOn(t) == /\ pc[t] = "sending" /\ call[t].op # "sendto"
             /\ Len(wire[call[t].sk]) > 0
             /\ LastOf(call[t].sk).id = call[t].id
             /\ LastOf(call[t].sk).from + LastOf(call[t].sk).n
                    <= call[t].base + call[t].wrt
Spent(t) == \/ pc[t] = "return"
            \/ pc[t] = "signal" /\ call[t].op \in {"send", "sendto"}
            \/ pc[t] = "signal" /\ call[t].wrt >= call[t].len
            \/ call[t].sk \notin active
HasSent(t) == \E s \in Socks : \E k \in 1..Len(wire[s]) :
                  wire[s][k].id = call[t].id
InHandOf(t) == pc[t] # "idle" /\ HasSent(t) =>
                   call[t].op \in Sends /\ (Spent(t) \/ GoesOn(t))
InHand == \A t \in Threads : InHandOf(t)

\* What the device has accepted of a call is what the call has counted.
Bytes(w, i) ==
    BytesOf(UNION {{w[s][k] : k \in {k \in 1..Len(w[s]) : w[s][k].id = i}} :
                   s \in Socks})
SentOf(t) ==
    /\ pc[t] # "idle" /\ call[t].id \notin blurred
    /\ call[t].op \in {"send", "sendall"}
    => IF pc[t] # "return"
       THEN /\ Bytes(wire, call[t].id) = 0..(call[t].base + call[t].wrt - 1)
            /\ call[t].wrt <= call[t].len
       ELSE /\ call[t].op = "send" =>
                   Bytes(wire, call[t].id) = 0..(call[t].res - 1)
            /\ call[t].op = "sendall" =>
                   /\ Bytes(wire, call[t].id) = 0..(call[t].base - 1)
                   /\ call[t].len = 0
SentInv == \A t \in Threads : SentOf(t)

\* A receive under way has filled its buffer up to its count, from what comes
\* before the place at which its connection now is.
Stored(t) == UNION {p.at..(p.at + p.n - 1) : p \in got[t]}
OnePiece(t) == \A p, q \in got[t] :
                   /\ p.pos - p.at = q.pos - q.at
                   /\ p.at < q.at => p.at + p.n <= q.at
                   /\ p.at = 0 \/ \E r \in got[t] : r.at + r.n = p.at
Filled(t) == /\ Stored(t) = 0..(call[t].wrt - 1)
             /\ \A p \in got[t] : /\ p.pos - p.at = taken[call[t].sk] - call[t].wrt
                                  /\ p.at + p.n <= call[t].wrt
             /\ call[t].wrt = 0 \/ \E p \in got[t] : p.at + p.n = call[t].wrt
Ends(t, n) == /\ Stored(t) = 0..(n - 1) /\ n >= 0
              /\ n >= call[t].len \/ call[t].sk \notin open
RecvOf(t) ==
    /\ OnePiece(t)
    /\ got[t] # {} => /\ pc[t] \in {"receiving", "signal", "return"}
                      /\ call[t].op \in {"recv", "recvfrom"}
    /\ pc[t] = "receiving" => Filled(t)
    /\ pc[t] = "signal" /\ call[t].op = "recv" =>
           call[t].wrt = -RECV_TIMED_OUT \/ Ends(t, call[t].wrt)
    /\ pc[t] = "return" /\ call[t].op = "recv" =>
           call[t].res = -RECV_TIMED_OUT \/ Ends(t, call[t].res)
RecvInv == \A t \in Threads : RecvOf(t)

\* What a select was told is ready can be read until it is taken, and the poll
\* before a receive ends when its socket is ready or gone.
Lasts(t, s) == /\ taken[s] >= call[t].seen[s]
               /\ Readable(s) \/ taken[s] > call[t].seen[s]
ReadyOf(t) ==
    /\ call[t].reported \subseteq call[t].ready
    /\ \A s \in call[t].ready : Lasts(t, s)
    /\ call[t].op = "available" => /\ call[t].asked \subseteq {call[t].sk}
                                  /\ call[t].ready \subseteq {call[t].sk}
    /\ call[t].op = "recvfrom" => \/ call[t].sk \in call[t].ready
                                  \/ call[t].sk \notin open
ReadyInv == \A t \in Threads : ReadyOf(t)

IInv == /\ Types /\ SemInv /\ IdInv /\ StageInv /\ CallsStayTogether /\ InHand
        /\ SentInv /\ RecvInv /\ ReadyInv

-----------------------------------------------------------------------------
(* What each action does to its call.                                      *)

Others(t) == \A u \in Threads \ {t} :
                 pc'[u] = pc[u] /\ call'[u] = call[u] /\ got'[u] = got[u]
\* Only count and result of the call of t may change, or these and the stage.
Same(t) == /\ call'[t].id = call[t].id /\ call'[t].sk = call[t].sk
           /\ call'[t].op = call[t].op /\ call'[t].len = call[t].len
           /\ call'[t].base = call[t].base
Answer(t) == /\ call'[t].asked = call[t].asked /\ call'[t].ready = call[t].ready
             /\ call'[t].reported = call[t].reported
             /\ call'[t].seen = call[t].seen

\* The call of a thread that is in none is of the type of calls.
LEMMA NoCallType == NoCall \in CallRec
BY BoundsAssumption DEF NoCall, CallRec, Stages, AllNatives

\* A call starts with a number of its own and nothing done.
LEMMA CallEffect ==
    ASSUME Types, NEW t \in Threads, NEW o \in AllNatives, NEW s \in Socks,
           NEW n \in Lens, Call(t, o, s, n)
    PROVE  /\ Others(t) /\ pc[t] = "idle" /\ got'[t] = {}
           /\ pc' \in [Threads -> PCs] /\ call' \in [Threads -> CallRec]
           /\ calls < MaxCalls /\ calls' = calls + 1 /\ call'[t].id = calls'
           /\ pc'[t] = "semWait" \/ (pc'[t] = "return" /\ o = "sendall" /\ n = 0)
           /\ call'[t].sk = s /\ call'[t].len = n /\ call'[t].base = 0
           /\ call'[t].wrt = 0 /\ call'[t].res = 0
           /\ call'[t].op = (IF o = "recvfrom" THEN "available" ELSE o)
           /\ o # "select"
           /\ call'[t].ready = {} /\ call'[t].reported = {}
           /\ call'[t].asked \subseteq {s}
           /\ UNCHANGED <<sem, device, inbox, taken, gone>>
<1> DEFINE c == [NoCall EXCEPT !.id = calls', !.sk = s, !.len = n,
                               !.op = IF o = "recvfrom" THEN "available" ELSE o,
                               !.asked = IF o = "recvfrom" THEN {s} ELSE {}]
<1>1. /\ pc[t] = "idle" /\ calls < MaxCalls /\ calls' = calls + 1
      /\ pc' = [pc EXCEPT ![t] = IF o = "sendall" /\ n = 0 THEN "return"
                                                           ELSE "semWait"]
      /\ call' = [call EXCEPT ![t] = c] /\ got' = [got EXCEPT ![t] = {}]
      /\ UNCHANGED <<sem, device, inbox, taken, gone>> /\ o # "select"
  BY DEF Call, Goto
<1>2. /\ c.id = calls' /\ c.sk = s /\ c.len = n /\ c.base = 0 /\ c.wrt = 0
      /\ c.res = 0 /\ c.ready = {} /\ c.reported = {} /\ c.asked \subseteq {s}
      /\ c.op = IF o = "recvfrom" THEN "available" ELSE o
  BY DEF NoCall
<1>3. calls' \in 0..MaxCalls /\ n \in Nat
  BY <1>1, NativesAssumption, BoundsAssumption DEF Types, TypeOK
<1>4. c \in CallRec
  <2> DEFINE op == IF o = "recvfrom" THEN "available" ELSE o
             asked == IF o = "recvfrom" THEN {s} ELSE {}
  <2>1. op \in Stages /\ asked \in SUBSET Socks /\ n \in Int
    BY <1>3 DEF Stages, AllNatives
  <2> HIDE DEF op, asked
  <2>2. [NoCall EXCEPT !.id = calls', !.sk = s, !.len = n, !.op = op,
                       !.asked = asked] \in CallRec
    BY <1>3, <2>1, NoCallType DEF CallRec
  <2>3. QED
    BY <2>2 DEF op, asked
<1> HIDE DEF c
<1>5. call' \in [Threads -> CallRec] /\ call'[t] = c
  BY <1>1, <1>4 DEF Types
<1>6. QED
  BY <1>1, <1>2, <1>5 DEF Others, Types, TypeOK, PCs

\* The same of a select, which is answered at once or waits for sem.
LEMMA CallSelectEffect ==
    ASSUME Types, NEW t \in Threads, NEW asked \in SUBSET Socks,
           NEW none \in BOOLEAN, NEW garbage \in BOOLEAN,
           CallSelect(t, asked, none, garbage)
    PROVE  /\ \A u \in Threads \ {t} : pc'[u] = pc[u] /\ call'[u] = call[u]
           /\ pc[t] = "idle" /\ pc'[t] \in {"semWait", "return"}
           /\ pc' \in [Threads -> PCs] /\ call' \in [Threads -> CallRec]
           /\ calls < MaxCalls /\ calls' = calls + 1 /\ call'[t].id = calls'
           /\ call'[t].len = 0 /\ call'[t].base = 0 /\ call'[t].wrt = 0
           /\ call'[t].op = "select" /\ call'[t].ready = {}
           /\ call'[t].reported = {}
           /\ UNCHANGED <<sem, device, input>>
<1> DEFINE c == [NoCall EXCEPT !.id = calls', !.op = "select", !.asked = asked,
                               !.timed = ~garbage,
                               !.res = IF none /\ ~garbage THEN -1 ELSE 0]
<1>1. /\ pc[t] = "idle" /\ calls < MaxCalls /\ calls' = calls + 1
      /\ pc' = [pc EXCEPT ![t] = IF none /\ ~garbage THEN "return" ELSE "semWait"]
      /\ call' = [call EXCEPT ![t] = c] /\ UNCHANGED <<sem, device, input>>
  BY DEF CallSelect, Goto
<1>2. /\ c.id = calls' /\ c.len = 0 /\ c.base = 0 /\ c.wrt = 0
      /\ c.op = "select" /\ c.ready = {} /\ c.reported = {}
  BY DEF NoCall
<1>3. calls' \in 0..MaxCalls
  BY <1>1, BoundsAssumption DEF Types, TypeOK
<1>4. c \in CallRec
  <2> DEFINE timed == ~garbage
             res == IF none /\ ~garbage THEN -1 ELSE 0
  <2>1. timed \in BOOLEAN /\ res \in Int /\ "select" \in Stages
    BY DEF Stages, AllNatives
  <2> HIDE DEF timed, res
  <2>2. [NoCall EXCEPT !.id = calls', !.op = "select", !.asked = asked,
                       !.timed = timed, !.res = res] \in CallRec
    BY <1>3, <2>1, NoCallType DEF CallRec
  <2>3. QED
    BY <2>2 DEF timed, res
<1> HIDE DEF c
<1>5. call' \in [Threads -> CallRec] /\ call'[t] = c
  BY <1>1, <1>4 DEF Types
<1>6. QED
  BY <1>1, <1>2, <1>5 DEF Types, TypeOK, PCs

\* The semaphore is taken, and the call goes where its kind belongs.
LEMMA SemWaitEffect ==
    ASSUME Types, NEW t \in Threads, SemWait(t)
    PROVE  /\ Others(t) /\ UNCHANGED <<call, calls, device, input>>
           /\ pc[t] = "semWait" /\ sem = None /\ sem' = t
           /\ pc'[t] \in Inside /\ pc' \in [Threads -> PCs]
           /\ pc'[t] = "sending" => call[t].op \in Sends
           /\ pc'[t] = "sending" /\ call[t].op # "sendto" => call[t].len # 0
           /\ pc'[t] = "receiving" => call[t].op \in {"recv", "recvfrom"}
           /\ pc'[t] = "selecting" => call[t].op \in {"available", "select"}
           /\ pc'[t] = "signal" => /\ call[t].op \in {"send", "sendall", "recv"}
                                   /\ call[t].len = 0
<1>1. /\ pc[t] = "semWait" /\ pc' = [pc EXCEPT ![t] = AfterSemWait(t)]
      /\ sem = None /\ sem' = t /\ UNCHANGED <<call, calls, device, input>>
  BY DEF SemWait, Goto
<1>2. call[t].op \in Stages
  BY DEF Types, TypeOK
<1>3. /\ AfterSemWait(t) \in Inside
      /\ AfterSemWait(t) = "sending" => call[t].op \in Sends
      /\ AfterSemWait(t) = "sending" /\ call[t].op # "sendto" => call[t].len # 0
      /\ AfterSemWait(t) = "receiving" => call[t].op \in {"recv", "recvfrom"}
      /\ AfterSemWait(t) = "selecting" => call[t].op \in {"available", "select"}
      /\ AfterSemWait(t) = "signal" => /\ call[t].op \in {"send", "sendall", "recv"}
                                       /\ call[t].len = 0
  BY <1>2 DEF AfterSemWait, Inside, Sends, Stages, AllNatives
<1>4. QED
  BY <1>1, <1>3 DEF Others, input, Types, TypeOK, PCs, Inside

\* The semaphore is given back, and the call ends or has another go.
LEMMA SemSignalEffect ==
    ASSUME Types, StageInv, NEW t \in Threads, SemSignal(t)
    PROVE  /\ Others(t) /\ UNCHANGED <<calls, device, input>>
           /\ pc[t] = "signal" /\ sem' = None
           /\ pc' \in [Threads -> PCs] /\ call' \in [Threads -> CallRec]
           /\ call'[t].id = call[t].id /\ call'[t].sk = call[t].sk /\ Answer(t)
           /\ call[t].op \notin {"sendall", "available"} =>
                  /\ pc'[t] = "return" /\ Same(t)
                  /\ call[t].op \in {"send", "recv"} => call'[t].res = call[t].wrt
           /\ call[t].op = "available" =>
                  /\ pc'[t] = "semWait" /\ call'[t].op \in {"available", "recvfrom"}
                  /\ call'[t].len = call[t].len /\ call'[t].wrt = call[t].wrt
                  /\ call'[t].op = "recvfrom" =>
                         call[t].ready # {} \/ call[t].sk \notin open
           /\ call[t].op = "sendall" =>
                  /\ call'[t].len = call[t].len - call[t].wrt /\ call'[t].wrt = 0
                  /\ call'[t].base = call[t].base + call[t].wrt
                  /\ call'[t].op = "sendall"
                  /\ IF call'[t].len > 0 THEN pc'[t] = "semWait"
                                         ELSE pc'[t] = "return"
<1> DEFINE c == AfterSignal(call[t])
           again == c.op = "available" \/ (c.op = "sendall" /\ c.len > 0)
           d == IF c.op = "available" /\ ~Polling(c) THEN [c EXCEPT !.op = "recvfrom"]
                                                     ELSE c
<1>1. /\ pc[t] = "signal" /\ sem' = None
      /\ pc' = [pc EXCEPT ![t] = IF again THEN "semWait" ELSE "return"]
      /\ call' = [call EXCEPT ![t] = d] /\ UNCHANGED <<calls, device, input>>
  BY DEF SemSignal, Goto
<1>2. call[t] \in CallRec
  BY DEF Types
<1>3. CASE call[t].op = "sendall"
  <2>1. c = [call[t] EXCEPT !.len = @ - call[t].wrt, !.base = @ + call[t].wrt,
                            !.wrt = 0]
    BY <1>3 DEF AfterSignal
  <2>a. /\ call[t].len - call[t].wrt \in Int /\ call[t].base + call[t].wrt \in Nat
        /\ 0 \in Nat
    BY <1>2 DEF CallRec
  <2>2. /\ c \in CallRec /\ c.op = "sendall" /\ c.id = call[t].id
        /\ c.sk = call[t].sk /\ c.len = call[t].len - call[t].wrt
        /\ c.base = call[t].base + call[t].wrt /\ c.wrt = 0
        /\ c.asked = call[t].asked /\ c.ready = call[t].ready
        /\ c.reported = call[t].reported /\ c.seen = call[t].seen
    BY <1>2, <1>3, <2>1, <2>a DEF CallRec
  <2> HIDE DEF c
  <2>3. d = c
    BY <2>2
  <2>4. call' \in [Threads -> CallRec] /\ call'[t] = c
    BY <1>1, <2>2, <2>3 DEF Types
  <2>5. QED
    BY <1>1, <1>3, <2>2, <2>3, <2>4 DEF Others, Answer, input, Types, TypeOK, PCs
<1>4. CASE call[t].op = "available"
  <2>1. c = call[t]
    BY <1>4 DEF AfterSignal
  <2>2. /\ d \in CallRec /\ d.op \in {"available", "recvfrom"} /\ d.id = call[t].id
        /\ d.sk = call[t].sk /\ d.len = call[t].len /\ d.wrt = call[t].wrt
        /\ d.asked = call[t].asked /\ d.ready = call[t].ready
        /\ d.reported = call[t].reported /\ d.seen = call[t].seen
    BY <1>2, <1>4, <2>1 DEF CallRec, Stages, AllNatives
  <2>a. d.op = "recvfrom" => call[t].ready # {} \/ call[t].sk \notin open
    BY <1>4, <2>1 DEF Polling
  <2> HIDE DEF d
  <2>3. call' \in [Threads -> CallRec] /\ call'[t] = d
    BY <1>1, <2>2 DEF Types
  <2>4. QED
    BY <1>1, <1>4, <2>1, <2>2, <2>a, <2>3 DEF Others, Answer, input, Types, TypeOK, PCs
<1>5. CASE call[t].op \notin {"sendall", "available"}
  <2>1. \/ call[t].op \in {"send", "recv"} /\ c = [call[t] EXCEPT !.res = call[t].wrt]
        \/ call[t].op \notin {"send", "recv"} /\ c = call[t]
    BY <1>5 DEF AfterSignal
  <2>2. call[t].wrt \in Int
    BY <1>2 DEF CallRec
  <2>3. /\ c \in CallRec /\ c.op = call[t].op /\ c.id = call[t].id
        /\ c.sk = call[t].sk /\ c.len = call[t].len /\ c.base = call[t].base
        /\ c.asked = call[t].asked /\ c.ready = call[t].ready
        /\ c.reported = call[t].reported /\ c.seen = call[t].seen
        /\ call[t].op \in {"send", "recv"} => c.res = call[t].wrt
    BY <1>2, <2>1, <2>2 DEF CallRec
  <2> HIDE DEF c
  <2>4. d = c
    BY <1>5, <2>3
  <2>5. call' \in [Threads -> CallRec] /\ call'[t] = c
    BY <1>1, <2>3, <2>4 DEF Types
  <2>6. QED
    BY <1>1, <1>5, <2>3, <2>4, <2>5 DEF Others, Answer, Same, input, Types, TypeOK, PCs
<1>6. QED
  BY <1>3, <1>4, <1>5

\* The thread leaves its call.
LEMMA ReturnEffect ==
    ASSUME Types, NEW t \in Threads, Return(t)
    PROVE  /\ Others(t) /\ UNCHANGED <<sem, calls, device, inbox, taken, gone>>
           /\ pc[t] = "return" /\ pc'[t] = "idle" /\ got'[t] = {}
           /\ pc' \in [Threads -> PCs] /\ call' \in [Threads -> CallRec]
           /\ call'[t].op = "send" /\ call'[t].wrt = 0 /\ call'[t].len = 0
           /\ call'[t].base = 0 /\ call'[t].ready = {} /\ call'[t].reported = {}
<1>1. /\ pc[t] = "return" /\ pc' = [pc EXCEPT ![t] = "idle"]
      /\ call' = [call EXCEPT ![t] = NoCall] /\ got' = [got EXCEPT ![t] = {}]
      /\ UNCHANGED <<sem, calls, device, inbox, taken, gone>>
  BY DEF Return, Goto
<1>2. call'[t] = NoCall /\ call' \in [Threads -> CallRec]
  BY <1>1, NoCallType DEF Types
<1>3. QED
  BY <1>1, <1>2 DEF Others, NoCall, Types, TypeOK, PCs

\* Answers change count and result, nothing else that says which call it is.
LEMMA AnswerEffect ==
    ASSUME Types, NEW t \in Threads, NEW w \in Nat, NEW r \in Int,
           call' = [call EXCEPT ![t] = [@ EXCEPT !.wrt = w, !.res = r]]
    PROVE  /\ call' \in [Threads -> CallRec] /\ Same(t) /\ Answer(t)
           /\ call'[t].wrt = w /\ call'[t].res = r
           /\ \A u \in Threads \ {t} : call'[u] = call[u]
<1>1. call[t] \in CallRec
  BY DEF Types
<1> DEFINE c == [call[t] EXCEPT !.wrt = w, !.res = r]
<1>2. /\ c \in CallRec /\ c.wrt = w /\ c.res = r /\ c.id = call[t].id
      /\ c.op = call[t].op /\ c.sk = call[t].sk /\ c.len = call[t].len
      /\ c.base = call[t].base /\ c.asked = call[t].asked
      /\ c.ready = call[t].ready /\ c.reported = call[t].reported
      /\ c.seen = call[t].seen
  BY <1>1 DEF CallRec
<1>3. call' = [call EXCEPT ![t] = c]
  OBVIOUS
<1> HIDE DEF c
<1>4. call'[t] = c /\ call' \in [Threads -> CallRec]
  BY <1>2, <1>3 DEF Types
<1>5. QED
  BY <1>2, <1>3, <1>4 DEF Same, Answer, Types

\* A portion, or what is taken for one, is counted.
LEMMA CountedEffect ==
    ASSUME Types, NEW t \in Threads, NEW n \in Nat, Counted(t, n)
    PROVE  /\ pc[t] = "sending" /\ pc'[t] \in {"sending", "signal"}
           /\ pc'[t] = "signal" <=> \/ call[t].op = "sendto"
                                    \/ call[t].wrt + n >= call[t].len
           /\ pc' \in [Threads -> PCs] /\ call' \in [Threads -> CallRec]
           /\ Same(t) /\ Answer(t) /\ call'[t].wrt = call[t].wrt + n
           /\ \A u \in Threads \ {t} : pc'[u] = pc[u] /\ call'[u] = call[u]
<1> DEFINE w == call[t].wrt + n
<1>1. /\ pc[t] = "sending"
      /\ pc' = [pc EXCEPT ![t] = IF call[t].op = "sendto" \/ w >= call[t].len
                                 THEN "signal" ELSE "sending"]
  BY DEF Counted, Goto
<1>2. call' = [call EXCEPT ![t].wrt = w, ![t].res = n]
  BY DEF Counted
<1>3. call' = [call EXCEPT ![t] = [@ EXCEPT !.wrt = w, !.res = n]]
  BY <1>2 DEF Types
<1>4. w \in Nat /\ n \in Int
  BY DEF Types, TypeOK
<1> HIDE DEF w
<1>5. /\ call' \in [Threads -> CallRec] /\ Same(t) /\ Answer(t)
      /\ call'[t].wrt = w /\ \A u \in Threads \ {t} : call'[u] = call[u]
  BY <1>3, <1>4, AnswerEffect
<1>6. /\ pc' \in [Threads -> PCs] /\ \A u \in Threads \ {t} : pc'[u] = pc[u]
      /\ pc'[t] \in {"sending", "signal"}
      /\ pc'[t] = "signal" <=> call[t].op = "sendto" \/ w >= call[t].len
  BY <1>1 DEF Types, TypeOK, PCs
<1>7. QED
  BY <1>1, <1>5, <1>6 DEF w

\* Any other end of a portion: the result says why.
LEMMA ResultEffect ==
    ASSUME Types, NEW t \in Threads, NEW r \in Int,
           call' = [call EXCEPT ![t].res = r]
    PROVE  /\ call' \in [Threads -> CallRec] /\ Same(t) /\ Answer(t)
           /\ call'[t].wrt = call[t].wrt
           /\ \A u \in Threads \ {t} : call'[u] = call[u]
<1>1. call[t] \in CallRec
  BY DEF Types
<1> DEFINE c == [call[t] EXCEPT !.res = r]
<1>2. /\ c \in CallRec /\ c.wrt = call[t].wrt /\ c.id = call[t].id
      /\ c.op = call[t].op /\ c.sk = call[t].sk /\ c.len = call[t].len
      /\ c.base = call[t].base /\ c.asked = call[t].asked
      /\ c.ready = call[t].ready /\ c.reported = call[t].reported
      /\ c.seen = call[t].seen
  BY <1>1 DEF CallRec
<1>3. call' = [call EXCEPT ![t] = c]
  OBVIOUS
<1> HIDE DEF c
<1>4. call'[t] = c /\ call' \in [Threads -> CallRec]
  BY <1>2, <1>3 DEF Types
<1>5. QED
  BY <1>2, <1>3, <1>4 DEF Same, Answer, Types

\* n bytes are stored behind those received before.
LEMMA RecvDataEffect ==
    ASSUME Types, NEW t \in Threads, RecvData(t)
    PROVE  \E n \in Nat \ {0} :
             /\ pc[t] = "receiving" /\ pc'[t] \in {"receiving", "signal"}
             /\ call[t].sk \in Socks =>
                  /\ n <= inbox[call[t].sk]
                  /\ taken' = [taken EXCEPT ![call[t].sk] = @ + n]
                  /\ inbox' = [inbox EXCEPT ![call[t].sk] = @ - n]
             /\ got' = [got EXCEPT ![t] = @ \cup
                           {[at |-> call[t].wrt, pos |-> taken[call[t].sk], n |-> n]}]
             /\ pc'[t] = "signal" =>
                    call[t].op = "recvfrom" \/ call'[t].wrt >= call[t].len
             /\ pc' \in [Threads -> PCs] /\ call' \in [Threads -> CallRec]
             /\ Same(t) /\ Answer(t) /\ call'[t].wrt = call[t].wrt + n
             /\ \A u \in Threads \ {t} : pc'[u] = pc[u] /\ call'[u] = call[u]
             /\ UNCHANGED <<sem, calls, wire, open, txError, gone, blurred>>
             /\ active' \subseteq active
<1> DEFINE c == call[t]
<1>1. PICK n \in 1..Least(Wanted(c), inbox[c.sk]) :
             /\ got' = [got EXCEPT ![t] = @ \cup
                            {[at |-> c.wrt, pos |-> taken[c.sk], n |-> n]}]
             /\ taken' = [taken EXCEPT ![c.sk] = @ + n]
             /\ inbox' = [inbox EXCEPT ![c.sk] = @ - n]
             /\ call' = [call EXCEPT ![t].wrt = @ + n, ![t].res = n]
             /\ pc[t] = "receiving"
             /\ pc' = [pc EXCEPT ![t] = IF c.op = "recvfrom" \/ c.wrt + n >= c.len
                                        THEN "signal" ELSE "receiving"]
  BY DEF RecvData, Goto
<1>2. /\ UNCHANGED <<sem, calls, wire, open, txError, gone, blurred>>
      /\ active' \subseteq active
  BY DEF RecvData, MarkedByRecv
<1>3. c.wrt \in Nat /\ c.len \in Int /\ c \in CallRec
  BY DEF Types, TypeOK
<1>4. n \in Nat \ {0} /\ c.wrt + n \in Nat /\ n \in Int
  BY <1>3
<1>5. call' = [call EXCEPT ![t] = [@ EXCEPT !.wrt = c.wrt + n, !.res = n]]
  BY <1>1 DEF Types
<1>6. /\ call' \in [Threads -> CallRec] /\ Same(t) /\ Answer(t)
      /\ call'[t].wrt = c.wrt + n /\ \A u \in Threads \ {t} : call'[u] = call[u]
  BY <1>4, <1>5, AnswerEffect
<1>7. /\ pc' \in [Threads -> PCs] /\ \A u \in Threads \ {t} : pc'[u] = pc[u]
      /\ pc'[t] \in {"receiving", "signal"}
      /\ pc'[t] = "signal" => c.op = "recvfrom" \/ c.wrt + n >= c.len
  BY <1>1 DEF Types, TypeOK, PCs
<1>8. c.sk \in Socks => n <= inbox[c.sk]
  <2>1. ASSUME c.sk \in Socks PROVE n <= inbox[c.sk]
    <3>1. inbox[c.sk] \in Nat
      BY <2>1 DEF Types
    <3>2. Wanted(c) \in Int
      BY <1>3, PortionsAssumption DEF Wanted, Least
    <3>3. QED
      BY <3>1, <3>2 DEF Least
  <2>2. QED
    BY <2>1
<1>9. QED
  BY <1>1, <1>2, <1>4, <1>6, <1>7, <1>8

\* A receive that ends without data.
LEMMA RecvEndEffect ==
    ASSUME Types, NEW t \in Threads,
           RecvNothing(t) \/ RecvTimedOut(t) \/ RecvFailed(t)
    PROVE  /\ pc[t] = "receiving" /\ pc'[t] \in {"receiving", "signal"}
           /\ pc' \in [Threads -> PCs] /\ call' \in [Threads -> CallRec]
           /\ Same(t) /\ Answer(t)
           /\ pc'[t] = "receiving" => UNCHANGED call
           /\ pc'[t] = "signal" => \/ call[t].op = "recvfrom"
                                   \/ call'[t].wrt = -RECV_TIMED_OUT
                                   \/ /\ call'[t].wrt = call[t].wrt
                                      /\ call[t].sk \notin open'
           /\ \A u \in Threads \ {t} : pc'[u] = pc[u] /\ call'[u] = call[u]
           /\ UNCHANGED <<sem, calls, wire, txError, blurred, input>>
           /\ open' \subseteq open /\ active' \subseteq active
<1>0. pc[t] = "receiving"
  BY DEF RecvNothing, RecvTimedOut, RecvFailed, NoData, Receiving
<1>1. CASE RecvNothing(t) /\ UNCHANGED <<pc, call>>
  BY <1>0, <1>1 DEF RecvNothing, Types, TypeOK, Same, Answer, device
<1>2. CASE RecvNothing(t) /\ ~UNCHANGED <<pc, call>>
  <2>1. /\ call[t].op = "recvfrom" /\ pc' = [pc EXCEPT ![t] = "signal"]
        /\ call' = [call EXCEPT ![t].res = 0] /\ UNCHANGED <<sem, calls, device, input>>
    BY <1>2 DEF RecvNothing, Goto
  <2>2. /\ call' \in [Threads -> CallRec] /\ Same(t) /\ Answer(t)
        /\ \A u \in Threads \ {t} : call'[u] = call[u]
    <3>1. 0 \in Int
      OBVIOUS
    <3>2. QED
      BY <2>1, <3>1, ResultEffect
  <2>3. QED
    BY <1>0, <2>1, <2>2 DEF Types, TypeOK, PCs, device
<1>3. CASE RecvTimedOut(t)
  <2>1. /\ pc' = [pc EXCEPT ![t] = "signal"] /\ UNCHANGED <<sem, calls, device, input>>
        /\ call' = [call EXCEPT ![t].wrt = -RECV_TIMED_OUT, ![t].res = RECV_TIMED_OUT]
    BY <1>3 DEF RecvTimedOut, Goto
  <2>2. call' = [call EXCEPT ![t] = [@ EXCEPT !.wrt = -RECV_TIMED_OUT,
                                              !.res = RECV_TIMED_OUT]]
    BY <2>1 DEF Types
  <2>3. -RECV_TIMED_OUT \in Nat /\ RECV_TIMED_OUT \in Int
    BY DEF RECV_TIMED_OUT
  <2>4. /\ call' \in [Threads -> CallRec] /\ Same(t) /\ Answer(t)
        /\ call'[t].wrt = -RECV_TIMED_OUT
        /\ \A u \in Threads \ {t} : call'[u] = call[u]
    BY <2>2, <2>3, AnswerEffect
  <2>5. QED
    BY <1>0, <2>1, <2>4 DEF Types, TypeOK, PCs, device
<1>4. CASE RecvFailed(t)
  <2>1. /\ pc' = [pc EXCEPT ![t] = "signal"] /\ call' = [call EXCEPT ![t].res = 0]
        /\ open' = open \ {call[t].sk} /\ active' = active \ {call[t].sk}
        /\ UNCHANGED <<sem, calls, wire, txError, blurred, input>>
    BY <1>4 DEF RecvFailed, Goto
  <2>2. /\ call' \in [Threads -> CallRec] /\ Same(t) /\ Answer(t)
        /\ call'[t].wrt = call[t].wrt
        /\ \A u \in Threads \ {t} : call'[u] = call[u]
    <3>1. 0 \in Int
      OBVIOUS
    <3>2. QED
      BY <2>1, <3>1, ResultEffect
  <2>3. QED
    BY <1>0, <2>1, <2>2 DEF Types, TypeOK, PCs
<1>5. QED
  BY <1>1, <1>2, <1>3, <1>4

\* A select, or the poll of one socket, is answered or fails.
LEMMA SelectEffect ==
    ASSUME Types, NEW t \in Threads,
           (\E ready \in SUBSET Socks : SelectAnswer(t, ready)) \/ SelectFails(t)
    PROVE  /\ pc[t] = "selecting" /\ pc'[t] = "signal"
           /\ pc' \in [Threads -> PCs] /\ call' \in [Threads -> CallRec]
           /\ Same(t) /\ call'[t].wrt = call[t].wrt
           /\ call'[t].asked = call[t].asked
           /\ call'[t].reported \subseteq call'[t].ready
           /\ call'[t].ready \subseteq call[t].asked
           /\ \A s \in call'[t].ready :
                  Readable(s) /\ call'[t].seen[s] = taken[s]
           /\ \A u \in Threads \ {t} : pc'[u] = pc[u] /\ call'[u] = call[u]
           /\ UNCHANGED <<sem, calls, device, input>>
<1>1. /\ pc[t] = "selecting" /\ pc' = [pc EXCEPT ![t] = "signal"]
      /\ UNCHANGED <<sem, calls, device, input>>
  BY DEF SelectAnswer, SelectFails, Selecting, Goto
<1> DEFINE Answered(ready, r, reported, seen) ==
               /\ call' = [call EXCEPT ![t] = [@ EXCEPT !.ready = ready, !.res = r,
                                              !.reported = reported, !.seen = seen]]
               /\ reported \subseteq ready /\ ready \subseteq call[t].asked
               /\ \A s \in ready : Readable(s) /\ seen[s] = taken[s]
<1>2. PICK ready \in SUBSET Socks, r \in Int, reported \in SUBSET Socks,
           seen \in [Socks -> Nat] : Answered(ready, r, reported, seen)
  <2>0. call[t] \in CallRec
    BY DEF Types
  <2>1. CASE SelectFails(t)
    <3>1. call' = [call EXCEPT ![t].ready = {}, ![t].res = -1, ![t].reported = {}]
      BY <2>1 DEF SelectFails
    <3>2. call' = [call EXCEPT ![t] = [@ EXCEPT !.ready = {}, !.res = -1,
                                          !.reported = {}, !.seen = call[t].seen]]
      BY <2>0, <3>1 DEF CallRec
    <3>3. {} \in SUBSET Socks /\ -1 \in Int /\ call[t].seen \in [Socks -> Nat]
      BY <2>0 DEF CallRec
    <3>4. Answered({}, -1, {}, call[t].seen)
      BY <3>2
    <3>5. QED
      BY ONLY <3>3, <3>4
  <2>2. ASSUME NEW ready \in SUBSET Socks, SelectAnswer(t, ready)
        PROVE  \E r \in Int, reported \in SUBSET Socks, seen \in [Socks -> Nat] :
                   Answered(ready, r, reported, seen)
    <3> DEFINE r == Cardinality(ready)
               reported == Reported(call[t], ready)
    <3>1. r \in Int
      <4>0. 0 \in Int /\ 31 \in Int
        OBVIOUS
      <4>1. IsFiniteSet(0..31)
        BY ONLY <4>0, FS_Interval
      <4>2. IsFiniteSet(ready)
        BY <4>1, SocksAssumption, FS_Subset
      <4>3. QED
        BY <4>2, FS_CardinalityType
    <3>2. reported \in SUBSET Socks /\ reported \subseteq ready
      BY DEF Reported
    <3>3. ready \subseteq call[t].asked /\ \A s \in ready : Readable(s)
      BY <2>2 DEF SelectAnswer
    <3>4. call' = [call EXCEPT ![t].ready = ready, ![t].res = r,
                               ![t].reported = reported, ![t].seen = taken]
      BY <2>2 DEF SelectAnswer
    <3>5. taken \in [Socks -> Nat]
      BY DEF Types
    <3> HIDE DEF r, reported
    <3>6. call' = [call EXCEPT ![t] = [@ EXCEPT !.ready = ready, !.res = r,
                                          !.reported = reported, !.seen = taken]]
      BY <3>4 DEF Types
    <3>7. Answered(ready, r, reported, taken)
      BY <3>2, <3>3, <3>6
    <3> HIDE DEF Answered
    <3>8. QED
      BY <3>1, <3>2, <3>5, <3>7
  <2> HIDE DEF Answered
  <2>3. QED
    BY <2>1, <2>2
<1>3. call[t] \in CallRec
  BY DEF Types
<1> DEFINE c == [call[t] EXCEPT !.ready = ready, !.res = r, !.reported = reported,
                                !.seen = seen]
<1>4. /\ c \in CallRec /\ c.wrt = call[t].wrt /\ c.id = call[t].id
      /\ c.op = call[t].op /\ c.sk = call[t].sk /\ c.len = call[t].len
      /\ c.base = call[t].base /\ c.asked = call[t].asked
      /\ c.ready = ready /\ c.reported = reported /\ c.seen = seen
  BY <1>3 DEF CallRec
<1>5. call' = [call EXCEPT ![t] = c]
  BY <1>2 DEF Types
<1> HIDE DEF c
<1>6. call'[t] = c /\ call' \in [Threads -> CallRec]
  BY <1>4, <1>5 DEF Types
<1>7. QED
  BY <1>1, <1>2, <1>4, <1>5, <1>6 DEF Same, Types, TypeOK, PCs

\* One round of a send: a portion, which the device accepts or not, or an error
\* of an earlier send that is counted in its place.
Accepted(t, n) ==
    /\ call[t].sk \in active
    /\ wire' = [wire EXCEPT ![call[t].sk] =
                    Append(@, [id |-> call[t].id,
                               from |-> call[t].base + call[t].wrt, n |-> n])]
    /\ n = Portion(call[t]) /\ UNCHANGED blurred

\* Each of the three is a round of that kind.
LEMMA SendEffect ==
    ASSUME Types, StageInv, NEW t \in Threads,
           TakeTxError(t) \/ SendPortion(t) \/ SendRefused(t)
    PROVE  \E n \in Nat :
             /\ Counted(t, n)
             /\ \/ Accepted(t, n) /\ UNCHANGED txError
                \/ UNCHANGED wire /\ blurred' = blurred \cup {call[t].id}
                                  /\ txError' \in {0, txError}
             /\ UNCHANGED <<sem, calls, active, open, input>>
<1>1. CASE TakeTxError(t)
  <2>1. txError \in Nat
    BY StatusAssumption DEF Types, TypeOK
  <2>2. QED
    BY <1>1, <2>1 DEF TakeTxError
<1>2. MaySend(t) => Portion(call[t]) \in Nat
  <2>1. MaySend(t) => pc[t] = "sending"
    BY DEF MaySend, Sending
  <2>2. call[t].len \in Int /\ call[t].wrt \in Nat
    BY DEF Types, TypeOK
  <2>3. pc[t] = "sending" => /\ call[t].op = "sendto" => call[t].len >= 0
                             /\ call[t].op # "sendto" => call[t].wrt < call[t].len
    BY DEF StageInv, StageOf
  <2>4. QED
    BY <2>1, <2>2, <2>3, PortionsAssumption DEF Portion, Least
<1>3. CASE SendPortion(t)
  BY <1>2, <1>3 DEF SendPortion, Accepted, MaySend
<1>4. CASE SendRefused(t)
  BY <1>2, <1>4 DEF SendRefused
<1>5. QED
  BY <1>1, <1>3, <1>4

\* A socket that is not active refuses at once.
LEMMA InactiveEffect ==
    ASSUME Types, NEW t \in Threads, SendInactive(t)
    PROVE  /\ pc[t] = "sending" /\ pc'[t] = "signal" /\ call[t].sk \notin active
           /\ pc' \in [Threads -> PCs] /\ call' \in [Threads -> CallRec]
           /\ Same(t) /\ Answer(t) /\ call'[t].wrt = call[t].wrt
           /\ \A u \in Threads \ {t} : pc'[u] = pc[u] /\ call'[u] = call[u]
           /\ UNCHANGED <<sem, calls, device, input>>
<1>1. /\ pc[t] = "sending" /\ call[t].sk \notin active
      /\ pc' = [pc EXCEPT ![t] = "signal"] /\ call' = [call EXCEPT ![t].res = -1]
      /\ UNCHANGED <<sem, calls, device, input>>
  BY DEF SendInactive, Goto
<1>2. -1 \in Int
  OBVIOUS
<1>3. /\ call' \in [Threads -> CallRec] /\ Same(t) /\ Answer(t)
      /\ call'[t].wrt = call[t].wrt
      /\ \A u \in Threads \ {t} : call'[u] = call[u]
  BY <1>1, <1>2, ResultEffect
<1>4. QED
  BY <1>1, <1>3 DEF Types, TypeOK, PCs

-----------------------------------------------------------------------------
(* The steps, by what they do to the invariant.                            *)

Begins(t)  == \/ \E o \in AllNatives, s \in Socks, n \in Lens : Call(t, o, s, n)
              \/ \E asked \in SUBSET Socks, none, garbage \in BOOLEAN :
                     CallSelect(t, asked, none, garbage)
Rounds(t)  == TakeTxError(t) \/ SendPortion(t) \/ SendRefused(t)
EndsRecv(t) == RecvNothing(t) \/ RecvTimedOut(t) \/ RecvFailed(t)
Selects(t) == (\E ready \in SUBSET Socks : SelectAnswer(t, ready)) \/ SelectFails(t)
External   == \E s \in Socks : \/ \E b \in StatusBytes : DevSendFailed(s, b)
                               \/ PeerSends(s) \/ PeerEnds(s)

\* Every step is a step of one of these kinds.
LEMMA Kinds ==
    ASSUME Next
    PROVE  \/ External
           \/ \E t \in Threads :
                \/ Begins(t) \/ SemWait(t) \/ SemSignal(t) \/ Return(t)
                \/ Rounds(t) \/ SendInactive(t)
                \/ RecvData(t) \/ EndsRecv(t) \/ Selects(t)
BY DEF Next, Work, External, Begins, Rounds, EndsRecv, Selects

\* What a call that begins has in common, whichever it is.
LEMMA BeginsEffect ==
    ASSUME Types, NEW t \in Threads, Begins(t)
    PROVE  /\ \A u \in Threads \ {t} :
                  pc'[u] = pc[u] /\ call'[u] = call[u] /\ got'[u] = got[u]
           /\ pc[t] = "idle" /\ got'[t] \in {{}, got[t]}
           /\ pc'[t] \in {"semWait", "return"}
           /\ pc' \in [Threads -> PCs] /\ call' \in [Threads -> CallRec]
           /\ got' \in [Threads -> SUBSET Chunk]
           /\ calls < MaxCalls /\ calls' = calls + 1 /\ call'[t].id = calls'
           /\ call'[t].base = 0 /\ call'[t].wrt = 0 /\ call'[t].len >= 0
           /\ call'[t].op # "select" => call'[t].sk \in Socks
           /\ pc'[t] = "return" => \/ call'[t].op = "select"
                                   \/ call'[t].op = "sendall" /\ call'[t].len = 0
           /\ ReadyOf(t)'
           /\ UNCHANGED <<sem, device, inbox, taken, gone>>
<1>1. CASE \E o \in AllNatives, s \in Socks, n \in Lens : Call(t, o, s, n)
  <2>1. PICK o \in AllNatives, s \in Socks, n \in Lens : Call(t, o, s, n)
    BY <1>1
  <2>2. /\ Others(t) /\ pc[t] = "idle" /\ got'[t] = {}
        /\ pc' \in [Threads -> PCs] /\ call' \in [Threads -> CallRec]
        /\ calls < MaxCalls /\ calls' = calls + 1 /\ call'[t].id = calls'
        /\ pc'[t] = "semWait" \/ (pc'[t] = "return" /\ o = "sendall" /\ n = 0)
        /\ call'[t].sk = s /\ call'[t].len = n /\ call'[t].base = 0
        /\ call'[t].wrt = 0
        /\ call'[t].op = (IF o = "recvfrom" THEN "available" ELSE o)
        /\ o # "select"
        /\ call'[t].ready = {} /\ call'[t].reported = {}
        /\ call'[t].asked \subseteq {s}
        /\ UNCHANGED <<sem, device, inbox, taken, gone>>
    BY <2>1, CallEffect
  <2>3. n \in Nat
    BY NativesAssumption
  <2>4. got' = [got EXCEPT ![t] = {}]
    BY <2>1 DEF Call
  <2>5. got' \in [Threads -> SUBSET Chunk]
    BY <2>4 DEF Types
  <2>6. ReadyOf(t)'
    <3>1. call'[t].op # "recvfrom"
      BY <2>2
    <3>2. QED
      BY <2>2, <3>1 DEF ReadyOf
  <2>7. QED
    BY <2>2, <2>3, <2>5, <2>6 DEF Others
<1>2. CASE \E asked \in SUBSET Socks, none, garbage \in BOOLEAN :
               CallSelect(t, asked, none, garbage)
  <2>1. PICK asked \in SUBSET Socks, none \in BOOLEAN, garbage \in BOOLEAN :
            CallSelect(t, asked, none, garbage)
    BY <1>2
  <2>2. /\ \A u \in Threads \ {t} : pc'[u] = pc[u] /\ call'[u] = call[u]
        /\ pc[t] = "idle" /\ pc'[t] \in {"semWait", "return"}
        /\ pc' \in [Threads -> PCs] /\ call' \in [Threads -> CallRec]
        /\ calls < MaxCalls /\ calls' = calls + 1 /\ call'[t].id = calls'
        /\ call'[t].len = 0 /\ call'[t].base = 0 /\ call'[t].wrt = 0
        /\ call'[t].op = "select" /\ call'[t].ready = {}
        /\ call'[t].reported = {}
        /\ UNCHANGED <<sem, device, input>>
    BY <2>1, CallSelectEffect
  <2>3. got' = got /\ got \in [Threads -> SUBSET Chunk]
    BY <2>2 DEF input, Types
  <2>4. ReadyOf(t)'
    BY <2>2 DEF ReadyOf
  <2>5. QED
    BY <2>2, <2>3, <2>4 DEF input
<1>3. QED
  BY <1>1, <1>2 DEF Begins

\* The device and the peers touch no call.
LEMMA ExternalEffect ==
    ASSUME Types, External
    PROVE  /\ UNCHANGED <<sem, pc, call, calls, wire, open, blurred, taken, got>>
           /\ active' \subseteq active /\ txError' \in StatusBytes \cup {0}
           /\ gone' \subseteq Socks /\ inbox' \in [Socks -> Nat]
           /\ \A s \in Socks : taken'[s] + inbox'[s] \in 0..MaxInput[s]
<1>1. PICK s \in Socks : \/ \E b \in StatusBytes : DevSendFailed(s, b)
                         \/ PeerSends(s) \/ PeerEnds(s)
  BY DEF External
<1>2. CASE \E b \in StatusBytes : DevSendFailed(s, b)
  BY <1>2 DEF DevSendFailed, input, Types, TypeOK
<1>3. CASE PeerSends(s)
  <2>1. /\ taken[s] + inbox[s] < MaxInput[s] /\ inbox' = [inbox EXCEPT ![s] = @ + 1]
        /\ UNCHANGED <<sem, pc, call, calls, device, taken, gone, got>>
    BY <1>3 DEF PeerSends
  <2>2. /\ inbox \in [Socks -> Nat] /\ taken \in [Socks -> Nat]
        /\ MaxInput \in [Socks -> Nat]
        /\ \A u \in Socks : taken[u] + inbox[u] \in 0..MaxInput[u]
    BY BoundsAssumption DEF Types, TypeOK
  <2>3. inbox' \in [Socks -> Nat]
    BY <2>1, <2>2
  <2>4. \A u \in Socks : taken'[u] + inbox'[u] \in 0..MaxInput[u]
    BY <2>1, <2>2
  <2>5. QED
    BY <2>1, <2>3, <2>4 DEF device, Types, TypeOK
<1>4. CASE PeerEnds(s)
  BY <1>4 DEF PeerEnds, device, Types, TypeOK
<1>5. QED
  BY <1>1, <1>2, <1>3, <1>4

-----------------------------------------------------------------------------
(* Each part of the invariant is kept.                                     *)

\* A step of a thread leaves the stage and the call of the others, and keeps
\* stages and calls of their types.
LEMMA OneThread ==
    ASSUME Types, StageInv, NEW t \in Threads,
           \/ Begins(t) \/ SemWait(t) \/ SemSignal(t) \/ Return(t)
           \/ Rounds(t) \/ SendInactive(t) \/ RecvData(t) \/ EndsRecv(t)
           \/ Selects(t)
    PROVE  /\ pc' \in [Threads -> PCs] /\ call' \in [Threads -> CallRec]
           /\ \A u \in Threads \ {t} : pc'[u] = pc[u] /\ call'[u] = call[u]
<1>1. CASE Begins(t)
  BY <1>1, BeginsEffect
<1>2. CASE SemWait(t)
  BY <1>2, SemWaitEffect DEF Others, Types
<1>3. CASE SemSignal(t)
  BY <1>3, SemSignalEffect DEF Others
<1>4. CASE Return(t)
  BY <1>4, ReturnEffect DEF Others
<1>5. CASE Rounds(t)
  <2>1. PICK n \in Nat : Counted(t, n)
    BY <1>5, SendEffect DEF Rounds
  <2>2. QED
    BY <2>1, CountedEffect
<1>6. CASE SendInactive(t)
  BY <1>6, InactiveEffect
<1>7. CASE RecvData(t)
  BY <1>7, RecvDataEffect
<1>8. CASE EndsRecv(t)
  BY <1>8, RecvEndEffect DEF EndsRecv
<1>9. CASE Selects(t)
  BY <1>9, SelectEffect DEF Selects
<1>10. QED
  BY <1>1, <1>2, <1>3, <1>4, <1>5, <1>6, <1>7, <1>8, <1>9

DeviceOK == /\ active \subseteq Socks /\ open \subseteq Socks
            /\ txError \in StatusBytes \cup {0} /\ blurred \subseteq 1..MaxCalls
            /\ wire \in [Socks -> Seq(Piece)]
InputOK == /\ inbox \in [Socks -> Nat] /\ taken \in [Socks -> Nat]
           /\ got \in [Threads -> SUBSET Chunk] /\ gone \subseteq Socks
           /\ \A s \in Socks : taken[s] + inbox[s] \in 0..MaxInput[s]

\* The types of device and input are those of Types.
LEMMA TypesHere == ASSUME Types PROVE DeviceOK /\ InputOK
BY DEF Types, TypeOK, DeviceOK, InputOK

\* Types hold after a step that keeps the types of calls, device and input.
LEMMA TypesNext ==
    ASSUME sem' \in Threads \cup {None}, pc' \in [Threads -> PCs],
           calls' \in 0..MaxCalls, call' \in [Threads -> CallRec],
           DeviceOK', InputOK'
    PROVE  Types'
<1>1. \A t \in Threads : call'[t] \in CallRec
  OBVIOUS
<1>2. \A t \in Threads :
         /\ call'[t].id \in 0..MaxCalls /\ call'[t].op \in Stages
         /\ call'[t].sk \in Socks \cup {-1}
         /\ call'[t].len \in Int /\ call'[t].base \in Nat /\ call'[t].wrt \in Nat
         /\ call'[t].res \in Int
  BY <1>1 DEF CallRec
<1>3. QED
  BY <1>2 DEF Types, TypeOK, DeviceOK, InputOK

\* What the device accepts is one more piece of the call.
LEMMA AcceptedEffect ==
    ASSUME Types, IdInv, NEW t \in Threads, NEW n \in Nat, Accepted(t, n),
           pc[t] = "sending"
    PROVE  LET s == call[t].sk
               p == [id |-> call[t].id, from |-> call[t].base + call[t].wrt,
                     n |-> n]
           IN  /\ s \in Socks /\ p \in Piece /\ wire' \in [Socks -> Seq(Piece)]
               /\ wire'[s] = Append(wire[s], p)
               /\ Len(wire'[s]) = Len(wire[s]) + 1 /\ Len(wire[s]) \in Nat
               /\ wire'[s][Len(wire[s]) + 1] = p
               /\ \A k \in 1..Len(wire[s]) : wire'[s][k] = wire[s][k]
               /\ \A u \in Socks \ {s} : wire'[u] = wire[u]
<1> DEFINE s == call[t].sk
           p == [id |-> call[t].id, from |-> call[t].base + call[t].wrt, n |-> n]
<1>1. s \in Socks
  BY DEF Accepted, Types, TypeOK
<1>2. call[t].id \in 1..MaxCalls
  BY DEF IdInv, Types, TypeOK
<1>3. call[t].base + call[t].wrt \in Nat
  BY DEF Types, TypeOK
<1>4. p \in Piece
  BY <1>2, <1>3 DEF Piece
<1>5. wire' = [wire EXCEPT ![s] = Append(wire[s], p)]
  BY DEF Accepted
<1>6. wire \in [Socks -> Seq(Piece)]
  BY DEF Types
<1> HIDE DEF s, p
<1>7. wire[s] \in Seq(Piece)
  BY <1>1, <1>6
<1>8. /\ Append(wire[s], p) \in Seq(Piece) /\ Len(wire[s]) \in Nat
      /\ Len(Append(wire[s], p)) = Len(wire[s]) + 1
      /\ Append(wire[s], p)[Len(wire[s]) + 1] = p
      /\ \A k \in 1..Len(wire[s]) : Append(wire[s], p)[k] = wire[s][k]
  BY <1>4, <1>7
<1>9. wire'[s] = Append(wire[s], p) /\ wire' \in [Socks -> Seq(Piece)]
      /\ \A u \in Socks \ {s} : wire'[u] = wire[u]
  BY <1>1, <1>5, <1>6, <1>8
<1>10. QED
  BY <1>1, <1>4, <1>8, <1>9 DEF s, p

\* Every step keeps the types.
LEMMA TypesStep ==
    ASSUME Types, StageInv, IdInv, Next
    PROVE  Types'
<1>0. DeviceOK /\ InputOK
  BY TypesHere
<1>1. CASE External
  <2>1. DeviceOK' /\ InputOK'
    BY <1>0, <1>1, ExternalEffect DEF DeviceOK, InputOK
  <2>2. QED
    BY <1>1, <2>1, ExternalEffect, TypesNext DEF Types, TypeOK
<1>2. ASSUME NEW t \in Threads,
             \/ Begins(t) \/ SemWait(t) \/ SemSignal(t) \/ Return(t)
             \/ Rounds(t) \/ SendInactive(t) \/ RecvData(t) \/ EndsRecv(t)
             \/ Selects(t)
      PROVE  Types'
  <2>a. pc' \in [Threads -> PCs] /\ call' \in [Threads -> CallRec]
    BY <1>2, OneThread
  <2>b. sem \in Threads \cup {None} /\ calls \in 0..MaxCalls
    BY DEF Types, TypeOK
  <2>c. got \in [Threads -> SUBSET Chunk]
    BY DEF Types
  <2>1. CASE Begins(t)
    <3>1. UNCHANGED <<sem, device, inbox, taken, gone>> /\ calls' \in 0..MaxCalls
      BY <2>1, <2>b, BeginsEffect, BoundsAssumption
    <3>2. DeviceOK' /\ InputOK'
      BY <1>0, <2>1, <3>1, BeginsEffect DEF DeviceOK, InputOK, device
    <3>3. QED
      BY <2>a, <2>b, <3>1, <3>2, TypesNext
  <2>2. CASE SemWait(t) \/ SemSignal(t)
    <3>1. UNCHANGED <<calls, device, input>> /\ sem' \in Threads \cup {None}
      BY <2>2 DEF SemWait, SemSignal
    <3>2. DeviceOK' /\ InputOK'
      BY <1>0, <3>1 DEF DeviceOK, InputOK, device, input
    <3>3. QED
      BY <2>a, <2>b, <3>1, <3>2, TypesNext
  <2>3. CASE Return(t)
    <3>1. /\ UNCHANGED <<sem, calls, device, inbox, taken, gone>>
          /\ got' = [got EXCEPT ![t] = {}]
      BY <2>3 DEF Return
    <3>2. got' \in [Threads -> SUBSET Chunk]
      BY <3>1, <2>c
    <3>3. DeviceOK' /\ InputOK'
      BY <1>0, <3>1, <3>2 DEF DeviceOK, InputOK, device
    <3>4. QED
      BY <2>a, <2>b, <3>1, <3>3, TypesNext
  <2>4. CASE Rounds(t)
    <3>1. PICK n \in Nat :
             /\ Counted(t, n)
             /\ \/ Accepted(t, n) /\ UNCHANGED txError
                \/ UNCHANGED wire /\ blurred' = blurred \cup {call[t].id}
                                  /\ txError' \in {0, txError}
             /\ UNCHANGED <<sem, calls, active, open, input>>
      BY <2>4, SendEffect DEF Rounds
    <3>2. pc[t] = "sending"
      BY <3>1, CountedEffect
    <3>3. CASE Accepted(t, n) /\ UNCHANGED txError
      <4>1. wire' \in [Socks -> Seq(Piece)]
        BY <3>2, <3>3, AcceptedEffect
      <4>2. DeviceOK' /\ InputOK'
        BY <1>0, <3>1, <3>3, <4>1 DEF DeviceOK, InputOK, input, Accepted
      <4>3. QED
        BY <2>a, <2>b, <3>1, <4>2, TypesNext
    <3>4. CASE UNCHANGED wire /\ blurred' = blurred \cup {call[t].id}
                              /\ txError' \in {0, txError}
      <4>1. call[t].id \in 1..MaxCalls
        BY <3>2, <2>b, BoundsAssumption DEF IdInv
      <4>2. DeviceOK' /\ InputOK'
        BY <1>0, <3>1, <3>4, <4>1 DEF DeviceOK, InputOK, input
      <4>3. QED
        BY <2>a, <2>b, <3>1, <4>2, TypesNext
    <3>5. QED
      BY <3>1, <3>3, <3>4
  <2>5. CASE SendInactive(t) \/ Selects(t)
    <3>1. UNCHANGED <<sem, calls, device, input>>
      BY <2>5, InactiveEffect, SelectEffect DEF Selects
    <3>2. DeviceOK' /\ InputOK'
      BY <1>0, <3>1 DEF DeviceOK, InputOK, device, input
    <3>3. QED
      BY <2>a, <2>b, <3>1, <3>2, TypesNext
  <2>6. CASE RecvData(t)
    <3> DEFINE s == call[t].sk
    <3>1. PICK n \in Nat \ {0} :
             /\ pc[t] = "receiving"
             /\ call[t].sk \in Socks =>
                  /\ n <= inbox[call[t].sk]
                  /\ taken' = [taken EXCEPT ![call[t].sk] = @ + n]
                  /\ inbox' = [inbox EXCEPT ![call[t].sk] = @ - n]
             /\ got' = [got EXCEPT ![t] = @ \cup
                           {[at |-> call[t].wrt, pos |-> taken[call[t].sk], n |-> n]}]
             /\ UNCHANGED <<sem, calls, wire, open, txError, gone, blurred>>
             /\ active' \subseteq active
      BY <2>6, RecvDataEffect
    <3>2. s \in Socks /\ call[t].wrt \in Nat
      BY <3>1 DEF StageInv, StageOf, Types, TypeOK
    <3>3. /\ inbox \in [Socks -> Nat] /\ taken \in [Socks -> Nat]
          /\ MaxInput \in [Socks -> Nat]
          /\ \A u \in Socks : taken[u] + inbox[u] \in 0..MaxInput[u]
      BY BoundsAssumption DEF Types, TypeOK
    <3>4. [at |-> call[t].wrt, pos |-> taken[s], n |-> n] \in Chunk
      BY <3>2, <3>3 DEF Chunk
    <3>5. got' \in [Threads -> SUBSET Chunk]
      BY <2>c, <3>1, <3>4
    <3> HIDE DEF s
    <3>6. /\ n <= inbox[s]
          /\ taken' = [taken EXCEPT ![s] = @ + n]
          /\ inbox' = [inbox EXCEPT ![s] = @ - n]
      BY <3>1, <3>2 DEF s
    <3>7. inbox' \in [Socks -> Nat] /\ taken' \in [Socks -> Nat]
      BY <3>2, <3>3, <3>6
    <3>8. \A u \in Socks : taken'[u] + inbox'[u] = taken[u] + inbox[u]
      BY <3>2, <3>3, <3>6
    <3>9. DeviceOK' /\ InputOK'
      BY <1>0, <3>1, <3>5, <3>7, <3>8 DEF DeviceOK, InputOK
    <3>10. QED
      BY <2>a, <2>b, <3>1, <3>9, TypesNext
  <2>7. CASE EndsRecv(t)
    <3>1. /\ UNCHANGED <<sem, calls, wire, txError, blurred, input>>
          /\ open' \subseteq open /\ active' \subseteq active
      BY <2>7, RecvEndEffect DEF EndsRecv
    <3>2. DeviceOK' /\ InputOK'
      BY <1>0, <3>1 DEF DeviceOK, InputOK, input
    <3>3. QED
      BY <2>a, <2>b, <3>1, <3>2, TypesNext
  <2>8. QED
    BY <1>2, <2>1, <2>2, <2>3, <2>4, <2>5, <2>6, <2>7
<1>3. QED
  BY <1>1, <1>2, Kinds

\* Every step keeps the semaphore with the call that is inside.
LEMMA SemStep ==
    ASSUME Types, StageInv, SemInv, Next
    PROVE  SemInv'
<1>1. CASE External
  BY <1>1, ExternalEffect DEF SemInv
<1>2. ASSUME NEW t \in Threads,
             \/ Begins(t) \/ SemWait(t) \/ SemSignal(t) \/ Return(t)
             \/ Rounds(t) \/ SendInactive(t) \/ RecvData(t) \/ EndsRecv(t)
             \/ Selects(t)
      PROVE  SemInv'
  <2>a. \A u \in Threads \ {t} : pc'[u] = pc[u]
    BY <1>2, OneThread
  <2>1. CASE SemWait(t)
    <3>1. sem = None /\ sem' = t
      BY <2>1, SemWaitEffect
    <3>2. \A u \in Threads : pc[u] \notin Inside
      BY <3>1, SocksAssumption DEF SemInv
    <3>3. QED
      BY <2>a, <3>1, <3>2 DEF SemInv
  <2>2. CASE SemSignal(t)
    <3>1. pc[t] = "signal" /\ pc'[t] \notin Inside
      BY <2>2 DEF SemSignal, Goto, Inside, Types, TypeOK
    <3>2. \A u \in Threads \ {t} : pc[u] \notin Inside
      BY <3>1 DEF SemInv, Inside
    <3>3. QED
      BY <2>a, <3>1, <3>2 DEF SemInv
  <2>3. CASE Begins(t) \/ Return(t)
    <3>1. sem' = sem /\ pc'[t] \notin Inside
      BY <2>3, BeginsEffect, ReturnEffect DEF Inside
    <3>2. QED
      BY <2>a, <3>1 DEF SemInv
  <2>4. CASE Rounds(t)
    <3>1. PICK n \in Nat : Counted(t, n) /\ UNCHANGED <<sem, calls>>
      BY <2>4, SendEffect DEF Rounds
    <3>2. pc[t] \in Inside
      BY <3>1, CountedEffect DEF Inside
    <3>3. QED
      BY <2>a, <3>1, <3>2 DEF SemInv
  <2>5. CASE SendInactive(t) \/ Selects(t) \/ RecvData(t) \/ EndsRecv(t)
    <3>1. sem' = sem /\ pc[t] \in Inside
      BY <2>5, InactiveEffect, SelectEffect, RecvDataEffect, RecvEndEffect
         DEF Inside, Selects, EndsRecv
    <3>2. QED
      BY <2>a, <3>1 DEF SemInv
  <2>6. QED
    BY <1>2, <2>1, <2>2, <2>3, <2>4, <2>5
<1>3. QED
  BY <1>1, <1>2, Kinds

\* Calls keep their numbers, new ones get the next.
LEMMA IdKept ==
    ASSUME Types, StageInv, IdInv, NEW t \in Threads, pc[t] # "idle",
           call'[t].id = call[t].id, calls' = calls, UNCHANGED wire,
           \A u \in Threads \ {t} : pc'[u] = pc[u] /\ call'[u] = call[u]
    PROVE  IdInv'
<1>1. \A u \in Threads : /\ pc'[u] # "idle" => pc[u] # "idle"
                         /\ call'[u].id = call[u].id
  OBVIOUS
<1>2. QED
  BY <1>1 DEF IdInv

\* Every step keeps the numbers apart.
LEMMA IdStep ==
    ASSUME Types, StageInv, IdInv, Next
    PROVE  IdInv'
<1>1. CASE External
  BY <1>1, ExternalEffect DEF IdInv
<1>2. ASSUME NEW t \in Threads,
             \/ Begins(t) \/ SemWait(t) \/ SemSignal(t) \/ Return(t)
             \/ Rounds(t) \/ SendInactive(t) \/ RecvData(t) \/ EndsRecv(t)
             \/ Selects(t)
      PROVE  IdInv'
  <2>a. \A u \in Threads \ {t} : pc'[u] = pc[u] /\ call'[u] = call[u]
    BY <1>2, OneThread
  <2>1. CASE Begins(t)
    <3>a. calls' = calls + 1 /\ call'[t].id = calls' /\ UNCHANGED device
      BY <2>1, BeginsEffect
    <3>b. calls \in Nat
      BY BoundsAssumption DEF Types, TypeOK
    <3>1. /\ calls' = calls + 1 /\ call'[t].id = calls' /\ UNCHANGED wire
          /\ calls \in Nat
      BY <3>a, <3>b DEF device
    <3>2. \A u \in Threads \ {t} : pc'[u] # "idle" => call'[u].id \in 1..calls
      BY <2>a DEF IdInv
    <3>3. \A u \in Threads : pc'[u] # "idle" => call'[u].id \in 1..calls'
      BY <3>1, <3>2
    <3>4. \A u, v \in Threads : /\ u # v /\ pc'[u] # "idle" /\ pc'[v] # "idle"
                                => call'[u].id # call'[v].id
      BY <2>a, <3>1, <3>2 DEF IdInv
    <3>5. \A s \in Socks : \A k \in 1..Len(wire[s]) : wire[s][k].id <= calls'
      <4>1. ASSUME NEW s \in Socks, NEW k \in 1..Len(wire[s])
            PROVE  wire[s][k].id <= calls'
        <5>1. wire[s][k] \in Piece /\ wire[s][k].id <= calls
          BY DEF IdInv, Types
        <5>2. wire[s][k].id \in Nat
          BY <5>1, BoundsAssumption DEF Piece
        <5>3. QED
          BY <3>1, <5>1, <5>2
      <4>2. QED
        BY <4>1
    <3>6. QED
      BY <3>1, <3>3, <3>4, <3>5 DEF IdInv
  <2>2. CASE SemWait(t)
    BY <2>a, <2>2, SemWaitEffect, IdKept DEF device
  <2>3. CASE SemSignal(t)
    BY <2>a, <2>3, SemSignalEffect, IdKept DEF device
  <2>4. CASE Return(t)
    <3>1. pc'[t] = "idle" /\ UNCHANGED <<calls, wire>>
      BY <2>4, ReturnEffect DEF device
    <3>2. QED
      BY <2>a, <3>1 DEF IdInv
  <2>5. CASE Rounds(t)
    <3>1. PICK n \in Nat :
             /\ Counted(t, n) /\ (Accepted(t, n) \/ UNCHANGED wire)
             /\ UNCHANGED calls
      BY <2>5, SendEffect DEF Rounds
    <3>2. pc[t] = "sending" /\ call'[t].id = call[t].id
      BY <3>1, CountedEffect DEF Same
    <3>3. CASE UNCHANGED wire
      BY <2>a, <3>1, <3>2, <3>3, IdKept
    <3>4. CASE Accepted(t, n)
      <4> DEFINE s == call[t].sk
                 p == [id |-> call[t].id, from |-> call[t].base + call[t].wrt,
                       n |-> n]
      <4>1. /\ wire'[s][Len(wire[s]) + 1] = p /\ p.id = call[t].id
            /\ Len(wire'[s]) = Len(wire[s]) + 1 /\ Len(wire[s]) \in Nat
            /\ \A k \in 1..Len(wire[s]) : wire'[s][k] = wire[s][k]
            /\ \A u \in Socks \ {s} : wire'[u] = wire[u]
        BY <3>2, <3>4, AcceptedEffect
      <4>2. call[t].id <= calls
        BY <3>2 DEF IdInv
      <4> HIDE DEF p, s
      <4>3. ASSUME NEW u \in Socks, NEW k \in 1..Len(wire'[u])
            PROVE  wire'[u][k].id <= calls
        <5>1. CASE u = s /\ k = Len(wire[s]) + 1
          BY <4>1, <4>2, <5>1
        <5>2. CASE u = s /\ k # Len(wire[s]) + 1
          <6>1. k \in 1..Len(wire[s])
            BY <4>1, <5>2
          <6>2. QED
            BY <4>1, <5>2, <6>1 DEF IdInv
        <5>3. CASE u # s
          <6>1. wire'[u] = wire[u]
            BY <4>1, <5>3
          <6>2. QED
            BY <6>1 DEF IdInv
        <5>4. QED
          BY <5>1, <5>2, <5>3
      <4>4. \A u \in Threads : /\ pc'[u] # "idle" => pc[u] # "idle"
                               /\ call'[u].id = call[u].id
        BY <2>a, <3>2
      <4>5. QED
        BY <3>1, <4>3, <4>4 DEF IdInv
    <3>5. QED
      BY <3>1, <3>3, <3>4
  <2>6. CASE SendInactive(t)
    BY <2>a, <2>6, InactiveEffect, IdKept DEF device, Same
  <2>7. CASE Selects(t)
    BY <2>a, <2>7, SelectEffect, IdKept DEF device, Same, Selects
  <2>8. CASE RecvData(t)
    BY <2>a, <2>8, RecvDataEffect, IdKept DEF Same
  <2>9. CASE EndsRecv(t)
    BY <2>a, <2>9, RecvEndEffect, IdKept DEF Same, EndsRecv
  <2>10. QED
    BY <1>2, <2>1, <2>2, <2>3, <2>4, <2>5, <2>6, <2>7, <2>8, <2>9
<1>3. QED
  BY <1>1, <1>2, Kinds

\* The stage of a call fits what it does after every step.
LEMMA StageStep ==
    ASSUME Types, StageInv, Next
    PROVE  StageInv'
<1>1. CASE External
  BY <1>1, ExternalEffect DEF StageInv, StageOf
<1>2. ASSUME NEW t \in Threads,
             \/ Begins(t) \/ SemWait(t) \/ SemSignal(t) \/ Return(t)
             \/ Rounds(t) \/ SendInactive(t) \/ RecvData(t) \/ EndsRecv(t)
             \/ Selects(t)
      PROVE  StageInv'
  <2>a. \A u \in Threads \ {t} : pc'[u] = pc[u] /\ call'[u] = call[u]
    BY <1>2, OneThread
  <2>b. StageOf(t) /\ call[t].wrt \in Nat /\ call[t].len \in Int
    BY DEF StageInv, Types, TypeOK
  <2>1. CASE Begins(t)
    <3>1. StageOf(t)'
      BY <2>1, BeginsEffect DEF StageOf
    <3>2. QED
      BY <2>a, <3>1 DEF StageInv, StageOf
  <2>2. CASE SemWait(t)
    <3>1. StageOf(t)'
      BY <2>2, <2>b, SemWaitEffect DEF StageOf, Inside
    <3>2. QED
      BY <2>a, <3>1 DEF StageInv, StageOf
  <2>3. CASE SemSignal(t)
    <3>1. StageOf(t)'
      BY <2>3, <2>b, SemSignalEffect DEF StageOf, Same
    <3>2. QED
      BY <2>a, <3>1 DEF StageInv, StageOf
  <2>4. CASE Return(t)
    <3>1. StageOf(t)'
      BY <2>4, ReturnEffect DEF StageOf
    <3>2. QED
      BY <2>a, <3>1 DEF StageInv, StageOf
  <2>5. CASE Rounds(t)
    <3>1. PICK n \in Nat : Counted(t, n)
      BY <2>5, SendEffect DEF Rounds
    <3>a. /\ pc[t] = "sending" /\ pc'[t] \in {"sending", "signal"} /\ Same(t)
          /\ call'[t].wrt = call[t].wrt + n
          /\ pc'[t] # "signal" => call[t].wrt + n < call[t].len
      <4>1. /\ pc[t] = "sending" /\ pc'[t] \in {"sending", "signal"} /\ Same(t)
            /\ call'[t].wrt = call[t].wrt + n
            /\ pc'[t] = "signal" <=> \/ call[t].op = "sendto"
                                     \/ call[t].wrt + n >= call[t].len
        BY <3>1, CountedEffect
      <4>2. QED
        BY <2>b, <4>1
    <3>b. call[t].op \in Sends
      BY <2>b, <3>a DEF StageOf
    <3>2. StageOf(t)'
      BY <2>b, <3>a, <3>b DEF StageOf, Same, Sends
    <3>3. QED
      BY <2>a, <3>2 DEF StageInv, StageOf
  <2>6. CASE SendInactive(t)
    <3>1. StageOf(t)'
      BY <2>6, <2>b, InactiveEffect DEF StageOf, Same
    <3>2. QED
      BY <2>a, <3>1 DEF StageInv, StageOf
  <2>7. CASE Selects(t)
    <3>1. StageOf(t)'
      BY <2>7, <2>b, SelectEffect DEF StageOf, Same, Selects
    <3>2. QED
      BY <2>a, <3>1 DEF StageInv, StageOf
  <2>8. CASE RecvData(t)
    <3>1. StageOf(t)'
      BY <2>8, <2>b, RecvDataEffect DEF StageOf, Same
    <3>2. QED
      BY <2>a, <3>1 DEF StageInv, StageOf
  <2>9. CASE EndsRecv(t)
    <3>1. StageOf(t)'
      BY <2>9, <2>b, RecvEndEffect DEF StageOf, Same, EndsRecv
    <3>2. QED
      BY <2>a, <3>1 DEF StageInv, StageOf
  <2>10. QED
    BY <1>2, <2>1, <2>2, <2>3, <2>4, <2>5, <2>6, <2>7, <2>8, <2>9
<1>3. QED
  BY <1>1, <1>2, Kinds

\* The streams only go on: no socket reopens, and what can be read stays until
\* it is taken.
GoesForward == /\ open' \subseteq open /\ taken' \in [Socks -> Nat]
               /\ \A s \in Socks : /\ taken'[s] >= taken[s]
                                   /\ Readable(s) => Readable(s)' \/ taken'[s] > taken[s]

\* No step takes back what a socket has to read but a receive.
LEMMA Forward ==
    ASSUME Types, StageInv, Next
    PROVE  GoesForward
<1>0. inbox \in [Socks -> Nat] /\ taken \in [Socks -> Nat]
  BY DEF Types
<1>1. CASE UNCHANGED <<open, inbox, taken, gone>>
  BY <1>0, <1>1 DEF GoesForward, Readable
<1>2. CASE External
  <2>1. PICK s \in Socks : \/ \E b \in StatusBytes : DevSendFailed(s, b)
                           \/ PeerSends(s) \/ PeerEnds(s)
    BY <1>2 DEF External
  <2>2. CASE PeerSends(s)
    <3>1. inbox' = [inbox EXCEPT ![s] = @ + 1] /\ UNCHANGED <<open, taken, gone>>
      BY <2>2 DEF PeerSends, device
    <3>2. QED
      BY <1>0, <3>1 DEF GoesForward, Readable
  <2>3. CASE PeerEnds(s)
    BY <1>0, <2>3 DEF PeerEnds, device, GoesForward, Readable
  <2>4. CASE \E b \in StatusBytes : DevSendFailed(s, b)
    BY <1>1, <2>4 DEF DevSendFailed, input
  <2>5. QED
    BY <2>1, <2>2, <2>3, <2>4
<1>3. ASSUME NEW t \in Threads, RecvData(t) PROVE GoesForward
  <2>1. PICK n \in Nat \ {0} :
             /\ pc[t] = "receiving"
             /\ call[t].sk \in Socks =>
                  /\ taken' = [taken EXCEPT ![call[t].sk] = @ + n]
                  /\ inbox' = [inbox EXCEPT ![call[t].sk] = @ - n]
             /\ UNCHANGED <<open, gone>>
    BY <1>3, RecvDataEffect
  <2>2. call[t].sk \in Socks
    BY <2>1 DEF StageInv, StageOf
  <2>3. QED
    BY <1>0, <2>1, <2>2 DEF GoesForward, Readable
<1>4. ASSUME NEW t \in Threads, EndsRecv(t) PROVE GoesForward
  <2>1. open' \subseteq open /\ UNCHANGED input
    BY <1>4, RecvEndEffect DEF EndsRecv
  <2>2. QED
    BY <1>0, <2>1 DEF input, GoesForward, Readable
<1>5. ASSUME NEW t \in Threads,
             \/ Begins(t) \/ SemWait(t) \/ SemSignal(t) \/ Return(t)
             \/ Rounds(t) \/ SendInactive(t) \/ Selects(t)
      PROVE  UNCHANGED <<open, inbox, taken, gone>>
  BY <1>5, BeginsEffect, SemWaitEffect, SemSignalEffect, ReturnEffect, SendEffect,
     InactiveEffect, SelectEffect DEF Rounds, Selects, device, input
<1>6. QED
  BY <1>1, <1>2, <1>3, <1>4, <1>5, Kinds

\* A call that keeps its answer keeps what it knows of it.
LEMMA ReadyKept ==
    ASSUME Types, NEW t \in Threads, ReadyOf(t), GoesForward, Answer(t),
           call'[t].sk = call[t].sk,
           \/ call'[t].op = call[t].op
           \/ /\ call[t].op = "available" /\ call'[t].op = "recvfrom"
              /\ call[t].ready # {} \/ call[t].sk \notin open
    PROVE  ReadyOf(t)'
<1>1. /\ call[t].ready \subseteq Socks /\ taken \in [Socks -> Nat]
      /\ call[t].seen \in [Socks -> Nat] /\ open' \subseteq open
  BY DEF Types, CallRec, GoesForward
<1>2. ASSUME NEW s \in call'[t].ready PROVE Lasts(t, s)'
  <2>1. s \in Socks /\ s \in call[t].ready /\ Lasts(t, s)
    BY <1>1, <1>2 DEF Answer, ReadyOf
  <2>2. taken'[s] >= taken[s] /\ taken[s] \in Nat /\ call[t].seen[s] \in Nat
    BY <1>1, <2>1 DEF GoesForward
  <2>3. call'[t].seen = call[t].seen
    BY DEF Answer
  <2>4. taken'[s] \in Nat
    BY <2>1 DEF GoesForward
  <2>5. Readable(s) => Readable(s)' \/ taken'[s] > taken[s]
    BY <2>1 DEF GoesForward
  <2>6. taken[s] >= call[t].seen[s]
    BY <2>1 DEF Lasts
  <2>7. /\ taken'[s] >= call'[t].seen[s]
        /\ taken'[s] > taken[s] => taken'[s] > call'[t].seen[s]
        /\ taken[s] > call[t].seen[s] => taken'[s] > call'[t].seen[s]
    BY <2>2, <2>3, <2>4, <2>6
  <2>8. QED
    BY <2>1, <2>5, <2>7 DEF Lasts
<1>3. QED
  BY <1>1, <1>2 DEF ReadyOf, Answer

\* What a select was told, and the poll of a receive, lasts over every step.
LEMMA ReadyStep ==
    ASSUME Types, StageInv, ReadyInv, Next
    PROVE  ReadyInv'
<1>0. GoesForward
  BY Forward
<1>a. ASSUME NEW u \in Threads, call'[u] = call[u] PROVE ReadyOf(u)'
  BY <1>0, <1>a, ReadyKept DEF ReadyInv, Answer
<1>1. CASE External
  BY <1>1, <1>a, ExternalEffect DEF ReadyInv
<1>2. ASSUME NEW t \in Threads,
             \/ Begins(t) \/ SemWait(t) \/ SemSignal(t) \/ Return(t)
             \/ Rounds(t) \/ SendInactive(t) \/ RecvData(t) \/ EndsRecv(t)
             \/ Selects(t)
      PROVE  ReadyInv'
  <2>a. \A u \in Threads \ {t} : call'[u] = call[u]
    BY <1>2, OneThread
  <2>b. ReadyOf(t)
    BY DEF ReadyInv
  <2>1. ReadyOf(t)'
    <3>1. CASE Begins(t)
      BY <3>1, BeginsEffect
    <3>2. CASE SemWait(t)
      BY <1>a, <3>2, SemWaitEffect
    <3>3. CASE SemSignal(t)
      <4>1. /\ Answer(t) /\ call'[t].sk = call[t].sk
            /\ \/ call'[t].op = call[t].op
               \/ /\ call[t].op = "available" /\ call'[t].op = "recvfrom"
                  /\ call[t].ready # {} \/ call[t].sk \notin open
        BY <3>3, SemSignalEffect DEF Same
      <4>2. QED
        BY <1>0, <2>b, <4>1, ReadyKept
    <3>4. CASE Return(t)
      BY <3>4, ReturnEffect DEF ReadyOf
    <3>5. CASE Rounds(t)
      <4>1. PICK n \in Nat : Counted(t, n)
        BY <3>5, SendEffect DEF Rounds
      <4>2. Same(t) /\ Answer(t)
        BY <4>1, CountedEffect
      <4>3. QED
        BY <1>0, <2>b, <4>2, ReadyKept DEF Same
    <3>6. CASE SendInactive(t) \/ RecvData(t) \/ EndsRecv(t)
      <4>1. Same(t) /\ Answer(t)
        BY <3>6, InactiveEffect, RecvDataEffect, RecvEndEffect DEF EndsRecv
      <4>2. QED
        BY <1>0, <2>b, <4>1, ReadyKept DEF Same
    <3>7. CASE Selects(t)
      <4>1. /\ Same(t) /\ call'[t].asked = call[t].asked /\ UNCHANGED <<device, input>>
            /\ call'[t].reported \subseteq call'[t].ready
            /\ call'[t].ready \subseteq call[t].asked
            /\ \A s \in call'[t].ready :
                   Readable(s) /\ call'[t].seen[s] = taken[s]
            /\ pc[t] = "selecting"
        BY <3>7, SelectEffect DEF Selects
      <4>2. \A s \in call'[t].ready : Lasts(t, s)'
        <5> TAKE s \in call'[t].ready
        <5>1. Readable(s)' /\ taken'[s] = call'[t].seen[s]
          BY <4>1 DEF device, input, Readable
        <5>2. s \in Socks
          BY <4>1 DEF Types, CallRec
        <5>3. taken'[s] \in Nat
          BY <1>0, <5>2 DEF GoesForward
        <5>4. QED
          BY <5>1, <5>3 DEF Lasts
      <4>3. call[t].op \in {"available", "select"}
        BY <4>1 DEF StageInv, StageOf
      <4>4. QED
        BY <2>b, <4>1, <4>2, <4>3 DEF ReadyOf, Same
    <3>8. QED
      BY <1>2, <3>1, <3>2, <3>3, <3>4, <3>5, <3>6, <3>7
  <2>2. QED
    BY <1>a, <2>a, <2>1 DEF ReadyInv
<1>3. QED
  BY <1>1, <1>2, Kinds

\* Steps that leave the wire alone keep what the other calls have in hand.
LEMMA HandFrame ==
    ASSUME Types, InHand, NEW u \in Threads, pc'[u] = pc[u], call'[u] = call[u],
           UNCHANGED wire, active' \subseteq active
    PROVE  InHandOf(u)'
BY DEF InHand, InHandOf, HasSent, Spent, GoesOn, LastOf

\* A portion is sent where the last one of its call ended, if there was one.
LEMMA TogetherStep ==
    ASSUME Types, IdInv, InHand, CallsStayTogether, NEW t \in Threads,
           NEW n \in Nat, Accepted(t, n), pc[t] = "sending"
    PROVE  CallsStayTogether'
<1> DEFINE s == call[t].sk
           p == [id |-> call[t].id, from |-> call[t].base + call[t].wrt, n |-> n]
           m == Len(wire[s])
<1>1. /\ s \in Socks /\ wire'[s][m + 1] = p /\ p.id = call[t].id
      /\ p.from = call[t].base + call[t].wrt
      /\ Len(wire'[s]) = m + 1 /\ m \in Nat
      /\ \A k \in 1..m : wire'[s][k] = wire[s][k]
      /\ \A u \in Socks \ {s} : wire'[u] = wire[u]
  BY AcceptedEffect
<1>2. \A j \in 1..m : wire[s][j].id = call[t].id =>
          /\ wire[s][m].id = call[t].id
          /\ wire[s][m].from + wire[s][m].n <= p.from
  <2>1. ASSUME NEW j \in 1..m, wire[s][j].id = call[t].id
        PROVE  GoesOn(t)
    <3>1. HasSent(t)
      BY <1>1, <2>1 DEF HasSent
    <3>2. ~Spent(t)
      BY DEF Spent, Accepted
    <3>3. QED
      BY <3>1, <3>2 DEF InHand, InHandOf
  <2>2. QED
    BY <1>1, <2>1 DEF GoesOn, LastOf
<1> HIDE DEF p, s, m
<1>3. ASSUME NEW r \in Socks, NEW j \in 1..Len(wire'[r]), NEW k \in 1..Len(wire'[r]),
             j < k, wire'[r][j].id = wire'[r][k].id
      PROVE  /\ wire'[r][j + 1].id = wire'[r][j].id
             /\ wire'[r][j].from + wire'[r][j].n <= wire'[r][j + 1].from
  <2>1. CASE r # s
    <3>1. wire'[r] = wire[r]
      BY <1>1, <2>1
    <3>2. QED
      BY <1>3, <3>1 DEF CallsStayTogether
  <2>2. CASE r = s /\ k \in 1..m
    <3>1. j \in 1..m /\ j + 1 \in 1..m
      BY <1>1, <1>3, <2>2
    <3>2. /\ wire'[r][j] = wire[s][j] /\ wire'[r][k] = wire[s][k]
          /\ wire'[r][j + 1] = wire[s][j + 1]
      BY <1>1, <2>2, <3>1
    <3>3. /\ wire[s][j + 1].id = wire[s][j].id
          /\ wire[s][j].from + wire[s][j].n <= wire[s][j + 1].from
      BY <1>1, <1>3, <2>2, <3>1, <3>2 DEF CallsStayTogether, m
    <3>4. QED
      BY <3>2, <3>3
  <2>3. CASE r = s /\ k = m + 1
    <3>1. j \in 1..m
      BY <1>1, <1>3, <2>3
    <3>2. wire'[r][j] = wire[s][j] /\ wire[s][j].id = call[t].id
      BY <1>1, <1>3, <2>3, <3>1
    <3>3. wire[s][m].id = call[t].id /\ wire[s][m].from + wire[s][m].n <= p.from
      BY <1>2, <3>1, <3>2
    <3>4. CASE j = m
      BY <1>1, <2>3, <3>2, <3>3, <3>4
    <3>5. CASE j # m
      <4>1. j < m /\ j + 1 \in 1..m /\ m \in 1..m
        BY <1>1, <3>1, <3>5
      <4>2. wire'[r][j + 1] = wire[s][j + 1]
        BY <1>1, <2>3, <4>1
      <4>3. /\ wire[s][j + 1].id = wire[s][j].id
            /\ wire[s][j].from + wire[s][j].n <= wire[s][j + 1].from
        BY <1>1, <3>1, <3>2, <3>3, <4>1 DEF CallsStayTogether, m
      <4>4. QED
        BY <3>2, <4>2, <4>3
    <3>6. QED
      BY <3>4, <3>5
  <2>4. QED
    BY <1>1, <2>1, <2>2, <2>3
<1>4. QED
  BY <1>3 DEF CallsStayTogether

\* Every step keeps the pieces of a call together.
LEMMA WireStep ==
    ASSUME Types, StageInv, IdInv, InHand, CallsStayTogether, Next
    PROVE  CallsStayTogether'
<1>1. CASE External
  BY <1>1, ExternalEffect DEF CallsStayTogether
<1>2. ASSUME NEW t \in Threads, Rounds(t)
      PROVE  CallsStayTogether'
  <2>1. PICK n \in Nat : Counted(t, n) /\ (Accepted(t, n) \/ UNCHANGED wire)
    BY <1>2, SendEffect DEF Rounds
  <2>2. pc[t] = "sending"
    BY <2>1, CountedEffect
  <2>3. QED
    BY <2>1, <2>2, TogetherStep DEF CallsStayTogether
<1>3. ASSUME NEW t \in Threads,
             \/ Begins(t) \/ SemWait(t) \/ SemSignal(t) \/ Return(t)
             \/ SendInactive(t) \/ RecvData(t) \/ EndsRecv(t) \/ Selects(t)
      PROVE  CallsStayTogether'
  <2>1. UNCHANGED wire
    BY <1>3, BeginsEffect, SemWaitEffect, SemSignalEffect, ReturnEffect,
       InactiveEffect, RecvDataEffect, RecvEndEffect, SelectEffect
       DEF device, EndsRecv, Selects
  <2>2. QED
    BY <2>1 DEF CallsStayTogether
<1>4. QED
  BY <1>1, <1>2, <1>3, Kinds

\* A round leaves its call where the portion ended, and the others as they
\* were: the thread that holds sem is the only one that goes on.
LEMMA HandRound ==
    ASSUME Types, StageInv, SemInv, IdInv, InHand, NEW t \in Threads, Rounds(t)
    PROVE  InHand'
<1>1. PICK n \in Nat :
         /\ Counted(t, n)
         /\ \/ Accepted(t, n) /\ UNCHANGED txError
            \/ UNCHANGED wire /\ blurred' = blurred \cup {call[t].id}
                              /\ txError' \in {0, txError}
         /\ UNCHANGED <<sem, calls, active, open, input>>
  BY SendEffect DEF Rounds
<1>2. /\ pc[t] = "sending" /\ pc'[t] \in {"sending", "signal"} /\ Same(t)
      /\ call'[t].wrt = call[t].wrt + n
      /\ pc'[t] = "signal" <=> \/ call[t].op = "sendto"
                               \/ call[t].wrt + n >= call[t].len
      /\ \A u \in Threads \ {t} : pc'[u] = pc[u] /\ call'[u] = call[u]
  BY <1>1, CountedEffect
<1>3. /\ call[t].op \in Sends /\ call[t].wrt \in Nat /\ call[t].base \in Nat
      /\ call[t].len \in Int
  BY <1>2 DEF StageInv, StageOf, Types, TypeOK
<1>4. pc'[t] = "signal" => Spent(t)'
  BY <1>2, <1>3 DEF Spent, Same, Sends
<1>5. CASE UNCHANGED wire
  <2>1. \A u \in Threads \ {t} : InHandOf(u)'
    BY <1>1, <1>2, <1>5, HandFrame
  <2>2. InHandOf(t)'
    <3>1. CASE pc'[t] = "signal" \/ ~HasSent(t)'
      BY <1>2, <1>3, <1>4, <3>1 DEF InHandOf, Same
    <3>2. CASE pc'[t] = "sending" /\ HasSent(t)'
      <4>1. HasSent(t)
        BY <1>2, <1>5, <3>2 DEF HasSent, Same
      <4>2. Spent(t) \/ GoesOn(t)
        BY <1>2, <4>1 DEF InHand, InHandOf
      <4>3. CASE Spent(t)
        BY <1>1, <1>2, <1>3, <4>3 DEF Spent, InHandOf, Same
      <4>4. CASE GoesOn(t)
        <5>0. call[t].sk \in Socks
          BY <1>2, <1>3 DEF StageInv, StageOf, Sends
        <5>1. /\ call'[t].sk = call[t].sk /\ call'[t].sk \in Socks
              /\ call'[t].id = call[t].id /\ call'[t].base = call[t].base
              /\ call'[t].op = call[t].op /\ call[t].op # "sendto"
          BY <1>2, <4>4, <5>0 DEF Same, GoesOn
        <5>2. LastOf(call[t].sk) \in Piece
          BY <4>4, <5>1 DEF LastOf, GoesOn, Types
        <5>3. LastOf(call[t].sk).from \in Nat /\ LastOf(call[t].sk).n \in Nat
          BY <5>2 DEF Piece
        <5>4. LastOf(call[t].sk).from + LastOf(call[t].sk).n
                  <= call[t].base + (call[t].wrt + n)
          BY <1>3, <4>4, <5>3 DEF GoesOn
        <5>5. GoesOn(t)'
          BY <1>2, <1>5, <3>2, <4>4, <5>1, <5>4 DEF GoesOn, LastOf
        <5>6. QED
          BY <1>3, <5>1, <5>5 DEF InHandOf
      <4>5. QED
        BY <4>2, <4>3, <4>4
    <3>3. QED
      BY <1>2, <3>1, <3>2
  <2>3. QED
    BY <2>1, <2>2 DEF InHand

<1>6. CASE Accepted(t, n)
  <2> DEFINE s == call[t].sk
             p == [id |-> call[t].id, from |-> call[t].base + call[t].wrt,
                   n |-> n]
             m == Len(wire[s])
  <2>1. /\ s \in Socks /\ wire'[s][m + 1] = p /\ p.id = call[t].id
        /\ p.from = call[t].base + call[t].wrt /\ p.n = n
        /\ Len(wire'[s]) = m + 1 /\ m \in Nat
        /\ \A k \in 1..m : wire'[s][k] = wire[s][k]
        /\ \A u \in Socks \ {s} : wire'[u] = wire[u]
    BY <1>2, <1>6, AcceptedEffect
  <2>2. /\ call'[t].sk = s /\ call'[t].id = call[t].id /\ call'[t].op = call[t].op
        /\ call'[t].base = call[t].base
    BY <1>2 DEF Same
  <2> HIDE DEF s, p, m
  <2>3. InHandOf(t)'
    <3>1. CASE pc'[t] = "signal"
      BY <1>2, <1>3, <1>4, <2>2, <3>1 DEF InHandOf
    <3>2. CASE pc'[t] = "sending"
      <4>1. call'[t].op # "sendto"
        BY <1>2, <2>2, <3>2
      <4>2. wire'[s][Len(wire'[s])] = p /\ Len(wire'[s]) > 0
        BY <2>1
      <4>3. p.from + p.n <= call'[t].base + call'[t].wrt
        BY <1>2, <1>3, <2>1, <2>2
      <4>4. GoesOn(t)'
        BY <2>1, <2>2, <3>2, <4>1, <4>2, <4>3 DEF GoesOn, LastOf
      <4>5. QED
        BY <1>3, <2>2, <4>4 DEF InHandOf
    <3>3. QED
      BY <1>2, <3>1, <3>2
  <2>4. ASSUME NEW u \in Threads \ {t}, pc'[u] # "idle", HasSent(u)'
        PROVE  call'[u].op \in Sends /\ (Spent(u)' \/ GoesOn(u)')
    <3>1. pc'[u] = pc[u] /\ call'[u] = call[u] /\ active' = active
      BY <1>1, <1>2
    <3>2. call[u].id # call[t].id
      BY <1>2, <2>4, <3>1 DEF IdInv
    <3>3. HasSent(u)
      <4>a. PICK r \in Socks : \E k \in 1..Len(wire'[r]) :
                                   wire'[r][k].id = call[u].id
        BY <2>4, <3>1 DEF HasSent
      <4>1. PICK k \in 1..Len(wire'[r]) : wire'[r][k].id = call[u].id
        BY <4>a
      <4>2. CASE r = s
        <5>1. k # m + 1
          BY <2>1, <3>2, <4>1, <4>2
        <5>2. k \in 1..m
          BY <2>1, <4>2, <5>1
        <5>3. wire[s][k].id = call[u].id /\ k \in 1..Len(wire[s])
          BY <2>1, <4>1, <4>2, <5>2 DEF m
        <5>4. QED
          BY <2>1, <5>3 DEF HasSent
      <4>3. CASE r # s
        <5>1. wire'[r] = wire[r]
          BY <2>1, <4>3
        <5>2. QED
          BY <4>1, <5>1 DEF HasSent
      <4>4. QED
        BY <4>2, <4>3
    <3>4. pc[u] # "sending"
      BY <1>2 DEF SemInv, Inside
    <3>5. call[u].op \in Sends /\ Spent(u)
      BY <2>4, <3>1, <3>3, <3>4 DEF InHand, InHandOf, GoesOn
    <3>6. QED
      BY <3>1, <3>5 DEF Spent
  <2>5. \A u \in Threads \ {t} : InHandOf(u)'
    BY <2>4 DEF InHandOf
  <2>6. QED
    BY <2>3, <2>5 DEF InHand
<1>7. QED
  BY <1>1, <1>5, <1>6

\* Every step keeps what the calls have in hand.
LEMMA HandStep ==
    ASSUME Types, StageInv, SemInv, IdInv, InHand, Next
    PROVE  InHand'
<1>1. CASE External
  BY <1>1, ExternalEffect, HandFrame DEF InHand
<1>2. ASSUME NEW t \in Threads, Rounds(t)
      PROVE  InHand'
  BY <1>2, HandRound
<1>3. ASSUME NEW t \in Threads,
             \/ Begins(t) \/ SemWait(t) \/ SemSignal(t) \/ Return(t)
             \/ SendInactive(t) \/ RecvData(t) \/ EndsRecv(t) \/ Selects(t)
      PROVE  InHand'
  <2>1. UNCHANGED wire /\ active' \subseteq active
    BY <1>3, BeginsEffect, SemWaitEffect, SemSignalEffect, ReturnEffect,
       InactiveEffect, RecvDataEffect, RecvEndEffect, SelectEffect
       DEF device, EndsRecv, Selects
  <2>2. \A u \in Threads \ {t} : pc'[u] = pc[u] /\ call'[u] = call[u]
    BY <1>3, OneThread
  <2>3. \A u \in Threads \ {t} : InHandOf(u)'
    BY <2>1, <2>2, HandFrame
  <2>a. call'[t].id = call[t].id => (HasSent(t)' => HasSent(t))
    BY <2>1 DEF HasSent
  <2>b. StageOf(t) /\ InHandOf(t) /\ call[t].wrt \in Nat /\ call[t].len \in Int
    BY DEF StageInv, InHand, Types, TypeOK
  <2>4. CASE Begins(t)
    <3>1. call'[t].id = calls + 1 /\ calls \in Nat
      BY <2>4, BeginsEffect DEF Types, TypeOK
    <3>2. ~HasSent(t)'
      BY <2>1, <3>1 DEF HasSent, IdInv
    <3>3. QED
      BY <2>3, <3>2 DEF InHand, InHandOf
  <2>5. CASE SemWait(t)
    <3>1. call' = call /\ pc[t] = "semWait"
      BY <2>5, SemWaitEffect
    <3>2. HasSent(t) => call[t].op \in Sends /\ call[t].sk \notin active
      BY <2>b, <3>1 DEF InHandOf, Spent, GoesOn
    <3>3. InHandOf(t)'
      BY <2>1, <2>a, <3>1, <3>2 DEF InHandOf, Spent
    <3>4. QED
      BY <2>3, <3>3 DEF InHand
  <2>6. CASE SemSignal(t)
    <3>1. /\ pc[t] = "signal" /\ call'[t].id = call[t].id /\ call'[t].sk = call[t].sk
          /\ call[t].op \notin {"sendall", "available"} =>
                 pc'[t] = "return" /\ Same(t)
          /\ call[t].op = "sendall" =>
                 /\ call'[t].len = call[t].len - call[t].wrt
                 /\ call'[t].op = "sendall"
                 /\ IF call'[t].len > 0 THEN pc'[t] = "semWait"
                                        ELSE pc'[t] = "return"
      BY <2>6, SemSignalEffect
    <3>2. HasSent(t)' => call[t].op \in Sends /\ Spent(t)
      BY <2>a, <2>b, <3>1 DEF InHandOf, GoesOn
    <3>3. CASE call[t].op \in {"send", "sendto"}
      BY <2>3, <3>1, <3>2, <3>3 DEF InHand, InHandOf, Spent, Same, Sends
    <3>4. CASE call[t].op = "sendall"
      <4>1. HasSent(t)' => \/ call[t].wrt >= call[t].len
                           \/ call[t].sk \notin active
        BY <3>1, <3>2, <3>4 DEF Spent
      <4>2. call[t].wrt >= call[t].len => pc'[t] = "return"
        BY <2>b, <3>1, <3>4
      <4>3. InHandOf(t)'
        BY <2>1, <3>1, <3>4, <4>1, <4>2 DEF InHandOf, Spent, Sends
      <4>4. QED
        BY <2>3, <4>3 DEF InHand
    <3>5. CASE call[t].op \notin Sends
      BY <2>3, <3>2, <3>5 DEF InHand, InHandOf
    <3>6. QED
      BY <3>3, <3>4, <3>5 DEF Sends
  <2>7. CASE Return(t)
    <3>1. pc'[t] = "idle"
      BY <2>7, ReturnEffect
    <3>2. QED
      BY <2>3, <3>1 DEF InHand, InHandOf
  <2>8. CASE SendInactive(t)
    <3>1. pc[t] = "sending" /\ Same(t) /\ call[t].sk \notin active
      BY <2>8, InactiveEffect
    <3>2. InHandOf(t)'
      BY <2>1, <2>b, <3>1 DEF InHandOf, Spent, Same, StageOf
    <3>3. QED
      BY <2>3, <3>2 DEF InHand
  <2>9. CASE RecvData(t) \/ EndsRecv(t) \/ Selects(t)
    <3>1. pc[t] \in {"receiving", "selecting"} /\ call'[t].id = call[t].id
      BY <2>9, RecvDataEffect, RecvEndEffect, SelectEffect
         DEF EndsRecv, Selects, Same
    <3>2. call[t].op \notin Sends
      BY <2>b, <3>1 DEF StageOf, Sends
    <3>3. ~HasSent(t)'
      BY <2>a, <2>b, <3>1, <3>2 DEF InHandOf
    <3>4. QED
      BY <2>3, <3>3 DEF InHand, InHandOf
  <2>10. QED
    BY <1>3, <2>4, <2>5, <2>6, <2>7, <2>8, <2>9
<1>4. QED
  BY <1>1, <1>2, <1>3, Kinds

-----------------------------------------------------------------------------
(* The bytes of a call that the device has accepted.                       *)

InPiece(w, i, b) ==
    \E s \in Socks : \E k \in 1..Len(w[s]) :
        w[s][k].id = i /\ b \in w[s][k].from..(w[s][k].from + w[s][k].n - 1)

\* They are those of its pieces.
LEMMA BytesMember ==
    ASSUME NEW w \in [Socks -> Seq(Piece)], NEW i, NEW b
    PROVE  b \in Bytes(w, i) <=> InPiece(w, i, b)
<1> DEFINE Mine == UNION {{w[s][k] : k \in {k \in 1..Len(w[s]) : w[s][k].id = i}} :
                          s \in Socks}
<1>1. \A q : q \in Mine <=> \E s \in Socks : \E k \in 1..Len(w[s]) :
                                w[s][k].id = i /\ q = w[s][k]
  OBVIOUS
<1> HIDE DEF Mine
<1>2. b \in BytesOf(Mine) <=> \E q \in Mine : b \in q.from..(q.from + q.n - 1)
  BY DEF BytesOf
<1>3. b \in BytesOf(Mine) <=>
          \E s \in Socks : \E k \in 1..Len(w[s]) :
              w[s][k].id = i /\ b \in w[s][k].from..(w[s][k].from + w[s][k].n - 1)
  BY <1>1, <1>2
<1>4. QED
  BY <1>3 DEF Bytes, Mine, InPiece

\* A portion adds its stretch to its call and nothing to the others.
LEMMA AcceptedBytes ==
    ASSUME Types, IdInv, NEW t \in Threads, NEW n \in Nat, Accepted(t, n),
           pc[t] = "sending", NEW i
    PROVE  LET f == call[t].base + call[t].wrt
           IN  /\ i # call[t].id => Bytes(wire', i) = Bytes(wire, i)
               /\ i = call[t].id =>
                      Bytes(wire', i) = Bytes(wire, i) \cup (f..(f + n - 1))
<1> DEFINE s == call[t].sk
           f == call[t].base + call[t].wrt
           p == [id |-> call[t].id, from |-> f, n |-> n]
           m == Len(wire[s])
<1>1. /\ s \in Socks /\ wire'[s][m + 1] = p
      /\ Len(wire'[s]) = m + 1 /\ m \in Nat
      /\ \A k \in 1..m : wire'[s][k] = wire[s][k]
      /\ \A u \in Socks \ {s} : wire'[u] = wire[u]
      /\ wire' \in [Socks -> Seq(Piece)] /\ wire \in [Socks -> Seq(Piece)]
  BY AcceptedEffect DEF Types
<1>2. p.id = call[t].id /\ p.from = f /\ p.n = n
  OBVIOUS
<1>a. m = Len(wire[s])
  OBVIOUS
<1> HIDE DEF s, p, m, f
<1>b. \A b : /\ b \in Bytes(wire, i) <=> InPiece(wire, i, b)
             /\ b \in Bytes(wire', i) <=> InPiece(wire', i, b)
  BY <1>1, BytesMember
<1>3. ASSUME NEW b, b \in Bytes(wire, i)
      PROVE  b \in Bytes(wire', i)
  <2>1. PICK r \in Socks : \E k \in 1..Len(wire[r]) :
            wire[r][k].id = i
              /\ b \in wire[r][k].from..(wire[r][k].from + wire[r][k].n - 1)
    BY <1>b, <1>3 DEF InPiece
  <2>2. PICK k \in 1..Len(wire[r]) :
            wire[r][k].id = i
              /\ b \in wire[r][k].from..(wire[r][k].from + wire[r][k].n - 1)
    BY <2>1
  <2>3. k \in 1..Len(wire'[r]) /\ wire'[r][k] = wire[r][k]
    <3>1. CASE r = s
      BY <1>1, <1>a, <3>1
    <3>2. CASE r # s
      <4>1. wire'[r] = wire[r]
        BY <1>1, <3>2
      <4>2. QED
        BY <4>1
    <3>3. QED
      BY <3>1, <3>2
  <2>4. QED
    BY <1>b, <2>2, <2>3 DEF InPiece
<1>4. ASSUME NEW b, b \in Bytes(wire', i)
      PROVE  b \in Bytes(wire, i) \/ (i = call[t].id /\ b \in f..(f + n - 1))
  <2>1. PICK r \in Socks : \E k \in 1..Len(wire'[r]) :
            wire'[r][k].id = i
              /\ b \in wire'[r][k].from..(wire'[r][k].from + wire'[r][k].n - 1)
    BY <1>b, <1>4 DEF InPiece
  <2>2. PICK k \in 1..Len(wire'[r]) :
            wire'[r][k].id = i
              /\ b \in wire'[r][k].from..(wire'[r][k].from + wire'[r][k].n - 1)
    BY <2>1
  <2>3. CASE r = s /\ k = m + 1
    BY <1>1, <1>2, <2>2, <2>3
  <2>4. CASE r # s \/ k # m + 1
    <3>1. k \in 1..Len(wire[r]) /\ wire'[r][k] = wire[r][k]
      <4>1. CASE r = s
        BY <1>1, <1>a, <2>4, <4>1
      <4>2. CASE r # s
        <5>1. wire'[r] = wire[r]
          BY <1>1, <4>2
        <5>2. QED
          BY <5>1
      <4>3. QED
        BY <4>1, <4>2
    <3>2. QED
      BY <1>b, <2>2, <3>1 DEF InPiece
  <2>5. QED
    BY <2>3, <2>4
<1>5. ASSUME NEW b, i = call[t].id, b \in f..(f + n - 1)
      PROVE  b \in Bytes(wire', i)
  <2>1. m + 1 \in 1..Len(wire'[s])
    BY <1>1
  <2>2. /\ wire'[s][m + 1].id = i
        /\ b \in wire'[s][m + 1].from..(wire'[s][m + 1].from + wire'[s][m + 1].n - 1)
    BY <1>1, <1>2, <1>5
  <2>3. s \in Socks
    BY <1>1
  <2>4. QED
    BY <1>b, <2>1, <2>2, <2>3 DEF InPiece
<1>6. QED
  BY <1>3, <1>4, <1>5 DEF f

\* A number above those given has no bytes yet.
LEMMA FreshBytes ==
    ASSUME Types, IdInv
    PROVE  Bytes(wire, calls + 1) = {}
<1>1. ASSUME NEW b, b \in Bytes(wire, calls + 1)
      PROVE  FALSE
  <2>a. wire \in [Socks -> Seq(Piece)]
    BY DEF Types
  <2>b. \E r \in Socks : \E k \in 1..Len(wire[r]) :
            wire[r][k].id = calls + 1
              /\ b \in wire[r][k].from..(wire[r][k].from + wire[r][k].n - 1)
    BY <1>1, <2>a, BytesMember DEF InPiece
  <2>1. PICK r \in Socks : \E k \in 1..Len(wire[r]) : wire[r][k].id = calls + 1
    BY <2>b
  <2>2. calls \in Nat
    BY DEF Types, TypeOK
  <2>3. QED
    BY <2>1, <2>2 DEF IdInv
<1>2. QED
  BY <1>1

\* A round counts what it adds, if the call is not told of a send that is none.
LEMMA SentRound ==
    ASSUME Types, StageInv, IdInv, SentInv, NEW t \in Threads, Rounds(t)
    PROVE  SentInv'
<1>1. PICK n \in Nat :
         /\ Counted(t, n)
         /\ \/ Accepted(t, n) /\ UNCHANGED txError
            \/ UNCHANGED wire /\ blurred' = blurred \cup {call[t].id}
                              /\ txError' \in {0, txError}
         /\ UNCHANGED <<sem, calls, active, open, input>>
  BY SendEffect DEF Rounds
<1>2. /\ pc[t] = "sending" /\ pc'[t] \in {"sending", "signal"} /\ Same(t)
      /\ call'[t].wrt = call[t].wrt + n
      /\ \A u \in Threads \ {t} : pc'[u] = pc[u] /\ call'[u] = call[u]
  BY <1>1, CountedEffect
<1>3. /\ call[t].wrt \in Nat /\ call[t].base \in Nat /\ call[t].len \in Int
      /\ SentOf(t)
  BY DEF Types, TypeOK, SentInv
<1>4. \A u \in Threads \ {t} : pc[u] # "idle" => call[u].id # call[t].id
  BY <1>2 DEF IdInv
<1>5. CASE UNCHANGED wire /\ blurred' = blurred \cup {call[t].id}
  <2>1. \A u \in Threads \ {t} : SentOf(u)'
    BY <1>2, <1>5 DEF SentInv, SentOf
  <2>2. SentOf(t)'
    BY <1>2, <1>5 DEF SentOf, Same
  <2>3. QED
    BY <2>1, <2>2 DEF SentInv
<1>6. CASE Accepted(t, n)
  <2> DEFINE f == call[t].base + call[t].wrt
  <2>1. \A i : /\ i # call[t].id => Bytes(wire', i) = Bytes(wire, i)
               /\ i = call[t].id =>
                      Bytes(wire', i) = Bytes(wire, i) \cup (f..(f + n - 1))
    BY <1>2, <1>6, AcceptedBytes
  <2>2. UNCHANGED blurred /\ n = Portion(call[t])
    BY <1>6 DEF Accepted
  <2>a. f \in Nat /\ f = call[t].base + call[t].wrt
    BY <1>3
  <2> HIDE DEF f
  <2>3. \A u \in Threads \ {t} : SentOf(u)'
    <3>1. ASSUME NEW u \in Threads \ {t}
          PROVE  SentOf(u)'
      <4>1. SentOf(u) /\ pc'[u] = pc[u] /\ call'[u] = call[u]
        BY <1>2 DEF SentInv
      <4>2. pc[u] # "idle" => Bytes(wire', call[u].id) = Bytes(wire, call[u].id)
        BY <1>4, <2>1
      <4>3. QED
        BY <2>2, <4>1, <4>2 DEF SentOf
    <3>2. QED
      BY <3>1
  <2>4. ASSUME call[t].id \notin blurred, call[t].op \in {"send", "sendall"}
        PROVE  /\ Bytes(wire', call[t].id) = 0..(call[t].base + call'[t].wrt - 1)
               /\ call'[t].wrt <= call[t].len
    <3>1. Bytes(wire, call[t].id) = 0..(f - 1) /\ call[t].wrt <= call[t].len
      BY <1>2, <1>3, <2>4, <2>a DEF SentOf
    <3>2. Bytes(wire', call[t].id) = (0..(f - 1)) \cup (f..(f + n - 1))
      BY <2>1, <3>1
    <3>3. (0..(f - 1)) \cup (f..(f + n - 1)) = 0..(f + n - 1)
      BY <2>a
    <3>4. f + n - 1 = call[t].base + call'[t].wrt - 1
      BY <1>2, <1>3, <2>a
    <3>5. n <= call[t].len - call[t].wrt
      BY <1>3, <2>2, <2>4, PortionsAssumption DEF Portion, Least
    <3>6. QED
      BY <1>2, <1>3, <3>2, <3>3, <3>4, <3>5
  <2>5. SentOf(t)'
    BY <1>2, <2>2, <2>4 DEF SentOf, Same
  <2>6. QED
    BY <2>3, <2>5 DEF SentInv
<1>7. QED
  BY <1>1, <1>5, <1>6

\* Every step keeps the count with what was accepted.
LEMMA SentStep ==
    ASSUME Types, StageInv, IdInv, SentInv, Next
    PROVE  SentInv'
<1>1. CASE External
  BY <1>1, ExternalEffect DEF SentInv, SentOf
<1>2. ASSUME NEW t \in Threads, Rounds(t)
      PROVE  SentInv'
  BY <1>2, SentRound
<1>3. ASSUME NEW t \in Threads,
             \/ Begins(t) \/ SemWait(t) \/ SemSignal(t) \/ Return(t)
             \/ SendInactive(t) \/ RecvData(t) \/ EndsRecv(t) \/ Selects(t)
      PROVE  SentInv'
  <2>1. UNCHANGED <<wire, blurred>>
    BY <1>3, BeginsEffect, SemWaitEffect, SemSignalEffect, ReturnEffect,
       InactiveEffect, RecvDataEffect, RecvEndEffect, SelectEffect
       DEF device, EndsRecv, Selects
  <2>2. \A u \in Threads \ {t} : pc'[u] = pc[u] /\ call'[u] = call[u]
    BY <1>3, OneThread
  <2>3. \A u \in Threads \ {t} : SentOf(u)'
    BY <2>1, <2>2 DEF SentInv, SentOf
  <2>b. /\ SentOf(t) /\ StageOf(t) /\ call[t].wrt \in Nat /\ call[t].len \in Int
        /\ call[t].base \in Nat
    BY DEF SentInv, StageInv, Types, TypeOK
  <2>4. SentOf(t)'
    <3>1. CASE Begins(t)
      <4>1. /\ call'[t].id = calls + 1 /\ call'[t].base = 0 /\ call'[t].wrt = 0
            /\ call'[t].len >= 0 /\ pc'[t] \in {"semWait", "return"}
            /\ pc'[t] = "return" => \/ call'[t].op = "select"
                                    \/ call'[t].op = "sendall" /\ call'[t].len = 0
        BY <3>1, BeginsEffect
      <4>2. Bytes(wire', call'[t].id) = {}
        BY <2>1, <4>1, FreshBytes
      <4>3. 0..(0 - 1) = {} /\ 0..(0 + 0 - 1) = {}
        OBVIOUS
      <4>4. QED
        BY <4>1, <4>2, <4>3 DEF SentOf
    <3>2. CASE SemWait(t)
      BY <2>1, <2>b, <3>2, SemWaitEffect DEF SentOf, Inside
    <3>3. CASE SemSignal(t)
      <4>1. /\ pc[t] = "signal" /\ call'[t].id = call[t].id
            /\ call[t].op \notin {"sendall", "available"} =>
                   /\ pc'[t] = "return" /\ Same(t)
                   /\ call[t].op \in {"send", "recv"} => call'[t].res = call[t].wrt
            /\ call[t].op = "available" => call'[t].op \in {"available", "recvfrom"}
            /\ call[t].op = "sendall" =>
                   /\ call'[t].len = call[t].len - call[t].wrt /\ call'[t].wrt = 0
                   /\ call'[t].base = call[t].base + call[t].wrt
                   /\ call'[t].op = "sendall"
                   /\ IF call'[t].len > 0 THEN pc'[t] = "semWait"
                                          ELSE pc'[t] = "return"
        BY <3>3, SemSignalEffect
      <4>2. CASE call[t].op = "send"
        <5>1. call[t].base + call[t].wrt = call[t].wrt
          BY <2>b, <4>2 DEF StageOf
        <5>2. QED
          BY <2>1, <2>b, <4>1, <4>2, <5>1 DEF SentOf, Same
      <4>3. CASE call[t].op = "sendall" /\ call[t].id \notin blurred
        <5>1. /\ Bytes(wire, call[t].id) = 0..(call[t].base + call[t].wrt - 1)
              /\ call[t].wrt <= call[t].len
          BY <2>b, <4>1, <4>3 DEF SentOf
        <5>a. /\ call'[t].base = call[t].base + call[t].wrt /\ call'[t].wrt = 0
              /\ call'[t].id = call[t].id /\ wire' = wire
          BY <2>1, <4>1, <4>3
        <5> DEFINE e == call[t].base + call[t].wrt
        <5>b. e \in Nat /\ call'[t].base = e /\ Bytes(wire, call[t].id) = 0..(e - 1)
          BY <2>b, <5>1, <5>a
        <5> HIDE DEF e
        <5>2. Bytes(wire', call'[t].id) = 0..(call'[t].base - 1)
          BY ONLY <5>a, <5>b
        <5>d. call'[t].base + call'[t].wrt - 1 = call'[t].base - 1
          <6>1. call'[t].base \in Int /\ call'[t].wrt = 0
            BY <5>a, <5>b
          <6>2. QED
            BY ONLY <6>1
        <5>c. Bytes(wire', call'[t].id)
                  = 0..(call'[t].base + call'[t].wrt - 1)
          BY ONLY <5>2, <5>d, Zenon
        <5>4. call'[t].len >= 0 /\ call'[t].len \in Int
          BY <2>b, <4>1, <4>3, <5>1
        <5>5. CASE call'[t].len > 0
          <6>1. pc'[t] = "semWait" /\ call'[t].wrt <= call'[t].len
            BY <4>1, <4>3, <5>4, <5>5, <5>a
          <6>2. QED
            BY <5>c, <6>1 DEF SentOf
        <5>6. CASE ~(call'[t].len > 0)
          <6>1. call'[t].len = 0
            BY <5>4, <5>6
          <6>2. QED
            BY <4>1, <4>3, <5>2, <5>6, <6>1 DEF SentOf
        <5>7. QED
          BY <5>5, <5>6
      <4>4. CASE call[t].op \notin {"send", "sendall"} \/ call[t].id \in blurred
        BY <2>1, <4>1, <4>4 DEF SentOf, Same
      <4>5. QED
        BY <4>2, <4>3, <4>4
    <3>4. CASE Return(t)
      BY <3>4, ReturnEffect DEF SentOf
    <3>5. CASE SendInactive(t)
      BY <2>1, <2>b, <3>5, InactiveEffect DEF SentOf, Same
    <3>6. CASE RecvData(t) \/ EndsRecv(t) \/ Selects(t)
      <4>1. pc[t] \in {"receiving", "selecting"} /\ call'[t].op = call[t].op
        BY <3>6, RecvDataEffect, RecvEndEffect, SelectEffect
           DEF EndsRecv, Selects, Same
      <4>2. QED
        BY <2>b, <4>1 DEF SentOf, StageOf
    <3>7. QED
      BY <1>3, <3>1, <3>2, <3>3, <3>4, <3>5, <3>6
  <2>5. QED
    BY <2>3, <2>4 DEF SentInv
<1>4. QED
  BY <1>1, <1>2, <1>3, Kinds

-----------------------------------------------------------------------------
(* What a receive has stored.                                              *)

\* Another thread's step keeps what is not being received.
LEMMA RecvFrame ==
    ASSUME RecvInv, NEW u \in Threads, pc'[u] = pc[u], call'[u] = call[u],
           got'[u] = got[u], open' \subseteq open,
           pc[u] = "receiving" => UNCHANGED taken
    PROVE  RecvOf(u)'
<1>1. RecvOf(u)
  BY DEF RecvInv
<1>2. OnePiece(u)' /\ Stored(u)' = Stored(u)
  BY <1>1 DEF RecvOf, OnePiece, Stored
<1>3. pc'[u] = "receiving" => Filled(u)'
  BY <1>1, <1>2 DEF RecvOf, Filled
<1>4. \A n : Ends(u, n) => /\ Stored(u)' = 0..(n - 1) /\ n >= 0
                           /\ n >= call'[u].len \/ call'[u].sk \notin open'
  BY <1>2 DEF Ends
<1>5. QED
  BY <1>1, <1>2, <1>3, <1>4 DEF RecvOf, Ends

\* What is stored behind the count of a call fits what was there.
LEMMA RecvRound ==
    ASSUME Types, StageInv, SemInv, RecvInv, NEW t \in Threads, RecvData(t)
    PROVE  RecvInv'
<1>1. PICK n \in Nat \ {0} :
         /\ pc[t] = "receiving" /\ pc'[t] \in {"receiving", "signal"}
         /\ call[t].sk \in Socks =>
              /\ n <= inbox[call[t].sk]
              /\ taken' = [taken EXCEPT ![call[t].sk] = @ + n]
              /\ inbox' = [inbox EXCEPT ![call[t].sk] = @ - n]
         /\ got' = [got EXCEPT ![t] = @ \cup
                       {[at |-> call[t].wrt, pos |-> taken[call[t].sk], n |-> n]}]
         /\ pc'[t] = "signal" =>
                call[t].op = "recvfrom" \/ call'[t].wrt >= call[t].len
         /\ Same(t) /\ call'[t].wrt = call[t].wrt + n
         /\ \A u \in Threads \ {t} : pc'[u] = pc[u] /\ call'[u] = call[u]
         /\ UNCHANGED <<sem, calls, wire, open, txError, gone, blurred>>
  BY RecvDataEffect
<1> DEFINE s == call[t].sk
           w == call[t].wrt
           q == [at |-> w, pos |-> taken[s], n |-> n]
<1>2. /\ s \in Socks /\ w \in Nat /\ call[t].op \in {"recv", "recvfrom"}
      /\ taken \in [Socks -> Nat] /\ got \in [Threads -> SUBSET Chunk]
      /\ call[t].len \in Int
  BY <1>1 DEF StageInv, StageOf, Types, TypeOK
<1>3. RecvOf(t) /\ Filled(t) /\ OnePiece(t)
  BY <1>1 DEF RecvInv, RecvOf
<1>4. /\ got'[t] = got[t] \cup {q} /\ q.at = w /\ q.pos = taken[s] /\ q.n = n
      /\ taken'[s] = taken[s] + n /\ call'[t].wrt = w + n /\ call'[t].sk = s
      /\ call'[t].op = call[t].op /\ call'[t].len = call[t].len
      /\ \A u \in Threads \ {t} : got'[u] = got[u]
  BY <1>1, <1>2 DEF Same
<1>5. \A p \in got[t] : /\ p.at \in Nat /\ p.pos \in Nat /\ p.n \in Nat
                        /\ p.pos - p.at = taken[s] - w /\ p.at + p.n <= w
  BY <1>2, <1>3 DEF Filled, Chunk
<1>6. /\ Stored(t) = 0..(w - 1)
      /\ w = 0 \/ \E p \in got[t] : p.at + p.n = w
      /\ taken[s] \in Nat
  BY <1>2, <1>3 DEF Filled
<1>7. \A u \in Threads \ {t} : RecvOf(u)'
  <2>1. \A u \in Threads \ {t} : pc[u] # "receiving"
    BY <1>1 DEF SemInv, Inside
  <2>2. QED
    BY <1>1, <1>4, <2>1, RecvFrame
<1> HIDE DEF s, w, q
<1>8. OnePiece(t)'
  <2>1. ASSUME NEW p \in got[t] \cup {q}, NEW r \in got[t] \cup {q}
        PROVE  /\ p.pos - p.at = r.pos - r.at
               /\ p.at < r.at => p.at + p.n <= r.at
    <3>1. \A x \in got[t] \cup {q} :
             /\ x.pos - x.at = taken[s] - w /\ x.at \in Nat /\ x.n \in Nat
             /\ x \in got[t] => x.at + x.n <= w
             /\ x = q => x.at = w
      BY <1>2, <1>4, <1>5
    <3>2. CASE p \in got[t] /\ r \in got[t]
      BY <1>3, <3>1, <3>2 DEF OnePiece
    <3>3. CASE p = q
      <4>1. r.at <= w
        BY <1>2, <3>1
      <4>2. p.at = w
        BY <3>1, <3>3
      <4>3. QED
        BY <1>2, <3>1, <4>1, <4>2
    <3>4. CASE p \in got[t] /\ r = q
      BY <3>1, <3>4
    <3>5. QED
      BY <3>2, <3>3, <3>4
  <2>2. ASSUME NEW p \in got[t] \cup {q}
        PROVE  p.at = 0 \/ \E r \in got[t] \cup {q} : r.at + r.n = p.at
    <3>1. CASE p = q
      BY <1>4, <1>6, <3>1
    <3>2. CASE p \in got[t]
      BY <1>3, <3>2 DEF OnePiece
    <3>3. QED
      BY <3>1, <3>2
  <2>3. QED
    BY <1>4, <2>1, <2>2 DEF OnePiece
<1>9. Stored(t)' = 0..(w + n - 1)
  <2>1. ASSUME NEW b
        PROVE  b \in Stored(t)' <=> b \in Stored(t) \/ b \in q.at..(q.at + q.n - 1)
    BY <1>4 DEF Stored
  <2>2. \A b : b \in Stored(t)' <=> b \in 0..(w - 1) \/ b \in w..(w + n - 1)
    BY <1>4, <1>6, <2>1
  <2>3. \A b : b \in 0..(w - 1) \/ b \in w..(w + n - 1) <=> b \in 0..(w + n - 1)
    BY <1>2
  <2>4. \A b : b \in Stored(t)' <=> b \in 0..(w + n - 1)
    BY <2>2, <2>3
  <2>5. QED
    BY <2>4
<1>10. Filled(t)'
  <2>1. ASSUME NEW p \in got[t] \cup {q}
        PROVE  p.pos - p.at = (taken[s] + n) - (w + n) /\ p.at + p.n <= w + n
    <3>1. /\ p.pos - p.at = taken[s] - w /\ p.at \in Nat /\ p.n \in Nat
          /\ p.at + p.n <= w + n
      BY <1>2, <1>4, <1>5, <1>6
    <3>2. taken[s] - w = (taken[s] + n) - (w + n)
      BY <1>2, <1>6
    <3>3. QED
      BY <3>1, <3>2
  <2>2. q \in got[t] \cup {q} /\ q.at + q.n = w + n
    BY <1>4
  <2>3. Stored(t)' = 0..(call'[t].wrt - 1)
    <3>1. call'[t].wrt - 1 = w + n - 1
      BY <1>2, <1>4
    <3>2. QED
      BY ONLY <1>9, <3>1, Zenon
  <2>4. \A p \in got'[t] : /\ p.pos - p.at = taken'[call'[t].sk] - call'[t].wrt
                           /\ p.at + p.n <= call'[t].wrt
    BY <1>4, <2>1
  <2>5. \E p \in got'[t] : p.at + p.n = call'[t].wrt
    BY <1>4, <2>2
  <2>6. QED
    BY <2>3, <2>4, <2>5 DEF Filled
<1>11. pc'[t] = "signal" /\ call'[t].op = "recv" => Ends(t, call[t].wrt)'
  BY <1>1, <1>2, <1>4, <1>9 DEF Ends
<1>12. RecvOf(t)'
  BY <1>1, <1>2, <1>4, <1>8, <1>10, <1>11 DEF RecvOf
<1>13. QED
  BY <1>7, <1>12 DEF RecvInv

\* Every step keeps what receives have stored in one piece.
LEMMA RecvStep ==
    ASSUME Types, StageInv, SemInv, RecvInv, Next
    PROVE  RecvInv'
<1>1. CASE External
  BY <1>1, ExternalEffect, RecvFrame DEF RecvInv
<1>2. ASSUME NEW t \in Threads, RecvData(t)
      PROVE  RecvInv'
  BY <1>2, RecvRound
<1>3. ASSUME NEW t \in Threads,
             \/ Begins(t) \/ SemWait(t) \/ SemSignal(t) \/ Return(t)
             \/ Rounds(t) \/ SendInactive(t) \/ EndsRecv(t) \/ Selects(t)
      PROVE  RecvInv'
  <2>1. \A u \in Threads \ {t} : pc'[u] = pc[u] /\ call'[u] = call[u]
    BY <1>3, OneThread
  <2>2. /\ open' \subseteq open /\ UNCHANGED taken
        /\ \A u \in Threads \ {t} : got'[u] = got[u]
        /\ got'[t] \in {{}, got[t]}
    <3>1. CASE Begins(t)
      BY <3>1, BeginsEffect DEF device
    <3>2. CASE SemWait(t) \/ SemSignal(t)
      BY <3>2 DEF SemWait, SemSignal, device, input
    <3>3. CASE Return(t)
      BY <3>3, ReturnEffect DEF Others, device
    <3>4. CASE Rounds(t)
      BY <3>4, SendEffect DEF Rounds, input
    <3>5. CASE SendInactive(t)
      BY <3>5, InactiveEffect DEF device, input
    <3>6. CASE EndsRecv(t)
      BY <3>6, RecvEndEffect DEF EndsRecv, input
    <3>7. CASE Selects(t)
      BY <3>7, SelectEffect DEF Selects, device, input
    <3>8. QED
      BY <1>3, <3>1, <3>2, <3>3, <3>4, <3>5, <3>6, <3>7
  <2>3. \A u \in Threads \ {t} : RecvOf(u)'
    BY <2>1, <2>2, RecvFrame
  <2>b. /\ RecvOf(t) /\ StageOf(t) /\ call[t].wrt \in Nat /\ call[t].len \in Int
    BY DEF RecvInv, StageInv, Types, TypeOK
  <2>c. OnePiece(t)'
    BY <2>2, <2>b DEF RecvOf, OnePiece
  <2>4. RecvOf(t)'
    <3>1. CASE Begins(t)
      <4>1. /\ pc[t] = "idle" /\ pc'[t] \in {"semWait", "return"}
            /\ pc'[t] = "return" => call'[t].op \in {"select", "sendall"}
        BY <3>1, BeginsEffect
      <4>2. got'[t] = {}
        BY <2>2, <2>b, <4>1 DEF RecvOf
      <4>3. QED
        BY <2>c, <4>1, <4>2 DEF RecvOf
    <3>2. CASE SemWait(t)
      <4>1. /\ pc[t] = "semWait" /\ pc'[t] \in Inside /\ call' = call
            /\ pc'[t] = "signal" => call[t].len = 0
            /\ UNCHANGED got
        BY <3>2, SemWaitEffect DEF input
      <4>2. got[t] = {} /\ call[t].wrt = 0
        BY <2>b, <4>1 DEF RecvOf, StageOf
      <4>3. Stored(t)' = {} /\ 0..(0 - 1) = {}
        BY <4>1, <4>2 DEF Stored
      <4>4. Filled(t)'
        BY <4>1, <4>2, <4>3 DEF Filled
      <4>5. pc'[t] = "signal" => Ends(t, call[t].wrt)'
        BY <4>1, <4>2, <4>3 DEF Ends
      <4>6. QED
        BY <2>c, <4>1, <4>2, <4>4, <4>5 DEF RecvOf, Inside
    <3>3. CASE SemSignal(t)
      <4>1. /\ pc[t] = "signal" /\ UNCHANGED <<got, open>>
            /\ call[t].op \notin {"sendall", "available"} =>
                   /\ pc'[t] = "return" /\ Same(t)
                   /\ call[t].op \in {"send", "recv"} => call'[t].res = call[t].wrt
            /\ call[t].op = "available" => pc'[t] = "semWait"
            /\ call[t].op = "sendall" =>
                   /\ call'[t].op = "sendall"
                   /\ pc'[t] \in {"semWait", "return"}
        BY <3>3, SemSignalEffect DEF input, device
      <4>2. CASE call[t].op \in {"sendall", "available"}
        <5>1. got'[t] = {}
          BY <2>b, <4>1, <4>2 DEF RecvOf
        <5>2. QED
          BY <2>c, <4>1, <4>2, <5>1 DEF RecvOf
      <4>3. CASE call[t].op = "recv"
        <5>1. call'[t].res = call[t].wrt /\ pc'[t] = "return" /\ Same(t)
          BY <4>1, <4>3
        <5>2. call[t].wrt = -RECV_TIMED_OUT \/ Ends(t, call[t].wrt)
          BY <2>b, <4>1, <4>3 DEF RecvOf
        <5>3. Ends(t, call[t].wrt) => Ends(t, call[t].res)'
          BY <4>1, <5>1 DEF Ends, Stored, Same
        <5>4. QED
          BY <2>b, <2>c, <4>1, <4>3, <5>1, <5>2, <5>3 DEF RecvOf, Same
      <4>4. CASE call[t].op \notin {"sendall", "available", "recv"}
        <5>1. pc'[t] = "return" /\ Same(t)
          BY <4>1, <4>4
        <5>2. QED
          BY <2>b, <2>c, <4>1, <4>4, <5>1 DEF RecvOf, Same
      <4>5. QED
        BY <4>2, <4>3, <4>4
    <3>4. CASE Return(t)
      BY <2>c, <3>4, ReturnEffect DEF RecvOf
    <3>5. CASE Rounds(t) \/ SendInactive(t) \/ Selects(t)
      <4>1. /\ pc[t] \in {"sending", "selecting"} /\ call'[t].op = call[t].op
            /\ pc'[t] \in {"sending", "signal"}
        <5>1. CASE Rounds(t)
          <6>1. PICK n \in Nat : Counted(t, n)
            BY <5>1, SendEffect DEF Rounds
          <6>2. QED
            BY <6>1, CountedEffect DEF Same
        <5>2. CASE SendInactive(t) \/ Selects(t)
          BY <5>2, InactiveEffect, SelectEffect DEF Selects, Same
        <5>3. QED
          BY <3>5, <5>1, <5>2
      <4>2. call[t].op \notin {"recv", "recvfrom"} /\ got'[t] = {}
        BY <2>2, <2>b, <4>1 DEF StageOf, RecvOf, Sends
      <4>3. QED
        BY <2>c, <4>1, <4>2 DEF RecvOf
    <3>6. CASE EndsRecv(t)
      <4>1. /\ pc[t] = "receiving" /\ pc'[t] \in {"receiving", "signal"}
            /\ Same(t) /\ UNCHANGED <<got, taken>>
            /\ pc'[t] = "receiving" => UNCHANGED call
            /\ pc'[t] = "signal" => \/ call[t].op = "recvfrom"
                                    \/ call'[t].wrt = -RECV_TIMED_OUT
                                    \/ /\ call'[t].wrt = call[t].wrt
                                       /\ call[t].sk \notin open'
        BY <3>6, RecvEndEffect DEF EndsRecv, input
      <4>2. Filled(t) /\ call[t].op \in {"recv", "recvfrom"}
        BY <2>b, <4>1 DEF RecvOf, StageOf
      <4>3. pc'[t] = "receiving" => Filled(t)'
        BY <4>1, <4>2 DEF Filled, Stored
      <4>4. call'[t].wrt = call[t].wrt /\ call[t].sk \notin open' =>
                Ends(t, call[t].wrt)'
        BY <2>b, <4>1, <4>2 DEF Filled, Stored, Ends, Same
      <4>5. QED
        BY <2>c, <4>1, <4>2, <4>3, <4>4 DEF RecvOf, Same
    <3>7. QED
      BY <1>3, <3>1, <3>2, <3>3, <3>4, <3>5, <3>6
  <2>5. QED
    BY <2>3, <2>4 DEF RecvInv
<1>4. QED
  BY <1>1, <1>2, <1>3, Kinds

-----------------------------------------------------------------------------
(* The invariant, and what follows from it.                                *)

\* It holds when no call has been made.
LEMMA AtFirst == Init => IInv
<1> SUFFICES ASSUME Init PROVE IInv
  OBVIOUS
<1>1. NoCall \in CallRec /\ \A t \in Threads : call[t] = NoCall
  BY NoCallType DEF Init
<1>2. /\ pc = [t \in Threads |-> "idle"] /\ \A s \in Socks : wire[s] = <<>>
      /\ got = [t \in Threads |-> {}]
  BY DEF Init
<1>3. Types
  <2>1. call \in [Threads -> CallRec]
    BY <1>1 DEF Init
  <2>2. /\ wire \in [Socks -> Seq(Piece)] /\ inbox \in [Socks -> Nat]
        /\ taken \in [Socks -> Nat] /\ got \in [Threads -> SUBSET Chunk]
    BY DEF Init
  <2>3. \A t \in Threads :
          /\ call[t].id \in 0..MaxCalls /\ call[t].op \in Stages
          /\ call[t].sk \in Socks \cup {-1}
          /\ call[t].len \in Int /\ call[t].base \in Nat /\ call[t].wrt \in Nat
          /\ call[t].res \in Int
    BY <1>1 DEF CallRec
  <2>4. calls \in 0..MaxCalls
    BY BoundsAssumption DEF Init
  <2>5. \A s \in Socks : taken[s] + inbox[s] \in 0..MaxInput[s]
    BY BoundsAssumption DEF Init
  <2>6. pc \in [Threads -> PCs]
    BY <1>2 DEF PCs
  <2>7. /\ sem \in Threads \cup {None} /\ active \subseteq Socks
        /\ open \subseteq Socks /\ gone \subseteq Socks
        /\ txError \in StatusBytes \cup {0} /\ blurred \subseteq 1..MaxCalls
    BY DEF Init
  <2>8. QED
    BY <2>1, <2>2, <2>3, <2>4, <2>5, <2>6, <2>7 DEF Types, TypeOK
<1>4. /\ SemInv /\ IdInv /\ CallsStayTogether /\ InHand /\ SentInv
  BY <1>2 DEF SemInv, Inside, IdInv, CallsStayTogether, InHand, InHandOf, SentInv,
              SentOf
<1>5. StageInv /\ ReadyInv
  BY <1>1, <1>2 DEF StageInv, StageOf, ReadyInv, ReadyOf, NoCall
<1>6. RecvInv
  BY <1>2 DEF RecvInv, RecvOf, OnePiece
<1>7. QED
  BY <1>3, <1>4, <1>5, <1>6 DEF IInv

\* A step in which nothing changes keeps every part of it.
LEMMA Idles ==
    ASSUME IInv, UNCHANGED vars
    PROVE  IInv'
<1> USE DEF vars
<1>1. Types' /\ SemInv' /\ IdInv' /\ CallsStayTogether'
  BY DEF IInv, Types, TypeOK, SemInv, IdInv, CallsStayTogether
<1>2. StageInv' /\ ReadyInv'
  BY DEF IInv, StageInv, StageOf, ReadyInv, ReadyOf, Lasts, Readable
<1>3. InHand' /\ SentInv'
  BY DEF IInv, InHand, InHandOf, HasSent, Spent, GoesOn, LastOf, SentInv, SentOf
<1>4. RecvInv'
  BY RecvFrame DEF IInv, RecvInv
<1>5. QED
  BY <1>1, <1>2, <1>3, <1>4 DEF IInv

\* The inductive invariant: calls inside the semaphore, their numbers, their
\* stages, what they have sent and received and what they will report.
THEOREM Inductive == Spec => []IInv
<1>1. IInv /\ [Next]_vars => IInv'
  <2>1. ASSUME IInv, Next PROVE IInv'
    BY <2>1, TypesStep, SemStep, IdStep, StageStep, ReadyStep, WireStep, HandStep,
       SentStep, RecvStep DEF IInv
  <2>2. QED
    BY <2>1, Idles
<1>2. QED
  BY AtFirst, <1>1, PTL DEF Spec

\* Calls, sockets and streams are of their types, and the portions of one
\* cc3000_net_send stay together on their connection, in order, for any number
\* of threads and connections.
THEOREM CallsTogether == Spec => []Inv
<1>1. IInv => Inv
  BY DEF IInv, Types, Inv
<1>2. QED
  BY Inductive, <1>1, PTL

\* The count that send returns is what the device has accepted of its buffer,
\* and sendall returns only when it has accepted all of it; but for calls that
\* were told of a send that was none.
THEOREM CountsAreSent == Spec => []SentAsReturned
<1>1. \A i : Transmitted(i) = Bytes(wire, i)
  BY DEF Transmitted, Stretches, Bytes
<1>2. SentInv => SentAsReturned
  BY <1>1 DEF SentInv, SentOf, SentAsReturned
<1>3. QED
  BY Inductive, <1>2, PTL DEF IInv

\* What a receive stores is one piece of the stream of its connection, and as
\* long as it says, whichever threads receive from the same connection.
THEOREM CountsAreReceived == Spec => []ReceivedAsReturned
<1>1. ASSUME IInv PROVE ReceivedAsReturned
  <2>1. ReceivedInOnePiece
    BY <1>1 DEF IInv, RecvInv, RecvOf, OnePiece, ReceivedInOnePiece
  <2>2. ASSUME NEW t \in Threads, pc[t] = "return", call[t].op = "recv",
               call[t].res # -RECV_TIMED_OUT
        PROVE  /\ call[t].res = Cardinality(Stored(t))
               /\ call[t].res < call[t].len => call[t].sk \notin open
    <3>1. Ends(t, call[t].res)
      BY <1>1, <2>2 DEF IInv, RecvInv, RecvOf
    <3>2. call[t].res \in Nat /\ call[t].len \in Int
      BY <1>1, <3>1 DEF IInv, Types, TypeOK, Ends
    <3> DEFINE n == call[t].res
    <3>3. Stored(t) = 0..(n - 1) /\ n \in Nat
      BY <3>1, <3>2 DEF Ends
    <3> HIDE DEF n
    <3>4. Cardinality(0..(n - 1)) = n
      <4>1. 0 \in Int /\ n - 1 \in Int
        BY <3>3
      <4>2. Cardinality(0..(n - 1)) = IF 0 > n - 1 THEN 0 ELSE (n - 1) - 0 + 1
        BY ONLY <4>1, FS_Interval
      <4>3. (IF 0 > n - 1 THEN 0 ELSE (n - 1) - 0 + 1) = n
        BY <3>3
      <4>4. QED
        BY ONLY <4>2, <4>3
    <3>5. QED
      BY <3>1, <3>2, <3>3, <3>4 DEF Ends, n
  <2>3. CountAsReceived
    BY <2>2 DEF CountAsReceived, Stored
  <2>4. QED
    BY <2>1, <2>3 DEF ReceivedAsReturned
<1>2. QED
  BY Inductive, <1>1, PTL

\* What select reports can be read, and a receive that has polled waits for its
\* peer on no open socket, unless another thread has received from that socket
\* since the answer; for any number of threads, sockets and lengths.
THEOREM AnswersLast == Spec => []ReadyUntilTaken
<1>1. ASSUME IInv PROVE ReadyUntilTaken
  <2>1. ASSUME NEW t \in Threads, call[t].op = "select",
               NEW s \in call[t].reported
        PROVE  Readable(s) \/ taken[s] > call[t].seen[s]
    BY <1>1, <2>1 DEF IInv, ReadyInv, ReadyOf, Lasts
  <2>2. ASSUME NEW t \in Threads, call[t].op = "recvfrom"
        PROVE  Readable(call[t].sk) \/ taken[call[t].sk] > call[t].seen[call[t].sk]
    BY <1>1, <2>2 DEF IInv, ReadyInv, ReadyOf, Lasts, Readable
  <2>3. QED
    BY <2>1, <2>2 DEF ReadyUntilTaken
<1>2. QED
  BY Inductive, <1>1, PTL
==============================================================================
