---------------------------- MODULE WifiLinkProofs ----------------------------
(***************************************************************************)
(* Proofs about WifiLink, for any number of calls, polls and faults.       *)
(*                                                                         *)
(* That the flags catch up is not inductive: it says nothing of events     *)
(* still on their way.  ConnectedInv and LeaseInv say what each flag will  *)
(* be when they have been handled: what the last event says that bears on  *)
(* it, or, if there is none, what it is.                                   *)
(***************************************************************************)
EXTENDS WifiLink, SequenceTheorems, TLAPS

Joining == {"CONNECT", "DISCONNECT"}
Leasing == {"DHCP", "DHCP_FAILED", "DISCONNECT"}

\* The last event of a kind on its way, if there is one, has index i.
LastOf(kind, i) == /\ events[i] \in kind
                   /\ \A j \in 1..Len(events) : j > i => events[j] \notin kind
NoneOf(kind) == \A i \in 1..Len(events) : events[i] \notin kind

ConnectedInv ==
    /\ \A i \in 1..Len(events) :
           LastOf(Joining, i) => (events[i] = "CONNECT" <=> assoc = "joined")
    /\ NoneOf(Joining) => connected = (assoc = "joined")

LeaseInv ==
    /\ \A i \in 1..Len(events) :
           LastOf(Leasing, i) => (events[i] = "DHCP" <=> lease)
    /\ NoneOf(Leasing) => dhcpPresent = lease

\* Only a device that is joined has an address, so that a loss is always
\* announced.
LeaseJoined == lease => assoc = "joined"

\* The flag, the lease or an event of a clean call speak of its own connect.
CleanInv ==
    clean => /\ dhcpPresent \/ lease \/ pc = "timeouts" \/ ~NoneOf({"DHCP"})
                => leasedSince
             /\ result = "ok" /\ pc \in {"idle", "connect", "disconnect"}
                => leasedSince

\* A loop that still polls has not used up its rounds.
PollInv == pc \in {"pollConnected", "pollDhcp"} => cloop <= MaxPolls

IInv == TypeOK /\ PollInv /\ ConnectedInv /\ LeaseInv /\ LeaseJoined /\ CleanInv

-----------------------------------------------------------------------------
\* The initial states satisfy the invariant.
LEMMA IInvInit == Init => IInv
<1> SUFFICES ASSUME Init PROVE IInv
  OBVIOUS
<1>1. TypeOK
  <2>1. events \in Seq(Events)
    BY DEF Init
  <2>2. cloop \in 0..(MaxPolls + 1)
    BY BoundsAssumption DEF Init
  <2>3. QED
    BY <2>1, <2>2 DEF Init, TypeOK, PCs
<1>2. events = <<>> /\ 1..Len(events) = {}
  BY DEF Init
<1>3. PollInv /\ ConnectedInv /\ LeaseInv /\ LeaseJoined /\ CleanInv
  BY <1>2 DEF Init, PollInv, ConnectedInv, LeaseInv, LeaseJoined, CleanInv,
              NoneOf
<1>4. QED
  BY <1>1, <1>3 DEF IInv

\* An event that is sent is the last of its kinds, and changes nothing for
\* the kinds it is not of.
LEMMA Appended ==
    ASSUME TypeOK, NEW e \in Events, events' = Append(events, e), NEW kind
    PROVE  /\ events' \in Seq(Events) /\ Len(events') = Len(events) + 1
           /\ events'[Len(events')] = e
           /\ \A i \in 1..Len(events) : events'[i] = events[i]
           /\ e \in kind =>
                /\ ~NoneOf(kind)'
                /\ \A i \in 1..Len(events') : LastOf(kind, i)' <=> i = Len(events')
           /\ e \notin kind =>
                /\ NoneOf(kind)' <=> NoneOf(kind)
                /\ \A i \in 1..Len(events') :
                       LastOf(kind, i)' => i \in 1..Len(events)
                /\ \A i \in 1..Len(events) : LastOf(kind, i)' <=> LastOf(kind, i)
<1>1. /\ events' \in Seq(Events) /\ Len(events') = Len(events) + 1
      /\ events'[Len(events')] = e /\ Len(events) \in Nat
      /\ \A i \in 1..Len(events) : events'[i] = events[i]
  BY DEF TypeOK
<1>2. 1..Len(events') = 1..Len(events) \cup {Len(events')}
  BY <1>1
<1>3. ASSUME e \in kind
      PROVE  /\ ~NoneOf(kind)'
             /\ \A i \in 1..Len(events') : LastOf(kind, i)' <=> i = Len(events')
  BY <1>1, <1>2, <1>3 DEF LastOf, NoneOf
<1>4. ASSUME e \notin kind
      PROVE  /\ NoneOf(kind)' <=> NoneOf(kind)
             /\ \A i \in 1..Len(events') :
                    LastOf(kind, i)' => i \in 1..Len(events)
  <2>1. NoneOf(kind)' => NoneOf(kind)
    BY <1>1, <1>2 DEF NoneOf
  <2>2. NoneOf(kind) => NoneOf(kind)'
    BY <1>1, <1>2, <1>4 DEF NoneOf
  <2>3. \A i \in 1..Len(events') : LastOf(kind, i)' => i \in 1..Len(events)
    BY <1>1, <1>2, <1>4 DEF LastOf
  <2>4. QED
    BY <2>1, <2>2, <2>3
<1>5. ASSUME e \notin kind, NEW i \in 1..Len(events)
      PROVE  LastOf(kind, i)' <=> LastOf(kind, i)
  BY <1>1, <1>2, <1>5 DEF LastOf
<1>6. QED
  BY <1>1, <1>3, <1>4, <1>5

\* An event that is handled makes room for the next one of its kinds.
LEMMA Handled ==
    ASSUME TypeOK, events # <<>>, events' = Tail(events), NEW kind
    PROVE  /\ events' \in Seq(Events)
           /\ Head(events) \in Events /\ 1 \in 1..Len(events)
           /\ events[1] = Head(events)
           /\ \A i \in 1..Len(events') : /\ i + 1 \in 1..Len(events)
                                         /\ events'[i] = events[i + 1]
                                         /\ LastOf(kind, i)' <=> LastOf(kind, i + 1)
           /\ Head(events) \in kind => (NoneOf(kind)' <=> LastOf(kind, 1))
           /\ Head(events) \notin kind => (NoneOf(kind)' <=> NoneOf(kind))
<1>1. /\ events' \in Seq(Events) /\ Len(events') = Len(events) - 1
      /\ events[1] = Head(events) /\ Head(events) \in Events
      /\ Len(events) \in Nat /\ Len(events) > 0
      /\ \A i \in 1..Len(events') : events'[i] = events[i + 1]
  BY HeadTailProperties DEF TypeOK
<1>2. \A i \in 1..Len(events') : i + 1 \in 1..Len(events)
  BY <1>1
<1>3. \A j \in 1..Len(events) :
          j = 1 \/ (j - 1 \in 1..Len(events') /\ events'[j - 1] = events[j])
  BY <1>1
<1>4. \A i \in 1..Len(events') : LastOf(kind, i)' <=> LastOf(kind, i + 1)
  <2> TAKE i \in 1..Len(events')
  <2>1. ASSUME LastOf(kind, i)', NEW j \in 1..Len(events), j > i + 1
        PROVE  events[j] \notin kind
    <3>1. j - 1 \in 1..Len(events') /\ j - 1 > i /\ events'[j - 1] = events[j]
      BY <1>1, <1>3, <2>1
    <3>2. QED
      BY <2>1, <3>1 DEF LastOf
  <2>2. ASSUME LastOf(kind, i + 1), NEW j \in 1..Len(events'), j > i
        PROVE  events'[j] \notin kind
    <3>1. j + 1 \in 1..Len(events) /\ j + 1 > i + 1 /\ events'[j] = events[j + 1]
      BY <1>1, <1>2, <2>2
    <3>2. QED
      BY <2>2, <3>1 DEF LastOf
  <2>3. events'[i] = events[i + 1]
    BY <1>1
  <2>4. QED
    BY <2>1, <2>2, <2>3 DEF LastOf
<1>5. Head(events) \in kind => (NoneOf(kind)' <=> LastOf(kind, 1))
  <2>1. ASSUME Head(events) \in kind, NoneOf(kind)' PROVE LastOf(kind, 1)
    BY <1>1, <1>3, <2>1 DEF LastOf, NoneOf
  <2>2. ASSUME LastOf(kind, 1) PROVE NoneOf(kind)'
    BY <1>1, <1>2, <2>2 DEF LastOf, NoneOf
  <2>3. QED
    BY <2>1, <2>2
<1>6. Head(events) \notin kind => (NoneOf(kind)' <=> NoneOf(kind))
  BY <1>1, <1>2, <1>3 DEF NoneOf
<1>7. QED
  BY <1>1, <1>2, <1>4, <1>5, <1>6

-----------------------------------------------------------------------------
(* Each part of the invariant is preserved.                                *)

\* What the device has become when it sends e.
Sends(e) ==
    /\ events' = Append(events, e) /\ UNCHANGED flags
    /\ \/ e = "CONNECT"     /\ assoc' = "joined" /\ UNCHANGED lease
       \/ e = "DISCONNECT"  /\ assoc' # "joined" /\ lease' = FALSE
       \/ e = "DHCP"        /\ UNCHANGED assoc   /\ lease' = TRUE
       \/ e = "DHCP_FAILED" /\ UNCHANGED assoc   /\ lease' = FALSE

Silent == /\ UNCHANGED <<events, flags, lease>>
          /\ (assoc' = "joined") = (assoc = "joined")

\* A step sends one event, which says what the device has become, handles
\* one, or changes neither the device nor the flags.
LEMMA EventsStep ==
    ASSUME TypeOK, LeaseJoined, [Next]_vars
    PROVE  Silent \/ (\E e \in Events : Sends(e)) \/ CC3000AsyncCb
<1> USE DEF flags, devVars, history, Silent, Sends, Events
<1>1. CASE DevJoin \/ DevLease \/ DevLeaseFail \/ DevDrop
  BY <1>1 DEF DevJoin, DevLease, DevLeaseFail, DevDrop
<1>2. ASSUME NEW to \in {"joining", "none"}, Leave(to), UNCHANGED flags
      PROVE  Silent \/ Sends("DISCONNECT")
  <2>1. CASE assoc = "joined"
    BY <1>2, <2>1 DEF Leave
  <2>2. CASE assoc # "joined"
    <3>1. lease = FALSE
      BY <2>2 DEF LeaseJoined, TypeOK
    <3>2. QED
      BY <1>2, <2>2, <3>1 DEF Leave
  <2>3. QED
    BY <2>1, <2>2
<1>3. CASE wlan_connect \/ wlan_disconnect
  BY <1>2, <1>3 DEF wlan_connect, wlan_disconnect
<1>4. CASE wifi_link \/ wifi_unlink \/ SetTimeouts
  BY <1>4 DEF wifi_link, wifi_unlink, SetTimeouts
<1>5. CASE PollConnected \/ PollDhcp
  BY <1>5 DEF PollConnected, PollDhcp, Poll
<1>6. CASE Finished \/ UNCHANGED vars
  BY <1>6 DEF Finished, vars
<1>7. QED
  BY <1>1, <1>3, <1>4, <1>5, <1>6 DEF Next, HostStep

\* Types are preserved, and the rounds of a polling loop counted.
LEMMA TypeStep ==
    TypeOK /\ PollInv /\ LeaseJoined /\ [Next]_vars => TypeOK' /\ PollInv'
<1> SUFFICES ASSUME TypeOK, PollInv, LeaseJoined, [Next]_vars
             PROVE  TypeOK' /\ PollInv'
  OBVIOUS
<1>1. events' \in Seq(Events)
  <2>1. CASE UNCHANGED events
    BY <2>1 DEF TypeOK
  <2>2. ASSUME NEW e \in Events, events' = Append(events, e)
        PROVE  events' \in Seq(Events)
    BY <2>2 DEF TypeOK
  <2>3. CASE CC3000AsyncCb
    BY <2>3, HeadTailProperties DEF CC3000AsyncCb, TypeOK
  <2>4. QED
    BY <2>1, <2>2, <2>3, EventsStep DEF Silent, Sends
<1> USE <1>1, BoundsAssumption
    DEF TypeOK, PollInv, PCs, Goto, flags, devVars, history
<1>2. CASE DevJoin \/ DevLease \/ DevLeaseFail \/ DevDrop
  <2>1. CASE DevJoin
    BY <2>1 DEF DevJoin
  <2>2. CASE DevLease
    BY <2>2 DEF DevLease
  <2>3. CASE DevLeaseFail
    <3>1. faults' = faults + 1 /\ lease' = FALSE /\ assoc' \in {assoc, "none"}
      BY <2>3 DEF DevLeaseFail
    <3>2. UNCHANGED <<flags, pc, cloop, result, calls, history>>
      BY <2>3 DEF DevLeaseFail
    <3>3. faults' \in Nat
      BY <3>1
    <3>4. PollInv'
      BY <3>2
    <3>5. lease' \in BOOLEAN /\ assoc' \in {"none", "joining", "joined"}
      BY <3>1
    <3>6. TypeOK'
      BY <3>2, <3>3, <3>5
    <3>7. QED
      BY <3>4, <3>6
  <2>4. CASE DevDrop
    <3>1. faults' = faults + 1 /\ lease' = FALSE /\ assoc' \in {assoc, "none"}
      BY <2>4 DEF DevDrop
    <3>2. UNCHANGED <<flags, pc, cloop, result, calls, history>>
      BY <2>4 DEF DevDrop
    <3>3. faults' \in Nat
      BY <3>1
    <3>4. PollInv'
      BY <3>2
    <3>5. lease' \in BOOLEAN /\ assoc' \in {"none", "joining", "joined"}
      BY <3>1
    <3>6. TypeOK'
      BY <3>2, <3>3, <3>5
    <3>7. QED
      BY <3>4, <3>6
  <2>5. QED
    BY <1>2, <2>1, <2>2, <2>3, <2>4
<1>3. CASE CC3000AsyncCb
  BY <1>3 DEF CC3000AsyncCb
<1>4. CASE wifi_link \/ wifi_unlink
  BY <1>4 DEF wifi_link, wifi_unlink
<1>5. CASE wlan_connect
  <2>1. /\ clean' \in BOOLEAN /\ leasedSince' \in BOOLEAN
        /\ UNCHANGED flags
    BY <1>5 DEF wlan_connect
  <2>2. /\ pc' \in {"pollConnected", "idle"} /\ cloop' = 0
        /\ result' \in {result, "error"}
    BY <1>5 DEF wlan_connect
  <2>3. assoc' \in {assoc, "joining"} /\ lease' \in BOOLEAN
    BY <1>5 DEF wlan_connect, Leave
  <2>4. UNCHANGED <<calls, faults>>
    BY <1>5 DEF wlan_connect
  <2>5. QED
    BY <2>1, <2>2, <2>3, <2>4
<1>6. CASE PollConnected
  BY <1>6 DEF PollConnected, Poll
<1>7. CASE PollDhcp
  BY <1>7 DEF PollDhcp, Poll
<1>8. CASE SetTimeouts
  BY <1>8 DEF SetTimeouts
<1>9. CASE wlan_disconnect
  BY <1>9 DEF wlan_disconnect, Leave
<1>10. CASE Finished \/ UNCHANGED vars
  BY <1>10 DEF Finished, vars
<1>11. QED
  BY <1>2, <1>3, <1>4, <1>5, <1>6, <1>7, <1>8, <1>9, <1>10 DEF Next, HostStep

\* Each event tells of the association as it is when it is sent.
LEMMA ConnectedStep ==
    TypeOK /\ LeaseJoined /\ ConnectedInv /\ [Next]_vars => ConnectedInv'
<1> SUFFICES ASSUME TypeOK, LeaseJoined, ConnectedInv, [Next]_vars
             PROVE  ConnectedInv'
  OBVIOUS
<1>1. CASE Silent
  BY <1>1 DEF Silent, flags, ConnectedInv, LastOf, NoneOf
<1>2. ASSUME NEW e \in Events, Sends(e) PROVE ConnectedInv'
  <2>1. CASE e \in Joining
    BY <1>2, <2>1, Appended DEF Sends, flags, Joining, ConnectedInv
  <2>2. CASE e \notin Joining
    <3>1. UNCHANGED <<connected, assoc>>
      BY <1>2, <2>2 DEF Sends, flags, Joining
    <3>2. QED
      BY <1>2, <2>2, <3>1, Appended DEF Sends, ConnectedInv
  <2>3. QED
    BY <2>1, <2>2
<1>3. CASE CC3000AsyncCb
  <2>1. events # <<>> /\ events' = Tail(events) /\ UNCHANGED assoc
    BY <1>3 DEF CC3000AsyncCb
  <2>2. CASE Head(events) \in Joining
    <3>1. connected' = (Head(events) = "CONNECT")
      BY <1>3, <2>2 DEF CC3000AsyncCb, Joining
    <3>2. QED
      BY <2>1, <2>2, <3>1, Handled DEF ConnectedInv
  <2>3. CASE Head(events) \notin Joining
    <3>1. UNCHANGED connected
      BY <1>3, <2>3 DEF CC3000AsyncCb, Joining
    <3>2. QED
      BY <2>1, <2>3, <3>1, Handled DEF ConnectedInv
  <2>4. QED
    BY <2>2, <2>3
<1>4. QED
  BY <1>1, <1>2, <1>3, EventsStep

\* Each event but CONNECT tells of the lease as it is when it is sent.
LEMMA LeaseStep ==
    TypeOK /\ LeaseJoined /\ LeaseInv /\ [Next]_vars => LeaseInv'
<1> SUFFICES ASSUME TypeOK, LeaseJoined, LeaseInv, [Next]_vars
             PROVE  LeaseInv'
  OBVIOUS
<1>1. CASE Silent
  BY <1>1 DEF Silent, flags, LeaseInv, LastOf, NoneOf
<1>2. ASSUME NEW e \in Events, Sends(e) PROVE LeaseInv'
  <2>1. CASE e \in Leasing
    BY <1>2, <2>1, Appended DEF Sends, flags, Leasing, LeaseInv
  <2>2. CASE e \notin Leasing
    <3>1. UNCHANGED <<dhcpPresent, lease>>
      BY <1>2, <2>2 DEF Sends, flags, Leasing
    <3>2. QED
      BY <1>2, <2>2, <3>1, Appended DEF Sends, LeaseInv
  <2>3. QED
    BY <2>1, <2>2
<1>3. CASE CC3000AsyncCb
  <2>1. events # <<>> /\ events' = Tail(events) /\ UNCHANGED lease
    BY <1>3 DEF CC3000AsyncCb
  <2>2. CASE Head(events) \in Leasing
    <3>1. dhcpPresent' = (Head(events) = "DHCP")
      BY <1>3, <2>2 DEF CC3000AsyncCb, Leasing
    <3>2. QED
      BY <2>1, <2>2, <3>1, Handled DEF LeaseInv, TypeOK
  <2>3. CASE Head(events) \notin Leasing
    <3>1. UNCHANGED dhcpPresent
      BY <1>3, <2>3 DEF CC3000AsyncCb, Leasing
    <3>2. QED
      BY <2>1, <2>3, <3>1, Handled DEF LeaseInv
  <2>4. QED
    BY <2>2, <2>3
<1>4. QED
  BY <1>1, <1>2, <1>3, EventsStep

\* A device that loses its association has no address.
LEMMA LeaseJoinedStep ==
    TypeOK /\ LeaseJoined /\ [Next]_vars => LeaseJoined'
<1> SUFFICES ASSUME TypeOK, LeaseJoined, [Next]_vars PROVE LeaseJoined'
  OBVIOUS
<1> USE DEF LeaseJoined, flags, devVars, history
<1>1. CASE DevJoin \/ DevLease \/ DevLeaseFail \/ DevDrop
  BY <1>1 DEF DevJoin, DevLease, DevLeaseFail, DevDrop
<1>2. CASE wlan_connect \/ wlan_disconnect
  BY <1>2 DEF wlan_connect, wlan_disconnect, Leave
<1>3. CASE CC3000AsyncCb
  BY <1>3 DEF CC3000AsyncCb
<1>4. CASE wifi_link \/ wifi_unlink \/ SetTimeouts
  BY <1>4 DEF wifi_link, wifi_unlink, SetTimeouts
<1>5. CASE PollConnected \/ PollDhcp
  BY <1>5 DEF PollConnected, PollDhcp, Poll
<1>6. CASE Finished \/ UNCHANGED vars
  BY <1>6 DEF Finished, vars
<1>7. QED
  BY <1>1, <1>2, <1>3, <1>4, <1>5, <1>6 DEF Next, HostStep

\* What a clean call finds is of its own making.
LEMMA CleanStep ==
    TypeOK /\ LeaseJoined /\ CleanInv /\ [Next]_vars => CleanInv'
<1> SUFFICES ASSUME TypeOK, LeaseJoined, CleanInv, [Next]_vars
             PROVE  CleanInv'
  OBVIOUS
<1> DEFINE D == {"DHCP"}
<1>q. UNCHANGED events => (NoneOf(D)' <=> NoneOf(D))
  BY DEF NoneOf
<1>a. ASSUME NEW e \in Events, events' = Append(events, e), e # "DHCP"
      PROVE  NoneOf(D)' <=> NoneOf(D)
  BY <1>a, Appended
<1> HIDE DEF D
<1>inv. clean => /\ dhcpPresent \/ lease \/ pc = "timeouts" \/ ~NoneOf(D)
                    => leasedSince
                 /\ result = "ok" /\ pc \in {"idle", "connect", "disconnect"}
                    => leasedSince
  BY DEF CleanInv, D
<1> SUFFICES ASSUME clean'
             PROVE  \/ leasedSince'
                    \/ /\ ~(dhcpPresent' \/ lease' \/ pc' = "timeouts" \/ ~NoneOf(D)')
                       /\ ~(result' = "ok" /\ pc' \in {"idle", "connect", "disconnect"})
  BY DEF CleanInv, D
<1> USE DEF flags, devVars, history, Goto, Events
<1>1. CASE DevJoin \/ DevLease \/ DevLeaseFail \/ DevDrop
  <2>1. CASE DevJoin
    BY <2>1, <1>a, <1>inv DEF DevJoin
  <2>2. CASE DevLease
    BY <2>2 DEF DevLease
  <2>3. CASE DevLeaseFail
    BY <2>3, <1>a, <1>inv DEF DevLeaseFail
  <2>4. CASE DevDrop
    BY <2>4, <1>a, <1>inv DEF DevDrop
  <2>5. QED
    BY <1>1, <2>1, <2>2, <2>3, <2>4
<1>2. CASE CC3000AsyncCb
  <2>1. /\ UNCHANGED <<pc, result, lease, history>>
        /\ events # <<>> /\ events' = Tail(events)
        /\ dhcpPresent' => dhcpPresent \/ Head(events) = "DHCP"
    BY <1>2 DEF CC3000AsyncCb
  <2>2. ~NoneOf(D)' => ~NoneOf(D)
    BY <2>1, Handled DEF LastOf, NoneOf
  <2>3. Head(events) = "DHCP" => ~NoneOf(D)
    BY <2>1, Handled DEF NoneOf, D
  <2>4. QED
    BY <2>1, <2>2, <2>3, <1>inv
<1>3. CASE wlan_connect
  <2>1. CASE pc' = "pollConnected"
    <3>1. /\ assoc = "none" /\ events = <<>> /\ ~dhcpPresent
          /\ UNCHANGED flags /\ Leave("joining")
      BY <1>3, <2>1 DEF wlan_connect
    <3>2. events' = <<>> /\ ~lease'
      BY <3>1 DEF Leave
    <3>3. NoneOf(D)'
      BY <3>2 DEF NoneOf
    <3>4. QED
      BY <2>1, <3>1, <3>2, <3>3
  <2>2. CASE pc' # "pollConnected"
    <3>1. /\ pc' = "idle" /\ result' = "error"
          /\ UNCHANGED <<lease, dhcpPresent, events, clean, leasedSince>>
      BY <1>3, <2>2 DEF wlan_connect
    <3>2. QED
      BY <3>1, <1>q, <1>inv
  <2>3. QED
    BY <2>1, <2>2
<1>4. CASE wlan_disconnect
  <2>1. NoneOf(D)' <=> NoneOf(D)
    BY <1>4, <1>q, <1>a DEF wlan_disconnect, Leave
  <2>2. QED
    BY <1>4, <2>1, <1>inv DEF wlan_disconnect, Leave
<1>5. CASE wifi_link \/ wifi_unlink \/ SetTimeouts
  <2>1. UNCHANGED <<lease, dhcpPresent, events, clean, leasedSince>>
    BY <1>5 DEF wifi_link, wifi_unlink, SetTimeouts
  <2>2. /\ pc' # "timeouts"
        /\ pc = "timeouts" \/ (UNCHANGED result /\ pc = "idle")
    BY <1>5 DEF wifi_link, wifi_unlink, SetTimeouts
  <2>3. QED
    BY <2>1, <2>2, <1>q, <1>inv
<1>6. CASE PollConnected
  BY <1>6, <1>q, <1>inv DEF PollConnected, Poll
<1>7. CASE PollDhcp
  BY <1>7, <1>q, <1>inv DEF PollDhcp, Poll
<1>8. CASE Finished \/ UNCHANGED vars
  <2>1. UNCHANGED <<lease, dhcpPresent, events, clean, leasedSince, pc, result>>
    BY <1>8 DEF Finished, vars
  <2>2. QED
    BY <2>1, <1>q, <1>inv
<1>9. QED
  BY <1>1, <1>2, <1>3, <1>4, <1>5, <1>6, <1>7, <1>8 DEF Next, HostStep

-----------------------------------------------------------------------------
\* The inductive invariant holds in every reachable state.
THEOREM Inductive == Spec => []IInv
<1>1. IInv /\ [Next]_vars => IInv'
  BY TypeStep, ConnectedStep, LeaseStep, LeaseJoinedStep, CleanStep DEF IInv
<1>2. QED
  BY IInvInit, <1>1, PTL DEF Spec

\* Whatever the order in which connections and addresses come and go, the
\* flags CC3000AsyncCb keeps are those of the device once it has caught up.
THEOREM LinkFlags == Spec => []Inv
<1>1. IInv => Inv
  <2> SUFFICES ASSUME IInv, events = <<>> PROVE FlagsCatchUp
    BY DEF IInv, Inv, FlagsCatchUp
  <2>1. NoneOf(Joining) /\ NoneOf(Leasing)
    BY DEF NoneOf
  <2>2. QED
    BY <2>1 DEF IInv, ConnectedInv, LeaseInv, FlagsCatchUp
<1>2. QED
  BY Inductive, <1>1, PTL

\* A wifi_link that found nothing left over and succeeds has an address that
\* was given for its own connect command.
THEOREM CleanLink == Spec => []CleanLinkIsReal
<1>1. IInv => CleanLinkIsReal
  BY DEF IInv, CleanInv, CleanLinkIsReal
<1>2. QED
  BY Inductive, <1>1, PTL
==============================================================================
