------------------------------- MODULE WifiLink -------------------------------
(***************************************************************************)
(* Joining and leaving a network: cc3000_wifi_link sends the connect       *)
(* command and then polls two flags of cc3000AsyncData, which the reader   *)
(* thread sets and resets in CC3000AsyncCb when the device's events reach  *)
(* it.  cc3000_wifi_unlink sends a command and returns.  The flags are     *)
(* cleared when the device is started and by a DISCONNECT event, never by  *)
(* wifi_link or wifi_unlink.                                               *)
(***************************************************************************)
EXTENDS Naturals, Sequences

CONSTANTS MaxPolls,  \* polls before a timeout (1000 in the source)
          MaxCalls,  \* bound: calls of wifi_link and wifi_unlink
          MaxFaults  \* bound: connections lost and leases refused

ASSUME BoundsAssumption ==
    MaxPolls \in Nat /\ MaxCalls \in Nat /\ MaxFaults \in Nat

VARIABLES connected,   \* cc3000AsyncData.connected
          dhcpPresent, \* cc3000AsyncData.dhcp.present
          pc,          \* program counter of the calling thread
          cloop,       \* poll counter of wifi_link
          result,      \* what the last call returned
          calls,       \* calls begun
          assoc,       \* association of the device with the access point
          lease,       \* TRUE: the device has an address
          events,      \* events on their way to the reader thread
          faults,      \* connections lost and leases refused
          clean,       \* the call in progress found nothing left over
          leasedSince  \* an address was got since the last connect command

flags   == <<connected, dhcpPresent>>
devVars == <<assoc, lease, events, faults>>
history == <<clean, leasedSince>>
vars == <<flags, pc, cloop, result, calls, devVars, history>>

Events == {"CONNECT", "DISCONNECT", "DHCP", "DHCP_FAILED"}
PCs == {"idle", "connect", "pollConnected", "pollDhcp", "timeouts",
        "disconnect"}

Init == /\ connected = FALSE /\ dhcpPresent = FALSE
        /\ pc = "idle" /\ cloop = 0 /\ result = "none" /\ calls = 0
        /\ assoc = "none" /\ lease = FALSE /\ events = <<>> /\ faults = 0
        /\ clean = TRUE /\ leasedSince = FALSE

Goto(from, to) == pc = from /\ pc' = to

-----------------------------------------------------------------------------
(* The device and the access point (external).                             *)

DevJoin == /\ assoc = "joining" /\ assoc' = "joined"
           /\ events' = Append(events, "CONNECT")
           /\ UNCHANGED <<flags, pc, cloop, result, calls, lease, faults,
                          history>>

DevLease == /\ assoc = "joined" /\ ~lease /\ lease' = TRUE
            /\ events' = Append(events, "DHCP")
            /\ leasedSince' = TRUE
            /\ UNCHANGED <<flags, pc, cloop, result, calls, assoc, faults,
                           clean>>

\* No address is assigned, or the one assigned is not renewed.
DevLeaseFail == /\ assoc = "joined" /\ lease' = FALSE
                /\ faults < MaxFaults /\ faults' = faults + 1
                /\ events' = Append(events, "DHCP_FAILED")
                /\ UNCHANGED <<flags, pc, cloop, result, calls, assoc, history>>

DevDrop == /\ assoc = "joined" /\ assoc' = "none" /\ lease' = FALSE
           /\ faults < MaxFaults /\ faults' = faults + 1
           /\ events' = Append(events, "DISCONNECT")
           /\ UNCHANGED <<flags, pc, cloop, result, calls, history>>

\* A device that is joined leaves first, and says so.
Leave(to) ==
    /\ assoc' = to /\ lease' = FALSE
    /\ events' = IF assoc = "joined" THEN Append(events, "DISCONNECT")
                                     ELSE events

-----------------------------------------------------------------------------

\* Mutant: a lost connection leaves the old lease marked present.
CC3000AsyncCb_KeepsLease ==
    /\ events # <<>> /\ events' = Tail(events)
    /\ connected' = CASE Head(events) = "CONNECT"    -> TRUE
                      [] Head(events) = "DISCONNECT" -> FALSE
                      [] OTHER                       -> connected
    /\ dhcpPresent' = CASE Head(events) = "DHCP"        -> TRUE
                        [] Head(events) = "DHCP_FAILED" -> FALSE
                        [] OTHER                        -> dhcpPresent
    /\ UNCHANGED <<pc, cloop, result, calls, assoc, lease, faults, history>>

\* CC3000AsyncCb, called by the reader thread for each event in turn.
CC3000AsyncCb ==
    /\ events # <<>> /\ events' = Tail(events)
    /\ connected' = CASE Head(events) = "CONNECT"    -> TRUE
                      [] Head(events) = "DISCONNECT" -> FALSE
                      [] OTHER                       -> connected
    /\ dhcpPresent' = CASE Head(events) = "DHCP"                      -> TRUE
                        [] Head(events) \in {"DISCONNECT",
                                             "DHCP_FAILED"}           -> FALSE
                        [] OTHER                           -> dhcpPresent
    /\ UNCHANGED <<pc, cloop, result, calls, assoc, lease, faults, history>>

-----------------------------------------------------------------------------
(* cc3000_wifi_link.                                                       *)

wifi_link == /\ Goto("idle", "connect")
             /\ calls < MaxCalls /\ calls' = calls + 1
             /\ UNCHANGED <<flags, cloop, result, devVars, history>>

\* wlan_connect: the command may be refused.
wlan_connect ==
    /\ \/ /\ Goto("connect", "pollConnected")
          /\ Leave("joining")
          /\ clean' = /\ assoc = "none" /\ events = <<>>
                      /\ ~connected /\ ~dhcpPresent
          /\ leasedSince' = FALSE
          /\ UNCHANGED result
       \/ /\ Goto("connect", "idle")
          /\ result' = "error"
          /\ UNCHANGED <<assoc, lease, events, history>>
    /\ cloop' = 0
    /\ UNCHANGED <<flags, calls, faults>>

\* Mutant: the rounds are not counted.
Poll_Uncounted(flag, from, to) ==
    /\ IF flag THEN Goto(from, to) ELSE Goto(from, from)
    /\ UNCHANGED <<cloop, result, flags, calls, devVars, history>>

\* One round of a polling loop: the flag is set, or the thread sleeps and
\* counts, and gives up after MaxPolls rounds.
Poll(flag, from, to) ==
    /\ IF flag
       THEN Goto(from, to) /\ cloop' = 0 /\ UNCHANGED result
       ELSE /\ cloop' = cloop + 1
            /\ IF cloop' > MaxPolls
               THEN Goto(from, "idle") /\ result' = "error"
               ELSE Goto(from, from) /\ UNCHANGED result
    /\ UNCHANGED <<flags, calls, devVars, history>>

\* Mutant: the address is not waited for.
PollConnected_Only == Poll(connected, "pollConnected", "timeouts")

PollConnected == Poll(connected, "pollConnected", "pollDhcp")
PollDhcp      == Poll(dhcpPresent, "pollDhcp", "timeouts")

\* netapp_timeout_values, whose failure is an error, and two gethostbyname,
\* whose result is ignored.
SetTimeouts == /\ Goto("timeouts", "idle")
               /\ result' \in {"ok", "error"}
               /\ UNCHANGED <<flags, cloop, calls, devVars, history>>

(* cc3000_wifi_unlink: the event comes when it comes.                      *)

wifi_unlink == /\ Goto("idle", "disconnect")
               /\ calls < MaxCalls /\ calls' = calls + 1
               /\ UNCHANGED <<flags, cloop, result, devVars, history>>

wlan_disconnect == /\ Goto("disconnect", "idle")
                   /\ result' = "unlinked"
                   /\ Leave("none")
                   /\ UNCHANGED <<flags, cloop, calls, faults, history>>

HostStep == \/ wlan_connect \/ PollConnected \/ PollDhcp \/ SetTimeouts
            \/ wlan_disconnect

Finished == pc = "idle" /\ calls = MaxCalls /\ UNCHANGED vars

Next == \/ DevJoin \/ DevLease \/ DevLeaseFail \/ DevDrop
        \/ CC3000AsyncCb
        \/ wifi_link \/ wifi_unlink \/ HostStep \/ Finished

Spec == Init /\ [][Next]_vars

\* The calling thread is scheduled; nothing is assumed of the device.
FairSpec == Spec /\ WF_vars(HostStep)

-----------------------------------------------------------------------------
(* Properties *)

\* Type invariant of the link state.
TypeOK == /\ connected \in BOOLEAN /\ dhcpPresent \in BOOLEAN
          /\ pc \in PCs /\ cloop \in 0..(MaxPolls + 1)
          /\ result \in {"none", "ok", "error", "unlinked"} /\ calls \in Nat
          /\ assoc \in {"none", "joining", "joined"} /\ lease \in BOOLEAN
          /\ events \in Seq(Events) /\ faults \in Nat
          /\ clean \in BOOLEAN /\ leasedSince \in BOOLEAN

\* Once all events have been handled the flags say what the device is: no
\* order of connects, losses and lease events leaves one of them behind.
FlagsCatchUp == events = <<>> => /\ connected = (assoc = "joined")
                                 /\ dhcpPresent = lease

\* The link state is of its types, and the flags catch up with the device.
Inv == TypeOK /\ FlagsCatchUp

\* A wifi_link that found no association, no flag and no event left over and
\* succeeds was given an address for its own connect command.
CleanLinkIsReal == result = "ok" /\ pc = "idle" /\ clean => leasedSince

\* wifi_link and wifi_unlink return, whatever the network does.
LinkReturns == (pc # "idle") ~> (pc = "idle")
==============================================================================
