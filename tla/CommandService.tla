---------------------------- MODULE CommandService ----------------------------
(***************************************************************************)
(* What the HCI layer promises to the API functions above it, without a    *)
(* receive buffer, awaited opcodes or a reader thread: one command at a    *)
(* time is executed by the device, once, and answered with its own event   *)
(* and, after a receive, its own data.  Unsolicited events are acted upon  *)
(* one at a time, each once and before the next is read, and do not        *)
(* disturb the command under way.                                          *)
(***************************************************************************)
EXTENDS Naturals

CONSTANTS MaxCommands

VARIABLES cmd, call,   \* command and number of the last call
          phase,       \* what has become of it
          reply,       \* what the caller was given, NoReply during the call
          unhandled,   \* unsolicited events read and not yet acted upon
          handled      \* events acted upon

vars == <<cmd, call, phase, reply, unhandled, handled>>

Commands == {"CMD", "RECV", "SEND"}
NoReply == [op |-> "none", id |-> 0, more |-> FALSE, data |-> 0]
\* Replies to a call: its event, and its data if the event announces data.
Replies == {[op |-> cmd, id |-> call, more |-> m,
             data |-> IF m THEN call ELSE 0] :
              m \in IF cmd = "RECV" THEN BOOLEAN ELSE {FALSE}}

Init == /\ cmd = "START" /\ call = 0 /\ phase = "idle" /\ reply = NoReply
        /\ unhandled = 0 /\ handled = 0

\* The first command starts the device.
Request == /\ phase = "idle" /\ phase' = "asked"
           /\ call < MaxCommands /\ call' = call + 1
           /\ cmd' \in IF call = 0 THEN {"START"} ELSE Commands
           /\ reply' = NoReply
           /\ UNCHANGED <<unhandled, handled>>

Execute == /\ phase = "asked" /\ phase' = "executed"
           /\ UNCHANGED <<cmd, call, reply, unhandled, handled>>

Answered == /\ phase = "executed" /\ phase' = "idle"
            /\ reply' \in Replies
            /\ UNCHANGED <<cmd, call, unhandled, handled>>

Arrive == /\ unhandled = 0 /\ unhandled' = 1
          /\ UNCHANGED <<cmd, call, phase, reply, handled>>

Handle == /\ unhandled = 1 /\ unhandled' = 0
          /\ handled' = handled + 1
          /\ UNCHANGED <<cmd, call, phase, reply>>

Next == Request \/ Execute \/ Answered \/ Arrive \/ Handle

Spec == Init /\ [][Next]_vars
==============================================================================
