---------------------------- MODULE MC_SocketTable ----------------------------
(* SocketLayer with two kinds of program, chosen at the start: one closes its *)
(* sockets, the other leaves that to receives that fail.                      *)
EXTENDS SocketLayer

VARIABLE program

Closers == {"socket", "close", "setsockopt", "other"}
Receivers == {"socket", "recv", "setsockopt", "other"}

Receiving == INSTANCE SocketLayer WITH Ops <- Receivers

ProgramInit == Init /\ program \in {"closing", "receiving"}
ProgramNext == /\ UNCHANGED program
               /\ \/ program = "closing" /\ Next
                  \/ program = "receiving" /\ Receiving!Next

TableSpec == ProgramInit /\ [][ProgramNext]_<<vars, program>> /\ Fairness
==============================================================================
