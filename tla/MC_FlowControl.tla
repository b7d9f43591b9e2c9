---------------------------- MODULE MC_FlowControl ----------------------------
(* Transmit flow control with a few buffers and sends.                      *)
EXTENDS FlowControl
==============================================================================
