------------------------------- MODULE MC_NetIo -------------------------------
(* A small instance of NetIo for TLC; the values are in the .cfg files.      *)
EXTENDS NetIo

\* The peer of socket 0, which select can report, sends two bytes; the others
\* only listen.
Feed == [s \in Socks |-> IF s = 0 THEN 2 ELSE 0]
===============================================================================
