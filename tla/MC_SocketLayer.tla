---------------------------- MODULE MC_SocketLayer ----------------------------
(* Small instances of SocketLayer for TLC; the values are in the .cfg files. *)
EXTENDS SocketLayer, TLC

SharedOps == AllOps \ {"recv", "setsockopt"}
Clients == AllOps \ {"accept"}
\* Threads are interchangeable, and so are the device's descriptors.
Symmetry == Permutations(Threads) \cup Permutations(Sds)
==============================================================================
