SPECIFICATION Spec
CONSTANTS Threads = {t1, t2}
          Sds = {d1, d2}
          MAX_SOCKETS = 1
          Ops <- SharedOps
          PeerCloses = TRUE
          CloseAgain = TRUE
INVARIANTS Inv
PROPERTIES TableLosses
SYMMETRY Symmetry
