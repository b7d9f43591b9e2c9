SPECIFICATION TableSpec
CONSTANTS Threads = {t1, t2}
          Sds = {d1, d2}
          MAX_SOCKETS = 3
          Ops <- Closers
          PeerCloses = FALSE
          CloseAgain = FALSE
INVARIANTS TableExact
PROPERTIES NativesReturn
