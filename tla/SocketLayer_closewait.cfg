SPECIFICATION Spec
CONSTANTS Threads = {t1, t2}
          Sds = {d1, d2}
          MAX_SOCKETS = 4
          Ops <- Clients
          PeerCloses = TRUE
          CloseAgain = FALSE
INVARIANTS LiveSocketsTracked
