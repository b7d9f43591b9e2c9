SPECIFICATION FairSpec
CONSTANTS Threads = {t1, t2}
          MaxInits = 3
          MaxCalls = 2
          MaxEvents = 1
INVARIANTS Inv
           ReaderArmed
           CleanRestart
PROPERTIES CallsReturn
CHECK_DEADLOCK FALSE
