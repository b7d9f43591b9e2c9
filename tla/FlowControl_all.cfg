SPECIFICATION FairSpec
CONSTANTS Buffers = 3
          MaxSends = 6
          EqualPriority = TRUE
INVARIANTS NeverOverrun
PROPERTIES ShutdownWhenDrained
           SenderGetsBuffer
CHECK_DEADLOCK FALSE
