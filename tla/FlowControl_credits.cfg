SPECIFICATION Spec
CONSTANTS Buffers = 2
          MaxSends = 2
          EqualPriority = FALSE
INVARIANTS CreditsTracked
CHECK_DEADLOCK FALSE
