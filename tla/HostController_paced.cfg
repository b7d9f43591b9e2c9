SPECIFICATION FairSpec
CONSTANTS MaxCommands = 4
          MaxUnsolicited = 2
          MaxPatches = 2
          Paced = TRUE
          SendMayFail = TRUE
INVARIANTS Inv
           ResultMatches
PROPERTIES CallReturns
           ImplementsService
CHECK_DEADLOCK FALSE
