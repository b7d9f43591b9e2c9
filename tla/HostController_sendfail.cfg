SPECIFICATION FairSpec
CONSTANTS MaxCommands = 2
          MaxUnsolicited = 0
          MaxPatches = 2
          Paced = TRUE
          SendMayFail = TRUE
PROPERTIES SendReturns
CHECK_DEADLOCK FALSE
