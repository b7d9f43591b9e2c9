SPECIFICATION FairSpec
CONSTANTS MaxPolls = 2
          MaxCalls = 4
          MaxFaults = 2
INVARIANTS Inv
           CleanLinkIsReal
PROPERTIES LinkReturns
