SPECIFICATION FairSpec
CONSTANTS MaxPackets = 3
          MaxWrites = 3
INVARIANTS NoLostEdge
           TokensCurrent
           ClockedWhenGranted
           NoInterruptWhileProcessing
PROPERTIES ImplementsTransport
           WriteReturns
           PacketsDelivered
