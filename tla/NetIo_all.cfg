SPECIFICATION FairSpec
CONSTANTS Threads = {t1, t2}
          Socks = {0, 1}
          Natives = {"send", "sendall", "sendto", "recv", "recvfrom", "select"}
          Lens = {3}
          SEND_PORTION = 2
          RECV_PORTION = 1
          StatusBytes = {1}
          MaxCalls = 2
          MaxInput <- Feed
INVARIANTS Inv
           SentAsReturned
           ReceivedAsReturned
           
PROPERTIES NativesReturn
CHECK_DEADLOCK FALSE
