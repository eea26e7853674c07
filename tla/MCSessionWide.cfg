CONSTANTS
    Clients = {c1}
    MaxStreams = 2
    Requests <- WideRequests
    MaxRequests = 3
    MaxPushes = 2
    MaxPackets = 2
    SeqMod = 3
    MaxInt = 3
SPECIFICATION FairSpec
INVARIANTS Linked AnswersTrue StableDelivery OneReadWhileHeard
PROPERTIES MediaOnlyWhenGranted DestroyReturns
