CONSTANTS
    Clients = {c1}
    MaxStreams = 1
    Requests <- PlayRequests
    MaxRequests = 2
    MaxPushes = 1
    MaxPackets = 1
    SeqMod = 2
    MaxInt = 3
SPECIFICATION Spec
PROPERTIES MediaOnlyWhenGranted
