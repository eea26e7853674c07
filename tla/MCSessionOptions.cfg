CONSTANTS
    Clients = {c1}
    MaxStreams = 1
    Requests <- OptionsRequests
    MaxRequests = 3
    MaxPushes = 0
    MaxPackets = 1
    SeqMod = 2
    MaxInt = 3
SPECIFICATION Spec
PROPERTIES OptionsAtAnyTime
