CONSTANTS
    Clients = {c1, c2}
    MaxStreams = 1
    Requests <- DeepRequests
    MaxRequests = 5
    MaxPushes = 3
    MaxPackets = 1
    SeqMod = 3
    MaxInt = 3
SPECIFICATION Spec
PROPERTIES NoGap
SYMMETRY Symmetry
