CONSTANTS
    Workers = {w1, w2, w3}
    MaxStarts = 2
    MaxPuts = 3
SPECIFICATION FairSpec
INVARIANTS OnePlace StopFinishes StartReady
PROPERTIES CommandsExecuted StartReturns LoneStopReturns
\* The bounds stop the system, and with more than one worker stop() may wait for ever.
CHECK_DEADLOCK FALSE
