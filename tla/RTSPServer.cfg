CONSTANTS
    TaskOp = TaskOp
    NoOp = NoOp
    Nobody = Nobody
    Started = Started
    Acceptor = acceptor
    Connections = {c1}
    Handlers = {Started}
    Descriptors = {acceptor, c1}
SPECIFICATION FairSpec
INVARIANTS NoLostWakeup QueuedOnce NothingStranded RunsUntilStopped
PROPERTIES ExecutorSpec CallsReturn OperationsComplete
