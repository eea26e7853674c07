CONSTANTS
    Kinds = {"OPTIONS", "DESCRIBE", "SETUP", "PLAY", "TEARDOWN", "frame"}
    MaxMessages = 3
SPECIFICATION Spec
INVARIANTS ExecutedWasSent UnderstoodIfWhole AnswersDelimited
\* The bound on the messages stops the system.
CHECK_DEADLOCK FALSE
