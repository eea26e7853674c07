CONSTANTS
    Kinds = {"OPTIONS", "SETUP", "PLAY"}
    MaxMessages = 2
SPECIFICATION Spec
INVARIANTS AllUnderstood
CHECK_DEADLOCK FALSE
