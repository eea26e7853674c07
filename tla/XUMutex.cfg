CONSTANTS
    Threads = {t1, t2, t3, t4}
    NoThread = NoThread
    MaxNesting = 2
SPECIFICATION BuiltFairSpec
INVARIANTS MutualExclusion
PROPERTIES ConditionSpec SomebodyGetsIn
