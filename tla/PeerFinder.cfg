\* Three tasks of two rounds and one permit; a switch that two hashes turn on and none turns off.
SPECIFICATION LiveSpec
CONSTANTS
    Hashes = {h1, h2}
    Tasks = {t1, t2, t3}
    NoTask = NoTask
    MaxConcurrent = 1
    MaxRetries = 2
    High = 1
    Low = 1
INVARIANTS TypeOK NoDeadEntry SwitchFollows WorkListed
PROPERTIES EveryTaskEnds
