SPECIFICATION FairSpec
CONSTANTS
    Jobs <- MCJobs
    Tasks = {t1, t2, t3}
    MaxDrain = 2
    MaxPanics = 1
    NoTask = NoTask
    Unset = Unset
INVARIANTS CommittedPrefix FailsOnlyOnPanic
PROPERTIES NoOverwrite ImplementsContract Terminates
