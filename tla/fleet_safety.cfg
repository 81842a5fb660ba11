SPECIFICATION Spec
CONSTANTS
    Worker = {w1, w2}
    Bot = {b1}
    Task = {t1, t2}
    NoWorker = NoWorker
    MaxBots = 1
    MaxLoops = 2
    PromptRedis = FALSE
    MaxBusy = 2
    MaxFaults = 1
SYMMETRY Symmetry
INVARIANTS TypeOK LoopTableExact StoppedPollsNothing UnshakenSinglePoller
