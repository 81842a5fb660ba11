SPECIFICATION FairSpec
CONSTANTS
    Worker = {w1, w2}
    Bot = {b1, b2}
    Task = {t1}
    NoWorker = NoWorker
    MaxBots = 1
    MaxLoops = 2
    PromptRedis = TRUE
    MaxBusy = 2
    MaxFaults = 1
PROPERTIES Converges FencedDrains
