SPECIFICATION ControlSpec
CONSTANTS
    Worker = {w1, w2}
    NoOne = NoOne
    Totals <- MCTotal
    FlushEvery = 2
    MaxMishaps = 1
    Versions = {v1, v2}
    Files = {fa, fb}
    Shipped = v1
    Heavy = {v2}
    AllowInstall = TRUE
    MaxJobs = 2
    MaxCrashes = 1
    Nothing = Nothing
    Bots = {o1}
    Logins = {l1}
    MaxEdits = 2
    MaxCursor = 1
    Absent = Absent
    Nodes = {n1, n2}
    Front = {n1}
    Services = {worker}
    Values = {1, 2}
    Changes <- MCChanges
    DefaultSilence = 1
    DefaultWait = 2
    MaxPatches = 2
    MaxFaults = 1
    Unset = Unset
    Node = {1, 2}
    MaxBots <- MCMaxBots
    Default = 1
    Weights <- MCWeights
    BotCounts = {4, 5}
    Slack = 1
    MaxPerTick = 2
    MaxUpsets = 1
    MaxMissed = 1
    Overlapping = {1}
INVARIANTS TypeOK CompletedReachedAll RepeatsBounded DoneIsWhole BotsAgree SettingsKept PlanSound
PROPERTIES BroadcastEnds NodesSettle Settles SettledBalanced
CHECK_DEADLOCK FALSE
