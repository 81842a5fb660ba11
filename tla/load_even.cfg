SPECIFICATION LoadFairSpec
CONSTANTS
    Node = {1, 2}
    MaxBots <- MCMaxBotsUneven
    Default = 1
    Weights <- MCEven
    BotCounts = {5}
    Slack = 1
    MaxPerTick = 2
    MaxUpsets = 0
    MaxMissed = 0
    Overlapping = {}
PROPERTIES Settles
