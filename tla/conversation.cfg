SPECIFICATION ConversationSpec
CONSTANTS
    n1 = n1
    n2 = n2
    r1 = r1
    r2 = r2
    Node = {worker}
    Peer = {p1}
    PeerOf <- MCPeerOf
    MaxMsg = 2
    Slots = 2
    Consumers = 1
    InboxMax = 1
    RedisFails = TRUE
    MaxFaults = 2
    Jobs <- MCJobs
    Replies <- MCReplies
    Nodes = {n1, n2}
    MaxPerDay = 1
    DayHours = 3
    MaxClock = 2
    MaxInputs = 3
    Requests = {r1, r2}
    MaxUpsets = 1
    Allows = {TRUE, FALSE}
    NoRow = NoRow
    Graphs <- MCGraphs
    MaxNodes = 4
    MaxSteps = 4
    SearchAllowed = TRUE
    MaxRounds = 2
    MaxCalls = 2
    ToolSets = {{}, {"get_current_time"}, {"get_current_time", "web_search"}}
    FactIds = {fa, fb, fc}
    EveryN = 2
    MaxFacts = 2
    Extractions = {x1, x2}
    Owners = {o1}
    MaxSaid = 4
    MaxOrders = 2
    MaxSwitches = 4
SYMMETRY Sym
INVARIANTS TypeOK OnePlace NoSkip PeerOrderKept CleanShutdown RepliesInOrder TurnsKept GraphAnswers CallsAnswered OneScanChain
PROPERTY FactsKept
CHECK_DEADLOCK FALSE
