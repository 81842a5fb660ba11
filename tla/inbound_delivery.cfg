SPECIFICATION LiveSpec
CONSTANTS
    n1 = n1
    n2 = n2
    p1 = p1
    p2 = p2
    Node = {n1, n2}
    Peer = {p1, p2}
    PeerOf <- MCPeerOf
    MaxMsg = 2
    Slots = 1
    Consumers = 1
    InboxMax = 1
    RedisFails = FALSE
    MaxFaults = 1
PROPERTIES Delivery EverySettled
CHECK_DEADLOCK FALSE
