SPECIFICATION Spec
CONSTANTS
    Peer = {p, q, r}
    Web = Web
    None = None
    MaxRequests = 2
    MaxEvents = 3
    MaxBusy = 2
SYMMETRY PeerSymmetry
INVARIANTS TypeOK Consent KeysAgree BlockBarsRequests
CHECK_DEADLOCK FALSE
