SPECIFICATION RecordsSpec
CONSTANTS
    a1 = a1 a2 = a2 b1 = b1 b2 = b2 c1 = c1 c2 = c2
    Collectors = {b1, b2}
    System = System
    StickerIds = {k1}
    Images = {"first", "second"}
    Slugs = {"one", "other"}
    Requests = {a1, a2}
    Patches <- MCPatches
    MaxCommands = 3
    Null = Null
    Owners = {b1, b2}
    Official = Official
    PersonaIds = {c1, c2}
    Graphs = {gr}
    Peers = {pe}
    Calls = {a1, a2}
    MaxCalls = 3
    Nil = Nil
    Locals = {f, c1, c2}
    Founder = f
    Known = {w1}
    Names = {b1, b2}
    Codes = {e1}
    Jobs = {a1, a2}
    MaxOpen = 1
    InviteRequired = {TRUE, FALSE}
    FirstUserIsAdmin = TRUE
    AdminIds = {}
    MaxStarts = 3
    No = No
    Triers = {u1, u2}
    Tries = {c1, c2}
    TryOwner <- MCTryOwner
    Sends = {a1, a2}
    MaxPerDay = 1
    MaxPerSession = 1
    MaxHistory = 1
    Days = 2
    Accounts = {b1, b2}
    Phones = {c1, c2}
    MaxCodes = 3
    BindCommands = {a1, a2}
    MaxGiven = 3
    Nobody = Nobody
SYMMETRY Sym
INVARIANTS TypeOK SquareReviewed PublishedIsOwn  TryCaps BindsAgree
CHECK_DEADLOCK FALSE
