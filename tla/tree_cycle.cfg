SPECIFICATION TreeOnly
CONSTANTS
    n1 = n1
    n2 = n2
    Names = {n1, n2}
    Alike <- NoneAlike
    MaxEntries = 3
    MaxRequests = 5
    Downloads = {1, 2}
    Versions <- TwoVersions
    BlockSize = 2
    Capacities = {2, 3}
    Ranges <- Headers
    MaxBad = 1
    Pipelines <- ThreeAskings
    ReadSize = 2
    DiscardReads = 2
    Workers = {w1, w2}
    Clients = {c1, c2}
    QueueLimit = 0
    Asks = 1
    Rounds = 1
    u1 = u1
    u2 = u2
    Ids = {u1, u2}
    FirstAdmin = u1
    Tables <- NewOrUsed
    Passwords = {p, q}
    Tokens = {t1, t2, t3}
    Threads = {h1, h2}
    NoUser = NoUser
    MaxCalls = 2
    MaxFailed = 1
    Statements <- FourStatements
    SetUp = 2
    Rounds6 = 2
    MaxCuts = 1
    MaxSlow = 1
    WordBits = 2
    ByteBits = 1
    NewtonRounds = 1
    Window = 2
    SmallPrimes <- Three
    TrialLimit = 3
    Batch = 3
    MaxCycle = 16
    MaxBack = 20
    ByteBase = 8
    PacketMax = 3
    Schema <- ThreeConstructors
    HashBlock = 4
    LengthSize = 2
    CodeMax = 4
    MaxDepth = 3
    IntBits = 10
    Questions <- FamilyQuestions
INVARIANTS NoFolderInsideItself
CHECK_DEADLOCK FALSE
