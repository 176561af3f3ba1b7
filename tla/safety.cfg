SPECIFICATION SafetySpec
CONSTANTS
    Addresses = {a1, a2}
    NoAdmin = NoAdmin
    Inputs = {e1, e2, bad}
    InvalidInputs = {bad}
    NoEvent = NoEvent
    MinMaxEvents = 2
    MaxMaxEvents = 4
    MaxBatch = 3
    MaxCapacity = 5
    MaxSeq = 8
    c1 = c1
    c2 = c2
    Contracts = {c1, c2}
    Abis = {x, broken}
    InvalidAbis = {broken}
    Tokens = {t1}
    ViewAnswers <- MCViewAnswers
    None = None
    Self = Self
    MaxVersion = 1
    Amounts <- MCAmounts
    Funds = 1
    People = {p1, p2}
    TicketSelf = self
    Prices = {0, 1, 2}
    MaxSeats = 3
    Purse = 3
    Entries = {q1, q2}
    Workers = {w1, w2}
    Hashes = {h1}
    MaxAttempts = 2
    PoisonThreshold = 2
    BatchSize = 2
    MaxFaults = 1
    MaxAdmin = 1
INVARIANTS WindowIntact AnnouncedAreGone EventCountExact NoRemnants HistoryExact DepositsBacked EscrowExact QueuedIsRetriable ReplayedWasHandled
PROPERTY HistoryImmutable
SYMMETRY Symmetry
CHECK_DEADLOCK FALSE
