\* Two handlers and two repairs at the same time, a failure, and a backup taken
\* when the card was active.
CONSTANTS
    Workers = {w1, w2}
    Repairs = {p1, p2}
    MaxCalls = 3
    MaxFaults = 1
    Amounts = {}
    MaxBalance = 0
    Counters = {}
    Invoices = {}
    NoInvoice = NoInvoice
    Statuses = {}
    Keys = {}
    NoKey = NoKey
    Methods = {}
    DefaultMethod = fake
    Exports <- OldFiles
    MaxVersion = 4
    MaxTxns = 0
SPECIFICATION IndexSpec
CHECK_DEADLOCK FALSE
INVARIANTS
    IndexTrue
PROPERTIES
    RepairHeals
