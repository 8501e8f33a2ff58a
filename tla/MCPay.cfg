\* Two callbacks for one tap, a failure, and a rewind.
CONSTANTS
    Requests = {r1, r2}
    PayMethod = lnurlpay
    MaxFaults = 1
    MaxRewinds = 1
    Amounts = {}
    MaxBalance = 0
    Counters = {0}
    Invoices = {inv}
    NoInvoice = NoInvoice
    Statuses = {"completed", "failed"}
    Keys = {}
    NoKey = NoKey
    Methods = {lnurlpay}
    DefaultMethod = fake
    Exports <- NoFiles
    MaxVersion = 0
    MaxTxns = 0
SPECIFICATION PaySpec
CHECK_DEADLOCK FALSE
INVARIANTS
    PayTypeOK
    CompletedMeansInvoiced
    PendingMeansUninvoiced
PROPERTIES
    CallbackEnds
