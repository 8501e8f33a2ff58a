\* Till and desk: three requests at two desks, one failure.
SPECIFICATION DeskSpec
CONSTANTS
  r1 = r1
  r2 = r2
  r3 = r3
  s1 = s1
  s2 = s2
  fake = fake
  Amounts = {1}
  MaxBalance = 2
  Counters = {}
  Invoices = {}
  NoInvoice = NoInvoice
  Statuses = {}
  Keys = {}
  NoKey = NoKey
  Methods = {}
  DefaultMethod = fake
  Exports <- NoFiles
  MaxVersion = 0
  MaxTxns = 4
  Requests = {r1, r2, r3}
  Shifts = {s1, s2}
  MaxFaults = 1
SYMMETRY Symmetric
ACTION_CONSTRAINT Followed
CHECK_DEADLOCK FALSE
INVARIANTS
  DeskTypeOK
  CountedIsDone
  VoidsCountedOnce
  OutstandingFits
