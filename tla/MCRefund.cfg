\* A full refund of a card with money on it.
SPECIFICATION DeskSpec
CONSTANTS
  r1 = r1
  r2 = r2
  r3 = r3
  s1 = s1
  s2 = s2
  fake = fake
  Amounts = {1}
  MaxBalance = 2
  Counters = {}
  Invoices = {}
  NoInvoice = NoInvoice
  Statuses = {}
  Keys = {}
  NoKey = NoKey
  Methods = {}
  DefaultMethod = fake
  Exports <- NoFiles
  MaxVersion = 0
  MaxTxns = 3
  Requests = {r1}
  Shifts = {s1}
  MaxFaults = 0
CHECK_DEADLOCK FALSE
PROPERTY
  FullRefundEmpties
