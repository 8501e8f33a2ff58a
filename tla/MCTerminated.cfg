\* A callback on a card the operator terminated.
SPECIFICATION FlowSpec
CONSTANTS
  i1 = i1
  i2 = i2
  r1 = r1
  r2 = r2
  r3 = r3
  fake = fake
  cln = cln
  Amounts = {1}
  MaxBalance = 1
  Counters = {0}
  Invoices = {i1}
  NoInvoice = NoInvoice
  Statuses = {"completed", "failed"}
  Keys = {}
  NoKey = NoKey
  Methods = {}
  DefaultMethod = fake
  Exports <- NoFiles
  MaxVersion = 0
  MaxTxns = 3
  Requests = {r1}
  ClnMethod = cln
  MaxFaults = 0
  MaxRewinds = 1
CHECK_DEADLOCK FALSE
INVARIANT
  TerminatedPaysNothing
