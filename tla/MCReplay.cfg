\* Callbacks without an invoice on one tap.
SPECIFICATION FlowSpec
CONSTANTS
  i1 = i1
  i2 = i2
  r1 = r1
  r2 = r2
  r3 = r3
  fake = fake
  cln = cln
  Amounts = {1}
  MaxBalance = 2
  Counters = {0}
  Invoices = {i1}
  NoInvoice = NoInvoice
  Statuses = {"completed", "failed"}
  Keys = {}
  NoKey = NoKey
  Methods = {}
  DefaultMethod = fake
  Exports <- NoFiles
  MaxVersion = 0
  MaxTxns = 4
  Requests = {r1, r2}
  ClnMethod = cln
  MaxFaults = 0
  MaxRewinds = 0
CHECK_DEADLOCK FALSE
INVARIANT
  OneDebitPerTap
