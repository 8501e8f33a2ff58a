\* The Lightning node: it may answer late, wrongly or never; two callbacks, or one
\* and a reset, a termination or a restored backup under it.  Liveness, so no
\* symmetry.
SPECIFICATION FairNodeSpec
CONSTANTS
  i1 = i1
  i2 = i2
  r1 = r1
  r2 = r2
  r3 = r3
  fake = fake
  cln = cln
  Amounts = {1}
  MaxBalance = 1
  Counters = {0}
  Invoices = {i1}
  NoInvoice = NoInvoice
  Statuses = {"completed", "failed"}
  Keys = {}
  NoKey = NoKey
  Methods = {cln}
  DefaultMethod = fake
  Exports <- NoFiles
  MaxVersion = 0
  MaxTxns = 0
  Requests = {r1, r2}
  ClnMethod = cln
  MaxFaults = 1
  MaxRewinds = 1
CHECK_DEADLOCK FALSE
INVARIANT
  CompletedMeansPaid
PROPERTY
  PendingSettles
