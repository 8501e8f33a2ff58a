\* Two overlapping requests on one card, with a failed call, a dead worker or a
\* lost answer.
SPECIFICATION LifeSpec
CONSTANTS
  j1 = j1
  j2 = j2
  fake = fake
  pay = pay
  Amounts = {1}
  MaxBalance = 1
  Counters = {0}
  Invoices = {}
  NoInvoice = NoInvoice
  Statuses = {}
  Keys <- KeyVersions
  NoKey = 0
  Methods = {pay}
  DefaultMethod = fake
  Exports <- NoFiles
  MaxVersion = 3
  MaxTxns = 1
  Jobs = {j1, j2}
  ScanRange = 1
  PayMethod = pay
  MaxFaults = 1
SYMMETRY Symmetric
CONSTRAINT Small
ACTION_CONSTRAINT Followed
INVARIANTS
  LifeTypeOK
  ActiveIsKnown
  IssuedOnce
  KeyFits
  ActiveIsIssued
  WipeKeysFit
PROPERTY
  TerminatedStays
