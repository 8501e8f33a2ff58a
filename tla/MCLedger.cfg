\* The object: amounts (refused ones included), voids, backups of this and of
\* another server, and lifecycle, taps and configuration.
SPECIFICATION ApartSpec
CONSTANTS
  i1 = i1
  k1 = k1
  fake = fake
  cln = cln
  Amounts <- LedgerAmounts
  MaxBalance = 3
  Counters = {0}
  Invoices = {i1}
  NoInvoice = NoInvoice
  Statuses = {"completed"}
  Keys = {k1}
  NoKey = NoKey
  Methods = {cln}
  DefaultMethod = fake
  Exports <- ForeignFiles
  MaxVersion = 2
  MaxTxns = 4
INVARIANTS
  TypeOK
  LedgerInv
  VoidInv
  CardInv
PROPERTIES
  HistoryKept
  VersionsAdvance
  AccountSpec
