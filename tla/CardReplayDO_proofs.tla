------------------------- MODULE CardReplayDO_proofs -------------------------
(***************************************************************************)
(* What CardReplayDO guarantees for every set of counters, invoices, keys, *)
(* amounts and backups, and for histories of any length.                   *)
(***************************************************************************)
EXTENDS CardReplayDO, Functions, FiniteSetTheorems, WellFoundedInduction, TLAPS

(* Tables ---------------------------------------------------------------- *)

LEMMA PutType ==
    ASSUME NEW table \in TapTable, NEW n \in Counters, NEW row \in Tap
    PROVE  Put(table, n, row) \in TapTable
<1>1. PICK S \in SUBSET Counters : table \in [S -> Tap]
  BY DEF TapTable
<1>2. Put(table, n, row) \in [S \cup {n} -> Tap]
  BY <1>1 DEF Put
<1>3. S \cup {n} \in SUBSET Counters
  OBVIOUS
<1>4. QED
  BY <1>2, <1>3 DEF TapTable

LEMMA NoTapsType == NoTaps \in TapTable
<1>1. NoTaps \in [{} -> Tap]
  BY DEF NoTaps
<1>2. QED
  BY <1>1 DEF TapTable

LEMMA EmptyExportType == EmptyExport \in Export
<1>1. NewCard \in Card
  BY DOAssumption DEF NewCard, Card, CardStates, NoVersion, DOAssumption
<1>2. NoConfig \in Config
  BY DEF NoConfig, Config
<1>3. QED
  BY <1>1, <1>2, NoTapsType DEF EmptyExport, Export

\* One more row and one more movement keep the tables' types.
LEMMA PostType ==
    ASSUME TypeOK, NEW rows \in Seq(Txn), NEW n \in Counters \cup {NoCounter},
           NEW a \in Int, NEW v \in Nat, card.balance + a >= 0, Post(rows, n, a, v)
    PROVE  TypeOK'
<1> DEFINE row == [id |-> nextTxnId, counter |-> n, amount |-> a,
                   after |-> card.balance + a, voided |-> FALSE, voids |-> v]
<1>1. card.balance \in Int /\ card.balance + a \in Nat
  BY DEF TypeOK, Card
<1>2. row \in Txn
  BY <1>1 DEF TypeOK, Txn
<1>3. txns' \in Seq(Txn)
  BY <1>2 DEF Post
<1>4. card' \in Card
  BY <1>1 DEF Post, TypeOK, Card
<1>5. nextTxnId' \in Nat \ {0}
  BY DEF Post, TypeOK
<1>6. QED
  BY <1>3, <1>4, <1>5 DEF Post, TypeOK

\* Marking a charge voided keeps its row a row.
LEMMA MarkedType ==
    ASSUME NEW rows \in Seq(Txn), NEW k \in 1..Len(rows)
    PROVE  [rows EXCEPT ![k].voided = TRUE] \in Seq(Txn)
<1>1. rows[k] \in Txn
  OBVIOUS
<1>2. [rows[k] EXCEPT !.voided = TRUE] \in Txn
  BY <1>1 DEF Txn
<1>3. QED
  BY <1>2

LEMMA AppendedRows ==
    ASSUME NEW rows \in Seq(Txn), NEW row, NEW new, new = Append(rows, row)
    PROVE  /\ Len(new) = Len(rows) + 1
           /\ \A k \in 1..Len(rows) : new[k] = rows[k]
OBVIOUS

LEMMA MarkedRows ==
    ASSUME NEW rows \in Seq(Txn), NEW c \in 1..Len(rows), NEW marked,
           marked = [rows EXCEPT ![c].voided = TRUE]
    PROVE  /\ Len(marked) = Len(rows)
           /\ \A k \in 1..Len(rows) : k # c => marked[k] = rows[k]
           /\ marked[c] = [rows[c] EXCEPT !.voided = TRUE]
<1>1. DOMAIN rows = 1..Len(rows)
  OBVIOUS
<1>2. Len(marked) = Len(rows)
  OBVIOUS
<1>3. \A k \in 1..Len(rows) : k # c => marked[k] = rows[k]
  OBVIOUS
<1>4. marked[c] = [rows[c] EXCEPT !.voided = TRUE]
  BY <1>1, Zenon
<1>5. QED
  BY <1>2, <1>3, <1>4

(* Type correctness ------------------------------------------------------ *)

LEMMA InitType == DOInit => TypeOK
<1> SUFFICES ASSUME DOInit PROVE TypeOK
  OBVIOUS
<1>1. card \in Card
  BY DOAssumption DEF DOInit, NewCard, Card, CardStates, NoVersion, DOAssumption
<1>2. config \in Config
  BY DEF DOInit, NoConfig, Config
<1>3. file \in Export
  BY EmptyExportType, DOAssumption DEF DOInit, DOAssumption
<1>4. QED
  BY <1>1, <1>2, <1>3, NoTapsType DEF DOInit, TypeOK

LEMMA PresentType == TypeOK /\ PresentNext => TypeOK'
<1> SUFFICES ASSUME TypeOK, NEW n \in Counters, HandleCheck(n) \/ HandleRecordRead(n)
             PROVE  TypeOK'
  BY DEF PresentNext
<1>1. CASE HandleCheck(n)
  BY <1>1 DEF TypeOK, HandleCheck
<1>2. CASE HandleRecordRead(n)
  <2>1. [bolt11 |-> NoInvoice, status |-> "read"] \in Tap
    BY DEF Tap, TapStatuses
  <2>2. taps' \in TapTable
    BY <1>2, <2>1, PutType DEF TypeOK, HandleRecordRead
  <2>3. QED
    BY <1>2, <2>2 DEF TypeOK, HandleRecordRead
<1>3. QED
  BY <1>1, <1>2

LEMMA ClaimType == TypeOK /\ ClaimNext => TypeOK'
<1> SUFFICES ASSUME TypeOK, NEW n \in Counters,
                    \/ \E inv \in Invoices \cup {NoInvoice} :
                          HandleRecordTap(n, inv) \/ HandleClaimTap(n, inv)
                    \/ \E s \in Statuses : HandleUpdateTapStatus(n, s)
             PROVE  TypeOK'
  BY DEF ClaimNext
<1>1. ASSUME NEW inv \in Invoices \cup {NoInvoice},
             HandleRecordTap(n, inv) \/ HandleClaimTap(n, inv)
      PROVE  TypeOK'
  <2>1. [bolt11 |-> inv, status |-> "pending"] \in Tap
    BY DEF Tap, TapStatuses
  <2>2. taps' \in TapTable
    BY <1>1, <2>1, PutType DEF TypeOK, HandleRecordTap, HandleClaimTap
  <2>3. QED
    BY <1>1, <2>2 DEF TypeOK, HandleRecordTap, HandleClaimTap
<1>2. ASSUME NEW s \in Statuses, HandleUpdateTapStatus(n, s)
      PROVE  TypeOK'
  <2>1. PICK S \in SUBSET Counters : taps \in [S -> Tap]
    BY DEF TypeOK, TapTable
  <2>2. [taps[n] EXCEPT !.status = s] \in Tap
    BY <1>2, <2>1, DOAssumption DEF HandleUpdateTapStatus, Tap, DOAssumption
  <2>3. taps' \in [S -> Tap]
    BY <1>2, <2>1, <2>2 DEF HandleUpdateTapStatus
  <2>4. QED
    BY <1>2, <2>3 DEF TypeOK, TapTable, HandleUpdateTapStatus
<1>3. QED
  BY <1>1, <1>2

LEMMA BalanceType == TypeOK /\ BalanceNext => TypeOK'
<1> SUFFICES ASSUME TypeOK, BalanceNext PROVE TypeOK'
  OBVIOUS
<1>1. card.balance \in Nat /\ txns \in Seq(Txn)
  BY DEF TypeOK, Card
<1>2. ASSUME NEW a \in Amounts, HandleCredit(a)
      PROVE  TypeOK'
  <2>1. a \in Int /\ card.balance + a >= 0
    BY <1>1, <1>2, DOAssumption DEF HandleCredit, DOAssumption
  <2>2. QED
    BY <1>1, <1>2, <2>1, PostType DEF HandleCredit
<1>3. ASSUME NEW a \in Amounts, NEW n \in Counters \cup {NoCounter}, HandleDebit(n, a)
      PROVE  TypeOK'
  <2>1. -a \in Int /\ card.balance + (-a) >= 0
    BY <1>1, <1>3, DOAssumption DEF HandleDebit, DOAssumption
  <2>2. QED
    BY <1>1, <1>3, <2>1, PostType DEF HandleDebit
<1>4. ASSUME NEW t \in 1..MaxTxns, HandleVoid(t)
      PROVE  TypeOK'
  <2>1. PICK k \in Voidable(t) :
           Post([txns EXCEPT ![k].voided = TRUE], NoCounter, -txns[k].amount, t)
    BY <1>4 DEF HandleVoid
  <2>2. k \in 1..Len(txns) /\ txns[k] \in Txn /\ txns[k].amount < 0
    BY <1>1, <2>1 DEF Voidable
  <2>3. -txns[k].amount \in Int /\ card.balance + (-txns[k].amount) >= 0
    BY <1>1, <2>2 DEF Txn
  <2>4. [txns EXCEPT ![k].voided = TRUE] \in Seq(Txn)
    BY <1>1, <2>2, MarkedType
  <2>5. t \in Nat
    BY DOAssumption DEF DOAssumption
  <2>6. QED
    BY <2>1, <2>3, <2>4, <2>5, PostType
<1>5. QED
  BY <1>2, <1>3, <1>4 DEF BalanceNext

LEMMA RowType ==
    ASSUME NEW c \in Card, NEW s \in CardStates,
           NEW l \in 0..MaxVersion, NEW v \in 0..MaxVersion
    PROVE  [c EXCEPT !.exists = TRUE, !.state = s, !.latest = l, !.active = v] \in Card
BY DEF Card

LEMMA StateType == TypeOK /\ StateNext => TypeOK'
<1> SUFFICES ASSUME TypeOK, StateNext PROVE TypeOK'
  OBVIOUS
<1>1. ASSUME NEW c \in Card, SetCard(c)
      PROVE  TypeOK'
  BY <1>1 DEF SetCard, TypeOK
<1>2. CASE HandleDeliverKeys
  <2>1. card.latest + 1 \in 0..MaxVersion /\ NoVersion \in 0..MaxVersion
    BY <1>2, DOAssumption DEF HandleDeliverKeys, TypeOK, Card, NoVersion, DOAssumption
  <2>2. [card EXCEPT !.exists = TRUE, !.state = "keys_delivered",
                     !.latest = @ + 1, !.active = NoVersion] \in Card
    BY <2>1, RowType DEF TypeOK, CardStates
  <2>3. QED
    BY <1>1, <1>2, <2>2 DEF HandleDeliverKeys
<1> DEFINE latest(v) == IF card.exists THEN card.latest ELSE v
<1>3. ASSUME NEW v \in 1..MaxVersion
      PROVE  latest(v) \in 0..MaxVersion /\ v \in 0..MaxVersion
  BY DEF TypeOK, Card
<1>4. ASSUME NEW v \in 1..MaxVersion, HandleActivate(v)
      PROVE  TypeOK'
  <2>1. [card EXCEPT !.exists = TRUE, !.state = "active",
                     !.latest = latest(v), !.active = v] \in Card
    BY <1>3, RowType DEF TypeOK, CardStates
  <2>2. QED
    BY <1>1, <1>4, <2>1 DEF HandleActivate
<1>5. ASSUME NEW v \in 1..MaxVersion, HandleDiscover(v)
      PROVE  TypeOK'
  <2>1. [card EXCEPT !.exists = TRUE, !.state = "discovered",
                     !.latest = latest(v), !.active = v] \in Card
    BY <1>3, RowType DEF TypeOK, CardStates
  <2>2. QED
    BY <1>1, <1>5, <2>1 DEF HandleDiscover
<1>6. CASE HandleRequestWipe
  BY <1>1, <1>6 DEF HandleRequestWipe, TypeOK, Card, CardStates
<1>7. CASE HandleMarkPending
  BY <1>1, <1>7 DEF HandleMarkPending, TypeOK, Card, CardStates
<1>8. QED
  BY <1>2, <1>4, <1>5, <1>6, <1>7 DEF StateNext

LEMMA ConfigType == TypeOK /\ ConfigNext => TypeOK'
<1> SUFFICES ASSUME TypeOK, ConfigNext PROVE TypeOK'
  OBVIOUS
<1>1. ASSUME NEW k \in Keys \cup {NoKey}, NEW m \in Methods \cup {DefaultMethod}, HandleSetConfig(k, m)
      PROVE  TypeOK'
  BY <1>1 DEF HandleSetConfig, TypeOK, Config
<1>2. ASSUME NEW k \in Keys \cup {NoKey}, HandleSetK2(k)
      PROVE  TypeOK'
  BY <1>2 DEF HandleSetK2, TypeOK, Config
<1>3. CASE HandleExportState
  BY <1>3 DEF HandleExportState, TypeOK, Export
<1>4. QED
  BY <1>1, <1>2, <1>3 DEF ConfigNext

LEMMA RewindType == TypeOK /\ RewindNext => TypeOK'
<1> SUFFICES ASSUME TypeOK, RewindNext PROVE TypeOK'
  OBVIOUS
<1>1. CASE HandleReset
  BY <1>1, NoTapsType DEF HandleReset, EraseTaps, TypeOK
<1>2. CASE HandleTerminate
  <2>1. card' \in Card
    BY <1>2 DEF HandleTerminate, TypeOK, Card, CardStates
  <2>2. QED
    BY <1>2, <2>1, NoTapsType DEF HandleTerminate, EraseTaps, TypeOK
<1>3. CASE HandleImportState
  <2>1. file.txns \in Seq(Txn)
    BY DEF TypeOK, Export
  <2>2. ASSUME file.txns # << >>
        PROVE  file.txns[Len(file.txns)].id \in Nat \ {0}
    <3>1. Len(file.txns) \in 1..Len(file.txns)
      BY <2>1, <2>2
    <3>2. file.txns[Len(file.txns)] \in Txn
      BY <2>1, <3>1
    <3>3. QED
      BY <3>2 DEF Txn
  <2>3. nextTxnId' \in Nat \ {0}
    BY <1>3, <2>2 DEF HandleImportState, TypeOK
  <2>4. QED
    BY <1>3, <2>3 DEF HandleImportState, TypeOK, Export
<1>4. QED
  BY <1>1, <1>2, <1>3 DEF RewindNext

LEMMA StepType == TypeOK /\ [DONext]_doVars => TypeOK'
<1>1. TypeOK /\ UNCHANGED doVars => TypeOK'
  BY DEF TypeOK, doVars
<1>2. QED
  BY <1>1, PresentType, ClaimType, BalanceType, StateType, ConfigType, RewindType
  DEF DONext

\* The tables keep their types: above all, no sequence of debits, credits,
\* voids and restores makes a balance negative.
THEOREM TypeCorrect == DOSpec => []TypeOK
BY InitType, StepType, PTL DEF DOSpec

(* The ledger ------------------------------------------------------------ *)

\* Restoring is the only step that needs a fact about the operator's file:
\* whatever holds of the live tables holds of the file that was made of them.
Books == LedgerInv /\ LedgerOK(file.card, file.txns)

LEMMA PostLedger ==
    ASSUME TypeOK, NEW rows \in Seq(Txn), LedgerOK(card, rows),
           NEW n, NEW a \in Int, NEW v, Post(rows, n, a, v)
    PROVE  LedgerOK(card, txns)'
<1> DEFINE row == [id |-> nextTxnId, counter |-> n, amount |-> a,
                   after |-> card.balance + a, voided |-> FALSE, voids |-> v]
<1>1. /\ txns' = Append(rows, row)
      /\ card' = [card EXCEPT !.exists = TRUE, !.balance = @ + a]
  BY DEF Post
<1>2. /\ Len(txns') = Len(rows) + 1
      /\ txns'[Len(rows) + 1] = row
      /\ \A k \in 1..Len(rows) : txns'[k] = rows[k]
  BY <1>1
<1>3. card'.exists /\ card'.balance = card.balance + a
  BY <1>1 DEF TypeOK, Card
<1>4. Closing(txns)' = card.balance + a
  BY <1>2 DEF Closing
<1>5. ASSUME NEW k \in 1..Len(txns')
      PROVE  txns'[k].after = Before(txns, k)' + txns'[k].amount
  <2>1. CASE k = Len(rows) + 1
    <3>1. Before(txns, k)' = Closing(rows)
      BY <1>2, <2>1 DEF Before, Closing
    <3>2. QED
      BY <1>2, <2>1, <3>1 DEF LedgerOK
  <2>2. CASE k \in 1..Len(rows)
    <3>1. Before(txns, k)' = Before(rows, k)
      BY <1>2, <2>2 DEF Before
    <3>2. QED
      BY <1>2, <2>2, <3>1 DEF LedgerOK
  <2>3. QED
    BY <1>2, <2>1, <2>2
<1>6. QED
  BY <1>3, <1>4, <1>5 DEF LedgerOK

LEMMA MarkedLedger ==
    ASSUME NEW c, NEW rows \in Seq(Txn), LedgerOK(c, rows), NEW k \in 1..Len(rows)
    PROVE  LedgerOK(c, [rows EXCEPT ![k].voided = TRUE])
<1> DEFINE marked == [rows EXCEPT ![k].voided = TRUE]
<1>1. \A j \in 1..Len(rows) : rows[j] \in Txn
  OBVIOUS
<1>2. /\ Len(marked) = Len(rows)
      /\ \A j \in 1..Len(rows) : /\ marked[j].after = rows[j].after
                                 /\ marked[j].amount = rows[j].amount
  BY <1>1 DEF Txn
<1>3. rows # << >> /\ marked # << >>
  BY <1>2
<1>4. Closing(marked) = Closing(rows)
  BY <1>2, <1>3 DEF Closing
<1>5. \A j \in 1..Len(rows) : Before(marked, j) = Before(rows, j)
  BY <1>2 DEF Before
<1>6. QED
  BY <1>2, <1>3, <1>4, <1>5 DEF LedgerOK

LEMMA InitBooks == DOInit => Books
<1> SUFFICES ASSUME DOInit PROVE Books
  OBVIOUS
<1>1. LedgerOK(NewCard, << >>)
  BY DEF LedgerOK, Closing, NewCard
<1>2. LedgerOK(EmptyExport.card, EmptyExport.txns)
  BY <1>1 DEF EmptyExport
<1>3. QED
  BY <1>1, <1>2, DOAssumption DEF DOInit, Books, LedgerInv, DOAssumption

LEMMA BalanceBooks == TypeOK /\ Books /\ BalanceNext => Books'
<1> SUFFICES ASSUME TypeOK, Books, BalanceNext PROVE Books'
  OBVIOUS
<1>1. txns \in Seq(Txn) /\ LedgerOK(card, txns) /\ LedgerOK(file.card, file.txns)
  BY DEF TypeOK, Books, LedgerInv
<1>2. ASSUME NEW a \in Amounts, HandleCredit(a)
      PROVE  Books'
  <2>1. a \in Int /\ file' = file
    BY <1>2, DOAssumption DEF DOAssumption, HandleCredit, Post
  <2>2. QED
    BY <1>1, <1>2, <2>1, PostLedger DEF HandleCredit, Books, LedgerInv
<1>3. ASSUME NEW a \in Amounts, NEW n \in Counters \cup {NoCounter}, HandleDebit(n, a)
      PROVE  Books'
  <2>1. -a \in Int /\ file' = file
    BY <1>3, DOAssumption DEF DOAssumption, HandleDebit, Post
  <2>2. QED
    BY <1>1, <1>3, <2>1, PostLedger DEF HandleDebit, Books, LedgerInv
<1>4. ASSUME NEW t \in 1..MaxTxns, HandleVoid(t)
      PROVE  Books'
  <2> DEFINE marked(k) == [txns EXCEPT ![k].voided = TRUE]
  <2>1. PICK k \in Voidable(t) : Post(marked(k), NoCounter, -txns[k].amount, t)
    BY <1>4 DEF HandleVoid
  <2>2. k \in 1..Len(txns) /\ txns[k] \in Txn
    BY <1>1, <2>1 DEF Voidable
  <2>3. -txns[k].amount \in Int
    BY <2>2 DEF Txn
  <2>4. marked(k) \in Seq(Txn)
    BY <1>1, <2>2, MarkedType
  <2>5. LedgerOK(card, marked(k))
    BY <1>1, <2>2, MarkedLedger
  <2>6. LedgerOK(card, txns)'
    BY <2>1, <2>3, <2>4, <2>5, PostLedger
  <2>7. file' = file
    BY <2>1 DEF Post
  <2>8. QED
    BY <1>1, <2>6, <2>7 DEF Books, LedgerInv
<1>5. QED
  BY <1>2, <1>3, <1>4 DEF BalanceNext

\* A lifecycle step moves neither the balance nor the rows, and never makes an
\* existing card row disappear.
LEMMA StateBooks == TypeOK /\ Books /\ StateNext => Books'
<1> SUFFICES ASSUME TypeOK, Books, StateNext PROVE Books'
  OBVIOUS
<1>1. /\ card'.balance = card.balance
      /\ card'.exists
      /\ UNCHANGED <<txns, file>>
  BY DEF StateNext, SetCard, HandleDeliverKeys, HandleActivate, HandleDiscover,
         HandleRequestWipe, HandleMarkPending, TypeOK, Card
<1>2. QED
  BY <1>1 DEF Books, LedgerInv, LedgerOK

LEMMA RewindBooks == TypeOK /\ Books /\ RewindNext => Books'
<1> SUFFICES ASSUME TypeOK, Books, RewindNext PROVE Books'
  OBVIOUS
<1>1. CASE HandleReset
  BY <1>1 DEF HandleReset, Books, LedgerInv
<1>2. CASE HandleTerminate
  <2>1. /\ card'.balance = card.balance
        /\ card'.exists
        /\ UNCHANGED <<txns, file>>
    BY <1>2 DEF HandleTerminate, TypeOK, Card
  <2>2. QED
    BY <2>1 DEF Books, LedgerInv, LedgerOK
<1>3. CASE HandleImportState
  BY <1>3 DEF HandleImportState, Books, LedgerInv
<1>4. QED
  BY <1>1, <1>2, <1>3 DEF RewindNext

LEMMA StepBooks == TypeOK /\ Books /\ [DONext]_doVars => Books'
<1> SUFFICES ASSUME TypeOK, Books, [DONext]_doVars PROVE Books'
  OBVIOUS
<1>1. CASE UNCHANGED <<card, txns, file>>
  BY <1>1 DEF Books, LedgerInv
<1>2. CASE PresentNext \/ ClaimNext
  BY <1>2, <1>1 DEF PresentNext, ClaimNext, HandleCheck, HandleRecordRead,
                    HandleRecordTap, HandleClaimTap, HandleUpdateTapStatus
<1>3. CASE ConfigNext
  <2>1. CASE HandleExportState
    BY <2>1 DEF HandleExportState, Books, LedgerInv
  <2>2. QED
    BY <1>1, <1>3, <2>1 DEF ConfigNext, HandleSetConfig, HandleSetK2
<1>4. QED
  BY <1>1, <1>2, <1>3, BalanceBooks, StateBooks, RewindBooks DEF DONext, doVars

\* For histories of any length the balance is the closing balance of the
\* transactions, and each row follows from the one before.
THEOREM LedgerCorrect == DOSpec => []LedgerInv
<1>1. DOInit => TypeOK /\ Books
  BY InitType, InitBooks
<1>2. TypeOK /\ Books /\ [DONext]_doVars => (TypeOK /\ Books)'
  BY StepType, StepBooks
<1>3. TypeOK /\ Books => LedgerInv
  BY DEF Books
<1>4. QED
  BY <1>1, <1>2, <1>3, PTL DEF DOSpec

(* Voids ------------------------------------------------------------------ *)

\* AUTOINCREMENT hands out ids above every row, also after a restore.
Numbered == \A k \in 1..Len(txns) : txns[k].id < nextTxnId

Reversals == VoidInv /\ VoidsOK(file.txns) /\ Numbered

\* A row that reverses nothing.
LEMMA PostVoids ==
    ASSUME TypeOK, Reversals, NEW n, NEW a \in Int, Post(txns, n, a, 0)
    PROVE  VoidInv' /\ Numbered'
<1> DEFINE row == [id |-> nextTxnId, counter |-> n, amount |-> a,
                   after |-> card.balance + a, voided |-> FALSE, voids |-> 0]
           N == Len(txns)
<1>1. txns \in Seq(Txn) /\ nextTxnId \in Nat
  BY DEF TypeOK
<1>2. txns' = Append(txns, row) /\ nextTxnId' = nextTxnId + 1
  BY DEF Post
<1>3. /\ N \in Nat
      /\ Len(txns') = N + 1
      /\ txns'[N + 1] = row
      /\ \A k \in 1..N : txns'[k] = txns[k] /\ txns[k] \in Txn
  BY <1>1, <1>2
<1>4. \A k \in 1..N : txns[k].id < nextTxnId /\ txns[k].id \in Nat
  BY <1>3 DEF Reversals, Numbered, Txn
<1>5. VoidsOK(txns)
  BY DEF Reversals, VoidInv
<1>6. ASSUME NEW j \in 1..Len(txns'), NEW k \in 1..Len(txns'), j < k
      PROVE  txns'[j].id < txns'[k].id
  BY <1>3, <1>4, <1>5, <1>6 DEF VoidsOK
<1>7. ASSUME NEW k \in 1..Len(txns'), txns'[k].voids # 0
      PROVE  \E j \in 1..(k - 1) : /\ txns'[j].id = txns'[k].voids
                                   /\ txns'[j].voided
                                   /\ txns'[j].amount < 0
                                   /\ txns'[k].amount = -txns'[j].amount
  <2>1. k \in 1..N /\ txns'[k] = txns[k]
    BY <1>3, <1>7
  <2>2. PICK j \in 1..(k - 1) : /\ txns[j].id = txns[k].voids
                                /\ txns[j].voided
                                /\ txns[j].amount < 0
                                /\ txns[k].amount = -txns[j].amount
    BY <1>5, <1>7, <2>1 DEF VoidsOK
  <2>3. j \in 1..N /\ txns'[j] = txns[j]
    BY <1>3, <2>1
  <2>4. QED
    BY <2>1, <2>2, <2>3
<1>8. ASSUME NEW j \in 1..Len(txns'), txns'[j].voided
      PROVE  \E k \in (j + 1)..Len(txns') : txns'[k].voids = txns'[j].id
  <2>1. j \in 1..N /\ txns'[j] = txns[j]
    BY <1>3, <1>8
  <2>2. PICK k \in (j + 1)..N : txns[k].voids = txns[j].id
    BY <1>5, <1>8, <2>1 DEF VoidsOK
  <2>3. k \in (j + 1)..Len(txns') /\ txns'[k] = txns[k]
    BY <1>3, <2>1, <2>2
  <2>4. QED
    BY <2>1, <2>2, <2>3
<1>9. ASSUME NEW j \in 1..Len(txns'), NEW k \in 1..Len(txns'),
             txns'[j].voids # 0, txns'[j].voids = txns'[k].voids
      PROVE  j = k
  BY <1>3, <1>5, <1>9 DEF VoidsOK
<1>10. VoidInv'
  BY <1>6, <1>7, <1>8, <1>9 DEF VoidInv, VoidsOK
<1>11. Numbered'
  BY <1>1, <1>2, <1>3, <1>4 DEF Numbered
<1>12. QED
  BY <1>10, <1>11

\* A reversal: the charge it names was not voided, so no earlier row reverses
\* it, and afterwards exactly this one does.
LEMMA VoidVoids ==
    ASSUME TypeOK, Reversals, NEW t \in 1..MaxTxns, HandleVoid(t)
    PROVE  VoidInv' /\ Numbered'
<1> DEFINE marked(k) == [txns EXCEPT ![k].voided = TRUE]
           N == Len(txns)
<1>1. PICK c \in Voidable(t) : Post(marked(c), NoCounter, -txns[c].amount, t)
  BY DEF HandleVoid
<1> DEFINE row == [id |-> nextTxnId, counter |-> NoCounter, amount |-> -txns[c].amount,
                   after |-> card.balance + (-txns[c].amount), voided |-> FALSE, voids |-> t]
<1>2. txns \in Seq(Txn) /\ nextTxnId \in Nat /\ N \in Nat
  BY DEF TypeOK
<1>3. c \in 1..N /\ txns[c].id = t /\ ~txns[c].voided /\ txns[c].amount < 0
  BY DEF Voidable
<1>4. \A k \in 1..N : txns[k] \in Txn
  BY <1>2
<1>5. /\ Len(marked(c)) = N
      /\ \A k \in 1..N : k # c => marked(c)[k] = txns[k]
      /\ marked(c)[c] = [txns[c] EXCEPT !.voided = TRUE]
  BY <1>2, <1>3, MarkedRows
<1>6. marked(c) \in Seq(Txn)
  BY <1>2, <1>3, MarkedType
<1>7. txns' = Append(marked(c), row) /\ nextTxnId' = nextTxnId + 1
  BY <1>1 DEF Post
<1>8. /\ Len(txns') = N + 1
      /\ txns'[N + 1] = row
      /\ \A k \in 1..N : txns'[k] = marked(c)[k]
  BY <1>5, <1>6, <1>7
<1>9. /\ txns'[c].voided
      /\ \A k \in 1..N : /\ txns'[k].id = txns[k].id
                         /\ txns'[k].amount = txns[k].amount
                         /\ txns'[k].voids = txns[k].voids
                         /\ k # c => txns'[k].voided = txns[k].voided
  BY <1>3, <1>4, <1>5, <1>8 DEF Txn
<1>10. \A k \in 1..N : txns[k].id < nextTxnId /\ txns[k].id \in Nat
  BY <1>4 DEF Reversals, Numbered, Txn
<1>11. VoidsOK(txns)
  BY DEF Reversals, VoidInv
\* Ids identify rows, so no row reverses the charge yet.
<1>12. ASSUME NEW k \in 1..N PROVE txns[k].voids # t
  <2>1. SUFFICES ASSUME txns[k].voids = t PROVE FALSE
    OBVIOUS
  <2>2. t # 0
    OBVIOUS
  <2>3. PICK j \in 1..(k - 1) : txns[j].id = t /\ txns[j].voided
    BY <1>11, <2>1, <2>2 DEF VoidsOK
  <2>4. j \in 1..N
    BY <2>3
  <2>5. j = c
    <3>1. ~(j < c) /\ ~(c < j)
      BY <1>3, <1>10, <1>11, <2>3, <2>4 DEF VoidsOK
    <3>2. QED
      BY <1>3, <2>4, <3>1
  <2>6. QED
    BY <1>3, <2>3, <2>5
<1>13. ASSUME NEW j \in 1..Len(txns'), NEW k \in 1..Len(txns'), j < k
       PROVE  txns'[j].id < txns'[k].id
  <2>1. CASE k = N + 1
    BY <1>8, <1>9, <1>10, <1>13, <2>1
  <2>2. CASE k \in 1..N
    BY <1>9, <1>11, <1>13, <2>2 DEF VoidsOK
  <2>3. QED
    BY <1>8, <2>1, <2>2
<1>14. ASSUME NEW k \in 1..Len(txns'), txns'[k].voids # 0
       PROVE  \E j \in 1..(k - 1) : /\ txns'[j].id = txns'[k].voids
                                    /\ txns'[j].voided
                                    /\ txns'[j].amount < 0
                                    /\ txns'[k].amount = -txns'[j].amount
  <2>1. CASE k = N + 1
    <3>1. c \in 1..(k - 1)
      BY <1>3, <2>1
    <3>2. QED
      BY <1>3, <1>8, <1>9, <2>1, <3>1
  <2>2. CASE k \in 1..N
    <3>1. PICK j \in 1..(k - 1) : /\ txns[j].id = txns[k].voids
                                  /\ txns[j].voided
                                  /\ txns[j].amount < 0
                                  /\ txns[k].amount = -txns[j].amount
      BY <1>9, <1>11, <1>14, <2>2 DEF VoidsOK
    <3>2. j \in 1..N
      BY <2>2
    <3>3. QED
      BY <1>9, <2>2, <3>1, <3>2
  <2>3. QED
    BY <1>8, <2>1, <2>2
<1>15. ASSUME NEW j \in 1..Len(txns'), txns'[j].voided
       PROVE  \E k \in (j + 1)..Len(txns') : txns'[k].voids = txns'[j].id
  <2>1. j \in 1..N
    BY <1>8, <1>15
  <2>2. CASE j = c
    <3>1. N + 1 \in (j + 1)..Len(txns')
      BY <1>2, <1>8, <2>1
    <3>2. QED
      BY <1>3, <1>8, <1>9, <2>2, <3>1
  <2>3. CASE j # c
    <3>1. PICK k \in (j + 1)..N : txns[k].voids = txns[j].id
      BY <1>9, <1>11, <1>15, <2>1, <2>3 DEF VoidsOK
    <3>2. k \in 1..N /\ k \in (j + 1)..Len(txns')
      BY <1>8, <2>1
    <3>3. QED
      BY <1>9, <2>1, <3>1, <3>2
  <2>4. QED
    BY <2>2, <2>3
<1>16. ASSUME NEW j \in 1..Len(txns'), NEW k \in 1..Len(txns'),
              txns'[j].voids # 0, txns'[j].voids = txns'[k].voids
       PROVE  j = k
  <2>1. CASE j \in 1..N /\ k \in 1..N
    BY <1>9, <1>11, <1>16, <2>1 DEF VoidsOK
  <2>2. CASE j = N + 1 /\ k \in 1..N
    BY <1>8, <1>9, <1>12, <1>16, <2>2
  <2>3. CASE j \in 1..N /\ k = N + 1
    BY <1>8, <1>9, <1>12, <1>16, <2>3
  <2>4. QED
    BY <1>8, <2>1, <2>2, <2>3
<1>17. VoidInv'
  BY <1>13, <1>14, <1>15, <1>16 DEF VoidInv, VoidsOK
<1>18. Numbered'
  BY <1>2, <1>7, <1>8, <1>9, <1>10 DEF Numbered
<1>19. QED
  BY <1>17, <1>18

LEMMA InitReversals == DOInit => Reversals
<1> SUFFICES ASSUME DOInit PROVE Reversals
  OBVIOUS
<1>1. \A k \in 1..Len(<< >>) : FALSE
  OBVIOUS
<1>2. VoidsOK(<< >>)
  BY <1>1, Zenon DEF VoidsOK
<1>3. Numbered
  BY <1>1, Zenon DEF DOInit, Numbered
<1>4. VoidsOK(EmptyExport.txns)
  BY <1>2 DEF EmptyExport
<1>5. QED
  BY <1>2, <1>3, <1>4, DOAssumption DEF DOInit, Reversals, VoidInv, DOAssumption

LEMMA BalanceReversals == TypeOK /\ Reversals /\ BalanceNext => Reversals'
<1> SUFFICES ASSUME TypeOK, Reversals, BalanceNext PROVE Reversals'
  OBVIOUS
<1>1. file' = file
  BY DEF BalanceNext, HandleCredit, HandleDebit, HandleVoid, Post
<1>2. ASSUME NEW a \in Amounts, HandleCredit(a)
      PROVE  VoidInv' /\ Numbered'
  <2>1. a \in Int
    BY DOAssumption DEF DOAssumption
  <2>2. QED
    BY <1>2, <2>1, PostVoids DEF HandleCredit
<1>3. ASSUME NEW a \in Amounts, NEW n, HandleDebit(n, a)
      PROVE  VoidInv' /\ Numbered'
  <2>1. -a \in Int
    BY DOAssumption DEF DOAssumption
  <2>2. QED
    BY <1>3, <2>1, PostVoids DEF HandleDebit
<1>4. VoidInv' /\ Numbered'
  BY <1>2, <1>3, VoidVoids DEF BalanceNext
<1>5. QED
  BY <1>1, <1>4 DEF Reversals

LEMMA ImportReversals == TypeOK /\ Reversals /\ HandleImportState => Reversals'
<1> SUFFICES ASSUME TypeOK, Reversals, HandleImportState PROVE Reversals'
  OBVIOUS
<1> DEFINE rows == file.txns
<1>1. txns' = rows /\ file' = file
  BY DEF HandleImportState
<1>2. rows \in Seq(Txn) /\ VoidsOK(rows) /\ nextTxnId \in Nat
  BY DEF Reversals, TypeOK, Export
<1>3. ASSUME NEW k \in 1..Len(rows)
      PROVE  rows[k].id \in Nat
  <2>1. rows[k] \in Txn
    BY <1>2
  <2>2. QED
    BY <2>1 DEF Txn
<1>4. ASSUME NEW k \in 1..Len(rows)
      PROVE  rows[k].id < nextTxnId'
  <2>1. rows # << >> /\ Len(rows) \in 1..Len(rows)
    BY <1>2
  <2>2. rows[k].id <= rows[Len(rows)].id
    BY <1>2, <1>3, <2>1 DEF VoidsOK
  <2>3. CASE rows[Len(rows)].id >= nextTxnId
    BY <1>2, <1>3, <2>1, <2>2, <2>3 DEF HandleImportState
  <2>4. CASE ~(rows[Len(rows)].id >= nextTxnId)
    BY <1>2, <1>3, <2>1, <2>2, <2>4 DEF HandleImportState
  <2>5. QED
    BY <2>3, <2>4
<1>5. QED
  BY <1>1, <1>2, <1>4 DEF Reversals, VoidInv, Numbered

LEMMA StepReversals == TypeOK /\ Reversals /\ [DONext]_doVars => Reversals'
<1> SUFFICES ASSUME TypeOK, Reversals, [DONext]_doVars PROVE Reversals'
  OBVIOUS
<1>1. CASE UNCHANGED <<txns, nextTxnId, file>>
  BY <1>1 DEF Reversals, VoidInv, Numbered
<1>2. CASE PresentNext \/ ClaimNext
  BY <1>2, <1>1 DEF PresentNext, ClaimNext, HandleCheck, HandleRecordRead,
                    HandleRecordTap, HandleClaimTap, HandleUpdateTapStatus
<1>3. CASE StateNext
  BY <1>3, <1>1 DEF StateNext, SetCard, HandleDeliverKeys, HandleActivate,
                    HandleDiscover, HandleRequestWipe, HandleMarkPending
<1>4. CASE ConfigNext
  <2>1. CASE HandleExportState
    BY <2>1 DEF HandleExportState, Reversals, VoidInv, Numbered
  <2>2. QED
    BY <1>1, <1>4, <2>1 DEF ConfigNext, HandleSetConfig, HandleSetK2
<1>5. CASE RewindNext
  BY <1>1, <1>5, ImportReversals DEF RewindNext, HandleReset, HandleTerminate
<1>6. QED
  BY <1>1, <1>2, <1>3, <1>4, <1>5, BalanceReversals DEF DONext, doVars

\* A charge is reversed at most once and for exactly its amount, however often
\* and in whatever order /void, charges and restores are called.
THEOREM VoidsCorrect == DOSpec => []VoidInv
<1>1. DOInit => TypeOK /\ Reversals
  BY InitType, InitReversals
<1>2. TypeOK /\ Reversals /\ [DONext]_doVars => (TypeOK /\ Reversals)'
  BY StepType, StepReversals
<1>3. TypeOK /\ Reversals => VoidInv
  BY DEF Reversals
<1>4. QED
  BY <1>1, <1>2, <1>3, PTL DEF DOSpec

(* Key versions ------------------------------------------------------------ *)

Versions == CardInv /\ CardOK(file.card)

LEMMA StateVersions == TypeOK /\ CardInv /\ StateNext => CardInv'
<1> SUFFICES ASSUME TypeOK, CardInv, StateNext PROVE CardInv'
  OBVIOUS
<1>1. card \in Card /\ CardOK(card)
  BY DEF TypeOK, CardInv
<1>2. CASE HandleDeliverKeys
  <2>1. /\ card'.exists /\ card'.state = "keys_delivered"
        /\ card'.latest = card.latest + 1 /\ card'.active = NoVersion
    BY <1>1, <1>2 DEF HandleDeliverKeys, SetCard, Card
  <2>2. QED
    BY <1>1, <2>1 DEF Card, CardInv, CardOK
<1>3. ASSUME NEW v \in 1..MaxVersion, HandleActivate(v) \/ HandleDiscover(v)
      PROVE  CardInv'
  <2>1. card'.exists /\ card'.state \in {"active", "discovered"} /\ card'.active = v
    BY <1>1, <1>3 DEF HandleActivate, HandleDiscover, SetCard, Card
  <2>2. QED
    BY <2>1 DEF CardInv, CardOK, NoVersion
<1>4. CASE HandleRequestWipe
  <2>1. card'.exists /\ card'.state = "wipe_requested"
    BY <1>1, <1>4 DEF HandleRequestWipe, SetCard, Card
  <2>2. QED
    BY <2>1 DEF CardInv, CardOK
<1>5. CASE HandleMarkPending
  <2>1. card = NewCard
    BY <1>1, <1>5 DEF CardOK, HandleMarkPending
  <2>2. card'.exists /\ card'.state = "pending" /\ card'.latest = 0 /\ card'.active = NoVersion
    BY <1>5, <2>1 DEF HandleMarkPending, SetCard, NewCard
  <2>3. QED
    BY <2>2 DEF CardInv, CardOK
<1>6. QED
  BY <1>2, <1>3, <1>4, <1>5 DEF StateNext

LEMMA BalanceVersions == TypeOK /\ CardInv /\ BalanceNext => CardInv'
<1> SUFFICES ASSUME TypeOK, CardInv, BalanceNext PROVE CardInv'
  OBVIOUS
<1>1. /\ card'.exists /\ card'.state = card.state
      /\ card'.latest = card.latest /\ card'.active = card.active
  BY DEF BalanceNext, HandleCredit, HandleDebit, HandleVoid, Post, TypeOK, Card
<1>2. QED
  BY <1>1 DEF CardInv, CardOK

LEMMA StepVersions == TypeOK /\ Versions /\ [DONext]_doVars => Versions'
<1> SUFFICES ASSUME TypeOK, Versions, [DONext]_doVars PROVE Versions'
  OBVIOUS
<1>1. CASE UNCHANGED <<card, file>>
  BY <1>1 DEF Versions, CardInv
<1>2. CASE PresentNext \/ ClaimNext
  BY <1>2, <1>1 DEF PresentNext, ClaimNext, HandleCheck, HandleRecordRead,
                    HandleRecordTap, HandleClaimTap, HandleUpdateTapStatus
<1>3. CASE StateNext \/ BalanceNext
  <2>1. file' = file
    BY <1>3 DEF StateNext, SetCard, HandleDeliverKeys, HandleActivate, HandleDiscover,
                HandleRequestWipe, HandleMarkPending,
                BalanceNext, HandleCredit, HandleDebit, HandleVoid, Post
  <2>2. QED
    BY <1>3, <2>1, StateVersions, BalanceVersions DEF Versions
<1>4. CASE ConfigNext
  <2>1. CASE HandleExportState
    BY <2>1 DEF HandleExportState, Versions, CardInv
  <2>2. QED
    BY <1>1, <1>4, <2>1 DEF ConfigNext, HandleSetConfig, HandleSetK2
<1>5. CASE RewindNext
  <2>1. CASE HandleTerminate
    <3>1. card'.exists /\ card'.state = "terminated" /\ file' = file
      BY <2>1 DEF HandleTerminate, TypeOK, Card
    <3>2. QED
      BY <3>1 DEF Versions, CardInv, CardOK
  <2>2. CASE HandleImportState
    BY <2>2 DEF HandleImportState, Versions, CardInv
  <2>3. QED
    BY <1>1, <1>5, <2>1, <2>2 DEF RewindNext, HandleReset
<1>6. QED
  BY <1>1, <1>2, <1>3, <1>4, <1>5 DEF DONext, doVars

\* The version columns always mean what resolveActiveVersion and
\* detectCardVersion take them to mean.
THEOREM VersionsCorrect == DOSpec => []CardInv
<1>1. DOInit => Versions
  <2>1. CardOK(NewCard) /\ CardOK(EmptyExport.card)
    BY DEF CardOK, NewCard, EmptyExport
  <2>2. QED
    BY <2>1, DOAssumption DEF DOInit, Versions, CardInv, DOAssumption
<1>2. DOInit => TypeOK /\ Versions
  BY <1>1, InitType
<1>3. TypeOK /\ Versions /\ [DONext]_doVars => (TypeOK /\ Versions)'
  BY StepType, StepVersions
<1>4. TypeOK /\ Versions => CardInv
  BY DEF Versions
<1>5. QED
  BY <1>2, <1>3, <1>4, PTL DEF DOSpec

LEMMA StepAdvances ==
    TypeOK /\ Versions /\ [DONext]_doVars
      => [card' = file.card \/ card'.latest >= card.latest]_card
<1> SUFFICES ASSUME TypeOK, Versions, DONext, card' # card
             PROVE  card' = file.card \/ card'.latest >= card.latest
  BY DEF doVars
<1>1. card \in Card /\ card.latest \in Nat /\ CardOK(card)
  BY DOAssumption DEF TypeOK, Card, Versions, CardInv, DOAssumption
<1>2. CASE StateNext
  <2>1. CASE HandleDeliverKeys
    BY <1>1, <2>1 DEF HandleDeliverKeys, SetCard, Card
  <2>2. ASSUME NEW v \in 1..MaxVersion, HandleActivate(v) \/ HandleDiscover(v)
        PROVE  card'.latest >= card.latest
    <3>1. card'.latest = IF card.exists THEN card.latest ELSE v
      BY <1>1, <2>2 DEF HandleActivate, HandleDiscover, SetCard, Card
    <3>2. ~card.exists => card.latest = 0
      BY <1>1 DEF CardOK, NewCard
    <3>3. QED
      BY <1>1, <3>1, <3>2
  <2>3. CASE HandleRequestWipe \/ HandleMarkPending
    <3>1. card'.latest = card.latest
      BY <1>1, <2>3 DEF HandleRequestWipe, HandleMarkPending, SetCard, Card
    <3>2. QED
      BY <1>1, <3>1
  <2>4. QED
    BY <1>2, <2>1, <2>2, <2>3 DEF StateNext
<1>3. CASE BalanceNext
  <2>1. card'.latest = card.latest
    BY <1>1, <1>3 DEF BalanceNext, HandleCredit, HandleDebit, HandleVoid, Post, Card
  <2>2. QED
    BY <1>1, <2>1
<1>4. CASE RewindNext
  <2>1. HandleTerminate => card'.latest = card.latest
    BY <1>1 DEF HandleTerminate, Card
  <2>2. QED
    BY <1>1, <1>4, <2>1 DEF RewindNext, HandleReset, HandleImportState
<1>5. CASE PresentNext \/ ClaimNext \/ ConfigNext
  BY <1>5 DEF PresentNext, ClaimNext, HandleCheck, HandleRecordRead, HandleRecordTap,
              HandleClaimTap, HandleUpdateTapStatus,
              ConfigNext, HandleSetConfig, HandleSetK2, HandleExportState
<1>6. QED
  BY <1>2, <1>3, <1>4, <1>5 DEF DONext

\* latest_issued_version never goes back, except to what a restored file says.
THEOREM VersionsOnlyAdvance == DOSpec => VersionsAdvance
<1>1. DOInit => TypeOK /\ Versions
  <2>1. CardOK(NewCard) /\ CardOK(EmptyExport.card)
    BY DEF CardOK, NewCard, EmptyExport
  <2>2. QED
    BY <2>1, InitType, DOAssumption DEF DOInit, Versions, CardInv, DOAssumption
<1>2. TypeOK /\ Versions /\ [DONext]_doVars => (TypeOK /\ Versions)'
  BY StepType, StepVersions
<1>3. QED
  BY <1>1, <1>2, StepAdvances, PTL DEF DOSpec, VersionsAdvance

(* History ----------------------------------------------------------------- *)

Kept == \A k \in 1..Len(txns) :
           /\ k <= Len(txns')
           /\ txns'[k] = [txns[k] EXCEPT !.voided = txns'[k].voided]
           /\ txns[k].voided => txns'[k].voided

LEMMA RowUnchanged ==
    ASSUME NEW row \in Txn
    PROVE  row = [row EXCEPT !.voided = row.voided]
BY DEF Txn

LEMMA StepKeeps == TypeOK /\ [DONext]_doVars => [txns' = file.txns \/ Kept]_txns
<1> SUFFICES ASSUME TypeOK, DONext, txns' # txns
             PROVE  txns' = file.txns \/ Kept
  BY DEF doVars
<1>1. txns \in Seq(Txn) /\ Len(txns) \in Nat
  BY DEF TypeOK
<1>2. \A k \in 1..Len(txns) : txns[k] \in Txn
  BY <1>1
<1>3. ASSUME NEW n, NEW a, Post(txns, n, a, 0)
      PROVE  Kept
  <2>1. Len(txns') = Len(txns) + 1 /\ \A k \in 1..Len(txns) : txns'[k] = txns[k]
    BY <1>1, <1>3 DEF Post
  <2>2. QED
    BY <1>1, <1>2, <2>1, RowUnchanged DEF Kept
<1>4. ASSUME NEW t \in 1..MaxTxns, HandleVoid(t)
      PROVE  Kept
  <2> DEFINE marked(k) == [txns EXCEPT ![k].voided = TRUE]
  <2>1. PICK c \in Voidable(t) : Post(marked(c), NoCounter, -txns[c].amount, t)
    BY <1>4 DEF HandleVoid
  <2>2. c \in 1..Len(txns)
    BY <2>1 DEF Voidable
  <2>3. marked(c) \in Seq(Txn)
    BY <1>1, <2>2, MarkedType
  <2>4. /\ Len(marked(c)) = Len(txns)
        /\ \A k \in 1..Len(txns) : k # c => marked(c)[k] = txns[k]
        /\ marked(c)[c] = [txns[c] EXCEPT !.voided = TRUE]
    BY <1>1, <2>2, MarkedRows
  <2>5. /\ Len(txns') = Len(txns) + 1
        /\ \A k \in 1..Len(txns) : txns'[k] = marked(c)[k]
    <3>1. \E row : txns' = Append(marked(c), row)
      BY <2>1 DEF Post
    <3> HIDE DEF marked
    <3>2. /\ Len(txns') = Len(marked(c)) + 1
          /\ \A k \in 1..Len(marked(c)) : txns'[k] = marked(c)[k]
      BY <2>3, <3>1, AppendedRows
    <3>3. QED
      BY <2>4, <3>2
  <2>6. txns'[c] = [txns[c] EXCEPT !.voided = TRUE] /\ txns'[c].voided = TRUE
    BY <1>2, <2>2, <2>4, <2>5 DEF Txn
  <2>7. ASSUME NEW k \in 1..Len(txns)
        PROVE  /\ k <= Len(txns')
               /\ txns'[k] = [txns[k] EXCEPT !.voided = txns'[k].voided]
               /\ txns[k].voided => txns'[k].voided
    <3>1. CASE k = c
      <4>1. k <= Len(txns')
        BY <1>1, <2>5
      <4>2. QED
        BY <2>6, <3>1, <4>1, Zenon
    <3>2. CASE k # c
      BY <1>1, <1>2, <2>4, <2>5, <3>2, RowUnchanged
    <3>3. QED
      BY <3>1, <3>2
  <2>8. QED
    BY <2>7 DEF Kept
<1>5. CASE BalanceNext
  BY <1>3, <1>4, <1>5 DEF BalanceNext, HandleCredit, HandleDebit
<1>6. CASE StateNext
  BY <1>6 DEF StateNext, SetCard, HandleDeliverKeys, HandleActivate,
              HandleDiscover, HandleRequestWipe, HandleMarkPending
<1>7. CASE RewindNext
  BY <1>7 DEF RewindNext, HandleReset, HandleTerminate, HandleImportState
<1>8. CASE PresentNext \/ ClaimNext \/ ConfigNext
  BY <1>8 DEF PresentNext, ClaimNext, HandleCheck, HandleRecordRead, HandleRecordTap,
              HandleClaimTap, HandleUpdateTapStatus,
              ConfigNext, HandleSetConfig, HandleSetK2, HandleExportState
<1>9. QED
  BY <1>5, <1>6, <1>7, <1>8 DEF DONext

\* No step but a restore rewrites or drops a transaction.
THEOREM HistoryOnlyGrows == DOSpec => HistoryKept
BY InitType, StepType, StepKeeps, PTL DEF DOSpec, HistoryKept, Kept

(* The abstract account ---------------------------------------------------- *)

LEMMA ChargesAppended ==
    ASSUME NEW rows \in Seq(Txn), NEW row, NEW new, new = Append(rows, row)
    PROVE  ChargesOf(new) = ChargesOf(rows) \cup
                              (IF row.amount < 0 THEN {ChargeOf(row)} ELSE {})
<1>1. /\ Len(new) = Len(rows) + 1 /\ Len(rows) \in Nat
      /\ \A k \in 1..Len(rows) : new[k] = rows[k]
      /\ new[Len(rows) + 1] = row
  OBVIOUS
<1>2. ASSUME NEW x \in ChargesOf(new)
      PROVE  x \in ChargesOf(rows) \/ (row.amount < 0 /\ x = ChargeOf(row))
  <2>1. PICK k \in 1..Len(new) : new[k].amount < 0 /\ x = ChargeOf(new[k])
    BY <1>2 DEF ChargesOf
  <2>2. CASE k \in 1..Len(rows)
    BY <1>1, <2>1, <2>2 DEF ChargesOf
  <2>3. CASE k = Len(rows) + 1
    BY <1>1, <2>1, <2>3
  <2>4. QED
    BY <1>1, <2>2, <2>3
<1>3. ASSUME NEW x \in ChargesOf(rows)
      PROVE  x \in ChargesOf(new)
  <2>1. PICK k \in 1..Len(rows) : rows[k].amount < 0 /\ x = ChargeOf(rows[k])
    BY <1>3 DEF ChargesOf
  <2>2. k \in 1..Len(new) /\ new[k] = rows[k]
    BY <1>1
  <2>3. QED
    BY <2>1, <2>2 DEF ChargesOf
<1>4. row.amount < 0 => ChargeOf(row) \in ChargesOf(new)
  <2>1. Len(rows) + 1 \in 1..Len(new)
    BY <1>1
  <2>2. QED
    BY <1>1, <2>1 DEF ChargesOf
<1>5. QED
  BY <1>2, <1>3, <1>4

\* Voiding a charge turns its entry over and leaves the others: ids tell them
\* apart.
LEMMA ChargesMarked ==
    ASSUME NEW rows \in Seq(Txn), VoidsOK(rows), NEW c \in 1..Len(rows),
           rows[c].amount < 0, ~rows[c].voided,
           NEW marked, marked = [rows EXCEPT ![c].voided = TRUE]
    PROVE  /\ ChargeOf(rows[c]) \in ChargesOf(rows)
           /\ ChargeOf(rows[c]).stands
           /\ ChargesOf(marked) = (ChargesOf(rows) \ {ChargeOf(rows[c])})
                                    \cup {[id |-> rows[c].id, amount |-> -rows[c].amount,
                                           stands |-> FALSE]}
<1> DEFINE old == ChargeOf(rows[c])
           turned == [id |-> rows[c].id, amount |-> -rows[c].amount, stands |-> FALSE]
<1>1. /\ Len(marked) = Len(rows)
      /\ \A k \in 1..Len(rows) : k # c => marked[k] = rows[k]
      /\ marked[c] = [rows[c] EXCEPT !.voided = TRUE]
  BY MarkedRows
<1>2. \A k \in 1..Len(rows) : rows[k] \in Txn
  OBVIOUS
<1>3. ASSUME NEW k \in 1..Len(rows), k # c
      PROVE  rows[k].id # rows[c].id
  <2>1. rows[k].id \in Nat /\ rows[c].id \in Nat
    BY <1>2 DEF Txn
  <2>2. k < c \/ c < k
    BY <1>3
  <2>3. rows[k].id < rows[c].id \/ rows[c].id < rows[k].id
    BY <2>2 DEF VoidsOK
  <2>4. QED
    BY <2>1, <2>3
<1>4. old \in ChargesOf(rows) /\ old.stands
  BY DEF ChargesOf, ChargeOf
<1>5. ChargeOf(marked[c]) = turned /\ marked[c].amount < 0
  <2>1. /\ marked[c].id = rows[c].id /\ marked[c].amount = rows[c].amount
        /\ marked[c].voided = TRUE
    BY <1>1, <1>2 DEF Txn
  <2>2. QED
    BY <2>1 DEF ChargeOf
<1>6. ASSUME NEW x \in ChargesOf(marked)
      PROVE  x \in (ChargesOf(rows) \ {old}) \cup {turned}
  <2>1. PICK k \in 1..Len(rows) : marked[k].amount < 0 /\ x = ChargeOf(marked[k])
    BY <1>1, <1>6 DEF ChargesOf
  <2>2. CASE k = c
    BY <1>5, <2>1, <2>2
  <2>3. CASE k # c
    <3>1. rows[k].amount < 0 /\ x = ChargeOf(rows[k])
      BY <1>1, <2>1, <2>3
    <3>2. x # old
      BY <1>3, <2>3, <3>1 DEF ChargeOf
    <3>3. QED
      BY <3>1, <3>2 DEF ChargesOf
  <2>4. QED
    BY <2>2, <2>3
<1>7. ASSUME NEW x \in ChargesOf(rows), x # old
      PROVE  x \in ChargesOf(marked)
  <2>1. PICK k \in 1..Len(rows) : rows[k].amount < 0 /\ x = ChargeOf(rows[k])
    BY <1>7 DEF ChargesOf
  <2>2. k # c
    BY <1>7, <2>1
  <2>3. k \in 1..Len(marked) /\ marked[k] = rows[k]
    BY <1>1, <2>2
  <2>4. QED
    BY <2>1, <2>3 DEF ChargesOf
<1>8. turned \in ChargesOf(marked)
  <2>1. c \in 1..Len(marked)
    BY <1>1
  <2>2. QED
    BY <1>5, <2>1 DEF ChargesOf
<1>9. QED
  BY <1>4, <1>6, <1>7, <1>8

accountVars == <<card.balance, ChargesOf(txns),
                 [funds |-> file.card.balance, charges |-> ChargesOf(file.txns)]>>

LEMMA InitRefines == DOInit => Account!Init
<1> SUFFICES ASSUME DOInit PROVE Account!Init
  OBVIOUS
<1>1. \A k \in 1..Len(<< >>) : FALSE
  OBVIOUS
<1>2. ChargesOf(<< >>) = {}
  BY <1>1, Zenon DEF ChargesOf
<1>3. card.balance = 0 /\ txns = << >>
  BY DEF DOInit, NewCard
<1>4. QED
  BY <1>2, <1>3 DEF Account!Init

LEMMA CreditRefines ==
    ASSUME TypeOK, NEW a \in Amounts, HandleCredit(a)
    PROVE  Account!Deposit(a) /\ a \in Account!Positive
<1> DEFINE row == [id |-> nextTxnId, counter |-> NoCounter, amount |-> a,
                   after |-> card.balance + a, voided |-> FALSE, voids |-> 0]
<1>1. txns \in Seq(Txn) /\ card \in Card /\ a \in Int /\ a > 0
  BY DOAssumption DEF TypeOK, HandleCredit, DOAssumption
<1>2. txns' = Append(txns, row) /\ file' = file
  BY DEF HandleCredit, Post
<1>3. ChargesOf(txns)' = ChargesOf(txns)
  <2>1. ~(row.amount < 0)
    BY <1>1
  <2> HIDE DEF row
  <2>2. ChargesOf(txns') = ChargesOf(txns) \cup
                             (IF row.amount < 0 THEN {ChargeOf(row)} ELSE {})
    BY <1>1, <1>2, ChargesAppended
  <2>3. QED
    BY <2>1, <2>2
<1>4. card'.balance = card.balance + a /\ card.balance + a <= MaxBalance
  BY <1>1 DEF HandleCredit, Post, Card
<1>5. QED
  BY <1>1, <1>2, <1>3, <1>4 DEF Account!Deposit, Account!Positive

LEMMA DebitRefines ==
    ASSUME TypeOK, Reversals, NEW n, NEW a \in Amounts, HandleDebit(n, a)
    PROVE  /\ Account!Charge(nextTxnId, a)
           /\ a \in Account!Positive
           /\ nextTxnId \in 1..MaxTxns
<1> DEFINE row == [id |-> nextTxnId, counter |-> n, amount |-> -a,
                   after |-> card.balance + (-a), voided |-> FALSE, voids |-> 0]
<1>1. /\ txns \in Seq(Txn) /\ card \in Card /\ card.balance \in Nat
      /\ a \in Int /\ a > 0 /\ card.balance >= a
  BY DOAssumption DEF TypeOK, HandleDebit, DOAssumption, Card
<1>2. txns' = Append(txns, row) /\ file' = file
  BY DEF HandleDebit, Post
<1>3. ChargesOf(txns)' = ChargesOf(txns) \cup {Account!Entry(nextTxnId, a, TRUE)}
  <2>1. row.amount < 0 /\ ChargeOf(row) = Account!Entry(nextTxnId, a, TRUE)
    <3>1. -(-a) = a /\ -a < 0 /\ (~FALSE) = TRUE
      BY <1>1
    <3>2. ChargeOf(row) = [id |-> nextTxnId, amount |-> -(-a), stands |-> ~FALSE]
      BY DEF ChargeOf
    <3>3. QED
      BY <3>1, <3>2, Zenon DEF Account!Entry
  <2> HIDE DEF row
  <2>2. ChargesOf(txns') = ChargesOf(txns) \cup
                             (IF row.amount < 0 THEN {ChargeOf(row)} ELSE {})
    BY <1>1, <1>2, ChargesAppended
  <2>3. QED
    BY <2>1, <2>2
<1>4. \A c \in ChargesOf(txns) : c.id # nextTxnId
  <2>1. SUFFICES ASSUME NEW k \in 1..Len(txns)
                 PROVE  ChargeOf(txns[k]).id # nextTxnId
    BY DEF ChargesOf
  <2>2. txns[k].id \in Nat /\ nextTxnId \in Nat /\ txns[k].id < nextTxnId
    <3>1. txns[k] \in Txn
      BY <1>1
    <3>2. QED
      BY <3>1 DEF TypeOK, Reversals, Numbered, Txn
  <2>3. QED
    BY <2>2 DEF ChargeOf
<1>5. card'.balance = card.balance - a
  BY <1>1 DEF HandleDebit, Post, Card
<1>6. nextTxnId \in 1..MaxTxns
  BY DOAssumption DEF TypeOK, HandleDebit, Post, DOAssumption
<1>7. QED
  BY <1>1, <1>2, <1>3, <1>4, <1>5, <1>6 DEF Account!Charge, Account!Positive

LEMMA VoidRefines ==
    ASSUME TypeOK, Reversals, NEW t \in 1..MaxTxns, HandleVoid(t)
    PROVE  \E c \in ChargesOf(txns) : Account!Reverse(c)
<1> DEFINE marked(k) == [txns EXCEPT ![k].voided = TRUE]
<1>1. PICK c \in Voidable(t) : Post(marked(c), NoCounter, -txns[c].amount, t)
  BY DEF HandleVoid
<1> DEFINE row == [id |-> nextTxnId, counter |-> NoCounter, amount |-> -txns[c].amount,
                   after |-> card.balance + (-txns[c].amount), voided |-> FALSE, voids |-> t]
           old == ChargeOf(txns[c])
<1>2. txns \in Seq(Txn) /\ card \in Card /\ VoidsOK(txns)
  BY DEF TypeOK, Reversals, VoidInv
<1>3. c \in 1..Len(txns) /\ txns[c] \in Txn /\ ~txns[c].voided /\ txns[c].amount < 0
  BY <1>2 DEF Voidable
<1>4. marked(c) \in Seq(Txn)
  BY <1>2, <1>3, MarkedType
<1>5. /\ old \in ChargesOf(txns) /\ old.stands
      /\ ChargesOf(marked(c)) = (ChargesOf(txns) \ {old})
                                  \cup {Account!Entry(old.id, old.amount, FALSE)}
  <2>1. Account!Entry(old.id, old.amount, FALSE)
          = [id |-> txns[c].id, amount |-> -txns[c].amount, stands |-> FALSE]
    BY DEF ChargeOf, Account!Entry
  <2>2. QED
    BY <1>2, <1>3, <2>1, ChargesMarked
<1>6. txns' = Append(marked(c), row) /\ file' = file
  BY <1>1 DEF Post
<1>7. ChargesOf(txns') = ChargesOf(marked(c))
  <2>1. ~(row.amount < 0)
    BY <1>3 DEF Txn
  <2> HIDE DEF row, marked
  <2>2. ChargesOf(txns') = ChargesOf(marked(c)) \cup
                             (IF row.amount < 0 THEN {ChargeOf(row)} ELSE {})
    BY <1>4, <1>6, ChargesAppended
  <2>3. QED
    BY <2>1, <2>2
<1>8. card'.balance = card.balance + old.amount
  BY <1>1, <1>2 DEF Post, Card, ChargeOf
<1>9. QED
  BY <1>5, <1>6, <1>7, <1>8 DEF Account!Reverse

LEMMA StepRefines ==
    TypeOK /\ Reversals /\ [DONext]_doVars => [Account!Next]_accountVars
<1> SUFFICES ASSUME TypeOK, Reversals, [DONext]_doVars
             PROVE  Account!Next \/ UNCHANGED accountVars
  BY DEF accountVars
<1>1. CASE card'.balance = card.balance /\ UNCHANGED <<txns, file>>
  BY <1>1 DEF accountVars
<1>2. CASE BalanceNext
  BY <1>2, CreditRefines, DebitRefines, VoidRefines DEF BalanceNext, Account!Next
<1>3. CASE StateNext
  <2>1. card'.balance = card.balance /\ UNCHANGED <<txns, file>>
    BY <1>3 DEF StateNext, SetCard, HandleDeliverKeys, HandleActivate, HandleDiscover,
           HandleRequestWipe, HandleMarkPending, TypeOK, Card
  <2>2. QED
    BY <1>1, <2>1
<1>4. CASE ConfigNext
  <2>1. CASE HandleExportState
    BY <2>1 DEF HandleExportState, Account!Next, Account!Save
  <2>2. QED
    BY <1>1, <1>4, <2>1 DEF ConfigNext, HandleSetConfig, HandleSetK2
<1>5. CASE RewindNext
  <2>1. CASE HandleTerminate
    <3>1. card'.balance = card.balance /\ UNCHANGED <<txns, file>>
      BY <2>1 DEF HandleTerminate, TypeOK, Card
    <3>2. QED
      BY <1>1, <3>1
  <2>2. CASE HandleImportState
    BY <2>2 DEF HandleImportState, Account!Next, Account!Restore
  <2>3. QED
    BY <1>1, <1>5, <2>1, <2>2 DEF RewindNext, HandleReset
<1>6. CASE PresentNext \/ ClaimNext
  BY <1>6, <1>1 DEF PresentNext, ClaimNext, HandleCheck, HandleRecordRead,
                    HandleRecordTap, HandleClaimTap, HandleUpdateTapStatus
<1>7. QED
  BY <1>1, <1>2, <1>3, <1>4, <1>5, <1>6 DEF DONext, doVars

\* The five tables and their handlers implement the abstract account.
THEOREM ImplementsAccount == DOSpec => AccountSpec
<1>1. DOInit => TypeOK /\ Reversals
  BY InitType, InitReversals
<1>2. TypeOK /\ Reversals /\ [DONext]_doVars => (TypeOK /\ Reversals)'
  BY StepType, StepReversals
<1>3. QED
  BY <1>1, <1>2, InitRefines, StepRefines, PTL
  DEF DOSpec, AccountSpec, Account!Spec, accountVars

(* Sums --------------------------------------------------------------------- *)

\* SumFunctionOnSet recurses over sets.  What it computes is proved by induction
\* on their cardinality, from the fact that a set of numbers has a least one.

IntValued(f, S) == \A p \in S : f[p] \in Int

\* The recursion behind it, one arbitrary element at a time.
Pick(s) == CHOOSE x \in s : TRUE

Sums(f, S, it) ==
    it = [s \in SUBSET S |-> IF s = {} THEN 0 ELSE f[Pick(s)] + it[s \ {Pick(s)}]]

LEMMA SumIs ==
    ASSUME NEW f, NEW S
    PROVE  SumFunctionOnSet(f, S) = (CHOOSE it : Sums(f, S, it))[S]
BY DEF SumFunctionOnSet, FoldFunctionOnSet, MapThenFoldSet, Sums, Pick

\* Induction on numbers, as a statement about sets.
LEMMA LeastNumber ==
    ASSUME NEW T \in SUBSET Nat, T # {}
    PROVE  \E n \in T : \A m \in T : n <= m
<1> DEFINE R == {ss \in Nat \X Nat : ss[1] < ss[2]}
<1>1. IsWellFoundedOn(R, Nat)
  BY NatLessThanWellFounded DEF OpToRel
<1> HIDE DEF R
<1>2. \E n \in T : \A m \in T : ~(<<m, n>> \in R)
  BY <1>1, WFMin, Zenon
<1>3. ASSUME NEW n \in T, NEW m \in T, ~(<<m, n>> \in R)
      PROVE  n <= m
  <2>1. n \in Nat /\ m \in Nat
    OBVIOUS
  <2>2. <<m, n>> \in Nat \X Nat /\ <<m, n>>[1] = m /\ <<m, n>>[2] = n
    BY <2>1
  <2>3. m < n => <<m, n>> \in R
    BY <2>2, Zenon DEF R
  <2>4. QED
    BY <1>3, <2>1, <2>3
<1>4. QED
  BY <1>2, <1>3

LEMMA EveryNumber ==
    ASSUME NEW T, 0 \in T, \A n \in Nat : n \in T => n + 1 \in T
    PROVE  Nat \subseteq T
<1> SUFFICES ASSUME Nat \ T # {} PROVE FALSE
  OBVIOUS
<1>1. PICK n \in Nat \ T : \A m \in Nat \ T : n <= m
  BY LeastNumber
<1>2. n # 0 /\ n - 1 \in Nat
  BY <1>1
<1>3. n - 1 \in T
  BY <1>1, <1>2
<1>4. (n - 1) + 1 = n
  BY <1>1
<1>5. QED
  BY <1>1, <1>2, <1>3, <1>4

LEMMA PickIn == \A s : s # {} => Pick(s) \in s
BY DEF Pick

\* The recursion has a solution.
LEMMA SumsExist ==
    ASSUME NEW f, NEW S, IsFiniteSet(S)
    PROVE  Sums(f, S, CHOOSE it : Sums(f, S, it))
<1> DEFINE D(n) == {s \in SUBSET S : Cardinality(s) <= n}
           Solves(n, it) ==
             it = [s \in D(n) |-> IF s = {} THEN 0 ELSE f[Pick(s)] + it[s \ {Pick(s)}]]
           T == {n \in Nat : \E it : Solves(n, it)}
<1>1. \A s \in SUBSET S : IsFiniteSet(s) /\ Cardinality(s) \in Nat /\ Cardinality(s) <= Cardinality(S)
  BY FS_Subset, FS_CardinalityType
<1>2. \A s \in SUBSET S : s # {} =>
         /\ Pick(s) \in s /\ s \ {Pick(s)} \in SUBSET S
         /\ Cardinality(s \ {Pick(s)}) = Cardinality(s) - 1
  BY <1>1, PickIn, FS_RemoveElement
<1>3. 0 \in T
  <2>1. \A s \in D(0) : s = {}
    BY <1>1, FS_EmptySet
  <2>2. Solves(0, [s \in D(0) |-> 0])
    BY <2>1
  <2>3. QED
    BY <2>2
<1>4. ASSUME NEW n \in Nat, n \in T
      PROVE  n + 1 \in T
  <2>1. PICK it2 : Solves(n, it2)
    BY <1>4
  <2> DEFINE h == [s \in D(n + 1) |-> IF s = {} THEN 0 ELSE f[Pick(s)] + it2[s \ {Pick(s)}]]
  <2>2. D(n) \subseteq D(n + 1)
    BY <1>1
  <2>3. \A s \in D(n) : h[s] = it2[s]
    <3>1. \A s \in D(n) : it2[s] = IF s = {} THEN 0 ELSE f[Pick(s)] + it2[s \ {Pick(s)}]
      BY <2>1
    <3>2. QED
      BY <2>2, <3>1
  <2>4. \A s \in D(n + 1) : s # {} => s \ {Pick(s)} \in D(n)
    BY <1>1, <1>2
  <2>5. \A s \in D(n + 1) : s # {} => h[s \ {Pick(s)}] = it2[s \ {Pick(s)}]
    BY <2>3, <2>4
  <2>6. h = [s \in D(n + 1) |-> IF s = {} THEN 0 ELSE f[Pick(s)] + h[s \ {Pick(s)}]]
    <3> HIDE DEF D
    <3>1. QED
      BY <2>5
  <2> HIDE DEF h
  <2>7. Solves(n + 1, h)
    BY <2>6
  <2> HIDE DEF Solves, h
  <2>8. QED
    BY <2>7
<1>5. Nat \subseteq T
  <2> HIDE DEF T
  <2>1. QED
    BY <1>3, <1>4, EveryNumber
<1>6. PICK it : Solves(Cardinality(S), it)
  BY <1>1, <1>5
<1>7. D(Cardinality(S)) = SUBSET S
  BY <1>1
<1>8. Sums(f, S, it)
  <2> HIDE DEF D
  <2>1. QED
    BY <1>6, <1>7 DEF Sums
<1>9. QED
  BY <1>8

\* Solutions agree wherever the amounts do.
LEMMA SumsAgree ==
    ASSUME NEW f, NEW g, NEW S, NEW T, IsFiniteSet(S), IsFiniteSet(T),
           NEW it1, NEW it2, Sums(f, S, it1), Sums(g, T, it2),
           NEW V, V \subseteq S \cap T, \A p \in V : f[p] = g[p]
    PROVE  it1[V] = it2[V]
<1> DEFINE B == {n \in Nat : \E s \in SUBSET V : Cardinality(s) = n /\ it1[s] # it2[s]}
<1> SUFFICES ASSUME it1[V] # it2[V] PROVE FALSE
  OBVIOUS
<1>1. IsFiniteSet(V)
  BY FS_Subset
<1>2. \A s \in SUBSET V : IsFiniteSet(s) /\ Cardinality(s) \in Nat
  BY <1>1, FS_Subset, FS_CardinalityType
<1>3. B \in SUBSET Nat /\ Cardinality(V) \in B
  BY <1>2
<1>4. PICK n \in B : \A m \in B : n <= m
  <2> HIDE DEF B
  <2>1. QED
    BY <1>3, LeastNumber
<1>5. PICK s \in SUBSET V : Cardinality(s) = n /\ it1[s] # it2[s]
  OBVIOUS
<1> DEFINE x == Pick(s)
           r == s \ {Pick(s)}
<1>6. s \in SUBSET S /\ s \in SUBSET T
  OBVIOUS
<1>7. /\ it1[s] = IF s = {} THEN 0 ELSE f[x] + it1[r]
      /\ it2[s] = IF s = {} THEN 0 ELSE g[x] + it2[r]
  BY <1>6 DEF Sums
<1>8. s # {} /\ x \in s /\ r \in SUBSET V
  BY <1>5, <1>7, PickIn
<1>9. Cardinality(r) = n - 1 /\ Cardinality(r) \in Nat
  BY <1>2, <1>5, <1>8, FS_RemoveElement
<1>10. it1[r] = it2[r]
  <2> SUFFICES ASSUME it1[r] # it2[r] PROVE FALSE
    OBVIOUS
  <2>1. n - 1 \in B
    BY <1>8, <1>9
  <2>2. n \in Nat
    BY <1>3
  <2>3. QED
    BY <1>4, <2>1, <2>2
<1>11. QED
  BY <1>5, <1>7, <1>8, <1>10

LEMMA SumSame ==
    ASSUME NEW f, NEW g, NEW S, IsFiniteSet(S), \A p \in S : f[p] = g[p]
    PROVE  SumFunctionOnSet(f, S) = SumFunctionOnSet(g, S)
<1> DEFINE it1 == CHOOSE it : Sums(f, S, it)
           it2 == CHOOSE it : Sums(g, S, it)
<1>1. Sums(f, S, it1) /\ Sums(g, S, it2)
  BY SumsExist
<1>2. SumFunctionOnSet(f, S) = it1[S] /\ SumFunctionOnSet(g, S) = it2[S]
  BY SumIs
<1> HIDE DEF it1, it2
<1>3. QED
  BY <1>1, <1>2, SumsAgree

LEMMA SumEmpty ==
    ASSUME NEW f
    PROVE  SumFunctionOnSet(f, {}) = 0
BY SumIs, SumsExist, FS_EmptySet DEF Sums

LEMMA SumStep ==
    ASSUME NEW f, NEW S, IsFiniteSet(S), S # {}
    PROVE  SumFunctionOnSet(f, S) = f[Pick(S)] + SumFunctionOnSet(f, S \ {Pick(S)})
<1> DEFINE r == S \ {Pick(S)}
           it1 == CHOOSE it : Sums(f, S, it)
           it2 == CHOOSE it : Sums(f, r, it)
<1>1. IsFiniteSet(r) /\ r \subseteq S \cap r
  BY FS_Subset
<1>2. Sums(f, S, it1) /\ Sums(f, r, it2)
  BY <1>1, SumsExist
<1> HIDE DEF it1, it2
<1>3. it1[r] = it2[r]
  BY <1>1, <1>2, SumsAgree
<1>4. it1[S] = f[Pick(S)] + it1[r]
  BY <1>2 DEF Sums
<1>5. SumFunctionOnSet(f, S) = it1[S] /\ SumFunctionOnSet(f, r) = it2[r]
  BY SumIs DEF it1, it2
<1>6. QED
  BY <1>3, <1>4, <1>5

\* Whichever element is taken out, the sum is its amount and that of the rest.
LEMMA SumTakes ==
    ASSUME NEW f, NEW S, IsFiniteSet(S), IntValued(f, S)
    PROVE  /\ SumFunctionOnSet(f, S) \in Int
           /\ \A x \in S : SumFunctionOnSet(f, S) = f[x] + SumFunctionOnSet(f, S \ {x})
<1> DEFINE Good(s) == /\ SumFunctionOnSet(f, s) \in Int
                      /\ \A x \in s : SumFunctionOnSet(f, s) = f[x] + SumFunctionOnSet(f, s \ {x})
           T == {n \in Nat : \A s \in SUBSET S : Cardinality(s) <= n => Good(s)}
<1>1. \A s \in SUBSET S : IsFiniteSet(s) /\ Cardinality(s) \in Nat
  BY FS_Subset, FS_CardinalityType
<1>2. 0 \in T
  <2>1. \A s \in SUBSET S : Cardinality(s) <= 0 => s = {}
    BY <1>1, FS_EmptySet
  <2>2. Good({})
    BY SumEmpty
  <2>3. QED
    BY <2>1, <2>2
<1>3. ASSUME NEW n \in Nat, n \in T
      PROVE  n + 1 \in T
  <2> SUFFICES ASSUME NEW s \in SUBSET S, Cardinality(s) <= n + 1, s # {}
               PROVE  Good(s)
    BY SumEmpty
  <2> DEFINE y == Pick(s)
  <2>1. y \in s /\ IsFiniteSet(s)
    BY <1>1, PickIn
  <2>2. \A x \in s : s \ {x} \in SUBSET S /\ Cardinality(s \ {x}) <= n
    BY <1>1, <2>1, FS_RemoveElement
  <2>3. \A x \in s : Good(s \ {x})
    BY <1>3, <2>2
  <2>4. SumFunctionOnSet(f, s) = f[y] + SumFunctionOnSet(f, s \ {y})
    BY <2>1, SumStep
  <2>5. \A x \in s : f[x] \in Int /\ SumFunctionOnSet(f, s \ {x}) \in Int
    BY <2>3 DEF IntValued
  <2> HIDE DEF y
  <2>6. ASSUME NEW x \in s
        PROVE  SumFunctionOnSet(f, s) = f[x] + SumFunctionOnSet(f, s \ {x})
    <3>1. CASE x = y
      BY <2>4, <3>1
    <3>2. CASE x # y
      <4> DEFINE m == (s \ {y}) \ {x}
      <4>1. m = (s \ {x}) \ {y} /\ x \in s \ {y} /\ y \in s \ {x}
        BY <2>1, <3>2
      <4>2. SumFunctionOnSet(f, s \ {y}) = f[x] + SumFunctionOnSet(f, m)
        BY <2>1, <2>3, <4>1
      <4>3. SumFunctionOnSet(f, s \ {x}) = f[y] + SumFunctionOnSet(f, m)
        BY <2>3, <4>1
      <4>4. Cardinality(m) <= n /\ m \in SUBSET S
        <5>1. m \in SUBSET (s \ {x}) /\ IsFiniteSet(s \ {x})
          BY <1>1
        <5>2. Cardinality(m) <= Cardinality(s \ {x})
          BY <5>1, FS_Subset
        <5>3. m \in SUBSET S
          OBVIOUS
        <5>4. QED
          BY <1>1, <2>2, <5>2, <5>3
      <4>5. SumFunctionOnSet(f, m) \in Int
        BY <1>3, <4>4
      <4>6. f[x] \in Int /\ f[y] \in Int
        BY <2>1, <2>5
      <4> HIDE DEF m
      <4>7. QED
        BY <2>4, <4>2, <4>3, <4>5, <4>6
    <3>3. QED
      BY <3>1, <3>2
  <2>7. QED
    BY <2>1, <2>4, <2>5, <2>6
<1>4. Nat \subseteq T
  <2> HIDE DEF T
  <2>1. QED
    BY <1>2, <1>3, EveryNumber
<1>5. Good(S)
  BY <1>1, <1>4
<1>6. QED
  BY <1>5

LEMMA SumMore ==
    ASSUME NEW f, NEW S, NEW x, x \notin S, IsFiniteSet(S), IntValued(f, S \cup {x})
    PROVE  SumFunctionOnSet(f, S \cup {x}) = f[x] + SumFunctionOnSet(f, S)
<1>1. (S \cup {x}) \ {x} = S
  OBVIOUS
<1>2. IsFiniteSet(S \cup {x})
  BY FS_AddElement
<1>3. QED
  BY <1>1, <1>2, SumTakes

(* The balance is what stands ------------------------------------------------ *)

\* The deposits, and the charges that were not voided.
Standing(rows) == {k \in 1..Len(rows) : rows[k].voids = 0 /\ ~rows[k].voided}

Net(rows) == SumFunctionOnSet([k \in 1..Len(rows) |-> rows[k].amount], Standing(rows))

BalanceIsNet == card.balance = Net(txns)

\* What stood after n rows: a charge stands until its reversal.
StoodAt(rows, n) ==
    {j \in 1..n : /\ rows[j].voids = 0
                  /\ ~(rows[j].voided /\ \E k \in 1..n : rows[k].voids = rows[j].id)}

LEMMA FieldTypes ==
    ASSUME NEW rows \in Seq(Txn), NEW k \in 1..Len(rows)
    PROVE  /\ rows[k].id \in Nat \ {0} /\ rows[k].amount \in Int
           /\ rows[k].after \in Nat /\ rows[k].voids \in Nat /\ rows[k].voided \in BOOLEAN
<1>1. rows[k] \in Txn
  OBVIOUS
<1>2. QED
  BY <1>1 DEF Txn

LEMMA SameRow ==
    ASSUME NEW rows \in Seq(Txn), VoidsOK(rows),
           NEW j \in 1..Len(rows), NEW k \in 1..Len(rows), rows[j].id = rows[k].id
    PROVE  j = k
<1>1. rows[j].id \in Nat /\ rows[k].id \in Nat
  BY FieldTypes
<1>2. (j < k => rows[j].id < rows[k].id) /\ (k < j => rows[k].id < rows[j].id)
  BY DEF VoidsOK
<1>3. j \in Int /\ k \in Int
  OBVIOUS
<1>4. QED
  BY <1>1, <1>2, <1>3

\* A reversal comes after the charge it names, and that charge reverses nothing.
LEMMA Reversed ==
    ASSUME NEW rows \in Seq(Txn), VoidsOK(rows),
           NEW j \in 1..Len(rows), NEW k \in 1..Len(rows), rows[k].voids = rows[j].id
    PROVE  /\ j < k /\ rows[j].voided /\ rows[j].voids = 0
           /\ rows[k].amount = -rows[j].amount
<1>1. rows[k].voids # 0
  BY FieldTypes
<1>2. PICK i \in 1..(k - 1) : /\ rows[i].id = rows[k].voids
                              /\ rows[i].voided
                              /\ rows[i].amount < 0
                              /\ rows[k].amount = -rows[i].amount
  BY <1>1 DEF VoidsOK
<1>3. i \in 1..Len(rows) /\ i < k
  OBVIOUS
<1>4. i = j
  BY <1>2, <1>3, SameRow
<1>5. rows[j].voids = 0
  <2> SUFFICES ASSUME rows[j].voids # 0 PROVE FALSE
    OBVIOUS
  <2>1. PICK h \in 1..(j - 1) : rows[h].amount < 0 /\ rows[j].amount = -rows[h].amount
    BY DEF VoidsOK
  <2>2. h \in 1..Len(rows)
    OBVIOUS
  <2>3. rows[h].amount \in Int /\ rows[j].amount \in Int
    BY <2>2, FieldTypes
  <2>4. QED
    BY <1>2, <1>4, <2>1, <2>3
<1>6. QED
  BY <1>2, <1>3, <1>4, <1>5

LEMMA NetIsClosing ==
    ASSUME NEW rows \in Seq(Txn), VoidsOK(rows),
           \A k \in 1..Len(rows) : rows[k].after = Before(rows, k) + rows[k].amount
    PROVE  Net(rows) = Closing(rows)
<1> DEFINE f == [k \in 1..Len(rows) |-> rows[k].amount]
           S(n) == SumFunctionOnSet(f, StoodAt(rows, n))
           After(n) == IF n = 0 THEN 0 ELSE rows[n].after
           T == {n \in Nat : n <= Len(rows) => S(n) = After(n)}
<1>0. Len(rows) \in Nat
  OBVIOUS
<1>1. ASSUME NEW n \in Nat, n <= Len(rows)
      PROVE  IsFiniteSet(StoodAt(rows, n)) /\ IntValued(f, StoodAt(rows, n))
  <2>1. StoodAt(rows, n) \subseteq 1..n
    BY DEF StoodAt
  <2>2. IsFiniteSet(1..n)
    BY FS_Interval
  <2>3. \A k \in 1..n : f[k] \in Int
    BY <1>0, <1>1, FieldTypes
  <2>4. QED
    BY <2>1, <2>2, <2>3, FS_Subset DEF IntValued
<1>2. 0 \in T
  <2>1. StoodAt(rows, 0) = {}
    BY DEF StoodAt
  <2>2. QED
    BY <2>1, SumEmpty
<1>3. ASSUME NEW n \in Nat, n \in T
      PROVE  n + 1 \in T
  <2> SUFFICES ASSUME n + 1 <= Len(rows)
               PROVE  S(n + 1) = After(n + 1)
    OBVIOUS
  <2> DEFINE m == n + 1
  <2>1. m \in 1..Len(rows) /\ n <= Len(rows) /\ m # 0
    BY <1>0
  <2>2. S(n) = After(n) /\ After(n) \in Int
    BY <1>3, <2>1, FieldTypes
  <2>3. After(m) = After(n) + rows[m].amount
    <3>1. rows[m].after = Before(rows, m) + rows[m].amount
      BY <2>1
    <3>2. Before(rows, m) = After(n)
      BY DEF Before
    <3>3. QED
      BY <2>1, <3>1, <3>2
  <2>4. f[m] = rows[m].amount /\ rows[m].amount \in Int
    BY <2>1, FieldTypes
  <2>5. IsFiniteSet(StoodAt(rows, n)) /\ IntValued(f, StoodAt(rows, n))
    BY <1>1, <2>1
  <2>6. IsFiniteSet(StoodAt(rows, m)) /\ IntValued(f, StoodAt(rows, m))
    BY <1>1, <2>1
  <2>7. \A j \in 1..m : j \in 1..Len(rows) /\ (j \in 1..n \/ j = m)
    BY <1>0, <2>1
  <2>8. CASE rows[m].voids = 0
    <3>1. StoodAt(rows, m) = StoodAt(rows, n) \cup {m}
      <4>1. \A j \in 1..n : (\E k \in 1..m : rows[k].voids = rows[j].id)
                            <=> (\E k \in 1..n : rows[k].voids = rows[j].id)
        <5>1. \A j \in 1..n : rows[j].id # 0
          BY <2>1, <2>7, FieldTypes
        <5>2. QED
          BY <2>7, <2>8, <5>1
      <4>2. \A k \in 1..m : rows[k].voids # rows[m].id
        BY <2>1, <2>7, Reversed
      <4>3. 1..m = (1..n) \cup {m}
        OBVIOUS
      <4> HIDE DEF m
      <4>4. QED
        BY <2>8, <4>1, <4>2, <4>3 DEF StoodAt
    <3>2. m \notin StoodAt(rows, n)
      BY DEF StoodAt
    <3>3. S(m) = f[m] + S(n)
      <4> HIDE DEF f, m
      <4>1. QED
        BY <2>5, <2>6, <3>1, <3>2, SumMore
    <3>4. QED
      BY <2>2, <2>3, <2>4, <3>3
  <2>9. CASE rows[m].voids # 0
    <3>1. PICK j \in 1..(m - 1) : rows[j].id = rows[m].voids
      BY <2>1, <2>9 DEF VoidsOK
    <3>2. j \in 1..n /\ j \in 1..Len(rows)
      BY <2>1
    <3>3. /\ rows[j].voided /\ rows[j].voids = 0
          /\ rows[m].amount = -rows[j].amount
      BY <2>1, <3>1, <3>2, Reversed
    <3>4. \A k \in 1..n : rows[k].voids # rows[j].id
      <4> SUFFICES ASSUME NEW k \in 1..n, rows[k].voids = rows[j].id PROVE FALSE
        OBVIOUS
      <4>1. k \in 1..Len(rows) /\ k # m
        BY <2>1
      <4>2. k = m
        BY <2>1, <2>9, <3>1, <4>1 DEF VoidsOK
      <4>3. QED
        BY <4>1, <4>2
    <3>5. j \in StoodAt(rows, n)
      BY <3>2, <3>3, <3>4 DEF StoodAt
    <3>6. StoodAt(rows, m) = StoodAt(rows, n) \ {j}
      <4>1. \A i \in 1..n : i # j => rows[i].id # rows[m].voids
        <5> SUFFICES ASSUME NEW i \in 1..n, rows[i].id = rows[m].voids PROVE i = j
          OBVIOUS
        <5>1. i \in 1..Len(rows)
          BY <2>1
        <5>2. QED
          BY <3>1, <3>2, <5>1, SameRow
      <4>2. 1..m = (1..n) \cup {m}
        OBVIOUS
      <4>3. \A i \in 1..n : i # j =>
               ((\E k \in 1..m : rows[k].voids = rows[i].id)
                <=> (\E k \in 1..n : rows[k].voids = rows[i].id))
        BY <4>1, <4>2
      <4>4. m \in 1..m
        BY <2>1
      <4> HIDE DEF m
      <4>5. QED
        BY <2>9, <3>1, <3>2, <3>3, <4>2, <4>3, <4>4 DEF StoodAt
    <3>7. S(n) = f[j] + S(m)
      <4> HIDE DEF f, m
      <4>1. QED
        BY <2>5, <3>5, <3>6, SumTakes
    <3>8. f[j] = rows[j].amount /\ rows[j].amount \in Int
      BY <3>2, FieldTypes
    <3>9. S(m) \in Int
      <4> HIDE DEF f, m
      <4>1. QED
        BY <2>6, SumTakes
    <3>10. QED
      BY <2>2, <2>3, <2>4, <3>3, <3>7, <3>8, <3>9
  <2>10. QED
    BY <2>8, <2>9
<1>4. Nat \subseteq T
  <2> HIDE DEF T
  <2>1. QED
    BY <1>2, <1>3, EveryNumber
<1>5. StoodAt(rows, Len(rows)) = Standing(rows)
  <2>1. \A j \in 1..Len(rows) : rows[j].voided => \E k \in 1..Len(rows) : rows[k].voids = rows[j].id
    <3> SUFFICES ASSUME NEW j \in 1..Len(rows), rows[j].voided
                 PROVE  \E k \in 1..Len(rows) : rows[k].voids = rows[j].id
      OBVIOUS
    <3>1. PICK k \in (j + 1)..Len(rows) : rows[k].voids = rows[j].id
      BY DEF VoidsOK
    <3>2. k \in 1..Len(rows)
      BY <1>0
    <3>3. QED
      BY <3>1, <3>2
  <2>2. QED
    BY <2>1 DEF StoodAt, Standing
<1>6. S(Len(rows)) = After(Len(rows))
  BY <1>0, <1>4
<1>7. Net(rows) = S(Len(rows))
  BY <1>5 DEF Net
<1>8. After(Len(rows)) = Closing(rows)
  BY <1>0 DEF Closing
<1>9. QED
  BY <1>6, <1>7, <1>8

\* At any moment the balance is what was deposited less the charges that stand:
\* a voided charge and its reversal leave no trace in it, in any order and
\* across restores (balanceHandlers.ts, stateExportHandlers.ts).
THEOREM BalanceCorrect == DOSpec => []BalanceIsNet
<1>1. TypeOK /\ LedgerInv /\ VoidInv => BalanceIsNet
  <2> SUFFICES ASSUME TypeOK, LedgerInv, VoidInv PROVE BalanceIsNet
    OBVIOUS
  <2>1. txns \in Seq(Txn) /\ VoidsOK(txns)
    BY DEF TypeOK, VoidInv
  <2>2. /\ card.balance = Closing(txns)
        /\ \A k \in 1..Len(txns) : txns[k].after = Before(txns, k) + txns[k].amount
    BY DEF LedgerInv, LedgerOK
  <2>3. QED
    BY <2>1, <2>2, NetIsClosing DEF BalanceIsNet
<1>2. QED
  BY <1>1, TypeCorrect, LedgerCorrect, VoidsCorrect, PTL

=============================================================================
