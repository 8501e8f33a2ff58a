------------------------- MODULE OperatorDesk_proofs -------------------------
(***************************************************************************)
(* Desk requests of any number, at any number of desks, overlapping,       *)
(* failing and dying: what the shift totals count has one row of its own   *)
(* in the card's history; and if they come one by one, the totals add up   *)
(* to the card's balance.                                                  *)
(***************************************************************************)
EXTENDS OperatorDesk, CardReplayDO_proofs

(* What a money call adds to the history ------------------------------------ *)

\* One row more, of amount a and reversing v; the others keep what they say.
Grows(a, v) ==
    /\ nextTxnId' = nextTxnId + 1
    /\ \A k \in 1..Len(txns) :
          \E l \in 1..Len(txns') : /\ txns'[l].id = txns[k].id
                                   /\ txns'[l].amount = txns[k].amount
                                   /\ txns'[l].voids = txns[k].voids
    /\ \E l \in 1..Len(txns') : /\ txns'[l].id = nextTxnId
                                /\ txns'[l].amount = a
                                /\ txns'[l].voids = v

LEMMA PostGrows ==
    ASSUME TypeOK, NEW rows \in Seq(Txn), NEW n, NEW a \in Int, NEW v,
           Len(rows) = Len(txns),
           \A k \in 1..Len(txns) : /\ rows[k].id = txns[k].id
                                   /\ rows[k].amount = txns[k].amount
                                   /\ rows[k].voids = txns[k].voids,
           Post(rows, n, a, v)
    PROVE  Grows(a, v) /\ card'.balance = card.balance + a
<1> DEFINE row == [id |-> nextTxnId, counter |-> n, amount |-> a,
                   after |-> card.balance + a, voided |-> FALSE, voids |-> v]
<1>1. /\ txns' = Append(rows, row)
      /\ nextTxnId' = nextTxnId + 1
      /\ card' = [card EXCEPT !.exists = TRUE, !.balance = @ + a]
  BY DEF Post
<1>2. /\ Len(txns') = Len(rows) + 1
      /\ \A k \in 1..Len(rows) : txns'[k] = rows[k]
      /\ txns'[Len(rows) + 1] = row
  BY <1>1
<1>3. Len(rows) \in Nat
  OBVIOUS
<1>4. ASSUME NEW k \in 1..Len(txns)
      PROVE  /\ k \in 1..Len(txns')
             /\ txns'[k].id = txns[k].id
             /\ txns'[k].amount = txns[k].amount
             /\ txns'[k].voids = txns[k].voids
  BY <1>2, <1>3
<1>5. /\ Len(rows) + 1 \in 1..Len(txns')
      /\ row.id = nextTxnId /\ row.amount = a /\ row.voids = v
  BY <1>2, <1>3
<1>6. card'.balance = card.balance + a
  BY <1>1 DEF TypeOK, Card
<1>7. QED
  BY <1>1, <1>2, <1>4, <1>5, <1>6 DEF Grows

LEMMA CreditGrows ==
    ASSUME TypeOK, Reversals, NEW a \in Int, HandleCredit(a)
    PROVE  TypeOK' /\ Reversals' /\ Grows(a, 0) /\ card'.balance = card.balance + a
<1>1. card.balance \in Nat /\ txns \in Seq(Txn)
  BY DEF TypeOK, Card
<1>2. card.balance + a >= 0 /\ NoCounter \in Counters \cup {NoCounter}
      /\ Post(txns, NoCounter, a, 0)
  BY <1>1 DEF HandleCredit
<1>3. TypeOK'
  BY <1>1, <1>2, PostType
<1>4. Reversals'
  BY <1>2, PostVoids DEF Reversals, Post
<1>5. QED
  BY <1>1, <1>2, <1>3, <1>4, PostGrows

LEMMA DebitGrows ==
    ASSUME TypeOK, Reversals, NEW n \in Counters \cup {NoCounter}, NEW a \in Int,
           HandleDebit(n, a)
    PROVE  TypeOK' /\ Reversals' /\ Grows(-a, 0) /\ card'.balance = card.balance + (-a)
<1>1. card.balance \in Nat /\ txns \in Seq(Txn)
  BY DEF TypeOK, Card
<1>2. card.balance + (-a) >= 0 /\ -a \in Int /\ Post(txns, n, -a, 0)
  BY <1>1 DEF HandleDebit
<1>3. TypeOK'
  BY <1>1, <1>2, PostType
<1>4. Reversals'
  BY <1>2, PostVoids DEF Reversals, Post
<1>5. QED
  BY <1>1, <1>2, <1>3, <1>4, PostGrows

LEMMA VoidGrows ==
    ASSUME TypeOK, Reversals, NEW t \in 1..MaxTxns, HandleVoid(t)
    PROVE  /\ TypeOK' /\ Reversals'
           /\ card'.balance - card.balance \in Nat
           /\ Grows(card'.balance - card.balance, t)
<1>1. card.balance \in Nat /\ txns \in Seq(Txn)
  BY DEF TypeOK, Card
<1>2. TypeOK'
  BY BalanceType DEF BalanceNext
<1>3. PICK k \in Voidable(t) :
         Post([txns EXCEPT ![k].voided = TRUE], NoCounter, -txns[k].amount, t)
  BY DEF HandleVoid
<1>4. k \in 1..Len(txns) /\ txns[k] \in Txn /\ txns[k].amount < 0
  BY <1>1, <1>3 DEF Voidable
<1>5. -txns[k].amount \in Nat
  BY <1>4 DEF Txn
<1> DEFINE rows == [txns EXCEPT ![k].voided = TRUE]
<1>6. rows \in Seq(Txn)
  BY <1>1, <1>4, MarkedType
<1>7. /\ Len(rows) = Len(txns)
      /\ \A j \in 1..Len(txns) : j # k => rows[j] = txns[j]
      /\ rows[k] = [txns[k] EXCEPT !.voided = TRUE]
  BY <1>1, <1>4, MarkedRows
<1>8. \A j \in 1..Len(txns) : /\ rows[j].id = txns[j].id
                              /\ rows[j].amount = txns[j].amount
                              /\ rows[j].voids = txns[j].voids
  BY <1>4, <1>7 DEF Txn
<1>9. -txns[k].amount \in Int /\ Post(rows, NoCounter, -txns[k].amount, t)
  BY <1>3, <1>5
<1> HIDE DEF rows
<1>10. Grows(-txns[k].amount, t) /\ card'.balance = card.balance + (-txns[k].amount)
  BY <1>6, <1>7, <1>8, <1>9, PostGrows
<1>11. card'.balance - card.balance = -txns[k].amount
  BY <1>1, <1>5, <1>10
<1>12. Reversals'
  BY <1>3, VoidVoids DEF Reversals, Post
<1>13. QED
  BY <1>2, <1>5, <1>10, <1>11, <1>12

\* A request that voids names a transaction, and no other does.
Named(o) == o.kind = "void" <=> o.of # 0

LEMMA MovesGrow ==
    ASSUME TypeOK, Reversals, NEW o \in Op, Named(o), Moves(o)
    PROVE  /\ TypeOK' /\ Reversals'
           /\ Moved(o).amount \in Nat
           /\ Grows(Signed(Moved(o)), o.of)
           /\ card'.balance = card.balance + Signed(Moved(o))
<1>1. o.amount \in Nat /\ o.of \in 0..MaxTxns /\ o.kind \in Kinds
  BY DEF Op
<1>2. /\ Moved(o).kind = o.kind
      /\ o.kind # "void" => Moved(o).amount = o.amount
      /\ o.kind = "void" => Moved(o).amount = card'.balance - card.balance
  BY DEF Moved, Op
<1>3. CASE o.kind \in {"topup", "refund"} /\ HandleCredit(o.amount)
  BY <1>1, <1>2, <1>3, CreditGrows DEF Named, Signed
<1>4. CASE o.kind = "pos_charge" /\ \E n \in Counters \cup {NoCounter} : HandleDebit(n, o.amount)
  BY <1>1, <1>2, <1>4, DebitGrows DEF Named, Signed
<1>5. CASE o.kind = "void" /\ HandleVoid(o.of)
  <2>1. o.of \in 1..MaxTxns
    BY <1>1, <1>5, DOAssumption DEF Named, DOAssumption
  <2>2. card.balance \in Nat /\ card'.balance \in Nat
    BY <1>5, <2>1, VoidGrows DEF TypeOK, Card
  <2>3. QED
    BY <1>2, <1>5, <2>1, <2>2, VoidGrows DEF Signed
<1>6. QED
  BY <1>3, <1>4, <1>5 DEF Moves

(* What a step leaves alone ------------------------------------------------- *)

\* Ids only grow and no row loses its id, its amount or what it reverses.
RowsStay ==
    /\ nextTxnId' >= nextTxnId
    /\ \A k \in 1..Len(txns) :
          \E l \in 1..Len(txns') : /\ txns'[l].id = txns[k].id
                                   /\ txns'[l].amount = txns[k].amount
                                   /\ txns'[l].voids = txns[k].voids

LEMMA GrowsStay ==
    ASSUME TypeOK, NEW a, NEW v, Grows(a, v)
    PROVE  RowsStay
BY DEF Grows, RowsStay, TypeOK

LEMMA SameStay ==
    ASSUME TypeOK, txns' = txns, nextTxnId' = nextTxnId
    PROVE  RowsStay
BY DEF RowsStay, TypeOK

\* What the others do to the object besides moving money.
Moneyless ==
    PresentNext \/ ClaimNext \/ StateNext \/ ConfigNext \/ HandleReset \/ HandleTerminate

LEMMA MoneylessStep ==
    ASSUME TypeOK, Moneyless
    PROVE  DONext /\ card'.balance = card.balance /\ UNCHANGED <<txns, nextTxnId>>
<1>1. DONext
  BY DEF Moneyless, DONext, RewindNext
<1>2. CASE PresentNext \/ ClaimNext \/ ConfigNext \/ HandleReset
  BY <1>1, <1>2 DEF PresentNext, HandleCheck, HandleRecordRead, ClaimNext, HandleRecordTap,
         HandleClaimTap, HandleUpdateTapStatus, ConfigNext, HandleSetConfig, HandleSetK2,
         HandleExportState, HandleReset
<1>3. CASE StateNext \/ HandleTerminate
  BY <1>1, <1>3 DEF StateNext, SetCard, HandleDeliverKeys, HandleActivate, HandleDiscover,
         HandleRequestWipe, HandleMarkPending, HandleTerminate, TypeOK, Card
<1>4. QED
  BY <1>2, <1>3 DEF Moneyless

LEMMA OthersStay ==
    ASSUME TypeOK, Reversals, Others
    PROVE  TypeOK' /\ Reversals' /\ RowsStay
<1>1. ASSUME NEW a \in Amounts, HandleCredit(a)
      PROVE  TypeOK' /\ Reversals' /\ RowsStay
  <2>1. a \in Int
    BY DOAssumption DEF DOAssumption
  <2>2. QED
    BY <1>1, <2>1, CreditGrows, GrowsStay
<1>2. ASSUME NEW a \in Amounts, NEW n \in Counters \cup {NoCounter}, HandleDebit(n, a)
      PROVE  TypeOK' /\ Reversals' /\ RowsStay
  <2>1. a \in Int
    BY DOAssumption DEF DOAssumption
  <2>2. QED
    BY <1>2, <2>1, DebitGrows, GrowsStay
<1>3. CASE Moneyless
  <2>1. DONext /\ UNCHANGED <<txns, nextTxnId>>
    BY <1>3, MoneylessStep
  <2>2. TypeOK' /\ Reversals'
    BY <2>1, StepType, StepReversals
  <2>3. QED
    BY <2>1, <2>2, SameStay
<1>4. QED
  BY <1>1, <1>2, <1>3 DEF Others, Moneyless

(* The invariant ------------------------------------------------------------ *)

\* The request moved money and got its row's id back.
Posted(r) == op[r] \in Op /\ op[r].txn # 0

RowOf(r) == \E k \in 1..Len(txns) : Made(r, txns[k])

Acted == {"audit", "get", "put", "getIndex", "putIndex", "done"}
Logged == Acted \ {"audit"}

Countable(r, s) == Posted(r) /\ op[r].shift = s /\ r \in audit

\* What a worker knows of itself wherever it stands.
WorkerOK(r) ==
    op[r] \in Op =>
        /\ Named(op[r])
        /\ op[r].pc \in {"balance", "money"} => op[r].txn = 0
        /\ op[r].pc = "balance" => op[r].kind = "refund"
        /\ op[r].pc = "money" /\ op[r].kind = "pos_charge" => op[r].amount \in Amounts
        /\ op[r].pc \in Acted => Posted(r)
        /\ op[r].pc \in Logged => r \in audit
        /\ op[r].pc = "put" => \A q \in op[r].seen : Countable(q, op[r].shift)

RowsOK ==
    /\ \A r \in Requests : Posted(r) => op[r].txn < nextTxnId /\ RowOf(r)
    /\ \A q, r \in Requests : Posted(q) /\ Posted(r) /\ op[q].txn = op[r].txn => q = r

SummaryOK == \A s \in Shifts : \A r \in summary[s] : Countable(r, s)

\* A summary, and a copy of one in a worker's hands, only ever holds requests
\* that posted a row and were logged.  A worker that overwrites the work of
\* another therefore loses a request but never invents one.
Desk ==
    /\ DeskTypeOK
    /\ Reversals
    /\ \A r \in Requests : WorkerOK(r)
    /\ RowsOK
    /\ SummaryOK

\* One worker's step: it becomes o.
Same(o, u) ==
    /\ u.txn = o.txn /\ u.amount = o.amount
    /\ u.kind = o.kind /\ u.of = o.of /\ u.shift = o.shift

Becomes(r, o) ==
    /\ op' = [op EXCEPT ![r] = o]
    /\ Posted(r) => o \in Op /\ Same(op[r], o)
    /\ o \in Op =>
        /\ Named(o)
        /\ o.pc \in {"balance", "money"} => o.txn = 0
        /\ o.pc = "balance" => o.kind = "refund"
        /\ o.pc = "money" /\ o.kind = "pos_charge" => o.amount \in Amounts
        /\ o.pc \in Acted => o.txn # 0
        /\ o.pc \in Logged => r \in audit'
        /\ o.pc = "put" => o.seen = summary[o.shift]
        /\ o.txn # 0 /\ ~Posted(r) =>
              o.txn = nextTxnId /\ Grows(Signed(o), o.of)

StoreOK(r) ==
    /\ audit \subseteq audit' /\ audit' \subseteq Requests
    /\ \/ summary' = summary
       \/ /\ op[r] \in Op /\ op[r].pc = "put"
          /\ summary' = [summary EXCEPT ![op[r].shift] = op[r].seen \cup {r}]
    /\ index' \in Seq(Shifts)
    /\ orderly' \in BOOLEAN
    /\ faults' \in 0..MaxFaults

LEMMA CountableStays ==
    ASSUME NEW r \in Requests, NEW q \in Requests, NEW s, NEW o, DeskTypeOK,
           Becomes(r, o), audit \subseteq audit', Countable(q, s)
    PROVE  Countable(q, s)'
<1>1. op \in [Requests -> Op \cup {Idle, Nothing}] /\ op' = [op EXCEPT ![r] = o]
  BY DEF DeskTypeOK, Becomes
<1>2. CASE q = r
  BY <1>1, <1>2 DEF Countable, Posted, Becomes, Same
<1>3. CASE q # r
  BY <1>1, <1>3 DEF Countable, Posted
<1>4. QED
  BY <1>2, <1>3

LEMMA NotAWorker == Idle \notin Op /\ Nothing \notin Op
BY DEF Idle, Nothing, Op, Running, Ended

\* Whoever posted before keeps its row; the mover, if it posts now, gets an id
\* above all others.
LEMMA RowsAfter ==
    ASSUME NEW r \in Requests, NEW o, Desk, Becomes(r, o), TypeOK', RowsStay
    PROVE  RowsOK'
<1>1. op \in [Requests -> Op \cup {Idle, Nothing}] /\ op' = [op EXCEPT ![r] = o]
  BY DEF Desk, DeskTypeOK, Becomes
<1>2. nextTxnId \in Nat /\ nextTxnId' \in Nat /\ nextTxnId' >= nextTxnId
  BY DEF Desk, DeskTypeOK, TypeOK, RowsStay
<1>3. ASSUME NEW q \in Requests, Posted(q)
      PROVE  /\ Posted(q)' /\ Same(op[q], op'[q])
             /\ op'[q].txn < nextTxnId /\ RowOf(q)'
  <2>1. Posted(q)' /\ Same(op[q], op'[q])
    <3>1. CASE q = r
      BY <1>1, <1>3, <3>1 DEF Posted, Becomes, Same
    <3>2. CASE q # r
      BY <1>1, <1>3, <3>2 DEF Posted, Same
    <3>3. QED
      BY <3>1, <3>2
  <2>2. op[q].txn < nextTxnId
    BY <1>3 DEF Desk, RowsOK
  <2>3. PICK k \in 1..Len(txns) : Made(q, txns[k])
    BY <1>3 DEF Desk, RowsOK, RowOf
  <2>4. PICK l \in 1..Len(txns') : /\ txns'[l].id = txns[k].id
                                   /\ txns'[l].amount = txns[k].amount
                                   /\ txns'[l].voids = txns[k].voids
    BY DEF RowsStay
  <2>5. Made(q, txns[l])'
    BY <2>1, <2>3, <2>4 DEF Made, Same, Signed
  <2>6. QED
    BY <2>1, <2>2, <2>5 DEF RowOf, Same
<1>4. ASSUME NEW q \in Requests, Posted(q)', ~Posted(q)
      PROVE  q = r /\ op'[q].txn = nextTxnId /\ nextTxnId' = nextTxnId + 1 /\ RowOf(q)'
  <2>1. q = r
    BY <1>1, <1>4 DEF Posted
  <2>2. op'[q] = o /\ o \in Op /\ o.txn # 0
    BY <1>1, <1>4, <2>1 DEF Posted
  <2>3. o.txn = nextTxnId /\ Grows(Signed(o), o.of)
    BY <1>4, <2>1, <2>2 DEF Becomes
  <2>4. PICK l \in 1..Len(txns') : /\ txns'[l].id = nextTxnId
                                   /\ txns'[l].amount = Signed(o)
                                   /\ txns'[l].voids = o.of
    BY <2>3 DEF Grows
  <2>5. Made(q, txns[l])'
    BY <2>2, <2>3, <2>4 DEF Made
  <2>6. QED
    BY <2>1, <2>2, <2>3, <2>5 DEF Grows, RowOf
<1>5. ASSUME NEW q \in Requests, Posted(q)'
      PROVE  op'[q].txn < nextTxnId' /\ RowOf(q)'
  <2>1. op'[q].txn \in Nat
    BY <1>5 DEF Posted, Op
  <2>2. CASE Posted(q)
    BY <1>2, <1>3, <2>1, <2>2 DEF Same
  <2>3. CASE ~Posted(q)
    BY <1>2, <1>4, <1>5, <2>3
  <2>4. QED
    BY <2>2, <2>3
<1>6. ASSUME NEW p \in Requests, NEW q \in Requests,
             Posted(p)', Posted(q)', op'[p].txn = op'[q].txn
      PROVE  p = q
  <2>1. CASE Posted(p) /\ Posted(q)
    BY <1>3, <1>6, <2>1 DEF Same, Desk, RowsOK
  <2>2. CASE ~Posted(p) /\ ~Posted(q)
    BY <1>4, <1>6, <2>2
  <2>3. CASE Posted(p) /\ ~Posted(q)
    BY <1>2, <1>3, <1>4, <1>6, <2>3 DEF Same
  <2>4. CASE ~Posted(p) /\ Posted(q)
    BY <1>2, <1>3, <1>4, <1>6, <2>4 DEF Same
  <2>5. QED
    BY <2>1, <2>2, <2>3, <2>4
<1>7. QED
  BY <1>5, <1>6 DEF RowsOK

LEMMA SummariesAfter ==
    ASSUME NEW r \in Requests, NEW o, Desk, Becomes(r, o), StoreOK(r)
    PROVE  SummaryOK' /\ summary' \in [Shifts -> SUBSET Requests]
<1>1. summary \in [Shifts -> SUBSET Requests] /\ DeskTypeOK /\ audit \subseteq audit'
  BY DEF Desk, DeskTypeOK, StoreOK
<1>2. \A s \in Shifts : \A q \in summary[s] : Countable(q, s) /\ q \in Requests
  BY <1>1 DEF Desk, SummaryOK
<1>3. CASE summary' = summary
  <2>1. \A s \in Shifts : \A q \in summary[s] : Countable(q, s)'
    BY <1>1, <1>2, CountableStays
  <2>2. QED
    BY <1>1, <1>3, <2>1 DEF SummaryOK
<1>4. CASE /\ op[r] \in Op /\ op[r].pc = "put"
           /\ summary' = [summary EXCEPT ![op[r].shift] = op[r].seen \cup {r}]
  <2>1. op[r].shift \in Shifts /\ op[r].seen \subseteq Requests
    BY <1>4 DEF Op
  <2>2. \A q \in op[r].seen : Countable(q, op[r].shift)
    BY <1>4 DEF Desk, WorkerOK
  <2>3. Countable(r, op[r].shift)
    BY <1>4 DEF Desk, WorkerOK, Countable, Acted, Logged
  <2>4. ASSUME NEW s \in Shifts, NEW q \in summary'[s]
        PROVE  q \in Requests /\ Countable(q, s)
    BY <1>1, <1>2, <1>4, <2>1, <2>2, <2>3
  <2>5. \A s \in Shifts : \A q \in summary'[s] : Countable(q, s)'
    BY <1>1, <2>4, CountableStays
  <2>6. QED
    BY <1>1, <1>4, <2>1, <2>5 DEF SummaryOK
<1>5. QED
  BY <1>3, <1>4 DEF StoreOK

LEMMA WorkersAfter ==
    ASSUME NEW r \in Requests, NEW o, Desk, Becomes(r, o), StoreOK(r)
    PROVE  \A q \in Requests : WorkerOK(q)'
<1>1. op \in [Requests -> Op \cup {Idle, Nothing}] /\ op' = [op EXCEPT ![r] = o] /\ DeskTypeOK
  BY DEF Desk, DeskTypeOK, Becomes
<1>2. summary \in [Shifts -> SUBSET Requests] /\ audit \subseteq audit'
  BY DEF Desk, DeskTypeOK, StoreOK
<1>3. ASSUME NEW q \in Requests, q # r
      PROVE  WorkerOK(q)'
  <2>1. op'[q] = op[q] /\ (Posted(q) => Posted(q)')
    BY <1>1, <1>3 DEF Posted
  <2>2. ASSUME op[q] \in Op, op[q].pc = "put", NEW p \in op[q].seen,
               NEW s, s = op[q].shift
        PROVE  Countable(p, s)'
    <3>1. p \in Requests /\ Countable(p, s)
      BY <2>2 DEF Desk, WorkerOK, Op
    <3>2. QED
      BY <1>1, <1>2, <3>1, CountableStays
  <2>3. WorkerOK(q)
    BY DEF Desk
  <2>4. QED
    BY <1>2, <2>1, <2>2, <2>3 DEF WorkerOK
<1>4. WorkerOK(r)'
  <2>1. op'[r] = o
    BY <1>1
  <2>2. ASSUME o \in Op, o.pc = "put", NEW p \in o.seen
        PROVE  Countable(p, o.shift)'
    <3>1. p \in summary[o.shift] /\ o.shift \in Shifts
      BY <2>2 DEF Becomes, Op
    <3>2. p \in Requests /\ Countable(p, o.shift)
      BY <1>2, <3>1 DEF Desk, SummaryOK
    <3>3. QED
      BY <1>1, <1>2, <3>2, CountableStays
  <2>3. QED
    BY <2>1, <2>2 DEF WorkerOK, Becomes, Posted
<1>5. QED
  BY <1>3, <1>4

LEMMA DeskAfter ==
    ASSUME NEW r \in Requests, NEW o \in Op \cup {Nothing}, Desk, Becomes(r, o), StoreOK(r),
           TypeOK', Reversals', RowsStay
    PROVE  Desk'
<1>1. op' \in [Requests -> Op \cup {Idle, Nothing}]
  BY DEF Desk, DeskTypeOK, Becomes
<1>2. DeskTypeOK'
  BY <1>1, SummariesAfter DEF DeskTypeOK, StoreOK
<1>3. QED
  BY <1>2, RowsAfter, SummariesAfter, WorkersAfter DEF Desk

(* The steps ---------------------------------------------------------------- *)

LEMMA TappedAfter ==
    ASSUME Desk, NEW r \in Requests, NEW k \in Kinds, NEW full \in BOOLEAN, NEW s \in Shifts,
           NEW a \in Nat, NEW t \in 0..MaxTxns, k = "void" <=> t # 0,
           full => k = "refund", k = "pos_charge" => a \in Amounts, Tapped(r, k, full, s, a, t)
    PROVE  Desk'
<1> DEFINE o == [pc |-> IF full THEN "balance" ELSE "money", kind |-> k, full |-> full,
                 shift |-> s, amount |-> a, of |-> t, txn |-> 0, seen |-> {}, list |-> << >>]
<1>1. o \in Op /\ o.txn = 0 /\ o.pc \in {"balance", "money"} /\ Named(o)
  BY DEF Op, Running, Named
<1>2. ~Posted(r)
  BY DEF Tapped, At, Posted, Op, Running, Ended
<1>3. op' = [op EXCEPT ![r] = o]
  BY DEF Tapped
<1>4. /\ o.pc = "balance" => o.kind = "refund"
      /\ o.kind = "pos_charge" => o.amount \in Amounts
  OBVIOUS
<1> HIDE DEF o
<1>5. Becomes(r, o)
  BY <1>1, <1>2, <1>3, <1>4 DEF Becomes, Acted, Logged
<1>6. UNCHANGED <<doVars, kvVars, faults>> /\ orderly' \in BOOLEAN
  BY DEF Tapped, Quiet, Desk, DeskTypeOK
<1>7. StoreOK(r)
  BY <1>6 DEF StoreOK, kvVars, Desk, DeskTypeOK
<1>8. TypeOK' /\ Reversals' /\ RowsStay
  BY <1>6, SameStay DEF doVars, Desk, DeskTypeOK, TypeOK, Reversals, VoidInv, Numbered
<1>9. QED
  BY <1>1, <1>5, <1>7, <1>8, DeskAfter

LEMMA AskAfter ==
    ASSUME Desk, NEW r \in Requests, Ask(r)
    PROVE  Desk'
<1>1. PICK s \in Shifts :
         \/ \E a \in Amounts :
               HandlePosCharge(r, s, a) \/ HandleTopupApply(r, s, a) \/ HandleRefundApply(r, s, a)
         \/ \E t \in 1..MaxTxns : HandleVoidApply(r, s, t)
  BY DEF Ask
<1>2. ASSUME NEW a \in Amounts, a > 0
      PROVE  a \in Nat
  BY <1>2, DOAssumption DEF DOAssumption
<1>3. 0 \in 0..MaxTxns /\ 1..MaxTxns \subseteq 0..MaxTxns
  BY DOAssumption DEF DOAssumption
<1>4. ASSUME NEW a \in Amounts, HandlePosCharge(r, s, a)
      PROVE  Desk'
  BY <1>2, <1>3, <1>4, TappedAfter DEF HandlePosCharge, Kinds
<1>5. ASSUME NEW a \in Amounts, HandleTopupApply(r, s, a)
      PROVE  Desk'
  BY <1>2, <1>3, <1>5, TappedAfter DEF HandleTopupApply, Kinds
<1>6. ASSUME NEW a \in Amounts, HandleRefundApply(r, s, a)
      PROVE  Desk'
  BY <1>2, <1>3, <1>6, TappedAfter DEF HandleRefundApply, Kinds
<1>7. ASSUME NEW t \in 1..MaxTxns, HandleVoidApply(r, s, t)
      PROVE  Desk'
  <2>1. t # 0 /\ t \in 0..MaxTxns /\ 0 \in Nat
    BY <1>3
  <2>2. QED
    BY <1>7, <2>1, TappedAfter DEF HandleVoidApply, Kinds
<1>8. QED
  BY <1>1, <1>4, <1>5, <1>6, <1>7

\* A worker that moves money posts the row it will be counted by.
LEMMA MovedBecomes ==
    ASSUME Desk, NEW r \in Requests, At(r, "money"), Moves(op[r]), NEW o,
           op' = [op EXCEPT ![r] = o], o = [Moved(op[r]) EXCEPT !.pc = "audit"]
    PROVE  o \in Op /\ Becomes(r, o) /\ TypeOK' /\ Reversals' /\ RowsStay
<1>1. op[r] \in Op /\ op[r].txn = 0 /\ Named(op[r]) /\ TypeOK /\ Reversals
  BY DEF Desk, DeskTypeOK, WorkerOK, At, Idle, Nothing
<1>2. /\ TypeOK' /\ Reversals'
      /\ Moved(op[r]).amount \in Nat
      /\ Grows(Signed(Moved(op[r])), op[r].of)
  BY <1>1, MovesGrow
<1>3. nextTxnId \in Nat \ {0}
  BY <1>1 DEF TypeOK
<1>4. /\ o \in Op /\ o.pc = "audit" /\ o.txn = nextTxnId
      /\ o.kind = op[r].kind /\ o.of = op[r].of /\ o.amount = Moved(op[r]).amount
  BY <1>1, <1>2, <1>3 DEF Moved, Op, Running
<1>5. Moved(op[r]).kind = op[r].kind
  BY <1>1 DEF Moved, Op
<1>6. Grows(Signed(o), o.of)
  BY <1>2, <1>4, <1>5 DEF Signed
<1>7. Becomes(r, o)
  BY <1>1, <1>3, <1>4, <1>6 DEF Becomes, Posted, Named, Acted, Logged
<1>8. RowsStay
  BY <1>1, <1>2, GrowsStay
<1>9. QED
  BY <1>2, <1>4, <1>7, <1>8

LEMMA MoneyAfter ==
    ASSUME Desk, NEW r \in Requests, GetBalance(r) \/ MoveMoney(r)
    PROVE  Desk'
<1>1. TypeOK /\ Reversals /\ WorkerOK(r)
  BY DEF Desk, DeskTypeOK
<1>2. op[r] \in Op /\ op[r].pc \in {"balance", "money"} /\ ~Posted(r)
  BY <1>1 DEF GetBalance, MoveMoney, At, Idle, Nothing, Posted, Desk, DeskTypeOK, WorkerOK
<1>3. StoreOK(r)
  BY DEF GetBalance, MoveMoney, StoreOK, kvVars, Desk, DeskTypeOK
<1>4. CASE Refuse(r) /\ UNCHANGED doVars
  <2>1. Becomes(r, Nothing)
    BY <1>2, <1>4, NotAWorker DEF Refuse, Set, Becomes
  <2>2. TypeOK' /\ Reversals' /\ RowsStay
    BY <1>1, <1>4, SameStay DEF doVars, TypeOK, Reversals, VoidInv, Numbered
  <2>3. QED
    BY <1>3, <2>1, <2>2, DeskAfter
<1>5. CASE /\ GetBalance(r) /\ UNCHANGED doVars
           /\ Set(r, [op[r] EXCEPT !.pc = "money", !.amount = card.balance])
  <2> DEFINE o == [op[r] EXCEPT !.pc = "money", !.amount = card.balance]
  <2>1. card.balance \in Nat
    BY <1>1 DEF TypeOK, Card
  <2>2. o \in Op /\ o.pc = "money" /\ o.txn = op[r].txn /\ o.kind = op[r].kind /\ o.of = op[r].of
    BY <1>2, <2>1 DEF Op, Running
  <2>3. op[r].txn = 0 /\ Named(op[r])
    BY <1>1, <1>2 DEF WorkerOK
  <2>4. o.kind # "pos_charge"
    BY <1>1, <1>2, <1>5, <2>2 DEF WorkerOK, GetBalance, At
  <2>5. Becomes(r, o)
    BY <1>2, <1>5, <2>2, <2>3, <2>4 DEF Set, Becomes, Named, Acted, Logged
  <2>6. TypeOK' /\ Reversals' /\ RowsStay
    BY <1>1, <1>5, SameStay DEF doVars, TypeOK, Reversals, VoidInv, Numbered
  <2>7. QED
    BY <1>3, <2>2, <2>5, <2>6, DeskAfter
<1>6. CASE At(r, "money") /\ Moves(op[r]) /\ Set(r, [Moved(op[r]) EXCEPT !.pc = "audit"])
  BY <1>3, <1>6, MovedBecomes, DeskAfter DEF Set
<1>7. QED
  BY <1>4, <1>5, <1>6 DEF GetBalance, MoveMoney, doVars

\* A worker past the money call moves on with what it posted.
LEMMA FurtherBecomes ==
    ASSUME Desk, NEW r \in Requests, Posted(r), NEW o \in Op, Same(op[r], o),
           o.pc \in Acted \cup {"failed"}, op' = [op EXCEPT ![r] = o],
           o.pc \in Logged => r \in audit',
           o.pc = "put" => o.seen = summary[op[r].shift]
    PROVE  Becomes(r, o)
<1>1. WorkerOK(r) /\ op[r] \in Op
  BY DEF Desk, Posted
<1>2. o.pc \notin {"balance", "money"}
  BY DEF Acted
<1>3. Named(o) /\ o.txn # 0
  BY <1>1 DEF WorkerOK, Named, Same, Posted
<1>4. QED
  BY <1>2, <1>3 DEF Becomes, Same

LEMMA StillDO ==
    ASSUME Desk, UNCHANGED doVars
    PROVE  TypeOK' /\ Reversals' /\ RowsStay
BY SameStay DEF Desk, DeskTypeOK, doVars, TypeOK, Reversals, VoidInv, Numbered

LEMMA StoreAfter ==
    ASSUME Desk, NEW r \in Requests,
           \/ RecordAuditEvent(r) \/ GetSummary(r) \/ PutSummary(r)
           \/ GetIndex(r) \/ PutIndex(r)
    PROVE  Desk'
<1>1. WorkerOK(r) /\ op[r] \in Op /\ Posted(r) /\ op[r].pc \in Acted
  BY DEF Desk, DeskTypeOK, WorkerOK, At, Idle, Nothing, Acted,
         RecordAuditEvent, GetSummary, PutSummary, GetIndex, PutIndex
<1>2. op[r].seen \in SUBSET Requests /\ op[r].list \in Seq(Shifts) /\ op[r].shift \in Shifts
  BY <1>1 DEF Op
<1>3. /\ audit \subseteq Requests /\ summary \in [Shifts -> SUBSET Requests]
      /\ index \in Seq(Shifts) /\ orderly \in BOOLEAN /\ faults \in 0..MaxFaults
  BY DEF Desk, DeskTypeOK
<1>4. op[r].pc \in Logged => r \in audit
  BY <1>1 DEF WorkerOK
<1>5. TypeOK' /\ Reversals' /\ RowsStay
  BY StillDO DEF RecordAuditEvent, GetSummary, PutSummary, GetIndex, PutIndex
<1>6. SUFFICES \E o \in Op : Becomes(r, o) /\ StoreOK(r)
  BY <1>5, DeskAfter
<1>7. CASE RecordAuditEvent(r)
  <2> DEFINE o == [op[r] EXCEPT !.pc = "get"]
  <2>1. op' = [op EXCEPT ![r] = o] /\ r \in audit'
    BY <1>7 DEF RecordAuditEvent, Goto, Set, Logs
  <2>2. o \in Op /\ Same(op[r], o) /\ o.pc = "get"
    BY <1>1 DEF Op, Same, Running
  <2>3. Becomes(r, o)
    BY <1>1, <2>1, <2>2, FurtherBecomes DEF Acted
  <2>4. StoreOK(r)
    BY <1>3, <1>7 DEF RecordAuditEvent, Logs, StoreOK
  <2>5. QED
    BY <2>2, <2>3, <2>4
<1>8. CASE GetSummary(r)
  <2> DEFINE seen == summary[op[r].shift]
             o == [op[r] EXCEPT !.pc = "put", !.seen = seen]
  <2>1. op' = [op EXCEPT ![r] = o] /\ audit' = audit /\ r \in audit /\ seen \in SUBSET Requests
    BY <1>2, <1>3, <1>4, <1>8 DEF GetSummary, Set, kvVars, At, Acted, Logged
  <2>2. o \in Op /\ Same(op[r], o) /\ o.pc = "put" /\ o.seen = seen
    BY <1>1, <2>1 DEF Op, Same, Running
  <2>3. Becomes(r, o)
    BY <1>1, <2>1, <2>2, FurtherBecomes DEF Acted
  <2>4. StoreOK(r)
    BY <1>3, <1>8 DEF GetSummary, kvVars, StoreOK
  <2>5. QED
    BY <2>2, <2>3, <2>4
<1>9. CASE PutSummary(r)
  <2>1. audit' = audit /\ r \in audit
    BY <1>4, <1>9 DEF PutSummary, Counts, At, Acted, Logged
  <2>2. StoreOK(r)
    BY <1>1, <1>3, <1>9 DEF PutSummary, Counts, At, StoreOK
  <2>3. CASE Goto(r, "getIndex")
    <3> DEFINE o == [op[r] EXCEPT !.pc = "getIndex"]
    <3>1. op' = [op EXCEPT ![r] = o]
      BY <2>3 DEF Goto, Set
    <3>2. o \in Op /\ Same(op[r], o) /\ o.pc = "getIndex"
      BY <1>1 DEF Op, Same, Running
    <3>3. Becomes(r, o)
      BY <1>1, <2>1, <3>1, <3>2, FurtherBecomes DEF Acted
    <3>4. QED
      BY <2>2, <3>2, <3>3
  <2>4. CASE End(r, "done")
    <3> DEFINE o == [op[r] EXCEPT !.pc = "done", !.seen = {}, !.list = << >>]
    <3>1. op' = [op EXCEPT ![r] = o] /\ {} \in SUBSET Requests /\ << >> \in Seq(Shifts)
      BY <2>4 DEF End, Set
    <3>2. o \in Op /\ Same(op[r], o) /\ o.pc = "done"
      BY <1>1, <3>1 DEF Op, Same, Ended
    <3>3. Becomes(r, o)
      BY <1>1, <2>1, <3>1, <3>2, FurtherBecomes DEF Acted
    <3>4. QED
      BY <2>2, <3>2, <3>3
  <2>5. QED
    BY <1>9, <2>3, <2>4 DEF PutSummary
<1>10. CASE GetIndex(r)
  <2> DEFINE o == [op[r] EXCEPT !.pc = "putIndex", !.list = index]
  <2>1. op' = [op EXCEPT ![r] = o] /\ audit' = audit /\ r \in audit
    BY <1>4, <1>10 DEF GetIndex, Set, kvVars, At, Acted, Logged
  <2>2. o \in Op /\ Same(op[r], o) /\ o.pc = "putIndex"
    BY <1>1, <1>3 DEF Op, Same, Running
  <2>3. Becomes(r, o)
    BY <1>1, <2>1, <2>2, FurtherBecomes DEF Acted
  <2>4. StoreOK(r)
    BY <1>3, <1>10 DEF GetIndex, kvVars, StoreOK
  <2>5. QED
    BY <2>2, <2>3, <2>4
<1>11. CASE PutIndex(r)
  <2> DEFINE o == [op[r] EXCEPT !.pc = "done", !.seen = {}, !.list = << >>]
  <2>1. /\ op' = [op EXCEPT ![r] = o] /\ audit' = audit /\ r \in audit
        /\ {} \in SUBSET Requests /\ << >> \in Seq(Shifts)
    BY <1>4, <1>11 DEF PutIndex, Lists, End, Set, At, Acted, Logged
  <2>2. o \in Op /\ Same(op[r], o) /\ o.pc = "done"
    BY <1>1, <2>1 DEF Op, Same, Ended
  <2>3. Becomes(r, o)
    BY <1>1, <2>1, <2>2, FurtherBecomes DEF Acted
  <2>4. index' \in Seq(Shifts)
    BY <1>2, <1>11 DEF PutIndex, Lists
  <2>5. StoreOK(r)
    BY <1>3, <1>11, <2>4 DEF PutIndex, Lists, StoreOK
  <2>6. QED
    BY <2>2, <2>3, <2>5
<1>12. QED
  BY <1>7, <1>8, <1>9, <1>10, <1>11

\* A failure leaves the worker with the id it had: money that moved unseen
\* belongs to no request and is never counted.
LEMMA FailAfter ==
    ASSUME Desk, NEW r \in Requests, Fail(r)
    PROVE  Desk'
<1> DEFINE o == [op[r] EXCEPT !.pc = "failed", !.seen = {}, !.list = << >>]
<1>1. WorkerOK(r) /\ op[r] \in Op /\ TypeOK /\ Reversals
  BY DEF Desk, DeskTypeOK, Fail, Busy, Running, Idle, Nothing
<1>2. op' = [op EXCEPT ![r] = o] /\ {} \in SUBSET Requests /\ << >> \in Seq(Shifts)
  BY DEF Fail, End, Set
<1>3. o \in Op /\ Same(op[r], o) /\ o.pc = "failed"
  BY <1>1, <1>2 DEF Op, Ended, Same
<1>4. Becomes(r, o)
  BY <1>1, <1>2, <1>3 DEF Becomes, Same, Named, WorkerOK, Posted, Acted, Logged
<1>5. TypeOK' /\ Reversals' /\ RowsStay
  <2>1. CASE UNCHANGED doVars
    BY <2>1, StillDO
  <2>2. CASE Moves(op[r])
    BY <1>1, <2>2, MovesGrow, GrowsStay DEF WorkerOK
  <2>3. QED
    BY <2>1, <2>2 DEF Fail
<1>6. StoreOK(r)
  <2>1. faults < MaxFaults /\ faults' = faults + 1 /\ orderly' = FALSE
    BY DEF Fail
  <2>2. /\ audit' \in {audit, audit \cup {r}}
        /\ \/ summary' = summary
           \/ op[r].pc = "put" /\ summary' = [summary EXCEPT ![op[r].shift] = op[r].seen \cup {r}]
        /\ index' \in {index, Append(op[r].list, op[r].shift)}
    BY DEF Fail, Logs, Counts, Lists, kvVars, At
  <2>3. op[r].list \in Seq(Shifts) /\ op[r].shift \in Shifts
    BY <1>1 DEF Op
  <2>4. /\ audit \subseteq Requests /\ index \in Seq(Shifts) /\ faults \in 0..MaxFaults
    BY DEF Desk, DeskTypeOK
  <2>5. index' \in Seq(Shifts)
    <3>1. Append(op[r].list, op[r].shift) \in Seq(Shifts)
      BY <2>3
    <3>2. CASE index' = index
      BY <2>4, <3>2
    <3>3. QED
      BY <2>2, <3>1, <3>2
  <2>6. faults' \in 0..MaxFaults
    BY <2>1, <2>4, DeskAssumption DEF DeskAssumption
  <2>7. QED
    BY <1>1, <2>1, <2>2, <2>4, <2>5, <2>6 DEF StoreOK
<1>7. QED
  BY <1>3, <1>4, <1>5, <1>6, DeskAfter

\* Whoever else calls the object only adds rows.
LEMMA OthersAfter ==
    ASSUME Desk, Others
    PROVE  Desk'
<1>1. TypeOK' /\ Reversals' /\ RowsStay
  BY OthersStay DEF Desk, DeskTypeOK
<1>2. UNCHANGED <<op, audit, summary, index, orderly, faults>>
  BY DEF Others, kvVars
<1>3. DeskTypeOK'
  BY <1>1, <1>2 DEF Desk, DeskTypeOK
<1>4. (\A r \in Requests : WorkerOK(r)') /\ SummaryOK'
  BY <1>2 DEF Desk, WorkerOK, SummaryOK, Countable, Posted
<1>5. ASSUME NEW r \in Requests, Posted(r)
      PROVE  op[r].txn < nextTxnId' /\ RowOf(r)'
  <2>1. op[r].txn < nextTxnId /\ op[r].txn \in Nat /\ nextTxnId \in Nat /\ nextTxnId' \in Nat
    BY <1>1, <1>5 DEF Desk, RowsOK, Posted, Op, DeskTypeOK, TypeOK
  <2>2. PICK k \in 1..Len(txns) : Made(r, txns[k])
    BY <1>5 DEF Desk, RowsOK, RowOf
  <2>3. PICK l \in 1..Len(txns') : /\ txns'[l].id = txns[k].id
                                   /\ txns'[l].amount = txns[k].amount
                                   /\ txns'[l].voids = txns[k].voids
    BY <1>1 DEF RowsStay
  <2>4. Made(r, txns[l])'
    BY <1>2, <2>2, <2>3 DEF Made, Signed
  <2>5. QED
    BY <1>1, <2>1, <2>4 DEF RowsStay, RowOf
<1>6. RowsOK'
  BY <1>2, <1>5 DEF Desk, RowsOK, Posted
<1>7. QED
  BY <1>1, <1>3, <1>4, <1>6 DEF Desk

LEMMA InitDesk == DeskInit => Desk
<1> SUFFICES ASSUME DeskInit PROVE Desk
  OBVIOUS
<1>1. TypeOK /\ Reversals
  BY InitType, InitReversals DEF DeskInit
<1>2. /\ \A r \in Requests : op[r] = Idle
      /\ op \in [Requests -> Op \cup {Idle, Nothing}]
      /\ \A r \in Requests : ~Posted(r)
  BY NotAWorker DEF DeskInit, Posted
<1>3. DeskTypeOK
  BY <1>1, <1>2, DeskAssumption DEF DeskInit, DeskTypeOK, DeskAssumption
<1>4. \A r \in Requests : WorkerOK(r)
  BY <1>2, NotAWorker DEF WorkerOK
<1>5. RowsOK /\ SummaryOK
  BY <1>2 DEF DeskInit, RowsOK, SummaryOK
<1>6. QED
  BY <1>1, <1>3, <1>4, <1>5 DEF Desk

LEMMA StepDesk == Desk /\ [DeskNext]_deskVars => Desk'
<1> SUFFICES ASSUME Desk, [DeskNext]_deskVars PROVE Desk'
  OBVIOUS
<1>1. CASE UNCHANGED deskVars
  <2>1. TypeOK' /\ Reversals'
    BY <1>1, StillDO DEF deskVars, doVars
  <2>2. DeskTypeOK'
    BY <1>1, <2>1 DEF deskVars, Desk, DeskTypeOK
  <2>3. (\A r \in Requests : WorkerOK(r)') /\ SummaryOK' /\ RowsOK'
    BY <1>1 DEF deskVars, Desk, WorkerOK, SummaryOK, RowsOK, Countable, Posted, RowOf, Made, Signed
  <2>4. QED
    BY <2>1, <2>2, <2>3 DEF Desk
<1>2. CASE DeskNext
  BY <1>2, AskAfter, MoneyAfter, StoreAfter, FailAfter, OthersAfter DEF DeskNext, Work
<1>3. QED
  BY <1>1, <1>2

LEMMA AlwaysDesk == DeskSpec => []Desk
BY InitDesk, StepDesk, PTL DEF DeskSpec

(* Totals ------------------------------------------------------------------- *)

\* What the requests of a set of pairs move; o is the workers' state.
AmountsOf(o, S) == [p \in S |-> o[p[2]].amount]

Finite == \A k \in Kinds : IsFiniteSet(Listed(k))

LEMMA TotalIs ==
    ASSUME NEW k
    PROVE  /\ Total(k) = SumFunctionOnSet(AmountsOf(op, Listed(k)), Listed(k))
           /\ Total(k)' = SumFunctionOnSet(AmountsOf(op', Listed(k)'), Listed(k)')
BY DEF Total, SumFunction, AmountsOf

LEMMA TotalKept ==
    ASSUME NEW k, IsFiniteSet(Listed(k)), Listed(k)' = Listed(k),
           \A p \in Listed(k) : op[p[2]].amount = op'[p[2]].amount
    PROVE  Total(k)' = Total(k)
<1>1. AmountsOf(op', Listed(k)) = AmountsOf(op, Listed(k))
  BY DEF AmountsOf
<1>2. QED
  BY <1>1, TotalIs

LEMMA TotalMore ==
    ASSUME NEW k, NEW x, x \notin Listed(k), IsFiniteSet(Listed(k)),
           Listed(k)' = Listed(k) \cup {x}, op'[x[2]].amount \in Int,
           \A p \in Listed(k) : op[p[2]].amount \in Int /\ op[p[2]].amount = op'[p[2]].amount
    PROVE  Total(k)' = op'[x[2]].amount + Total(k)
<1> DEFINE S == Listed(k)
           f == AmountsOf(op', S \cup {x})
<1>1. IntValued(f, S \cup {x}) /\ f[x] = op'[x[2]].amount
  BY DEF IntValued, AmountsOf
<1>2. \A p \in S : f[p] = AmountsOf(op, S)[p]
  BY DEF AmountsOf
<1>3. SumFunctionOnSet(f, S \cup {x}) = f[x] + SumFunctionOnSet(f, S)
  BY <1>1, SumMore
<1>4. SumFunctionOnSet(f, S) = SumFunctionOnSet(AmountsOf(op, S), S)
  BY <1>2, SumSame
<1>5. QED
  BY <1>1, <1>3, <1>4, TotalIs

LEMMA TotalType ==
    ASSUME NEW k, IsFiniteSet(Listed(k)), \A p \in Listed(k) : op[p[2]].amount \in Int
    PROVE  Total(k) \in Int
<1>1. IntValued(AmountsOf(op, Listed(k)), Listed(k))
  BY DEF IntValued, AmountsOf
<1>2. QED
  BY <1>1, TotalIs, SumTakes

\* What the page would show if it added the refunds.
Ledger == Total("topup") + Total("refund") + Total("void") - Total("pos_charge")

\* Whoever posted keeps what it is counted by.
PostedKeep == \A q \in Requests : Posted(q) => Same(op[q], op'[q])

LEMMA ListedPosted ==
    ASSUME Desk, NEW k, NEW p \in Listed(k)
    PROVE  /\ p = <<p[1], p[2]>> /\ p[1] \in 1..Len(index) /\ p[2] \in Requests
           /\ p[2] \in summary[index[p[1]]]
           /\ Posted(p[2]) /\ op[p[2]].kind = k /\ op[p[2]].amount \in Nat
<1>1. /\ p \in (1..Len(index)) \X Requests
      /\ p[2] \in summary[index[p[1]]] /\ op[p[2]].kind = k
  BY DEF Listed
<1>2. index[p[1]] \in Shifts
  BY <1>1 DEF Desk, DeskTypeOK
<1>3. Countable(p[2], index[p[1]])
  BY <1>1, <1>2 DEF Desk, SummaryOK
<1>4. QED
  BY <1>1, <1>3 DEF Countable, Posted, Op

LEMMA LedgerType ==
    ASSUME Desk, Finite
    PROVE  Ledger \in Int /\ \A k \in Kinds : Total(k) \in Int
<1>1. \A k \in Kinds : Total(k) \in Int
  <2> SUFFICES ASSUME NEW k \in Kinds PROVE Total(k) \in Int
    OBVIOUS
  <2>1. IsFiniteSet(Listed(k)) /\ \A p \in Listed(k) : op[p[2]].amount \in Int
    BY ListedPosted DEF Finite
  <2>2. QED
    BY <2>1, TotalType
<1>2. QED
  BY <1>1 DEF Ledger, Kinds

LEMMA LedgerKept ==
    ASSUME Desk, Finite, PostedKeep, \A k \in Kinds : Listed(k)' = Listed(k)
    PROVE  Ledger' = Ledger /\ Finite'
<1>1. \A k \in Kinds : Total(k)' = Total(k)
  <2> SUFFICES ASSUME NEW k \in Kinds PROVE Total(k)' = Total(k)
    OBVIOUS
  <2>1. \A p \in Listed(k) : op[p[2]].amount = op'[p[2]].amount
    BY ListedPosted DEF PostedKeep, Same
  <2>2. QED
    BY <2>1, TotalKept DEF Finite
<1>2. QED
  BY <1>1 DEF Ledger, Finite, Kinds

LEMMA LedgerMore ==
    ASSUME Desk, Finite, PostedKeep, NEW r \in Requests, Posted(r),
           NEW c \in Kinds, c = op[r].kind, NEW x, x[2] = r, x \notin Listed(c),
           Listed(c)' = Listed(c) \cup {x},
           \A k \in Kinds \ {c} : Listed(k)' = Listed(k)
    PROVE  Ledger' = Ledger + Signed(op[r]) /\ Finite'
<1>1. op[r].amount \in Nat /\ op'[r].amount = op[r].amount
  BY DEF Posted, Op, PostedKeep, Same
<1>2. \A k \in Kinds : \A p \in Listed(k) :
         op[p[2]].amount \in Int /\ op[p[2]].amount = op'[p[2]].amount
  BY ListedPosted DEF PostedKeep, Same
<1>3. Total(c)' = op[r].amount + Total(c)
  BY <1>1, <1>2, TotalMore DEF Finite
<1>4. \A k \in Kinds \ {c} : Total(k)' = Total(k)
  BY <1>2, TotalKept DEF Finite
<1>5. \A k \in Kinds : Total(k) \in Int
  BY LedgerType
<1>6. Ledger' = Ledger + Signed(op[r])
  <2>1. c \in {"topup", "pos_charge", "refund", "void"}
    BY DEF Kinds
  <2>2. QED
    BY <1>1, <1>3, <1>4, <1>5, <2>1 DEF Ledger, Signed, Kinds
<1>7. \A k \in Kinds : IsFiniteSet(Listed(k)')
  BY FS_AddElement DEF Finite
<1>8. QED
  BY <1>6, <1>7 DEF Finite

(* Requests in turn --------------------------------------------------------- *)

\* Where the money has moved and the totals do not show it yet, where the
\* summary counts the request, and where the index may lack its shift.
InHand == {"audit", "get", "put", "getIndex", "putIndex"}
Counted == {"getIndex", "putIndex", "done"}
Listing == {"getIndex", "putIndex"}

Alone(r) == \A q \in Requests : q # r => ~Busy(q)

SummaryIs ==
    \A s \in Shifts : \A q \in Requests :
        q \in summary[s] <=> op[q].pc \in Counted /\ op[q].shift = s

CopiesFresh ==
    \A q \in Requests :
        /\ op[q].pc = "put" => op[q].seen = summary[op[q].shift]
        /\ op[q].pc = "putIndex" => op[q].list = index
        /\ op[q].pc \in Listing => summary[op[q].shift] = {q}

IndexIs ==
    /\ \A i, j \in 1..Len(index) : index[i] = index[j] => i = j
    /\ \A s \in Shifts :
          (\E i \in 1..Len(index) : index[i] = s) <=>
          summary[s] # {} /\ \A q \in Requests : op[q].pc \in Listing => op[q].shift # s

\* Nobody works on a copy another has made stale, so no request is lost and no
\* shift is listed twice.
InTurn ==
    /\ \A q, r \in Requests : Busy(q) /\ Busy(r) => q = r
    /\ \A q \in Requests : op[q].pc # "failed"
    /\ SummaryIs /\ CopiesFresh /\ IndexIs /\ Finite

\* Desk requests alone moved money.
Clean == \A k \in 1..Len(txns) : \E r \in Requests : Posted(r) /\ op[r].txn = txns[k].id

Balanced ==
    /\ \A r \in Requests : op[r].pc \in InHand => card.balance = Ledger + Signed(op[r])
    /\ (\A r \in Requests : op[r].pc \notin InHand) => card.balance = Ledger

Tally ==
    /\ Desk
    /\ orderly => InTurn
    /\ orderly /\ Clean => Balanced

Owed(r) == IF op[r].pc \in InHand THEN Ledger + Signed(op[r]) ELSE Ledger

LEMMA BalancedAlone ==
    ASSUME NEW r \in Requests
    PROVE  /\ Alone(r) => (Balanced <=> card.balance = Owed(r))
           /\ Alone(r)' => (Balanced' <=> card'.balance = Owed(r)')
<1>1. \A q \in Requests : op[q].pc \in InHand => Busy(q)
  BY DEF InHand, Busy, Running
<1>2. \A q \in Requests : op'[q].pc \in InHand => Busy(q)'
  BY DEF InHand, Busy, Running
<1>3. Alone(r) => (Balanced <=> card.balance = Owed(r))
  BY <1>1 DEF Alone, Balanced, Owed
<1>4. Alone(r)' => (Balanced' <=> card'.balance = Owed(r)')
  BY <1>2 DEF Alone, Balanced, Owed
<1>5. QED
  BY <1>3, <1>4

LEMMA AloneStays ==
    ASSUME NEW r \in Requests, NEW o, Desk, op' = [op EXCEPT ![r] = o], Alone(r)
    PROVE  /\ op'[r] = o
           /\ \A q \in Requests : q # r => op'[q] = op[q] /\ op[q].pc \notin InHand
           /\ Alone(r)'
           /\ \A p, q \in Requests : Busy(p)' /\ Busy(q)' => p = q
<1>1. op'[r] = o /\ \A q \in Requests : q # r => op'[q] = op[q]
  BY DEF Desk, DeskTypeOK
<1>2. Alone(r)'
  BY <1>1 DEF Alone, Busy
<1>3. \A q \in Requests : q # r => op[q].pc \notin InHand
  BY DEF Alone, Busy, InHand, Running
<1>4. QED
  BY <1>1, <1>2, <1>3 DEF Alone

LEMMA KindKept ==
    ASSUME Desk, PostedKeep, NEW s \in Shifts, NEW q \in summary[s]
    PROVE  q \in Requests /\ op'[q].kind = op[q].kind
BY DEF Desk, DeskTypeOK, SummaryOK, Countable, PostedKeep, Same

LEMMA ListedKept ==
    ASSUME Desk, PostedKeep, UNCHANGED <<summary, index>>
    PROVE  \A k \in Kinds : Listed(k)' = Listed(k)
<1>1. \A i \in 1..Len(index) : index[i] \in Shifts
  BY DEF Desk, DeskTypeOK
<1>2. \A p \in (1..Len(index)) \X Requests :
         p[2] \in summary[index[p[1]]] => op'[p[2]].kind = op[p[2]].kind
  BY <1>1, KindKept
<1>3. QED
  BY <1>2 DEF Listed

\* The rows one request made stay clean until somebody else adds one.
LEMMA CleanKept ==
    ASSUME UNCHANGED txns,
           \A q \in Requests : Posted(q)' => Posted(q) /\ op'[q].txn = op[q].txn,
           Clean'
    PROVE  Clean
BY DEF Clean

\* A worker's step that leaves the summaries and the index as they are.
LEMMA TurnKept ==
    ASSUME Desk, InTurn, NEW r \in Requests, NEW o, op' = [op EXCEPT ![r] = o], Alone(r),
           PostedKeep, UNCHANGED <<summary, index>>, o.pc # "failed",
           o.pc \in Counted <=> op[r].pc \in Counted,
           o.pc \in Listing <=> op[r].pc \in Listing,
           o.pc \in Counted => o.shift = op[r].shift,
           o.pc = "put" => o.seen = summary[o.shift],
           o.pc = "putIndex" => o.list = index
    PROVE  InTurn' /\ Ledger' = Ledger
<1>1. /\ op'[r] = o
      /\ \A q \in Requests : q # r => op'[q] = op[q]
      /\ \A p, q \in Requests : Busy(p)' /\ Busy(q)' => p = q
  BY AloneStays
<1>2. Ledger' = Ledger /\ Finite'
  BY ListedKept, LedgerKept DEF InTurn
<1>3. Listing \subseteq Counted
  BY DEF Listing, Counted
<1>4. SummaryIs'
  BY <1>1 DEF InTurn, SummaryIs
<1>5. CopiesFresh'
  <2>1. \A q \in Requests : q # r =>
           /\ op'[q].pc = "put" => op'[q].seen = summary'[op'[q].shift]
           /\ op'[q].pc = "putIndex" => op'[q].list = index'
           /\ op'[q].pc \in Listing => summary'[op'[q].shift] = {q}
    BY <1>1 DEF InTurn, CopiesFresh
  <2>2. /\ o.pc = "put" => o.seen = summary'[o.shift]
        /\ o.pc = "putIndex" => o.list = index'
        /\ o.pc \in Listing => summary'[o.shift] = {r}
    BY <1>3 DEF InTurn, CopiesFresh
  <2>3. QED
    BY <1>1, <2>1, <2>2 DEF CopiesFresh
<1>6. IndexIs'
  <2>1. \A s \in Shifts : \A q \in Requests :
           (op'[q].pc \in Listing => op'[q].shift # s) <=> (op[q].pc \in Listing => op[q].shift # s)
    BY <1>1, <1>3
  <2>2. QED
    BY <2>1 DEF InTurn, IndexIs
<1>7. QED
  BY <1>1, <1>2, <1>4, <1>5, <1>6 DEF InTurn

\* Before its money call a worker has nothing in hand.
Early == {"idle", "balance", "money"}

LEMMA EarlyUnposted ==
    ASSUME Desk, NEW r \in Requests, op[r].pc \in Early
    PROVE  ~Posted(r)
<1>1. op[r].pc # "idle" => op[r].pc \in {"balance", "money"}
  BY DEF Early
<1>2. op[r] \in Op => op[r].pc # "idle"
  BY DEF Op, Running, Ended
<1>3. QED
  BY <1>1, <1>2 DEF Desk, WorkerOK, Posted

LEMMA EarlyTally ==
    ASSUME Desk, InTurn, Clean => Balanced, NEW r \in Requests, NEW o,
           op' = [op EXCEPT ![r] = o], Alone(r), UNCHANGED <<doVars, kvVars>>,
           op[r].pc \in Early, o.pc \in {"balance", "money", "refused"},
           o \in Op => o.txn = 0
    PROVE  InTurn' /\ (Clean' => Balanced')
<1>1. /\ op'[r] = o /\ Alone(r)'
      /\ \A q \in Requests : q # r => op'[q] = op[q]
  BY AloneStays
<1>2. ~Posted(r) /\ ~Posted(r)'
  BY <1>1, EarlyUnposted DEF Posted
<1>3. PostedKeep /\ \A q \in Requests : Posted(q)' => Posted(q) /\ op'[q].txn = op[q].txn
  BY <1>1, <1>2 DEF PostedKeep, Posted, Same
<1>4. UNCHANGED <<txns, card, summary, index>>
  BY DEF doVars, kvVars
<1>5. InTurn' /\ Ledger' = Ledger
  BY <1>3, <1>4, TurnKept DEF Early, Counted, Listing
<1>6. Clean' => Clean
  BY <1>3, <1>4, CleanKept
<1>7. Balanced => Balanced'
  BY <1>1, <1>4, <1>5, BalancedAlone DEF Owed, Early, InHand
<1>8. QED
  BY <1>5, <1>6, <1>7

LEMMA AskTally ==
    ASSUME Desk, InTurn, Clean => Balanced, NEW r \in Requests, Ask(r), orderly'
    PROVE  InTurn' /\ (Clean' => Balanced')
<1>1. ASSUME NEW k, NEW full, NEW s, NEW a, NEW t, Tapped(r, k, full, s, a, t)
      PROVE  InTurn' /\ (Clean' => Balanced')
  <2> DEFINE o == [pc |-> IF full THEN "balance" ELSE "money", kind |-> k, full |-> full,
                   shift |-> s, amount |-> a, of |-> t, txn |-> 0, seen |-> {}, list |-> << >>]
  <2>1. op' = [op EXCEPT ![r] = o] /\ UNCHANGED <<doVars, kvVars>> /\ op[r].pc \in Early /\ Quiet
    BY <1>1 DEF Tapped, At, Early
  <2>2. o.pc \in {"balance", "money", "refused"} /\ o.txn = 0
    OBVIOUS
  <2> HIDE DEF o
  <2>3. Alone(r)
    BY <2>1 DEF Quiet, Alone
  <2>4. QED
    BY <2>1, <2>2, <2>3, EarlyTally
<1>2. QED
  BY <1>1 DEF Ask, HandlePosCharge, HandleTopupApply, HandleRefundApply, HandleVoidApply

LEMMA BusyAlone ==
    ASSUME InTurn, NEW r \in Requests, op[r].pc \in Running
    PROVE  Alone(r)
BY DEF InTurn, Alone, Busy

\* Money moves when nothing else is in hand: the row's amount is then all that
\* stands between the card and the totals.
LEMMA MoveTally ==
    ASSUME Desk, InTurn, Clean => Balanced, NEW r \in Requests, GetBalance(r) \/ MoveMoney(r)
    PROVE  InTurn' /\ (Clean' => Balanced')
<1>1. op[r].pc \in {"balance", "money"} /\ op[r] \in Op /\ UNCHANGED kvVars
  BY DEF GetBalance, MoveMoney, At, Desk, DeskTypeOK, Idle, Nothing
<1>2. Alone(r) /\ ~Posted(r) /\ op[r].txn = 0
  BY <1>1, BusyAlone, EarlyUnposted DEF Running, Early, Posted
<1>3. CASE Refuse(r) /\ UNCHANGED doVars
  BY <1>1, <1>2, <1>3, NotAWorker, EarlyTally DEF Refuse, Set, Nothing, Early
<1>4. CASE Set(r, [op[r] EXCEPT !.pc = "money", !.amount = card.balance]) /\ UNCHANGED doVars
  <2> DEFINE o == [op[r] EXCEPT !.pc = "money", !.amount = card.balance]
  <2>1. o.pc = "money" /\ o.txn = 0
    BY <1>1, <1>2 DEF Op
  <2>2. op' = [op EXCEPT ![r] = o]
    BY <1>4 DEF Set
  <2> HIDE DEF o
  <2>3. QED
    BY <1>1, <1>2, <1>4, <2>1, <2>2, EarlyTally DEF Early
<1>5. CASE At(r, "money") /\ Moves(op[r]) /\ Set(r, [Moved(op[r]) EXCEPT !.pc = "audit"])
  <2> DEFINE o == [Moved(op[r]) EXCEPT !.pc = "audit"]
  <2>1. op' = [op EXCEPT ![r] = o] /\ TypeOK /\ Reversals /\ Named(op[r])
    BY <1>1, <1>5 DEF Set, Desk, DeskTypeOK, WorkerOK
  <2>2. RowsStay /\ o \in Op
    BY <1>5, <2>1, MovedBecomes
  <2>3. /\ nextTxnId' = nextTxnId + 1
        /\ card'.balance = card.balance + Signed(Moved(op[r]))
    BY <1>1, <1>5, <2>1, MovesGrow DEF Grows
  <2>4. /\ o.pc = "audit" /\ o.txn = nextTxnId /\ Signed(o) = Signed(Moved(op[r]))
    BY <1>1 DEF Moved, Op, Signed
  <2> HIDE DEF o
  <2>5. /\ op'[r] = o /\ Alone(r)'
        /\ \A q \in Requests : q # r => op'[q] = op[q]
    BY <1>2, <2>1, AloneStays
  <2>6. PostedKeep
    BY <1>2, <2>5 DEF PostedKeep, Same
  <2>7. UNCHANGED <<summary, index>>
    BY <1>1 DEF kvVars
  <2>8. InTurn' /\ Ledger' = Ledger
    BY <1>1, <1>2, <2>1, <2>4, <2>6, <2>7, TurnKept DEF Counted, Listing
  <2>9. Clean' => Clean
    <3> SUFFICES ASSUME Clean', NEW k \in 1..Len(txns)
                 PROVE  \E q \in Requests : Posted(q) /\ op[q].txn = txns[k].id
      BY DEF Clean
    <3>1. PICK l \in 1..Len(txns') : txns'[l].id = txns[k].id
      BY <2>2 DEF RowsStay
    <3>2. PICK q \in Requests : Posted(q)' /\ op'[q].txn = txns'[l].id
      BY DEF Clean
    <3>3. txns[k].id # nextTxnId
      BY <2>1 DEF Reversals, Numbered, TypeOK, Txn
    <3>4. q # r
      BY <2>4, <2>5, <3>1, <3>2, <3>3
    <3>5. QED
      BY <2>5, <3>1, <3>2, <3>4 DEF Posted
  <2>10. Owed(r) = Ledger /\ Owed(r)' = Ledger' + Signed(o)
    BY <1>1, <2>4, <2>5 DEF Owed, InHand, Signed
  <2>11. Balanced => Balanced'
    BY <1>2, <2>3, <2>4, <2>5, <2>8, <2>10, BalancedAlone
  <2>12. QED
    BY <2>8, <2>9, <2>11
<1>6. QED
  BY <1>3, <1>4, <1>5 DEF GetBalance, MoveMoney, doVars

LEMMA InHandFacts ==
    ASSUME Desk, InTurn, NEW r \in Requests, op[r].pc \in InHand
    PROVE  op[r] \in Op /\ Posted(r) /\ Alone(r) /\ op[r].shift \in Shifts
           /\ op[r].kind \in Kinds /\ Owed(r) = Ledger + Signed(op[r])
<1>1. op[r] \in Op
  BY DEF Desk, DeskTypeOK, InHand, Idle, Nothing
<1>2. Posted(r)
  BY <1>1 DEF Desk, WorkerOK, InHand, Acted
<1>3. Alone(r)
  BY BusyAlone DEF InHand, Running
<1>4. QED
  BY <1>1, <1>2, <1>3 DEF Op, Owed

\* A worker past its money call becomes o: what is left to show is the totals.
LEMMA InHandStep ==
    ASSUME Desk, InTurn, Clean => Balanced, NEW r \in Requests, op[r].pc \in InHand,
           NEW o, op' = [op EXCEPT ![r] = o], o \in Op, Same(op[r], o),
           UNCHANGED <<txns, card>>,
           Ledger' = IF o.pc \in InHand THEN Ledger ELSE Ledger + Signed(op[r])
    PROVE  Clean' => Balanced'
<1>1. Posted(r) /\ Alone(r) /\ Owed(r) = Ledger + Signed(op[r])
  BY InHandFacts
<1>2. /\ op'[r] = o /\ Alone(r)'
      /\ \A q \in Requests : q # r => op'[q] = op[q]
  BY <1>1, AloneStays
<1>3. \A q \in Requests : Posted(q)' => Posted(q) /\ op'[q].txn = op[q].txn
  BY <1>1, <1>2 DEF Posted, Same
<1>4. Clean' => Clean
  BY <1>3, CleanKept
<1>5. Signed(o) = Signed(op[r])
  BY DEF Signed, Same
<1>6. Owed(r)' = Ledger + Signed(op[r])
  BY <1>2, <1>5 DEF Owed, Signed
<1>7. Balanced => Balanced'
  BY <1>1, <1>2, <1>6, BalancedAlone
<1>8. QED
  BY <1>4, <1>7

LEMMA InHandKeep ==
    ASSUME Desk, InTurn, NEW r \in Requests, op[r].pc \in InHand,
           NEW o, op' = [op EXCEPT ![r] = o], Same(op[r], o), o \in Op
    PROVE  PostedKeep
<1>1. Alone(r)
  BY InHandFacts
<1>2. op'[r] = o /\ \A q \in Requests : q # r => op'[q] = op[q]
  BY <1>1, AloneStays
<1>3. QED
  BY <1>2 DEF PostedKeep, Same

LEMMA CarryTally ==
    ASSUME Desk, InTurn, Clean => Balanced, NEW r \in Requests,
           RecordAuditEvent(r) \/ GetSummary(r) \/ GetIndex(r)
    PROVE  InTurn' /\ (Clean' => Balanced')
<1>1. op[r].pc \in {"audit", "get", "getIndex"} /\ op[r].pc \in InHand
  BY DEF RecordAuditEvent, GetSummary, GetIndex, At, InHand
<1>2. op[r] \in Op /\ Posted(r) /\ Alone(r) /\ op[r].shift \in Shifts
  BY <1>1, InHandFacts
<1>3. UNCHANGED <<txns, card, summary, index>>
  BY DEF RecordAuditEvent, GetSummary, GetIndex, Logs, doVars, kvVars
<1>4. summary[op[r].shift] \in SUBSET Requests /\ index \in Seq(Shifts)
  BY <1>2 DEF Desk, DeskTypeOK
<1>5. \E o \in Op : /\ op' = [op EXCEPT ![r] = o] /\ Same(op[r], o)
                    /\ o.pc \in {"get", "put", "putIndex"}
                    /\ o.pc = "putIndex" <=> op[r].pc = "getIndex"
                    /\ o.pc = "put" => o.seen = summary[o.shift]
                    /\ o.pc = "putIndex" => o.list = index
  <2>1. CASE RecordAuditEvent(r)
    <3> DEFINE o == [op[r] EXCEPT !.pc = "get"]
    <3>1. op' = [op EXCEPT ![r] = o] /\ op[r].pc = "audit"
      BY <2>1 DEF RecordAuditEvent, Goto, Set, At
    <3>2. o \in Op /\ Same(op[r], o) /\ o.pc = "get"
      BY <1>2 DEF Op, Running, Same
    <3>3. QED
      BY <3>1, <3>2
  <2>2. CASE GetSummary(r)
    <3> DEFINE o == [op[r] EXCEPT !.pc = "put", !.seen = summary[op[r].shift]]
    <3>1. op' = [op EXCEPT ![r] = o] /\ op[r].pc = "get"
      BY <2>2 DEF GetSummary, Set, At
    <3>2. o \in Op /\ Same(op[r], o) /\ o.pc = "put" /\ o.seen = summary[o.shift]
      BY <1>2, <1>4 DEF Op, Running, Same
    <3>3. QED
      BY <3>1, <3>2
  <2>3. CASE GetIndex(r)
    <3> DEFINE o == [op[r] EXCEPT !.pc = "putIndex", !.list = index]
    <3>1. op' = [op EXCEPT ![r] = o] /\ op[r].pc = "getIndex"
      BY <2>3 DEF GetIndex, Set, At
    <3>2. o \in Op /\ Same(op[r], o) /\ o.pc = "putIndex" /\ o.list = index
      BY <1>2, <1>4 DEF Op, Running, Same
    <3>3. QED
      BY <3>1, <3>2
  <2>4. QED
    BY <2>1, <2>2, <2>3
<1>6. PICK o \in Op : /\ op' = [op EXCEPT ![r] = o] /\ Same(op[r], o)
                      /\ o.pc \in {"get", "put", "putIndex"}
                      /\ o.pc = "putIndex" <=> op[r].pc = "getIndex"
                      /\ o.pc = "put" => o.seen = summary[o.shift]
                      /\ o.pc = "putIndex" => o.list = index
  BY <1>5
<1>7. PostedKeep
  BY <1>1, <1>6, InHandKeep
<1>8. InTurn' /\ Ledger' = Ledger
  BY <1>1, <1>2, <1>3, <1>6, <1>7, TurnKept DEF Counted, Listing, Same
<1>9. Clean' => Balanced'
  BY <1>1, <1>3, <1>6, <1>8, InHandStep DEF InHand
<1>10. QED
  BY <1>8, <1>9

\* A shift's first request makes its summary; the index does not list it yet.
LEMMA FirstTally ==
    ASSUME Desk, InTurn, Clean => Balanced, NEW r \in Requests, PutSummary(r), op[r].seen = {}
    PROVE  InTurn' /\ (Clean' => Balanced')
<1> DEFINE o == [op[r] EXCEPT !.pc = "getIndex"]
           z == op[r].shift
<1>1. op[r].pc = "put" /\ op[r].pc \in InHand
  BY DEF PutSummary, At, InHand
<1>2. op[r] \in Op /\ Posted(r) /\ Alone(r) /\ z \in Shifts
  BY <1>1, InHandFacts
<1>3. op' = [op EXCEPT ![r] = o] /\ UNCHANGED <<txns, card, index>>
  BY DEF PutSummary, Goto, Set, Counts, doVars
<1>4. o \in Op /\ Same(op[r], o) /\ o.pc = "getIndex"
  BY <1>2 DEF Op, Running, Same
<1>5. summary[z] = {} /\ summary' = [summary EXCEPT ![z] = {r}]
  BY <1>1 DEF InTurn, CopiesFresh, PutSummary, Counts
<1>6. summary'[z] = {r} /\ \A s \in Shifts : s # z => summary'[s] = summary[s]
  BY <1>2, <1>5 DEF Desk, DeskTypeOK
<1> HIDE DEF o, z
<1>7. /\ op'[r] = o /\ o.shift = z
      /\ \A q \in Requests : q # r => op'[q] = op[q] /\ op[q].pc \notin InHand
      /\ \A p, q \in Requests : Busy(p)' /\ Busy(q)' => p = q
  BY <1>2, <1>3, <1>4, AloneStays DEF z, Same
<1>8. PostedKeep
  BY <1>1, <1>3, <1>4, InHandKeep
<1>9. SummaryIs'
  BY <1>1, <1>2, <1>4, <1>5, <1>6, <1>7 DEF InTurn, SummaryIs, Counted
<1>10. CopiesFresh'
  BY <1>4, <1>6, <1>7 DEF CopiesFresh, InHand, Listing
<1>11. \A i \in 1..Len(index) : index[i] # z
  BY <1>2, <1>5 DEF InTurn, IndexIs
<1>12. IndexIs'
  <2>1. \A q \in Requests : op[q].pc \notin Listing
    BY <1>1, <1>7 DEF InHand, Listing
  <2>2. \A q \in Requests : op'[q].pc \in Listing <=> q = r
    BY <1>4, <1>7, <2>1 DEF Listing
  <2>3. \A s \in Shifts : (\E i \in 1..Len(index) : index[i] = s) <=>
           summary'[s] # {} /\ \A q \in Requests : op'[q].pc \in Listing => op'[q].shift # s
    BY <1>6, <1>7, <1>11, <2>1, <2>2 DEF InTurn, IndexIs
  <2>4. QED
    BY <1>3, <2>3 DEF InTurn, IndexIs
<1>13. \A k \in Kinds : Listed(k)' = Listed(k)
  <2>1. \A i \in 1..Len(index) : index[i] \in Shifts /\ summary'[index[i]] = summary[index[i]]
    BY <1>6, <1>11 DEF Desk, DeskTypeOK
  <2>2. \A p \in (1..Len(index)) \X Requests :
           p[2] \in summary[index[p[1]]] => op'[p[2]].kind = op[p[2]].kind
    BY <1>8, <2>1, KindKept
  <2>3. QED
    BY <1>3, <2>1, <2>2 DEF Listed
<1>14. Ledger' = Ledger /\ Finite'
  BY <1>8, <1>13, LedgerKept DEF InTurn
<1>15. Clean' => Balanced'
  BY <1>1, <1>3, <1>4, <1>14, InHandStep DEF InHand
<1>16. InTurn'
  BY <1>4, <1>7, <1>9, <1>10, <1>12, <1>14 DEF InTurn
<1>17. QED
  BY <1>15, <1>16

\* A shift that is listed shows one request more.
LEMMA NextTally ==
    ASSUME Desk, InTurn, Clean => Balanced, NEW r \in Requests, PutSummary(r), op[r].seen # {}
    PROVE  InTurn' /\ (Clean' => Balanced')
<1> DEFINE o == [op[r] EXCEPT !.pc = "done", !.seen = {}, !.list = << >>]
           z == op[r].shift
<1>1. op[r].pc = "put" /\ op[r].pc \in InHand
  BY DEF PutSummary, At, InHand
<1>2. op[r] \in Op /\ Posted(r) /\ Alone(r) /\ z \in Shifts /\ op[r].kind \in Kinds
  BY <1>1, InHandFacts
<1>3. /\ op' = [op EXCEPT ![r] = o] /\ UNCHANGED <<txns, card, index>>
      /\ {} \in SUBSET Requests /\ << >> \in Seq(Shifts)
  BY DEF PutSummary, End, Set, Counts, doVars
<1>4. o \in Op /\ Same(op[r], o) /\ o.pc = "done"
  BY <1>2, <1>3 DEF Op, Ended, Same
<1>5. summary[z] # {} /\ summary' = [summary EXCEPT ![z] = summary[z] \cup {r}]
  BY <1>1 DEF InTurn, CopiesFresh, PutSummary, Counts
<1>6. summary'[z] = summary[z] \cup {r} /\ \A s \in Shifts : s # z => summary'[s] = summary[s]
  BY <1>2, <1>5 DEF Desk, DeskTypeOK
<1> HIDE DEF o, z
<1>7. /\ op'[r] = o /\ o.shift = z /\ op[r].shift = z
      /\ \A q \in Requests : q # r => op'[q] = op[q] /\ op[q].pc \notin InHand
      /\ \A p, q \in Requests : Busy(p)' /\ Busy(q)' => p = q
  BY <1>2, <1>3, <1>4, AloneStays DEF z, Same
<1>8. PostedKeep
  BY <1>1, <1>3, <1>4, InHandKeep
<1>9. SummaryIs'
  BY <1>1, <1>2, <1>4, <1>6, <1>7 DEF InTurn, SummaryIs, Counted
<1>10. /\ \A q \in Requests : op[q].pc \notin Listing
       /\ \A q \in Requests : op'[q].pc \notin Listing \cup {"put"}
  BY <1>1, <1>4, <1>7 DEF InHand, Listing
<1>11. CopiesFresh'
  BY <1>10 DEF CopiesFresh, Listing
<1>12. IndexIs'
  <2>1. \A s \in Shifts : summary'[s] # {} <=> summary[s] # {}
    BY <1>5, <1>6
  <2>2. QED
    BY <1>3, <1>10, <2>1 DEF InTurn, IndexIs
<1>13. PICK i \in 1..Len(index) : index[i] = z
  BY <1>2, <1>5, <1>10 DEF InTurn, IndexIs
<1>14. \A j \in 1..Len(index) : index[j] \in Shifts /\ (index[j] = z => j = i)
  BY <1>13 DEF InTurn, IndexIs, Desk, DeskTypeOK
<1>15. PICK c \in Kinds : c = op[r].kind
  BY <1>2
<1> DEFINE x == <<i, r>>
<1>16. r \notin summary[z]
  BY <1>1, <1>2 DEF InTurn, SummaryIs, Counted
<1>17. x \in (1..Len(index)) \X Requests /\ x[1] = i /\ x[2] = r
  BY <1>13
<1>18. x \notin Listed(c)
  BY <1>13, <1>16, <1>17 DEF Listed
<1>19. \A p \in (1..Len(index)) \X Requests :
          p[2] \in summary'[index[p[1]]] <=> p[2] \in summary[index[p[1]]] \/ p = x
  <2> SUFFICES ASSUME NEW j \in 1..Len(index), NEW q \in Requests
               PROVE  q \in summary'[index[j]] <=> q \in summary[index[j]] \/ <<j, q>> = <<i, r>>
    OBVIOUS
  <2>1. CASE j = i
    BY <1>6, <1>13, <2>1
  <2>2. CASE j # i
    BY <1>6, <1>14, <2>2
  <2>3. QED
    BY <2>1, <2>2
<1>20. \A p \in (1..Len(index)) \X Requests :
          p[2] \in summary[index[p[1]]] => op'[p[2]].kind = op[p[2]].kind
  BY <1>8, <1>14, KindKept
<1>21. op'[r].kind = c
  BY <1>4, <1>7, <1>15 DEF Same
<1> HIDE DEF x
<1>22. Listed(c)' = Listed(c) \cup {x} /\ \A k \in Kinds \ {c} : Listed(k)' = Listed(k)
  BY <1>3, <1>17, <1>19, <1>20, <1>21 DEF Listed
<1>23. Ledger' = Ledger + Signed(op[r]) /\ Finite'
  BY <1>2, <1>8, <1>15, <1>17, <1>18, <1>22, LedgerMore DEF InTurn
<1>24. Clean' => Balanced'
  BY <1>1, <1>3, <1>4, <1>23, InHandStep DEF InHand
<1>25. InTurn'
  BY <1>4, <1>7, <1>9, <1>11, <1>12, <1>23 DEF InTurn
<1>26. QED
  BY <1>24, <1>25

\* The shift's first request shows when its shift is listed.
LEMMA IndexTally ==
    ASSUME Desk, InTurn, Clean => Balanced, NEW r \in Requests, PutIndex(r)
    PROVE  InTurn' /\ (Clean' => Balanced')
<1> DEFINE o == [op[r] EXCEPT !.pc = "done", !.seen = {}, !.list = << >>]
           z == op[r].shift
           n == Len(index) + 1
<1>1. op[r].pc = "putIndex" /\ op[r].pc \in InHand
  BY DEF PutIndex, At, InHand
<1>2. op[r] \in Op /\ Posted(r) /\ Alone(r) /\ z \in Shifts /\ op[r].kind \in Kinds
  BY <1>1, InHandFacts
<1>3. /\ op' = [op EXCEPT ![r] = o] /\ UNCHANGED <<txns, card, summary>>
      /\ {} \in SUBSET Requests /\ << >> \in Seq(Shifts)
  BY DEF PutIndex, End, Set, Lists, doVars
<1>4. o \in Op /\ Same(op[r], o) /\ o.pc = "done"
  BY <1>2, <1>3 DEF Op, Ended, Same
<1>5. index \in Seq(Shifts) /\ index' = Append(index, z)
  BY <1>1 DEF InTurn, CopiesFresh, PutIndex, Lists, Desk, DeskTypeOK
<1>6. /\ n \in Nat /\ Len(index') = n /\ index'[n] = z
      /\ \A i \in 1..Len(index) : index'[i] = index[i] /\ index[i] \in Shifts
  BY <1>2, <1>5
<1>7. /\ summary[z] = {r}
      /\ \A i \in 1..Len(index) : index[i] # z
  BY <1>1, <1>2 DEF InTurn, CopiesFresh, IndexIs, Listing
<1>8. 1..Len(index') = (1..Len(index)) \cup {n} /\ n \notin 1..Len(index)
  BY <1>5, <1>6
<1> HIDE DEF o, z, n
<1>9. /\ op'[r] = o /\ o.shift = z /\ op[r].shift = z
      /\ \A q \in Requests : q # r => op'[q] = op[q] /\ op[q].pc \notin InHand
      /\ \A p, q \in Requests : Busy(p)' /\ Busy(q)' => p = q
  BY <1>2, <1>3, <1>4, AloneStays DEF z, Same
<1>10. PostedKeep
  BY <1>1, <1>3, <1>4, InHandKeep
<1>11. SummaryIs'
  BY <1>1, <1>3, <1>4, <1>9 DEF InTurn, SummaryIs, Counted
<1>12. \A q \in Requests : op'[q].pc \notin Listing \cup {"put"}
  BY <1>4, <1>9 DEF InHand, Listing
<1>13. CopiesFresh'
  BY <1>12 DEF CopiesFresh, Listing
<1>14. IndexIs'
  <2>1. \A i, j \in 1..Len(index') : index'[i] = index'[j] => i = j
    BY <1>6, <1>7, <1>8 DEF InTurn, IndexIs
  <2>2. ASSUME NEW s \in Shifts
        PROVE  (\E i \in 1..Len(index') : index'[i] = s) <=> summary'[s] # {}
    <3>1. CASE s = z
      BY <1>3, <1>6, <1>7, <1>8, <3>1
    <3>2. CASE s # z
      <4>1. (\E i \in 1..Len(index') : index'[i] = s) <=> \E i \in 1..Len(index) : index[i] = s
        BY <1>6, <1>8, <3>2
      <4>2. \A q \in Requests : op[q].pc \in Listing => op[q].shift # s
        BY <1>9, <3>2 DEF InHand, Listing
      <4>3. QED
        BY <1>3, <4>1, <4>2 DEF InTurn, IndexIs
    <3>3. QED
      BY <3>1, <3>2
  <2>3. QED
    BY <1>12, <2>1, <2>2 DEF IndexIs
<1>15. PICK c \in Kinds : c = op[r].kind
  BY <1>2
<1> DEFINE x == <<n, r>>
<1>16. x[1] = n /\ x[2] = r
  OBVIOUS
<1>17. x \notin Listed(c)
  BY <1>8, <1>16 DEF Listed
<1>18. op'[r].kind = c
  BY <1>4, <1>9, <1>15 DEF Same
<1>19. \A p \in (1..Len(index)) \X Requests :
          p[2] \in summary[index[p[1]]] => op'[p[2]].kind = op[p[2]].kind
  BY <1>6, <1>10, KindKept
<1>20. ASSUME NEW k \in Kinds, NEW p
       PROVE  p \in Listed(k)' <=> p \in Listed(k) \/ (p = x /\ k = c)
  <2>1. p \in Listed(k)' <=>
           /\ p \in (1..Len(index')) \X Requests
           /\ p[2] \in summary[index'[p[1]]] /\ op'[p[2]].kind = k
    BY <1>3 DEF Listed
  <2>2. CASE p \in (1..Len(index)) \X Requests
    <3>1. p # x
      BY <1>8, <1>16, <2>2
    <3>2. p \in (1..Len(index')) \X Requests /\ index'[p[1]] = index[p[1]]
      BY <1>6, <1>8, <2>2
    <3>3. QED
      BY <1>19, <2>1, <2>2, <3>1, <3>2 DEF Listed
  <2>3. CASE p \notin (1..Len(index)) \X Requests
    <3>1. p \notin Listed(k)
      BY <2>3 DEF Listed
    <3>2. p \in Listed(k)' => p = x /\ k = c
      <4> SUFFICES ASSUME p \in Listed(k)' PROVE p = x /\ k = c
        OBVIOUS
      <4>1. PICK i \in 1..Len(index'), q \in Requests : p = <<i, q>>
        BY <2>1
      <4>2. i = n
        BY <1>8, <2>3, <4>1
      <4>3. q \in summary[z] /\ op'[q].kind = k
        BY <1>6, <2>1, <4>1, <4>2
      <4>4. QED
        BY <1>7, <1>18, <4>1, <4>2, <4>3
    <3>3. p = x /\ k = c => p \in Listed(k)'
      <4>1. x \in (1..Len(index')) \X Requests
        BY <1>8
      <4>2. x[2] \in summary[index'[x[1]]] /\ op'[x[2]].kind = c
        BY <1>6, <1>7, <1>16, <1>18
      <4> HIDE DEF x
      <4>3. QED
        BY <2>1, <4>1, <4>2
    <3>4. QED
      BY <3>1, <3>2, <3>3
  <2>4. QED
    BY <2>2, <2>3
<1> HIDE DEF x
<1>21. Listed(c)' = Listed(c) \cup {x} /\ \A k \in Kinds \ {c} : Listed(k)' = Listed(k)
  <2>1. \A p : p \in Listed(c)' <=> p \in Listed(c) \cup {x}
    BY <1>20
  <2>2. \A k \in Kinds \ {c} : \A p : p \in Listed(k)' <=> p \in Listed(k)
    BY <1>20
  <2>3. QED
    BY <2>1, <2>2
<1>22. Ledger' = Ledger + Signed(op[r]) /\ Finite'
  BY <1>2, <1>10, <1>15, <1>16, <1>17, <1>21, LedgerMore DEF InTurn
<1>23. Clean' => Balanced'
  BY <1>1, <1>3, <1>4, <1>22, InHandStep DEF InHand
<1>24. InTurn'
  BY <1>4, <1>9, <1>11, <1>13, <1>14, <1>22 DEF InTurn
<1>25. QED
  BY <1>23, <1>24

\* Money somebody else moves makes a row that is no request's.
LEMMA OthersTally ==
    ASSUME Desk, InTurn, Clean => Balanced, Others
    PROVE  InTurn' /\ (Clean' => Balanced')
<1>1. UNCHANGED <<op, summary, index>>
  BY DEF Others, kvVars
<1>2. \A k \in Kinds : Listed(k)' = Listed(k)
  BY <1>1 DEF Listed
<1>3. PostedKeep
  BY <1>1 DEF PostedKeep, Same
<1>4. Ledger' = Ledger /\ Finite'
  BY <1>2, <1>3, LedgerKept DEF InTurn
<1>5. InTurn'
  BY <1>1, <1>4 DEF InTurn, Busy, SummaryIs, CopiesFresh, IndexIs
<1>6. CASE Moneyless
  <2>1. card.balance = card'.balance /\ UNCHANGED txns
    BY <1>6, MoneylessStep DEF Desk, DeskTypeOK
  <2>2. Clean' => Clean
    BY <1>1, <2>1, CleanKept DEF Posted
  <2>3. Balanced => Balanced'
    BY <1>1, <1>4, <2>1 DEF Balanced, Signed
  <2>4. QED
    BY <1>5, <2>2, <2>3
<1>7. CASE \E a \in Amounts :
              HandleCredit(a) \/ \E n \in Counters \cup {NoCounter} : HandleDebit(n, a)
  <2>1. TypeOK /\ Reversals
    BY DEF Desk, DeskTypeOK
  <2>2. \E a, v \in Int : Grows(a, v)
    <3>1. \A a \in Amounts : a \in Int /\ -a \in Int /\ 0 \in Int
      BY DOAssumption DEF DOAssumption
    <3>2. ASSUME NEW a \in Amounts, HandleCredit(a)
          PROVE  Grows(a, 0)
      BY <2>1, <3>1, <3>2, CreditGrows
    <3>3. ASSUME NEW a \in Amounts, NEW n \in Counters \cup {NoCounter}, HandleDebit(n, a)
          PROVE  Grows(-a, 0)
      BY <2>1, <3>1, <3>3, DebitGrows
    <3>4. QED
      BY <1>7, <3>1, <3>2, <3>3
  <2>3. PICK l \in 1..Len(txns') : txns'[l].id = nextTxnId
    BY <2>2 DEF Grows
  <2>4. \A q \in Requests : Posted(q)' => op'[q].txn < nextTxnId
    BY <1>1 DEF Desk, RowsOK, Posted
  <2>5. nextTxnId \in Nat
    BY <2>1 DEF TypeOK
  <2>6. ~Clean'
    BY <2>3, <2>4, <2>5 DEF Clean
  <2>7. QED
    BY <1>5, <2>6
<1>8. QED
  BY <1>6, <1>7 DEF Others, Moneyless

LEMMA InitTally == DeskInit => Tally
<1> SUFFICES ASSUME DeskInit PROVE Tally
  OBVIOUS
<1>1. Desk
  BY InitDesk
<1>2. \A r \in Requests : op[r] = Idle /\ op[r].pc = "idle"
  BY DEF DeskInit, Idle
<1>3. /\ \A s \in Shifts : summary[s] = {}
      /\ index = << >> /\ card.balance = 0
  BY DEF DeskInit, DOInit, NewCard
<1>4. \A k : Listed(k) = {}
  BY <1>3 DEF Listed
<1>5. \A k : Total(k) = 0
  BY <1>4, TotalIs, SumEmpty
<1>6. Finite
  BY <1>4, FS_EmptySet DEF Finite
<1>7. Balanced
  BY <1>2, <1>3, <1>5 DEF Balanced, Ledger, InHand
<1>8. \A q, r \in Requests : Busy(q) /\ Busy(r) => q = r
  BY <1>2 DEF Busy, Running
<1>9. SummaryIs /\ CopiesFresh
  BY <1>2, <1>3 DEF SummaryIs, CopiesFresh, Counted, Listing
<1>10. IndexIs
  BY <1>3 DEF IndexIs
<1>11. InTurn
  BY <1>2, <1>6, <1>8, <1>9, <1>10 DEF InTurn
<1>12. QED
  BY <1>1, <1>7, <1>11 DEF Tally

LEMMA StepTally == Tally /\ [DeskNext]_deskVars => Tally'
<1> SUFFICES ASSUME Tally, [DeskNext]_deskVars PROVE Tally'
  OBVIOUS
<1>1. Desk /\ Desk'
  BY StepDesk DEF Tally
<1>2. SUFFICES ASSUME orderly' PROVE InTurn' /\ (Clean' => Balanced')
  BY <1>1 DEF Tally
<1>3. CASE UNCHANGED deskVars
  <2>1. \A k : Listed(k)' = Listed(k)
    BY <1>3 DEF deskVars, Listed
  <2>2. \A k : Total(k)' = Total(k)
    BY <1>3, <2>1, TotalIs DEF deskVars
  <2>3. Ledger' = Ledger
    BY <2>2 DEF Ledger
  <2>4. QED
    BY <1>2, <1>3, <2>1, <2>3 DEF deskVars, Tally, InTurn, Busy, SummaryIs, CopiesFresh, IndexIs,
           Finite, Clean, Posted, Balanced, Signed
<1>4. CASE DeskNext
  <2>1. orderly
    BY <1>2, <1>4 DEF DeskNext, Ask, HandlePosCharge, HandleTopupApply, HandleRefundApply,
           HandleVoidApply, Tapped, Work, GetBalance, MoveMoney, RecordAuditEvent, GetSummary,
           PutSummary, GetIndex, PutIndex, Fail, Others
  <2>2. InTurn /\ (Clean => Balanced)
    BY <2>1 DEF Tally
  <2>3. ASSUME NEW r \in Requests, Work(r)
        PROVE  InTurn' /\ (Clean' => Balanced')
    BY <1>1, <1>2, <2>2, <2>3, MoveTally, CarryTally, FirstTally, NextTally, IndexTally
       DEF Work, Fail
  <2>4. QED
    BY <1>1, <1>2, <1>4, <2>2, <2>3, AskTally, OthersTally DEF DeskNext
<1>5. QED
  BY <1>3, <1>4

LEMMA AlwaysTally == DeskSpec => []Tally
BY InitTally, StepTally, PTL DEF DeskSpec

(* What follows ------------------------------------------------------------- *)

\* The variables keep their types: above all, however requests overlap, no
\* charge, void or failure makes the balance negative.
THEOREM DeskTypeCorrect == DeskSpec => []DeskTypeOK
<1>1. Desk => DeskTypeOK
  BY DEF Desk
<1>2. QED
  BY <1>1, AlwaysDesk, PTL

\* What a shift counts was done, logged and posted, once and under its own
\* operator, for any number of requests and shifts and however they interleave
\* and fail.
THEOREM CountedCorrect == DeskSpec => []CountedIsDone
<1>1. ASSUME Desk
      PROVE  CountedIsDone
  <2>1. summary \in [Shifts -> SUBSET Requests]
    BY <1>1 DEF Desk, DeskTypeOK
  <2>2. \A s \in Shifts : \A r \in summary[s] : r \in Requests /\ Countable(r, s)
    BY <1>1, <2>1 DEF Desk, SummaryOK
  <2>3. \A r \in UNION {summary[s] : s \in Shifts} : r \in Requests /\ Posted(r)
    BY <2>2 DEF Countable
  <2>4. ASSUME NEW s \in Shifts, NEW r \in summary[s]
        PROVE  op[r].shift = s /\ r \in audit /\ \E k \in 1..Len(txns) : Made(r, txns[k])
    BY <1>1, <2>2 DEF Countable, Desk, RowsOK, RowOf
  <2>5. ASSUME NEW s \in Shifts, NEW r \in summary[s],
               NEW q \in UNION {summary[z] : z \in Shifts}, op[q].txn = op[r].txn
        PROVE  q = r
    BY <1>1, <2>2, <2>3, <2>5 DEF Countable, Desk, RowsOK
  <2>6. QED
    BY <2>4, <2>5 DEF CountedIsDone
<1>2. QED
  BY <1>1, AlwaysDesk, PTL

\* Two counted voids of one charge would be two reversals of it in the history,
\* which the object's own invariant excludes.
THEOREM VoidsCounted == DeskSpec => []VoidsCountedOnce
<1>1. ASSUME Desk
      PROVE  VoidsCountedOnce
  <2>1. summary \in [Shifts -> SUBSET Requests]
    BY <1>1 DEF Desk, DeskTypeOK
  <2>2. \A r \in UNION {summary[s] : s \in Shifts} : r \in Requests /\ Posted(r)
    BY <1>1, <2>1 DEF Desk, SummaryOK, Countable
  <2>3. ASSUME NEW r \in UNION {summary[s] : s \in Shifts},
               NEW q \in UNION {summary[s] : s \in Shifts},
               op[r].kind = "void", op[q].kind = "void", op[r].of = op[q].of
        PROVE  r = q
    <3>1. r \in Requests /\ q \in Requests /\ Posted(r) /\ Posted(q)
      BY <2>2
    <3>2. PICK k \in 1..Len(txns) : Made(r, txns[k])
      BY <1>1, <3>1 DEF Desk, RowsOK, RowOf
    <3>3. PICK l \in 1..Len(txns) : Made(q, txns[l])
      BY <1>1, <3>1 DEF Desk, RowsOK, RowOf
    <3>4. op[r].of # 0
      BY <1>1, <2>3, <3>1 DEF Desk, WorkerOK, Posted, Named
    <3>5. k = l
      BY <1>1, <2>3, <3>2, <3>3, <3>4 DEF Made, Desk, Reversals, VoidInv, VoidsOK
    <3>6. op[r].txn = op[q].txn
      BY <3>2, <3>3, <3>5 DEF Made
    <3>7. QED
      BY <1>1, <3>1, <3>6 DEF Desk, RowsOK
  <2>4. QED
    BY <2>3 DEF VoidsCountedOnce
<1>2. QED
  BY <1>1, AlwaysDesk, PTL

\* Requests that come one by one add up, however many requests, desks and
\* shifts there are: each shift is listed once, its summary misses nobody, and
\* what the page adds up is the card's balance less twice the refunds.
THEOREM OutstandingCorrect == DeskSpec => []OutstandingFits
<1>1. ASSUME Tally
      PROVE  OutstandingFits
  <2> SUFFICES ASSUME orderly, Quiet,
                      \A k \in 1..Len(txns) : \E r \in Requests :
                         op[r].pc = "done" /\ op[r].txn = txns[k].id
               PROVE  OutstandingBalance = card.balance - 2 * Total("refund")
    BY DEF OutstandingFits
  <2>1. Desk /\ InTurn
    BY <1>1 DEF Tally
  <2>2. \A r \in Requests : op[r].pc = "done" => Posted(r)
    BY <2>1 DEF Desk, DeskTypeOK, WorkerOK, Acted, Idle, Nothing
  <2>3. Balanced
    BY <1>1, <2>2 DEF Tally, Clean
  <2>4. card.balance = Ledger
    BY <2>3 DEF Balanced, Quiet, Busy, InHand, Running
  <2>5. \A k \in Kinds : Total(k) \in Int
    BY <2>1, LedgerType DEF InTurn
  <2>6. QED
    BY <2>4, <2>5 DEF Ledger, OutstandingBalance, Kinds
<1>2. QED
  BY <1>1, AlwaysTally, PTL

\* A full refund sends the balance it read, whatever the operator may type.
LEMMA WorkCalls ==
    ASSUME 1..MaxBalance \subseteq Amounts
    PROVE  \A r \in Requests : Desk /\ (Ask(r) \/ Work(r)) => BalanceNext \/ UNCHANGED doVars
<1> SUFFICES ASSUME Desk, NEW r \in Requests, Ask(r) \/ Work(r)
             PROVE  BalanceNext \/ UNCHANGED doVars
  OBVIOUS
<1>1. CASE Ask(r)
  BY <1>1 DEF Ask, HandlePosCharge, HandleTopupApply, HandleRefundApply, HandleVoidApply, Tapped
<1>2. CASE Work(r)
  <2>1. UNCHANGED doVars \/ (op[r] \in Op /\ op[r].pc = "money" /\ Moves(op[r]))
    BY <1>2 DEF Work, GetBalance, MoveMoney, RecordAuditEvent, GetSummary, PutSummary, GetIndex,
           PutIndex, Fail, At, Desk, DeskTypeOK, Idle, Nothing
  <2>2. ASSUME op[r] \in Op, op[r].pc = "money", Moves(op[r])
        PROVE  BalanceNext
    <3>1. op[r].amount \in Nat /\ op[r].of \in 0..MaxTxns /\ Named(op[r])
          /\ (op[r].kind = "pos_charge" => op[r].amount \in Amounts)
      BY <2>2 DEF Op, Desk, WorkerOK
    <3>2. CASE HandleCredit(op[r].amount)
      <4>1. card.balance \in Nat
        BY DEF Desk, DeskTypeOK, TypeOK, Card
      <4>2. op[r].amount \in 1..MaxBalance
        BY <3>1, <3>2, <4>1, DOAssumption DEF HandleCredit, DOAssumption
      <4>3. QED
        BY <3>2, <4>2 DEF BalanceNext
    <3>3. CASE /\ op[r].kind = "pos_charge"
               /\ \E n \in Counters \cup {NoCounter} : HandleDebit(n, op[r].amount)
      BY <3>1, <3>3 DEF BalanceNext
    <3>4. CASE op[r].kind = "void" /\ HandleVoid(op[r].of)
      <4>1. op[r].of \in 1..MaxTxns
        BY <3>1, <3>4, DOAssumption DEF Named, DOAssumption
      <4>2. QED
        BY <3>4, <4>1 DEF BalanceNext
    <3>5. QED
      BY <2>2, <3>2, <3>3, <3>4 DEF Moves
  <2>3. QED
    BY <2>1, <2>2
<1>3. QED
  BY <1>1, <1>2

\* Of all that the desk does only a charge takes money.
LEMMA WorkTakes ==
    \A r \in Requests :
        Desk /\ (Ask(r) \/ Work(r)) /\ card'.balance < card.balance =>
            /\ At(r, "money") /\ op'[r].pc \in {"audit", "failed"}
            /\ op[r].kind = "pos_charge" /\ card'.balance = card.balance - op[r].amount
<1> SUFFICES ASSUME Desk, NEW r \in Requests, Ask(r) \/ Work(r), card'.balance < card.balance
             PROVE  /\ At(r, "money") /\ op'[r].pc \in {"audit", "failed"}
                    /\ op[r].kind = "pos_charge" /\ card'.balance = card.balance - op[r].amount
  OBVIOUS
<1>1. TypeOK /\ Reversals /\ WorkerOK(r) /\ card.balance \in Int
  BY DEF Desk, DeskTypeOK, TypeOK, Card
<1>2. card' # card
  BY <1>1
<1>3. /\ At(r, "money") /\ Moves(op[r])
      /\ \/ op' = [op EXCEPT ![r] = [Moved(op[r]) EXCEPT !.pc = "audit"]]
         \/ op' = [op EXCEPT ![r] = [op[r] EXCEPT !.pc = "failed", !.seen = {}, !.list = << >>]]
  BY <1>2 DEF Ask, HandlePosCharge, HandleTopupApply, HandleRefundApply, HandleVoidApply, Tapped,
              Work, GetBalance, MoveMoney, RecordAuditEvent, GetSummary, PutSummary, GetIndex,
              PutIndex, Fail, End, Set, doVars
<1>4. op[r] \in Op /\ op \in [Requests -> Op \cup {Idle, Nothing}]
  BY <1>3 DEF Desk, DeskTypeOK, At, Idle, Nothing
<1>5. Moved(op[r]).amount \in Nat /\ card'.balance = card.balance + Signed(Moved(op[r]))
  BY <1>1, <1>3, <1>4, MovesGrow DEF WorkerOK
<1>6. Moved(op[r]).kind = op[r].kind /\ (op[r].kind # "void" => Moved(op[r]).amount = op[r].amount)
  BY <1>4 DEF Moved, Op
<1>7. op[r].kind = "pos_charge"
  BY <1>1, <1>5, <1>6 DEF Signed
<1>8. card'.balance = card.balance + (-op[r].amount) /\ op[r].amount \in Nat
  BY <1>5, <1>6, <1>7 DEF Signed
<1>9. op'[r].pc \in {"audit", "failed"}
  BY <1>3, <1>4 DEF Moved, Op
<1>10. QED
  BY <1>1, <1>3, <1>7, <1>8, <1>9

LEMMA DeskCalls ==
    ASSUME 1..MaxBalance \subseteq Amounts, Desk, [DeskNext]_deskVars
    PROVE  [DONext]_doVars
<1>1. CASE UNCHANGED deskVars
  BY <1>1 DEF deskVars, doVars
<1>2. CASE Others
  BY <1>2 DEF Others, DONext, BalanceNext, RewindNext
<1>3. QED
  BY <1>1, <1>2, WorkCalls DEF DeskNext, DONext

\* Seen from the card's object, a till that may send every amount up to the
\* ceiling is one of its callers: all that is proved of the object (its ledger,
\* its voids, its history, the abstract account) holds behind the desk.
THEOREM DeskImplementsDO == (1..MaxBalance \subseteq Amounts) /\ DeskSpec => DOSpec
<1> SUFFICES ASSUME 1..MaxBalance \subseteq Amounts PROVE DeskSpec => DOSpec
  OBVIOUS
<1>1. DeskInit => DOInit
  BY DEF DeskInit
<1>2. Desk /\ [DeskNext]_deskVars => [DONext]_doVars
  BY DeskCalls
<1>3. QED
  BY <1>1, <1>2, AlwaysDesk, PTL DEF DeskSpec, DOSpec

=============================================================================
