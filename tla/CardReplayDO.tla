---------------------------- MODULE CardReplayDO ----------------------------
(***************************************************************************)
(* The Durable Object that owns one card: five SQLite tables and one       *)
(* handler per HTTP endpoint.  A handler parses its body and then runs its *)
(* SQL with no further await, and the object is single-threaded, so every  *)
(* handler is one atomic step.  A refusal (4xx) changes no table and is    *)
(* left out of DONext; modules that need it say so with a predicate.       *)
(*                                                                         *)
(* Left out: the time columns (they order displays only, voided_at is the  *)
(* flag "voided"), key provenance, amount_msat, user agents and the free   *)
(* part of the configuration.  No state variable stands for a read-only    *)
(* endpoint.  The state "legacy", from which handleDiscover would also     *)
(* proceed, is left out because no handler ever writes it to a row (only   *)
(* the facade answers it where no object is bound), and so is the invoice  *)
(* that /update-tap-status can carry, because no caller sends one.         *)
(***************************************************************************)
EXTENDS Integers, Sequences

CONSTANTS
    Amounts,        \* the amounts callers send to /debit and /credit
    MaxBalance,     \* MAX_BALANCE
    Counters,       \* the tap counters callers present
    Invoices,       \* the bolt11 invoices callers present
    NoInvoice,      \* SQL NULL in taps.bolt11
    Statuses,       \* the statuses callers send to /update-tap-status
    Keys,           \* the K2 values callers store
    NoKey,          \* SQL NULL in card_config.K2
    Methods,        \* the payment methods callers configure
    DefaultMethod,  \* "fakewallet"
    Exports,        \* backup files an operator may hold at the start
    MaxVersion,     \* bound on key versions
    MaxTxns         \* bound on transaction ids

VARIABLES
    card,       \* card_state, a missing row read as its defaults
    config,     \* card_config, likewise
    last,       \* replay_state.last_counter
    taps,       \* taps, keyed by counter
    txns,       \* transactions, in id order
    nextTxnId,  \* the AUTOINCREMENT sequence of transactions
    file        \* the latest export the operator downloaded

doVars == <<card, config, last, taps, txns, nextTxnId, file>>

NoCounter == -1     \* no row in replay_state, or a NULL counter
NoVersion == 0      \* NULL active_version: every reader treats 0 alike

CardStates == {"new", "pending", "discovered", "keys_delivered", "active",
               "wipe_requested", "terminated"}
TapStatuses == {"read", "pending", "paying", "completed", "failed", "expired"}

Card == [exists : BOOLEAN, state : CardStates, latest : 0..MaxVersion,
         active : 0..MaxVersion, balance : Nat]
Config == [exists : BOOLEAN, k2 : Keys \cup {NoKey},
           method : Methods \cup {DefaultMethod}]
Tap == [bolt11 : Invoices \cup {NoInvoice}, status : TapStatuses]
TapTable == UNION {[S -> Tap] : S \in SUBSET Counters}
Txn == [id : Nat \ {0}, counter : Counters \cup {NoCounter}, amount : Int,
        after : Nat, voided : BOOLEAN, voids : Nat]
Export == [card : Card, config : Config, last : Counters \cup {NoCounter},
           taps : TapTable, txns : Seq(Txn)]

NewCard == [exists |-> FALSE, state |-> "new", latest |-> 0,
            active |-> NoVersion, balance |-> 0]
NoConfig == [exists |-> FALSE, k2 |-> NoKey, method |-> DefaultMethod]
NoTaps == [n \in {} |-> [bolt11 |-> NoInvoice, status |-> "read"]]
EmptyExport == [card |-> NewCard, config |-> NoConfig, last |-> NoCounter,
                taps |-> NoTaps, txns |-> << >>]

-----------------------------------------------------------------------------
(* What makes a set of tables well formed.  The invariants state it of the *)
(* live tables, DOAssumption of the files an operator may bring.           *)

Closing(rows) == IF rows = << >> THEN 0 ELSE rows[Len(rows)].after

Before(rows, k) == IF k = 1 THEN 0 ELSE rows[k - 1].after

LedgerOK(c, rows) ==
    /\ c.balance = Closing(rows)
    /\ ~c.exists => rows = << >>
    /\ \A k \in 1..Len(rows) : rows[k].after = Before(rows, k) + rows[k].amount

VoidsOK(rows) ==
    /\ \A j, k \in 1..Len(rows) : j < k => rows[j].id < rows[k].id
    /\ \A k \in 1..Len(rows) : rows[k].voids # 0 =>
          \E j \in 1..(k - 1) : /\ rows[j].id = rows[k].voids
                                /\ rows[j].voided
                                /\ rows[j].amount < 0
                                /\ rows[k].amount = -rows[j].amount
    /\ \A j \in 1..Len(rows) : rows[j].voided =>
          \E k \in (j + 1)..Len(rows) : rows[k].voids = rows[j].id
    /\ \A j, k \in 1..Len(rows) :
          (rows[j].voids # 0 /\ rows[j].voids = rows[k].voids) => j = k

CardOK(c) ==
    /\ c.state \in {"active", "discovered"} => c.active # NoVersion
    /\ c.state = "keys_delivered" => c.latest # 0 /\ c.active = NoVersion
    /\ c.state \in {"new", "pending"} => c.latest = 0 /\ c.active = NoVersion
    /\ ~c.exists => c = NewCard

ASSUME DOAssumption ==
    /\ Amounts \subseteq Int
    /\ MaxBalance \in Nat
    /\ Counters \subseteq Nat
    /\ NoInvoice \notin Invoices
    /\ Statuses \subseteq TapStatuses
    /\ NoKey \notin Keys
    /\ MaxVersion \in Nat
    /\ MaxTxns \in Nat
    /\ Exports \subseteq Export
    /\ \A e \in Exports : LedgerOK(e.card, e.txns) /\ VoidsOK(e.txns) /\ CardOK(e.card)

-----------------------------------------------------------------------------
(* Taps and the replay counter (tapHandlers.ts).                           *)

Put(table, n, row) ==
    [m \in DOMAIN table \cup {n} |-> IF m = n THEN row ELSE table[m]]

CounterFresh(n) == last < n

\* handleCheck with readOnly = FALSE, the accepting branch.
HandleCheck(n) ==
    /\ CounterFresh(n)
    /\ last' = n
    /\ UNCHANGED <<card, config, taps, txns, nextTxnId, file>>

\* The accepting branch: INSERT OR REPLACE, so an older row is overwritten.
HandleRecordTap(n, inv) ==
    /\ CounterFresh(n)
    /\ last' = n
    /\ taps' = Put(taps, n, [bolt11 |-> inv, status |-> "pending"])
    /\ UNCHANGED <<card, config, txns, nextTxnId, file>>

\* Mutant: INSERT OR REPLACE, so a late read wipes the claim.
RecordReadReplacing(n) ==
    /\ taps' = Put(taps, n, [bolt11 |-> NoInvoice, status |-> "read"])
    /\ UNCHANGED <<card, config, last, txns, nextTxnId, file>>

\* INSERT OR IGNORE.
HandleRecordRead(n) ==
    /\ n \notin DOMAIN taps
    /\ taps' = Put(taps, n, [bolt11 |-> NoInvoice, status |-> "read"])
    /\ UNCHANGED <<card, config, last, txns, nextTxnId, file>>

HandleUpdateTapStatus(n, s) ==
    /\ n \in DOMAIN taps
    /\ taps' = [taps EXCEPT ![n].status = s]
    /\ UNCHANGED <<card, config, last, txns, nextTxnId, file>>

Claimed(n) == n \in DOMAIN taps /\ taps[n].bolt11 # NoInvoice

\* Mutant: claims without looking at bolt11.
ClaimTapAgain(n, inv) ==
    /\ taps' = Put(taps, n, [bolt11 |-> inv, status |-> "pending"])
    /\ UNCHANGED <<card, config, last, txns, nextTxnId, file>>

\* No row: insert one.  A row without an invoice: take it.
HandleClaimTap(n, inv) ==
    /\ ~Claimed(n)
    /\ taps' = Put(taps, n, [bolt11 |-> inv, status |-> "pending"])
    /\ UNCHANGED <<card, config, last, txns, nextTxnId, file>>

-----------------------------------------------------------------------------
(* Balance and transactions (balanceHandlers.ts).                          *)

\* Mutant: the row carries the balance read before the update.
PostStaleBalance(rows, n, a, v) ==
    /\ nextTxnId <= MaxTxns
    /\ card' = [card EXCEPT !.exists = TRUE, !.balance = @ + a]
    /\ txns' = Append(rows, [id |-> nextTxnId, counter |-> n, amount |-> a,
                             after |-> card.balance, voided |-> FALSE, voids |-> v])
    /\ nextTxnId' = nextTxnId + 1
    /\ UNCHANGED <<config, last, taps, file>>

\* Every balance handler ensures the row, moves the balance and inserts one
\* row that carries the new balance.
Post(rows, n, a, v) ==
    /\ nextTxnId <= MaxTxns
    /\ card' = [card EXCEPT !.exists = TRUE, !.balance = @ + a]
    /\ txns' = Append(rows, [id |-> nextTxnId, counter |-> n, amount |-> a,
                             after |-> card.balance + a, voided |-> FALSE,
                             voids |-> v])
    /\ nextTxnId' = nextTxnId + 1
    /\ UNCHANGED <<config, last, taps, file>>

\* Mutant: no check of the funds.
DebitUnchecked(n, a) == a > 0 /\ Post(txns, n, -a, 0)

HandleDebit(n, a) ==
    /\ a > 0
    /\ card.balance >= a
    /\ Post(txns, n, -a, 0)

\* Mutant: no ceiling.
CreditUnbounded(a) == a > 0 /\ Post(txns, NoCounter, a, 0)

HandleCredit(a) ==
    /\ a > 0
    /\ card.balance + a <= MaxBalance
    /\ Post(txns, NoCounter, a, 0)

\* Mutant: a charge already voided is found again.
VoidableAgain(t) == {k \in 1..Len(txns) : txns[k].id = t /\ txns[k].amount < 0}

Voidable(t) == {k \in 1..Len(txns) : /\ txns[k].id = t
                                     /\ ~txns[k].voided
                                     /\ txns[k].amount < 0}

\* Marks the charge, gives its amount back whatever the ceiling, and records
\* the reversal (note "void:<id>").
HandleVoid(t) ==
    \E k \in Voidable(t) :
        Post([txns EXCEPT ![k].voided = TRUE], NoCounter, -txns[k].amount, t)

\* Also the tail of handleTerminate.
EraseTaps == taps' = NoTaps /\ last' = NoCounter

HandleReset ==
    /\ EraseTaps
    /\ UNCHANGED <<card, config, txns, nextTxnId, file>>

-----------------------------------------------------------------------------
(* The card's lifecycle row (cardStateHandlers.ts): upserts that look at   *)
(* the row's existence, and only discover at its state.                    *)

SetCard(c) == /\ card' = c
              /\ UNCHANGED <<config, last, taps, txns, nextTxnId, file>>

\* Mutant: the upsert leaves the old active version in place.
DeliverKeysKeepingActive ==
    /\ card.latest < MaxVersion
    /\ SetCard([card EXCEPT !.exists = TRUE, !.state = "keys_delivered", !.latest = @ + 1])

\* Mutant: keys that were delivered and not used yet are delivered again.
DeliverKeysAgain ==
    SetCard([card EXCEPT !.exists = TRUE, !.state = "keys_delivered",
                         !.latest = IF card.state = "keys_delivered" THEN @ ELSE @ + 1,
                         !.active = NoVersion])

HandleDeliverKeys ==
    /\ card.latest < MaxVersion
    /\ SetCard([card EXCEPT !.exists = TRUE, !.state = "keys_delivered",
                            !.latest = @ + 1, !.active = NoVersion])

\* Mutant: the upsert overwrites latest_issued_version on an existing row.
ActivateOverwriting(v) ==
    SetCard([card EXCEPT !.exists = TRUE, !.state = "active", !.active = v, !.latest = v])

HandleActivate(v) ==
    SetCard([card EXCEPT !.exists = TRUE, !.state = "active",
                         !.latest = IF card.exists THEN @ ELSE v, !.active = v])

HandleRequestWipe ==
    /\ card.exists
    /\ SetCard([card EXCEPT !.state = "wipe_requested"])

\* Mutant: terminating also clears the transactions.
TerminateClearing ==
    /\ card' = [card EXCEPT !.exists = TRUE, !.state = "terminated", !.balance = 0]
    /\ txns' = << >>
    /\ EraseTaps
    /\ UNCHANGED <<config, nextTxnId, file>>

HandleTerminate ==
    /\ card' = [card EXCEPT !.exists = TRUE, !.state = "terminated"]
    /\ EraseTaps
    /\ UNCHANGED <<config, txns, nextTxnId, file>>

HandleMarkPending ==
    /\ ~card.exists
    /\ SetCard([card EXCEPT !.exists = TRUE, !.state = "pending"])

\* Mutant: no row records the version as issued.
DiscoverUnissued(v) ==
    /\ ~card.exists \/ card.state \in {"new", "pending"}
    /\ SetCard([card EXCEPT !.exists = TRUE, !.state = "discovered", !.active = v])

\* Only a row inserted here records the version as issued.
HandleDiscover(v) ==
    /\ ~card.exists \/ card.state \in {"new", "pending"}
    /\ SetCard([card EXCEPT !.exists = TRUE, !.state = "discovered",
                            !.latest = IF card.exists THEN @ ELSE v, !.active = v])

-----------------------------------------------------------------------------
(* Configuration and backups (configHandlers.ts, stateExportHandlers.ts).  *)

HandleSetConfig(k, m) ==
    /\ config' = [exists |-> TRUE, k2 |-> k, method |-> m]
    /\ UNCHANGED <<card, last, taps, txns, nextTxnId, file>>

\* Keeps the method of an existing row; a new row gets the default.
HandleSetK2(k) ==
    /\ config' = [config EXCEPT !.exists = TRUE, !.k2 = k]
    /\ UNCHANGED <<card, last, taps, txns, nextTxnId, file>>

HandleExportState ==
    /\ file' = [card |-> card, config |-> config, last |-> last, taps |-> taps,
                txns |-> txns]
    /\ UNCHANGED <<card, config, last, taps, txns, nextTxnId>>

\* Empties the five tables and inserts the file's rows.  The AUTOINCREMENT
\* sequence survives the DELETE and only an inserted higher id raises it.
HandleImportState ==
    /\ card' = file.card
    /\ config' = file.config
    /\ last' = file.last
    /\ taps' = file.taps
    /\ txns' = file.txns
    /\ nextTxnId' = IF /\ file.txns # << >>
                       /\ file.txns[Len(file.txns)].id >= nextTxnId
                    THEN file.txns[Len(file.txns)].id + 1
                    ELSE nextTxnId
    /\ UNCHANGED file

-----------------------------------------------------------------------------

DOInit ==
    /\ card = NewCard
    /\ config = NoConfig
    /\ last = NoCounter
    /\ taps = NoTaps
    /\ txns = << >>
    /\ nextTxnId = 1
    /\ file \in {EmptyExport} \cup Exports

\* Presentations of a card: every flow makes them.
PresentNext == \E n \in Counters : HandleCheck(n) \/ HandleRecordRead(n)

\* What only the LNURL callbacks call.
ClaimNext ==
    \E n \in Counters :
        \/ \E inv \in Invoices \cup {NoInvoice} :
              HandleRecordTap(n, inv) \/ HandleClaimTap(n, inv)
        \/ \E s \in Statuses : HandleUpdateTapStatus(n, s)

BalanceNext ==
    \/ \E a \in Amounts :
          HandleCredit(a) \/ \E n \in Counters \cup {NoCounter} : HandleDebit(n, a)
    \/ \E t \in 1..MaxTxns : HandleVoid(t)

StateNext ==
    \/ HandleDeliverKeys
    \/ \E v \in 1..MaxVersion : HandleActivate(v) \/ HandleDiscover(v)
    \/ HandleRequestWipe
    \/ HandleMarkPending

ConfigNext ==
    \/ \E k \in Keys \cup {NoKey} :
          HandleSetK2(k) \/ \E m \in Methods \cup {DefaultMethod} : HandleSetConfig(k, m)
    \/ HandleExportState

\* The handlers that take the taps and the replay counter back.
RewindNext == HandleReset \/ HandleTerminate \/ HandleImportState

DONext == PresentNext \/ ClaimNext \/ BalanceNext \/ StateNext \/ ConfigNext \/ RewindNext

DOSpec == DOInit /\ [][DONext]_doVars

-----------------------------------------------------------------------------
(* Properties of the object under every sequence of calls.                 *)

TypeOK ==
    /\ card \in Card
    /\ config \in Config
    /\ last \in Counters \cup {NoCounter}
    /\ taps \in TapTable
    /\ txns \in Seq(Txn)
    /\ nextTxnId \in Nat \ {0}
    /\ file \in Export

\* The balance column is the closing balance of the transactions table and
\* every row carries its predecessor's balance plus its own amount: whatever
\* the order of debits, credits, voids, terminations and restores, the two
\* tables (written by separate statements) never drift apart.
LedgerInv == LedgerOK(card, txns)

\* A charge is reversed at most once, by one later row of exactly its amount,
\* and a row marked voided has that reversal: a retried or doubled /void
\* cannot refund twice.
VoidInv == VoidsOK(txns)

\* A usable card knows the key version it was activated or discovered with;
\* delivered keys are waiting for a tap with no version active; a card never
\* provisioned has none.  resolveActiveVersion and detectCardVersion read the
\* two version columns on this assumption.
CardInv == CardOK(card)

\* The transaction history only grows: no step rewrites or drops a row, except
\* to mark it voided, unless it restores the operator's file.
HistoryKept ==
    [][ \/ txns' = file.txns
        \/ \A k \in 1..Len(txns) :
              /\ k <= Len(txns')
              /\ txns'[k] = [txns[k] EXCEPT !.voided = txns'[k].voided]
              /\ txns[k].voided => txns'[k].voided ]_txns

\* "Version only ever advances" (tests/property/cardLifecycle.property.test.ts:12),
\* unless the operator's file is restored.
VersionsAdvance ==
    [][ card' = file.card \/ card'.latest >= card.latest ]_card

-----------------------------------------------------------------------------

ChargeOf(row) == [id |-> row.id, amount |-> -row.amount, stands |-> ~row.voided]

\* The account behind the two tables: funds are the balance column, and the
\* charges are the debit rows, standing until voided.
ChargesOf(rows) == {ChargeOf(rows[k]) : k \in {j \in 1..Len(rows) : rows[j].amount < 0}}

Account == INSTANCE CardAccount WITH
    Limit <- MaxBalance,
    Ids <- 1..MaxTxns,
    funds <- card.balance,
    charges <- ChargesOf(txns),
    backup <- [funds |-> file.card.balance, charges |-> ChargesOf(file.txns)]

\* The object implements the abstract account: in terms of money every handler
\* is a deposit, a charge, a reversal, a backup, a restore, or nothing at all.
AccountSpec == Account!Spec

=============================================================================
