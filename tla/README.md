# Bolt Card worker: a TLA+ verification project

The program is a Cloudflare Worker (TypeScript) that serves NFC payment cards ("Bolt Cards").
Each HTTP request runs in an isolate of its own; what must survive a request lives in one
Durable Object per card (five SQLite tables), and, for listings, statistics and rate limits, in a
key-value store (KV). This directory holds TLA+ models of that program, the TLC configurations
that check them, and theorems about them with proofs that TLAPS checks.

`PROJECT.json` lists components, runs, mutants, source map, findings, hazards and theorems in
machine-readable form. Paths in this file are relative to the repository.

## 1. The system

### 1.1 Components, their state and their operations

| Component | State | Operations that change it | Source |
| --- | --- | --- | --- |
| Card object | `card_state`, `card_config`, `replay_state`, `taps`, `transactions`, the AUTOINCREMENT sequence | `/check`, `/record-tap`, `/record-read`, `/update-tap-status`, `/claim-tap`, `/debit`, `/credit`, `/void`, `/reset`, `/deliver-keys`, `/activate`, `/request-wipe`, `/terminate`, `/mark-pending`, `/discover`, `/set-config`, `/set-k2`, `/import-state` | `durableObjects/CardReplayDO.ts`, `durableObjects/cardReplay/*.ts` |
| Facade of the object | none | wraps the calls; "required" calls throw on failure, "optional" ones log and go on | `replayProtection.ts`, `card/*.ts` |
| LNURL-withdraw step 1 | none of its own | detects the key version, activates or discovers the card, checks the CMAC, records the read | `handlers/lnurlwHandler.ts`, `utils/versionDetection.ts`, `utils/cmacScan.ts` |
| LNURL-withdraw callback | none of its own | claims the tap, pays from the wallet or through a Lightning node, marks the tap | `handlers/lnurlHandler.ts` |
| LNURL-pay callback | none of its own | records the tap, fetches an invoice for the payer, marks the tap | `handlers/lnurlPayHandler.ts` |
| Programming, wipe, lock, reactivation, batch | none of its own | sequences of lifecycle and configuration calls | `handlers/fetchBoltCardKeys.ts`, `resetHandler.ts`, `cardDashboardHandler.ts`, `loginActions.ts`, `activateCardHandler.ts`, `cardBatchHandler.ts` |
| Till and desk | none of its own | charge, top-up, refund, void | `handlers/posChargeHandler.ts`, `topupHandler.ts`, `refundHandler.ts`, `voidHandler.ts`, `utils/validateCardTap.ts`, `utils/cardHandler.ts` |
| Audit log, shift totals, reconciliation | KV entries | append, read-modify-write | `utils/auditLog.ts`, `utils/shiftSummary.ts`, `handlers/reconciliationHandler.ts` |
| Card index | KV entries with metadata | index after each lifecycle call, repair | `utils/cardIndex.ts` |
| Rate limiter | KV counters, one per address or card and window | count, refuse | `rateLimiter.ts`, `index.ts`, `handlers/clientErrorHandler.ts` |
| Operator login, session, CSRF token | signed cookies in the browser; nothing on the server | log in, log out, renew the token | `middleware/operatorAuth.ts`, `middleware/withOperatorAuth.ts`, `handlers/operatorLoginHandler.ts`, `static/js/csrf.js` |
| Charge page of the till | the page's state, its NFC reader, its timer | enter an amount, scan, charge, cancel, show the outcome | `static/js/pos.js`, `static/js/nfc.js` |
| Top-up page of the desk | the page's state, its NFC scanner, its USB reader | key an amount, scan, read a card, show the outcome | `static/js/topup.js`, `static/js/nfc.js` |
| Backups | a file the operator downloads | export, import | `handlers/cardBackupHandler.ts`, `card/export.ts` |
| Card cryptography, key derivation | none | pure functions | `cryptoutils.ts`, `boltCardHelper.ts`, `keygenerator.ts` |
| Credentials, identity, relays, invoices, other pages | none on the server | | `utils/vc.ts`, `handlers/identityHandler.ts`, `templates/`, ... |

### 1.2 How they interact

* A worker talks to a card's object by HTTP-like calls (`card/doFacade.ts`). The object is
  single-threaded and its handlers run their SQL without an await, so **one call is one atomic
  step**; **between two calls of one worker anything may happen**.
* Several object calls make up one handler, without a transaction around them. Some are fired and
  forgotten (`waitUntil`), some are "best effort" (a failure is logged and the handler goes on).
* The card itself carries a counter that it increments at every tap and a key per version. The
  object remembers the highest counter seen and what became of each tap.
* A withdraw callback may hand an invoice to a Lightning node (CLN REST) and wait for it.
* The operator's pages call the same endpoints, without any coordination with payments under way.
  Each of their requests passes the rate limiter, the session and the CSRF check first.
* After a lifecycle call of the object, the same worker writes the card's index entry, one await
  later; a repair reads entries and objects and writes entries in turn.
* A pay callback asks the server of a Lightning Address for its terms and for an invoice, with a
  timer on the beginning of each answer.

### 1.3 What is hard

* interleaving of two callbacks for the same tap between `recordTap` and `claimTap`, and of a
  fire-and-forget `recordRead` behind both;
* lifecycle calls (terminate, reset, restore) between the two calls of a payment, and lifecycle
  decisions taken on a state that was read some awaits earlier;
* calls whose answer is lost after the object acted; workers that die between claim and mark;
* a Lightning node that answers late, or never (there is no timeout);
* a restore that replaces the tables but leaves the AUTOINCREMENT sequence where it was;
* read-modify-write of KV counters and entries by concurrent workers, and counters that several
  limits share;
* a session or a token that runs out while requests that carry it are under way;
* a page that charges by itself, whose reader starts asynchronously and whose answers get lost;
* a page with two readers, whose scanner reports while an answer is awaited.

`hazards` in PROJECT.json lists each of them at its line with the properties that cover it.

### 1.4 What makes each component correct

* *Card object*: balance column and transactions table agree; a charge is voided at most once and
  for exactly its amount; history is append-only; the version columns agree with the lifecycle
  state; a version once issued is not issued again.
* *Withdraw callback*: one tap pays at most one invoice; a tap shown as completed was paid, one
  shown as failed was not; a pending tap does not stay pending.
* *Lifecycle handlers*: the stored K2 is the one of the active version; a version in use was issued
  and belongs to a chip; no key version is issued twice; a terminated card stays out of use until
  new keys are delivered or a backup is restored; wipe keys fit the chip they are answered to.
* *Till and desk*: what the shift totals say is what the cards were charged.
* *Pay callback*: a tap shown as completed had an invoice, a tap that got one does not stay
  pending, every callback ends that does not wait for the rest of a body.
* *Card index*: converges to the object's state.
* *Rate limiter*: never refuses too early, and how far it may be exceeded.
* *Operator session*: nobody is served without a login that still counts; a till in session can go
  on posting.
* *Charge page*: one sale is charged once unless the operator asks again; an approval is true.
* *Top-up page*: an amount is not credited twice by itself; a card that is tapped is topped up.

## 2. The plan

Modules in order of what depends on them and of how much is lost when they are wrong:

| Order | Module | State |
| --- | --- | --- |
| 1 | `CardReplayDO`, the card object; `CardAccount`, what it promises about money | done, proved |
| 2 | `WithdrawFlow`, withdraw callbacks against the object and a Lightning node; `TapVoucher`, what a tap is worth to them | done, safety proved |
| 3 | `CardLifecycle`, everything that provisions, activates and retires a card | done, safety proved |
| 4 | `OperatorDesk`, till and desk against the object and the KV totals | done, safety proved |
| 5 | `PayFlow`, the LNURL-pay callback, which goes on after a refused counter and gives the tap statuses another meaning | done, safety proved |
| 6 | `CardIndex`, the KV index that follows the lifecycle calls, and its repair | done, safety proved |
| 7 | `RateLimiter`, the KV window counters under concurrent requests | done, proved |
| 8 | `OperatorSession`, cookies of the operator's browsers | done, proved |
| 9 | `ChargePage`, the page that sends charges | done, proved |
| 10 | `TopUpPage`, the page that sends top-ups | done, proved |
| 11 | `FrontDoor`, the four of 7 to 10 side by side | done, proved |
| 12 | `System`, withdraw callbacks, desk and lifecycle handlers on one card | done, proved |
| 13 | the refund and void pages, which remember the card last tapped and nothing that holds a second click back | left |

## 3. The modules and the code

`CardReplayDO` is extended by the flow modules (3.2 to 3.6), which add workers to the object's state
and call its actions; nothing about the object is restated. `RateLimiter`, `OperatorSession`,
`ChargePage` and `TopUpPage` (3.7 to 3.10) keep state of their own; `FrontDoor` puts them side by side.
`System` (3.12) puts three of the flow modules on one object. `MC*` modules give constants
values and, where named in 4.1, restrict which behaviours a run explores.

### 3.1 `CardReplayDO` and `CardAccount`

One variable per table: `card` (`card_state`, a missing row read as the defaults that
`handleGetCardState` answers), `config`, `last` (`replay_state.last_counter`), `taps` (a function
from counters to rows), `txns` (a sequence in id order), `nextTxnId` (the AUTOINCREMENT sequence),
and `file`, the export an operator last downloaded. One action per endpoint, named after its
handler (`HandleDebit`, `HandleClaimTap`, ...). A refusal changes no table and is left out of
`DONext`; the flow modules, where a refusal changes what a worker does next, have it as the negated
guard. Time columns, user agents, `amount_msat` and key provenance are left out.

`CardAccount` knows only funds, charges and one backup. The refinement (`AccountSpec`) maps funds
to the balance column and charges to the debit rows, standing until voided. Every other endpoint is
a stutter.

### 3.2 `WithdrawFlow`

`req[r]` is the worker of one callback: where it is (`pc`), what it carries, and history flags.
Its steps are the awaits of `handleLnurlpPayment` and `processWithdrawalPayment`: `Ask` (arrival,
authentication, configuration), `Record`, `Claim`, `Debit` or `SendToNode` / `NodeAnswers`, `Mark`,
and a throwing variant of each call, which may throw before or after the object acted. `Crash` kills a worker. `node` is the Lightning node's view of
the invoices (external). All other handlers appear as the object calls they make, at any time
(`Others`, `Rewind`).

`TapVoucher` knows only callers, taps and periods between two takings back: a caller draws one voucher
in its life, one of those that show a tap in a period draws for it in that period, and nothing is
spent without a voucher. The refinement (`VoucherSpec`) maps the callbacks with an invoice that were
granted their tap to the vouchers drawn, and those that were debited to the vouchers spent. A callback
that showed its tap before a reset or a restore and claims it after is a late one: the code may let
several of them through (a restore brings back an unclaimed row), and the voucher allows it. Callbacks
without an invoice have no voucher (see `replay` in 4.3); payments by a node are not followed there.

### 3.3 `CardLifecycle`

Each handler reads the card's row once, decides, and then makes its calls one by one. So a worker
is the list of calls still to be made: a request action (`HandleLnurlw`, `ValidateCardTap`,
`HandleProgrammingFlow`, `HandleResetFlow`, `HandleCardLock`, `HandleCardReactivate`, `Retire`,
`BatchActivate`, `Reprovision`, `HandleActivateCardSubmit`, `HandleTopUpAction`) plans the list from
the row as it is then, and `Call` / `Deliver` / `Check` / `Answer` / `Burn` take its head. `Fail`
loses a call or its answer: best-effort calls are passed over, others end the worker. A worker that
a termination overtakes is marked (`over`). Two calls answer wipe keys: "wipekeys" to a tap, and
"show" on the login page, without one (`loginActions.ts:76`, the third case of `Retire`). The backup
page is a single call each way, at any time: `HandleCardExport`, `HandleCardRestore`.

`chip` is the key version on the physical card and `known` records the versions that a chip carried
or the batch page vouched for. `issued` counts how often each version was issued; a restore, after
which the object knows nothing of what it issued since, takes those counts back. The K2 of version v
is v, and a CMAC passes iff the keys are equal. Callbacks and desk appear as the object calls they
make: they claim taps and move money (`Others`).

### 3.4 `OperatorDesk`

`op[r]` is the worker of one charge, top-up, refund or void after its tap was accepted; its steps
are the awaits of the handler, of `recordAuditEvent` and of `updateShiftSummary`: `GetBalance`
(full refunds only), `MoveMoney`, `RecordAuditEvent`, `GetSummary`, `PutSummary`, `GetIndex`,
`PutIndex`. A summary is modelled as the set of requests its totals count, so that a lost update is
a lost element; `Total` and `OutstandingBalance` are what the reconciliation page adds up. `Fail`
is a call that fails before or after it acted, or a dead worker. All other handlers appear as the
object calls they make (`Others`), except a restore, which takes away rows that summaries count.

### 3.5 `PayFlow`

`req[r]` is the worker of one pay callback; its steps are the awaits of the handler and of
`resolveLightningAddress`: `Record`, the two fetches (each an answer that begins,
`ServerAnswers`, or does not, `FetchFails`, and then a body, `ReadTerms` and `ReadInvoice`), `Mark`.
A refused counter does not stop it. `issued`, `fresh` and `withdrawn` are history: the invoices per
tap, the rows that have seen one, and the taps that withdraw callbacks have touched. Withdraw
callbacks and everyone else appear as the object calls they make.

### 3.6 `CardIndex`

`worker[w]` is a lifecycle handler as the index sees it: the calls it has still to make and the
entry it has to write for the last one (`DoStateTransition`, then `IndexCard`). `repair[p]` is a
repair between listing the entries, reading the object and writing (`RepairList`, `RepairRead`,
`RepairPut`). Cards share nothing here, so one is modelled. `excuses` is history: what has
happened since the last undisturbed call or repair that may have left the entry wrong.

### 3.7 `RateLimiter`

`kv` holds a counter and its expiry per key, the key being an address or a card and the start of a
window. A request passes the global limit and then, if its handler has one, a second; each is a read
(`GetCounter`) and a write (`PutCounter`), with the clock ticking in between. `GetMissing` is the
cached miss that KV may answer, `KvThrows` a failed call. The keys do not name the limit, as in
`rateLimiter.ts:27`, so limits share counters.

### 3.8 `OperatorSession`

`jar` is each till's cookies by the time they expire, `call` the requests under way with the cookies
they were sent with. `HandleOperatorLogin`, `HandleOperatorLogout`, `HandlePage` and `HandlePost` are
the handlers behind `withOperatorAuth`. Signatures are genuine.

### 3.9 `ChargePage`

The variables are those of `pos.js` (`appState`, `posMode`, the amounts, the scanner, the timer); an
action is an event handler with the promise jobs that follow at once. `posts` are the charges sent
and what became of them, `first` and `pressed` tell one sale from the next and a press from the
timer.

### 3.10 `TopUpPage`

The variables are those of `topup.js` (`appState` as `desk`, whether `amountInput` is not 0, which
reader is shown) and of its scanner (`web` says whether the browser asks before it scans). Of an
amount nothing else matters. `sends` are the top-ups sent, with what became of them and whether the
page still awaits the answer: the scanner's events lead back to the keypad at any time, so several
may be awaited. `fresh` is history.

### 3.11 `FrontDoor`

Every request of the pages is counted before it is routed (`index.ts`), and its session is checked
before its handler runs. The four modules name no variable of each other: a request of `RateLimiter`
may be anyone's, a post of `OperatorSession` is any page's. `FrontDoor` lets their steps interleave.

### 3.12 `System`

`WithdrawFlow`, `OperatorDesk` and `CardLifecycle` each follow one kind of worker and let the rest of
the program make object calls at any time. `System` has all three kinds of worker on one object and
nobody else: `CallbackStep`, `DeskStep` and `JobStep` are the steps of the three modules, taken from
instances of them that share the object's variables. A worker of one kind leaves the workers of the
others alone, and what it does to the object is all they see of it. Two things need saying. The money
that a tap check in `CardLifecycle` leads to is moved by the desk's own worker, so a lifecycle worker
moves only the top-up of the login page. A reset or a termination that finds something to erase
opens a new period of `WithdrawFlow` (`TakesBack`). LNURL-pay cards, backups and restores are left out
here; `WithdrawFlow`, `PayFlow` and `CardLifecycle` each have them on their own.

No run checks `System`: even its smallest instances that mean anything have too many states for one. Its
theorems need none of its states; they follow from those of the three modules (section 5).

## 4. What the runs check

Every property of a passing run has a mutant in PROJECT.json: a plausible bug in the code under
which the same run finds the property violated.

| Run | Instance | What it shows |
| --- | --- | --- |
| `ledger` | amounts -1, 0, 1, 2, ceiling 3, 4 transaction ids, 1 counter, 1 invoice, 1 key, 2 versions, an empty file or one of another server | `TypeOK`, `LedgerInv`, `VoidInv`, `CardInv`, `HistoryKept`, `VersionsAdvance`; the object implements `CardAccount` (`AccountSpec`) |
| `claim` | internal wallet, 2 callbacks for 1 tap, 1 invoice or none, 2 faults, 1 rewind | `OneGrantPerTap`, `CompletedMeansPaid`, `FailedMeansUnpaid`, `FlowTypeOK`; the callbacks implement `TapVoucher` (`VoucherSpec`) |
| `node` | a Lightning node, 2 callbacks, 1 fault; or 1 callback, 1 fault and 1 rewind | `CompletedMeansPaid`, `PendingSettles` |
| `lifecycle` | 2 overlapping requests, 3 key versions, 1 fault, 1 backup | `ActiveIsKnown`, `IssuedOnce`, `TerminatedStays`, `KeyFits`, `ActiveIsIssued`, `WipeKeysFit`, `LifeTypeOK` |
| `desk` | 3 requests, 2 shifts, 4 transaction ids, 1 fault | `CountedIsDone`, `VoidsCountedOnce`, `OutstandingFits`, `DeskTypeOK` |
| `pay` | 2 pay callbacks for 1 tap, withdraw callbacks, 1 fault, 1 rewind | `CompletedMeansInvoiced`, `PendingMeansUninvoiced`, `CallbackEnds`, `PayTypeOK` |
| `index` | 2 handlers, 2 repairs, 3 calls, 1 fault, a file of an active card | `IndexTrue`, `RepairHeals` |
| `frontdoor` | 4 requests, 2 at a time; 1 till with 2 requests at a time; a page with 2 prices and 3 charges; a page with 3 top-ups | `NoEarlyRefusal`, `LimitHeld`, `ServedMeansLoggedIn`, `TillKeepsPosting`, `SecondChargeIsPressed`, `ApprovedIsCharged`, `OverlayListens`, `RepeatIsReported`, `FrontDoorTypeOK` |
| `terminated`, `replay`, `refund`, `topup` | the smallest instances that show it | violations, see 4.3 |

### 4.1 Bounds, and why they are enough

* `ledger`: four ids are a top-up, a charge, its reversal and one row after a restore; the ceiling
  is reached and exceeded (by a void); -1 and 0 are amounts the object must refuse. The foreign
  file has more rows than the server has made, so that the restored ids overtake the sequence.
* `ledger` explores money and the other tables apart (`ApartSpec`): no handler reads both, so a
  behaviour moves money, or uses taps and configuration, and both with any lifecycle calls. Two
  versions are one rotation; a second counter would only repeat what the first does.
* `claim`: the only shared thing two callbacks of *different* taps have is the balance, which
  `ledger` covers, so both callbacks are for one tap. A third callback for it meets a tap that is
  already claimed, as the second does (`OneGrant` is proved for any number). Two faults and one
  rewind at any moment, and all together. `Statuses` are the two that callers send. The run does not
  follow an export after the last rewind, which nobody will restore, nor lifecycle states other than
  new and terminated, which no callback tells apart (`Followed`); the theorems meet them.
* `node`: liveness is checked without symmetry, which limits it to two callbacks without rewinds, or
  one callback with one (`NodeInit`).
* `pay`: both callbacks are for one tap, the only thing they share. One fault and one rewind, at any
  moment and together.
* `index`: two handlers and a repair are the least that lets a repair write behind a newer entry
  while a second one is listed; three calls bring a card from new into use and out of it. The file
  makes a restore that the index does not follow.
* `frontdoor`: the four parts share no variable, so each is checked on its own: while one moves the
  others rest in an initial state (`OneMoves`). `FrontDoorComposes` proves of the free interleaving
  that it is a behaviour of each part. The global limit is 3 and the login limit 2, so that the shared
  counter runs out early and lets three logins pass; four requests exceed every limit. Requests in
  which KV failed number at most three (`FewWithFaults`). The clock passes the end of a session and
  of a token, and a second token; three charges are a sale, a second charge of it and the next sale,
  and three top-ups two that are awaited together and one after an answer.
* `lifecycle`: with `ScanRange` 1 and three versions, version 1 lies outside the scanned window of
  version 3, so that the fallback to version 1 matters. The third version is
  explored in orderly histories, and, as the server's version, in overlapping ones where nothing fails
  and no money moves (`Small`); failures, overlaps with money (one without the other) and chips of an
  overlapping history meet two versions. Two workers: a third would interleave with each of them as they do with each other
  (`DeliveredOnce`, `ActiveVersionKnown` and `TerminatedStaysOut` are proved for any number).
  Of what the others do the run follows the money, while the history is orderly, and no claims of taps
  (`Followed`): in other histories the workers move money at every moment, and what they find among the
  taps changes nothing else. One backup is made, between two requests of an orderly history, of a card
  that is active or terminated with its first version, and restored at any moment and any number of
  times; these histories meet neither money, nor failures, nor a chip of the second version.
* `desk`: three requests are a first operation of a shift (which lists the shift), another that
  overwrites it, and one on the other shift or a second void of the same charge. Of what the others do
  to the object, the run follows the money and, before a failure, the termination of a card
  (`Followed`). It has no counters: the desk's workers begin after their tap was accepted and look at
  no row of `taps`. The theorems meet the rest.

Bounds in guards: `nextTxnId <= MaxTxns` and `card.latest < MaxVersion` in the object
(`Post`, `HandleDeliverKeys`), `MaxFaults`, `MaxRewinds`, `MaxCalls`, `MaxSent`, `MaxTime`, `MaxClock`,
`MaxPosts` and `MaxSends` where they are declared; `Room` in `CardLifecycle` and the room left in `Others` keep
a worker from being stopped by them halfway. Symmetry is used for requests, calls, jobs and shifts,
which no definition tells apart, and not in runs with liveness.

Deadlock is checked in the runs of the object and of the lifecycle. `WithdrawFlow`, `PayFlow` and
`OperatorDesk` use each request once, and `CardIndex` and the four modules of `frontdoor` bound
their calls, so that a behaviour ends when all are through: `CHECK_DEADLOCK FALSE`.

### 4.2 Fairness

`PendingSettles`, `CallbackEnds` and `RepairHeals` need some. A worker that is not dead makes its
next call, and the object, a single-threaded process on the same platform, answers it: weak fairness
of each worker's normal steps (`Fairness` in `WithdrawFlow`, `Sure` in `PayFlow`, `Work` and `Mend`
in `CardIndex`). Weak is enough: a worker's next step, once enabled, stays enabled until it is taken
(the object never refuses to answer).

None is assumed for the operator, for wallets, for faults, for the Lightning node (the code sets no
timeout, and `PendingSettles` excepts a worker that waits for the node), or for the server of a
Lightning Address. The timer of `lightningAddress.ts` fires if that server does not begin to answer,
and firing (`FetchFails`) is part of `Sure`. The timer is cleared when the headers arrive, so nothing
in the code bounds the body, and `ReadTerms` and `ReadInvoice` are not fair: a server that stops in
the middle of a body holds its callback, and `CallbackEnds` excepts it by name.

### 4.3 Where code and documents disagree

* `terminated`: a callback debits a terminated card. `lnurlHandler.ts:57` authenticates without
  looking at the lifecycle state, and `/debit` does not look either;
  `tests/property/cardLifecycle.property.test.ts:13` says "Terminated cards cannot receive balance
  changes".
* `replay`: callbacks that carry an amount and no invoice claim one tap again and again
  (`tapHandlers.ts:169` takes a NULL invoice for unclaimed);
  `.omo/plans/physical-device-test-plan.md:204` expects "balance only debited once per tap".
  `OneGrantPerTap` is therefore stated for callbacks with an invoice.
* `refund`: the refund desk credits the card (`refundHandler.ts:45`), so a full refund doubles the
  balance, or is refused at the ceiling; `docs/OPERATOR-GUIDE.md:96` says the "Card balance goes to
  zero". The reconciliation page subtracts refunds, and `OutstandingFits` says by how much the two
  therefore differ.

* `topup`: the top-up page drops every card that is tapped on the phone. Its scanner, once it
  listens, has set `appState` to 'scanning' (`topup.js:70`), and `submitTopup` returns unless it is
  'idle' (`topup.js:180`). No message is shown, and the page stays as it is, with its scanner stopped
  and its keypad dead, until it is reloaded; `docs/OPERATOR-GUIDE.md:23-24` says "The attendee taps
  their card on the phone/reader" and "Screen shows "Top-up successful" with the new balance". Only
  the USB reader works, as long as no scan was begun, or a tap after a read error.

Met while reading or modelling, without a run that shows them:

* `.omo/plans/physical-device-test-plan.md:169` (test 9.5) has the operator "Select terminated cards,
  choose "Activate"" and expects "Cards back to `active`". `cardBatchHandler.ts:76-88` skips a card
  that is neither keys_delivered nor discovered. A skip changes nothing, so no behaviour shows it;
  `TerminatedStays` states what the code does, and its mutant (`BatchActivateAny`) is what the test
  plan describes. A tester who follows the plan will see the card reported as skipped.
* A money movement creates the row with `latest_issued_version` 0, a discovery leaves it there
  (`cardStateHandlers.ts:172`), and the next delivery issues the version the card already carries;
  `docs/card-lifecycle-design.md:198` says the version increments. `ActiveIsIssued` holds for cards
  that were not topped up first.
* A wipe request passes no metadata to the index (`card/lifecycle.ts:75`), while
  `docs/OPERATOR-GUIDE.md:121` counts "wiped" among the transitions that are indexed. `IndexTrue`
  excepts it.
* A retried pay callback fetches a second invoice; the comment at `lnurlPayHandler.ts:98` speaks of
  an "atomic bolt11 claim" that this handler does not make.
* A login request counts twice under its address whenever the two windows start together, once for
  the global and once for the login limit, so that fewer logins pass than `README.md:199` says (and
  more, when the global limit makes the counter run out early).

The properties that hold name, in their exceptions, what the code does not promise either: a
worker that read a card's row before its termination may activate it afterwards, and so does the
restore of a backup made before (`TerminatedStays`); a version issued after a backup is issued again
once it is restored (`IssuedOnce`); the wipe keys that the login page shows without a tap are of a
version that some chip carried, not of the chip at hand (`ActiveIsKnown`, where `WipeKeysFit` is about
taps); a reader that is still starting may fail and leave the overlay without one
(`OverlayListens`); a tap whose debit was applied while its answer got lost is shown as failed
(`FailedMeansUnpaid`); a callback that dies between claim and mark, or whose mark fails, leaves its tap
pending (`PendingSettles`, `PendingMeansUninvoiced`); overlapping operations of one shift lose each other's update, or list the
shift twice, so that totals fit only when requests come one by one (`OutstandingFits`).

## 5. What is proved

All proofs are checked by TLAPS to the last leaf. They assume only the named assumptions on the
constants: `DOAssumption` (amounts are integers, counters naturals, backups well formed),
`FlowAssumption` and `PayAssumption` (a file from before the modelled history shows no tap as
completed), `LifeAssumption`, `DeskAssumption`, `IndexAssumption`, `LimiterAssumption` (the short window
is no longer than the long one, no card is an address), `SessionAssumption`, `PageAssumption` and
`TopUpAssumption`, which TLC also evaluates on every run.

| Theorem | Property | Argument |
| --- | --- | --- |
| `TypeCorrect` | `TypeOK` | inductive; a debit and a void leave the balance non-negative |
| `LedgerCorrect` | `LedgerInv` | `Books` adds the same fact about the operator's file, which a restore brings back |
| `VoidsCorrect` | `VoidInv` | `Reversals` adds the file, and `Numbered`: ids stay below the AUTOINCREMENT sequence, so a new row repeats no id even after a restore |
| `VersionsCorrect`, `VersionsOnlyAdvance` | `CardInv`, `VersionsAdvance` | `Versions` adds the file |
| `HistoryOnlyGrows` | `HistoryKept` | each action appends, marks a row, restores, or leaves the table alone |
| `ImplementsAccount` | `AccountSpec` | step by step: credit is a deposit, debit a charge with a fresh id, void the reversal of a standing charge, the rest stutters or saves or restores |
| `BalanceCorrect` | | the balance is the sum of the rows that stand (neither voids nor voided): by induction over the prefixes of the history, where a void's row takes its charge out of the sum (`StoodAt`) |
| `FlowTypeCorrect` | `FlowTypeOK` | inductive |
| `FlowImplementsDO` | | each worker step makes at most one object call, so all theorems about the object hold under callbacks |
| `OneGrant` | `OneGrantPerTap` | `Grants`: a granted callback's tap carries an invoice and the counter is past it until the next rewind, so no later presentation of that period is granted |
| `CompletedWasPaid` | `CompletedMeansPaid` | `Payments`: the same of the rows in the operator's file, and a worker that will mark a tap completed has seen its payment; what was paid stays paid |
| `FailedWasUnpaid` | `FailedMeansUnpaid` | `Marked`: a worker presents, is granted and pays in that order, and whoever was granted a clean tap that is shown as failed has given up; by `OneGrant` only one worker was |
| `ImplementsVoucher` | `VoucherSpec` | a grant is a draw, the first of its period by `Grants` (`MoverFirst`); a debit is a spend, after a grant by `Ordered`; a rewind is a renewal; the rest stutters |
| `LifeTypeCorrect`, `LifecycleImplementsDO` | `LifeTypeOK` | `Base`: types, and that the chip carries a known version |
| `DeliveredOnce` | `IssuedOnce` | `Issued`: no version above the row's latest has been issued, and a delivery issues the one above it; a restore takes the row's latest and the counts back together |
| `ActiveVersionKnown` | `ActiveIsKnown` | `Activations`: a worker that has an activation, a discovery or a page of wipe keys ahead holds a known version, also when it comes late; `FileKnown`: so does the operator's file |
| `TerminatedStaysOut` | `TerminatedStays` | `Overtaken`: while the row is terminated, every worker that has an activation or a discovery ahead is marked as overtaken, and only a restore brings the row back by itself |
| `StoredKeyFits`, `VersionInUseIssued`, `WipedWithItsKeys` | `KeyFits`, `ActiveIsIssued`, `WipeKeysFit` | `KeyInv` follows the one running worker through what is left of its plan (`Plans`, `Fit`): between two requests the stored key is none or that of the version the row names and no row is pending; on the way the worker's own version stands for the one the row does not name yet |
| `DeskTypeCorrect` | `DeskTypeOK` | part of `Desk`, below |
| `CountedCorrect` | `CountedIsDone` | `Desk`: whatever a summary, or a worker's copy of one, holds has posted a row with an id of its own and was logged; overwriting with a stale copy loses requests and invents none |
| `VoidsCounted` | `VoidsCountedOnce` | from `Desk` and the object's `VoidInv`: two counted voids of one charge would be two rows that reverse it |
| `OutstandingCorrect` | `OutstandingFits` | `Tally`: while requests come one by one, at most one is in hand, and card and summaries differ by what it has moved and not yet counted; a summary gains a request by gaining its amount in the sum |
| `DeskImplementsDO` | | a worker's money call is one of the object's; a full refund sends a balance it read, hence the hypothesis that callers may send any amount up to the ceiling |
| `PayTypeCorrect`, `PayImplementsDO` | `PayTypeOK` | inductive; each pay step makes at most one object call |
| `CompletedIsInvoiced` | `CompletedMeansInvoiced` | `Invoiced`: the same of the rows in the operator's file, and a worker about to mark has seen an invoice for its tap |
| `InvoicedIsMarked` | `PendingMeansUninvoiced` | `Marked`: such a row is pending only while a worker is about to mark it, or after a failure |
| `IndexTypeCorrect`, `IndexImplementsDO` | (`IndexTypeOK`) | inductive; a handler's call is one of the object's |
| `IndexIsTrue` | `IndexTrue` | `IndexInv`: while nothing excuses the entry, or some repair is alone, whoever is about to write is about to write the card's state |
| `LimiterTypeCorrect`, `SessionTypeCorrect`, `PageTypeCorrect` | (conjuncts of `FrontDoorTypeOK`) | inductive; a window's start is a time, by lemmas on division |
| `FrontDoorComposes`, `FrontDoorTypeCorrect` | `FrontDoorTypeOK` | a step of one part leaves the variables of the others alone |
| `SystemComposes`, `SystemIsSafe` | (those of the parts, `SystemSafety`) | assume and guarantee: see below |
| `SystemImplementsDO` | | from the same step simulation, by `StepImplements` of `WithdrawFlow_proofs` |
| `SystemKeepsPromises` | `AccountSpec`, `VoucherSpec` | `SystemComposes` and `SystemImplementsDO`, with the refinements of the parts |
| `MoneyLeavesOnlyByCharge` | (`MoneyLeavesByCharge`) | of all calls only a debit lowers the balance (`WorkerTakes`, `WorkTakes`, `JobTakesNothing`), and its worker takes note of it in the same step |
| `NobodyRefusedEarly` | `NoEarlyRefusal` | `CountsTrue`: no counter, and no value a worker has read of one, is above the number of requests counted under its key |
| `LimitsHold` | `LimitHeld` | `Held`, per key that was never read stale or in an overlap: one worker at a time writes it; its counter is at least what was counted, or it has run out once, after the short window, when only logins still use it, and restarts with at most the login limit behind it |
| `ServedOnlyInSession` | `ServedMeansLoggedIn` | `SessionsFit`: no session, in a jar or under way, ends later than `SessionAge` after its till's last login |
| `TillHoldsToken` | `TillKeepsPosting` | `TokensFit`: a request carries no newer token than its till holds, and one that was good when it was sent |
| `TopUpTypeCorrect`, `RepeatsReported` | `RepeatIsReported` | `Unsent`: a page that is idle and shows an amount owes that to the keypad or to an error |
| `NoSecondChargeUnasked`, `ApprovalIsTrue`, `OverlayKeepsReader` | `SecondChargeIsPressed`, `ApprovedIsCharged`, `OverlayListens` | `PageInv`: the reader starts or listens only under the overlay, the overlay asks for the amount shown, and after a charge nothing but a press or a new sale leads back to one |

Why the invariants alone are not inductive: each speaks of what is stored now, and a later step
brings back something older (the operator's file, a version a worker still holds, a copy of a
summary or a counter, a cookie under way). The strengthenings say the same of every place where an
older value waits.

Composition. Each flow module assumes something of its surroundings (its `Others`) and guarantees
something in return, its own calls. `SystemComposes` shows the assumptions discharged: by `WorkerCalls`
a callback claims taps and debits, by `WorkCalls` the desk moves money, by `JobCalls` a lifecycle worker
changes row, configuration and taps; and each of these is among the calls the other two modules allow.
That a worker makes only such calls depends on its own invariant, and this on the others keeping to
theirs, so the three are kept by one induction: `SystemInv` is the conjunction of the three
(`FlowTypeOK`, `Desk`, `Base`). The hypothesis `SystemAssumption` collects what the modules assume of the
constants, and that an operator may key any amount up to the ceiling. The room that everyone leaves
under `MaxTxns` is the bound's, not the code's: it keeps rows for workers under way.

Sums. Totals and balances are `SumFunctionOnSet` of the community module `Functions`, a recursive
function over finite sets. `CardReplayDO_proofs` proves the facts about it that the two theorems on
money need (`SumEmpty`, `SumStep`, `SumTakes`, `SumMore`: a sum over a finite set is an integer, and
grows by an element's value with the element), by induction over the size of the set: the least size
at which the fact fails exists because `<` is well founded on the naturals (`WFMin`).

Proved and in no run: `BalanceCorrect`, `IndexTypeCorrect`, the composition theorems of `System` and `FrontDoor`, and that
`WithdrawFlow`, `CardLifecycle`, `OperatorDesk`, `PayFlow` and `CardIndex` are callers of the object.

Only model-checked: the liveness properties `PendingSettles`, `CallbackEnds` and `RepairHeals`.
Liveness under fairness and ENABLED are out of the prover's reach.

## 6. What is assumed, and what is not modelled

* KV is read as it was last written (Cloudflare promises this only eventually), except in
  `RateLimiter`, where a read may answer a cached miss. Shift summaries do not expire (their lifetime
  is far longer than a shift); index entries and counters do.
* The Lightning node does not answer an unpaid invoice with HTTP 200.
* A restore is of a well-formed export: a file with rows the schema refuses is not modelled.
* The state "legacy" (`constants.ts:45`), which no handler writes (the facade answers it where no
  object is bound, and `cardStateHandlers.ts:168` would discover such a card), and the invoice of `/update-tap-status` (`tapHandlers.ts:132`,
  `bolt11 = COALESCE(?, bolt11)`), which no caller in `src/` passes, are left out.
* Decryption, CMAC and key derivation are perfect: a genuine tap passes with the right key and no
  other.
* The activate page stores the K2 of version 1 whatever the card carries; `KeyFits`,
  `ActiveIsIssued` and `WipeKeysFit` are stated for histories without it.
* `RateLimiter` takes every request as it comes through the worker; what a handler does behind its
  limits is in the other modules. `OperatorSession` takes signatures as genuine and the PIN as right
  or wrong.
* Not modelled because they are pass-throughs or pure functions: cards of other issuers, relayed and
  two-factor cards, invoice parsing, cryptography, credentials, identity pages, routing.
* Not modelled because they keep no state of their own beyond what `ChargePage` and `TopUpPage` show of their kind:
  the other pages and templates.

Much of the repository's code is outside any model by its nature: `static/js/exports.ts` (7316 lines)
and `worker-configuration.d.ts` (10841) are generated, `public/static/js` repeats `static/js`,
`utils/generatedKeyData.js` is a table of keys, `scripts/` drives tests, builds and deployments, and
`templates/` is markup. The source map covers the handlers, the object and the pages that decide
something.
