---------------------------- MODULE WithdrawFlow ----------------------------
(***************************************************************************)
(* LNURL-withdraw callbacks (handlers/lnurlHandler.ts) against one card's  *)
(* object.  Each HTTP request runs in a worker that awaits the object once *)
(* per step, so callbacks for the same tap, callbacks for different taps,  *)
(* and the calls of every other handler interleave between the awaits.  A  *)
(* call may fail before or after the object acted on it, and a worker may  *)
(* die; each costs one of MaxFaults.                                       *)
(*                                                                         *)
(* A callback carries a genuine tap: decryption and CMAC are out of the    *)
(* model.  Step 1 of the protocol, the till and the operator pages appear  *)
(* as the object calls they make, at any time (Others); the card is not    *)
(* configured for LNURL-pay, whose callback gives the taps another meaning. *)
(***************************************************************************)
EXTENDS CardReplayDO, FiniteSets

CONSTANTS
    Requests,       \* callback requests, each used once
    ClnMethod,      \* "clnrest"
    MaxFaults,      \* bound on failed object calls and dead workers
    MaxRewinds      \* bound on resets, terminations and restores

\* A file from before this history shows no tap as completed.
ASSUME FlowAssumption ==
    /\ {"completed", "failed"} \subseteq Statuses
    /\ MaxFaults \in Nat
    /\ MaxRewinds \in Nat
    /\ \A e \in Exports : \A n \in DOMAIN e.taps : e.taps[n].status # "completed"

VARIABLES
    req,        \* the worker of each request
    node,       \* the Lightning node's view of each invoice
    faults,     \* failures so far
    rewinds     \* how often the taps and the counter were taken back

flowVars == <<card, config, last, taps, txns, nextTxnId, file,
              req, node, faults, rewinds>>

Never == -1

Running == {"record", "claim", "pay", "node", "mark"}
Ended == {"done", "refused", "threw", "unmarked", "crashed"}

\* "presented" and "granted" say in which period between rewinds the object
\* saw the tap and let the payment through; "dead" whether the card was
\* terminated when the request came in; "ok" is a 200 from the payment.
Worker == [pc : Running \cup Ended,
           counter : Counters, invoice : Invoices \cup {NoInvoice}, amount : Amounts,
           method : Methods \cup {DefaultMethod},
           presented : {Never} \cup 0..MaxRewinds, granted : {Never} \cup 0..MaxRewinds,
           ok : BOOLEAN, debited : BOOLEAN, dead : BOOLEAN]
Idle == [pc |-> "idle"]
NodeStates == {"unpaid", "inflight", "paid", "failed"}


-----------------------------------------------------------------------------

Fault == faults < MaxFaults /\ faults' = faults + 1

At(r, pc) == req[r].pc = pc

Becomes(r, w) == req' = [req EXCEPT ![r] = w]

Goto(r, pc) == Becomes(r, [req[r] EXCEPT !.pc = pc])

\* getUidConfig swallows a failed read and falls back to the default method.
ConfigRead(m) ==
    \/ m = config.method /\ UNCHANGED faults
    \/ m = DefaultMethod /\ Fault

\* A callback arrives and is authenticated.  resolveCardIdentity runs without
\* requireState: the card's lifecycle state is not looked at.  The amount is
\* the explicit one, or the invoice's (0 when it has none).
Ask(r, n, inv, a) ==
    /\ At(r, "idle")
    /\ inv = NoInvoice => a > 0
    /\ \E m \in Methods \cup {DefaultMethod} :
          /\ ConfigRead(m)
          /\ Becomes(r, [pc |-> "record", counter |-> n, invoice |-> inv, amount |-> a,
                         method |-> m, presented |-> Never, granted |-> Never,
                         ok |-> FALSE, debited |-> FALSE,
                         dead |-> card.state = "terminated"])
    /\ UNCHANGED <<doVars, node, rewinds>>

Granted(w) == [w EXCEPT !.pc = "pay", !.granted = rewinds]
Presented(w) == [w EXCEPT !.presented = rewinds]

\* recordTap: a fresh counter wins the tap at once, a stale one must claim it.
Record(r) ==
    LET w == req[r] IN
    /\ At(r, "record")
    /\ \/ HandleRecordTap(w.counter, w.invoice) /\ Becomes(r, Granted(Presented(w)))
       \/ /\ ~CounterFresh(w.counter)
          /\ Becomes(r, [Presented(w) EXCEPT !.pc = "claim"])
          /\ UNCHANGED doVars
    /\ UNCHANGED <<node, faults, rewinds>>

\* Mutant: the callback goes on to pay after a refused claim.
ClaimGoingOn(r) ==
    LET w == req[r] IN
    /\ At(r, "claim")
    /\ \/ HandleClaimTap(w.counter, w.invoice) /\ Becomes(r, Granted(w))
       \/ Claimed(w.counter) /\ Goto(r, "pay") /\ UNCHANGED doVars
    /\ UNCHANGED <<node, faults, rewinds>>

\* claimTap: 409 when the row already carries an invoice.
Claim(r) ==
    LET w == req[r] IN
    /\ At(r, "claim")
    /\ \/ HandleClaimTap(w.counter, w.invoice) /\ Becomes(r, Granted(w))
       \/ Claimed(w.counter) /\ Goto(r, "refused") /\ UNCHANGED doVars
    /\ UNCHANGED <<node, faults, rewinds>>

\* Either call throws: the callback answers 500 and leaves the tap as it is,
\* whether or not the object acted.
RecordThrows(r) ==
    LET w == req[r] IN
    /\ \/ At(r, "record") /\ (UNCHANGED doVars \/ HandleRecordTap(w.counter, w.invoice))
       \/ At(r, "claim") /\ (UNCHANGED doVars \/ HandleClaimTap(w.counter, w.invoice))
    /\ Fault /\ Goto(r, "threw")
    /\ UNCHANGED <<node, rewinds>>

-----------------------------------------------------------------------------
(* processWithdrawalPayment.                                               *)

Paid(r, yes) == Becomes(r, [req[r] EXCEPT !.pc = "mark", !.ok = yes])
Debited(r, yes) == Becomes(r, [req[r] EXCEPT !.pc = "mark", !.ok = yes, !.debited = TRUE])

\* Mutant: a refused debit is answered with 200.
DebitAlwaysOk(r) ==
    LET w == req[r] IN
    /\ At(r, "pay") /\ w.method = DefaultMethod
    /\ \/ HandleDebit(w.counter, w.amount) /\ Debited(r, TRUE)
       \/ (w.amount <= 0 \/ card.balance < w.amount) /\ Paid(r, TRUE) /\ UNCHANGED doVars
    /\ UNCHANGED <<node, faults, rewinds>>

\* Mutant: an early return on a refused debit, past the marking of the tap.
DebitReturning(r) ==
    LET w == req[r] IN
    /\ At(r, "pay") /\ w.method = DefaultMethod
    /\ \/ HandleDebit(w.counter, w.amount) /\ Debited(r, TRUE)
       \/ (w.amount <= 0 \/ card.balance < w.amount) /\ Goto(r, "done") /\ UNCHANGED doVars
    /\ UNCHANGED <<node, faults, rewinds>>

\* The internal wallet.
Debit(r) ==
    LET w == req[r] IN
    /\ At(r, "pay") /\ w.method = DefaultMethod
    /\ \/ HandleDebit(w.counter, w.amount) /\ Debited(r, TRUE)
       \/ (w.amount <= 0 \/ card.balance < w.amount) /\ Paid(r, FALSE) /\ UNCHANGED doVars
    /\ UNCHANGED <<node, faults, rewinds>>

DebitThrows(r) ==
    LET w == req[r] IN
    /\ At(r, "pay") /\ w.method = DefaultMethod /\ Fault
    /\ \/ HandleDebit(w.counter, w.amount) /\ Debited(r, FALSE)
       \/ Paid(r, FALSE) /\ UNCHANGED doVars
    /\ UNCHANGED <<node, rewinds>>

\* A Lightning node: the invoice is handed over and the worker waits, with no
\* timeout.  An amount-only callback hands over no invoice.
SendToNode(r) ==
    LET w == req[r] IN
    /\ At(r, "pay") /\ w.method = ClnMethod
    /\ Goto(r, "node")
    /\ node' = IF w.invoice \in Invoices /\ node[w.invoice] \in {"unpaid", "failed"}
               THEN [node EXCEPT ![w.invoice] = "inflight"] ELSE node
    /\ UNCHANGED <<doVars, faults, rewinds>>

NodeSettles(inv) ==
    /\ node[inv] = "inflight"
    /\ \E s \in {"paid", "failed"} : node' = [node EXCEPT ![inv] = s]
    /\ UNCHANGED <<doVars, req, faults, rewinds>>

\* Mutant: any answer of the node counts as success.
NodeAnswersYes(r) ==
    /\ At(r, "node")
    /\ \/ Paid(r, TRUE) /\ UNCHANGED faults
       \/ Paid(r, FALSE) /\ Fault
    /\ UNCHANGED <<doVars, node, rewinds>>

\* 201 "complete", any other status, or a lost connection; only the first is
\* a success, so a payment still in flight is reported and marked as failed.
\* (The node is assumed not to answer an unpaid invoice with 200, which the
\* callback would pass on and mark as completed.)
NodeAnswers(r) ==
    LET w == req[r] IN
    /\ At(r, "node")
    /\ \/ Paid(r, w.invoice \in Invoices /\ node[w.invoice] = "paid") /\ UNCHANGED faults
       \/ Paid(r, FALSE) /\ Fault
    /\ UNCHANGED <<doVars, node, rewinds>>

\* A method without a wallet behind it, or a node configured without a rune.
Unsupported(r) ==
    /\ At(r, "pay") /\ req[r].method # DefaultMethod
    /\ Paid(r, FALSE)
    /\ UNCHANGED <<doVars, node, faults, rewinds>>

\* updateTapStatus, a no-op when the row is gone; its failure is only logged.
Mark(r) ==
    LET w == req[r] IN
    /\ At(r, "mark")
    /\ Goto(r, "done")
    /\ \/ HandleUpdateTapStatus(w.counter, IF w.ok THEN "completed" ELSE "failed")
       \/ w.counter \notin DOMAIN taps /\ UNCHANGED doVars
    /\ UNCHANGED <<node, faults, rewinds>>

MarkThrows(r) ==
    /\ At(r, "mark")
    /\ Fault /\ Goto(r, "unmarked")
    /\ UNCHANGED <<doVars, node, rewinds>>

Crash(r) ==
    /\ req[r].pc \in Running
    /\ Fault /\ Goto(r, "crashed")
    /\ UNCHANGED <<doVars, node, rewinds>>

-----------------------------------------------------------------------------
(* The calls of every other handler.                                       *)

\* The till and the desk leave room under MaxTxns for the callbacks' debits.
Others ==
    /\ \/ PresentNext
       \/ BalanceNext /\ nextTxnId + Cardinality(Requests) <= MaxTxns
       \/ StateNext
       \/ ConfigNext
    /\ UNCHANGED <<req, node, faults, rewinds>>

Rewind ==
    /\ rewinds < MaxRewinds
    /\ rewinds' = rewinds + 1
    /\ RewindNext
    /\ UNCHANGED <<req, node, faults>>

FlowInit ==
    /\ DOInit
    /\ req = [r \in Requests |-> Idle]
    /\ node = [inv \in Invoices |-> "unpaid"]
    /\ faults = 0
    /\ rewinds = 0

WorkerNext(r) ==
    \/ Record(r) \/ Claim(r) \/ RecordThrows(r)
    \/ Debit(r) \/ DebitThrows(r)
    \/ SendToNode(r) \/ NodeAnswers(r) \/ Unsupported(r)
    \/ Mark(r) \/ MarkThrows(r) \/ Crash(r)

FlowNext ==
    \/ \E r \in Requests :
          \/ \E n \in Counters, inv \in Invoices \cup {NoInvoice}, a \in Amounts :
                Ask(r, n, inv, a)
          \/ WorkerNext(r)
    \/ \E inv \in Invoices : NodeSettles(inv)
    \/ Others
    \/ Rewind

FlowSpec == FlowInit /\ [][FlowNext]_flowVars

\* A worker that is not dead makes its next call and the object answers; no
\* fairness for the node, which nothing forces to answer, nor for the world.
Fairness ==
    \A r \in Requests :
        WF_flowVars(Record(r) \/ Claim(r) \/ Debit(r) \/ SendToNode(r)
                    \/ Unsupported(r) \/ Mark(r))

FairFlowSpec == FlowSpec /\ Fairness

-----------------------------------------------------------------------------
(* Properties.                                                             *)

Asked(r) == req[r].pc # "idle"
On(r, n) == Asked(r) /\ req[r].counter = n

FlowTypeOK ==
    /\ TypeOK
    /\ req \in [Requests -> Worker \cup {Idle}]
    /\ node \in [Invoices -> NodeStates]
    /\ faults \in 0..MaxFaults
    /\ rewinds \in 0..MaxRewinds

\* Double-spend prevention: of all the callbacks that present one tap with an
\* invoice and get through to payment, however they interleave with each other,
\* with late reads and with failures, no two do both within one period between
\* rewinds.
HoldsTap(r, p) ==
    /\ Asked(r)
    /\ req[r].invoice # NoInvoice
    /\ req[r].presented = p
    /\ req[r].granted = p

OneGrantPerTap ==
    \A r, s \in Requests, p \in 0..MaxRewinds :
        /\ HoldsTap(r, p) /\ HoldsTap(s, p)
        /\ req[r].counter = req[s].counter
        => r = s

\* A tap shown as completed was really paid, by a debit or by the node, and
\* no crash, lost answer or restore makes an unpaid tap look paid.
CompletedMeansPaid ==
    \A n \in DOMAIN taps : taps[n].status = "completed" =>
        \E r \in Requests :
            /\ On(r, n)
            /\ \/ req[r].debited
               \/ req[r].invoice \in Invoices /\ node[req[r].invoice] = "paid"

\* A tap shown as failed cost the cardholder nothing, whatever crashed, as long
\* as its callbacks carry invoices, no rewind came between them, and no answer
\* to a debit that was applied got lost.
FailedMeansUnpaid ==
    \A n \in DOMAIN taps :
        /\ taps[n].status = "failed"
        /\ \A r \in Requests : On(r, n) =>
              /\ req[r].invoice # NoInvoice
              /\ req[r].presented \in {Never, rewinds}
              /\ req[r].debited => req[r].ok
        => \A r \in Requests : On(r, n) => ~req[r].debited

Pending(n) == n \in DOMAIN taps /\ taps[n].status = "pending"

\* A pending tap does not stay pending, whatever debits or node calls fail,
\* unless its worker dies, the object fails it while claiming or marking the
\* tap, the node owes an answer, or a backup caught the tap in that state.
PendingSettles ==
    \A n \in Counters :
        Pending(n) ~> \/ ~Pending(n)
                      \/ \E r \in Requests :
                            On(r, n) /\ req[r].pc \in {"node", "threw", "unmarked", "crashed"}
                      \/ n \in DOMAIN file.taps /\ file.taps[n].status = "pending"

\* The callbacks with an invoice that were granted the tap, and those whose
\* payment the wallet was debited for, each with its voucher.
WithInvoice == {r \in Requests : Asked(r) /\ req[r].invoice # NoInvoice}
Holders == {r \in WithInvoice : req[r].granted # Never}
Spenders == {r \in WithInvoice : req[r].debited}

VouchersOf(callers) ==
    {[by |-> r, tap |-> req[r].counter,
      shown |-> req[r].presented, drawn |-> req[r].granted] : r \in callers}

Promise == INSTANCE TapVoucher WITH
    Callers <- Requests,
    Taps <- Counters,
    period <- rewinds,
    vouchers <- VouchersOf(Holders),
    spent <- VouchersOf(Spenders)

\* The callbacks implement the abstract voucher: recordTap and claimTap, however
\* they interleave and fail, let one callback of a period draw a tap's voucher,
\* and no debit is made but on a voucher drawn before.
VoucherSpec == Promise!Spec

\* "Terminated cards cannot receive balance changes"
\* (tests/property/cardLifecycle.property.test.ts:13).
TerminatedPaysNothing ==
    \A r \in Requests : Asked(r) /\ req[r].dead => ~req[r].debited

\* "balance only debited once per tap"
\* (.omo/plans/physical-device-test-plan.md:204).
OneDebitPerTap ==
    \A r, s \in Requests :
        /\ r # s
        /\ Asked(r) /\ Asked(s)
        /\ req[r].counter = req[s].counter
        /\ req[r].debited /\ req[s].debited
        => req[r].presented # req[s].presented

=============================================================================
