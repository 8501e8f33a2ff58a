---------------------------- MODULE OperatorDesk ----------------------------
(***************************************************************************)
(* The till and the desk (charge, top-up, refund, void) against one card's *)
(* object, and the KV entries that count what a shift did: the audit log,  *)
(* one summary per shift, and the index of shifts the reconciliation page  *)
(* reads.  A request is a worker that awaits the object or KV once per     *)
(* step; a call may fail before or after it acted, and a worker may die.   *)
(*                                                                         *)
(* A summary holds four totals and four counts; here it is the set of the  *)
(* requests they count, empty when there is no entry.  KV is read as it    *)
(* was last written, and its entries do not expire.  The check of the tap  *)
(* (validateCardTap) is in CardLifecycle: what is left of it here is its   *)
(* verdict on the row, and its calls among those of Others.                *)
(***************************************************************************)
EXTENDS CardReplayDO, FiniteSets, Functions

CONSTANTS
    Requests,       \* desk requests, each used once
    Shifts,         \* operator sessions
    MaxFaults       \* bound on failed calls and dead workers

ASSUME DeskAssumption == MaxFaults \in Nat

VARIABLES
    op,         \* the worker of each request
    audit,      \* the requests with an entry in the audit log
    summary,    \* per shift, the requests its totals count
    index,      \* the index of shifts
    orderly,    \* requests came one by one and none failed
    faults      \* failures so far

kvVars == <<audit, summary, index>>
deskVars == <<card, config, last, taps, txns, nextTxnId, file,
              op, audit, summary, index, orderly, faults>>

Kinds == {"topup", "pos_charge", "refund", "void"}
Running == {"balance", "money", "audit", "get", "put", "getIndex", "putIndex"}
Ended == {"done", "failed"}

\* of: the transaction to void; txn: the row the request made, 0 before; seen
\* and list: the summary and the index as last read.
Op == [pc : Running \cup Ended, kind : Kinds, full : BOOLEAN, shift : Shifts,
       amount : Nat, of : 0..MaxTxns, txn : Nat, seen : SUBSET Requests, list : Seq(Shifts)]
Idle == [pc |-> "idle"]
Nothing == [pc |-> "refused"]

At(r, pc) == op[r].pc = pc

Busy(r) == op[r].pc \in Running
Quiet == \A r \in Requests : ~Busy(r)

-----------------------------------------------------------------------------
(* A request arrives and its tap is accepted.                              *)

Tapped(r, k, full, s, a, t) ==
    /\ At(r, "idle")
    /\ card.state \notin {"terminated", "wipe_requested"}
    /\ op' = [op EXCEPT ![r] =
                 [pc |-> IF full THEN "balance" ELSE "money", kind |-> k, full |-> full,
                  shift |-> s, amount |-> a, of |-> t, txn |-> 0,
                  seen |-> {}, list |-> << >>]]
    /\ orderly' = (orderly /\ Quiet)
    /\ UNCHANGED <<doVars, kvVars, faults>>

HandlePosCharge(r, s, a) == a > 0 /\ Tapped(r, "pos_charge", FALSE, s, a, 0)

HandleTopupApply(r, s, a) == a > 0 /\ Tapped(r, "topup", FALSE, s, a, 0)

\* A partial refund names its amount, a full one reads the balance first.
HandleRefundApply(r, s, a) ==
    \/ a > 0 /\ Tapped(r, "refund", FALSE, s, a, 0)
    \/ Tapped(r, "refund", TRUE, s, 0, 0)

HandleVoidApply(r, s, t) == Tapped(r, "void", FALSE, s, 0, t)

-----------------------------------------------------------------------------
(* The steps of a worker.  What a step does to the object or to KV stands  *)
(* apart from where the worker goes next, because a failed call may have   *)
(* done it all the same.                                                   *)

Set(r, o) == op' = [op EXCEPT ![r] = o]
Goto(r, pc) == Set(r, [op[r] EXCEPT !.pc = pc])
End(r, pc) == Set(r, [op[r] EXCEPT !.pc = pc, !.seen = {}, !.list = << >>])

\* Nothing was moved, so nothing of the request is looked at again.
Refuse(r) == Set(r, Nothing)

\* An empty card is answered with a refund of 0.
GetBalance(r) ==
    /\ At(r, "balance")
    /\ IF card.balance > 0
       THEN Set(r, [op[r] EXCEPT !.pc = "money", !.amount = card.balance])
       ELSE Refuse(r)
    /\ UNCHANGED <<doVars, kvVars, orderly, faults>>

\* Every kind but a charge or a void is a credit, refunds included.
Moves(o) ==
    \/ /\ o.kind \in {"topup", "refund"}
       /\ HandleCredit(o.amount)
    \/ /\ o.kind = "pos_charge"
       /\ \E n \in Counters \cup {NoCounter} : HandleDebit(n, o.amount)
    \/ /\ o.kind = "void"
       /\ HandleVoid(o.of)

Refused(o) ==
    \/ o.kind \in {"topup", "refund"} /\ card.balance + o.amount > MaxBalance
    \/ o.kind = "pos_charge" /\ card.balance < o.amount
    \/ o.kind = "void" /\ Voidable(o.of) = {}

\* The new row's id and amount come back with the answer.
Moved(o) ==
    [o EXCEPT !.txn = nextTxnId,
              !.amount = IF o.kind = "void" THEN card'.balance - card.balance ELSE @]

\* Mutant: a refusal of the object is not looked at.
MoveRegardless(r) ==
    /\ At(r, "money")
    /\ \/ Moves(op[r]) /\ Set(r, [Moved(op[r]) EXCEPT !.pc = "audit"])
       \/ Refused(op[r]) /\ Goto(r, "audit") /\ UNCHANGED doVars
    /\ UNCHANGED <<kvVars, orderly, faults>>

MoveMoney(r) ==
    /\ At(r, "money")
    /\ \/ Moves(op[r]) /\ Set(r, [Moved(op[r]) EXCEPT !.pc = "audit"])
       \/ Refused(op[r]) /\ Refuse(r) /\ UNCHANGED doVars
    /\ UNCHANGED <<kvVars, orderly, faults>>

Logs(r) == audit' = audit \cup {r} /\ UNCHANGED <<summary, index>>

RecordAuditEvent(r) ==
    /\ At(r, "audit")
    /\ Logs(r)
    /\ Goto(r, "get")
    /\ UNCHANGED <<doVars, orderly, faults>>

GetSummary(r) ==
    /\ At(r, "get")
    /\ Set(r, [op[r] EXCEPT !.pc = "put", !.seen = summary[op[r].shift]])
    /\ UNCHANGED <<doVars, kvVars, orderly, faults>>

\* Mutant: the totals start again at every operation.
CountsAlone(r) ==
    /\ summary' = [summary EXCEPT ![op[r].shift] = {r}]
    /\ UNCHANGED <<audit, index>>

Counts(r) ==
    /\ summary' = [summary EXCEPT ![op[r].shift] = op[r].seen \cup {r}]
    /\ UNCHANGED <<audit, index>>

\* A shift that had no summary is added to the index.
PutSummary(r) ==
    /\ At(r, "put")
    /\ Counts(r)
    /\ IF op[r].seen = {} THEN Goto(r, "getIndex") ELSE End(r, "done")
    /\ UNCHANGED <<doVars, orderly, faults>>

GetIndex(r) ==
    /\ At(r, "getIndex")
    /\ Set(r, [op[r] EXCEPT !.pc = "putIndex", !.list = index])
    /\ UNCHANGED <<doVars, kvVars, orderly, faults>>

Lists(r) == index' = Append(op[r].list, op[r].shift) /\ UNCHANGED <<audit, summary>>

PutIndex(r) ==
    /\ At(r, "putIndex")
    /\ Lists(r)
    /\ End(r, "done")
    /\ UNCHANGED <<doVars, orderly, faults>>

\* A call fails before or after it acted, or the worker dies.  A failure of
\* the object is answered with 500, one of KV is logged and the answer stands;
\* either way nothing more is written.
Fail(r) ==
    /\ Busy(r)
    /\ faults < MaxFaults
    /\ faults' = faults + 1
    /\ orderly' = FALSE
    /\ End(r, "failed")
    /\ \/ UNCHANGED <<doVars, kvVars>>
       \/ At(r, "money") /\ Moves(op[r]) /\ UNCHANGED kvVars
       \/ At(r, "audit") /\ Logs(r) /\ UNCHANGED doVars
       \/ At(r, "put") /\ Counts(r) /\ UNCHANGED doVars
       \/ At(r, "putIndex") /\ Lists(r) /\ UNCHANGED doVars

-----------------------------------------------------------------------------

\* The calls of the other handlers: taps and the callbacks' claims; the row, the
\* configuration and the reset of the tables; the callbacks' debits and the login
\* page's top-up, which no shift counts.  Voids come from the desk only, and
\* backups are in CardReplayDO.  Bound: they leave room under MaxTxns.
Others ==
    /\ \/ PresentNext
       \/ ClaimNext
       \/ StateNext
       \/ ConfigNext
       \/ HandleReset
       \/ HandleTerminate
       \/ /\ nextTxnId + Cardinality({r \in Requests : op[r].pc \in {"idle", "balance", "money"}})
                <= MaxTxns
          /\ \E a \in Amounts :
                HandleCredit(a) \/ \E n \in Counters \cup {NoCounter} : HandleDebit(n, a)
    /\ UNCHANGED <<op, kvVars, orderly, faults>>

DeskInit ==
    /\ DOInit
    /\ op = [r \in Requests |-> Idle]
    /\ audit = {}
    /\ summary = [s \in Shifts |-> {}]
    /\ index = << >>
    /\ orderly = TRUE
    /\ faults = 0

Ask(r) ==
    \E s \in Shifts :
        \/ \E a \in Amounts :
              HandlePosCharge(r, s, a) \/ HandleTopupApply(r, s, a) \/ HandleRefundApply(r, s, a)
        \/ \E t \in 1..MaxTxns : HandleVoidApply(r, s, t)

Work(r) ==
    \/ GetBalance(r) \/ MoveMoney(r) \/ RecordAuditEvent(r)
    \/ GetSummary(r) \/ PutSummary(r) \/ GetIndex(r) \/ PutIndex(r)
    \/ Fail(r)

DeskNext == (\E r \in Requests : Ask(r) \/ Work(r)) \/ Others

DeskSpec == DeskInit /\ [][DeskNext]_deskVars

-----------------------------------------------------------------------------
(* The reconciliation page.                                                *)

\* Listed(k): what the page adds up for one kind, shift by shift as the index
\* lists them.
Listed(k) ==
    {p \in (1..Len(index)) \X Requests :
        p[2] \in summary[index[p[1]]] /\ op[p[2]].kind = k}

Total(k) == SumFunction([p \in Listed(k) |-> op[p[2]].amount])

OutstandingBalance == Total("topup") - Total("pos_charge") - Total("refund") + Total("void")

-----------------------------------------------------------------------------
(* Properties.                                                             *)

DeskTypeOK ==
    /\ TypeOK
    /\ op \in [Requests -> Op \cup {Idle, Nothing}]
    /\ audit \subseteq Requests
    /\ summary \in [Shifts -> SUBSET Requests]
    /\ index \in Seq(Shifts)
    /\ orderly \in BOOLEAN
    /\ faults \in 0..MaxFaults

Signed(o) == IF o.kind = "pos_charge" THEN -o.amount ELSE o.amount

Made(r, row) ==
    /\ row.id = op[r].txn
    /\ row.amount = Signed(op[r])
    /\ row.voids = op[r].of

\* The totals never claim what did not happen: whatever overlaps, fails or
\* dies, what a shift counts it also logged, under its own operator, and the
\* card's history has one row for it, of that amount, that no other counted
\* request made.
CountedIsDone ==
    \A s \in Shifts : \A r \in summary[s] :
        /\ op[r].shift = s
        /\ r \in audit
        /\ \E k \in 1..Len(txns) : Made(r, txns[k])
        /\ \A q \in UNION {summary[z] : z \in Shifts} : op[q].txn = op[r].txn => q = r

\* A charge voided at two desks, or twice at one, enters the totals once.
VoidsCountedOnce ==
    \A r, q \in UNION {summary[s] : s \in Shifts} :
        /\ op[r].kind = "void" /\ op[q].kind = "void"
        /\ op[r].of = op[q].of
        => r = q

\* Requests that came one by one, at any number of desks, add up: if they alone
\* moved money, the page's outstanding balance is off the card's by twice the
\* refunds, which the desk credits and the page subtracts.
OutstandingFits ==
    /\ orderly /\ Quiet
    /\ \A k \in 1..Len(txns) : \E r \in Requests : op[r].pc = "done" /\ op[r].txn = txns[k].id
    => OutstandingBalance = card.balance - 2 * Total("refund")

\* "Full Refund ... Card balance goes to zero" (docs/OPERATOR-GUIDE.md:96),
\* if nothing came between the reading of the balance and the refund.
FullRefundEmpties ==
    [][ \A r \in Requests :
          /\ At(r, "money") /\ op'[r].pc = "audit"
          /\ op[r].full /\ op[r].amount = card.balance
          => card'.balance = 0 ]_deskVars

=============================================================================
