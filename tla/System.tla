------------------------------- MODULE System -------------------------------
(***************************************************************************)
(* One card with everything that goes on around it: the object, LNURL-     *)
(* withdraw callbacks, the till and the desk, and the handlers that bring  *)
(* the card into use and out of it.  All of them are workers of the same   *)
(* program that call the same object, and nothing holds one back while     *)
(* another runs.                                                           *)
(*                                                                         *)
(* WithdrawFlow, OperatorDesk and CardLifecycle each follow one kind of    *)
(* worker and let the others make object calls at any time.  Here the      *)
(* others are the workers of the other two modules and nobody else, so     *)
(* that what each module allows its surroundings can be held against what  *)
(* they do.  The instances are of the modules with the proofs, whose       *)
(* theorems are then facts about the parts of this module.                 *)
(*                                                                         *)
(* Left out: LNURL-pay cards, and backups, whose restore the desk does not *)
(* follow.  (CardLifecycle and WithdrawFlow follow it, each on its own.)   *)
(***************************************************************************)
EXTENDS CardReplayDO, FiniteSets

CONSTANTS
    Callbacks,      \* withdraw callbacks, each used once
    ClnMethod,      \* "clnrest"
    MaxCallFaults,  \* bound on the callbacks' failures
    MaxRewinds,     \* bound on resets and terminations
    Requests,       \* desk requests, each used once
    Shifts,         \* operator sessions
    MaxDeskFaults,  \* bound on the desk's failures
    Jobs,           \* lifecycle workers that may run at the same time
    ScanRange,      \* VERSION_SCAN_RANGE
    PayMethod,      \* "lnurlpay"
    MaxJobFaults    \* bound on the lifecycle workers' failures

VARIABLES
    req, node, callFaults, rewinds,
    op, audit, summary, index, deskOrderly, deskFaults,
    chip, known, job, issued, jobsOrderly, jobFaults

callbackVars == <<req, node, callFaults>>
deskOwnVars == <<op, audit, summary, index, deskOrderly, deskFaults>>
jobVars == <<chip, known, job, issued, jobsOrderly, jobFaults>>
systemVars == <<doVars, callbackVars, rewinds, deskOwnVars, jobVars>>

Withdraw == INSTANCE WithdrawFlow_proofs WITH
    Requests <- Callbacks, MaxFaults <- MaxCallFaults, faults <- callFaults

Desk == INSTANCE OperatorDesk_proofs WITH
    MaxFaults <- MaxDeskFaults, orderly <- deskOrderly, faults <- deskFaults

Life == INSTANCE CardLifecycle_proofs WITH
    MaxFaults <- MaxJobFaults, orderly <- jobsOrderly, faults <- jobFaults

-----------------------------------------------------------------------------

\* Bound: whoever posts a row leaves room under MaxTxns for the others' rows.
RoomForCallbacks ==
    nextTxnId' = nextTxnId \/ nextTxnId + Cardinality(Callbacks) <= MaxTxns
RoomForDesk ==
    \/ nextTxnId' = nextTxnId
    \/ nextTxnId + Cardinality({r \in Requests : op[r].pc \in {"idle", "balance", "money"}})
         <= MaxTxns

CallbackStep ==
    /\ \/ \E r \in Callbacks :
             \/ \E n \in Counters, inv \in Invoices \cup {NoInvoice}, a \in Amounts :
                   Withdraw!Ask(r, n, inv, a)
             \/ Withdraw!WorkerNext(r)
       \/ \E inv \in Invoices : Withdraw!NodeSettles(inv)
    /\ RoomForDesk
    /\ UNCHANGED <<deskOwnVars, jobVars>>

DeskStep ==
    /\ \E r \in Requests : Desk!Ask(r) \/ Desk!Work(r)
    /\ RoomForCallbacks
    /\ UNCHANGED <<callbackVars, rewinds, jobVars>>

\* A reset or a termination that finds something to erase opens a new period
\* for the taps.
TakesBack == (HandleReset \/ HandleTerminate) /\ ~UNCHANGED doVars

\* The till's and the desk's money is moved by their own workers; what is left
\* for a lifecycle worker is the top-up of the login page.
JobStep ==
    /\ \E j \in Jobs : Life!Request(j) \/ Life!Work(j)
    /\ nextTxnId' = nextTxnId \/ \E a \in Amounts : HandleCredit(a)
    /\ IF TakesBack THEN rewinds < MaxRewinds /\ rewinds' = rewinds + 1
                    ELSE UNCHANGED rewinds
    /\ RoomForCallbacks /\ RoomForDesk
    /\ UNCHANGED <<callbackVars, deskOwnVars>>

SystemInit == DOInit /\ Withdraw!FlowInit /\ Desk!DeskInit /\ Life!LifeInit

SystemNext == CallbackStep \/ DeskStep \/ JobStep

\* What the parts assume of the constants, and that an operator may key any amount
\* up to the ceiling, because a full refund sends the balance that it reads.
SystemAssumption ==
    /\ Withdraw!FlowAssumption
    /\ Desk!DeskAssumption
    /\ Life!LifeAssumption
    /\ 1..MaxBalance \subseteq Amounts

SystemSpec == SystemInit /\ [][SystemNext]_systemVars

-----------------------------------------------------------------------------
(* Properties.                                                             *)

\* All that holds of each part whatever its surroundings do: nobody else on the
\* same card can break it.
SystemSafety ==
    /\ LedgerInv /\ VoidInv /\ CardInv
    /\ Withdraw!OneGrantPerTap
    /\ Withdraw!CompletedMeansPaid
    /\ Withdraw!FailedMeansUnpaid
    /\ Desk!CountedIsDone
    /\ Desk!VoidsCountedOnce
    /\ Desk!OutstandingFits
    /\ Life!IssuedOnce
    /\ Life!ActiveIsKnown
    /\ Life!KeyFits
    /\ Life!ActiveIsIssued
    /\ Life!WipeKeysFit

Leaves(a) == card'.balance = card.balance - a

\* Money leaves the card in two ways only, each time by the amount asked for and
\* noted by a worker: a callback that was let through to payment and now knows,
\* or has lost the answer, that it debited; and a charge at the till.  No refund,
\* void, wipe, lock, reactivation or programming ever takes any.
MoneyLeavesByCharge ==
    [][ card'.balance < card.balance =>
          \/ \E r \in Callbacks :
                Withdraw!At(r, "pay") /\ req'[r].debited /\ Leaves(req[r].amount)
          \/ \E r \in Requests :
                /\ Desk!At(r, "money") /\ op'[r].pc \in {"audit", "failed"}
                /\ op[r].kind = "pos_charge" /\ Leaves(op[r].amount) ]_card

=============================================================================
