------------------------- MODULE WithdrawFlow_proofs -------------------------
(***************************************************************************)
(* Callbacks of any number, on any number of taps: they use the object as  *)
(* CardReplayDO allows, and within one period between rewinds no two of    *)
(* them pay for the same tap.                                              *)
(***************************************************************************)
EXTENDS WithdrawFlow, CardReplayDO_proofs

(* The calls of the workers are calls of the object ------------------------ *)

\* What the callbacks ask of the object.
CallbackCall ==
    \/ ClaimNext
    \/ \E n \in Counters, a \in Amounts : HandleDebit(n, a)

LEMMA CallsAllowed ==
    ASSUME NEW n \in Counters, NEW inv \in Invoices \cup {NoInvoice},
           NEW a \in Amounts, NEW s \in {"completed", "failed"},
           \/ HandleRecordTap(n, inv) \/ HandleClaimTap(n, inv)
           \/ HandleUpdateTapStatus(n, s) \/ HandleDebit(n, a)
    PROVE  CallbackCall
<1>1. s \in Statuses
  BY FlowAssumption DEF FlowAssumption
<1>2. QED
  BY <1>1 DEF CallbackCall, ClaimNext

LEMMA WorkerTyped ==
    ASSUME FlowTypeOK, NEW r \in Requests, ~At(r, "idle")
    PROVE  req[r] \in Worker
BY DEF FlowTypeOK, At, Idle

LEMMA WorkerCalls ==
    \A r \in Requests : FlowTypeOK /\ WorkerNext(r) => CallbackCall \/ UNCHANGED doVars
<1> SUFFICES ASSUME FlowTypeOK, NEW r \in Requests, WorkerNext(r)
             PROVE  CallbackCall \/ UNCHANGED doVars
  OBVIOUS
<1>1. ~At(r, "idle")
  BY DEF WorkerNext, At, Record, Claim, RecordThrows, Debit, DebitThrows,
                SendToNode, NodeAnswers, Unsupported, Mark, MarkThrows, Crash, Running
<1>2. /\ req[r].counter \in Counters
      /\ req[r].invoice \in Invoices \cup {NoInvoice}
      /\ req[r].amount \in Amounts
  BY <1>1, WorkerTyped DEF Worker
<1>3. (IF req[r].ok THEN "completed" ELSE "failed") \in {"completed", "failed"}
  OBVIOUS
<1>4. CASE Record(r) \/ Claim(r) \/ RecordThrows(r)
  BY <1>2, <1>4, CallsAllowed DEF Record, Claim, RecordThrows
<1>5. CASE Debit(r) \/ DebitThrows(r)
  BY <1>2, <1>5, CallsAllowed DEF Debit, DebitThrows
<1>6. CASE Mark(r)
  BY <1>2, <1>3, <1>6, CallsAllowed DEF Mark
<1>7. CASE SendToNode(r) \/ NodeAnswers(r) \/ Unsupported(r) \/ MarkThrows(r) \/ Crash(r)
  BY <1>7 DEF SendToNode, NodeAnswers, Unsupported, MarkThrows, Crash
<1>8. QED
  BY <1>4, <1>5, <1>6, <1>7 DEF WorkerNext

\* Only a debit takes money, and the worker that called for it knows.
LEMMA WorkerTakes ==
    \A r \in Requests :
        FlowTypeOK /\ WorkerNext(r) /\ card'.balance < card.balance =>
            /\ At(r, "pay") /\ req'[r].debited
            /\ card'.balance = card.balance - req[r].amount
<1> SUFFICES ASSUME FlowTypeOK, NEW r \in Requests, WorkerNext(r), card'.balance < card.balance
             PROVE  /\ At(r, "pay") /\ req'[r].debited
                    /\ card'.balance = card.balance - req[r].amount
  OBVIOUS
<1>1. card \in Card /\ card.balance \in Int
  BY DEF FlowTypeOK, TypeOK, Card
<1>2. card' # card
  BY <1>1
<1>3. PICK yes \in BOOLEAN :
         At(r, "pay") /\ HandleDebit(req[r].counter, req[r].amount) /\ Debited(r, yes)
  BY <1>2 DEF WorkerNext, Record, Claim, RecordThrows, Debit, DebitThrows, SendToNode,
              NodeAnswers, Unsupported, Mark, MarkThrows, Crash, HandleRecordTap,
              HandleClaimTap, HandleUpdateTapStatus, doVars
<1>4. req[r] \in Worker /\ req[r].amount \in Int
  BY <1>3, WorkerTyped, DOAssumption DEF At, Worker, DOAssumption
<1>5. req'[r].debited
  BY <1>3, <1>4 DEF Debited, Becomes, FlowTypeOK, Worker
<1>6. card' = [card EXCEPT !.exists = TRUE, !.balance = @ + (-req[r].amount)]
  BY <1>3 DEF HandleDebit, Post
<1>7. card'.balance = card.balance + (-req[r].amount)
  BY <1>1, <1>6 DEF Card
<1>8. QED
  BY <1>1, <1>3, <1>4, <1>5, <1>7

LEMMA StepImplements == FlowTypeOK /\ [FlowNext]_flowVars => [DONext]_doVars
<1> SUFFICES ASSUME FlowTypeOK, FlowNext PROVE DONext \/ UNCHANGED doVars
  BY DEF flowVars, doVars
<1>1. ASSUME NEW r \in Requests, WorkerNext(r)
      PROVE  DONext \/ UNCHANGED doVars
  BY <1>1, WorkerCalls DEF CallbackCall, DONext, BalanceNext
<1>2. ASSUME NEW r \in Requests, NEW n, NEW inv, NEW a, Ask(r, n, inv, a)
      PROVE  UNCHANGED doVars
  BY <1>2 DEF Ask
<1>3. ASSUME NEW inv \in Invoices, NodeSettles(inv)
      PROVE  UNCHANGED doVars
  BY <1>3 DEF NodeSettles
<1>4. CASE Others \/ Rewind
  BY <1>4 DEF Others, Rewind, DONext
<1>5. QED
  BY <1>1, <1>2, <1>3, <1>4 DEF FlowNext

(* Types ------------------------------------------------------------------- *)

LEMMA BecomesType ==
    ASSUME FlowTypeOK, NEW r \in Requests, NEW w \in Worker, Becomes(r, w)
    PROVE  req' \in [Requests -> Worker \cup {Idle}]
BY DEF FlowTypeOK, Becomes

\* A worker's record keeps its type through every update the actions make.
LEMMA UpdateType ==
    ASSUME NEW w \in Worker, NEW yes \in BOOLEAN, FlowTypeOK
    PROVE  /\ \A pc \in Running \cup Ended : [w EXCEPT !.pc = pc] \in Worker
           /\ Granted(w) \in Worker
           /\ Granted(Presented(w)) \in Worker
           /\ [Presented(w) EXCEPT !.pc = "claim"] \in Worker
           /\ [w EXCEPT !.pc = "mark", !.ok = yes] \in Worker
           /\ [w EXCEPT !.pc = "mark", !.ok = yes, !.debited = TRUE] \in Worker
<1>1. rewinds \in {Never} \cup 0..MaxRewinds
  BY DEF FlowTypeOK
<1>2. Presented(w) \in Worker
  BY <1>1 DEF Presented, Worker
<1>3. ASSUME NEW v \in Worker
      PROVE  Granted(v) \in Worker
  BY <1>1 DEF Granted, Worker, Running
<1>4. ASSUME NEW v \in Worker, NEW pc \in Running \cup Ended
      PROVE  [v EXCEPT !.pc = pc] \in Worker
  BY DEF Worker
<1>5. "claim" \in Running /\ "mark" \in Running
  BY DEF Running
<1>6. [w EXCEPT !.pc = "mark", !.ok = yes] \in Worker
  BY <1>5 DEF Worker
<1>7. [w EXCEPT !.pc = "mark", !.ok = yes, !.debited = TRUE] \in Worker
  BY <1>5 DEF Worker
<1>8. QED
  BY <1>2, <1>3, <1>4, <1>5, <1>6, <1>7

LEMMA AskType ==
    ASSUME FlowTypeOK, NEW r \in Requests, NEW n \in Counters,
           NEW inv \in Invoices \cup {NoInvoice}, NEW a \in Amounts, Ask(r, n, inv, a)
    PROVE  /\ req' \in [Requests -> Worker \cup {Idle}]
           /\ node' = node /\ rewinds' = rewinds
           /\ faults' \in 0..MaxFaults
<1>1. PICK m \in Methods \cup {DefaultMethod} :
        /\ ConfigRead(m)
        /\ Becomes(r, [pc |-> "record", counter |-> n, invoice |-> inv, amount |-> a,
                       method |-> m, presented |-> Never, granted |-> Never,
                       ok |-> FALSE, debited |-> FALSE, dead |-> card.state = "terminated"])
  BY DEF Ask
<1>2. [pc |-> "record", counter |-> n, invoice |-> inv, amount |-> a,
       method |-> m, presented |-> Never, granted |-> Never,
       ok |-> FALSE, debited |-> FALSE, dead |-> card.state = "terminated"] \in Worker
  BY DEF Worker, Running
<1>3. faults' \in 0..MaxFaults
  BY <1>1, FlowAssumption DEF ConfigRead, Fault, FlowTypeOK, FlowAssumption
<1>4. QED
  BY <1>1, <1>2, <1>3, BecomesType DEF Ask

LEMMA WorkerType ==
    ASSUME FlowTypeOK, NEW r \in Requests, WorkerNext(r)
    PROVE  /\ req' \in [Requests -> Worker \cup {Idle}]
           /\ node' \in [Invoices -> NodeStates]
           /\ rewinds' = rewinds
           /\ faults' \in 0..MaxFaults
<1>1. ~At(r, "idle")
  BY DEF WorkerNext, At, Record, Claim, RecordThrows, Debit, DebitThrows,
         SendToNode, NodeAnswers, Unsupported, Mark, MarkThrows, Crash, Running
<1>2. req[r] \in Worker
  BY <1>1, WorkerTyped
<1>3. rewinds' = rewinds
  BY DEF WorkerNext, Record, Claim, RecordThrows, Debit, DebitThrows,
         SendToNode, NodeAnswers, Unsupported, Mark, MarkThrows, Crash
<1>4. faults' = faults \/ Fault
  BY DEF WorkerNext, Record, Claim, RecordThrows, Debit, DebitThrows,
         SendToNode, NodeAnswers, Unsupported, Mark, MarkThrows, Crash
<1>5. faults' \in 0..MaxFaults
  BY <1>4, FlowAssumption DEF Fault, FlowTypeOK, FlowAssumption
<1>6. node' \in [Invoices -> NodeStates]
  <2>1. CASE SendToNode(r)
    BY <2>1 DEF SendToNode, FlowTypeOK, NodeStates
  <2>2. CASE ~SendToNode(r)
    BY <2>2 DEF FlowTypeOK, WorkerNext, Record, Claim, RecordThrows, Debit, DebitThrows,
                NodeAnswers, Unsupported, Mark, MarkThrows, Crash
  <2>3. QED
    BY <2>1, <2>2
<1>7. ASSUME NEW pc \in Running \cup Ended, Goto(r, pc)
      PROVE  req' \in [Requests -> Worker \cup {Idle}]
  BY <1>2, <1>7, UpdateType, BecomesType DEF Goto
<1>8. ASSUME NEW yes \in BOOLEAN, Paid(r, yes) \/ Debited(r, yes)
      PROVE  req' \in [Requests -> Worker \cup {Idle}]
  BY <1>2, <1>8, UpdateType, BecomesType DEF Paid, Debited
<1>9. req' \in [Requests -> Worker \cup {Idle}]
  <2>1. CASE Record(r)
    BY <1>2, <2>1, UpdateType, BecomesType DEF Record
  <2>2. CASE Claim(r)
    BY <1>2, <1>7, <2>2, UpdateType, BecomesType DEF Claim, Ended
  <2>3. CASE RecordThrows(r)
    BY <1>7, <2>3 DEF RecordThrows, Ended
  <2>4. CASE Debit(r) \/ DebitThrows(r)
    BY <1>8, <2>4 DEF Debit, DebitThrows
  <2>5. CASE SendToNode(r) \/ Mark(r) \/ MarkThrows(r) \/ Crash(r)
    BY <1>7, <2>5 DEF SendToNode, Mark, MarkThrows, Crash, Ended, Running
  <2>6. CASE NodeAnswers(r)
    <3>1. (req[r].invoice \in Invoices /\ node[req[r].invoice] = "paid") \in BOOLEAN
      OBVIOUS
    <3>2. QED
      BY <1>8, <2>6, <3>1 DEF NodeAnswers
  <2>7. CASE Unsupported(r)
    BY <1>8, <2>7 DEF Unsupported
  <2>8. QED
    BY <2>1, <2>2, <2>3, <2>4, <2>5, <2>6, <2>7 DEF WorkerNext
<1>10. QED
  BY <1>3, <1>5, <1>6, <1>9

LEMMA FlowStepType == FlowTypeOK /\ [FlowNext]_flowVars => FlowTypeOK'
<1> SUFFICES ASSUME FlowTypeOK, [FlowNext]_flowVars PROVE FlowTypeOK'
  OBVIOUS
<1>1. TypeOK'
  BY StepImplements, StepType DEF FlowTypeOK
<1>2. CASE UNCHANGED flowVars
  BY <1>1, <1>2 DEF flowVars, FlowTypeOK
<1>3. ASSUME NEW r \in Requests, NEW n \in Counters, NEW inv \in Invoices \cup {NoInvoice},
             NEW a \in Amounts, Ask(r, n, inv, a)
      PROVE  FlowTypeOK'
  BY <1>1, <1>3, AskType DEF FlowTypeOK
<1>4. ASSUME NEW r \in Requests, WorkerNext(r)
      PROVE  FlowTypeOK'
  BY <1>1, <1>4, WorkerType DEF FlowTypeOK
<1>5. ASSUME NEW inv \in Invoices, NodeSettles(inv)
      PROVE  FlowTypeOK'
  BY <1>1, <1>5 DEF NodeSettles, FlowTypeOK, NodeStates
<1>6. CASE Others
  BY <1>1, <1>6 DEF Others, FlowTypeOK
<1>7. CASE Rewind
  BY <1>1, <1>7, FlowAssumption DEF Rewind, FlowTypeOK, FlowAssumption
<1>8. QED
  BY <1>2, <1>3, <1>4, <1>5, <1>6, <1>7 DEF FlowNext

LEMMA FlowInitType == FlowInit => FlowTypeOK
BY InitType, FlowAssumption DEF FlowInit, FlowTypeOK, NodeStates, FlowAssumption

\* Every variable keeps its type, whatever callbacks, crashes and rewinds do.
THEOREM FlowTypeCorrect == FlowSpec => []FlowTypeOK
BY FlowInitType, FlowStepType, PTL DEF FlowSpec

\* Seen from the object, callbacks, lost calls and crashed workers are nothing
\* but sequences of its handlers: all that holds of CardReplayDO holds here.
THEOREM FlowImplementsDO == FlowSpec => DOSpec
<1>1. FlowInit => DOInit
  BY DEF FlowInit
<1>2. QED
  BY <1>1, FlowInitType, FlowStepType, StepImplements, PTL DEF FlowSpec, DOSpec

(* One grant per tap --------------------------------------------------------*)

\* A worker's marks are of this period or earlier, and follow its pc.
Sane(r) ==
    Asked(r) =>
      /\ req[r].presented <= rewinds
      /\ req[r].granted <= rewinds
      /\ req[r].pc \in {"record", "claim"} => req[r].granted = Never

\* A tap presented in this period lies behind the counter, so recordTap can
\* neither accept it again nor replace its row.
Seen(r) == Asked(r) /\ req[r].presented = rewinds => req[r].counter <= last

\* A grant of this period leaves the invoice in the row, where claimTap sees it.
Held(r) == HoldsTap(r, rewinds) => Claimed(req[r].counter)

Grants == /\ \A r \in Requests : Sane(r) /\ Seen(r) /\ Held(r)
          /\ OneGrantPerTap

\* What the object does to taps behind the counter.
LEMMA CallKeepsClaims ==
    ASSUME FlowTypeOK, NEW m \in Counters, m <= last,
           NEW n \in Counters, NEW inv \in Invoices \cup {NoInvoice}, NEW s,
           \/ HandleRecordTap(n, inv) \/ HandleClaimTap(n, inv)
           \/ HandleUpdateTapStatus(n, s) \/ HandleCheck(n) \/ HandleRecordRead(n)
    PROVE  m <= last' /\ (Claimed(m) => Claimed(m)')
<1>1. /\ m \in Nat /\ n \in Nat /\ last \in Int
      /\ taps \in TapTable
  BY DOAssumption DEF FlowTypeOK, TypeOK, DOAssumption, NoCounter
<1>2. CASE HandleRecordTap(n, inv)
  <2>1. n # m /\ m <= last'
    BY <1>1, <1>2 DEF HandleRecordTap, CounterFresh
  <2>2. QED
    BY <1>2, <2>1 DEF HandleRecordTap, Put, Claimed
<1>3. CASE HandleClaimTap(n, inv)
  BY <1>1, <1>3 DEF HandleClaimTap, Put, Claimed
<1>4. CASE HandleUpdateTapStatus(n, s)
  <2>1. ASSUME Claimed(m) PROVE Claimed(m)'
    <3>1. PICK S \in SUBSET Counters : taps \in [S -> Tap]
      BY <1>1 DEF TapTable
    <3>2. m \in S /\ taps[m] \in Tap /\ taps[m].bolt11 # NoInvoice
      BY <2>1, <3>1 DEF Claimed
    <3>3. m \in DOMAIN taps' /\ taps'[m].bolt11 = taps[m].bolt11
      BY <1>4, <3>1, <3>2 DEF HandleUpdateTapStatus, Tap
    <3>4. QED
      BY <3>2, <3>3 DEF Claimed
  <2>2. QED
    BY <1>4, <2>1 DEF HandleUpdateTapStatus
<1>5. CASE HandleCheck(n)
  BY <1>1, <1>5 DEF HandleCheck, CounterFresh, Claimed
<1>6. CASE HandleRecordRead(n)
  BY <1>6 DEF HandleRecordRead, Put, Claimed
<1>7. QED
  BY <1>2, <1>3, <1>4, <1>5, <1>6

\* Every step but a rewind keeps the claims behind the counter.
LEMMA StepKeepsClaims ==
    ASSUME FlowTypeOK, [FlowNext]_flowVars, rewinds' = rewinds,
           NEW m \in Counters, m <= last
    PROVE  m <= last' /\ (Claimed(m) => Claimed(m)')
<1>1. CASE UNCHANGED <<last, taps>>
  BY <1>1 DEF Claimed
<1>2. ASSUME NEW r \in Requests, WorkerNext(r)
      PROVE  m <= last' /\ (Claimed(m) => Claimed(m)')
  <2>1. ~At(r, "idle")
    BY <1>2 DEF WorkerNext, At, Record, Claim, RecordThrows, Debit, DebitThrows,
                SendToNode, NodeAnswers, Unsupported, Mark, MarkThrows, Crash, Running
  <2>2. /\ req[r].counter \in Counters
        /\ req[r].invoice \in Invoices \cup {NoInvoice}
    BY <2>1, WorkerTyped DEF Worker
  <2>3. CASE Record(r) \/ Claim(r) \/ RecordThrows(r)
    BY <1>1, <2>2, <2>3, CallKeepsClaims DEF Record, Claim, RecordThrows, doVars
  <2>4. CASE Mark(r)
    BY <1>1, <2>2, <2>4, CallKeepsClaims DEF Mark, doVars
  <2>5. CASE Debit(r) \/ DebitThrows(r) \/ SendToNode(r) \/ NodeAnswers(r)
             \/ Unsupported(r) \/ MarkThrows(r) \/ Crash(r)
    BY <1>1, <2>5 DEF Debit, DebitThrows, HandleDebit, Post, SendToNode, NodeAnswers,
                      Unsupported, MarkThrows, Crash, doVars
  <2>6. QED
    BY <1>2, <2>3, <2>4, <2>5 DEF WorkerNext
<1>3. ASSUME NEW r \in Requests, NEW n, NEW inv, NEW a, Ask(r, n, inv, a)
      PROVE  UNCHANGED <<last, taps>>
  BY <1>3 DEF Ask, doVars
<1>4. ASSUME NEW inv \in Invoices, NodeSettles(inv)
      PROVE  UNCHANGED <<last, taps>>
  BY <1>4 DEF NodeSettles, doVars
<1>5. CASE Others
  <2>1. CASE PresentNext
    <3>1. PICK n \in Counters : HandleCheck(n) \/ HandleRecordRead(n)
      BY <2>1 DEF PresentNext
    <3>2. QED
      BY <3>1, CallKeepsClaims
  <2>2. CASE BalanceNext \/ StateNext \/ ConfigNext
    BY <1>1, <2>2 DEF BalanceNext, HandleCredit, HandleDebit, HandleVoid, Post,
           StateNext, SetCard, HandleDeliverKeys, HandleActivate, HandleDiscover,
           HandleRequestWipe, HandleMarkPending,
           ConfigNext, HandleSetConfig, HandleSetK2, HandleExportState
  <2>3. QED
    BY <1>5, <2>1, <2>2 DEF Others
<1>6. ~Rewind
  BY DEF Rewind, FlowTypeOK
<1>7. QED
  BY <1>1, <1>2, <1>3, <1>4, <1>5, <1>6 DEF FlowNext, flowVars

LEMMA AskedType ==
    ASSUME FlowTypeOK, NEW r \in Requests, Asked(r)
    PROVE  req[r] \in Worker
BY DEF FlowTypeOK, Asked, Idle

\* A request whose worker record did not move is as good as before.
LEMMA BystanderGrants ==
    ASSUME FlowTypeOK, [FlowNext]_flowVars, rewinds' = rewinds,
           NEW s \in Requests, req'[s] = req[s], Sane(s), Seen(s), Held(s)
    PROVE  Sane(s)' /\ Seen(s)' /\ Held(s)'
<1>1. CASE ~Asked(s)
  BY <1>1 DEF Asked, Sane, Seen, Held, HoldsTap
<1>2. CASE Asked(s)
  <2>1. req[s].counter \in Counters
    BY <1>2, AskedType DEF Worker
  <2>2. req[s].presented = rewinds =>
          /\ req[s].counter <= last'
          /\ Claimed(req[s].counter) => Claimed(req[s].counter)'
    BY <1>2, <2>1, StepKeepsClaims DEF Seen
  <2>3. QED
    BY <2>2 DEF Asked, Sane, Seen, Held, HoldsTap
<1>3. QED
  BY <1>1, <1>2

\* What a worker's step does to its marks.
Untouched(r) ==
    /\ req'[r].counter = req[r].counter /\ req'[r].invoice = req[r].invoice
    /\ req'[r].presented = req[r].presented /\ req'[r].granted = req[r].granted
    /\ req'[r].pc \notin {"idle", "record", "claim"}
Accepted(r) ==
    /\ HandleRecordTap(req[r].counter, req[r].invoice)
    /\ req[r].granted = Never /\ req'[r].debited = req[r].debited
    /\ req'[r].counter = req[r].counter /\ req'[r].invoice = req[r].invoice
    /\ req'[r].presented = rewinds /\ req'[r].granted = rewinds
    /\ req'[r].pc = "pay"
Refused(r) ==
    /\ ~CounterFresh(req[r].counter) /\ UNCHANGED doVars
    /\ req[r].granted = Never
    /\ req'[r].counter = req[r].counter /\ req'[r].invoice = req[r].invoice
    /\ req'[r].presented = rewinds /\ req'[r].granted = req[r].granted
    /\ req'[r].pc = "claim"
Took(r) ==
    /\ HandleClaimTap(req[r].counter, req[r].invoice)
    /\ req[r].granted = Never /\ req'[r].debited = req[r].debited
    /\ req'[r].counter = req[r].counter /\ req'[r].invoice = req[r].invoice
    /\ req'[r].presented = req[r].presented /\ req'[r].granted = rewinds
    /\ req'[r].pc = "pay"

LEMMA WorkerCases ==
    ASSUME FlowTypeOK, NEW r \in Requests, WorkerNext(r), Sane(r)
    PROVE  /\ Asked(r) /\ rewinds' = rewinds
           /\ \A s \in Requests : s # r => req'[s] = req[s]
           /\ Untouched(r) \/ Accepted(r) \/ Refused(r) \/ Took(r)
<1>1. ~At(r, "idle")
  BY DEF WorkerNext, At, Record, Claim, RecordThrows, Debit, DebitThrows,
         SendToNode, NodeAnswers, Unsupported, Mark, MarkThrows, Crash, Running
<1>2. req[r] \in Worker /\ Asked(r) /\ req \in [Requests -> Worker \cup {Idle}]
  BY <1>1, WorkerTyped DEF Asked, At, FlowTypeOK
<1>3. ASSUME NEW w, Becomes(r, w)
      PROVE  req'[r] = w /\ \A s \in Requests : s # r => req'[s] = req[s]
  BY <1>2, <1>3 DEF Becomes
<1>4. ASSUME NEW pc \in (Running \cup Ended) \ {"record", "claim"}, Goto(r, pc)
      PROVE  Untouched(r) /\ \A s \in Requests : s # r => req'[s] = req[s]
  <2>1. req'[r] = [req[r] EXCEPT !.pc = pc]
    BY <1>3, <1>4 DEF Goto
  <2>2. QED
    BY <1>2, <1>3, <1>4, <2>1 DEF Goto, Untouched, Worker, Running, Ended
<1>5. ASSUME NEW yes, Paid(r, yes) \/ Debited(r, yes)
      PROVE  Untouched(r) /\ \A s \in Requests : s # r => req'[s] = req[s]
  <2>1. \/ req'[r] = [req[r] EXCEPT !.pc = "mark", !.ok = yes]
        \/ req'[r] = [req[r] EXCEPT !.pc = "mark", !.ok = yes, !.debited = TRUE]
    BY <1>3, <1>5 DEF Paid, Debited
  <2>2. QED
    BY <1>2, <1>3, <1>5, <2>1 DEF Paid, Debited, Untouched, Worker
<1>6. CASE Record(r)
  <2>1. CASE /\ HandleRecordTap(req[r].counter, req[r].invoice)
             /\ Becomes(r, Granted(Presented(req[r])))
    <3>1. /\ req'[r] = Granted(Presented(req[r]))
          /\ req[r].granted = Never
      BY <1>2, <1>3, <1>6, <2>1 DEF Record, Sane, At
    <3>2. Accepted(r)
      BY <1>2, <2>1, <3>1 DEF Granted, Presented, Accepted, Worker
    <3>3. QED
      BY <1>2, <1>3, <1>6, <2>1, <3>2 DEF Record
  <2>2. CASE /\ ~CounterFresh(req[r].counter)
             /\ Becomes(r, [Presented(req[r]) EXCEPT !.pc = "claim"])
             /\ UNCHANGED doVars
    <3>1. req'[r] = [Presented(req[r]) EXCEPT !.pc = "claim"]
      BY <1>3, <2>2
    <3>2. req[r].granted = Never
      BY <1>2, <1>6 DEF Record, Sane, At
    <3>3. Refused(r)
      BY <1>2, <2>2, <3>1, <3>2 DEF Presented, Refused, Worker
    <3>4. QED
      BY <1>2, <1>3, <1>6, <2>2, <3>3 DEF Record
  <2>3. QED
    BY <1>6, <2>1, <2>2 DEF Record
<1>7. CASE Claim(r)
  <2>1. CASE /\ HandleClaimTap(req[r].counter, req[r].invoice)
             /\ Becomes(r, Granted(req[r]))
    <3>1. /\ req'[r] = Granted(req[r])
          /\ req[r].granted = Never
      BY <1>2, <1>3, <1>7, <2>1 DEF Claim, Sane, At
    <3>2. Took(r)
      BY <1>2, <2>1, <3>1 DEF Granted, Took, Worker
    <3>3. QED
      BY <1>2, <1>3, <1>7, <2>1, <3>2 DEF Claim
  <2>2. CASE Goto(r, "refused")
    BY <1>2, <1>4, <1>7, <2>2 DEF Claim, Ended
  <2>3. QED
    BY <1>7, <2>1, <2>2 DEF Claim
<1>8. CASE RecordThrows(r) \/ SendToNode(r) \/ Mark(r) \/ MarkThrows(r) \/ Crash(r)
  BY <1>2, <1>4, <1>8 DEF RecordThrows, SendToNode, Mark, MarkThrows, Crash, Running, Ended
<1>9. CASE Debit(r) \/ DebitThrows(r) \/ NodeAnswers(r) \/ Unsupported(r)
  BY <1>2, <1>5, <1>9 DEF Debit, DebitThrows, NodeAnswers, Unsupported
<1>10. QED
  BY <1>6, <1>7, <1>8, <1>9 DEF WorkerNext

LEMMA CounterType ==
    ASSUME FlowTypeOK, NEW r \in Requests, Asked(r)
    PROVE  req[r].counter \in Counters /\ req[r].counter \in Nat /\ last \in Int
<1>1. Counters \subseteq Nat
  BY DOAssumption DEF DOAssumption
<1>2. req[r].counter \in Counters
  BY AskedType DEF Worker
<1>3. last \in Counters \cup {NoCounter}
  BY DEF FlowTypeOK, TypeOK
<1>4. req[r].counter \in Nat
  BY <1>1, <1>2
<1>5. last \in Int
  BY <1>1, <1>3 DEF NoCounter
<1>6. QED
  BY <1>2, <1>4, <1>5

\* The worker that moved is as good as before.
LEMMA MoverGrants ==
    ASSUME FlowTypeOK, NEW r \in Requests, WorkerNext(r), Sane(r), Seen(r), Held(r)
    PROVE  Sane(r)' /\ Seen(r)' /\ Held(r)'
<1>1. /\ Asked(r) /\ rewinds' = rewinds /\ rewinds \in Nat
      /\ Untouched(r) \/ Accepted(r) \/ Refused(r) \/ Took(r)
  BY WorkerCases, FlowAssumption DEF FlowTypeOK, FlowAssumption
<1>2. /\ req[r].counter \in Counters /\ req[r].counter \in Nat
      /\ last \in Int
      /\ req[r].presented <= rewinds /\ req[r].granted <= rewinds
  BY <1>1, CounterType DEF Sane
<1>3. CASE Untouched(r)
  <2>1. [FlowNext]_flowVars
    BY DEF FlowNext
  <2>2. ASSUME req[r].presented = rewinds
        PROVE  /\ req[r].counter <= last'
               /\ Claimed(req[r].counter) => Claimed(req[r].counter)'
    <3>1. req[r].counter <= last
      BY <1>1, <2>2 DEF Seen
    <3>2. \A m \in Counters :
            m <= last => m <= last' /\ (Claimed(m) => Claimed(m)')
      BY <1>1, <2>1, StepKeepsClaims
    <3>3. QED
      BY <1>2, <1>3, <3>1, <3>2 DEF Untouched, Claimed
  <2>3. Sane(r)'
    BY <1>1, <1>2, <1>3 DEF Untouched, Sane
  <2>4. Seen(r)'
    BY <1>1, <1>3, <2>2 DEF Untouched, Seen
  <2>5. Held(r)'
    BY <1>1, <1>3, <2>2 DEF Untouched, Held, HoldsTap, Asked
  <2>6. QED
    BY <2>3, <2>4, <2>5
<1>4. CASE Accepted(r)
  <2>1. /\ last' = req[r].counter
        /\ taps' = Put(taps, req[r].counter,
                       [bolt11 |-> req[r].invoice, status |-> "pending"])
    BY <1>4 DEF Accepted, HandleRecordTap
  <2>2. Sane(r)' /\ Seen(r)'
    BY <1>1, <1>2, <1>4, <2>1 DEF Accepted, Sane, Seen
  <2>3. Held(r)'
    BY <1>4, <2>1 DEF Accepted, Held, HoldsTap, Claimed, Put
  <2>4. QED
    BY <2>2, <2>3
<1>5. CASE Refused(r)
  <2>1. req[r].counter <= last /\ last' = last
    BY <1>2, <1>5 DEF Refused, CounterFresh, doVars
  <2>2. Sane(r)' /\ Seen(r)'
    BY <1>1, <1>2, <1>5, <2>1 DEF Refused, Sane, Seen, Never
  <2>3. Held(r)'
    BY <1>1, <1>5 DEF Refused, Held, HoldsTap, Never
  <2>4. QED
    BY <2>2, <2>3
<1>6. CASE Took(r)
  <2>1. /\ last' = last
        /\ taps' = Put(taps, req[r].counter,
                       [bolt11 |-> req[r].invoice, status |-> "pending"])
    BY <1>6 DEF Took, HandleClaimTap
  <2>2. Sane(r)' /\ Seen(r)'
    BY <1>1, <1>2, <1>6, <2>1 DEF Took, Sane, Seen
  <2>3. Held(r)'
    BY <1>6, <2>1 DEF Took, Held, HoldsTap, Claimed, Put
  <2>4. QED
    BY <2>2, <2>3
<1>7. QED
  BY <1>1, <1>3, <1>4, <1>5, <1>6

\* A worker that gets hold of a tap is the first in its period.
LEMMA MoverFirst ==
    ASSUME FlowTypeOK, NEW r \in Requests, WorkerNext(r), Sane(r),
           NEW s \in Requests, s # r, Seen(s), Held(s),
           NEW p \in 0..MaxRewinds, HoldsTap(r, p)', ~HoldsTap(r, p),
           HoldsTap(s, p), req[s].counter = req[r].counter
    PROVE  FALSE
<1>1. /\ Asked(r)
      /\ Untouched(r) \/ Accepted(r) \/ Refused(r) \/ Took(r)
  BY WorkerCases
<1>2. req[r].counter \in Nat /\ last \in Int
  BY <1>1, CounterType
<1>3. ~Untouched(r)
  BY <1>1 DEF Untouched, HoldsTap
<1>4. ~Refused(r)
  BY DEF Refused, HoldsTap, Never
<1>5. ASSUME Accepted(r) PROVE FALSE
  <2>1. p = rewinds /\ last < req[r].counter
    BY <1>5 DEF Accepted, HoldsTap, HandleRecordTap, CounterFresh
  <2>2. req[s].counter <= last
    BY <2>1 DEF Seen, HoldsTap
  <2>3. QED
    BY <1>2, <2>1, <2>2
<1>6. ASSUME Took(r) PROVE FALSE
  BY <1>6 DEF Took, HoldsTap, HandleClaimTap, Held
<1>7. QED
  BY <1>1, <1>3, <1>4, <1>5, <1>6

LEMMA WorkerGrants ==
    ASSUME FlowTypeOK, Grants, NEW r \in Requests, WorkerNext(r)
    PROVE  Grants'
<1>1. /\ Sane(r) /\ Seen(r) /\ Held(r)
      /\ OneGrantPerTap
  BY DEF Grants
<1>2. /\ Asked(r) /\ rewinds' = rewinds
      /\ \A s \in Requests : s # r => req'[s] = req[s]
      /\ req'[r].counter = req[r].counter
  BY <1>1, WorkerCases DEF Untouched, Accepted, Refused, Took
<1>3. [FlowNext]_flowVars
  BY DEF FlowNext
<1>4. ASSUME NEW s \in Requests
      PROVE  Sane(s)' /\ Seen(s)' /\ Held(s)'
  <2>1. CASE s = r
    BY <1>1, <2>1, MoverGrants
  <2>2. CASE s # r
    BY <1>2, <1>3, <2>2, BystanderGrants DEF Grants
  <2>3. QED
    BY <2>1, <2>2
<1>5. ASSUME NEW s \in Requests, s # r, NEW p \in 0..MaxRewinds,
             HoldsTap(r, p)', HoldsTap(s, p)', (req[r].counter = req[s].counter)'
      PROVE  FALSE
  <2>1. HoldsTap(s, p) /\ req[s].counter = req[r].counter
    BY <1>2, <1>5 DEF HoldsTap, Asked
  <2>2. CASE HoldsTap(r, p)
    BY <1>1, <1>5, <2>1, <2>2 DEF OneGrantPerTap
  <2>3. CASE ~HoldsTap(r, p)
    BY <1>1, <1>5, <2>1, <2>3, MoverFirst DEF Grants
  <2>4. QED
    BY <2>2, <2>3
<1>6. ASSUME NEW s \in Requests, NEW t \in Requests, NEW p \in 0..MaxRewinds,
             HoldsTap(s, p)', HoldsTap(t, p)', (req[s].counter = req[t].counter)'
      PROVE  s = t
  <2>1. CASE s = r \/ t = r
    BY <1>5, <1>6, <2>1
  <2>2. CASE s # r /\ t # r
    <3>1. /\ HoldsTap(s, p) /\ HoldsTap(t, p)
          /\ req[s].counter = req[t].counter
      BY <1>2, <1>6, <2>2 DEF HoldsTap, Asked
    <3>2. QED
      BY <1>1, <3>1 DEF OneGrantPerTap
  <2>3. QED
    BY <2>1, <2>2
<1>7. QED
  BY <1>4, <1>6 DEF Grants, OneGrantPerTap

\* A new callback holds nothing yet.
LEMMA AskGrants ==
    ASSUME FlowTypeOK, Grants, NEW r \in Requests, NEW n \in Counters,
           NEW inv \in Invoices \cup {NoInvoice}, NEW a \in Amounts, Ask(r, n, inv, a)
    PROVE  Grants'
<1>1. /\ rewinds' = rewinds /\ rewinds \in Nat
      /\ req'[r].pc = "record"
      /\ req'[r].presented = Never /\ req'[r].granted = Never
      /\ \A s \in Requests : s # r => req'[s] = req[s]
  BY FlowAssumption DEF Ask, Becomes, FlowTypeOK, FlowAssumption
<1>2. [FlowNext]_flowVars
  BY DEF FlowNext
<1>3. ASSUME NEW s \in Requests
      PROVE  Sane(s)' /\ Seen(s)' /\ Held(s)'
  <2>1. CASE s = r
    BY <1>1, <2>1 DEF Sane, Seen, Held, HoldsTap, Never
  <2>2. CASE s # r
    BY <1>1, <1>2, <2>2, BystanderGrants DEF Grants
  <2>3. QED
    BY <2>1, <2>2
<1>4. ASSUME NEW s \in Requests, NEW p \in 0..MaxRewinds, HoldsTap(s, p)'
      PROVE  s # r /\ HoldsTap(s, p) /\ req'[s] = req[s]
  BY <1>1, <1>4 DEF HoldsTap, Never, Asked
<1>5. OneGrantPerTap'
  BY <1>4 DEF Grants, OneGrantPerTap
<1>6. QED
  BY <1>3, <1>5 DEF Grants

\* A rewind starts a period in which nobody has presented anything.
LEMMA RewindGrants ==
    ASSUME FlowTypeOK, Grants, Rewind
    PROVE  Grants'
<1>1. req' = req /\ rewinds' = rewinds + 1 /\ rewinds \in Nat
  BY FlowAssumption DEF Rewind, FlowTypeOK, FlowAssumption
<1>2. ASSUME NEW s \in Requests
      PROVE  Sane(s)' /\ Seen(s)' /\ Held(s)'
  <2>1. Asked(s) => /\ req[s].presented \in Int /\ req[s].granted \in Int
                    /\ req[s].presented <= rewinds /\ req[s].granted <= rewinds
                    /\ req[s].pc \in {"record", "claim"} => req[s].granted = Never
    BY AskedType DEF Grants, Sane, Worker, Never
  <2>2. QED
    BY <1>1, <2>1 DEF Sane, Seen, Held, HoldsTap, Asked
<1>3. OneGrantPerTap'
  BY <1>1 DEF Grants, OneGrantPerTap, HoldsTap, Asked
<1>4. QED
  BY <1>2, <1>3 DEF Grants

LEMMA StepGrants == FlowTypeOK /\ Grants /\ [FlowNext]_flowVars => Grants'
<1> SUFFICES ASSUME FlowTypeOK, Grants, [FlowNext]_flowVars PROVE Grants'
  OBVIOUS
<1>1. CASE req' = req /\ rewinds' = rewinds
  <2>1. ASSUME NEW s \in Requests
        PROVE  Sane(s)' /\ Seen(s)' /\ Held(s)'
    BY <1>1, BystanderGrants DEF Grants
  <2>2. OneGrantPerTap'
    BY <1>1 DEF Grants, OneGrantPerTap, HoldsTap, Asked
  <2>3. QED
    BY <2>1, <2>2 DEF Grants
<1>2. CASE UNCHANGED flowVars
  BY <1>1, <1>2 DEF flowVars
<1>3. ASSUME NEW r \in Requests, NEW n \in Counters, NEW inv \in Invoices \cup {NoInvoice},
             NEW a \in Amounts, Ask(r, n, inv, a)
      PROVE  Grants'
  BY <1>3, AskGrants
<1>4. ASSUME NEW r \in Requests, WorkerNext(r)
      PROVE  Grants'
  BY <1>4, WorkerGrants
<1>5. ASSUME NEW inv \in Invoices, NodeSettles(inv)
      PROVE  Grants'
  BY <1>1, <1>5 DEF NodeSettles
<1>6. CASE Others
  BY <1>1, <1>6 DEF Others
<1>7. CASE Rewind
  BY <1>7, RewindGrants
<1>8. QED
  BY <1>2, <1>3, <1>4, <1>5, <1>6, <1>7 DEF FlowNext

LEMMA InitGrants == FlowInit => Grants
BY DEF FlowInit, Grants, Sane, Seen, Held, HoldsTap, Asked, OneGrantPerTap, Idle

\* Double-spend prevention for any number of callbacks, taps, failures and
\* rewinds: recordTap wins a tap only ahead of the counter, claimTap only while
\* its row has no invoice, and within a period neither condition comes back.
THEOREM OneGrant == FlowSpec => []OneGrantPerTap
<1>1. Grants => OneGrantPerTap
  BY DEF Grants
<1>2. QED
  BY <1>1, FlowInitType, FlowStepType, InitGrants, StepGrants, PTL DEF FlowSpec

(* What is shown as completed was paid ---------------------------------------*)

Settled(r) ==
    \/ req[r].debited
    \/ req[r].invoice \in Invoices /\ node[req[r].invoice] = "paid"

PaidFor(n) == \E r \in Requests : On(r, n) /\ Settled(r)

Honest(table) ==
    \A n \in DOMAIN table : table[n].status = "completed" => PaidFor(n)

\* Also in the operator's file, which may become the object's; and a worker that
\* will mark its tap as completed has seen the payment.
Payments ==
    /\ Honest(taps)
    /\ Honest(file.taps)
    /\ \A r \in Requests : Asked(r) /\ req[r].ok => Settled(r)

LEMMA NodeRemembers ==
    ASSUME FlowTypeOK, [FlowNext]_flowVars, NEW inv \in Invoices, node[inv] = "paid"
    PROVE  node'[inv] = "paid"
<1>1. ASSUME NEW r \in Requests, SendToNode(r)
      PROVE  node'[inv] = "paid"
  BY <1>1 DEF SendToNode, FlowTypeOK
<1>2. ASSUME NEW i \in Invoices, NodeSettles(i)
      PROVE  node'[inv] = "paid"
  BY <1>2 DEF NodeSettles, FlowTypeOK
<1>3. QED
  BY <1>1, <1>2 DEF FlowNext, flowVars, Ask, WorkerNext, Record, Claim, RecordThrows, Debit,
                    DebitThrows, NodeAnswers, Unsupported, Mark, MarkThrows, Crash, Others, Rewind

\* What a worker's step does to what it carries, and to what it claims was paid.
Carries(r, w) ==
    /\ w.counter = req[r].counter /\ w.invoice = req[r].invoice
    /\ req[r].debited => w.debited
    /\ w.ok => \/ req[r].ok \/ w.debited
               \/ req[r].invoice \in Invoices /\ node[req[r].invoice] = "paid"

LEMMA WorkerCarries ==
    ASSUME FlowTypeOK, NEW r \in Requests, WorkerNext(r)
    PROVE  /\ Asked(r) /\ Asked(r)'
           /\ Carries(r, req'[r])
           /\ \A s \in Requests : s # r => req'[s] = req[s]
<1>1. ~At(r, "idle")
  BY DEF WorkerNext, At, Record, Claim, RecordThrows, Debit, DebitThrows,
         SendToNode, NodeAnswers, Unsupported, Mark, MarkThrows, Crash, Running
<1>2. req[r] \in Worker /\ Asked(r) /\ req \in [Requests -> Worker \cup {Idle}]
  BY <1>1, WorkerTyped DEF Asked, At, FlowTypeOK
<1>3. ASSUME NEW w \in Worker, Becomes(r, w), Carries(r, w)
      PROVE  /\ Asked(r)' /\ Carries(r, req'[r])
             /\ \A s \in Requests : s # r => req'[s] = req[s]
  <2>1. req'[r] = w /\ \A s \in Requests : s # r => req'[s] = req[s]
    BY <1>2, <1>3 DEF Becomes
  <2>2. w.pc # "idle"
    BY DEF Worker, Running, Ended
  <2>3. QED
    BY <1>3, <2>1, <2>2 DEF Asked
<1>4. ASSUME NEW pc \in Running \cup Ended
      PROVE  [req[r] EXCEPT !.pc = pc] \in Worker /\ Carries(r, [req[r] EXCEPT !.pc = pc])
  BY <1>2, UpdateType DEF Carries, Worker
<1>5. ASSUME NEW yes \in BOOLEAN
      PROVE  /\ [req[r] EXCEPT !.pc = "mark", !.ok = yes, !.debited = TRUE] \in Worker
             /\ Carries(r, [req[r] EXCEPT !.pc = "mark", !.ok = yes, !.debited = TRUE])
  BY <1>2, UpdateType DEF Carries, Worker
<1>6. ASSUME NEW yes \in BOOLEAN,
             yes => req[r].invoice \in Invoices /\ node[req[r].invoice] = "paid"
      PROVE  /\ [req[r] EXCEPT !.pc = "mark", !.ok = yes] \in Worker
             /\ Carries(r, [req[r] EXCEPT !.pc = "mark", !.ok = yes])
  <2>1. [req[r] EXCEPT !.pc = "mark", !.ok = yes] \in Worker
    BY <1>2, UpdateType
  <2>2. Carries(r, [req[r] EXCEPT !.pc = "mark", !.ok = yes])
    BY <1>2, <1>6 DEF Carries, Worker
  <2>3. QED
    BY <2>1, <2>2
<1>7. /\ Granted(req[r]) \in Worker /\ Carries(r, Granted(req[r]))
      /\ Granted(Presented(req[r])) \in Worker /\ Carries(r, Granted(Presented(req[r])))
      /\ [Presented(req[r]) EXCEPT !.pc = "claim"] \in Worker
      /\ Carries(r, [Presented(req[r]) EXCEPT !.pc = "claim"])
  BY <1>2, UpdateType DEF Carries, Granted, Presented, Worker
<1>8. CASE Record(r) \/ Claim(r)
  BY <1>2, <1>3, <1>4, <1>7, <1>8 DEF Record, Claim, Goto, Ended
<1>9. CASE RecordThrows(r) \/ SendToNode(r) \/ Mark(r) \/ MarkThrows(r) \/ Crash(r)
  BY <1>2, <1>3, <1>4, <1>9
     DEF RecordThrows, SendToNode, Mark, MarkThrows, Crash, Goto, Running, Ended
<1>10. CASE Debit(r) \/ DebitThrows(r) \/ Unsupported(r)
  BY <1>2, <1>3, <1>5, <1>6, <1>10 DEF Debit, DebitThrows, Unsupported, Paid, Debited
<1>11. CASE NodeAnswers(r)
  <2>1. (req[r].invoice \in Invoices /\ node[req[r].invoice] = "paid") \in BOOLEAN
    OBVIOUS
  <2>2. QED
    BY <1>2, <1>3, <1>6, <1>11, <2>1 DEF NodeAnswers, Paid
<1>12. QED
  BY <1>8, <1>9, <1>10, <1>11 DEF WorkerNext

\* What was paid stays paid.
LEMMA SettledLasts ==
    ASSUME FlowTypeOK, [FlowNext]_flowVars, NEW s \in Requests, Asked(s)
    PROVE  /\ Asked(s)' /\ req'[s].counter = req[s].counter
           /\ Settled(s) => Settled(s)'
           /\ req'[s].ok => req[s].ok \/ Settled(s)'
<1>1. \A inv \in Invoices : node[inv] = "paid" => node'[inv] = "paid"
  BY NodeRemembers
<1>2. ASSUME NEW r \in Requests, WorkerNext(r), s = r
      PROVE  /\ Asked(s)' /\ req'[s].counter = req[s].counter
             /\ Settled(s) => Settled(s)'
             /\ req'[s].ok => req[s].ok \/ Settled(s)'
  BY <1>1, <1>2, WorkerCarries DEF Carries, Settled
<1>3. ASSUME req'[s] = req[s]
      PROVE  /\ Asked(s)' /\ req'[s].counter = req[s].counter
             /\ Settled(s) => Settled(s)'
             /\ req'[s].ok => req[s].ok \/ Settled(s)'
  BY <1>1, <1>3 DEF Asked, Settled
<1>4. ASSUME NEW r \in Requests, WorkerNext(r), s # r
      PROVE  req'[s] = req[s]
  BY <1>4, WorkerCarries
<1>5. ASSUME NEW r \in Requests, NEW n, NEW inv, NEW a, Ask(r, n, inv, a)
      PROVE  req'[s] = req[s]
  BY <1>5 DEF Ask, At, Becomes, Asked, FlowTypeOK
<1>6. QED
  BY <1>2, <1>3, <1>4, <1>5 DEF FlowNext, flowVars, NodeSettles, Others, Rewind

\* Between rewinds a row changes only when it is written anew, unpaid, or when its
\* worker marks it; and a file is a copy of the tables.
Marks(r, n) ==
    /\ At(r, "mark") /\ req[r].counter = n /\ n \in DOMAIN taps
    /\ taps' = [taps EXCEPT ![n].status = IF req[r].ok THEN "completed" ELSE "failed"]
    /\ req' = [req EXCEPT ![r].pc = "done"]

Rows(n) ==
    \/ n \in DOMAIN taps /\ taps'[n] = taps[n]
    \/ taps'[n].status \in {"read", "pending"}
    \/ \E r \in Requests : Marks(r, n)

LEMMA PutRows ==
    ASSUME NEW n, NEW inv, HandleRecordTap(n, inv) \/ HandleClaimTap(n, inv)
    PROVE  file' = file /\ \A m \in DOMAIN taps' : Rows(m)
BY DEF HandleRecordTap, HandleClaimTap, Put, Rows

LEMMA RowsStep ==
    ASSUME FlowTypeOK, [FlowNext]_flowVars, ~Rewind
    PROVE  /\ \A n \in DOMAIN taps' : Rows(n)
           /\ file' = file \/ (file'.taps = taps /\ taps' = taps)
<1>1. ASSUME taps' = taps PROVE \A n \in DOMAIN taps' : Rows(n)
  BY <1>1 DEF Rows
<1>2. ASSUME NEW r \in Requests, WorkerNext(r)
      PROVE  file' = file /\ \A n \in DOMAIN taps' : Rows(n)
  <2>1. CASE Record(r) \/ Claim(r) \/ RecordThrows(r)
    BY <1>1, <2>1, PutRows DEF Record, Claim, RecordThrows, doVars
  <2>2. CASE Mark(r)
    <3>1. CASE HandleUpdateTapStatus(req[r].counter, IF req[r].ok THEN "completed" ELSE "failed")
      <4>1. Marks(r, req[r].counter)
        BY <2>2, <3>1 DEF Mark, Marks, HandleUpdateTapStatus, Goto, Becomes
      <4>2. \A n \in DOMAIN taps' : n = req[r].counter \/ (n \in DOMAIN taps /\ taps'[n] = taps[n])
        BY <3>1 DEF HandleUpdateTapStatus
      <4>3. file' = file
        BY <3>1 DEF HandleUpdateTapStatus
      <4>4. QED
        BY <4>1, <4>2, <4>3 DEF Rows
    <3>2. QED
      BY <1>1, <2>2, <3>1 DEF Mark, doVars
  <2>3. CASE Debit(r) \/ DebitThrows(r) \/ SendToNode(r) \/ NodeAnswers(r)
             \/ Unsupported(r) \/ MarkThrows(r) \/ Crash(r)
    BY <1>1, <2>3 DEF Debit, DebitThrows, HandleDebit, Post, SendToNode, NodeAnswers,
                      Unsupported, MarkThrows, Crash, doVars
  <2>4. QED
    BY <1>2, <2>1, <2>2, <2>3 DEF WorkerNext
<1>3. ASSUME NEW r, NEW n, NEW inv, NEW a, Ask(r, n, inv, a)
      PROVE  UNCHANGED <<taps, file>>
  BY <1>3 DEF Ask, doVars
<1>4. CASE Others
  <2>1. CASE PresentNext
    <3>1. PICK n \in Counters : HandleCheck(n) \/ HandleRecordRead(n)
      BY <2>1 DEF PresentNext
    <3>2. QED
      BY <1>1, <3>1 DEF HandleCheck, HandleRecordRead, Put, Rows
  <2>2. CASE HandleExportState
    BY <1>1, <2>2 DEF HandleExportState
  <2>3. CASE (BalanceNext \/ StateNext \/ ConfigNext) /\ ~HandleExportState
    BY <1>1, <2>3 DEF BalanceNext, HandleCredit, HandleDebit, HandleVoid, Post,
           StateNext, SetCard, HandleDeliverKeys, HandleActivate, HandleDiscover,
           HandleRequestWipe, HandleMarkPending, ConfigNext, HandleSetConfig, HandleSetK2
  <2>4. QED
    BY <1>4, <2>1, <2>2, <2>3 DEF Others
<1>5. CASE UNCHANGED flowVars
  BY <1>1, <1>5 DEF flowVars
<1>6. ASSUME NEW inv, NodeSettles(inv)
      PROVE  UNCHANGED <<taps, file>>
  BY <1>6 DEF NodeSettles, doVars
<1>7. CASE UNCHANGED <<taps, file>>
  BY <1>1, <1>7
<1>8. QED
  BY <1>2, <1>3, <1>4, <1>5, <1>6, <1>7 DEF FlowNext

LEMMA TablesTyped ==
    ASSUME FlowTypeOK
    PROVE  /\ DOMAIN taps \subseteq Counters /\ DOMAIN file.taps \subseteq Counters
           /\ \A n \in DOMAIN taps : taps[n] \in Tap
BY DEF FlowTypeOK, TypeOK, TapTable, Export

LEMMA PaidForLasts ==
    ASSUME FlowTypeOK, [FlowNext]_flowVars, NEW n, PaidFor(n)
    PROVE  PaidFor(n)'
BY SettledLasts DEF PaidFor, On

LEMMA PaymentsStep ==
    ASSUME FlowTypeOK, Payments, [FlowNext]_flowVars
    PROVE  Payments'
<1>1. ASSUME NEW table, table' = table, Honest(table) PROVE Honest(table)'
  BY <1>1, PaidForLasts DEF Honest
<1>2. ASSUME NEW s \in Requests, Asked(s)', req'[s].ok
      PROVE  Settled(s)'
  <2>1. CASE Asked(s)
    BY <1>2, <2>1, SettledLasts DEF Payments
  <2>2. CASE ~Asked(s)
    <3>1. \A r \in Requests : ~WorkerNext(r) \/ r # s
      BY <2>2, WorkerCarries
    <3>2. ASSUME NEW r \in Requests, WorkerNext(r) PROVE req'[s] = req[s]
      BY <3>1, <3>2, WorkerCarries
    <3>3. ASSUME NEW r \in Requests, NEW n, NEW inv, NEW a, Ask(r, n, inv, a)
          PROVE  req'[s] = req[s] \/ ~req'[s].ok
      BY <3>3 DEF Ask, Becomes, FlowTypeOK
    <3>4. req'[s] = req[s] \/ ~req'[s].ok
      BY <3>2, <3>3 DEF FlowNext, flowVars, NodeSettles, Others, Rewind
    <3>5. QED
      BY <1>2, <2>2, <3>4 DEF Asked
  <2>3. QED
    BY <2>1, <2>2
<1>3. CASE ~Rewind
  <2>1. Honest(taps)'
    <3>1. SUFFICES ASSUME NEW n \in DOMAIN taps', taps'[n].status = "completed"
                   PROVE  PaidFor(n)'
      BY DEF Honest
    <3>2. CASE n \in DOMAIN taps /\ taps'[n] = taps[n]
      BY <3>1, <3>2, PaidForLasts DEF Payments, Honest
    <3>3. ASSUME NEW r \in Requests, Marks(r, n) PROVE PaidFor(n)'
      <4>1. n \in DOMAIN taps /\ taps[n] \in Tap
        BY <3>3, TablesTyped DEF Marks
      <4>2. taps'[n].status = IF req[r].ok THEN "completed" ELSE "failed"
        BY <3>3, <4>1 DEF Marks, Tap
      <4>3. req[r].ok
        BY <3>1, <4>2
      <4>4. On(r, n)
        BY <3>3 DEF Marks, On, Asked, At
      <4>5. PaidFor(n)
        BY <4>3, <4>4 DEF Payments, PaidFor, On
      <4>6. QED
        BY <4>5, PaidForLasts
    <3>4. QED
      BY <1>3, <3>1, <3>2, <3>3, RowsStep DEF Rows
  <2>2. Honest(file.taps)'
    <3>1. CASE file' = file
      BY <3>1, PaidForLasts DEF Payments, Honest
    <3>2. CASE file'.taps = taps /\ taps' = taps
      BY <2>1, <3>2 DEF Honest
    <3>3. QED
      BY <1>3, <3>1, <3>2, RowsStep
  <2>3. QED
    BY <1>2, <2>1, <2>2 DEF Payments
<1>4. CASE Rewind
  <2>1. file' = file /\ (taps' = NoTaps \/ taps' = file.taps)
    BY <1>4 DEF Rewind, RewindNext, HandleReset, HandleTerminate, EraseTaps, HandleImportState
  <2>2. Honest(file.taps)'
    BY <2>1, PaidForLasts DEF Payments, Honest
  <2>3. Honest(taps)'
    BY <2>1, <2>2 DEF Honest, NoTaps
  <2>4. QED
    BY <1>2, <2>2, <2>3 DEF Payments
<1>5. QED
  BY <1>3, <1>4

LEMMA PaymentsInit == FlowInit => Payments
<1>1. SUFFICES ASSUME FlowInit PROVE Payments
  OBVIOUS
<1>2. taps = NoTaps /\ file \in {EmptyExport} \cup Exports
  BY <1>1 DEF FlowInit, DOInit
<1>3. Honest(taps)
  BY <1>2 DEF NoTaps, Honest
<1>4. Honest(file.taps)
  BY <1>2, FlowAssumption DEF EmptyExport, NoTaps, Honest
<1>5. \A r \in Requests : ~Asked(r)
  BY <1>1 DEF FlowInit, Asked, Idle
<1>6. QED
  BY <1>3, <1>4, <1>5 DEF Payments

\* For any number of callbacks, lost answers, dead workers, rewinds and restored
\* backups, a tap shown as completed was paid by a debit or by the node.
THEOREM CompletedWasPaid == FlowSpec => []CompletedMeansPaid
<1>1. Payments => CompletedMeansPaid
  BY DEF Payments, Honest, PaidFor, Settled, CompletedMeansPaid
<1>2. QED
  BY <1>1, FlowInitType, FlowStepType, PaymentsInit, PaymentsStep, PTL DEF FlowSpec

(* What is shown as failed was not paid --------------------------------------*)

\* A worker presents its tap once, then is granted it, then pays.
Ordered(r) ==
    Asked(r) =>
      /\ req[r].pc = "record" => req[r].presented = Never
      /\ req[r].pc = "claim" => req[r].presented # Never
      /\ req[r].pc \in {"pay", "node", "mark"} \/ req[r].debited => req[r].granted # Never
      /\ req[r].granted # Never => /\ req[r].presented # Never
                                   /\ req[r].presented <= req[r].granted

LEMMA WorkerOrdered ==
    ASSUME FlowTypeOK, NEW r \in Requests, WorkerNext(r), Sane(r), Ordered(r)
    PROVE  /\ Ordered(r)'
           /\ req[r].pc \in Running
           /\ req'[r].presented = req[r].presented \/ At(r, "record")
           /\ req'[r].invoice = req[r].invoice
<1>1. req[r].pc \in Running /\ ~At(r, "idle")
  BY DEF WorkerNext, At, Record, Claim, RecordThrows, Debit, DebitThrows,
         SendToNode, NodeAnswers, Unsupported, Mark, MarkThrows, Crash, Running
<1>2. req[r] \in Worker /\ Asked(r) /\ req \in [Requests -> Worker \cup {Idle}]
  BY <1>1, WorkerTyped DEF Asked, At, FlowTypeOK
<1>3. rewinds \in Nat /\ req[r].presented \in Int /\ req[r].presented <= rewinds
  BY <1>2, FlowAssumption DEF FlowTypeOK, Worker, Never, Sane
<1>4. \A w : Becomes(r, w) => req'[r] = w
  BY <1>2 DEF Becomes
<1>5. ASSUME NEW pc \in (Running \cup Ended) \ {"record", "claim"},
             req'[r] = [req[r] EXCEPT !.pc = pc],
             pc \in {"pay", "node", "mark"} => req[r].pc \in {"pay", "node", "mark"}
      PROVE  Ordered(r)' /\ req'[r].presented = req[r].presented /\ req'[r].invoice = req[r].invoice
  BY <1>2, <1>5 DEF Ordered, Worker
<1>6. ASSUME NEW yes \in BOOLEAN, req[r].pc \in {"pay", "node"},
             \/ req'[r] = [req[r] EXCEPT !.pc = "mark", !.ok = yes]
             \/ req'[r] = [req[r] EXCEPT !.pc = "mark", !.ok = yes, !.debited = TRUE]
      PROVE  Ordered(r)' /\ req'[r].presented = req[r].presented /\ req'[r].invoice = req[r].invoice
  BY <1>2, <1>6 DEF Ordered, Worker
<1>7. CASE Record(r)
  <2>1. At(r, "record") /\ req[r].granted = Never /\ ~req[r].debited
    BY <1>2, <1>7 DEF Record, At, Sane, Ordered
  <2>2. CASE req'[r] = Granted(Presented(req[r]))
    BY <1>1, <1>2, <1>3, <2>1, <2>2 DEF Granted, Presented, Ordered, Worker, Never
  <2>3. CASE req'[r] = [Presented(req[r]) EXCEPT !.pc = "claim"]
    BY <1>1, <1>2, <1>3, <2>1, <2>3 DEF Presented, Ordered, Worker, Never
  <2>4. QED
    BY <1>4, <1>7, <2>2, <2>3 DEF Record
<1>8. CASE Claim(r)
  <2>1. CASE req'[r] = Granted(req[r])
    <3>1. At(r, "claim") /\ req[r].presented # Never
      BY <1>2, <1>8 DEF Claim, At, Ordered
    <3>2. QED
      BY <1>1, <1>2, <1>3, <2>1, <3>1 DEF Granted, Ordered, Worker, Never
  <2>2. CASE req'[r] = [req[r] EXCEPT !.pc = "refused"]
    BY <1>1, <1>5, <2>2 DEF Ended
  <2>3. QED
    BY <1>4, <1>8, <2>1, <2>2 DEF Claim, Goto
<1>9. CASE RecordThrows(r) \/ SendToNode(r) \/ Mark(r) \/ MarkThrows(r) \/ Crash(r)
  <2>1. \A pc : Goto(r, pc) => req'[r] = [req[r] EXCEPT !.pc = pc]
    BY <1>4 DEF Goto
  <2>2. QED
    BY <1>1, <1>5, <1>9, <2>1
       DEF RecordThrows, SendToNode, Mark, MarkThrows, Crash, At, Running, Ended
<1>10. CASE Debit(r) \/ DebitThrows(r) \/ Unsupported(r)
  BY <1>1, <1>4, <1>6, <1>10 DEF Debit, DebitThrows, Unsupported, Paid, Debited, At
<1>11. CASE NodeAnswers(r)
  <2>1. (req[r].invoice \in Invoices /\ node[req[r].invoice] = "paid") \in BOOLEAN
    OBVIOUS
  <2>2. QED
    BY <1>1, <1>4, <1>6, <1>11, <2>1 DEF NodeAnswers, Paid, At
<1>12. QED
  BY <1>1, <1>7, <1>8, <1>9, <1>10, <1>11 DEF WorkerNext

\* All callbacks of a tap carry invoices, and belong to the present period.
Clean(n) ==
    \A s \in Requests : On(s, n) =>
        req[s].invoice # NoInvoice /\ req[s].presented \in {Never, rewinds}

\* Of a clean tap shown as failed, whoever was granted it has marked it so.
Failures(n) ==
    n \in DOMAIN taps /\ taps[n].status = "failed" /\ Clean(n) =>
        \A r \in Requests : On(r, n) /\ req[r].granted = rewinds =>
            req[r].pc = "done" /\ ~req[r].ok

Marked == (\A r \in Requests : Ordered(r)) /\ (\A n \in Counters : Failures(n))

\* Who does not move, or has just come in, is as it was, or holds nothing.
LEMMA OthersStand ==
    ASSUME FlowTypeOK, [FlowNext]_flowVars, NEW s \in Requests
    PROVE  \/ req'[s] = req[s]
           \/ WorkerNext(s)
           \/ /\ ~Asked(s)
              /\ req'[s].pc = "record" /\ req'[s].presented = Never
              /\ req'[s].granted = Never /\ ~req'[s].debited
<1>1. ASSUME NEW r \in Requests, WorkerNext(r), r # s
      PROVE  req'[s] = req[s]
  BY <1>1, WorkerCarries
<1>2. ASSUME NEW r \in Requests, NEW n, NEW inv, NEW a, Ask(r, n, inv, a)
      PROVE  \/ req'[s] = req[s]
             \/ /\ ~Asked(s)
                /\ req'[s].pc = "record" /\ req'[s].presented = Never
                /\ req'[s].granted = Never /\ ~req'[s].debited
  BY <1>2 DEF Ask, At, Becomes, Asked, FlowTypeOK
<1>3. QED
  BY <1>1, <1>2 DEF FlowNext, flowVars, NodeSettles, Others, Rewind

LEMMA OrderedStep ==
    ASSUME FlowTypeOK, Grants, Marked, [FlowNext]_flowVars, NEW s \in Requests
    PROVE  Ordered(s)'
<1>1. CASE req'[s] = req[s]
  BY <1>1 DEF Marked, Ordered, Asked
<1>2. CASE WorkerNext(s)
  BY <1>2, WorkerOrdered DEF Grants, Marked
<1>3. QED
  BY <1>1, <1>2, OthersStand DEF Ordered

\* A tap that is clean was clean before.
LEMMA CleanBefore ==
    ASSUME FlowTypeOK, Grants, Marked, [FlowNext]_flowVars, rewinds' = rewinds,
           NEW n \in Counters, Clean(n)'
    PROVE  Clean(n)
<1>1. SUFFICES ASSUME NEW s \in Requests, On(s, n)
               PROVE  req[s].invoice # NoInvoice /\ req[s].presented \in {Never, rewinds}
  BY DEF Clean
<1>2. On(s, n)'
  BY <1>1, SettledLasts DEF On
<1>3. req'[s].invoice # NoInvoice /\ req'[s].presented \in {Never, rewinds}
  BY <1>2 DEF Clean
<1>4. CASE req'[s] = req[s]
  BY <1>3, <1>4
<1>5. CASE WorkerNext(s)
  <2>1. /\ req'[s].presented = req[s].presented \/ At(s, "record")
        /\ req'[s].invoice = req[s].invoice
    BY <1>5, WorkerOrdered DEF Grants, Marked
  <2>2. At(s, "record") => req[s].presented = Never
    BY <1>1 DEF Marked, Ordered, At, On
  <2>3. QED
    BY <1>3, <2>1, <2>2
<1>6. QED
  BY <1>1, <1>4, <1>5, OthersStand DEF On

\* Whoever was granted a clean tap in this period holds it.
LEMMA CleanHolds ==
    ASSUME FlowTypeOK, Grants, Marked, NEW n \in Counters, Clean(n),
           NEW r \in Requests, On(r, n), req[r].granted # Never
    PROVE  HoldsTap(r, rewinds)
<1>1. Asked(r) /\ req[r] \in Worker
  BY AskedType DEF On
<1>2. req[r].presented = rewinds /\ req[r].invoice # NoInvoice
  BY <1>1 DEF Clean, Marked, Ordered
<1>3. req[r].granted <= rewinds /\ req[r].presented <= req[r].granted
  BY <1>1 DEF Grants, Sane, Marked, Ordered
<1>4. req[r].granted \in Int /\ rewinds \in Int
  BY <1>1 DEF Worker, Never, FlowTypeOK
<1>5. QED
  BY <1>1, <1>2, <1>3, <1>4 DEF HoldsTap

\* A row left alone: whoever holds its tap has not moved either.
LEMMA FailureKept ==
    ASSUME FlowTypeOK, Grants, Marked, [FlowNext]_flowVars, rewinds' = rewinds,
           NEW n \in DOMAIN taps, n \in DOMAIN taps', taps'[n] = taps[n],
           taps[n].status = "failed", Clean(n),
           NEW r \in Requests, On(r, n)', req'[r].granted = rewinds
    PROVE  req'[r].pc = "done" /\ ~req'[r].ok
<1>1. n \in Counters /\ rewinds # Never
  BY TablesTyped, FlowAssumption DEF FlowTypeOK, Never
<1>2. Asked(r) => req'[r].counter = req[r].counter
  BY SettledLasts
<1>3. ASSUME Asked(r), req[r].granted = rewinds
      PROVE  req[r].pc = "done" /\ ~req[r].ok
  BY <1>1, <1>2, <1>3 DEF On, Marked, Failures
<1>4. CASE req'[r] = req[r]
  BY <1>3, <1>4 DEF On, Asked
<1>5. ASSUME WorkerNext(r) PROVE FALSE
  <2>1. req[r].pc \in Running /\ Asked(r)
    BY <1>5, WorkerOrdered, WorkerCases DEF Grants, Marked
  <2>2. Untouched(r) \/ Accepted(r) \/ Refused(r) \/ Took(r)
    BY <1>5, WorkerCases DEF Grants
  <2>3. req[r].counter = n
    BY <1>2, <2>1 DEF On
  <2>4. ~Accepted(r) /\ ~Took(r)
    BY <2>3 DEF Accepted, Took, HandleRecordTap, HandleClaimTap, Put
  <2>5. ~Refused(r)
    BY <1>1 DEF Refused
  <2>6. ~Untouched(r)
    BY <1>3, <2>1 DEF Untouched, Running
  <2>7. QED
    BY <2>2, <2>4, <2>5, <2>6
<1>6. QED
  BY <1>1, <1>4, <1>5, OthersStand

LEMMA FailuresStep ==
    ASSUME FlowTypeOK, Grants, Marked, [FlowNext]_flowVars, NEW n \in Counters
    PROVE  Failures(n)'
<1>1. SUFFICES ASSUME n \in DOMAIN taps', taps'[n].status = "failed", Clean(n)',
                      NEW r \in Requests, On(r, n)', req'[r].granted = rewinds'
               PROVE  req'[r].pc = "done" /\ ~req'[r].ok
  BY DEF Failures
<1>2. CASE Rewind
  <2>1. req' = req /\ rewinds' = rewinds + 1 /\ rewinds \in Nat
    BY <1>2, FlowAssumption DEF Rewind, FlowTypeOK, FlowAssumption
  <2>2. Asked(r)
    BY <1>1, <2>1 DEF On, Asked
  <2>3. req[r].granted <= rewinds /\ req[r].granted \in Int
    BY <2>2, AskedType DEF Grants, Sane, Worker, Never
  <2>4. QED
    BY <1>1, <2>1, <2>3
<1>3. CASE ~Rewind
  <2>1. rewinds' = rewinds
    BY <1>3 DEF FlowNext, flowVars, Ask, WorkerNext, Record, Claim, RecordThrows, Debit,
                DebitThrows, SendToNode, NodeAnswers, Unsupported, Mark, MarkThrows, Crash,
                NodeSettles, Others
  <2>2. Clean(n)
    BY <1>1, <2>1, CleanBefore
  <2>3. CASE n \in DOMAIN taps /\ taps'[n] = taps[n]
    BY <1>1, <2>1, <2>2, <2>3, FailureKept
  <2>4. ASSUME NEW s \in Requests, Marks(s, n)
        PROVE  req'[r].pc = "done" /\ ~req'[r].ok
    <3>1. /\ At(s, "mark") /\ req[s].counter = n /\ taps[n] \in Tap
          /\ req[s] \in Worker /\ req' = [req EXCEPT ![s].pc = "done"]
          /\ taps'[n].status = IF req[s].ok THEN "completed" ELSE "failed"
      BY <2>4, TablesTyped, WorkerTyped DEF Marks, At, Tap
    <3>2. ~req[s].ok /\ req'[s].pc = "done" /\ req'[s].ok = req[s].ok
      BY <1>1, <3>1 DEF Worker, FlowTypeOK
    <3>3. On(s, n) /\ req[s].granted # Never
      BY <3>1 DEF On, Asked, At, Marked, Ordered
    <3>4. HoldsTap(s, rewinds)
      BY <2>2, <3>3, CleanHolds
    <3>5. CASE r # s
      <4>1. req'[r] = req[r] /\ rewinds # Never /\ rewinds \in 0..MaxRewinds
        BY <3>1, <3>5, FlowAssumption DEF FlowTypeOK, Never
      <4>2. On(r, n) /\ req[r].granted # Never
        BY <1>1, <2>1, <4>1 DEF On, Asked
      <4>3. HoldsTap(r, rewinds)
        BY <2>2, <4>2, CleanHolds
      <4>4. r = s
        BY <3>3, <3>4, <4>1, <4>2, <4>3 DEF Grants, OneGrantPerTap, On
      <4>5. QED
        BY <3>5, <4>4
    <3>6. QED
      BY <3>2, <3>5
  <2>5. QED
    BY <1>1, <1>3, <2>3, <2>4, RowsStep DEF Rows
<1>4. QED
  BY <1>2, <1>3

LEMMA MarkedStep == FlowTypeOK /\ Grants /\ Marked /\ [FlowNext]_flowVars => Marked'
<1>1. SUFFICES ASSUME FlowTypeOK, Grants, Marked, [FlowNext]_flowVars
               PROVE  Marked'
  OBVIOUS
<1>2. ASSUME NEW s \in Requests PROVE Ordered(s)'
  BY <1>1, OrderedStep
<1>3. ASSUME NEW n \in Counters PROVE Failures(n)'
  BY <1>1, FailuresStep
<1>4. QED
  BY <1>2, <1>3 DEF Marked

LEMMA MarkedInit == FlowInit => Marked
BY DEF FlowInit, Marked, Ordered, Failures, Asked, On, Idle

\* For any number of callbacks, a tap shown as failed cost the cardholder nothing,
\* except as FailedMeansUnpaid says: within a period its row is written anew for
\* the one callback that may pay, and only that one marks it.
THEOREM FailedWasUnpaid == FlowSpec => []FailedMeansUnpaid
<1>1. FlowTypeOK /\ Grants /\ Marked => FailedMeansUnpaid
  <2>1. SUFFICES ASSUME FlowTypeOK, Grants, Marked, NEW n \in DOMAIN taps,
                        taps[n].status = "failed",
                        \A s \in Requests : On(s, n) =>
                            /\ req[s].invoice # NoInvoice
                            /\ req[s].presented \in {Never, rewinds}
                            /\ req[s].debited => req[s].ok,
                        NEW r \in Requests, On(r, n), req[r].debited
                 PROVE  FALSE
    BY DEF FailedMeansUnpaid
  <2>2. n \in Counters /\ Clean(n)
    BY <2>1, TablesTyped DEF Clean
  <2>3. req[r].granted # Never
    BY <2>1 DEF Marked, Ordered, On
  <2>4. HoldsTap(r, rewinds)
    BY <2>1, <2>2, <2>3, CleanHolds
  <2>5. ~req[r].ok
    BY <2>1, <2>2, <2>4 DEF Marked, Failures, HoldsTap
  <2>6. QED
    BY <2>1, <2>5
<1>2. QED
  BY <1>1, FlowInitType, FlowStepType, InitGrants, StepGrants, MarkedInit, MarkedStep, PTL
     DEF FlowSpec

(* A tap is one voucher ------------------------------------------------------*)

\* Whoever was debited holds a voucher: a worker is granted first, then pays.
LEMMA SpendersHold == Marked => Spenders \subseteq Holders
BY DEF Marked, Ordered, Spenders, Holders, WithInvoice

\* A step that leaves marks and debits alone draws and spends nothing.
LEMMA SameVouchers ==
    ASSUME Marked, Holders' = Holders, Spenders' = Spenders,
           \A s \in Holders : /\ req'[s].counter = req[s].counter
                              /\ req'[s].presented = req[s].presented
                              /\ req'[s].granted = req[s].granted
    PROVE  /\ VouchersOf(Holders)' = VouchersOf(Holders)
           /\ VouchersOf(Spenders)' = VouchersOf(Spenders)
BY SpendersHold DEF VouchersOf

LEMMA DrawVoucher ==
    ASSUME FlowTypeOK, Grants, Marked, NEW r \in Requests, WorkerNext(r),
           Accepted(r) \/ Took(r), r \in Holders'
    PROVE  \E n \in Counters, q \in 0..rewinds : Promise!Draw(r, n, q)
<1>1. /\ Asked(r) /\ rewinds' = rewinds
      /\ \A s \in Requests : s # r => req'[s] = req[s]
      /\ Sane(r) /\ Ordered(r) /\ Ordered(r)'
  BY WorkerCases, WorkerOrdered DEF Grants, Marked
<1>2. /\ req[r].granted = Never /\ ~req[r].debited /\ ~req'[r].debited
      /\ req'[r].counter = req[r].counter /\ req'[r].granted = rewinds
  BY <1>1 DEF Accepted, Took, Ordered
<1>3. req[r].counter \in Counters /\ rewinds \in 0..MaxRewinds
  BY <1>1, CounterType DEF FlowTypeOK
<1>4. req'[r].presented \in 0..rewinds
  <2>1. req'[r].presented \in {Never} \cup 0..MaxRewinds
    BY <1>1, <1>3, AskedType DEF Accepted, Took, Worker
  <2>2. req'[r].presented # Never /\ req'[r].presented <= rewinds
    BY <1>1, <1>2, <1>3 DEF Ordered, Holders, WithInvoice, Never
  <2>3. QED
    BY <1>3, <2>1, <2>2, FlowAssumption DEF FlowAssumption
<1>5. Holders' = Holders \cup {r} /\ r \notin Holders /\ Holders \subseteq Requests
  BY <1>1, <1>2 DEF Holders, WithInvoice, Asked
<1>6. Spenders' = Spenders /\ Spenders \subseteq Holders
  BY <1>1, <1>2, SpendersHold DEF Spenders, WithInvoice, Asked
<1>7. VouchersOf(Spenders)' = VouchersOf(Spenders)
  BY <1>1, <1>5, <1>6 DEF VouchersOf
<1>8. VouchersOf(Holders)' =
        VouchersOf(Holders)
          \cup {Promise!Voucher(r, req[r].counter, req'[r].presented, rewinds)}
  BY <1>1, <1>2, <1>5 DEF VouchersOf, Promise!Voucher
<1>9. ASSUME NEW s \in Holders, req[s].counter = req[r].counter,
             req'[r].presented = rewinds,
             req[s].presented = rewinds, req[s].granted = rewinds
      PROVE  FALSE
  <2>1. s \in Requests /\ s # r /\ HoldsTap(s, rewinds)
    BY <1>5, <1>9 DEF Holders, WithInvoice, HoldsTap
  <2>2. HoldsTap(r, rewinds)' /\ ~HoldsTap(r, rewinds)
    BY <1>1, <1>2, <1>3, <1>9 DEF Holders, WithInvoice, HoldsTap, Never
  <2>3. QED
    BY <1>1, <1>3, <1>9, <2>1, <2>2, MoverFirst DEF Grants
<1>10. \A v \in VouchersOf(Holders) :
          /\ v.by # r
          /\ req'[r].presented = rewinds /\ v.tap = req[r].counter
                => ~(v.shown = rewinds /\ v.drawn = rewinds)
  BY <1>5, <1>9 DEF VouchersOf
<1>11. Promise!Draw(r, req[r].counter, req'[r].presented)
  BY <1>1, <1>7, <1>8, <1>10 DEF Promise!Draw
<1>12. QED
  BY <1>3, <1>4, <1>11

LEMMA SpendVoucher ==
    ASSUME FlowTypeOK, Grants, Marked, NEW r \in Requests, WorkerNext(r), Untouched(r)
    PROVE  \/ \E v \in VouchersOf(Holders) : Promise!Spend(v)
           \/ UNCHANGED <<rewinds, VouchersOf(Holders), VouchersOf(Spenders)>>
<1>1. /\ Asked(r) /\ Asked(r)' /\ rewinds' = rewinds
      /\ \A s \in Requests : s # r => req'[s] = req[s]
      /\ req[r].debited => req'[r].debited
      /\ Ordered(r)'
  BY WorkerCases, WorkerCarries, WorkerOrdered DEF Grants, Carries, Marked
<1>2. /\ Holders' = Holders /\ Holders \subseteq Requests
      /\ \A s \in Holders : /\ req'[s].counter = req[s].counter
                             /\ req'[s].presented = req[s].presented
                             /\ req'[s].granted = req[s].granted
  BY <1>1 DEF Holders, WithInvoice, Untouched, Asked
<1>3. VouchersOf(Holders)' = VouchersOf(Holders)
  BY <1>2 DEF VouchersOf
<1>4. CASE r \in Spenders' /\ r \notin Spenders
  <2>1. /\ Spenders' = Spenders \cup {r}
        /\ Spenders \subseteq Holders
    BY <1>1, <1>4, SpendersHold DEF Spenders, WithInvoice, Asked
  <2>2. r \in Holders
    BY <1>1, <1>2, <1>4 DEF Ordered, Spenders, Holders, WithInvoice
  <2> DEFINE v == [by |-> r, tap |-> req[r].counter,
                   shown |-> req[r].presented, drawn |-> req[r].granted]
  <2>3. v \in VouchersOf(Holders) /\ v \notin VouchersOf(Spenders)
    BY <1>4, <2>2 DEF VouchersOf
  <2>4. VouchersOf(Spenders)' = VouchersOf(Spenders) \cup {v}
    BY <1>2, <2>1, <2>2 DEF VouchersOf
  <2>5. Promise!Spend(v)
    BY <1>1, <1>3, <2>3, <2>4 DEF Promise!Spend
  <2>6. QED
    BY <2>3, <2>5
<1>5. CASE ~(r \in Spenders' /\ r \notin Spenders)
  <2>1. Spenders' = Spenders
    BY <1>1, <1>5 DEF Spenders, WithInvoice, Untouched, Asked
  <2>2. QED
    BY <1>1, <1>2, <2>1, SameVouchers
<1>6. QED
  BY <1>4, <1>5

LEMMA StepVoucher ==
    FlowTypeOK /\ Grants /\ Marked /\ [FlowNext]_flowVars =>
        [Promise!Next]_<<rewinds, VouchersOf(Holders), VouchersOf(Spenders)>>
<1> SUFFICES ASSUME FlowTypeOK, Grants, Marked, [FlowNext]_flowVars
             PROVE  \/ Promise!Next
                    \/ UNCHANGED <<rewinds, VouchersOf(Holders), VouchersOf(Spenders)>>
  OBVIOUS
<1>1. ASSUME req' = req
      PROVE  UNCHANGED <<VouchersOf(Holders), VouchersOf(Spenders)>>
  BY <1>1, SameVouchers DEF Holders, Spenders, WithInvoice, Asked
<1>2. ASSUME NEW r \in Requests, WorkerNext(r)
      PROVE  \/ Promise!Next
             \/ UNCHANGED <<rewinds, VouchersOf(Holders), VouchersOf(Spenders)>>
  <2>1. /\ rewinds' = rewinds
        /\ \A s \in Requests : s # r => req'[s] = req[s]
        /\ Untouched(r) \/ Accepted(r) \/ Refused(r) \/ Took(r)
    BY <1>2, WorkerCases DEF Grants
  <2>2. CASE Untouched(r)
    BY <1>2, <2>2, SpendVoucher DEF Promise!Next
  <2>3. CASE (Accepted(r) \/ Took(r)) /\ r \in Holders'
    BY <1>2, <2>3, DrawVoucher DEF Promise!Next
  <2>4. CASE (Accepted(r) \/ Took(r) \/ Refused(r)) /\ r \notin Holders'
    <3>1. r \notin Holders
      BY <2>4 DEF Accepted, Took, Refused, Holders
    <3>2. Holders' = Holders /\ \A s \in Holders : req'[s] = req[s]
      BY <2>1, <2>4, <3>1 DEF Holders, WithInvoice, Asked
    <3>3. Ordered(r)'
      BY <1>2, WorkerOrdered DEF Grants, Marked
    <3>4. r \notin Spenders /\ r \notin Spenders'
      BY <2>4, <3>1, <3>3, SpendersHold DEF Ordered, Spenders, Holders, WithInvoice
    <3>5. Spenders' = Spenders
      BY <2>1, <3>4 DEF Spenders, WithInvoice, Asked
    <3>6. QED
      BY <2>1, <3>2, <3>5, SameVouchers
  <2>5. CASE Refused(r) /\ r \in Holders'
    BY <2>5 DEF Refused, Holders
  <2>6. QED
    BY <2>1, <2>2, <2>3, <2>4, <2>5
<1>3. ASSUME NEW r \in Requests, NEW n, NEW inv, NEW a, Ask(r, n, inv, a)
      PROVE  UNCHANGED <<rewinds, VouchersOf(Holders), VouchersOf(Spenders)>>
  <2>1. /\ rewinds' = rewinds
        /\ ~Asked(r) /\ req'[r].granted = Never /\ ~req'[r].debited
        /\ \A s \in Requests : s # r => req'[s] = req[s]
    BY <1>3 DEF Ask, At, Asked, Becomes, FlowTypeOK
  <2>2. r \notin Holders /\ r \notin Holders' /\ r \notin Spenders /\ r \notin Spenders'
    BY <2>1 DEF Holders, Spenders, WithInvoice
  <2>3. Holders' = Holders /\ \A s \in Holders : req'[s] = req[s]
    BY <2>1, <2>2 DEF Holders, WithInvoice, Asked
  <2>4. Spenders' = Spenders
    BY <2>1, <2>2 DEF Spenders, WithInvoice, Asked
  <2>5. QED
    BY <2>1, <2>3, <2>4, SameVouchers
<1>4. CASE Rewind
  BY <1>1, <1>4 DEF Rewind, Promise!Next, Promise!Renew
<1>5. CASE Others \/ \E inv \in Invoices : NodeSettles(inv)
  BY <1>1, <1>5 DEF Others, NodeSettles
<1>6. CASE UNCHANGED flowVars
  BY <1>1, <1>6 DEF flowVars
<1>7. QED
  BY <1>2, <1>3, <1>4, <1>5, <1>6 DEF FlowNext

LEMMA InitVoucher == FlowInit => Promise!Init
<1> SUFFICES ASSUME FlowInit PROVE Promise!Init
  OBVIOUS
<1>1. Holders = {} /\ Spenders = {}
  BY DEF FlowInit, Holders, Spenders, WithInvoice, Asked, Idle
<1>2. VouchersOf(Holders) = {} /\ VouchersOf(Spenders) = {}
  BY <1>1 DEF VouchersOf
<1>3. QED
  BY <1>2 DEF Promise!Init, FlowInit

\* For any number of callbacks and taps, lost answers and dead workers: the
\* callbacks implement the abstract voucher.  A grant draws it, by Grants the first
\* of its period, and a debit, by Ordered always after a grant, spends it.
THEOREM ImplementsVoucher == FlowSpec => VoucherSpec
<1>1. FlowInit => FlowTypeOK /\ Grants /\ Marked
  BY FlowInitType, InitGrants, MarkedInit
<1>2. FlowTypeOK /\ Grants /\ Marked /\ [FlowNext]_flowVars
        => (FlowTypeOK /\ Grants /\ Marked)'
  BY FlowStepType, StepGrants, MarkedStep
<1>3. QED
  BY <1>1, <1>2, InitVoucher, StepVoucher, PTL
     DEF FlowSpec, VoucherSpec, Promise!Spec

=============================================================================
