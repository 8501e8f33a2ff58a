---------------------------- MODULE PayFlow_proofs ----------------------------
(***************************************************************************)
(* LNURL-pay callbacks of any number, on any number of taps: they use the  *)
(* object as CardReplayDO allows, and no tap is shown as completed for     *)
(* which neither an invoice was issued nor a withdrawal came in.           *)
(***************************************************************************)
EXTENDS PayFlow, CardReplayDO_proofs

(* The calls of the workers are calls of the object ------------------------- *)

LEMMA RunningTyped ==
    ASSUME PayTypeOK, NEW r \in Requests, req[r].pc \in Running
    PROVE  req[r] \in Worker /\ req[r].counter \in Counters
BY DEF PayTypeOK, Worker, Resting, Running

LEMMA TapCallsAllowed ==
    ASSUME NEW n \in Counters, NEW inv \in Invoices \cup {NoInvoice},
           NEW s \in {"completed", "failed"},
           \/ HandleRecordTap(n, inv) \/ HandleClaimTap(n, inv) \/ HandleUpdateTapStatus(n, s)
    PROVE  DONext
BY PayAssumption DEF DONext, ClaimNext

LEMMA ServeRuns ==
    ASSUME NEW r \in Requests, Serve(r) \/ ServerAnswers(r)
    PROVE  req[r].pc \in Running
BY DEF Serve, ServerAnswers, At, Record, RecordThrows, FetchFails, ReadTerms, ReadInvoice,
       Mark, MarkThrows, Crash, Running

LEMMA StepImplements == PayTypeOK /\ [PayNext]_payVars => [DONext]_doVars
<1> SUFFICES ASSUME PayTypeOK, PayNext PROVE DONext \/ UNCHANGED doVars
  BY DEF payVars, doVars
<1>1. ASSUME NEW r \in Requests, Serve(r)
      PROVE  DONext \/ UNCHANGED doVars
  <2>1. req[r].counter \in Counters
    BY <1>1, ServeRuns, RunningTyped
  <2>2. CASE Record(r) \/ RecordThrows(r)
    BY <2>1, <2>2, TapCallsAllowed DEF Record, RecordThrows
  <2>3. CASE Mark(r) \/ MarkThrows(r)
    BY <2>1, <2>3, TapCallsAllowed DEF Mark, MarkThrows, MarkRow
  <2>4. CASE FetchFails(r) \/ ReadTerms(r) \/ ReadInvoice(r) \/ Crash(r)
    BY <2>4 DEF FetchFails, ReadTerms, ReadInvoice, Crash
  <2>5. QED
    BY <1>1, <2>2, <2>3, <2>4 DEF Serve
<1>2. ASSUME NEW r \in Requests, NEW n, Ask(r, n) \/ ServerAnswers(r)
      PROVE  UNCHANGED doVars
  BY <1>2 DEF Ask, ServerAnswers
<1>3. CASE Others
  BY <1>3 DEF Others, DONext, ConfigNext
<1>4. ASSUME NEW n \in Counters, Withdraw(n)
      PROVE  DONext
  BY <1>4, TapCallsAllowed DEF Withdraw
<1>5. CASE Rewind
  BY <1>5 DEF Rewind, DONext
<1>6. QED
  BY <1>1, <1>2, <1>3, <1>4, <1>5 DEF PayNext

(* Types ---------------------------------------------------------------------- *)

LEMMA BecomesType ==
    ASSUME PayTypeOK, NEW r \in Requests, NEW w \in Worker \cup Resting, Becomes(r, w)
    PROVE  /\ req' \in [Requests -> Worker \cup Resting]
           /\ req'[r] = w
           /\ \A q \in Requests \ {r} : req'[q] = req[q]
BY DEF PayTypeOK, Becomes

\* What a step of a worker leaves in its place: the same tap, at another await,
\* or the end.
LEMMA Places ==
    ASSUME NEW w \in Worker, NEW pc \in Running
    PROVE  /\ [w EXCEPT !.pc = pc] \in Worker
           /\ [w EXCEPT !.pc = pc].counter = w.counter
           /\ [w EXCEPT !.pc = pc].pc = pc
           /\ [w EXCEPT !.pc = pc, !.replayed = TRUE] \in Worker
           /\ [w EXCEPT !.pc = pc, !.replayed = TRUE].counter = w.counter
           /\ [w EXCEPT !.pc = pc, !.replayed = TRUE].pc = pc
           /\ [pc |-> "ended"] \in Resting
BY DEF Worker, Resting

Moves(r, pc) ==
    \E w \in Worker : w.pc = pc /\ w.counter = req[r].counter /\ Becomes(r, w)

LEMMA ServeMoves ==
    ASSUME PayTypeOK, NEW r \in Requests, Serve(r) \/ ServerAnswers(r)
    PROVE  \/ End(r)
           \/ \E pc \in {"terms", "termsBody", "invoice", "invoiceBody"} : Moves(r, pc)
           \/ ReadInvoice(r) /\ Moves(r, "mark")
<1>1. req[r] \in Worker
  BY ServeRuns, RunningTyped
<1>2. ASSUME NEW pc \in Running, Goto(r, pc)
      PROVE  Moves(r, pc)
  BY <1>1, <1>2, Places DEF Goto, Moves
<1>3. CASE Record(r)
  <2>1. CASE Goto(r, "terms")
    BY <1>2, <2>1 DEF Running
  <2>2. CASE Becomes(r, [req[r] EXCEPT !.pc = "terms", !.replayed = TRUE])
    <3>1. "terms" \in Running
      BY DEF Running
    <3>2. Moves(r, "terms")
      BY <1>1, <2>2, <3>1, Places DEF Moves
    <3>3. QED
      BY <3>2
  <2>3. QED
    BY <1>3, <2>1, <2>2 DEF Record
<1>4. CASE ReadInvoice(r)
  BY <1>2, <1>4 DEF ReadInvoice, Running
<1>5. CASE RecordThrows(r) \/ FetchFails(r) \/ Mark(r) \/ MarkThrows(r) \/ Crash(r)
  BY <1>5 DEF RecordThrows, FetchFails, Mark, MarkThrows, Crash
<1>6. CASE ReadTerms(r)
  BY <1>2, <1>6 DEF ReadTerms, Running
<1>7. CASE ServerAnswers(r)
  BY <1>2, <1>7 DEF ServerAnswers, Running
<1>8. QED
  BY <1>3, <1>4, <1>5, <1>6, <1>7 DEF Serve

LEMMA ServeType ==
    ASSUME PayTypeOK, NEW r \in Requests, Serve(r) \/ ServerAnswers(r)
    PROVE  /\ req' \in [Requests -> Worker \cup Resting]
           /\ issued' \in [Counters -> Nat]
           /\ fresh' \subseteq Counters
           /\ withdrawn' = withdrawn
           /\ faults' \in 0..MaxFaults
           /\ rewinds' = rewinds
<1>1. req[r].counter \in Counters
  BY ServeRuns, RunningTyped
<1>2. req' \in [Requests -> Worker \cup Resting]
  <2>1. [pc |-> "ended"] \in Worker \cup Resting
    BY DEF Resting
  <2>2. QED
    BY <2>1, ServeMoves, BecomesType DEF End, Moves
<1>3. issued' \in [Counters -> Nat] /\ fresh' \subseteq Counters
  BY <1>1 DEF PayTypeOK, Serve, ServerAnswers, Record, RecordThrows, FetchFails, ReadTerms,
              ReadInvoice, Mark, MarkThrows, Crash
<1>4. faults' = faults \/ Fault
  BY DEF Serve, ServerAnswers, Record, RecordThrows, FetchFails, ReadTerms, ReadInvoice, Mark,
         MarkThrows, Crash
<1>5. faults' \in 0..MaxFaults
  BY <1>4, PayAssumption DEF Fault, PayTypeOK
<1>6. withdrawn' = withdrawn /\ rewinds' = rewinds
  BY DEF Serve, ServerAnswers, Record, RecordThrows, FetchFails, ReadTerms, ReadInvoice, Mark,
         MarkThrows, Crash
<1>7. QED
  BY <1>2, <1>3, <1>5, <1>6

LEMMA AskType ==
    ASSUME PayTypeOK, NEW r \in Requests, NEW n \in Counters, Ask(r, n)
    PROVE  /\ req' \in [Requests -> Worker \cup Resting]
           /\ req'[r].pc = "record"
           /\ \A q \in Requests \ {r} : req'[q] = req[q]
<1>1. [pc |-> "record", counter |-> n, replayed |-> FALSE] \in Worker \cup Resting
  BY DEF Worker, Running
<1>2. QED
  BY <1>1, BecomesType DEF Ask

LEMMA PayStepType == PayTypeOK /\ [PayNext]_payVars => PayTypeOK'
<1> SUFFICES ASSUME PayTypeOK, [PayNext]_payVars PROVE PayTypeOK'
  OBVIOUS
<1>1. TypeOK'
  BY StepImplements, StepType DEF PayTypeOK
<1>2. CASE UNCHANGED payVars
  BY <1>1, <1>2 DEF payVars, PayTypeOK
<1>3. ASSUME NEW r \in Requests, NEW n \in Counters, Ask(r, n)
      PROVE  PayTypeOK'
  BY <1>1, <1>3, AskType DEF Ask, PayTypeOK
<1>4. ASSUME NEW r \in Requests, Serve(r) \/ ServerAnswers(r)
      PROVE  PayTypeOK'
  BY <1>1, <1>4, ServeType DEF PayTypeOK
<1>5. CASE Others
  BY <1>1, <1>5 DEF Others, PayTypeOK
<1>6. ASSUME NEW n \in Counters, Withdraw(n)
      PROVE  PayTypeOK'
  BY <1>1, <1>6 DEF Withdraw, PayTypeOK
<1>7. CASE Rewind
  BY <1>1, <1>7, PayAssumption DEF Rewind, PayTypeOK
<1>8. QED
  BY <1>2, <1>3, <1>4, <1>5, <1>6, <1>7 DEF PayNext

LEMMA PayInitType == PayInit => PayTypeOK
BY InitType, PayAssumption DEF PayInit, PayTypeOK, Resting

\* Every variable keeps its type, for any number of callbacks, taps and faults.
THEOREM PayTypeCorrect == PaySpec => []PayTypeOK
BY PayInitType, PayStepType, PTL DEF PaySpec

\* Seen from the object, pay callbacks, lost answers and dead workers are nothing
\* but sequences of its handlers: all that holds of CardReplayDO holds here.
THEOREM PayImplementsDO == PaySpec => DOSpec
<1>1. PayInit => DOInit
  BY DEF PayInit
<1>2. QED
  BY <1>1, PayInitType, PayStepType, StepImplements, PTL DEF PaySpec, DOSpec

(* No tap is completed for nothing -------------------------------------------- *)

Vouched(n) == issued[n] > 0 \/ n \in withdrawn

\* The rows of a table that are completed are vouched for.
Earned(table) ==
    \A n \in DOMAIN table : table[n].status = "completed" => Vouched(n)

\* Also those of the operator's file, which may become the object's; and a worker
\* that is about to mark its tap has seen an invoice for it.
Invoiced ==
    /\ Earned(taps)
    /\ Earned(file.taps)
    /\ \A r \in Requests : At(r, "mark") => issued[req[r].counter] > 0

LEMMA DomainType ==
    ASSUME PayTypeOK
    PROVE  /\ DOMAIN taps \subseteq Counters /\ DOMAIN file.taps \subseteq Counters
           /\ \A n \in DOMAIN taps : taps[n] \in Tap
BY DEF PayTypeOK, TypeOK, TapTable, Export

\* Vouching is never taken back.
LEMMA VouchingLasts ==
    ASSUME PayTypeOK, [PayNext]_payVars
    PROVE  /\ \A n \in Counters : issued[n] \in Nat /\ issued'[n] >= issued[n]
           /\ \A n \in Counters : Vouched(n) => Vouched(n)'
<1>1. \A n \in Counters : issued[n] \in Nat
  BY DEF PayTypeOK
<1>2. issued' = issued \/ \E n \in Counters : issued' = [issued EXCEPT ![n] = @ + 1]
  <2>1. ASSUME NEW r \in Requests, ReadInvoice(r)
        PROVE  issued' = issued \/ \E n \in Counters : issued' = [issued EXCEPT ![n] = @ + 1]
    <3>1. req[r].counter \in Counters
      BY <2>1, ServeRuns, RunningTyped DEF Serve
    <3>2. QED
      BY <2>1, <3>1 DEF ReadInvoice
  <2>2. QED
    BY <2>1 DEF PayNext, payVars, Ask, Serve, ServerAnswers, Record, RecordThrows, FetchFails,
                ReadTerms, Mark, MarkThrows, Crash, Others, Withdraw, Rewind
<1>3. \A n \in Counters : issued'[n] >= issued[n]
  BY <1>1, <1>2 DEF PayTypeOK
<1>4. withdrawn \subseteq withdrawn'
  BY DEF PayNext, payVars, Ask, Serve, ServerAnswers, Record, RecordThrows, FetchFails,
         ReadTerms, ReadInvoice, Mark, MarkThrows, Crash, Others, Withdraw, Rewind
<1>5. \A n \in Counters : issued'[n] \in Nat
  BY PayStepType DEF PayTypeOK
<1>6. QED
  BY <1>1, <1>3, <1>4, <1>5 DEF Vouched

\* The rows that a step writes are not completed, or it has been vouched for.
LEMMA EarnedStep ==
    ASSUME PayTypeOK, [PayNext]_payVars, Earned(taps),
           \A n \in DOMAIN taps' :
               \/ n \in DOMAIN taps /\ taps'[n] = taps[n]
               \/ taps'[n].status # "completed"
               \/ n \in Counters /\ Vouched(n)
    PROVE  Earned(taps)'
BY VouchingLasts, DomainType DEF Earned

LEMMA PutEarned ==
    ASSUME PayTypeOK, NEW n \in Counters, NEW inv,
           \/ HandleRecordTap(n, inv) \/ HandleClaimTap(n, inv) \/ HandleCheck(n)
           \/ HandleRecordRead(n) \/ HandleUpdateTapStatus(n, "failed")
    PROVE  /\ \A m \in DOMAIN taps' : \/ m \in DOMAIN taps /\ taps'[m] = taps[m]
                                      \/ taps'[m].status # "completed"
           /\ file' = file
<1>1. CASE HandleRecordTap(n, inv) \/ HandleClaimTap(n, inv) \/ HandleRecordRead(n)
  BY <1>1 DEF HandleRecordTap, HandleClaimTap, HandleRecordRead, Put
<1>2. CASE HandleCheck(n)
  BY <1>2 DEF HandleCheck
<1>3. CASE HandleUpdateTapStatus(n, "failed")
  <2>1. \A m \in DOMAIN taps : taps[m] \in Tap
    BY DomainType
  <2>2. QED
    BY <1>3, <2>1 DEF HandleUpdateTapStatus, Tap
<1>4. QED
  BY <1>1, <1>2, <1>3

LEMMA CompleteEarned ==
    ASSUME PayTypeOK, NEW n \in Counters, Vouched(n), HandleUpdateTapStatus(n, "completed")
    PROVE  /\ \A m \in DOMAIN taps' : \/ m \in DOMAIN taps /\ taps'[m] = taps[m]
                                      \/ m \in Counters /\ Vouched(m)
           /\ file' = file
BY DEF HandleUpdateTapStatus

\* A worker that reaches its mark has just been given an invoice.
LEMMA MarksInvoiced ==
    ASSUME PayTypeOK, Invoiced, [PayNext]_payVars, NEW q \in Requests, At(q, "mark")'
    PROVE  (issued[req[q].counter] > 0)'
<1>1. CASE req'[q] = req[q]
  <2>1. At(q, "mark") /\ issued[req[q].counter] > 0
    BY <1>1 DEF At, Invoiced
  <2>2. req[q].counter \in Counters
    BY <2>1, RunningTyped DEF At, Running
  <2>3. issued[req[q].counter] \in Nat /\ issued'[req[q].counter] >= issued[req[q].counter]
        /\ issued'[req[q].counter] \in Nat
    BY <2>2, VouchingLasts, PayStepType DEF PayTypeOK
  <2>4. QED
    BY <1>1, <2>1, <2>3
<1>2. CASE req'[q] # req[q]
  <2>1. ASSUME NEW r \in Requests, Serve(r) \/ ServerAnswers(r)
        PROVE  (issued[req[q].counter] > 0)'
    <3>1. ASSUME NEW w \in Worker \cup Resting, Becomes(r, w)
          PROVE  q = r /\ req'[q] = w
      BY <1>2, <3>1, BecomesType
    <3>2. [pc |-> "ended"] \in Worker \cup Resting
      BY DEF Resting
    <3>3. ~End(r)
      BY <3>1, <3>2 DEF End, At
    <3>4. \A pc \in {"terms", "termsBody", "invoice", "invoiceBody"} : ~Moves(r, pc)
      BY <3>1 DEF Moves, At
    <3>5. ReadInvoice(r) /\ Moves(r, "mark")
      BY <2>1, <3>3, <3>4, ServeMoves
    <3>6. q = r /\ req'[q].counter = req[r].counter
      BY <3>1, <3>5 DEF Moves
    <3>7. req[r].counter \in Counters
      BY <2>1, ServeRuns, RunningTyped
    <3>8. issued' = [issued EXCEPT ![req[r].counter] = @ + 1]
      BY <3>3, <3>5 DEF ReadInvoice
    <3>9. issued'[req[r].counter] > 0
      BY <3>7, <3>8 DEF PayTypeOK
    <3>10. QED
      BY <3>6, <3>9
  <2>2. ASSUME NEW r \in Requests, NEW n \in Counters, Ask(r, n)
        PROVE  FALSE
    BY <1>2, <2>2, AskType DEF At
  <2>3. QED
    BY <1>2, <2>1, <2>2 DEF PayNext, payVars, Others, Withdraw, Rewind
<1>3. QED
  BY <1>1, <1>2

LEMMA InvoicedStep ==
    ASSUME PayTypeOK, Invoiced, [PayNext]_payVars
    PROVE  Invoiced'
<1>1. \A q \in Requests : At(q, "mark")' => (issued[req[q].counter] > 0)'
  BY MarksInvoiced
<1>2. ASSUME \A n \in DOMAIN taps' :
                 \/ n \in DOMAIN taps /\ taps'[n] = taps[n]
                 \/ taps'[n].status # "completed"
                 \/ n \in Counters /\ Vouched(n),
             file' = file
      PROVE  Invoiced'
  <2>1. Earned(taps)'
    BY <1>2, EarnedStep DEF Invoiced
  <2>2. Earned(file.taps)'
    BY <1>2, VouchingLasts, DomainType DEF Invoiced, Earned
  <2>3. QED
    BY <1>1, <2>1, <2>2 DEF Invoiced
<1>3. ASSUME UNCHANGED <<taps, file>>
      PROVE  Invoiced'
  BY <1>2, <1>3
<1>4. ASSUME NEW r \in Requests, Serve(r)
      PROVE  Invoiced'
  <2>1. req[r].counter \in Counters
    BY <1>4, ServeRuns, RunningTyped
  <2>2. CASE Record(r) \/ RecordThrows(r)
    <3>1. CASE HandleRecordTap(req[r].counter, NoInvoice)
      BY <1>2, <2>1, <3>1, PutEarned
    <3>2. CASE UNCHANGED doVars
      BY <1>3, <3>2 DEF doVars
    <3>3. QED
      BY <2>2, <3>1, <3>2 DEF Record, RecordThrows
  <2>3. CASE Mark(r) \/ MarkThrows(r)
    <3>1. CASE HandleUpdateTapStatus(req[r].counter, "completed")
      <4>1. Vouched(req[r].counter)
        BY <2>3 DEF Mark, MarkThrows, Invoiced, Vouched
      <4>2. QED
        BY <1>2, <2>1, <3>1, <4>1, CompleteEarned
    <3>2. CASE UNCHANGED doVars
      BY <1>3, <3>2 DEF doVars
    <3>3. QED
      BY <2>3, <3>1, <3>2 DEF Mark, MarkThrows, MarkRow
  <2>4. CASE FetchFails(r) \/ ReadTerms(r) \/ ReadInvoice(r) \/ Crash(r)
    BY <1>3, <2>4 DEF FetchFails, ReadTerms, ReadInvoice, Crash, doVars
  <2>5. QED
    BY <1>4, <2>2, <2>3, <2>4 DEF Serve
<1>5. ASSUME NEW r \in Requests, NEW n, Ask(r, n) \/ ServerAnswers(r)
      PROVE  Invoiced'
  BY <1>3, <1>5 DEF Ask, ServerAnswers, doVars
<1>6. CASE Others
  <2>1. CASE PresentNext
    BY <1>2, <2>1, PutEarned DEF PresentNext
  <2>2. ASSUME NEW m, HandleSetConfig(NoKey, m)
        PROVE  Invoiced'
    BY <1>3, <2>2 DEF HandleSetConfig
  <2>3. CASE HandleExportState
    <3>1. taps' = taps /\ file'.taps = taps
      BY <2>3 DEF HandleExportState
    <3>2. Earned(taps)'
      BY <3>1, EarnedStep DEF Invoiced
    <3>3. Earned(file.taps)'
      BY <3>1, <3>2 DEF Earned
    <3>4. QED
      BY <1>1, <3>2, <3>3 DEF Invoiced
  <2>4. QED
    BY <1>6, <2>1, <2>2, <2>3 DEF Others
<1>7. ASSUME NEW n \in Counters, Withdraw(n)
      PROVE  Invoiced'
  <2>1. CASE \E inv \in Invoices : HandleRecordTap(n, inv) \/ HandleClaimTap(n, inv)
    BY <1>2, <2>1, PutEarned
  <2>2. CASE HandleUpdateTapStatus(n, "failed")
    BY <1>2, <2>2, PutEarned
  <2>3. CASE n \in withdrawn /\ HandleUpdateTapStatus(n, "completed")
    BY <1>2, <2>3, CompleteEarned DEF Vouched
  <2>4. QED
    BY <1>7, <2>1, <2>2, <2>3 DEF Withdraw
<1>8. CASE Rewind
  <2>1. CASE HandleReset \/ HandleTerminate
    <3>1. taps' = NoTaps /\ file' = file
      BY <2>1 DEF HandleReset, HandleTerminate, EraseTaps
    <3>2. QED
      BY <1>2, <3>1 DEF NoTaps
  <2>2. CASE HandleImportState
    <3>1. taps' = file.taps /\ file' = file
      BY <2>2 DEF HandleImportState
    <3>2. Earned(file.taps)' /\ Earned(taps)'
      BY <3>1, VouchingLasts, DomainType DEF Invoiced, Earned
    <3>3. QED
      BY <1>1, <3>2 DEF Invoiced
  <2>3. QED
    BY <1>8, <2>1, <2>2 DEF Rewind, RewindNext
<1>9. CASE UNCHANGED payVars
  BY <1>3, <1>9 DEF payVars
<1>10. QED
  BY <1>4, <1>5, <1>6, <1>7, <1>8, <1>9 DEF PayNext

LEMMA InvoicedInit == PayInit => Invoiced
<1>1. SUFFICES ASSUME PayInit PROVE Invoiced
  OBVIOUS
<1>2. taps = NoTaps /\ file \in {EmptyExport} \cup Exports
  BY <1>1 DEF PayInit, DOInit
<1>3. Earned(taps)
  BY <1>2 DEF NoTaps, Earned
<1>4. Earned(file.taps)
  <2>1. CASE file = EmptyExport
    BY <2>1 DEF EmptyExport, NoTaps, Earned
  <2>2. CASE file \in Exports
    BY <2>2, PayAssumption DEF Earned
  <2>3. QED
    BY <1>2, <2>1, <2>2
<1>5. \A r \in Requests : ~At(r, "mark")
  BY <1>1 DEF PayInit, At
<1>6. QED
  BY <1>3, <1>4, <1>5 DEF Invoiced

\* For any number of callbacks, retries, resets and restored backups, a tap is
\* shown as completed only when an invoice was issued for it or it was withdrawn.
THEOREM CompletedIsInvoiced == PaySpec => []CompletedMeansInvoiced
<1>1. PayTypeOK /\ Invoiced /\ [PayNext]_payVars => Invoiced'
  BY InvoicedStep
<1>2. Invoiced => CompletedMeansInvoiced
  BY DEF Invoiced, Earned, Vouched, CompletedMeansInvoiced
<1>3. QED
  BY PayTypeCorrect, InvoicedInit, <1>1, <1>2, PTL DEF PaySpec

(* A row that has seen an invoice is marked ------------------------------------ *)

\* Such a row is pending only while a worker is about to mark it, or after a
\* failure.
Unmarked(n) ==
    n \in DOMAIN taps /\ taps[n].status = "pending" /\ n \in fresh /\ n \notin withdrawn

Marked == \A n \in Counters :
    Unmarked(n) => faults > 0 \/ \E r \in Requests : At(r, "mark") /\ req[r].counter = n

LEMMA MarkedStep ==
    ASSUME PayTypeOK, Marked, [PayNext]_payVars
    PROVE  Marked'
<1>1. faults \in Nat /\ faults' \in Nat /\ MaxFaults \in Nat
  BY PayStepType, PayAssumption DEF PayTypeOK
<1>2. SUFFICES ASSUME NEW n \in Counters, Unmarked(n)', faults' <= 0
               PROVE  \E r \in Requests : At(r, "mark")' /\ req'[r].counter = n
  BY <1>1 DEF Marked
<1>3. ~Fault
  BY <1>1, <1>2 DEF Fault
<1>4. ASSUME Unmarked(n), faults' = faults,
             \A r \in Requests : At(r, "mark") => req'[r] = req[r]
      PROVE  \E r \in Requests : At(r, "mark")' /\ req'[r].counter = n
  <2>1. PICK r \in Requests : At(r, "mark") /\ req[r].counter = n
    BY <1>1, <1>2, <1>4 DEF Marked
  <2>2. At(r, "mark")' /\ req'[r].counter = n
    BY <1>4, <2>1 DEF At
  <2>3. QED
    BY <2>2
<1>5. ASSUME NEW r \in Requests, Serve(r) \/ ServerAnswers(r)
      PROVE  \E q \in Requests : At(q, "mark")' /\ req'[q].counter = n
  <2>1. /\ req[r].counter \in Counters
        /\ withdrawn' = withdrawn
    BY <1>5, ServeRuns, RunningTyped, ServeType
  <2>2. \A q \in Requests \ {r} : req'[q] = req[q]
    <3>1. [pc |-> "ended"] \in Worker \cup Resting
      BY DEF Resting
    <3>2. QED
      BY <1>5, <3>1, ServeMoves, BecomesType DEF End, Moves
  <2>3. ~RecordThrows(r) /\ ~MarkThrows(r) /\ ~Crash(r)
    BY <1>3 DEF RecordThrows, MarkThrows, Crash
  <2>4. CASE Record(r)
    <3>1. ~At(r, "mark") /\ faults' = faults
      BY <2>4 DEF Record, At
    <3>2. Unmarked(n)
      <4>1. CASE HandleRecordTap(req[r].counter, NoInvoice) /\ fresh' = fresh \ {req[r].counter}
        <5>1. n # req[r].counter /\ n \in fresh
          BY <1>2, <4>1 DEF Unmarked
        <5>2. QED
          BY <1>2, <2>1, <4>1, <5>1 DEF Unmarked, HandleRecordTap, Put
      <4>2. CASE UNCHANGED <<doVars, fresh>>
        BY <1>2, <2>1, <4>2 DEF Unmarked, doVars
      <4>3. QED
        BY <2>4, <4>1, <4>2 DEF Record
    <3>3. QED
      BY <1>4, <2>2, <3>1, <3>2
  <2>5. CASE FetchFails(r) \/ ReadTerms(r) \/ ServerAnswers(r)
    <3>1. ~At(r, "mark") /\ UNCHANGED <<doVars, fresh, faults>>
      BY <2>5 DEF FetchFails, ReadTerms, ServerAnswers, At
    <3>2. Unmarked(n)
      BY <1>2, <2>1, <3>1 DEF Unmarked, doVars
    <3>3. QED
      BY <1>4, <2>2, <3>1, <3>2
  <2>6. CASE ReadInvoice(r)
    <3>1. ~At(r, "mark") /\ UNCHANGED <<doVars, faults>>
      BY <2>6 DEF ReadInvoice, At
    <3>2. CASE n \in fresh
      <4>1. Unmarked(n)
        BY <1>2, <2>1, <3>1, <3>2 DEF Unmarked, doVars
      <4>2. QED
        BY <1>4, <2>2, <3>1, <4>1
    <3>3. CASE n \notin fresh
      <4>1. n \in fresh'
        BY <1>2 DEF Unmarked
      <4>2. n = req[r].counter /\ Goto(r, "mark")
        BY <2>6, <3>3, <4>1 DEF ReadInvoice
      <4>3. Moves(r, "mark")
        BY <1>5, <4>2, ServeRuns, RunningTyped, Places DEF Goto, Moves, Running
      <4>4. PICK w \in Worker : w.pc = "mark" /\ w.counter = n /\ Becomes(r, w)
        BY <4>2, <4>3 DEF Moves
      <4>5. req'[r] = w
        BY <4>4, BecomesType
      <4>6. QED
        BY <4>4, <4>5 DEF At
    <3>4. QED
      BY <3>2, <3>3
  <2>7. CASE Mark(r)
    <3>1. faults' = faults /\ fresh' = fresh /\ MarkRow(req[r].counter)
      BY <2>7 DEF Mark
    <3>2. n # req[r].counter
      <4>1. \A m \in DOMAIN taps : taps[m] \in Tap
        BY DomainType
      <4>2. QED
        BY <1>2, <3>1, <4>1 DEF Unmarked, MarkRow, HandleUpdateTapStatus, doVars, Tap
    <3>3. Unmarked(n)
      BY <1>2, <2>1, <3>1, <3>2 DEF Unmarked, MarkRow, HandleUpdateTapStatus, doVars
    <3>4. PICK q \in Requests : At(q, "mark") /\ req[q].counter = n
      BY <1>1, <1>2, <3>1, <3>3 DEF Marked
    <3>5. req'[q] = req[q]
      BY <2>2, <3>2, <3>4
    <3>6. QED
      BY <3>4, <3>5 DEF At
  <2>8. QED
    BY <1>5, <2>3, <2>4, <2>5, <2>6, <2>7 DEF Serve
<1>6. ASSUME NEW r \in Requests, NEW m \in Counters, Ask(r, m)
      PROVE  \E q \in Requests : At(q, "mark")' /\ req'[q].counter = n
  <2>1. At(r, "idle") /\ UNCHANGED <<doVars, fresh, withdrawn, faults>>
    BY <1>6 DEF Ask
  <2>2. Unmarked(n)
    BY <1>2, <2>1 DEF Unmarked, doVars
  <2>3. QED
    BY <1>4, <1>6, <2>1, <2>2, AskType DEF At
<1>7. CASE Others
  <2>1. UNCHANGED <<req, fresh, withdrawn, faults>>
    BY <1>7 DEF Others
  <2>2. Unmarked(n)
    <3>1. CASE PresentNext
      BY <1>2, <2>1, <3>1 DEF PresentNext, HandleCheck, HandleRecordRead, Put, Unmarked
    <3>2. CASE \E m \in Methods \cup {DefaultMethod} : HandleSetConfig(NoKey, m)
      BY <1>2, <2>1, <3>2 DEF HandleSetConfig, Unmarked
    <3>3. CASE HandleExportState
      BY <1>2, <2>1, <3>3 DEF HandleExportState, Unmarked
    <3>4. QED
      BY <1>7, <3>1, <3>2, <3>3 DEF Others
  <2>3. QED
    BY <1>4, <2>1, <2>2
<1>8. ASSUME NEW m \in Counters, Withdraw(m)
      PROVE  \E q \in Requests : At(q, "mark")' /\ req'[q].counter = n
  <2>1. UNCHANGED <<req, fresh, faults>> /\ withdrawn' = withdrawn \cup {m}
    BY <1>8 DEF Withdraw
  <2>2. n # m
    BY <1>2, <2>1 DEF Unmarked
  <2>3. Unmarked(n)
    BY <1>2, <1>8, <2>1, <2>2 DEF Withdraw, HandleRecordTap, HandleClaimTap,
       HandleUpdateTapStatus, Put, Unmarked
  <2>4. QED
    BY <1>4, <2>1, <2>3
<1>9. ~Rewind
  BY <1>2 DEF Rewind, Unmarked
<1>10. CASE UNCHANGED payVars
  <2>1. Unmarked(n)
    BY <1>2, <1>10 DEF Unmarked, payVars
  <2>2. QED
    BY <1>4, <1>10, <2>1 DEF payVars
<1>11. QED
  BY <1>5, <1>6, <1>7, <1>8, <1>9, <1>10 DEF PayNext

\* Once the callbacks have ended, no row that has seen an invoice is left pending,
\* whichever of them wrote it, unless a call failed or a withdrawal took the row.
THEOREM InvoicedIsMarked == PaySpec => []PendingMeansUninvoiced
<1>1. PayInit => Marked
  BY DEF PayInit, Marked, Unmarked
<1>2. PayTypeOK /\ Marked /\ [PayNext]_payVars => Marked'
  BY MarkedStep
<1>3. PayTypeOK /\ Marked => PendingMeansUninvoiced
  BY DomainType DEF Marked, Unmarked, PendingMeansUninvoiced, At, Running
<1>4. QED
  BY PayTypeCorrect, <1>1, <1>2, <1>3, PTL DEF PaySpec

=============================================================================
