------------------------------- MODULE PayFlow -------------------------------
(***************************************************************************)
(* LNURL-pay callbacks (handlers/lnurlPayHandler.ts) against one card's    *)
(* object and the server of a Lightning Address                            *)
(* (utils/lightningAddress.ts).  A callback records the tap, asks the      *)
(* server for its terms and then for an invoice, marks the tap, and hands  *)
(* the invoice to the wallet; each of these is an await.                   *)
(*                                                                         *)
(* A fetch is aborted when the server has not begun to answer in time; the *)
(* timer is cleared before the body is read, so that nothing bounds the    *)
(* rest of a body.  Everything the handler turns down before it records    *)
(* the tap (another payment method, no address, an amount out of range)    *)
(* changes nothing and is left out, with the address and the amount.       *)
(* Withdraw callbacks, which the card gets when it is configured for them, *)
(* appear as the object calls they make.                                   *)
(***************************************************************************)
EXTENDS CardReplayDO

CONSTANTS
    Requests,       \* callback requests, each used once
    PayMethod,      \* "lnurlpay"
    MaxFaults,      \* bound on failed object calls and dead workers
    MaxRewinds      \* bound on resets, terminations and restores

\* A file from before this history shows no tap as completed.
ASSUME PayAssumption ==
    /\ PayMethod \in Methods
    /\ {"completed", "failed"} \subseteq Statuses
    /\ {MaxFaults, MaxRewinds} \subseteq Nat
    /\ \A e \in Exports : \A n \in DOMAIN e.taps : e.taps[n].status # "completed"

VARIABLES
    req,        \* the worker of each request
    issued,     \* how many invoices the server has issued for each tap (history)
    fresh,      \* taps with an invoice issued since their row was written (history)
    withdrawn,  \* taps a withdraw callback has recorded or claimed (history)
    faults,     \* failures so far
    rewinds     \* how often the taps and the counter were taken back

payVars == <<card, config, last, taps, txns, nextTxnId, file,
             req, issued, fresh, withdrawn, faults, rewinds>>

\* Awaiting the object, the server's terms (headers, then body), its invoice
\* (headers, then body), and the object again.
Running == {"record", "terms", "termsBody", "invoice", "invoiceBody", "mark"}
Worker == [pc : Running, counter : Counters, replayed : BOOLEAN]
Resting == [pc : {"idle", "ended"}]

At(r, pc) == req[r].pc = pc
Becomes(r, w) == req' = [req EXCEPT ![r] = w]
Goto(r, pc) == Becomes(r, [req[r] EXCEPT !.pc = pc])
End(r) == Becomes(r, [pc |-> "ended"])
Fault == faults < MaxFaults /\ faults' = faults + 1

-----------------------------------------------------------------------------
(* The callback.                                                           *)

\* A genuine tap; the state of the card is not looked at.
Ask(r, n) ==
    /\ At(r, "idle")
    /\ config.method = PayMethod
    /\ Becomes(r, [pc |-> "record", counter |-> n, replayed |-> FALSE])
    /\ UNCHANGED <<doVars, issued, fresh, withdrawn, faults, rewinds>>

\* A tap whose counter was used goes on all the same.
Record(r) ==
    LET n == req[r].counter IN
    /\ At(r, "record")
    /\ \/ /\ HandleRecordTap(n, NoInvoice)
          /\ fresh' = fresh \ {n}
          /\ Goto(r, "terms")
       \/ /\ ~CounterFresh(n)
          /\ Becomes(r, [req[r] EXCEPT !.pc = "terms", !.replayed = TRUE])
          /\ UNCHANGED <<doVars, fresh>>
    /\ UNCHANGED <<issued, withdrawn, faults, rewinds>>

\* The call throws, before the object acted or after.
RecordThrows(r) ==
    LET n == req[r].counter IN
    /\ At(r, "record")
    /\ Fault
    /\ \/ HandleRecordTap(n, NoInvoice) /\ fresh' = fresh \ {n}
       \/ UNCHANGED <<doVars, fresh>>
    /\ End(r)
    /\ UNCHANGED <<issued, withdrawn, rewinds>>

\* The server begins to answer; it need not.
ServerAnswers(r) ==
    /\ \/ At(r, "terms") /\ Goto(r, "termsBody")
       \/ At(r, "invoice") /\ Goto(r, "invoiceBody")
    /\ UNCHANGED <<doVars, issued, fresh, withdrawn, faults, rewinds>>

\* Mutant: only the first fetch has a timer.
TermsTimeOut(r) ==
    /\ At(r, "terms")
    /\ End(r)
    /\ UNCHANGED <<doVars, issued, fresh, withdrawn, faults, rewinds>>

\* FETCH_TIMEOUT_MS, or no connection: the callback answers 500 and leaves the
\* tap as it is.
FetchFails(r) ==
    /\ At(r, "terms") \/ At(r, "invoice")
    /\ End(r)
    /\ UNCHANGED <<doVars, issued, fresh, withdrawn, faults, rewinds>>

\* The terms are of use, or not: an error, another tag, no callback, or a range
\* that excludes the amount.
ReadTerms(r) ==
    /\ At(r, "termsBody")
    /\ Goto(r, "invoice") \/ End(r)
    /\ UNCHANGED <<doVars, issued, fresh, withdrawn, faults, rewinds>>

\* Mutant: an answer without an invoice is taken for one.
ReadAnyInvoice(r) ==
    /\ At(r, "invoiceBody")
    /\ Goto(r, "mark")
    /\ \/ /\ issued' = [issued EXCEPT ![req[r].counter] = @ + 1]
          /\ fresh' = fresh \cup {req[r].counter}
       \/ UNCHANGED <<issued, fresh>>
    /\ UNCHANGED <<doVars, withdrawn, faults, rewinds>>

\* The server has issued an invoice, or says that it has not.
ReadInvoice(r) ==
    /\ At(r, "invoiceBody")
    /\ \/ /\ issued' = [issued EXCEPT ![req[r].counter] = @ + 1]
          /\ fresh' = fresh \cup {req[r].counter}
          /\ Goto(r, "mark")
       \/ /\ End(r)
          /\ UNCHANGED <<issued, fresh>>
    /\ UNCHANGED <<doVars, withdrawn, faults, rewinds>>

MarkRow(n) ==
    IF n \in DOMAIN taps THEN HandleUpdateTapStatus(n, "completed") ELSE UNCHANGED doVars

\* Mutant: a replayed callback leaves the row to the first one.
MarkUnlessReplayed(r) ==
    /\ At(r, "mark")
    /\ IF req[r].replayed THEN UNCHANGED doVars ELSE MarkRow(req[r].counter)
    /\ End(r)
    /\ UNCHANGED <<issued, fresh, withdrawn, faults, rewinds>>

\* Mutant: the row is given a status of its own.
MarkInvoiced(r) ==
    /\ At(r, "mark")
    /\ IF req[r].counter \in DOMAIN taps
       THEN HandleUpdateTapStatus(req[r].counter, "invoiced") ELSE UNCHANGED doVars
    /\ End(r)
    /\ UNCHANGED <<issued, fresh, withdrawn, faults, rewinds>>

\* Whatever row the tap has by now; a missing one is a logged error.
Mark(r) ==
    /\ At(r, "mark")
    /\ MarkRow(req[r].counter)
    /\ End(r)
    /\ UNCHANGED <<issued, fresh, withdrawn, faults, rewinds>>

MarkThrows(r) ==
    /\ At(r, "mark")
    /\ Fault
    /\ MarkRow(req[r].counter) \/ UNCHANGED doVars
    /\ End(r)
    /\ UNCHANGED <<issued, fresh, withdrawn, rewinds>>

Crash(r) ==
    /\ req[r].pc \in Running
    /\ Fault
    /\ End(r)
    /\ UNCHANGED <<doVars, issued, fresh, withdrawn, rewinds>>

-----------------------------------------------------------------------------
(* Everyone else who calls the object.                                     *)

\* Step 1 of either flow, the till, programming, and backups.  Bound: no backup
\* that could not be restored any more.
Others ==
    /\ \/ PresentNext
       \/ \E m \in Methods \cup {DefaultMethod} : HandleSetConfig(NoKey, m)
       \/ rewinds < MaxRewinds /\ HandleExportState
    /\ UNCHANGED <<req, issued, fresh, withdrawn, faults, rewinds>>

\* A withdraw callback records, claims and marks its tap, also when the card was
\* configured for LNURL-pay meanwhile.
Withdraw(n) ==
    /\ \/ \E inv \in Invoices : HandleRecordTap(n, inv) \/ HandleClaimTap(n, inv)
       \/ n \in withdrawn /\ \E s \in {"completed", "failed"} : HandleUpdateTapStatus(n, s)
    /\ withdrawn' = withdrawn \cup {n}
    /\ UNCHANGED <<req, issued, fresh, faults, rewinds>>

Rewind ==
    /\ rewinds < MaxRewinds
    /\ rewinds' = rewinds + 1
    /\ RewindNext
    /\ fresh' = {}
    /\ UNCHANGED <<req, issued, withdrawn, faults>>

-----------------------------------------------------------------------------

PayInit ==
    /\ DOInit
    /\ req = [r \in Requests |-> [pc |-> "idle"]]
    /\ issued = [n \in Counters |-> 0]
    /\ fresh = {}
    /\ withdrawn = {}
    /\ faults = 0
    /\ rewinds = 0

Serve(r) ==
    \/ Record(r) \/ RecordThrows(r)
    \/ FetchFails(r) \/ ReadTerms(r) \/ ReadInvoice(r)
    \/ Mark(r) \/ MarkThrows(r)
    \/ Crash(r)

PayNext ==
    \/ \E r \in Requests :
          \/ \E n \in Counters : Ask(r, n)
          \/ Serve(r)
          \/ ServerAnswers(r)
    \/ Others
    \/ \E n \in Counters : Withdraw(n)
    \/ Rewind

\* The steps that the code and its platform see to: the object answers, and the
\* timer runs out.  Of the server nothing is assumed, neither that it begins to
\* answer nor that it ends a body.
Sure(r) == Record(r) \/ FetchFails(r) \/ Mark(r)

PaySpec ==
    /\ PayInit /\ [][PayNext]_payVars
    /\ \A r \in Requests : WF_payVars(Sure(r))

-----------------------------------------------------------------------------
(* Properties.                                                             *)

\* The variables have their types.
PayTypeOK ==
    /\ TypeOK
    /\ req \in [Requests -> Worker \cup Resting]
    /\ issued \in [Counters -> Nat]
    /\ fresh \subseteq Counters
    /\ withdrawn \subseteq Counters
    /\ faults \in 0..MaxFaults
    /\ rewinds \in 0..MaxRewinds

\* A tap shown as completed had an invoice issued for it, or was a withdrawal:
\* retries, resets, restored backups and late marks never complete a tap for
\* which nobody was asked to pay.
CompletedMeansInvoiced ==
    \A n \in DOMAIN taps :
        taps[n].status = "completed" => issued[n] > 0 \/ n \in withdrawn

\* Conversely a tap is not left pending when its row has seen an invoice: once
\* the callbacks have ended, such a row is marked, whichever of them wrote it
\* and whichever got the invoice, unless a call failed or a withdrawal took the
\* row.
PendingMeansUninvoiced ==
    \A n \in DOMAIN taps :
        ( /\ taps[n].status = "pending"
          /\ n \in fresh
          /\ n \notin withdrawn
          /\ \A r \in Requests : req[r].pc \notin Running )
        => faults > 0

\* A callback comes to its end even if the address's server never answers; it
\* may wait for ever in one place only, for the rest of a body whose headers
\* have come, because fetchJson clears its timer with them.
CallbackEnds ==
    \A r \in Requests :
        (req[r].pc \in Running) ~>
            (At(r, "ended") \/ [](req[r].pc \in {"termsBody", "invoiceBody"}))

=============================================================================
