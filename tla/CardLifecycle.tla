---------------------------- MODULE CardLifecycle ----------------------------
(***************************************************************************)
(* The handlers that move a card through its life: LNURL-withdraw step 1   *)
(* and the till (which activate and discover), programming, wiping,        *)
(* locking, reactivation, the batch page and backups.  Each reads the      *)
(* card's row once, decides, and then makes its object calls one await at  *)
(* a time, so a worker is the list of calls it still has to make ("job");  *)
(* an export or a restore is a single call and so a single step.           *)
(*                                                                         *)
(* Keys: the K2 of version v is v itself, NoKey is 0, and the chip holds   *)
(* the version written to it, or 0 with factory keys.  A CMAC passes iff   *)
(* the two keys are equal.  Cards of foreign issuers, relayed cards and    *)
(* two-factor cards are left out, and so is the state "legacy", which the  *)
(* handlers read only where no object is bound.  Money matters here        *)
(* because the first movement creates the row; the callbacks are in        *)
(* WithdrawFlow.                                                           *)
(***************************************************************************)
EXTENDS CardReplayDO, FiniteSets

CONSTANTS
    Jobs,           \* the workers that may run at the same time
    ScanRange,      \* VERSION_SCAN_RANGE
    PayMethod,      \* "lnurlpay"
    MaxFaults       \* bound on failed calls and dead workers

ASSUME LifeAssumption ==
    /\ MaxVersion # 0
    /\ Keys = 1..MaxVersion
    /\ NoKey = 0
    /\ ScanRange \in Nat \ {0}
    /\ PayMethod \in Methods
    /\ MaxFaults \in Nat

VARIABLES
    chip,       \* the key version on the physical card, 0 for factory keys
    known,      \* versions a chip carried or the batch page vouched for
    job,        \* the worker of each job
    issued,     \* how often each version was issued (history)
    orderly,    \* requests came one by one, none failed, no activate page, no restore
    faults      \* failures so far

lifeVars == <<card, config, last, taps, txns, nextTxnId, file,
              chip, known, job, issued, orderly, faults>>

\* Calls whose failure the handlers log and survive.
BestEffort == {"discover", "tryK2", "pending", "read"}
Calls == BestEffort \cup {"k2", "activate", "deliver", "terminate", "wipe", "reset",
                          "blank", "config", "counter", "check", "route", "money",
                          "burn", "wipekeys", "show"}

\* key: what the chip answered with; over: the card was terminated while the
\* worker ran.
Worker == [key : 0..MaxVersion, version : 1..MaxVersion,
           method : Methods \cup {DefaultMethod}, calls : Seq(Calls) \ {<< >>},
           over : BOOLEAN]
Idle == [calls |-> << >>]

Running(j) == job[j] # Idle
Quiet == \A j \in Jobs : ~Running(j)

-----------------------------------------------------------------------------
(* Reading versions off a row and a tap.                                   *)

LatestVersion(c) ==
    IF c.latest # 0 THEN c.latest ELSE IF c.active # NoVersion THEN c.active ELSE 1

\* Mutant: without the last default.
ActiveOrLatest(c) == IF c.active # NoVersion THEN c.active ELSE c.latest

ActiveVersion(c) ==
    IF c.active # NoVersion THEN c.active ELSE IF c.latest # 0 THEN c.latest ELSE 1

\* Mutant: takes the latest version for granted.
DetectLatest(k, latest) == latest

\* The versions scanned, and version 1; 0 when none of them fits the tap.
Detect(k, latest) == IF k = 1 \/ k \in (latest - ScanRange)..latest THEN k ELSE 0

\* getUidConfig: the stored key, or the one derived for the version asked for.
ConfigKey(v) == IF config.k2 # NoKey THEN config.k2 ELSE v

-----------------------------------------------------------------------------
(* A request arrives: the handler reads the row and plans its calls.       *)

Ahead(calls, c) == \E i \in 1..Len(calls) : calls[i] = c

\* Bound: no delivery is planned that the version bound would not admit.
Room ==
    card.latest + Cardinality({j \in Jobs : Ahead(job[j].calls, "deliver")}) < MaxVersion

Begin(j, v, m, calls) ==
    /\ ~Running(j)
    /\ job' = [job EXCEPT ![j] = [key |-> chip, version |-> v, method |-> m,
                                  calls |-> calls, over |-> FALSE]]
    /\ orderly' = (orderly /\ Quiet)
    /\ UNCHANGED <<doVars, chip, issued, faults>>

Plan(j, v, calls) == Begin(j, v, DefaultMethod, calls)

\* Mutant: activates without storing the key that was detected.
ActivateOnly == <<"activate", "route">>

KeyThenActivate == <<"k2", "activate", "route">>

\* LNURL-withdraw step 1: a delivered card is scanned and activated, an unknown
\* one is discovered, any other is checked against the version its row names.
HandleLnurlw(j) ==
    /\ chip # 0
    /\ \/ /\ card.state = "keys_delivered"
          /\ Detect(chip, card.latest) # 0
          /\ Plan(j, Detect(chip, card.latest), KeyThenActivate)
       \/ /\ card.state \in {"active", "discovered"}
          /\ Plan(j, ActiveVersion(card), <<"route">>)
       \/ /\ card.state \in {"new", "pending"}
          /\ chip <= ScanRange
          /\ Plan(j, chip, <<"discover", "tryK2", "route">>)
       \/ /\ card.state = "wipe_requested" \/ (card.state = "new" /\ chip > ScanRange)
          /\ Plan(j, 1, <<"route">>)

\* A tap at the till or the desk, which neither discovers nor serves a card to
\* be wiped, and stores the key after the activation, if it can.
ValidateCardTap(j) ==
    /\ chip # 0
    /\ \/ /\ card.state = "keys_delivered"
          /\ Detect(chip, card.latest) # 0
          /\ Plan(j, Detect(chip, card.latest),
                  <<"activate", "tryK2", "check", "counter", "read", "money">>)
       \/ /\ card.state \in {"active", "discovered", "new", "pending"}
          /\ Plan(j, IF card.state \in {"active", "discovered"} /\ card.active # NoVersion
                     THEN card.active ELSE 1,
                  <<"check", "counter", "read", "money">>)

\* The login page's top-up: no tap, and no look at the row.
HandleTopUpAction(j) == Plan(j, 1, <<"money">>)

\* Delivered keys are handed out again; any other card that is not active gets
\* the next version and a new configuration.
HandleProgrammingFlow(j, m) ==
    \/ /\ card.state = "keys_delivered"
       /\ Begin(j, LatestVersion(card), m, <<"burn">>)
    \/ /\ card.state \in {"new", "pending", "discovered"}
       /\ Room
       /\ Begin(j, 1, m, <<"pending", "deliver", "tryK2", "blank", "reset", "config", "burn">>)
    \/ /\ card.state \in {"wipe_requested", "terminated"}
       /\ Room
       /\ Begin(j, 1, m, <<"deliver", "tryK2", "blank", "reset", "config", "burn">>)

\* Wipe keys for a tapped card.
HandleResetFlow(j) ==
    /\ chip # 0
    /\ card.state \in {"active", "terminated", "new", "wipe_requested"}
    /\ Plan(j, ActiveVersion(card),
            IF card.state = "active" THEN <<"check", "wipe", "wipekeys">>
            ELSE <<"check", "wipekeys">>)

\* The cardholder's own page, on a tap that the stored key must fit.
HandleCardLock(j) ==
    /\ chip # 0
    /\ card.state \in {"active", "discovered"}
    /\ Plan(j, ActiveVersion(card), <<"check", "terminate">>)

HandleCardReactivate(j) ==
    /\ chip # 0
    /\ card.state = "terminated"
    /\ Room
    /\ Plan(j, ActiveVersion(card), <<"check", "deliver", "tryK2">>)

\* The operator's pages that take the card out of service: handleReset,
\* handleTerminateAction, handleRequestWipeAction and the batch page.  The
\* second shows the wipe keys as well, of the version it read, without a tap.
Retire(j) ==
    \/ /\ card.state # "terminated"
       /\ Plan(j, ActiveVersion(card), <<"terminate">>)
    \/ /\ card.state \in {"active", "keys_delivered"}
       /\ Plan(j, ActiveVersion(card), <<"wipe">>)
    \/ /\ card.state = "active"
       /\ Plan(j, ActiveVersion(card), <<"wipe", "show">>)

\* Mutant: the batch page activates whatever it finds.
BatchActivateAny(j) ==
    /\ card.state # "active"
    /\ Plan(j, ActiveVersion(card), <<"activate">>)
    /\ known' = known \cup {ActiveVersion(card)}

\* handleCardBatchAction "activate": no tap, the operator vouches.
BatchActivate(j) ==
    /\ card.state \in {"keys_delivered", "discovered"}
    /\ Plan(j, ActiveVersion(card), <<"activate">>)
    /\ known' = known \cup {ActiveVersion(card)}

\* handleCardBatchAction "reprovision".
Reprovision(j) ==
    /\ card.state = "terminated"
    /\ Room
    /\ Plan(j, 1, <<"deliver", "tryK2">>)

\* The activate page: the key of version 1 whatever the card carries, and no
\* look at the row.
HandleActivateCardSubmit(j) ==
    /\ ~Running(j)
    /\ job' = [job EXCEPT ![j] = [key |-> chip, version |-> 1, method |-> DefaultMethod,
                                  calls |-> <<"reset", "config">>, over |-> FALSE]]
    /\ orderly' = FALSE
    /\ UNCHANGED <<doVars, chip, issued, faults>>

-----------------------------------------------------------------------------
(* A worker makes its next call.                                           *)

Next1(j) == Head(job[j].calls)
To(j, c) == Running(j) /\ Next1(j) = c

Drop(w, calls) == IF calls = << >> THEN Idle ELSE [w EXCEPT !.calls = calls]

\* A termination overtakes the workers that are still running.
Overtake(workers) ==
    LET struck == card.state # "terminated" /\ card'.state = "terminated"
    IN  job' = [i \in Jobs |-> IF workers[i] = Idle THEN Idle
                               ELSE [workers[i] EXCEPT !.over = @ \/ struck]]

Move(j, w, calls) == Overtake([job EXCEPT ![j] = Drop(w, calls)])

Advance(j) == Move(j, job[j], Tail(job[j].calls))

\* What a call does to the object; the object ignores what does not apply, and
\* the till may ask for a balance only.
Perform(c, w) ==
    \/ c \in {"k2", "tryK2"} /\ HandleSetK2(w.version)
    \/ c = "activate" /\ HandleActivate(w.version)
    \/ c = "discover" /\ IF ~card.exists \/ card.state \in {"new", "pending"}
                         THEN HandleDiscover(w.version) ELSE UNCHANGED doVars
    \/ c = "pending" /\ IF card.exists THEN UNCHANGED doVars ELSE HandleMarkPending
    \/ c = "deliver" /\ HandleDeliverKeys
    \/ c = "terminate" /\ HandleTerminate
    \/ c = "wipe" /\ IF card.exists THEN HandleRequestWipe ELSE UNCHANGED doVars
    \/ c = "reset" /\ HandleReset
    \/ c = "blank" /\ HandleSetConfig(NoKey, DefaultMethod)
    \/ c = "config" /\ HandleSetConfig(w.version, w.method)
    \/ c = "money" /\ (BalanceNext \/ UNCHANGED doVars)
    \/ \E n \in Counters :
          \/ c = "counter" /\ IF CounterFresh(n) THEN HandleCheck(n) ELSE UNCHANGED doVars
          \/ c = "read" /\ IF n \in DOMAIN taps THEN UNCHANGED doVars ELSE HandleRecordRead(n)

Call(j) ==
    /\ Running(j)
    /\ Next1(j) \notin {"deliver", "check", "route", "wipekeys", "show", "burn"}
    /\ Perform(Next1(j), job[j])
    /\ Advance(j)
    /\ UNCHANGED <<chip, known, issued, orderly, faults>>

\* The object issues the version in the step that counts it.
Issue == issued' = [issued EXCEPT ![card'.latest] = @ + 1]

\* The reply of deliverKeys names the version.
Deliver(j) ==
    /\ To(j, "deliver")
    /\ HandleDeliverKeys
    /\ Issue
    /\ Move(j, [job[j] EXCEPT !.version = card'.latest], Tail(job[j].calls))
    /\ UNCHANGED <<chip, known, orderly, faults>>

\* The configuration's key against the one the chip answered with; a tap of
\* step 1 is then routed by payment method.
Check(j) ==
    LET w == job[j] IN
    /\ To(j, "check") \/ To(j, "route")
    /\ UNCHANGED <<doVars, chip, known, issued, orderly, faults>>
    /\ Move(j, w, IF ConfigKey(w.version) # w.key THEN << >>
                  ELSE IF Next1(j) = "check" THEN Tail(w.calls)
                  ELSE IF config.method = PayMethod THEN <<"read">>
                  ELSE <<"counter", "read">>)

\* The wipe keys of the job's version are answered.
Answer(j) ==
    /\ To(j, "wipekeys") \/ To(j, "show")
    /\ UNCHANGED <<doVars, chip, known, issued, orderly, faults>>
    /\ Advance(j)

\* The programmer writes the keys it was answered, sooner or later or never.
Burn(j) ==
    /\ To(j, "burn")
    /\ UNCHANGED <<doVars, issued, orderly, faults>>
    /\ Advance(j)
    /\ \/ chip' = job[j].version /\ known' = known \cup {job[j].version}
       \/ UNCHANGED <<chip, known>>

\* A call fails, before or after the object acted on it: a best-effort one is
\* logged, any other ends the handler.  (A failed read of the configuration
\* falls back to the derived key.)  A worker may die at any call.
Fail(j) ==
    LET w == job[j] IN
    /\ Running(j)
    /\ faults < MaxFaults
    /\ faults' = faults + 1
    /\ orderly' = FALSE
    /\ \/ UNCHANGED <<doVars, issued>>
       \/ /\ Perform(Next1(j), w)
          /\ IF Next1(j) = "deliver" THEN Issue ELSE UNCHANGED issued
    /\ \/ Move(j, w, << >>)
       \/ Next1(j) \in BestEffort /\ Advance(j)
       \/ Next1(j) = "check" /\ w.version = w.key /\ Advance(j)
       \/ Next1(j) = "route" /\ w.version = w.key /\ Move(j, w, <<"counter", "read">>)
    /\ UNCHANGED <<chip, known>>

-----------------------------------------------------------------------------
(* The backup page: one call each, at any time.                            *)

HandleCardExport ==
    /\ HandleExportState
    /\ UNCHANGED <<chip, known, job, issued, orderly, faults>>

\* The card is what the file says, also when it had been terminated since; what
\* was issued since is forgotten.
HandleCardRestore ==
    /\ HandleImportState
    /\ Overtake(job)
    /\ issued' = [v \in 1..MaxVersion |-> IF v <= card'.latest THEN issued[v] ELSE 0]
    /\ orderly' = FALSE
    /\ UNCHANGED <<chip, known, faults>>

-----------------------------------------------------------------------------

\* The version in an operator's first file was in use when the file was made.
LifeInit ==
    /\ DOInit
    /\ chip \in 0..MaxVersion
    /\ known = {chip, file.card.active} \ {0}
    /\ job = [j \in Jobs |-> Idle]
    /\ issued = [v \in 1..MaxVersion |-> 0]
    /\ orderly = TRUE
    /\ faults = 0

Request(j) ==
    \/ /\ \/ HandleLnurlw(j)
          \/ ValidateCardTap(j)
          \/ HandleTopUpAction(j)
          \/ \E m \in Methods \cup {DefaultMethod} : HandleProgrammingFlow(j, m)
          \/ HandleResetFlow(j)
          \/ HandleCardLock(j)
          \/ HandleCardReactivate(j)
          \/ Retire(j)
          \/ Reprovision(j)
          \/ HandleActivateCardSubmit(j)
       /\ UNCHANGED known
    \/ BatchActivate(j)

Work(j) == Call(j) \/ Deliver(j) \/ Check(j) \/ Answer(j) \/ Burn(j) \/ Fail(j)

\* What the callbacks and the desk do to the object: they claim taps and move money.
Others ==
    /\ ClaimNext \/ BalanceNext
    /\ UNCHANGED <<chip, known, job, issued, orderly, faults>>

LifeNext ==
    \/ \E j \in Jobs : Request(j) \/ Work(j)
    \/ HandleCardExport
    \/ HandleCardRestore
    \/ Others

LifeSpec == LifeInit /\ [][LifeNext]_lifeVars

-----------------------------------------------------------------------------
(* Properties.                                                             *)

LifeTypeOK ==
    /\ TypeOK
    /\ chip \in 0..MaxVersion
    /\ known \subseteq 1..MaxVersion
    /\ job \in [Jobs -> Worker \cup {Idle}]
    /\ issued \in [1..MaxVersion -> Nat]
    /\ orderly \in BOOLEAN
    /\ faults \in 0..MaxFaults

\* However programming, reactivation and the batch page overlap and fail, and
\* whoever has got the keys or lost the answer, no key version is issued a second
\* time: only keys that were delivered and not used yet are answered again, as
\* those of the version already issued.  A restore takes back the versions
\* issued after its file was made, and those alone may be issued once more.
IssuedOnce == \A v \in 1..MaxVersion : issued[v] <= 1

\* The server never takes a card for one with a version that no chip ever
\* answered with, unless the operator activated it on the batch page: an
\* activation or a discovery always goes back to a tap that fitted.  Nor does
\* the login page show the wipe keys of any other version, however late.
ActiveIsKnown ==
    /\ card.active # NoVersion => card.active \in known
    /\ \A j \in Jobs : To(j, "show") => job[j].version \in known

\* The stored key is the key of the active version, or none is stored (it is
\* then derived from the active version), as long as requests came one by one,
\* none failed, nothing was restored and the activate page was not used: after
\* any number of programmings, wipes, reactivations, discoveries and taps with
\* old chips, a chip of the active version is accepted without a scan.
KeyFits ==
    orderly /\ Quiet /\ card.state \in {"active", "discovered"} =>
        config.k2 \in {NoKey, card.active}

\* A version in use has been issued, unless a money movement created the row
\* before any key was delivered: under the same condition, the next delivery
\* cannot hand out the keys that the card in use already carries.
ActiveIsIssued ==
    orderly /\ (card.latest # 0 \/ txns = << >>) => card.active <= card.latest

\* Under the same condition, the wipe keys answered to a tap are the keys of the
\* chip that made it: a card is never wiped with keys that lock it for good.
WipeKeysFit ==
    \A j \in Jobs : orderly /\ To(j, "wipekeys") => job[j].version = job[j].key

\* A terminated card comes back into use only through a new key delivery, by the
\* restore of a backup, or by a worker that had read the row before the
\* termination; no request that finds it terminated activates it, the batch
\* page's "activate" included ("permanently disabled until re-activated",
\* tests/state-machine.test.ts:165; the device test plan 9.5 expects the batch
\* page to activate terminated cards, which its handler skips).
TerminatedStays ==
    [][ card.state = "terminated" /\ card'.state \in {"active", "discovered"} =>
          \/ HandleImportState
          \/ \E j \in Jobs : job[j] # Idle /\ job[j].over /\ job'[j] # job[j] ]_card

=============================================================================
