------------------------- MODULE CardLifecycle_proofs -------------------------
(***************************************************************************)
(* Any number of overlapping, failing and dying lifecycle handlers, with   *)
(* backups and restores between them: they use the object as CardReplayDO  *)
(* allows, issue every key version once, activate only versions that a     *)
(* chip answered with, and bring a terminated card back only when they had *)
(* read it before; and those that come one by one keep the stored key that *)
(* of the version in use.                                                  *)
(***************************************************************************)
EXTENDS CardLifecycle, CardReplayDO_proofs

(* The planned calls -------------------------------------------------------- *)

LEMMA TailCalls ==
    ASSUME NEW s \in Seq(Calls) \ {<< >>}
    PROVE  /\ Tail(s) \in Seq(Calls)
           /\ Head(s) \in Calls
           /\ Ahead(s, Head(s))
           /\ \A c : Ahead(Tail(s), c) => Ahead(s, c)
<1>1. Tail(s) \in Seq(Calls) /\ Head(s) \in Calls /\ Len(s) \in Nat \ {0}
  OBVIOUS
<1>2. Ahead(s, Head(s))
  <2>1. 1 \in 1..Len(s) /\ s[1] = Head(s)
    BY <1>1
  <2>2. QED
    BY <2>1 DEF Ahead
<1>3. ASSUME NEW c, Ahead(Tail(s), c)
      PROVE  Ahead(s, c)
  <2>1. PICK i \in 1..Len(Tail(s)) : Tail(s)[i] = c
    BY <1>3 DEF Ahead
  <2>2. i + 1 \in 1..Len(s) /\ s[i + 1] = c
    BY <1>1, <2>1
  <2>3. QED
    BY <2>2 DEF Ahead
<1>4. QED
  BY <1>1, <1>2, <1>3

\* The calls that put a worker's version into use or show its keys.
Using == {"activate", "discover", "show"}
Planned(p) == p \in Seq(Calls) \ {<< >>}
Harmless(p) == \A c \in Using : ~Ahead(p, c)

LEMMA UsingPlans ==
    /\ \A p \in {KeyThenActivate, <<"activate", "tryK2", "check", "counter", "read", "money">>,
                 <<"activate">>, <<"discover", "tryK2", "route">>, <<"wipe", "show">>} :
          Planned(p) /\ ~Ahead(p, "deliver")
    /\ \A p \in {<<"discover", "tryK2", "route">>, <<"wipe", "show">>} : ~Ahead(p, "activate")
BY DEF Planned, Calls, BestEffort, Ahead, KeyThenActivate

Safe(p) == Planned(p) /\ Harmless(p)

LEMMA HarmlessPlans ==
    /\ Safe(<<"route">>)
    /\ Safe(<<"check", "counter", "read", "money">>)
    /\ Safe(<<"burn">>)
    /\ Safe(<<"pending", "deliver", "tryK2", "blank", "reset", "config", "burn">>)
    /\ Safe(<<"deliver", "tryK2", "blank", "reset", "config", "burn">>)
    /\ Safe(<<"check", "wipe", "wipekeys">>)
    /\ Safe(<<"check", "wipekeys">>)
    /\ Safe(<<"check", "terminate">>)
    /\ Safe(<<"check", "deliver", "tryK2">>)
    /\ Safe(<<"terminate">>)
    /\ Safe(<<"wipe">>)
    /\ Safe(<<"deliver", "tryK2">>)
    /\ Safe(<<"reset", "config">>)
    /\ Safe(<<"read">>)
    /\ Safe(<<"money">>)
    /\ Safe(<<"counter", "read">>)
<1>1. Safe(<<"route">>)
  BY DEF Safe, Planned, Harmless, Using, Calls, BestEffort, Ahead
<1>2. Safe(<<"check", "counter", "read", "money">>)
  BY DEF Safe, Planned, Harmless, Using, Calls, BestEffort, Ahead
<1>3. Safe(<<"burn">>)
  BY DEF Safe, Planned, Harmless, Using, Calls, BestEffort, Ahead
<1>4. Safe(<<"pending", "deliver", "tryK2", "blank", "reset", "config", "burn">>)
  BY DEF Safe, Planned, Harmless, Using, Calls, BestEffort, Ahead
<1>5. Safe(<<"deliver", "tryK2", "blank", "reset", "config", "burn">>)
  BY DEF Safe, Planned, Harmless, Using, Calls, BestEffort, Ahead
<1>6. Safe(<<"check", "wipe", "wipekeys">>)
  BY DEF Safe, Planned, Harmless, Using, Calls, BestEffort, Ahead
<1>7. Safe(<<"check", "wipekeys">>)
  BY DEF Safe, Planned, Harmless, Using, Calls, BestEffort, Ahead
<1>8. Safe(<<"check", "terminate">>)
  BY DEF Safe, Planned, Harmless, Using, Calls, BestEffort, Ahead
<1>9. Safe(<<"check", "deliver", "tryK2">>)
  BY DEF Safe, Planned, Harmless, Using, Calls, BestEffort, Ahead
<1>10. Safe(<<"terminate">>)
  BY DEF Safe, Planned, Harmless, Using, Calls, BestEffort, Ahead
<1>11. Safe(<<"wipe">>)
  BY DEF Safe, Planned, Harmless, Using, Calls, BestEffort, Ahead
<1>12. Safe(<<"deliver", "tryK2">>)
  BY DEF Safe, Planned, Harmless, Using, Calls, BestEffort, Ahead
<1>13. Safe(<<"reset", "config">>)
  BY DEF Safe, Planned, Harmless, Using, Calls, BestEffort, Ahead
<1>14. Safe(<<"read">>)
  BY DEF Safe, Planned, Harmless, Using, Calls, BestEffort, Ahead
<1>15. Safe(<<"counter", "read">>)
  BY DEF Safe, Planned, Harmless, Using, Calls, BestEffort, Ahead
<1>16. Safe(<<"money">>)
  BY DEF Safe, Planned, Harmless, Using, Calls, BestEffort, Ahead
<1>17. QED
  BY <1>1, <1>2, <1>3, <1>4, <1>5, <1>6, <1>7, <1>8, <1>9, <1>10, <1>11, <1>12, <1>13, <1>14, <1>15, <1>16

LEMMA VersionTypes ==
    ASSUME LifeTypeOK
    PROVE  /\ ActiveVersion(card) \in 1..MaxVersion
           /\ LatestVersion(card) \in 1..MaxVersion
           /\ 1 \in 1..MaxVersion
           /\ card.latest \in 0..MaxVersion /\ card.active \in 0..MaxVersion
<1>1. card.latest \in 0..MaxVersion /\ card.active \in 0..MaxVersion
  BY DEF LifeTypeOK, TypeOK, Card
<1>2. MaxVersion \in Nat \ {0}
  BY LifeAssumption, DOAssumption DEF LifeAssumption, DOAssumption
<1>3. QED
  BY <1>1, <1>2 DEF ActiveVersion, LatestVersion, NoVersion

(* A request plans, a worker moves ------------------------------------------ *)

NewWorker(v, m, p) ==
    [key |-> chip, version |-> v, method |-> m, calls |-> p, over |-> FALSE]

Starts(j, v, m, p) ==
    /\ job[j] = Idle
    /\ job' = [job EXCEPT ![j] = NewWorker(v, m, p)]
    /\ orderly' \in BOOLEAN
    /\ UNCHANGED <<doVars, chip, issued, faults>>
    /\ known \subseteq known' /\ known' \subseteq 1..MaxVersion
    /\ v \in 1..MaxVersion
    /\ m \in Methods \cup {DefaultMethod}
    /\ Planned(p)
    /\ \/ Harmless(p)
       \/ /\ v \in known' \/ (card.state = "active" /\ v = ActiveVersion(card))
          /\ ~Ahead(p, "deliver")
          /\ Ahead(p, "activate") => card.state # "terminated"

ChipKnown == chip # 0 => chip \in known

\* What a request from an unchanged "known" has to show.
Sound(v, p) ==
    \/ Safe(p)
    \/ /\ Planned(p)
       /\ v \in known \/ (card.state = "active" /\ v = ActiveVersion(card))
       /\ ~Ahead(p, "deliver")
       /\ Ahead(p, "activate") => card.state # "terminated"

LEMMA BeginStarts ==
    ASSUME LifeTypeOK, NEW j \in Jobs, NEW v \in 1..MaxVersion,
           NEW m \in Methods \cup {DefaultMethod}, NEW p,
           Begin(j, v, m, p), known' = known, Sound(v, p)
    PROVE  Starts(j, v, m, p)
BY DEF Begin, Running, LifeTypeOK, NewWorker, Starts, Sound, Safe

LEMMA RequestStarts ==
    ASSUME LifeTypeOK, ChipKnown, NEW j \in Jobs, Request(j)
    PROVE  \E v, m, p : Starts(j, v, m, p)
<1> USE VersionTypes, HarmlessPlans, UsingPlans
<1>1. ASSUME NEW v \in 1..MaxVersion, NEW p, Plan(j, v, p), known' = known, Sound(v, p)
      PROVE  Starts(j, v, DefaultMethod, p)
  BY <1>1, BeginStarts DEF Plan
<1>2. chip \in 0..MaxVersion /\ MaxVersion \in Nat
  BY DOAssumption DEF LifeTypeOK, DOAssumption
<1>3. ASSUME HandleLnurlw(j), known' = known
      PROVE  \E v, m, p : Starts(j, v, m, p)
  <2>1. ASSUME card.state = "keys_delivered", Detect(chip, card.latest) # 0,
               Plan(j, Detect(chip, card.latest), KeyThenActivate)
        PROVE  \E v, m, p : Starts(j, v, m, p)
    <3>1. Detect(chip, card.latest) = chip /\ chip # 0
      BY <2>1 DEF Detect
    <3>2. Sound(chip, KeyThenActivate)
      BY <3>1, <2>1 DEF Sound, ChipKnown
    <3>3. QED
      BY <3>1, <3>2, <2>1, <1>1, <1>2, <1>3
  <2>2. CASE Plan(j, ActiveVersion(card), <<"route">>) \/ Plan(j, 1, <<"route">>)
    BY <2>2, <1>1, <1>3 DEF Sound
  <2>3. ASSUME Plan(j, chip, <<"discover", "tryK2", "route">>)
        PROVE  \E v, m, p : Starts(j, v, m, p)
    <3>1. Sound(chip, <<"discover", "tryK2", "route">>) /\ chip \in 1..MaxVersion
      BY <1>2, <1>3 DEF Sound, ChipKnown, HandleLnurlw
    <3>2. QED
      BY <2>3, <3>1, <1>1, <1>3
  <2>4. QED
    BY <1>3, <2>1, <2>2, <2>3 DEF HandleLnurlw
<1>4. ASSUME ValidateCardTap(j), known' = known
      PROVE  \E v, m, p : Starts(j, v, m, p)
  <2> DEFINE p == <<"activate", "tryK2", "check", "counter", "read", "money">>
  <2>1. ASSUME card.state = "keys_delivered", Detect(chip, card.latest) # 0,
               Plan(j, Detect(chip, card.latest), p)
        PROVE  \E v, m, q : Starts(j, v, m, q)
    <3>1. Detect(chip, card.latest) = chip /\ chip # 0
      BY <2>1 DEF Detect
    <3>2. Sound(chip, p)
      BY <3>1, <2>1 DEF Sound, ChipKnown
    <3>3. QED
      BY <3>1, <3>2, <2>1, <1>1, <1>2, <1>4
  <2>2. ASSUME NEW v \in 1..MaxVersion, Plan(j, v, <<"check", "counter", "read", "money">>)
        PROVE  \E u, m, q : Starts(j, u, m, q)
    BY <2>2, <1>1, <1>4 DEF Sound
  <2>3. (IF card.state \in {"active", "discovered"} /\ card.active # NoVersion
         THEN card.active ELSE 1) \in 1..MaxVersion
    BY DEF NoVersion
  <2>4. QED
    BY <1>4, <2>1, <2>2, <2>3 DEF ValidateCardTap
<1>5. ASSUME NEW m \in Methods \cup {DefaultMethod}, HandleProgrammingFlow(j, m), known' = known
      PROVE  \E v, n, p : Starts(j, v, n, p)
  BY <1>5, BeginStarts DEF HandleProgrammingFlow, Sound
<1>6. ASSUME HandleResetFlow(j), known' = known
      PROVE  \E v, m, p : Starts(j, v, m, p)
  <2>1. \/ Plan(j, ActiveVersion(card), <<"check", "wipe", "wipekeys">>)
        \/ Plan(j, ActiveVersion(card), <<"check", "wipekeys">>)
    BY <1>6 DEF HandleResetFlow
  <2>2. QED
    BY <2>1, <1>6, <1>1 DEF Sound
<1>7. ASSUME \/ HandleCardLock(j) \/ HandleCardReactivate(j)
             \/ Retire(j) \/ Reprovision(j) \/ HandleTopUpAction(j),
             known' = known
      PROVE  \E v, m, p : Starts(j, v, m, p)
  <2>1. CASE card.state = "active" /\ Plan(j, ActiveVersion(card), <<"wipe", "show">>)
    <3>1. Sound(ActiveVersion(card), <<"wipe", "show">>)
      BY <2>1 DEF Sound
    <3>2. QED
      BY <2>1, <3>1, <1>1, <1>7
  <2>2. CASE ~(card.state = "active" /\ Plan(j, ActiveVersion(card), <<"wipe", "show">>))
    BY <1>7, <1>1, <2>2 DEF HandleCardLock, HandleCardReactivate, Retire, Reprovision,
       HandleTopUpAction, Sound
  <2>3. QED
    BY <2>1, <2>2
<1>8. ASSUME HandleActivateCardSubmit(j), known' = known
      PROVE  \E v, m, p : Starts(j, v, m, p)
  <2>1. Starts(j, 1, DefaultMethod, <<"reset", "config">>)
    BY <1>8 DEF HandleActivateCardSubmit, Starts, NewWorker, Running, Safe, LifeTypeOK
  <2>2. QED
    BY <2>1
<1>9. ASSUME BatchActivate(j)
      PROVE  \E v, m, p : Starts(j, v, m, p)
  <2>1. Starts(j, ActiveVersion(card), DefaultMethod, <<"activate">>)
    BY <1>9 DEF BatchActivate, Plan, Begin, Starts, NewWorker, Running, LifeTypeOK
  <2>2. QED
    BY <2>1
<1>10. QED
  BY <1>3, <1>4, <1>5, <1>6, <1>7, <1>8, <1>9 DEF Request

\* What a worker's step does to its own list of calls.
Moves(j, w, p) ==
    /\ Move(j, w, p)
    /\ p \in Seq(Calls)
    /\ p # job[j].calls
    /\ \A c \in Using \cup {"deliver"} : Ahead(p, c) => Ahead(job[j].calls, c)
    /\ \/ w = job[j]
       \/ /\ HandleDeliverKeys
          /\ Ahead(job[j].calls, "deliver")
          /\ w = [job[j] EXCEPT !.version = card'.latest]

\* ... and to everything else.
Acts(j) ==
    /\ job[j] \in Worker
    /\ UNCHANGED doVars \/ Perform(Head(job[j].calls), job[j])
    /\ UNCHANGED issued \/ (HandleDeliverKeys /\ Issue)
    /\ \/ UNCHANGED <<chip, known>>
       \/ chip' = job[j].version /\ known' = known \cup {job[j].version}
    /\ orderly' \in BOOLEAN
    /\ faults' \in 0..MaxFaults

LEMMA ShorterLists ==
    ASSUME NEW s \in Seq(Calls) \ {<< >>}
    PROVE  /\ << >> \in Seq(Calls) /\ << >> # s
           /\ Tail(s) # s
           /\ \A c : ~Ahead(<< >>, c)
           /\ Head(s) = "route" => s # <<"read">> /\ s # <<"counter", "read">>
<1>1. Len(s) \in Nat \ {0} /\ Len(Tail(s)) = Len(s) - 1
  OBVIOUS
<1>2. Tail(s) # s
  <2>1. Tail(s) = s => Len(Tail(s)) = Len(s)
    BY Zenon
  <2>2. \A n \in Nat : n - 1 # n
    OBVIOUS
  <2>3. QED
    BY <1>1, <2>1, <2>2
<1>3. Head(s) = "route" => s # <<"read">> /\ s # <<"counter", "read">>
  OBVIOUS
<1>4. \A c : ~Ahead(<< >>, c)
  BY DEF Ahead
<1>5. QED
  BY <1>2, <1>3, <1>4

LEMMA WorkMoves ==
    ASSUME LifeTypeOK, NEW j \in Jobs, Work(j)
    PROVE  Acts(j) /\ \E w, p : Moves(j, w, p)
<1> DEFINE s == job[j].calls
<1>1. job[j] \in Worker /\ s \in Seq(Calls) \ {<< >>} /\ faults \in 0..MaxFaults
      /\ orderly \in BOOLEAN
  BY DEF Work, Call, Deliver, Check, Answer, Burn, Fail, To, Running, LifeTypeOK, Worker
<1>2. ASSUME Move(j, job[j], Tail(s))
      PROVE  \E w, p : Moves(j, w, p)
  BY <1>1, <1>2, TailCalls, ShorterLists DEF Moves
<1>3. ASSUME Move(j, job[j], << >>)
      PROVE  \E w, p : Moves(j, w, p)
  BY <1>1, <1>3, ShorterLists DEF Moves
<1>4. ASSUME NEW p \in {<<"read">>, <<"counter", "read">>}, Head(s) = "route",
             Move(j, job[j], p)
      PROVE  \E w, q : Moves(j, w, q)
  <2>1. Safe(p) /\ p # s
    BY <1>1, <1>4, HarmlessPlans, ShorterLists
  <2>2. ~Ahead(p, "deliver")
    BY <1>4 DEF Ahead
  <2>3. QED
    BY <1>4, <2>1, <2>2 DEF Moves, Safe, Planned, Harmless
<1>5. CASE Call(j)
  BY <1>5, <1>1, <1>2 DEF Call, Advance, Acts, Next1
<1>6. CASE Deliver(j)
  <2>1. Perform("deliver", job[j]) /\ Head(s) = "deliver"
    BY <1>6 DEF Deliver, To, Next1, Perform
  <2>2. Moves(j, [job[j] EXCEPT !.version = card'.latest], Tail(s))
    BY <1>1, <1>6, <2>1, TailCalls, ShorterLists DEF Moves, Deliver
  <2>3. QED
    BY <1>1, <1>6, <2>1, <2>2 DEF Deliver, Acts
<1>7. CASE Check(j)
  <2>1. \/ Move(j, job[j], << >>)
        \/ Move(j, job[j], Tail(s))
        \/ Head(s) = "route" /\ \E p \in {<<"read">>, <<"counter", "read">>} : Move(j, job[j], p)
    BY <1>7 DEF Check, To, Next1
  <2>2. QED
    BY <1>1, <1>2, <1>3, <1>4, <1>7, <2>1 DEF Check, Acts
<1>8. CASE Answer(j) \/ Burn(j)
  BY <1>1, <1>2, <1>8 DEF Answer, Burn, Advance, Acts
<1>9. CASE Fail(j)
  <2>1. \/ Move(j, job[j], << >>)
        \/ Move(j, job[j], Tail(s))
        \/ Head(s) = "route" /\ \E p \in {<<"read">>, <<"counter", "read">>} : Move(j, job[j], p)
    BY <1>9 DEF Fail, Advance, Next1
  <2>2. faults' \in 0..MaxFaults
    BY <1>1, <1>9, LifeAssumption DEF Fail, LifeAssumption
  <2>3. UNCHANGED issued \/ (HandleDeliverKeys /\ Issue)
    <3>1. Perform("deliver", job[j]) => HandleDeliverKeys
      BY DEF Perform
    <3>2. QED
      BY <1>9, <3>1 DEF Fail
  <2>4. QED
    BY <1>1, <1>2, <1>3, <1>4, <1>9, <2>1, <2>2, <2>3 DEF Fail, Acts, Next1
<1>10. QED
  BY <1>5, <1>6, <1>7, <1>8, <1>9 DEF Work

(* The object's view ---------------------------------------------------------- *)

\* A movement of money touches nothing of the row but its existence and balance.
LEMMA MoneyKeepsRow ==
    ASSUME TypeOK, BalanceNext
    PROVE  /\ card'.latest = card.latest
           /\ card'.active = card.active
           /\ card'.state = card.state
<1>1. card \in Card
  BY DEF TypeOK
<1>2. PICK a : card' = [card EXCEPT !.exists = TRUE, !.balance = card.balance + a]
  BY DEF BalanceNext, HandleCredit, HandleDebit, HandleVoid, Post
<1>3. QED
  BY <1>1, <1>2 DEF Card

\* What the lifecycle handlers ask of the object.
HandlerCall ==
    \/ PresentNext \/ BalanceNext \/ StateNext \/ ConfigNext
    \/ HandleReset \/ HandleTerminate

LEMMA PerformCalls ==
    ASSUME NEW c, NEW w \in Worker, Perform(c, w)
    PROVE  HandlerCall \/ UNCHANGED doVars
<1>1. w.version \in 1..MaxVersion /\ w.version \in Keys /\ w.method \in Methods \cup {DefaultMethod}
  BY LifeAssumption DEF Worker, LifeAssumption
<1>2. CASE HandleSetK2(w.version)
  BY <1>1, <1>2 DEF HandlerCall, ConfigNext
<1>3. CASE HandleActivate(w.version) \/ HandleDiscover(w.version)
  BY <1>1, <1>3 DEF HandlerCall, StateNext
<1>4. CASE HandleMarkPending \/ HandleDeliverKeys \/ HandleRequestWipe
  BY <1>4 DEF HandlerCall, StateNext
<1>5. CASE HandleSetConfig(NoKey, DefaultMethod) \/ HandleSetConfig(w.version, w.method)
  BY <1>1, <1>5 DEF HandlerCall, ConfigNext
<1>6. CASE \E n \in Counters : HandleCheck(n) \/ HandleRecordRead(n)
  BY <1>6 DEF HandlerCall, PresentNext
<1>7. QED
  BY <1>2, <1>3, <1>4, <1>5, <1>6 DEF Perform, HandlerCall

LEMMA PerformIsDO ==
    ASSUME NEW c, NEW w \in Worker, Perform(c, w)
    PROVE  DONext \/ UNCHANGED doVars
BY PerformCalls DEF HandlerCall, DONext, RewindNext

LEMMA JobCalls ==
    \A j \in Jobs :
        LifeTypeOK /\ ChipKnown /\ (Request(j) \/ Work(j)) => HandlerCall \/ UNCHANGED doVars
<1> SUFFICES ASSUME LifeTypeOK /\ ChipKnown, NEW j \in Jobs, Request(j) \/ Work(j)
             PROVE  HandlerCall \/ UNCHANGED doVars
  OBVIOUS
<1>1. CASE Request(j)
  BY <1>1, RequestStarts DEF Starts
<1>2. CASE Work(j)
  BY <1>2, WorkMoves, PerformCalls DEF Acts
<1>3. QED
  BY <1>1, <1>2

\* What the others do leaves all of the row that a lifecycle handler reads, but
\* that money may bring the row into being.
LEMMA OthersKeepRow ==
    ASSUME TypeOK, Others
    PROVE  /\ DONext
           /\ UNCHANGED <<config, file, chip, known, job, issued, orderly, faults>>
           /\ card'.state = card.state
           /\ card'.latest = card.latest
           /\ card'.active = card.active
           /\ UNCHANGED <<card, txns>> \/ (card'.exists /\ txns' # << >>)
<1>1. CASE ClaimNext
  BY <1>1 DEF Others, DONext, ClaimNext, HandleRecordTap, HandleClaimTap, HandleUpdateTapStatus
<1>2. CASE BalanceNext
  <2>1. PICK a, rows, row : /\ card' = [card EXCEPT !.exists = TRUE, !.balance = card.balance + a]
                            /\ txns' = Append(rows, row)
                            /\ rows \in Seq(Txn)
                            /\ UNCHANGED <<config, file>>
    <3>1. \A t \in 1..MaxTxns : \A k \in Voidable(t) : [txns EXCEPT ![k].voided = TRUE] \in Seq(Txn)
      BY MarkedType DEF TypeOK, Voidable
    <3>2. QED
      BY <1>2, <3>1 DEF BalanceNext, HandleCredit, HandleDebit, HandleVoid, Post, TypeOK
  <2>2. card'.exists /\ txns' # << >>
    BY <2>1 DEF TypeOK, Card
  <2>3. QED
    BY <1>2, <2>1, <2>2, MoneyKeepsRow DEF Others, DONext
<1>3. QED
  BY <1>1, <1>2 DEF Others

LEMMA StepIsDO == LifeTypeOK /\ ChipKnown /\ [LifeNext]_lifeVars => [DONext]_doVars
<1> SUFFICES ASSUME LifeTypeOK, ChipKnown, [LifeNext]_lifeVars
             PROVE  DONext \/ UNCHANGED doVars
  OBVIOUS
<1>1. ASSUME NEW j \in Jobs, Request(j) \/ Work(j)
      PROVE  DONext \/ UNCHANGED doVars
  BY <1>1, JobCalls DEF HandlerCall, DONext, RewindNext
<1>2. CASE UNCHANGED lifeVars
  BY <1>2 DEF lifeVars, doVars
<1>3. CASE Others
  BY <1>3, OthersKeepRow DEF LifeTypeOK
<1>4. CASE HandleCardExport \/ HandleCardRestore
  BY <1>4 DEF HandleCardExport, HandleCardRestore, DONext, ConfigNext, RewindNext
<1>5. QED
  BY <1>1, <1>2, <1>3, <1>4 DEF LifeNext

(* Type correctness ------------------------------------------------------------ *)

LEMMA NewWorkerType ==
    ASSUME LifeTypeOK, NEW j \in Jobs, NEW v, NEW m, NEW p, Starts(j, v, m, p)
    PROVE  NewWorker(v, m, p) \in Worker
BY DEF Starts, NewWorker, Worker, LifeTypeOK, Planned, Safe

\* The worker that a step leaves behind.
LEMMA MovedWorker ==
    ASSUME LifeTypeOK, NEW j \in Jobs, job[j] \in Worker, NEW w, NEW p, Moves(j, w, p)
    PROVE  /\ w \in Worker
           /\ w.key = job[j].key /\ w.over = job[j].over
           /\ Drop(w, p) \in Worker \cup {Idle}
           /\ Drop(w, p) # Idle =>
                 /\ Drop(w, p).version = w.version
                 /\ Drop(w, p).key = w.key
                 /\ Drop(w, p).over = w.over
                 /\ Drop(w, p).calls = p
<1>1. w \in Worker /\ w.key = job[j].key /\ w.over = job[j].over
  <2>1. CASE w = job[j]
    BY <2>1
  <2>2. ASSUME HandleDeliverKeys, w = [job[j] EXCEPT !.version = card'.latest]
        PROVE  w \in Worker /\ w.key = job[j].key /\ w.over = job[j].over
    <3>1. card.latest \in 0..MaxVersion /\ card'.latest = card.latest + 1
          /\ card.latest < MaxVersion /\ MaxVersion \in Nat
      BY <2>2, DOAssumption DEF LifeTypeOK, TypeOK, Card, HandleDeliverKeys, SetCard, DOAssumption
    <3>2. card'.latest \in 1..MaxVersion
      BY <3>1
    <3>3. QED
      BY <2>2, <3>2 DEF Worker
  <2>3. QED
    BY <2>1, <2>2 DEF Moves
<1>2. QED
  BY <1>1 DEF Moves, Drop, Worker

\* A termination marks the workers and leaves the rest of them alone.
LEMMA MarkedWorkers ==
    ASSUME NEW workers \in [Jobs -> Worker \cup {Idle}], Overtake(workers), NEW i \in Jobs
    PROVE  LET old == workers[i]
               struck == card.state # "terminated" /\ card'.state = "terminated"
           IN  /\ job'[i] \in Worker \cup {Idle}
               /\ old = Idle <=> job'[i] = Idle
               /\ old # Idle =>
                     /\ job'[i].version = old.version
                     /\ job'[i].key = old.key
                     /\ job'[i].calls = old.calls
                     /\ job'[i].over = (old.over \/ struck)
<1> DEFINE old == workers[i]
           struck == card.state # "terminated" /\ card'.state = "terminated"
<1>1. old \in Worker \cup {Idle}
  OBVIOUS
<1>2. job'[i] = IF old = Idle THEN Idle ELSE [old EXCEPT !.over = old.over \/ struck]
  BY DEF Overtake
<1>3. ASSUME old # Idle
      PROVE  [old EXCEPT !.over = old.over \/ struck] \in Worker
  BY <1>1, <1>3 DEF Worker
<1>4. \A x \in Worker : x # Idle
  <2>1. \A x \in Worker : x.calls # << >>
    BY DEF Worker
  <2>2. Idle.calls = << >>
    BY DEF Idle
  <2>3. QED
    BY <2>1, <2>2
<1>5. ASSUME old # Idle
      PROVE  LET new == [old EXCEPT !.over = old.over \/ struck]
             IN  /\ new.version = old.version
                 /\ new.key = old.key
                 /\ new.calls = old.calls
                 /\ new.over = (old.over \/ struck)
  BY <1>1, <1>5 DEF Worker
<1>6. QED
  BY <1>2, <1>3, <1>4, <1>5

\* Every worker after a step, whoever made it.
LEMMA WorkersAfter ==
    ASSUME LifeTypeOK, NEW j \in Jobs, job[j] \in Worker, NEW w, NEW p, Moves(j, w, p),
           NEW i \in Jobs
    PROVE  LET old == IF i = j THEN Drop(w, p) ELSE job[i]
               struck == card.state # "terminated" /\ card'.state = "terminated"
           IN  /\ job'[i] \in Worker \cup {Idle}
               /\ old = Idle <=> job'[i] = Idle
               /\ old # Idle =>
                     /\ job'[i].version = old.version
                     /\ job'[i].key = old.key
                     /\ job'[i].calls = old.calls
                     /\ job'[i].over = (old.over \/ struck)
<1> DEFINE workers == [job EXCEPT ![j] = Drop(w, p)]
<1>1. workers \in [Jobs -> Worker \cup {Idle}]
  BY MovedWorker DEF LifeTypeOK
<1>2. Overtake(workers)
  BY DEF Moves, Move
<1>3. workers[i] = IF i = j THEN Drop(w, p) ELSE job[i]
  BY DEF LifeTypeOK
<1>4. PICK x \in [Jobs -> Worker \cup {Idle}] : x = workers
  BY <1>1
<1>5. Overtake(x) /\ x[i] = IF i = j THEN Drop(w, p) ELSE job[i]
  BY <1>2, <1>3, <1>4
<1>6. QED
  BY <1>5, MarkedWorkers

\* ... and after a restore, which may terminate the card.
LEMMA WorkersRestored ==
    ASSUME LifeTypeOK, HandleCardRestore, NEW i \in Jobs
    PROVE  LET struck == card.state # "terminated" /\ card'.state = "terminated"
           IN  /\ job'[i] \in Worker \cup {Idle}
               /\ job[i] = Idle <=> job'[i] = Idle
               /\ job[i] # Idle =>
                     /\ job'[i].version = job[i].version
                     /\ job'[i].key = job[i].key
                     /\ job'[i].calls = job[i].calls
                     /\ job'[i].over = (job[i].over \/ struck)
<1>1. Overtake(job) /\ job \in [Jobs -> Worker \cup {Idle}]
  BY DEF HandleCardRestore, LifeTypeOK
<1>2. QED
  BY <1>1, MarkedWorkers

\* Every worker after a request.
LEMMA WorkersBegun ==
    ASSUME LifeTypeOK, NEW j \in Jobs, NEW v, NEW m, NEW p, Starts(j, v, m, p),
           NEW i \in Jobs
    PROVE  job'[i] = IF i = j THEN NewWorker(v, m, p) ELSE job[i]
BY DEF Starts, LifeTypeOK

\* Types, and the chip's own version is known.
Base == LifeTypeOK /\ ChipKnown

LEMMA InitBase == LifeInit => Base
<1> SUFFICES ASSUME LifeInit PROVE Base
  OBVIOUS
<1>1. TypeOK
  BY InitType DEF LifeInit
<1>2. known \subseteq 1..MaxVersion /\ ChipKnown
  <2>1. file.card.active \in 0..MaxVersion
    BY <1>1 DEF TypeOK, Export, Card
  <2>2. QED
    BY <2>1, DOAssumption DEF LifeInit, ChipKnown, DOAssumption
<1>3. job \in [Jobs -> Worker \cup {Idle}]
  BY DEF LifeInit
<1>4. faults \in 0..MaxFaults
  BY LifeAssumption DEF LifeInit, LifeAssumption
<1>5. QED
  BY <1>1, <1>2, <1>3, <1>4 DEF LifeInit, LifeTypeOK, Base

LEMMA RequestBase == \A j \in Jobs : Base /\ Request(j) => Base'
<1> SUFFICES ASSUME NEW j \in Jobs, Base, Request(j) PROVE Base'
  OBVIOUS
<1>1. PICK v, m, p : Starts(j, v, m, p)
  BY RequestStarts DEF Base
<1>2. TypeOK'
  BY <1>1 DEF Starts, doVars, Base, LifeTypeOK, TypeOK
<1>3. job' \in [Jobs -> Worker \cup {Idle}]
  BY <1>1, NewWorkerType DEF Starts, Base, LifeTypeOK
<1>4. QED
  BY <1>1, <1>2, <1>3 DEF Starts, Base, LifeTypeOK, ChipKnown

LEMMA WorkBase == \A j \in Jobs : Base /\ Work(j) => Base'
<1> SUFFICES ASSUME NEW j \in Jobs, Base, Work(j) PROVE Base'
  OBVIOUS
<1>1. Acts(j)
  BY WorkMoves DEF Base
<1>2. PICK w, p : Moves(j, w, p)
  BY WorkMoves DEF Base
<1>3. TypeOK'
  <2>1. DONext \/ UNCHANGED doVars
    BY <1>1, PerformIsDO DEF Acts
  <2>2. QED
    BY <2>1, StepType DEF Base, LifeTypeOK
<1>4. job' \in [Jobs -> Worker \cup {Idle}]
  <2>1. job' = [i \in Jobs |-> job'[i]]
    BY <1>2 DEF Moves, Move, Overtake
  <2>2. \A i \in Jobs : job'[i] \in Worker \cup {Idle}
    BY <1>1, <1>2, WorkersAfter DEF Base, Acts
  <2>3. QED
    BY <2>1, <2>2
<1>5. known' \subseteq 1..MaxVersion /\ chip' \in 0..MaxVersion /\ ChipKnown'
  <2>1. job[j].version \in 1..MaxVersion /\ job[j].version \in 0..MaxVersion
    BY <1>1, DOAssumption DEF Acts, Worker, DOAssumption
  <2>2. QED
    BY <1>1, <2>1 DEF Acts, Base, LifeTypeOK, ChipKnown
<1>6. issued' \in [1..MaxVersion -> Nat]
  <2>1. CASE UNCHANGED issued
    BY <2>1 DEF Base, LifeTypeOK
  <2>2. CASE Issue
    <3>1. PICK v : v = card'.latest
      OBVIOUS
    <3>2. issued' = [issued EXCEPT ![v] = issued[v] + 1] /\ issued \in [1..MaxVersion -> Nat]
      BY <2>2, <3>1 DEF Issue, Base, LifeTypeOK
    <3>3. ASSUME NEW u \in 1..MaxVersion
          PROVE  issued'[u] \in Nat
      <4>1. issued[u] \in Nat /\ issued'[u] = IF u = v THEN issued[u] + 1 ELSE issued[u]
        BY <3>2
      <4>2. QED
        BY <4>1
    <3>4. issued' = [u \in 1..MaxVersion |-> issued'[u]]
      BY <3>2
    <3>5. QED
      BY <3>3, <3>4
  <2>3. QED
    BY <1>1, <2>1, <2>2 DEF Acts
<1>7. QED
  BY <1>1, <1>3, <1>4, <1>5, <1>6 DEF Acts, Base, LifeTypeOK

LEMMA BackupBase == Base /\ (HandleCardExport \/ HandleCardRestore) => Base'
<1> SUFFICES ASSUME Base, HandleCardExport \/ HandleCardRestore PROVE Base'
  OBVIOUS
<1>1. TypeOK'
  <2>1. DONext
    BY DEF HandleCardExport, HandleCardRestore, DONext, ConfigNext, RewindNext
  <2>2. QED
    BY <2>1, StepType DEF Base, LifeTypeOK
<1>2. CASE HandleCardExport
  BY <1>1, <1>2 DEF HandleCardExport, Base, LifeTypeOK, ChipKnown
<1>3. CASE HandleCardRestore
  <2>1. job' = [i \in Jobs |-> job'[i]] /\ \A i \in Jobs : job'[i] \in Worker \cup {Idle}
    BY <1>3, WorkersRestored DEF HandleCardRestore, Overtake, Base
  <2>2. job' \in [Jobs -> Worker \cup {Idle}]
    BY <2>1
  <2>3. issued' \in [1..MaxVersion -> Nat]
    BY <1>3 DEF HandleCardRestore, Base, LifeTypeOK
  <2>4. QED
    BY <1>1, <1>3, <2>2, <2>3 DEF HandleCardRestore, Base, LifeTypeOK, ChipKnown
<1>4. QED
  BY <1>2, <1>3

LEMMA StepBase == Base /\ [LifeNext]_lifeVars => Base'
<1>1. Base /\ UNCHANGED lifeVars => Base'
  BY DEF Base, lifeVars, LifeTypeOK, TypeOK, ChipKnown
<1>2. Base /\ Others => Base'
  <2>1. ASSUME Base, Others
        PROVE  TypeOK'
    <3>1. TypeOK /\ [DONext]_doVars
      BY <2>1, OthersKeepRow DEF Base, LifeTypeOK
    <3>2. QED
      BY <3>1, StepType
  <2>2. QED
    BY <2>1 DEF Base, LifeTypeOK, ChipKnown, Others
<1>3. QED
  BY <1>1, <1>2, RequestBase, WorkBase, BackupBase DEF LifeNext

LEMMA AlwaysBase == LifeSpec => []Base
BY InitBase, StepBase, PTL DEF LifeSpec

\* Rows, configuration, chip and workers stay well-typed, whatever overlaps,
\* fails or dies.
THEOREM LifeTypeCorrect == LifeSpec => []LifeTypeOK
<1>1. Base => LifeTypeOK
  BY DEF Base
<1>2. QED
  BY <1>1, AlwaysBase, PTL

\* Overlapping, failing and dying handlers use the object only as CardReplayDO
\* allows: what is proved of DOSpec (ledger, voids, versions) holds of them.
THEOREM LifecycleImplementsDO == LifeSpec => DOSpec
<1>1. LifeInit => DOInit
  BY DEF LifeInit
<1>2. Base /\ [LifeNext]_lifeVars => [DONext]_doVars
  BY StepIsDO DEF Base
<1>3. QED
  BY <1>1, <1>2, AlwaysBase, PTL DEF LifeSpec, DOSpec

LEMMA AlwaysVersions == LifeSpec => []CardInv
BY LifecycleImplementsDO, VersionsCorrect, PTL

(* Deliveries ------------------------------------------------------------------- *)

\* A version above the row's is still to be issued.
Issued == \A v \in 1..MaxVersion : issued[v] <= 1 /\ (v > card.latest => issued[v] = 0)

\* Versions issued never go back: an activation overwrites the column only in a
\* row it creates.
LEMMA LatestGrows ==
    ASSUME TypeOK, CardInv, NEW c, NEW w \in Worker, Perform(c, w)
    PROVE  card'.latest >= card.latest
<1>1. /\ card.latest \in Int /\ w.version \in Int /\ w.version >= 1
      /\ (~card.exists => card.latest = 0)
  BY DOAssumption DEF TypeOK, Card, Worker, CardInv, CardOK, NewCard, DOAssumption
<1>2. card \in Card
  BY DEF TypeOK
<1>3. CASE UNCHANGED card
  BY <1>1, <1>3
<1>4. CASE HandleActivate(w.version)
  <2>1. card'.latest = IF card.exists THEN card.latest ELSE w.version
    BY <1>2, <1>4 DEF HandleActivate, SetCard, Card
  <2>2. QED
    BY <1>1, <2>1
<1>5. CASE HandleDiscover(w.version)
  <2>1. card'.latest = IF card.exists THEN card.latest ELSE w.version
    BY <1>2, <1>5 DEF HandleDiscover, SetCard, Card
  <2>2. QED
    BY <1>1, <2>1
<1>6. CASE HandleDeliverKeys
  BY <1>1, <1>2, <1>6 DEF HandleDeliverKeys, SetCard, Card
<1>7. CASE HandleMarkPending \/ HandleRequestWipe \/ HandleTerminate
  <2>1. card'.latest = card.latest
    BY <1>2, <1>7 DEF HandleMarkPending, HandleRequestWipe, HandleTerminate, SetCard, Card
  <2>2. QED
    BY <1>1, <2>1
<1>8. CASE BalanceNext
  BY <1>1, <1>8, MoneyKeepsRow
<1>9. QED
  BY <1>3, <1>4, <1>5, <1>6, <1>7, <1>8 DEF Perform, HandleSetK2, HandleReset, HandleSetConfig,
     HandleCheck, HandleRecordRead, doVars

LEMMA InitIssued == LifeInit => Issued
BY DEF LifeInit, Issued

LEMMA RequestIssued ==
    \A j \in Jobs : Base /\ Issued /\ Request(j) => Issued'
BY RequestStarts DEF Starts, doVars, Issued, Base

LEMMA WorkIssued ==
    \A j \in Jobs : Base /\ CardInv /\ Issued /\ Work(j) => Issued'
<1> SUFFICES ASSUME NEW j \in Jobs, Base, CardInv, Issued, Work(j) PROVE Issued'
  OBVIOUS
<1>1. Acts(j)
  BY WorkMoves DEF Base
<1>2. card.latest \in 0..MaxVersion /\ card'.latest \in 0..MaxVersion /\ MaxVersion \in Nat
  <2>1. card \in Card /\ card' \in Card
    BY WorkBase DEF Base, LifeTypeOK, TypeOK
  <2>2. QED
    BY <2>1, DOAssumption DEF Card, DOAssumption
<1>3. CASE UNCHANGED issued
  <2>1. card'.latest >= card.latest
    BY <1>1, <1>2, LatestGrows DEF Acts, Base, LifeTypeOK, doVars
  <2>2. QED
    BY <1>2, <1>3, <2>1 DEF Issued
<1>4. CASE HandleDeliverKeys /\ Issue
  <2>1. PICK v \in 1..MaxVersion : v = card'.latest /\ v = card.latest + 1
    BY <1>2, <1>4 DEF HandleDeliverKeys, SetCard, Base, LifeTypeOK, TypeOK, Card
  <2>2. issued' = [issued EXCEPT ![v] = issued[v] + 1] /\ issued \in [1..MaxVersion -> Nat]
    BY <1>4, <2>1 DEF Issue, Base, LifeTypeOK
  <2>3. issued[v] = 0
    BY <1>2, <2>1 DEF Issued
  <2>4. \A u \in 1..MaxVersion : issued'[u] = IF u = v THEN 1 ELSE issued[u]
    BY <2>2, <2>3
  <2>5. QED
    BY <1>2, <2>1, <2>4 DEF Issued
<1>5. QED
  BY <1>1, <1>3, <1>4 DEF Acts

LEMMA BackupIssued == Base /\ Issued /\ (HandleCardExport \/ HandleCardRestore) => Issued'
<1> SUFFICES ASSUME Base, Issued, HandleCardExport \/ HandleCardRestore PROVE Issued'
  OBVIOUS
<1>1. CASE HandleCardExport
  BY <1>1 DEF HandleCardExport, HandleExportState, Issued
<1>2. CASE HandleCardRestore
  <2>1. card' \in Card
    BY BackupBase DEF Base, LifeTypeOK, TypeOK
  <2>2. card'.latest \in 0..MaxVersion /\ MaxVersion \in Nat
    BY <2>1, DOAssumption DEF Card, DOAssumption
  <2>3. PICK top \in 0..MaxVersion : top = card'.latest
    BY <2>2
  <2>4. \A v \in 1..MaxVersion : issued'[v] = IF v <= top THEN issued[v] ELSE 0
    BY <1>2, <2>3 DEF HandleCardRestore
  <2>5. QED
    BY <2>2, <2>3, <2>4 DEF Issued
<1>3. QED
  BY <1>1, <1>2

\* However programmings and reactivations overlap, fail and die, no key version
\* is issued a second time, because the object counts it in the step that issues
\* it, unless a restore took it back; a second answer of delivered keys issues
\* nothing.
THEOREM DeliveredOnce == LifeSpec => []IssuedOnce
<1>1. Base /\ CardInv /\ Issued /\ [LifeNext]_lifeVars => Issued'
  <2>1. Issued /\ UNCHANGED lifeVars => Issued'
    BY DEF lifeVars, Issued
  <2>2. Base /\ Issued /\ Others => Issued'
    BY OthersKeepRow DEF Base, LifeTypeOK, Issued
  <2>3. QED
    BY <2>1, <2>2, RequestIssued, WorkIssued, BackupIssued DEF LifeNext
<1>2. LifeSpec => []Issued
  BY <1>1, InitIssued, AlwaysBase, AlwaysVersions, PTL DEF LifeSpec
<1>3. Issued => IssuedOnce
  BY DEF Issued, IssuedOnce
<1>4. QED
  BY <1>2, <1>3, PTL

(* Activations ------------------------------------------------------------------ *)

\* A worker that is still to activate or discover, or to show its keys, holds a
\* known version, and delivers nothing on the way there.
HoldsKnown(i) ==
    (\E c \in Using : Ahead(job[i].calls, c)) =>
        job[i].version \in known /\ ~Ahead(job[i].calls, "deliver")

ActiveKnown == card.active # NoVersion => card.active \in known
FileKnown == file.card.active # NoVersion => file.card.active \in known

Activations ==
    /\ ActiveKnown
    /\ FileKnown
    /\ \A i \in Jobs : Running(i) => HoldsKnown(i)

LEMMA InitActivations == LifeInit => Activations
BY DEF LifeInit, DOInit, NewCard, NoVersion, Activations, ActiveKnown, FileKnown, Running

LEMMA RequestActivations ==
    \A j \in Jobs : Base /\ CardInv /\ Activations /\ Request(j) => Activations'
<1> SUFFICES ASSUME NEW j \in Jobs, Base, CardInv, Activations, Request(j) PROVE Activations'
  OBVIOUS
<1>1. PICK v, m, p : Starts(j, v, m, p)
  BY RequestStarts DEF Base
<1>2. \A i \in Jobs : job'[i] = IF i = j THEN NewWorker(v, m, p) ELSE job[i]
  BY <1>1, WorkersBegun DEF Base
<1>3. NewWorker(v, m, p).version = v /\ NewWorker(v, m, p).calls = p
  BY DEF NewWorker
<1>4. ActiveKnown' /\ FileKnown'
  BY <1>1 DEF Starts, doVars, Activations, ActiveKnown, FileKnown
<1>5. HoldsKnown(j)'
  <2>1. card.state = "active" => ActiveVersion(card) \in known
    BY DEF CardInv, CardOK, ActiveVersion, Activations, ActiveKnown
  <2>2. Harmless(p) \/ (v \in known' /\ ~Ahead(p, "deliver"))
    BY <1>1, <2>1 DEF Starts
  <2>3. QED
    BY <1>2, <1>3, <2>2 DEF HoldsKnown, Harmless
<1>6. \A i \in Jobs : i # j /\ Running(i)' => HoldsKnown(i)'
  BY <1>1, <1>2 DEF Starts, HoldsKnown, Activations, Running
<1>7. QED
  BY <1>4, <1>5, <1>6 DEF Activations

LEMMA ActiveAfter ==
    ASSUME TypeOK, NEW c, NEW w \in Worker, Perform(c, w)
    PROVE  \/ card'.active \in {card.active, NoVersion}
           \/ card'.active = w.version /\ c \in Using
<1>1. card \in Card
  BY DEF TypeOK
<1>2. CASE UNCHANGED card
  BY <1>2
<1>3. CASE c = "activate" /\ HandleActivate(w.version)
  BY <1>1, <1>3 DEF HandleActivate, SetCard, Card, Using
<1>4. CASE c = "discover" /\ HandleDiscover(w.version)
  BY <1>1, <1>4 DEF HandleDiscover, SetCard, Card, Using
<1>5. CASE HandleDeliverKeys
  BY <1>1, <1>5 DEF HandleDeliverKeys, SetCard, Card
<1>6. CASE HandleMarkPending \/ HandleRequestWipe \/ HandleTerminate
  BY <1>1, <1>6 DEF HandleMarkPending, HandleRequestWipe, HandleTerminate, SetCard, Card
<1>7. CASE BalanceNext
  BY <1>7, MoneyKeepsRow
<1>8. QED
  BY <1>2, <1>3, <1>4, <1>5, <1>6, <1>7 DEF Perform, HandleSetK2, HandleReset, HandleSetConfig,
     HandleCheck, HandleRecordRead, doVars

LEMMA PerformKeepsFile ==
    ASSUME NEW c, NEW w, Perform(c, w)
    PROVE  UNCHANGED file
BY DEF Perform, HandleSetK2, HandleActivate, HandleDiscover, HandleMarkPending, HandleDeliverKeys,
   HandleTerminate, HandleRequestWipe, HandleReset, HandleSetConfig, HandleCheck, HandleRecordRead,
   BalanceNext, HandleCredit, HandleDebit, HandleVoid, Post, SetCard, doVars

LEMMA WorkActivations ==
    \A j \in Jobs : Base /\ Activations /\ Work(j) => Activations'
<1> SUFFICES ASSUME NEW j \in Jobs, Base, Activations, Work(j) PROVE Activations'
  OBVIOUS
<1>1. Acts(j)
  BY WorkMoves DEF Base
<1>2. PICK w, p : Moves(j, w, p)
  BY WorkMoves DEF Base
<1>3. known \subseteq known'
  BY <1>1 DEF Acts
<1>4. job[j] \in Worker /\ Running(j)
  <2>1. job[j] \in Worker /\ job[j].calls # << >>
    BY <1>1 DEF Acts, Worker
  <2>2. QED
    BY <2>1 DEF Running, Idle
<1>5. ActiveKnown'
  <2>1. CASE UNCHANGED doVars
    BY <1>3, <2>1 DEF doVars, Activations, ActiveKnown
  <2>2. CASE Perform(Head(job[j].calls), job[j])
    <3>1. Ahead(job[j].calls, Head(job[j].calls))
      BY <1>4, TailCalls DEF Worker
    <3>2. Head(job[j].calls) \in Using => job[j].version \in known
      BY <1>4, <3>1 DEF Activations, HoldsKnown
    <3>3. QED
      BY <1>3, <1>4, <2>2, <3>2, ActiveAfter DEF Base, LifeTypeOK, Activations, ActiveKnown
  <2>3. QED
    BY <1>1, <2>1, <2>2 DEF Acts
<1>9. FileKnown'
  <2>1. UNCHANGED file
    BY <1>1, PerformKeepsFile DEF Acts, doVars
  <2>2. QED
    BY <1>3, <2>1 DEF Activations, FileKnown
<1>6. ASSUME NEW i \in Jobs, i # j, Running(i)'
      PROVE  HoldsKnown(i)'
  <2>1. Running(i) /\ job'[i].version = job[i].version /\ job'[i].calls = job[i].calls
    BY <1>1, <1>2, <1>6, WorkersAfter DEF Running, Base, Acts
  <2>2. QED
    BY <1>3, <2>1 DEF Activations, HoldsKnown
<1>7. ASSUME Running(j)'
      PROVE  HoldsKnown(j)'
  <2>1. job'[j].version = w.version /\ job'[j].calls = p
    BY <1>1, <1>2, <1>7, WorkersAfter, MovedWorker DEF Running, Base, Acts
  <2>2. \A c \in Using \cup {"deliver"} : Ahead(p, c) => Ahead(job[j].calls, c)
    BY <1>2 DEF Moves
  <2>3. ASSUME NEW c \in Using, Ahead(p, c)
        PROVE  /\ job[j].version \in known /\ ~Ahead(job[j].calls, "deliver")
               /\ w = job[j]
    <3>1. Ahead(job[j].calls, c)
      BY <2>2, <2>3
    <3>2. QED
      BY <1>2, <1>4, <2>3, <3>1 DEF Activations, HoldsKnown, Moves
  <2>4. QED
    BY <1>3, <2>1, <2>2, <2>3 DEF HoldsKnown
<1>8. QED
  BY <1>5, <1>6, <1>7, <1>9 DEF Activations

\* A backup is made of a row whose version is known, and brings it back.
LEMMA BackupActivations ==
    Base /\ Activations /\ (HandleCardExport \/ HandleCardRestore) => Activations'
<1> SUFFICES ASSUME Base, Activations, HandleCardExport \/ HandleCardRestore PROVE Activations'
  OBVIOUS
<1>1. CASE HandleCardExport
  BY <1>1 DEF HandleCardExport, HandleExportState, Activations, ActiveKnown, FileKnown,
     HoldsKnown, Running
<1>2. CASE HandleCardRestore
  <2>1. card' = file.card /\ UNCHANGED <<file, known>>
    BY <1>2 DEF HandleCardRestore, HandleImportState
  <2>2. ASSUME NEW i \in Jobs, Running(i)'
        PROVE  HoldsKnown(i)'
    <3>1. Running(i) /\ job'[i].version = job[i].version /\ job'[i].calls = job[i].calls
      BY <1>2, <2>2, WorkersRestored DEF Running, Base
    <3>2. QED
      BY <2>1, <3>1 DEF Activations, HoldsKnown
  <2>3. QED
    BY <2>1, <2>2 DEF Activations, ActiveKnown, FileKnown
<1>3. QED
  BY <1>1, <1>2

\* A version becomes active, and its wipe keys are shown without a tap, only if
\* a chip answered with it, or the operator vouched for it, however late the
\* activation or the answer comes.
THEOREM ActiveVersionKnown == LifeSpec => []ActiveIsKnown
<1>1. Base /\ CardInv /\ Activations /\ [LifeNext]_lifeVars => Activations'
  <2>1. Activations /\ UNCHANGED lifeVars => Activations'
    BY DEF lifeVars, Activations, ActiveKnown, FileKnown, HoldsKnown, Running
  <2>2. Base /\ Activations /\ Others => Activations'
    BY OthersKeepRow DEF Base, LifeTypeOK, Activations, ActiveKnown, FileKnown, HoldsKnown,
       Running
  <2>3. QED
    BY <2>1, <2>2, RequestActivations, WorkActivations, BackupActivations DEF LifeNext
<1>2. LifeSpec => []Activations
  BY <1>1, InitActivations, AlwaysBase, AlwaysVersions, PTL DEF LifeSpec
<1>3. Base /\ Activations => ActiveIsKnown
  <2>1. SUFFICES ASSUME Base, Activations, NEW j \in Jobs, To(j, "show")
                 PROVE  job[j].version \in known
    BY DEF ActiveIsKnown, Activations, ActiveKnown
  <2>2. job[j].calls \in Seq(Calls) \ {<< >>} /\ Head(job[j].calls) = "show" /\ Running(j)
    BY <2>1 DEF Base, LifeTypeOK, Worker, To, Next1, Running
  <2>3. Ahead(job[j].calls, "show")
    BY <2>2, TailCalls
  <2>4. QED
    BY <2>1, <2>2, <2>3 DEF Activations, HoldsKnown, Using
<1>4. QED
  BY <1>2, <1>3, AlwaysBase, PTL

(* Terminations ----------------------------------------------------------------- *)

\* Whoever is still to activate a terminated card was running when it was
\* terminated.
Overtaken ==
    \A i \in Jobs :
        Running(i) /\ card.state = "terminated" /\ Ahead(job[i].calls, "activate")
        => job[i].over

LEMMA InitOvertaken == LifeInit => Overtaken
BY DEF LifeInit, Overtaken, Running

LEMMA RequestOvertaken ==
    \A j \in Jobs : Base /\ Overtaken /\ Request(j) => Overtaken'
<1> SUFFICES ASSUME NEW j \in Jobs, Base, Overtaken, Request(j) PROVE Overtaken'
  OBVIOUS
<1>1. PICK v, m, p : Starts(j, v, m, p)
  BY RequestStarts DEF Base
<1>2. \A i \in Jobs : job'[i] = IF i = j THEN NewWorker(v, m, p) ELSE job[i]
  BY <1>1, WorkersBegun DEF Base
<1>3. card' = card /\ NewWorker(v, m, p).calls = p
  BY <1>1 DEF Starts, doVars, NewWorker
<1>4. Ahead(p, "activate") => card.state # "terminated"
  BY <1>1 DEF Starts, Harmless, Using
<1>5. QED
  BY <1>2, <1>3, <1>4 DEF Overtaken, Running

LEMMA WorkOvertaken ==
    \A j \in Jobs : Base /\ Overtaken /\ Work(j) => Overtaken'
<1> SUFFICES ASSUME NEW j \in Jobs, Base, Overtaken, Work(j),
                    NEW i \in Jobs, Running(i)', card'.state = "terminated",
                    Ahead(job'[i].calls, "activate")
             PROVE  job'[i].over
  BY DEF Overtaken
<1>1. job[j] \in Worker /\ Running(j)
  <2>1. job[j] \in Worker /\ job[j].calls # << >>
    BY WorkMoves DEF Acts, Worker, Base
  <2>2. QED
    BY <2>1 DEF Running, Idle
<1>2. PICK w, p : Moves(j, w, p)
  BY WorkMoves DEF Base
<1>3. CASE card.state # "terminated"
  BY <1>1, <1>2, <1>3, WorkersAfter DEF Running, Base
<1>4. CASE card.state = "terminated" /\ i # j
  <2>1. Running(i) /\ job'[i].calls = job[i].calls /\ job'[i].over = (job[i].over \/ FALSE)
    BY <1>1, <1>2, <1>4, WorkersAfter DEF Running, Base
  <2>2. job[i].over
    BY <1>4, <2>1 DEF Overtaken
  <2>3. QED
    BY <2>1, <2>2
<1>5. CASE card.state = "terminated" /\ i = j
  <2>1. job'[j].calls = p /\ job'[j].over = (w.over \/ FALSE) /\ w.over = job[j].over
    BY <1>1, <1>2, <1>5, WorkersAfter, MovedWorker DEF Running, Base
  <2>2. Ahead(job[j].calls, "activate")
    BY <1>2, <1>5, <2>1 DEF Moves, Using
  <2>3. job[j].over
    BY <1>1, <1>5, <2>2 DEF Overtaken
  <2>4. QED
    BY <1>5, <2>1, <2>3
<1>6. QED
  BY <1>3, <1>4, <1>5

LEMMA BackupOvertaken ==
    Base /\ Overtaken /\ (HandleCardExport \/ HandleCardRestore) => Overtaken'
<1> SUFFICES ASSUME Base, Overtaken, HandleCardExport \/ HandleCardRestore PROVE Overtaken'
  OBVIOUS
<1>1. CASE HandleCardExport
  BY <1>1 DEF HandleCardExport, HandleExportState, Overtaken, Running
<1>2. CASE HandleCardRestore
  <2>1. SUFFICES ASSUME NEW i \in Jobs, Running(i)', card'.state = "terminated",
                        Ahead(job'[i].calls, "activate")
                 PROVE  job'[i].over
    BY DEF Overtaken
  <2>2. /\ Running(i) /\ job'[i].calls = job[i].calls
        /\ job'[i].over = (job[i].over \/ card.state # "terminated")
    BY <1>2, <2>1, WorkersRestored DEF Running, Base
  <2>3. card.state = "terminated" => job[i].over
    BY <2>1, <2>2 DEF Overtaken
  <2>4. QED
    BY <2>2, <2>3
<1>3. QED
  BY <1>1, <1>2

LEMMA AlwaysOvertaken == LifeSpec => []Overtaken
<1>1. Base /\ Overtaken /\ [LifeNext]_lifeVars => Overtaken'
  <2>1. Overtaken /\ UNCHANGED lifeVars => Overtaken'
    BY DEF lifeVars, Overtaken, Running
  <2>2. Base /\ Overtaken /\ Others => Overtaken'
    BY OthersKeepRow DEF Base, LifeTypeOK, Overtaken, Running
  <2>3. QED
    BY <2>1, <2>2, RequestOvertaken, WorkOvertaken, BackupOvertaken DEF LifeNext
<1>2. QED
  BY <1>1, InitOvertaken, AlwaysBase, PTL DEF LifeSpec

\* Only an activation brings a terminated card back into use.
LEMMA BackByActivation ==
    ASSUME TypeOK, CardInv, NEW c, NEW w \in Worker, Perform(c, w),
           card.state = "terminated", card'.state \in {"active", "discovered"}
    PROVE  c = "activate"
<1>1. card \in Card /\ card.exists
  BY DEF TypeOK, CardInv, CardOK, NewCard
<1>2. ~UNCHANGED card /\ ~HandleMarkPending /\ ~HandleDiscover(w.version)
  BY <1>1 DEF HandleMarkPending, HandleDiscover
<1>3. ~HandleDeliverKeys /\ ~HandleRequestWipe /\ ~HandleTerminate
  BY <1>1 DEF HandleDeliverKeys, HandleRequestWipe, HandleTerminate, SetCard, Card
<1>4. ~BalanceNext
  BY MoneyKeepsRow
<1>5. QED
  BY <1>2, <1>3, <1>4 DEF Perform, HandleSetK2, HandleReset, HandleSetConfig, HandleCheck,
     HandleRecordRead, doVars

\* A terminated card comes back into use only with a key delivery, by the restore
\* of a backup, or through a worker that was running at its termination, never
\* through a later request.
THEOREM TerminatedStaysOut == LifeSpec => TerminatedStays
<1> DEFINE Back == card.state = "terminated" /\ card'.state \in {"active", "discovered"}
           Late == \E j \in Jobs : job[j] # Idle /\ job[j].over /\ job'[j] # job[j]
<1>1. ASSUME Base, CardInv, Overtaken, NEW j \in Jobs, Work(j), Back
      PROVE  Late
  <2>1. job[j] \in Worker /\ Running(j) /\ job[j].calls \in Seq(Calls) \ {<< >>}
    <3>1. job[j] \in Worker /\ job[j].calls # << >> /\ job[j].calls \in Seq(Calls)
      BY <1>1, WorkMoves DEF Acts, Worker, Base
    <3>2. QED
      BY <3>1 DEF Running, Idle
  <2>2. PICK w, p : Moves(j, w, p)
    BY <1>1, WorkMoves DEF Base
  <2>3. Perform(Head(job[j].calls), job[j])
    BY <1>1, WorkMoves DEF Acts, doVars, Base
  <2>4. Head(job[j].calls) = "activate"
    BY <1>1, <2>1, <2>3, BackByActivation DEF Base, LifeTypeOK
  <2>5. job[j].over
    BY <1>1, <2>1, <2>4, TailCalls DEF Overtaken
  <2>6. job'[j] # job[j]
    <3>1. CASE Drop(w, p) = Idle
      BY <1>1, <2>1, <2>2, <3>1, WorkersAfter DEF Running, Base
    <3>2. CASE Drop(w, p) # Idle
      <4>1. job'[j].calls = p
        BY <1>1, <2>1, <2>2, <3>2, WorkersAfter, MovedWorker DEF Base
      <4>2. QED
        BY <2>2, <4>1 DEF Moves
    <3>3. QED
      BY <3>1, <3>2
  <2>7. QED
    BY <2>1, <2>5, <2>6 DEF Running
<1>2. ASSUME Base, NEW j \in Jobs, Request(j)
      PROVE  UNCHANGED card
  BY <1>2, RequestStarts DEF Starts, doVars, Base
<1>3. Base /\ CardInv /\ Overtaken /\ [LifeNext]_lifeVars
        => [Back => HandleImportState \/ Late]_card
  <2>1. HandleCardExport => UNCHANGED card
    BY DEF HandleCardExport, HandleExportState
  <2>2. HandleCardRestore => HandleImportState
    BY DEF HandleCardRestore
  <2>3. QED
    BY <1>1, <1>2, <2>1, <2>2, OthersKeepRow DEF LifeNext, lifeVars, Base, LifeTypeOK
<1>4. QED
  BY <1>3, AlwaysBase, AlwaysVersions, AlwaysOvertaken, PTL DEF LifeSpec, TerminatedStays

(* The plans and what is left of them ---------------------------------------- *)

Plans ==
    {<<"k2", "activate", "route">>, <<"activate", "route">>, <<"route">>,
     <<"discover", "tryK2", "route">>, <<"tryK2", "route">>,
     <<"activate", "tryK2", "check", "counter", "read", "money">>,
     <<"tryK2", "check", "counter", "read", "money">>,
     <<"check", "counter", "read", "money">>, <<"counter", "read", "money">>,
     <<"read", "money">>, <<"money">>, <<"counter", "read">>, <<"read">>,
     <<"pending", "deliver", "tryK2", "blank", "reset", "config", "burn">>,
     <<"deliver", "tryK2", "blank", "reset", "config", "burn">>,
     <<"tryK2", "blank", "reset", "config", "burn">>,
     <<"blank", "reset", "config", "burn">>, <<"reset", "config", "burn">>,
     <<"config", "burn">>, <<"burn">>,
     <<"check", "deliver", "tryK2">>, <<"deliver", "tryK2">>, <<"tryK2">>,
     <<"check", "terminate">>, <<"terminate">>,
     <<"check", "wipe", "wipekeys">>, <<"check", "wipekeys">>,
     <<"wipe", "wipekeys">>, <<"wipekeys">>, <<"wipe">>, <<"wipe", "show">>, <<"show">>,
     <<"activate">>}

\* The activation of step 1, after the key was stored; that of the batch page;
\* wiping before and after the tap was checked.
KeyStored(p) == p = <<"activate", "route">>
ByHand(p) == p = <<"activate">>
ToWipe(p) == p \in {<<"check", "wipe", "wipekeys">>, <<"check", "wipekeys">>}
Wiping(p) == p \in {<<"wipe", "wipekeys">>, <<"wipekeys">>}

Storing == {"tryK2", "blank", "reset", "config"}

\* The stages a list of calls can be in, by its first call ...
Kind(p) ==
    /\ p # << >>
    /\ KeyStored(p) \/ ByHand(p) => Head(p) = "activate"
    /\ ToWipe(p) => Head(p) = "check"
    /\ Wiping(p) => Head(p) \in {"wipe", "wipekeys"}
    /\ Head(p) = "wipekeys" => Wiping(p)

\* ... and what is left after it.
Follows(p, q) ==
    /\ q = << >> \/ q \in Plans
    /\ Head(p) = "k2" => q # << >> /\ KeyStored(q)
    /\ Head(p) = "activate" =>
          \/ KeyStored(p) /\ q # << >> /\ Head(q) = "route"
          \/ ByHand(p) /\ q = << >>
          \/ q # << >> /\ Head(q) = "tryK2"
    /\ Head(p) \in {"discover", "deliver"} => q # << >> /\ Head(q) = "tryK2"
    /\ Head(p) = "pending" => q # << >> /\ Head(q) = "deliver"
    /\ Head(p) = "tryK2" => q = << >> \/ (Head(q) \in {"route", "check", "blank"} /\ ~ToWipe(q))
    /\ Head(p) = "blank" => q # << >> /\ Head(q) = "reset"
    /\ Head(p) = "reset" => q # << >> /\ Head(q) = "config"
    /\ Head(p) = "config" => q # << >> /\ Head(q) = "burn"
    /\ Head(p) \in {"terminate", "money", "burn", "wipekeys", "show", "route"} => q = << >>
    /\ Head(p) = "wipe" =>
          \/ q = << >>
          \/ q # << >> /\ Wiping(p) /\ Head(q) = "wipekeys"
          \/ q # << >> /\ Head(q) = "show"
    /\ Head(p) \in {"counter", "read"} => q = << >> \/ Head(q) \in {"read", "money"}
    /\ Head(p) = "check" => /\ q # << >>
                            /\ Head(q) \in {"counter", "terminate", "deliver", "wipe", "wipekeys"}
                            /\ Wiping(q) => ToWipe(p)

LEMMA Following ==
    ASSUME NEW p \in Plans
    PROVE  Kind(p) /\ Follows(p, Tail(p))
<1> USE DEF Kind, Follows, Plans, KeyStored, ByHand, ToWipe, Wiping
<1>1. CASE p = <<"k2", "activate", "route">>
  BY <1>1
<1>2. CASE p = <<"activate", "route">>
  BY <1>2
<1>3. CASE p = <<"route">>
  BY <1>3
<1>4. CASE p = <<"discover", "tryK2", "route">>
  BY <1>4
<1>5. CASE p = <<"tryK2", "route">>
  BY <1>5
<1>6. CASE p = <<"activate", "tryK2", "check", "counter", "read", "money">>
  BY <1>6
<1>7. CASE p = <<"tryK2", "check", "counter", "read", "money">>
  BY <1>7
<1>8. CASE p = <<"check", "counter", "read", "money">>
  BY <1>8
<1>9. CASE p = <<"counter", "read", "money">>
  BY <1>9
<1>10. CASE p = <<"read", "money">>
  BY <1>10
<1>11. CASE p = <<"money">>
  BY <1>11
<1>12. CASE p = <<"counter", "read">>
  BY <1>12
<1>13. CASE p = <<"read">>
  BY <1>13
<1>14. CASE p = <<"pending", "deliver", "tryK2", "blank", "reset", "config", "burn">>
  BY <1>14
<1>15. CASE p = <<"deliver", "tryK2", "blank", "reset", "config", "burn">>
  BY <1>15
<1>16. CASE p = <<"tryK2", "blank", "reset", "config", "burn">>
  BY <1>16
<1>17. CASE p = <<"blank", "reset", "config", "burn">>
  BY <1>17
<1>18. CASE p = <<"reset", "config", "burn">>
  BY <1>18
<1>19. CASE p = <<"config", "burn">>
  BY <1>19
<1>20. CASE p = <<"burn">>
  BY <1>20
<1>21. CASE p = <<"check", "deliver", "tryK2">>
  BY <1>21
<1>22. CASE p = <<"deliver", "tryK2">>
  BY <1>22
<1>23. CASE p = <<"tryK2">>
  BY <1>23
<1>24. CASE p = <<"check", "terminate">>
  BY <1>24
<1>25. CASE p = <<"terminate">>
  BY <1>25
<1>26. CASE p = <<"check", "wipe", "wipekeys">>
  BY <1>26
<1>27. CASE p = <<"check", "wipekeys">>
  BY <1>27
<1>28. CASE p = <<"wipe", "wipekeys">>
  BY <1>28
<1>29. CASE p = <<"wipekeys">>
  BY <1>29
<1>30. CASE p = <<"wipe">>
  BY <1>30
<1>31. CASE p = <<"activate">>
  BY <1>31
<1>32. CASE p = <<"wipe", "show">>
  BY <1>32
<1>33. CASE p = <<"show">>
  BY <1>33
<1>34. QED
  BY <1>32, <1>33, <1>1, <1>2, <1>3, <1>4, <1>5, <1>6, <1>7, <1>8, <1>9, <1>10, <1>11, <1>12, <1>13, <1>14, <1>15, <1>16, <1>17, <1>18, <1>19, <1>20, <1>21, <1>22, <1>23, <1>24, <1>25, <1>26, <1>27, <1>28, <1>29, <1>30, <1>31

(* The stages of a plan ------------------------------------------------------- *)

\* A tap that fits the stored key fits the version that the row names.
Keyed == config.k2 \in {NoKey, ActiveVersion(card)}

\* Between two requests; a row is pending only on its way to a delivery.
Resting == Keyed /\ card.state # "pending"

MoneyMoved == txns # << >>

\* Versions that an activation may put into use.
Issuable(v) == card.exists /\ (v <= card.latest \/ (card.latest = 0 /\ MoneyMoved))

\* What holds of the row, whoever runs.
Issuing ==
    /\ card.latest # 0 \/ ~MoneyMoved => card.active <= card.latest
    /\ card.exists /\ card.state = "new" => MoneyMoved

\* What holds before the next call of a worker for version v and a chip that
\* answered with k.
Fit(v, k, p) ==
    /\ Head(p) # "deliver" => card.state # "pending"
    /\ Head(p) = "discover" => card.state = "new"
    /\ Head(p) \in {"k2", "activate"} => Issuable(v)
    /\ KeyStored(p) => config.k2 = v
    /\ Head(p) \in Storing \/ ByHand(p) \/ ToWipe(p) => v = ActiveVersion(card)
    /\ Wiping(p) => v = k
    /\ Head(p) # "tryK2" /\ ~KeyStored(p) => Keyed

Stands(v, k, p) == IF p = << >> THEN Resting ELSE Fit(v, k, p)

Stage(w, c) ==
    /\ TypeOK /\ CardInv /\ Issuing
    /\ w.calls \in Plans
    /\ Head(w.calls) = c
    /\ Fit(w.version, w.key, w.calls)
    /\ Perform(c, w)

\* The row and the configuration with the fields that matter here.
LEMMA RowTypes ==
    ASSUME TypeOK, CardInv
    PROVE  /\ card \in Card /\ config \in Config
           /\ card.latest \in Nat /\ card.active \in Nat
           /\ MaxVersion \in Nat \ {0} /\ NoKey = 0
           /\ ~card.exists => card.state = "new" /\ card.latest = 0 /\ card.active = 0
           /\ card.state \in {"new", "pending"} => card.latest = 0 /\ card.active = 0
BY DOAssumption, LifeAssumption
   DEF TypeOK, CardInv, CardOK, Card, NewCard, NoVersion, DOAssumption, LifeAssumption

LEMMA KeySteps ==
    ASSUME NEW w \in Worker, NEW c \in {"k2", "tryK2", "blank", "config"}, Stage(w, c)
    PROVE  Issuing' /\ Stands(w.version, w.key, Tail(w.calls))'
<1> DEFINE q == Tail(w.calls)
<1>1. /\ UNCHANGED <<card, txns>>
      /\ config'.k2 = IF c = "blank" THEN NoKey ELSE w.version
  <2>1. config \in Config
    BY RowTypes DEF Stage
  <2>2. CASE c \in {"k2", "tryK2"}
    BY <2>1, <2>2 DEF Stage, Perform, HandleSetK2, Config
  <2>3. CASE c \in {"blank", "config"}
    BY <2>3 DEF Stage, Perform, HandleSetConfig
  <2>4. QED
    BY <2>2, <2>3
<1>2. Issuing' /\ ActiveVersion(card)' = ActiveVersion(card)
  BY <1>1 DEF Stage, Issuing, MoneyMoved, ActiveVersion
<1>3. /\ Kind(w.calls) /\ Follows(w.calls, q)
      /\ q # << >> => Kind(q)
  BY Following DEF Stage, Follows
<1>4. card'.state = card.state /\ card.state # "pending"
  BY <1>1 DEF Stage, Fit
<1>5. CASE c = "k2"
  <2>1. Issuable(w.version)'
    BY <1>1, <1>5 DEF Stage, Fit, Issuable, MoneyMoved
  <2>2. q # << >> /\ KeyStored(q) /\ Head(q) = "activate"
    BY <1>3, <1>5 DEF Stage, Follows, Kind
  <2>3. ~ByHand(q) /\ ~ToWipe(q) /\ ~Wiping(q)
    <3>1. <<"activate", "route">> # <<"activate">>
      OBVIOUS
    <3>2. ~ByHand(q)
      BY <2>2, <3>1, Zenon DEF KeyStored, ByHand
    <3>3. ~ToWipe(q) /\ ~Wiping(q)
      BY <1>3, <2>2 DEF Kind
    <3>4. QED
      BY <3>2, <3>3
  <2>4. config'.k2 = w.version
    BY <1>1, <1>5
  <2>5. QED
    BY <1>2, <1>4, <2>1, <2>2, <2>3, <2>4 DEF Stands, Fit, Storing
<1>6. CASE c # "k2"
  <2>1. w.version = ActiveVersion(card)
    BY <1>6 DEF Stage, Fit, Storing
  <2>2. Keyed'
    BY <1>1, <1>2, <1>6, <2>1 DEF Keyed
  <2>3. QED
    BY <1>2, <1>3, <1>4, <1>6, <2>1, <2>2 DEF Stage, Stands, Fit, Resting, Follows, Kind, Storing
<1>7. QED
  BY <1>2, <1>5, <1>6

LEMMA ActivateStep ==
    ASSUME NEW w \in Worker, Stage(w, "activate")
    PROVE  Issuing' /\ Stands(w.version, w.key, Tail(w.calls))'
<1> DEFINE q == Tail(w.calls)
<1>1. /\ card'.exists /\ card'.state = "active" /\ card'.active = w.version
      /\ card'.latest = card.latest /\ UNCHANGED <<config, txns>>
  BY RowTypes DEF Stage, Perform, HandleActivate, SetCard, Card, Fit, Issuable
<1>2. w.version \in Nat \ {0}
  BY DOAssumption DEF Worker, DOAssumption
<1>3. Issuing' /\ ActiveVersion(card)' = w.version
  BY <1>1, <1>2, RowTypes
     DEF Stage, Fit, Issuable, Issuing, MoneyMoved, ActiveVersion, NoVersion
<1>4. KeyStored(w.calls) \/ ByHand(w.calls) => Keyed'
  BY <1>1, <1>3 DEF Stage, Fit, Keyed
<1>5. /\ Kind(w.calls) /\ Follows(w.calls, q)
      /\ q # << >> => Kind(q)
  BY Following DEF Stage, Follows
<1>6. QED
  <2>1. card'.state # "pending" /\ Issuing'
    BY <1>1, <1>3
  <2>2. CASE q = << >>
    <3>1. Keyed'
      BY <1>4, <1>5, <2>2 DEF Stage, Follows
    <3>2. QED
      BY <2>1, <2>2, <3>1 DEF Stands, Resting
  <2>3. CASE q # << >> /\ Head(q) = "route"
    <3>1. Keyed'
      BY <1>4, <1>5, <2>3 DEF Stage, Follows
    <3>2. QED
      BY <1>5, <2>1, <2>3, <3>1 DEF Stands, Fit, Storing, Kind
  <2>4. CASE q # << >> /\ Head(q) = "tryK2"
    BY <1>3, <1>5, <2>1, <2>4 DEF Stands, Fit, Storing, Kind
  <2>5. QED
    BY <1>5, <2>2, <2>3, <2>4 DEF Stage, Follows

LEMMA DiscoverStep ==
    ASSUME NEW w \in Worker, Stage(w, "discover")
    PROVE  Issuing' /\ Stands(w.version, w.key, Tail(w.calls))'
<1> DEFINE q == Tail(w.calls)
<1>1. /\ card'.exists /\ card'.state = "discovered" /\ card'.active = w.version
      /\ card'.latest = (IF card.exists THEN card.latest ELSE w.version)
      /\ UNCHANGED <<config, txns>>
  BY RowTypes DEF Stage, Perform, HandleDiscover, SetCard, Card, Fit
<1>2. w.version \in Nat \ {0}
  BY DOAssumption DEF Worker, DOAssumption
<1>3. Issuing' /\ ActiveVersion(card)' = w.version
  BY <1>1, <1>2, RowTypes DEF Stage, Fit, Issuing, MoneyMoved, ActiveVersion, NoVersion
<1>4. q # << >> /\ Head(q) = "tryK2" /\ Kind(q)
  BY Following DEF Stage, Follows
<1>5. QED
  BY <1>1, <1>3, <1>4 DEF Stands, Fit, Storing, Kind

LEMMA DeliverStep ==
    ASSUME NEW w \in Worker, Stage(w, "deliver"), NEW v, v = card'.latest
    PROVE  Issuing' /\ Stands(v, w.key, Tail(w.calls))'
<1> DEFINE q == Tail(w.calls)
<1>1. /\ card'.exists /\ card'.state = "keys_delivered" /\ card'.active = NoVersion
      /\ card'.latest = card.latest + 1 /\ UNCHANGED <<config, txns>>
  BY RowTypes DEF Stage, Perform, HandleDeliverKeys, SetCard, Card
<1>2. Issuing' /\ ActiveVersion(card)' = v
  <2>1. card.latest \in Nat
    BY RowTypes DEF Stage
  <2>2. card'.latest # 0 /\ card'.active <= card'.latest
    BY <1>1, <2>1 DEF NoVersion
  <2>3. QED
    BY <1>1, <2>2 DEF Issuing, ActiveVersion, NoVersion
<1>3. q # << >> /\ Head(q) = "tryK2" /\ Kind(q)
  BY Following DEF Stage, Follows
<1>4. card'.state # "pending"
  BY <1>1
<1>5. ~KeyStored(q) /\ ~ByHand(q) /\ ~ToWipe(q) /\ ~Wiping(q)
  BY <1>3 DEF Kind
<1>6. QED
  BY <1>2, <1>3, <1>4, <1>5 DEF Stands, Fit, Storing

\* The calls that leave the key and the versions alone.
LEMMA OtherSteps ==
    ASSUME NEW w \in Worker, NEW c \in {"pending", "reset", "terminate", "wipe", "money",
                                        "counter", "read"},
           Stage(w, c)
    PROVE  Issuing' /\ Stands(w.version, w.key, Tail(w.calls))'
<1> DEFINE q == Tail(w.calls)
<1>1. /\ card'.latest = card.latest /\ card'.active = card.active /\ config' = config
      /\ card'.state # card.state =>
            \/ c = "pending" /\ card'.state = "pending"
            \/ c = "terminate" /\ card'.state = "terminated"
            \/ c = "wipe" /\ card'.state = "wipe_requested"
      /\ txns' # txns \/ (card'.exists /\ ~card.exists /\ card'.state = "new") =>
            c = "money" /\ MoneyMoved'
  <2>1. card \in Card
    BY RowTypes DEF Stage
  <2>2. CASE c = "money"
    <3>1. CASE UNCHANGED doVars
      BY <3>1 DEF doVars
    <3>2. CASE BalanceNext
      <4>1. card'.latest = card.latest /\ card'.active = card.active /\ card'.state = card.state
        BY <3>2, MoneyKeepsRow DEF Stage
      <4>2. PICK rows, n, a, v : Post(rows, n, a, v) /\ rows \in Seq(Txn)
        <5>1. txns \in Seq(Txn)
          BY DEF Stage, TypeOK
        <5>2. ASSUME NEW t \in 1..MaxTxns, HandleVoid(t)
              PROVE  \E rows, n, a, v : Post(rows, n, a, v) /\ rows \in Seq(Txn)
          <6>1. PICK k \in Voidable(t) :
                  Post([txns EXCEPT ![k].voided = TRUE], NoCounter, -txns[k].amount, t)
            BY <5>2 DEF HandleVoid
          <6>2. [txns EXCEPT ![k].voided = TRUE] \in Seq(Txn)
            BY <5>1, <6>1, MarkedType DEF Voidable
          <6>3. QED
            BY <6>1, <6>2
        <5>3. QED
          BY <3>2, <5>1, <5>2 DEF BalanceNext, HandleCredit, HandleDebit
      <4>3. config' = config /\ txns' # << >>
        BY <4>2 DEF Post
      <4>4. QED
        BY <2>2, <4>1, <4>3 DEF MoneyMoved
    <3>3. QED
      BY <2>2, <3>1, <3>2 DEF Stage, Perform
  <2>3. CASE c = "pending"
    BY <2>1, <2>3 DEF Stage, Perform, HandleMarkPending, SetCard, Card, doVars
  <2>4. CASE c = "terminate"
    BY <2>1, <2>4 DEF Stage, Perform, HandleTerminate, Card
  <2>5. CASE c = "wipe"
    BY <2>1, <2>5 DEF Stage, Perform, HandleRequestWipe, SetCard, Card, doVars
  <2>6. CASE c \in {"reset", "counter", "read"}
    BY <2>6 DEF Stage, Perform, HandleReset, HandleCheck, HandleRecordRead, doVars
  <2>7. QED
    BY <2>2, <2>3, <2>4, <2>5, <2>6
<1>2. Issuing' /\ ActiveVersion(card)' = ActiveVersion(card)
  <2>1. ActiveVersion(card)' = ActiveVersion(card)
    BY <1>1 DEF ActiveVersion
  <2>2. (MoneyMoved => MoneyMoved') /\ (card.latest # 0 \/ ~MoneyMoved => card.active <= card.latest)
    BY <1>1 DEF Stage, Issuing, MoneyMoved
  <2>3. card'.exists /\ card'.state = "new" => MoneyMoved'
    BY <1>1, <2>2 DEF Stage, Issuing
  <2>4. Issuing'
    BY <1>1, <2>2, <2>3 DEF Issuing
  <2>5. QED
    BY <2>1, <2>4
<1>3. /\ Kind(w.calls) /\ Follows(w.calls, q)
      /\ q # << >> => Kind(q)
  BY Following DEF Stage, Follows
<1>4. Keyed'
  BY <1>1, <1>2, <1>3 DEF Stage, Fit, Keyed, Kind
<1>5. CASE c = "pending"
  BY <1>2, <1>3, <1>4, <1>5 DEF Stage, Stands, Fit, Storing, Follows, Kind
<1>6. card.state # "pending" /\ (c # "pending" => card'.state # "pending")
  BY <1>1 DEF Stage, Fit
<1>7. CASE c = "reset"
  BY <1>2, <1>3, <1>4, <1>6, <1>7 DEF Stage, Stands, Fit, Storing, Follows, Kind
<1>8. CASE c = "terminate" \/ c = "money"
  BY <1>2, <1>3, <1>4, <1>6, <1>8 DEF Stage, Stands, Resting, Follows
<1>9. CASE c = "wipe"
  BY <1>2, <1>3, <1>4, <1>6, <1>9 DEF Stage, Stands, Fit, Resting, Storing, Follows, Kind
<1>10. CASE c \in {"counter", "read"}
  BY <1>2, <1>3, <1>4, <1>6, <1>10 DEF Stage, Stands, Fit, Resting, Storing, Follows, Kind
<1>11. QED
  BY <1>5, <1>7, <1>8, <1>9, <1>10

(* The one worker ------------------------------------------------------------- *)

Alone(j) == \A i \in Jobs : Running(i) => i = j

Watched(j) ==
    Running(j) => /\ Alone(j)
                  /\ job[j].calls \in Plans
                  /\ Fit(job[j].version, job[j].key, job[j].calls)

KeyInv ==
    orderly => /\ Issuing
               /\ Quiet => Resting
               /\ \A j \in Jobs : Watched(j)

LEMMA InitKeys == LifeInit => KeyInv
BY LifeAssumption DEF LifeInit, DOInit, NewCard, NoConfig, NoVersion, KeyInv, Issuing, Quiet,
   Resting, Keyed, Watched, Running, MoneyMoved, LifeAssumption

\* Where a worker that moves leaves its row fitting, the invariant holds.
LEMMA MovesFit ==
    ASSUME Base, KeyInv, orderly, NEW j \in Jobs, job[j] \in Worker, Running(j),
           NEW w, NEW p, Moves(j, w, p), p = << >> \/ p \in Plans,
           Issuing', Stands(w.version, w.key, p)'
    PROVE  KeyInv'
<1>1. \A i \in Jobs : i # j => ~Running(i)'
  <2>1. \A i \in Jobs : i # j => job[i] = Idle
    BY DEF KeyInv, Watched, Alone, Running
  <2>2. QED
    BY <2>1, WorkersAfter DEF Running, Base
<1>2. Alone(j)'
  BY <1>1 DEF Alone
<1>3. CASE p = << >>
  <2>1. Drop(w, p) = Idle
    BY <1>3 DEF Drop
  <2>2. ~Running(j)'
    BY <2>1, WorkersAfter DEF Running, Base
  <2>3. QED
    BY <1>1, <1>3, <2>2 DEF KeyInv, Watched, Stands
<1>4. CASE p # << >>
  <2>1. Drop(w, p) # Idle /\ Drop(w, p).calls = p /\ Drop(w, p).version = w.version
        /\ Drop(w, p).key = w.key
    <3>1. Drop(w, p).calls = p
      <4>1. w \in Worker
        BY MovedWorker DEF Base
      <4>2. QED
        BY <1>4, <4>1 DEF Drop, Worker
    <3>2. Idle.calls = << >>
      BY DEF Idle
    <3>3. Drop(w, p) # Idle
      BY <1>4, <3>1, <3>2
    <3>4. QED
      BY <3>1, <3>3, MovedWorker DEF Base
  <2>2. /\ job'[j] # Idle /\ job'[j].version = w.version
        /\ job'[j].key = w.key /\ job'[j].calls = p
    BY <2>1, WorkersAfter DEF Base
  <2>3. Fit(w.version, w.key, p)'
    BY <1>4 DEF Stands
  <2>4. Watched(j)'
    BY <1>2, <1>4, <2>2, <2>3 DEF Watched
  <2>5. ~Quiet'
    BY <2>2 DEF Quiet, Running
  <2>6. QED
    BY <1>1, <2>4, <2>5 DEF KeyInv, Watched
<1>5. QED
  BY <1>3, <1>4

LEMMA WorkKeys ==
    \A j \in Jobs : Base /\ CardInv /\ KeyInv /\ Work(j) => KeyInv'
<1> SUFFICES ASSUME NEW j \in Jobs, Base, CardInv, KeyInv, Work(j), orderly'
             PROVE  KeyInv'
  BY DEF KeyInv
<1>0. PICK o \in Worker : o = job[j]
  BY WorkMoves DEF Acts, Base
<1> DEFINE s == o.calls
           c == Head(s)
           q == Tail(s)
<1>1. /\ o = job[j] /\ Running(j) /\ s \in Seq(Calls) \ {<< >>} /\ c \in Calls
  <2>1. s \in Seq(Calls) \ {<< >>}
    BY DEF Worker
  <2>2. Running(j)
    BY <1>0, <2>1 DEF Running, Idle
  <2>3. QED
    BY <1>0, <2>1, <2>2, TailCalls
<1>2. ~Fail(j)
  BY DEF Fail
<1>3. orderly
  BY <1>2 DEF Work, Call, Deliver, Check, Answer, Burn
<1>4. Issuing /\ s \in Plans /\ Fit(o.version, o.key, s) /\ TypeOK
  BY <1>1, <1>3 DEF KeyInv, Watched, Base, LifeTypeOK
<1>5. Kind(s) /\ Follows(s, q) /\ (q # << >> => Kind(q)) /\ (q = << >> \/ q \in Plans)
  BY <1>4, Following DEF Follows
<1>6. ASSUME Move(j, o, q), Issuing', Stands(o.version, o.key, q)'
      PROVE  KeyInv'
  <2>1. Moves(j, o, q)
    BY <1>1, <1>6, TailCalls, ShorterLists DEF Moves
  <2>2. QED
    BY <1>1, <1>3, <1>5, <1>6, <2>1, MovesFit
<1>7. ASSUME UNCHANGED doVars
      PROVE  Issuing' /\ \A v, k, p : Stands(v, k, p) => Stands(v, k, p)'
  <2>1. card' = card /\ config' = config /\ txns' = txns
    BY <1>7 DEF doVars
  <2>2. QED
    BY <1>4, <2>1 DEF Issuing, Stands, Fit, Resting, Keyed, Issuable, MoneyMoved
<1>8. CASE Call(j)
  <2>1. Stage(o, c)
    BY <1>1, <1>4, <1>8 DEF Base, Stage, Call, Next1
  <2>2. c \in Calls \ {"deliver", "check", "route", "wipekeys", "show", "burn"}
    BY <1>1, <1>8 DEF Call, Next1
  <2>3. \/ c \in {"k2", "tryK2", "blank", "config"} \/ c = "activate" \/ c = "discover"
        \/ c \in {"pending", "reset", "terminate", "wipe", "money", "counter", "read"}
    BY <2>2 DEF Calls, BestEffort
  <2>4. Issuing' /\ Stands(o.version, o.key, q)'
    BY <1>1, <2>1, <2>3, KeySteps, ActivateStep, DiscoverStep, OtherSteps
  <2>5. QED
    BY <1>1, <1>6, <1>8, <2>4 DEF Call, Advance
<1>9. CASE Deliver(j)
  <2> DEFINE w == [o EXCEPT !.version = card'.latest]
  <2>1. c = "deliver" /\ HandleDeliverKeys /\ Move(j, w, q)
    BY <1>1, <1>9 DEF Deliver, To, Next1
  <2>2. Stage(o, "deliver")
    BY <1>4, <2>1 DEF Stage, Perform
  <2>3. PICK v : v = card'.latest
    OBVIOUS
  <2>4. Issuing' /\ Stands(v, o.key, q)'
    BY <1>1, <2>2, <2>3, DeliverStep
  <2>5. w.version = v /\ w.key = o.key
    BY <1>1, <2>3 DEF Worker
  <2>6. Moves(j, w, q)
    BY <1>1, <2>1, TailCalls, ShorterLists DEF Moves
  <2>7. PICK x : x = w
    OBVIOUS
  <2>8. Moves(j, x, q) /\ Stands(x.version, x.key, q)'
    BY <2>4, <2>5, <2>6, <2>7
  <2>9. QED
    BY <1>1, <1>3, <1>5, <2>4, <2>8, MovesFit
<1>10. CASE Check(j)
  <2>1. UNCHANGED doVars /\ c \in {"check", "route"} /\ Keyed /\ card.state # "pending"
    <3>1. UNCHANGED doVars /\ c \in {"check", "route"}
      BY <1>1, <1>10 DEF Check, To, Next1
    <3>2. QED
      BY <1>4, <1>5, <3>1 DEF Fit, Kind
  <2>2. CASE Move(j, o, << >>)
    <3>1. Moves(j, o, << >>)
      BY <1>1, <2>2, ShorterLists DEF Moves
    <3>2. Stands(o.version, o.key, << >>)
      BY <2>1 DEF Stands, Resting
    <3>3. Stands(o.version, o.key, << >>)' /\ Issuing'
      BY <1>7, <2>1, <3>2
    <3>4. QED
      BY <1>1, <1>3, <3>1, <3>3, MovesFit
  <2>3. CASE c = "check" /\ ConfigKey(o.version) = o.key /\ Move(j, o, q)
    <3>1. ToWipe(s) => o.version = o.key
      BY <1>4, <2>1, <2>3 DEF Fit, Keyed, ConfigKey
    <3>2. Fit(o.version, o.key, q)
      BY <1>5, <2>1, <2>3, <3>1 DEF Fit, Follows, Kind, Storing
    <3>3. Stands(o.version, o.key, q)
      BY <1>5, <2>1, <3>2 DEF Stands, Resting
    <3>4. QED
      BY <1>6, <1>7, <2>1, <2>3, <3>3
  <2>4. ASSUME NEW p \in {<<"read">>, <<"counter", "read">>}, c = "route", Move(j, o, p)
        PROVE  KeyInv'
    <3>1. p \in Plans /\ Kind(p) /\ Head(p) \in {"read", "counter"}
      <4>1. p \in Plans
        BY DEF Plans
      <4>2. Head(p) \in {"read", "counter"}
        <5>1. CASE p = <<"read">>
          BY <5>1
        <5>2. CASE p = <<"counter", "read">>
          BY <5>2
        <5>3. QED
          BY <2>4, <5>1, <5>2
      <4>3. QED
        BY <4>1, <4>2, Following
    <3>2. Stands(o.version, o.key, p)
      BY <2>1, <3>1 DEF Stands, Resting, Fit, Kind, Storing
    <3>3. Moves(j, o, p)
      <4>1. Safe(p) /\ p # s
        BY <1>1, <2>4, HarmlessPlans, ShorterLists
      <4>2. ~Ahead(p, "deliver")
        <5>1. CASE p = <<"read">>
          BY <5>1 DEF Ahead
        <5>2. CASE p = <<"counter", "read">>
          BY <5>2 DEF Ahead
        <5>3. QED
          BY <2>4, <5>1, <5>2
      <4>3. QED
        BY <1>1, <2>4, <4>1, <4>2 DEF Moves, Safe, Planned, Harmless
    <3>4. Stands(o.version, o.key, p)' /\ Issuing'
      BY <1>7, <2>1, <3>2
    <3>5. QED
      BY <1>1, <1>3, <3>1, <3>3, <3>4, MovesFit
  <2>5. QED
    BY <1>1, <1>10, <2>1, <2>2, <2>3, <2>4 DEF Check, Next1
<1>11. CASE Answer(j) \/ Burn(j)
  <2>1. UNCHANGED doVars /\ c \in {"wipekeys", "show", "burn"} /\ Move(j, o, q)
    BY <1>1, <1>11 DEF Answer, Burn, To, Next1, Advance
  <2>2. Stands(o.version, o.key, q)
    BY <1>4, <1>5, <2>1 DEF Stands, Resting, Fit, Follows, Kind
  <2>3. QED
    BY <1>6, <1>7, <2>1, <2>2
<1>12. QED
  BY <1>2, <1>8, <1>9, <1>10, <1>11 DEF Work

(* A request ------------------------------------------------------------------ *)

\* The plans that ask nothing of the row but that no request is on its way.
PlainPlans ==
    {<<"route">>, <<"check", "counter", "read", "money">>, <<"money">>, <<"burn">>,
     <<"pending", "deliver", "tryK2", "blank", "reset", "config", "burn">>,
     <<"deliver", "tryK2", "blank", "reset", "config", "burn">>,
     <<"check", "terminate">>, <<"terminate">>, <<"wipe">>, <<"wipe", "show">>,
     <<"check", "deliver", "tryK2">>, <<"deliver", "tryK2">>}

LEMMA PlainFits ==
    ASSUME Resting, NEW p \in PlainPlans, NEW v, NEW k
    PROVE  p \in Plans /\ Fit(v, k, p)
<1>1. p \in Plans /\ Head(p) \notin Storing \cup {"discover", "k2", "activate", "wipekeys"}
  BY DEF PlainPlans, Plans, Storing
<1>2. ~ToWipe(p) /\ ~Wiping(p)
  BY DEF PlainPlans, ToWipe, Wiping
<1>3. Kind(p)
  BY <1>1, Following
<1>4. QED
  BY <1>1, <1>2, <1>3 DEF Fit, Kind, Resting, Storing

\* What a request that finds no other one leaves behind.
Begun(j, v, p) ==
    /\ Quiet /\ Resting /\ Issuing
    /\ \E m : job' = [job EXCEPT ![j] = NewWorker(v, m, p)]
    /\ UNCHANGED doVars
    /\ p \in Plans
    /\ Fit(v, chip, p)

LEMMA RequestFits ==
    ASSUME Base, CardInv, KeyInv, NEW j \in Jobs, Request(j), orderly'
    PROVE  \E v, p : Begun(j, v, p)
<1>1. ~HandleActivateCardSubmit(j)
  BY DEF HandleActivateCardSubmit
<1>2. ASSUME NEW v, NEW m, NEW p, Begin(j, v, m, p),
             Resting /\ Issuing => p \in Plans /\ Fit(v, chip, p)
      PROVE  \E u, r : Begun(j, u, r)
  <2>1. Quiet /\ orderly /\ UNCHANGED doVars /\ job' = [job EXCEPT ![j] = NewWorker(v, m, p)]
    BY <1>2 DEF Begin, NewWorker
  <2>2. Resting /\ Issuing
    BY <2>1 DEF KeyInv
  <2>3. Begun(j, v, p)
    BY <1>2, <2>1, <2>2 DEF Begun
  <2>4. QED
    BY <2>3
<1>3. ASSUME NEW v, NEW m, NEW p \in PlainPlans, Begin(j, v, m, p)
      PROVE  \E u, r : Begun(j, u, r)
  BY <1>2, <1>3, PlainFits
<1>4. /\ card.latest \in Nat /\ card.active \in Nat /\ chip \in Nat
      /\ card.state \in {"active", "discovered"} => card.exists /\ card.active # NoVersion
      /\ card.state = "keys_delivered" =>
            card.exists /\ card.latest # 0 /\ card.active = NoVersion
  BY RowTypes DEF Base, LifeTypeOK, CardInv, CardOK, NewCard
<1>5. CASE HandleLnurlw(j)
  <2>1. ASSUME card.state = "keys_delivered", Detect(chip, card.latest) # 0,
               Plan(j, Detect(chip, card.latest), KeyThenActivate)
        PROVE  \E u, r : Begun(j, u, r)
    <3> DEFINE p == KeyThenActivate
    <3>1. Detect(chip, card.latest) = chip /\ Issuable(chip)
      BY <1>4, <2>1, LifeAssumption DEF Detect, Issuable, LifeAssumption
    <3>2. p \in Plans /\ Head(p) = "k2"
      BY DEF KeyThenActivate, Plans
    <3>3. Kind(p)
      BY <3>2, Following
    <3>4. Resting => Fit(chip, chip, p)
      BY <3>1, <3>2, <3>3 DEF Fit, Kind, Resting, Storing
    <3>5. QED
      BY <1>2, <2>1, <3>1, <3>2, <3>4 DEF Plan
  <2>2. ASSUME card.state \in {"new", "pending"}, Plan(j, chip, <<"discover", "tryK2", "route">>)
        PROVE  \E u, r : Begun(j, u, r)
    <3> DEFINE p == <<"discover", "tryK2", "route">>
    <3>1. p \in Plans /\ Head(p) = "discover"
      BY DEF Plans
    <3>2. Kind(p)
      BY <3>1, Following
    <3>3. Resting => Fit(chip, chip, p)
      BY <2>2, <3>1, <3>2 DEF Fit, Kind, Resting, Storing
    <3>4. QED
      BY <1>2, <2>2, <3>1, <3>3 DEF Plan
  <2>3. CASE Plan(j, ActiveVersion(card), <<"route">>) \/ Plan(j, 1, <<"route">>)
    BY <1>3, <2>3 DEF Plan, PlainPlans
  <2>4. QED
    BY <1>5, <2>1, <2>2, <2>3 DEF HandleLnurlw
<1>6. CASE ValidateCardTap(j)
  <2> DEFINE p == <<"activate", "tryK2", "check", "counter", "read", "money">>
  <2>1. ASSUME card.state = "keys_delivered", Detect(chip, card.latest) # 0,
               Plan(j, Detect(chip, card.latest), p)
        PROVE  \E u, r : Begun(j, u, r)
    <3>1. Detect(chip, card.latest) = chip /\ Issuable(chip)
      BY <1>4, <2>1, LifeAssumption DEF Detect, Issuable, LifeAssumption
    <3>2. p \in Plans /\ Head(p) = "activate" /\ ~ByHand(p) /\ ~KeyStored(p)
      BY DEF Plans, ByHand, KeyStored
    <3>3. Kind(p)
      BY <3>2, Following
    <3>4. Resting => Fit(chip, chip, p)
      BY <3>1, <3>2, <3>3 DEF Fit, Kind, Resting, Storing
    <3>5. QED
      BY <1>2, <2>1, <3>1, <3>2, <3>4 DEF Plan
  <2>2. ASSUME NEW v, Plan(j, v, <<"check", "counter", "read", "money">>)
        PROVE  \E u, r : Begun(j, u, r)
    BY <1>3, <2>2 DEF Plan, PlainPlans
  <2>3. QED
    BY <1>6, <2>1, <2>2 DEF ValidateCardTap
<1>7. ASSUME NEW m, HandleProgrammingFlow(j, m)
      PROVE  \E u, r : Begun(j, u, r)
  BY <1>3, <1>7 DEF HandleProgrammingFlow, PlainPlans
<1>8. CASE HandleResetFlow(j)
  <2> DEFINE p == IF card.state = "active" THEN <<"check", "wipe", "wipekeys">>
                  ELSE <<"check", "wipekeys">>
  <2>1. Plan(j, ActiveVersion(card), p)
    BY <1>8 DEF HandleResetFlow
  <2>2. p \in Plans /\ Head(p) = "check"
    BY DEF Plans
  <2>3. Kind(p)
    BY <2>2, Following
  <2>4. Resting => Fit(ActiveVersion(card), chip, p)
    BY <2>2, <2>3 DEF Fit, Kind, Resting, Storing
  <2>5. QED
    BY <1>2, <2>1, <2>2, <2>4 DEF Plan
<1>9. CASE \/ HandleCardLock(j) \/ HandleCardReactivate(j) \/ Retire(j)
            \/ Reprovision(j) \/ HandleTopUpAction(j)
  BY <1>3, <1>9 DEF HandleCardLock, HandleCardReactivate, Retire, Reprovision,
     HandleTopUpAction, Plan, PlainPlans
<1>10. CASE BatchActivate(j)
  <2> DEFINE p == <<"activate">>
             v == ActiveVersion(card)
  <2>1. Plan(j, v, p) /\ card.state \in {"keys_delivered", "discovered"}
    BY <1>10 DEF BatchActivate
  <2>2. p \in Plans /\ Head(p) = "activate" /\ ~KeyStored(p)
    BY DEF Plans, KeyStored
  <2>3. Kind(p)
    BY <2>2, Following
  <2>4. Issuing => Issuable(v)
    <3>1. CASE card.state = "keys_delivered"
      BY <1>4, <3>1 DEF Issuable, ActiveVersion, NoVersion
    <3>2. CASE card.state = "discovered"
      BY <1>4, <3>2 DEF Issuing, Issuable, ActiveVersion, NoVersion
    <3>3. QED
      BY <2>1, <3>1, <3>2
  <2>5. Resting /\ Issuing => Fit(v, chip, p)
    BY <2>2, <2>3, <2>4 DEF Fit, Kind, Resting, Storing
  <2>6. QED
    BY <1>2, <2>1, <2>2, <2>5 DEF Plan
<1>11. QED
  BY <1>1, <1>5, <1>6, <1>7, <1>8, <1>9, <1>10 DEF Request

LEMMA RequestKeys ==
    \A j \in Jobs : Base /\ CardInv /\ KeyInv /\ Request(j) => KeyInv'
<1> SUFFICES ASSUME NEW j \in Jobs, Base, CardInv, KeyInv, Request(j), orderly'
             PROVE  KeyInv'
  BY DEF KeyInv
<1>1. PICK v, p : Begun(j, v, p)
  BY RequestFits
<1>2. PICK m : job' = [job EXCEPT ![j] = NewWorker(v, m, p)]
  BY <1>1 DEF Begun
<1>3. /\ card' = card /\ config' = config /\ txns' = txns
      /\ Issuing /\ p \in Plans
  BY <1>1 DEF Begun, doVars
<1>4. \A i \in Jobs : i # j => ~Running(i)'
  BY <1>1, <1>2 DEF Begun, Quiet, Running, Base, LifeTypeOK
<1>5. job'[j] = NewWorker(v, m, p)
  BY <1>2 DEF Base, LifeTypeOK
<1>6. PICK k : k = chip
  OBVIOUS
<1>7. Fit(v, k, p)'
  BY <1>1, <1>3, <1>6 DEF Begun, Fit, Keyed, Issuable, MoneyMoved
<1>8. job'[j].calls = p /\ job'[j].version = v /\ job'[j].key = k
  BY <1>5, <1>6 DEF NewWorker
<1>9. Running(j)'
  <2>1. p # << >>
    BY <1>3, Following DEF Kind
  <2>2. Idle.calls = << >>
    BY DEF Idle
  <2>3. QED
    BY <1>8, <2>1, <2>2 DEF Running
<1>10. Issuing' /\ ~Quiet'
  BY <1>3, <1>9 DEF Issuing, MoneyMoved, Quiet
<1>11. Watched(j)'
  BY <1>3, <1>4, <1>7, <1>8 DEF Watched, Alone
<1>12. QED
  BY <1>4, <1>10, <1>11 DEF KeyInv, Watched

\* After a restore requests are not orderly any more, and an export reads only.
LEMMA BackupKeys ==
    Base /\ KeyInv /\ (HandleCardExport \/ HandleCardRestore) => KeyInv'
<1>1. KeyInv /\ HandleCardExport => KeyInv'
  BY DEF HandleCardExport, HandleExportState, KeyInv, Issuing, MoneyMoved, Quiet, Resting, Keyed,
     Watched, Alone, Running, Fit, Issuable
<1>2. HandleCardRestore => KeyInv'
  BY DEF HandleCardRestore, KeyInv
<1>3. QED
  BY <1>1, <1>2

\* Money that moves in the middle of a request only excuses more.
LEMMA OthersKeys ==
    ASSUME Base, CardInv, KeyInv, Others
    PROVE  KeyInv'
<1>1. /\ UNCHANGED <<config, chip, job, orderly>>
      /\ card'.state = card.state /\ card'.latest = card.latest /\ card'.active = card.active
      /\ UNCHANGED <<card, txns>> \/ (card'.exists /\ txns' # << >>)
  BY OthersKeepRow DEF Base, LifeTypeOK
<1>2. ActiveVersion(card)' = ActiveVersion(card)
  BY <1>1 DEF ActiveVersion
<1>3. Keyed' = Keyed /\ Resting' = Resting /\ Quiet' = Quiet
  BY <1>1, <1>2 DEF Keyed, Resting, Quiet, Running
<1>4. Issuing => Issuing'
  BY <1>1 DEF Issuing, MoneyMoved
<1>5. \A j \in Jobs : Issuable(job[j].version) => Issuable(job[j].version)'
  BY <1>1 DEF Issuable, MoneyMoved
<1>6. \A j \in Jobs : Fit(job[j].version, job[j].key, job[j].calls)
                      => Fit(job[j].version, job[j].key, job[j].calls)'
  BY <1>1, <1>2, <1>3, <1>5 DEF Fit
<1>7. \A j \in Jobs : Watched(j) => Watched(j)'
  BY <1>1, <1>6 DEF Watched, Alone, Running
<1>8. QED
  BY <1>1, <1>3, <1>4, <1>7 DEF KeyInv

(* The theorems ---------------------------------------------------------------- *)

LEMMA AlwaysKeys == LifeSpec => []KeyInv
<1>1. KeyInv /\ UNCHANGED lifeVars => KeyInv'
  BY DEF lifeVars, KeyInv, Issuing, MoneyMoved, Quiet, Resting, Keyed, Watched, Alone, Running,
     Fit, Issuable
<1>2. Base /\ CardInv /\ KeyInv /\ Others => KeyInv'
  BY OthersKeys
<1>3. Base /\ CardInv /\ KeyInv /\ [LifeNext]_lifeVars => KeyInv'
  BY <1>1, <1>2, RequestKeys, WorkKeys, BackupKeys DEF LifeNext
<1>4. QED
  BY <1>3, InitKeys, AlwaysBase, AlwaysVersions, PTL DEF LifeSpec

\* After any number of orderly programmings, wipes, reactivations, discoveries
\* and taps with old chips, the stored key is the one of the version in use.
THEOREM StoredKeyFits == LifeSpec => []KeyFits
<1>1. KeyInv /\ CardInv => KeyFits
  BY DEF KeyInv, Resting, Keyed, KeyFits, ActiveVersion, CardInv, CardOK
<1>2. QED
  BY <1>1, AlwaysKeys, AlwaysVersions, PTL

\* After orderly use the version in use has been issued, so that no delivery
\* hands out its keys again, unless money created the row.
THEOREM VersionInUseIssued == LifeSpec => []ActiveIsIssued
<1>1. KeyInv => ActiveIsIssued
  BY DEF KeyInv, Issuing, MoneyMoved, ActiveIsIssued
<1>2. QED
  BY <1>1, AlwaysKeys, PTL

\* Wipe keys that are answered to a tap are the keys of the chip that made it.
THEOREM WipedWithItsKeys == LifeSpec => []WipeKeysFit
<1>1. KeyInv => WipeKeysFit
  <2>1. SUFFICES ASSUME KeyInv, NEW j \in Jobs, orderly, To(j, "wipekeys")
                 PROVE  job[j].version = job[j].key
    BY DEF WipeKeysFit
  <2>2. job[j].calls \in Plans /\ Head(job[j].calls) = "wipekeys"
        /\ Fit(job[j].version, job[j].key, job[j].calls)
    BY <2>1 DEF KeyInv, Watched, To, Next1
  <2>3. Wiping(job[j].calls)
    BY <2>2, Following DEF Kind
  <2>4. QED
    BY <2>2, <2>3 DEF Fit
<1>2. QED
  BY <1>1, AlwaysKeys, PTL

=============================================================================
