---------------------------- MODULE System_proofs ----------------------------
(***************************************************************************)
(* The workers of System, composed: a step of one kind of worker is, for   *)
(* the other two, a call of the surroundings that their modules allow.     *)
(* What is proved of each part then holds of the whole card, at once.      *)
(***************************************************************************)
EXTENDS System, CardReplayDO_proofs, TLAPS

(* One object under four names ----------------------------------------------- *)

\* Each instance has the object's operators under its own names; they mean the
\* same, and their assumptions on the constants are those of this module.
LEMMA WithdrawObject ==
    /\ Withdraw!doVars = doVars
    /\ \A a : Withdraw!HandleCredit(a) <=> HandleCredit(a)
    /\ \A n, a : Withdraw!HandleDebit(n, a) <=> HandleDebit(n, a)
    /\ Withdraw!PresentNext <=> PresentNext
    /\ Withdraw!ClaimNext <=> ClaimNext
    /\ Withdraw!BalanceNext <=> BalanceNext
    /\ Withdraw!StateNext <=> StateNext
    /\ Withdraw!ConfigNext <=> ConfigNext
    /\ Withdraw!HandleReset <=> HandleReset
    /\ Withdraw!HandleTerminate <=> HandleTerminate
    /\ Withdraw!HandleImportState <=> HandleImportState
<1>1. Withdraw!doVars = doVars
  BY DEF Withdraw!doVars, doVars
<1>2. \A a : Withdraw!HandleCredit(a) <=> HandleCredit(a)
  BY DEF HandleCredit, Withdraw!HandleCredit, Post, Withdraw!Post, NoCounter, Withdraw!NoCounter
<1>3. \A n, a : Withdraw!HandleDebit(n, a) <=> HandleDebit(n, a)
  BY DEF HandleDebit, Withdraw!HandleDebit, Post, Withdraw!Post
<1>4. Withdraw!PresentNext <=> PresentNext
  BY DEF PresentNext, Withdraw!PresentNext, HandleCheck, Withdraw!HandleCheck, HandleRecordRead,
         Withdraw!HandleRecordRead, CounterFresh, Withdraw!CounterFresh, Put, Withdraw!Put
<1>5. Withdraw!ClaimNext <=> ClaimNext
  BY DEF ClaimNext, Withdraw!ClaimNext, HandleRecordTap, Withdraw!HandleRecordTap,
         HandleClaimTap, Withdraw!HandleClaimTap, HandleUpdateTapStatus,
         Withdraw!HandleUpdateTapStatus, CounterFresh, Withdraw!CounterFresh, Claimed,
         Withdraw!Claimed, Put, Withdraw!Put
<1>6. Withdraw!BalanceNext <=> BalanceNext
  BY DEF BalanceNext, Withdraw!BalanceNext, HandleCredit, Withdraw!HandleCredit, HandleDebit,
         Withdraw!HandleDebit, HandleVoid, Withdraw!HandleVoid, Voidable, Withdraw!Voidable,
         Post, Withdraw!Post, NoCounter, Withdraw!NoCounter
<1>7. Withdraw!StateNext <=> StateNext
  BY DEF StateNext, Withdraw!StateNext, SetCard, Withdraw!SetCard, HandleDeliverKeys,
         Withdraw!HandleDeliverKeys, HandleActivate, Withdraw!HandleActivate, HandleDiscover,
         Withdraw!HandleDiscover, HandleRequestWipe, Withdraw!HandleRequestWipe,
         HandleMarkPending, Withdraw!HandleMarkPending, NoVersion, Withdraw!NoVersion
<1>8. Withdraw!ConfigNext <=> ConfigNext
  BY DEF ConfigNext, Withdraw!ConfigNext, HandleSetK2, Withdraw!HandleSetK2, HandleSetConfig,
         Withdraw!HandleSetConfig, HandleExportState, Withdraw!HandleExportState
<1>9. Withdraw!HandleReset <=> HandleReset
  BY DEF HandleReset, Withdraw!HandleReset, EraseTaps, Withdraw!EraseTaps, NoTaps,
         Withdraw!NoTaps, NoCounter, Withdraw!NoCounter
<1>10. Withdraw!HandleTerminate <=> HandleTerminate
  BY DEF HandleTerminate, Withdraw!HandleTerminate, EraseTaps, Withdraw!EraseTaps, NoTaps,
         Withdraw!NoTaps, NoCounter, Withdraw!NoCounter
<1>11. Withdraw!HandleImportState <=> HandleImportState
  BY DEF HandleImportState, Withdraw!HandleImportState
<1>12. QED
  BY <1>1, <1>2, <1>3, <1>4, <1>5, <1>6, <1>7, <1>8, <1>9, <1>10, <1>11

LEMMA DeskObject ==
    /\ Desk!doVars = doVars
    /\ \A a : Desk!HandleCredit(a) <=> HandleCredit(a)
    /\ \A n, a : Desk!HandleDebit(n, a) <=> HandleDebit(n, a)
    /\ Desk!PresentNext <=> PresentNext
    /\ Desk!ClaimNext <=> ClaimNext
    /\ Desk!BalanceNext <=> BalanceNext
    /\ Desk!StateNext <=> StateNext
    /\ Desk!ConfigNext <=> ConfigNext
    /\ Desk!HandleReset <=> HandleReset
    /\ Desk!HandleTerminate <=> HandleTerminate
    /\ Desk!HandleImportState <=> HandleImportState
<1>1. Desk!doVars = doVars
  BY DEF Desk!doVars, doVars
<1>2. \A a : Desk!HandleCredit(a) <=> HandleCredit(a)
  BY DEF HandleCredit, Desk!HandleCredit, Post, Desk!Post, NoCounter, Desk!NoCounter
<1>3. \A n, a : Desk!HandleDebit(n, a) <=> HandleDebit(n, a)
  BY DEF HandleDebit, Desk!HandleDebit, Post, Desk!Post
<1>4. Desk!PresentNext <=> PresentNext
  BY DEF PresentNext, Desk!PresentNext, HandleCheck, Desk!HandleCheck, HandleRecordRead,
         Desk!HandleRecordRead, CounterFresh, Desk!CounterFresh, Put, Desk!Put
<1>5. Desk!ClaimNext <=> ClaimNext
  BY DEF ClaimNext, Desk!ClaimNext, HandleRecordTap, Desk!HandleRecordTap, HandleClaimTap,
         Desk!HandleClaimTap, HandleUpdateTapStatus, Desk!HandleUpdateTapStatus, CounterFresh,
         Desk!CounterFresh, Claimed, Desk!Claimed, Put, Desk!Put
<1>6. Desk!BalanceNext <=> BalanceNext
  BY DEF BalanceNext, Desk!BalanceNext, HandleCredit, Desk!HandleCredit, HandleDebit,
         Desk!HandleDebit, HandleVoid, Desk!HandleVoid, Voidable, Desk!Voidable, Post,
         Desk!Post, NoCounter, Desk!NoCounter
<1>7. Desk!StateNext <=> StateNext
  BY DEF StateNext, Desk!StateNext, SetCard, Desk!SetCard, HandleDeliverKeys,
         Desk!HandleDeliverKeys, HandleActivate, Desk!HandleActivate, HandleDiscover,
         Desk!HandleDiscover, HandleRequestWipe, Desk!HandleRequestWipe, HandleMarkPending,
         Desk!HandleMarkPending, NoVersion, Desk!NoVersion
<1>8. Desk!ConfigNext <=> ConfigNext
  BY DEF ConfigNext, Desk!ConfigNext, HandleSetK2, Desk!HandleSetK2, HandleSetConfig,
         Desk!HandleSetConfig, HandleExportState, Desk!HandleExportState
<1>9. Desk!HandleReset <=> HandleReset
  BY DEF HandleReset, Desk!HandleReset, EraseTaps, Desk!EraseTaps, NoTaps, Desk!NoTaps,
         NoCounter, Desk!NoCounter
<1>10. Desk!HandleTerminate <=> HandleTerminate
  BY DEF HandleTerminate, Desk!HandleTerminate, EraseTaps, Desk!EraseTaps, NoTaps, Desk!NoTaps,
         NoCounter, Desk!NoCounter
<1>11. Desk!HandleImportState <=> HandleImportState
  BY DEF HandleImportState, Desk!HandleImportState
<1>12. QED
  BY <1>1, <1>2, <1>3, <1>4, <1>5, <1>6, <1>7, <1>8, <1>9, <1>10, <1>11

LEMMA LifeObject ==
    /\ Life!doVars = doVars
    /\ \A a : Life!HandleCredit(a) <=> HandleCredit(a)
    /\ \A n, a : Life!HandleDebit(n, a) <=> HandleDebit(n, a)
    /\ Life!PresentNext <=> PresentNext
    /\ Life!ClaimNext <=> ClaimNext
    /\ Life!BalanceNext <=> BalanceNext
    /\ Life!StateNext <=> StateNext
    /\ Life!ConfigNext <=> ConfigNext
    /\ Life!HandleReset <=> HandleReset
    /\ Life!HandleTerminate <=> HandleTerminate
    /\ Life!HandleImportState <=> HandleImportState
<1>1. Life!doVars = doVars
  BY DEF Life!doVars, doVars
<1>2. \A a : Life!HandleCredit(a) <=> HandleCredit(a)
  BY DEF HandleCredit, Life!HandleCredit, Post, Life!Post, NoCounter, Life!NoCounter
<1>3. \A n, a : Life!HandleDebit(n, a) <=> HandleDebit(n, a)
  BY DEF HandleDebit, Life!HandleDebit, Post, Life!Post
<1>4. Life!PresentNext <=> PresentNext
  BY DEF PresentNext, Life!PresentNext, HandleCheck, Life!HandleCheck, HandleRecordRead,
         Life!HandleRecordRead, CounterFresh, Life!CounterFresh, Put, Life!Put
<1>5. Life!ClaimNext <=> ClaimNext
  BY DEF ClaimNext, Life!ClaimNext, HandleRecordTap, Life!HandleRecordTap, HandleClaimTap,
         Life!HandleClaimTap, HandleUpdateTapStatus, Life!HandleUpdateTapStatus, CounterFresh,
         Life!CounterFresh, Claimed, Life!Claimed, Put, Life!Put
<1>6. Life!BalanceNext <=> BalanceNext
  BY DEF BalanceNext, Life!BalanceNext, HandleCredit, Life!HandleCredit, HandleDebit,
         Life!HandleDebit, HandleVoid, Life!HandleVoid, Voidable, Life!Voidable, Post,
         Life!Post, NoCounter, Life!NoCounter
<1>7. Life!StateNext <=> StateNext
  BY DEF StateNext, Life!StateNext, SetCard, Life!SetCard, HandleDeliverKeys,
         Life!HandleDeliverKeys, HandleActivate, Life!HandleActivate, HandleDiscover,
         Life!HandleDiscover, HandleRequestWipe, Life!HandleRequestWipe, HandleMarkPending,
         Life!HandleMarkPending, NoVersion, Life!NoVersion
<1>8. Life!ConfigNext <=> ConfigNext
  BY DEF ConfigNext, Life!ConfigNext, HandleSetK2, Life!HandleSetK2, HandleSetConfig,
         Life!HandleSetConfig, HandleExportState, Life!HandleExportState
<1>9. Life!HandleReset <=> HandleReset
  BY DEF HandleReset, Life!HandleReset, EraseTaps, Life!EraseTaps, NoTaps, Life!NoTaps,
         NoCounter, Life!NoCounter
<1>10. Life!HandleTerminate <=> HandleTerminate
  BY DEF HandleTerminate, Life!HandleTerminate, EraseTaps, Life!EraseTaps, NoTaps, Life!NoTaps,
         NoCounter, Life!NoCounter
<1>11. Life!HandleImportState <=> HandleImportState
  BY DEF HandleImportState, Life!HandleImportState
<1>12. QED
  BY <1>1, <1>2, <1>3, <1>4, <1>5, <1>6, <1>7, <1>8, <1>9, <1>10, <1>11

LEMMA WithdrawConstants == Withdraw!DOAssumption
BY DOAssumption DEF DOAssumption, Withdraw!DOAssumption, TapStatuses, Withdraw!TapStatuses,
   LedgerOK, Withdraw!LedgerOK, Before, Withdraw!Before, Closing, Withdraw!Closing, VoidsOK,
   Withdraw!VoidsOK, CardOK, Withdraw!CardOK, NewCard, Withdraw!NewCard, NoVersion,
   Withdraw!NoVersion, Export, Withdraw!Export, Card, Withdraw!Card, CardStates,
   Withdraw!CardStates, Config, Withdraw!Config, Tap, Withdraw!Tap, TapTable, Withdraw!TapTable,
   Txn, Withdraw!Txn, NoCounter, Withdraw!NoCounter

LEMMA DeskConstants == Desk!DOAssumption
BY DOAssumption DEF DOAssumption, Desk!DOAssumption, TapStatuses, Desk!TapStatuses, LedgerOK,
   Desk!LedgerOK, Before, Desk!Before, Closing, Desk!Closing, VoidsOK, Desk!VoidsOK, CardOK,
   Desk!CardOK, NewCard, Desk!NewCard, NoVersion, Desk!NoVersion, Export, Desk!Export, Card,
   Desk!Card, CardStates, Desk!CardStates, Config, Desk!Config, Tap, Desk!Tap, TapTable,
   Desk!TapTable, Txn, Desk!Txn, NoCounter, Desk!NoCounter

LEMMA LifeConstants == Life!DOAssumption
BY DOAssumption DEF DOAssumption, Life!DOAssumption, TapStatuses, Life!TapStatuses, LedgerOK,
   Life!LedgerOK, Before, Life!Before, Closing, Life!Closing, VoidsOK, Life!VoidsOK, CardOK,
   Life!CardOK, NewCard, Life!NewCard, NoVersion, Life!NoVersion, Export, Life!Export, Card,
   Life!Card, CardStates, Life!CardStates, Config, Life!Config, Tap, Life!Tap, TapTable,
   Life!TapTable, Txn, Life!Txn, NoCounter, Life!NoCounter

(* A step of one is a call of the others' surroundings ------------------------ *)

\* A posted row raises the id, so that the bounds of System apply to it.
LEMMA PostsCount ==
    ASSUME nextTxnId \in Nat, BalanceNext
    PROVE  nextTxnId' # nextTxnId
<1>1. nextTxnId' = nextTxnId + 1
  <2>1. ASSUME NEW a \in Amounts, HandleCredit(a)
        PROVE  nextTxnId' = nextTxnId + 1
    BY <2>1 DEF HandleCredit, Post
  <2>2. ASSUME NEW a \in Amounts, NEW n \in Counters \cup {NoCounter}, HandleDebit(n, a)
        PROVE  nextTxnId' = nextTxnId + 1
    BY <2>2 DEF HandleDebit, Post
  <2>3. ASSUME NEW t \in 1..MaxTxns, HandleVoid(t)
        PROVE  nextTxnId' = nextTxnId + 1
    BY <2>3 DEF HandleVoid, Post
  <2>4. QED
    BY <2>1, <2>2, <2>3 DEF BalanceNext
<1>2. QED
  BY <1>1

LEMMA SameCounts ==
    /\ \A S : Withdraw!Cardinality(S) = Cardinality(S)
    /\ \A S : Desk!Cardinality(S) = Cardinality(S)
<1>1. \A S : Withdraw!Cardinality(S) = Cardinality(S)
  BY DEF Withdraw!Cardinality, Cardinality
<1>2. \A S : Desk!Cardinality(S) = Cardinality(S)
  BY DEF Desk!Cardinality, Cardinality
<1>3. QED
  BY <1>1, <1>2

\* What keeps all three invariants needs each of the parts to take the step as one
\* of its own or of its surroundings.
SystemInv == Withdraw!FlowTypeOK /\ Desk!Desk /\ Life!Base

LEMMA CallbackSimulates ==
    ASSUME SystemAssumption, SystemInv, CallbackStep
    PROVE  /\ Withdraw!FlowNext
           /\ [Desk!DeskNext]_(Desk!deskVars)
           /\ [Life!LifeNext]_(Life!lifeVars)
<1>1. Withdraw!FlowNext
  BY DEF CallbackStep, Withdraw!FlowNext
<1>2. \/ ClaimNext
      \/ \E n \in Counters, a \in Amounts : HandleDebit(n, a)
      \/ UNCHANGED doVars
  <2>1. Withdraw!FlowAssumption /\ Withdraw!DOAssumption /\ Withdraw!FlowTypeOK
    BY WithdrawConstants DEF SystemAssumption, SystemInv
  <2>2. ASSUME NEW r \in Callbacks, Withdraw!WorkerNext(r)
        PROVE  Withdraw!CallbackCall \/ UNCHANGED Withdraw!doVars
    BY <2>1, <2>2, Withdraw!WorkerCalls
  <2>3. Withdraw!CallbackCall \/ UNCHANGED Withdraw!doVars
    <3>1. ASSUME NEW r \in Callbacks, NEW n \in Counters, NEW inv \in Invoices \cup {NoInvoice},
                 NEW a \in Amounts, Withdraw!Ask(r, n, inv, a)
          PROVE  UNCHANGED Withdraw!doVars
      BY <3>1 DEF Withdraw!Ask
    <3>2. ASSUME NEW inv \in Invoices, Withdraw!NodeSettles(inv)
          PROVE  UNCHANGED Withdraw!doVars
      BY <3>2 DEF Withdraw!NodeSettles
    <3>3. QED
      BY <2>2, <3>1, <3>2 DEF CallbackStep
  <2>4. QED
    BY <2>3, WithdrawObject DEF Withdraw!CallbackCall, Withdraw!doVars, doVars
<1>3. [Desk!DeskNext]_(Desk!deskVars)
  <2>1. ASSUME NEW n \in Counters, NEW a \in Amounts, HandleDebit(n, a)
        PROVE  Desk!Others
    <3>1. nextTxnId' # nextTxnId
      <4>1. nextTxnId \in Nat
        BY DEF SystemInv, Withdraw!FlowTypeOK, Withdraw!TypeOK
      <4>2. QED
        BY <2>1, <4>1 DEF HandleDebit, Post
    <3>2. nextTxnId + Cardinality({r \in Requests : op[r].pc \in {"idle", "balance", "money"}})
            <= MaxTxns
      BY <3>1 DEF CallbackStep, RoomForDesk
    <3>3. Desk!HandleDebit(n, a) /\ n \in Counters \cup {Desk!NoCounter}
      BY <2>1, DeskObject
    <3>4. QED
      BY <3>2, <3>3, SameCounts DEF Desk!Others, CallbackStep, deskOwnVars, Desk!kvVars
  <2>2. ASSUME ClaimNext
        PROVE  Desk!Others
    BY <2>2, DeskObject DEF Desk!Others, CallbackStep, deskOwnVars, Desk!kvVars
  <2>3. ASSUME UNCHANGED doVars
        PROVE  UNCHANGED Desk!deskVars
    BY <2>3 DEF doVars, CallbackStep, deskOwnVars, Desk!deskVars
  <2>4. QED
    BY <1>2, <2>1, <2>2, <2>3 DEF Desk!DeskNext
<1>4. [Life!LifeNext]_(Life!lifeVars)
  <2>1. ASSUME ClaimNext \/ \E n \in Counters, a \in Amounts : HandleDebit(n, a)
        PROVE  Life!Others
    <3>1. ClaimNext \/ BalanceNext
      BY <2>1 DEF BalanceNext
    <3>2. QED
      BY <3>1, LifeObject DEF Life!Others, CallbackStep, jobVars
  <2>2. ASSUME UNCHANGED doVars
        PROVE  UNCHANGED Life!lifeVars
    BY <2>2 DEF doVars, CallbackStep, jobVars, Life!lifeVars
  <2>3. QED
    BY <1>2, <2>1, <2>2 DEF Life!LifeNext
<1>5. QED
  BY <1>1, <1>3, <1>4

LEMMA DeskSimulates ==
    ASSUME SystemAssumption, SystemInv, DeskStep
    PROVE  /\ [Withdraw!FlowNext]_(Withdraw!flowVars)
           /\ Desk!DeskNext
           /\ [Life!LifeNext]_(Life!lifeVars)
<1>1. Desk!DeskNext
  BY DEF DeskStep, Desk!DeskNext
<1>2. BalanceNext \/ UNCHANGED doVars
  <2>1. Desk!DeskAssumption /\ Desk!DOAssumption /\ Desk!Desk /\ 1..MaxBalance \subseteq Amounts
    BY DeskConstants DEF SystemAssumption, SystemInv
  <2>2. ASSUME NEW r \in Requests, Desk!Ask(r) \/ Desk!Work(r)
        PROVE  Desk!BalanceNext \/ UNCHANGED Desk!doVars
    BY <2>1, <2>2, Desk!WorkCalls
  <2>3. PICK r \in Requests : Desk!Ask(r) \/ Desk!Work(r)
    BY DEF DeskStep
  <2>4. Desk!BalanceNext \/ UNCHANGED Desk!doVars
    BY <2>2, <2>3
  <2>5. QED
    BY <2>4, DeskObject DEF Desk!doVars, doVars
<1>3. [Withdraw!FlowNext]_(Withdraw!flowVars)
  <2>1. ASSUME BalanceNext
        PROVE  Withdraw!Others
    <3>1. nextTxnId \in Nat
      BY DEF SystemInv, Withdraw!FlowTypeOK, Withdraw!TypeOK
    <3>2. nextTxnId + Cardinality(Callbacks) <= MaxTxns
      BY <2>1, <3>1, PostsCount DEF DeskStep, RoomForCallbacks
    <3>3. QED
      BY <2>1, <3>2, WithdrawObject, SameCounts DEF Withdraw!Others, DeskStep, callbackVars
  <2>2. ASSUME UNCHANGED doVars
        PROVE  UNCHANGED Withdraw!flowVars
    BY <2>2 DEF doVars, DeskStep, callbackVars, Withdraw!flowVars
  <2>3. QED
    BY <1>2, <2>1, <2>2 DEF Withdraw!FlowNext
<1>4. [Life!LifeNext]_(Life!lifeVars)
  <2>1. ASSUME BalanceNext
        PROVE  Life!Others
    BY <2>1, LifeObject DEF Life!Others, DeskStep, jobVars
  <2>2. ASSUME UNCHANGED doVars
        PROVE  UNCHANGED Life!lifeVars
    BY <2>2 DEF doVars, DeskStep, jobVars, Life!lifeVars
  <2>3. QED
    BY <1>2, <2>1, <2>2 DEF Life!LifeNext
<1>5. QED
  BY <1>1, <1>3, <1>4

\* Of the money, a lifecycle worker moves a credit only; the others move theirs.
JobCall ==
    \/ PresentNext \/ StateNext \/ ConfigNext
    \/ \E a \in Amounts : HandleCredit(a)
    \/ HandleReset \/ HandleTerminate

LEMMA JobCalled ==
    ASSUME SystemAssumption, SystemInv, JobStep
    PROVE  JobCall \/ UNCHANGED doVars
<1>1. Life!LifeAssumption /\ Life!DOAssumption /\ Life!LifeTypeOK /\ Life!ChipKnown
  BY LifeConstants DEF SystemAssumption, SystemInv, Life!Base
<1>2. PICK j \in Jobs : Life!Request(j) \/ Life!Work(j)
  BY DEF JobStep
<1>3. Life!HandlerCall \/ UNCHANGED Life!doVars
  BY <1>1, <1>2, Life!JobCalls
<1>4. \/ PresentNext \/ BalanceNext \/ StateNext \/ ConfigNext
      \/ HandleReset \/ HandleTerminate
      \/ UNCHANGED doVars
  BY <1>3, LifeObject DEF Life!HandlerCall, Life!doVars, doVars
<1>5. ASSUME BalanceNext
      PROVE  \E a \in Amounts : HandleCredit(a)
  <2>1. nextTxnId \in Nat
    BY DEF SystemInv, Withdraw!FlowTypeOK, Withdraw!TypeOK
  <2>2. QED
    BY <1>5, <2>1, PostsCount DEF JobStep
<1>6. QED
  BY <1>4, <1>5 DEF JobCall

LEMMA JobSimulates ==
    ASSUME SystemAssumption, SystemInv, JobStep
    PROVE  /\ [Withdraw!FlowNext]_(Withdraw!flowVars)
           /\ [Desk!DeskNext]_(Desk!deskVars)
           /\ Life!LifeNext
<1>1. Life!LifeNext
  BY DEF JobStep, Life!LifeNext
<1>2. JobCall \/ UNCHANGED doVars
  BY JobCalled
<1>3. ASSUME NEW a \in Amounts, HandleCredit(a)
      PROVE  /\ nextTxnId + Cardinality(Callbacks) <= MaxTxns
             /\ nextTxnId + Cardinality(
                    {r \in Requests : op[r].pc \in {"idle", "balance", "money"}}) <= MaxTxns
  <2>1. nextTxnId \in Nat
    BY DEF SystemInv, Withdraw!FlowTypeOK, Withdraw!TypeOK
  <2>2. nextTxnId' # nextTxnId
    BY <1>3, <2>1 DEF HandleCredit, Post
  <2>3. QED
    BY <2>2 DEF JobStep, RoomForCallbacks, RoomForDesk
<1>4. [Withdraw!FlowNext]_(Withdraw!flowVars)
  <2>1. CASE TakesBack
    <3>1. Withdraw!RewindNext
      BY <2>1, WithdrawObject DEF TakesBack, Withdraw!RewindNext
    <3>2. Withdraw!Rewind
      BY <2>1, <3>1 DEF JobStep, Withdraw!Rewind, callbackVars
    <3>3. QED
      BY <3>2 DEF Withdraw!FlowNext
  <2>2. CASE UNCHANGED doVars /\ UNCHANGED rewinds
    BY <2>2 DEF JobStep, doVars, callbackVars, Withdraw!flowVars
  <2>3. ASSUME PresentNext \/ StateNext \/ ConfigNext, UNCHANGED rewinds
        PROVE  Withdraw!Others
    BY <2>3, WithdrawObject DEF Withdraw!Others, JobStep, callbackVars
  <2>4. ASSUME NEW a \in Amounts, HandleCredit(a), UNCHANGED rewinds
        PROVE  Withdraw!Others
    <3>1. Withdraw!BalanceNext
      BY <2>4, WithdrawObject DEF BalanceNext
    <3>2. QED
      BY <1>3, <2>4, <3>1, SameCounts DEF Withdraw!Others, JobStep, callbackVars
  <2>5. CASE ~TakesBack
    <3>1. UNCHANGED rewinds
      BY <2>5 DEF JobStep
    <3>2. HandleReset \/ HandleTerminate => UNCHANGED doVars
      BY <2>5 DEF TakesBack
    <3>3. QED
      BY <1>2, <2>2, <2>3, <2>4, <3>1, <3>2 DEF JobCall, Withdraw!FlowNext
  <2>6. QED
    BY <2>1, <2>5
<1>5. [Desk!DeskNext]_(Desk!deskVars)
  <2>1. CASE UNCHANGED doVars
    BY <2>1 DEF JobStep, doVars, deskOwnVars, Desk!deskVars
  <2>2. ASSUME PresentNext \/ StateNext \/ ConfigNext \/ HandleReset \/ HandleTerminate
        PROVE  Desk!Others
    BY <2>2, DeskObject DEF Desk!Others, JobStep, deskOwnVars, Desk!kvVars
  <2>3. ASSUME NEW a \in Amounts, HandleCredit(a)
        PROVE  Desk!Others
    <3>1. Desk!HandleCredit(a)
      BY <2>3, DeskObject
    <3>2. QED
      BY <1>3, <2>3, <3>1, SameCounts DEF Desk!Others, JobStep, deskOwnVars, Desk!kvVars
  <2>4. QED
    BY <1>2, <2>1, <2>2, <2>3 DEF JobCall, Desk!DeskNext
<1>6. QED
  BY <1>1, <1>4, <1>5

-----------------------------------------------------------------------------
(* The composition ----------------------------------------------------------- *)

LEMMA StepSimulates ==
    ASSUME SystemAssumption, SystemInv, [SystemNext]_systemVars
    PROVE  /\ [Withdraw!FlowNext]_(Withdraw!flowVars)
           /\ [Desk!DeskNext]_(Desk!deskVars)
           /\ [Life!LifeNext]_(Life!lifeVars)
<1>1. CASE CallbackStep
  BY <1>1, CallbackSimulates
<1>2. CASE DeskStep
  BY <1>2, DeskSimulates
<1>3. CASE JobStep
  BY <1>3, JobSimulates
<1>4. CASE UNCHANGED systemVars
  BY <1>4 DEF systemVars, doVars, callbackVars, deskOwnVars, jobVars,
              Withdraw!flowVars, Desk!deskVars, Life!lifeVars
<1>5. QED
  BY <1>1, <1>2, <1>3, <1>4 DEF SystemNext

LEMMA InitSystem ==
    ASSUME SystemAssumption, SystemInit
    PROVE  SystemInv
<1>1. Withdraw!FlowTypeOK
  BY WithdrawConstants, Withdraw!FlowInitType DEF SystemAssumption, SystemInit
<1>2. Desk!Desk
  BY DeskConstants, Desk!InitDesk DEF SystemAssumption, SystemInit
<1>3. Life!Base
  BY LifeConstants, Life!InitBase DEF SystemAssumption, SystemInit
<1>4. QED
  BY <1>1, <1>2, <1>3 DEF SystemInv

LEMMA StepSystem ==
    ASSUME SystemAssumption, SystemInv, [SystemNext]_systemVars
    PROVE  SystemInv'
<1>1. Withdraw!FlowTypeOK'
  BY WithdrawConstants, StepSimulates, Withdraw!FlowStepType DEF SystemAssumption, SystemInv
<1>2. Desk!Desk'
  BY DeskConstants, StepSimulates, Desk!StepDesk DEF SystemAssumption, SystemInv
<1>3. Life!Base'
  BY LifeConstants, StepSimulates, Life!StepBase DEF SystemAssumption, SystemInv
<1>4. QED
  BY <1>1, <1>2, <1>3 DEF SystemInv

\* Callbacks, desk and lifecycle handlers on one card, interleaved at will, are
\* each what their own module describes: the surroundings it allows are all that
\* the others do (handlers/lnurlHandler.ts, handlers/topupHandler.ts and the
\* handlers of CardLifecycle, all calling durableObjects/CardReplayDO.ts).
THEOREM SystemComposes ==
    SystemAssumption /\ SystemSpec => Withdraw!FlowSpec /\ Desk!DeskSpec /\ Life!LifeSpec
<1> SUFFICES ASSUME SystemAssumption
             PROVE  SystemSpec => Withdraw!FlowSpec /\ Desk!DeskSpec /\ Life!LifeSpec
  OBVIOUS
<1>1. SystemInit => SystemInv
  BY InitSystem
<1>2. SystemInv /\ [SystemNext]_systemVars => SystemInv'
  BY StepSystem
<1>3. SystemInv /\ [SystemNext]_systemVars =>
          /\ [Withdraw!FlowNext]_(Withdraw!flowVars)
          /\ [Desk!DeskNext]_(Desk!deskVars)
          /\ [Life!LifeNext]_(Life!lifeVars)
  BY StepSimulates
<1>4. SystemInit => Withdraw!FlowInit /\ Desk!DeskInit /\ Life!LifeInit
  BY DEF SystemInit
<1>5. QED
  BY <1>1, <1>2, <1>3, <1>4, PTL DEF SystemSpec, Withdraw!FlowSpec, Desk!DeskSpec, Life!LifeSpec

\* Seen from the object, the whole system is one of its callers: so the account,
\* the ledger, the history and the versions are kept as CardReplayDO proves them.
THEOREM SystemImplementsDO == SystemAssumption /\ SystemSpec => DOSpec
<1> SUFFICES ASSUME SystemAssumption
             PROVE  SystemSpec => DOSpec
  OBVIOUS
<1>1. SystemInit => SystemInv
  BY InitSystem
<1>2. SystemInv /\ [SystemNext]_systemVars => SystemInv'
  BY StepSystem
<1>3. ASSUME SystemInv, [SystemNext]_systemVars
      PROVE  [DONext]_doVars
  <2>1. [Withdraw!DONext]_(Withdraw!doVars)
    BY <1>3, WithdrawConstants, StepSimulates, Withdraw!StepImplements
       DEF SystemAssumption, SystemInv
  <2>2. CASE Withdraw!DONext
    BY <2>2, WithdrawObject DEF Withdraw!DONext, Withdraw!RewindNext, DONext, RewindNext
  <2>3. CASE UNCHANGED Withdraw!doVars
    BY <2>3 DEF Withdraw!doVars, doVars
  <2>4. QED
    BY <2>1, <2>2, <2>3
<1>4. SystemInv /\ [SystemNext]_systemVars => [DONext]_doVars
  BY <1>3
<1>5. SystemInit => DOInit
  BY DEF SystemInit
<1>6. QED
  BY <1>1, <1>2, <1>4, <1>5, PTL DEF SystemSpec, DOSpec

\* Also as a whole the system implements both abstractions at once: money moves
\* like the account of CardAccount, and a tap is worth one voucher of TapVoucher.
THEOREM SystemKeepsPromises ==
    SystemAssumption /\ SystemSpec => AccountSpec /\ Withdraw!VoucherSpec
<1> SUFFICES ASSUME SystemAssumption
             PROVE  SystemSpec => AccountSpec /\ Withdraw!VoucherSpec
  OBVIOUS
<1>1. SystemSpec => Withdraw!FlowSpec /\ DOSpec
  BY SystemComposes, SystemImplementsDO
<1>2. Withdraw!FlowSpec => Withdraw!VoucherSpec
  BY WithdrawConstants, Withdraw!ImplementsVoucher DEF SystemAssumption
<1>3. QED
  BY <1>1, <1>2, ImplementsAccount

\* With all of them at work on one card, still no tap is granted twice, what is
\* shown as paid was paid, the shift totals count what happened, no key version
\* is issued twice, and keys fit.
THEOREM SystemIsSafe == SystemAssumption /\ SystemSpec => []SystemSafety
<1> SUFFICES ASSUME SystemAssumption
             PROVE  SystemSpec => []SystemSafety
  OBVIOUS
<1>1. SystemSpec => Withdraw!FlowSpec /\ Desk!DeskSpec /\ Life!LifeSpec /\ DOSpec
  BY SystemComposes, SystemImplementsDO
<1>2. DOSpec => [](LedgerInv /\ VoidInv /\ CardInv)
  BY LedgerCorrect, VoidsCorrect, VersionsCorrect, PTL
<1>3. Withdraw!FlowSpec => []Withdraw!OneGrantPerTap
  BY WithdrawConstants, Withdraw!OneGrant DEF SystemAssumption
<1>4. Withdraw!FlowSpec => []Withdraw!CompletedMeansPaid
  BY WithdrawConstants, Withdraw!CompletedWasPaid DEF SystemAssumption
<1>5. Withdraw!FlowSpec => []Withdraw!FailedMeansUnpaid
  BY WithdrawConstants, Withdraw!FailedWasUnpaid DEF SystemAssumption
<1>6. Desk!DeskSpec => []Desk!CountedIsDone
  BY DeskConstants, Desk!CountedCorrect DEF SystemAssumption
<1>7. Desk!DeskSpec => []Desk!VoidsCountedOnce
  BY DeskConstants, Desk!VoidsCounted DEF SystemAssumption
<1>8. Desk!DeskSpec => []Desk!OutstandingFits
  BY DeskConstants, Desk!OutstandingCorrect DEF SystemAssumption
<1>9. Life!LifeSpec => []Life!IssuedOnce
  BY LifeConstants, Life!DeliveredOnce DEF SystemAssumption
<1>10. Life!LifeSpec => []Life!ActiveIsKnown
  BY LifeConstants, Life!ActiveVersionKnown DEF SystemAssumption
<1>11. Life!LifeSpec => []Life!KeyFits
  BY LifeConstants, Life!StoredKeyFits DEF SystemAssumption
<1>12. Life!LifeSpec => []Life!ActiveIsIssued
  BY LifeConstants, Life!VersionInUseIssued DEF SystemAssumption
<1>13. Life!LifeSpec => []Life!WipeKeysFit
  BY LifeConstants, Life!WipedWithItsKeys DEF SystemAssumption
<1>14. QED
  BY <1>1, <1>2, <1>3, <1>4, <1>5, <1>6, <1>7, <1>8, <1>9, <1>10, <1>11, <1>12, <1>13, PTL
     DEF SystemSafety

-----------------------------------------------------------------------------
(* Who takes money off the card ---------------------------------------------- *)

LEMMA CallbackTakes ==
    ASSUME SystemAssumption, SystemInv, CallbackStep, card'.balance < card.balance
    PROVE  \E r \in Callbacks :
              Withdraw!At(r, "pay") /\ req'[r].debited /\ Leaves(req[r].amount)
<1>1. Withdraw!FlowAssumption /\ Withdraw!DOAssumption /\ Withdraw!FlowTypeOK
  BY WithdrawConstants DEF SystemAssumption, SystemInv
<1>2. card' # card
  <2>1. card.balance \in Nat
    BY <1>1 DEF Withdraw!FlowTypeOK, Withdraw!TypeOK, Withdraw!Card
  <2>2. QED
    BY <2>1
<1>3. PICK r \in Callbacks : Withdraw!WorkerNext(r)
  BY <1>2 DEF CallbackStep, Withdraw!Ask, Withdraw!NodeSettles, Withdraw!doVars
<1>4. QED
  BY <1>1, <1>3, Withdraw!WorkerTakes DEF Leaves

LEMMA DeskTakes ==
    ASSUME SystemAssumption, SystemInv, DeskStep, card'.balance < card.balance
    PROVE  \E r \in Requests :
              /\ Desk!At(r, "money") /\ op'[r].pc \in {"audit", "failed"}
              /\ op[r].kind = "pos_charge" /\ Leaves(op[r].amount)
<1>1. Desk!DeskAssumption /\ Desk!DOAssumption /\ Desk!Desk
  BY DeskConstants DEF SystemAssumption, SystemInv
<1>2. PICK r \in Requests : Desk!Ask(r) \/ Desk!Work(r)
  BY DEF DeskStep
<1>3. QED
  BY <1>1, <1>2, Desk!WorkTakes DEF Leaves

LEMMA JobTakesNothing ==
    ASSUME SystemAssumption, SystemInv, JobStep
    PROVE  ~(card'.balance < card.balance)
<1>1. card \in Card /\ card.balance \in Nat
  BY DEF SystemInv, Withdraw!FlowTypeOK, Withdraw!TypeOK, Withdraw!Card, Card, CardStates,
         Withdraw!CardStates
<1>2. ASSUME NEW a \in Amounts, HandleCredit(a)
      PROVE  ~(card'.balance < card.balance)
  <2>1. a \in Int
    BY DOAssumption DEF DOAssumption
  <2>2. a > 0 /\ card'.balance = card.balance + a
    BY <1>1, <1>2 DEF HandleCredit, Post, Card
  <2>3. QED
    BY <1>1, <2>1, <2>2
<1>3. ASSUME PresentNext \/ ConfigNext \/ HandleReset \/ UNCHANGED doVars
      PROVE  card' = card
  BY <1>3 DEF PresentNext, HandleCheck, HandleRecordRead, ConfigNext, HandleSetConfig,
              HandleSetK2, HandleExportState, HandleReset, doVars
<1>4. ASSUME StateNext \/ HandleTerminate
      PROVE  card'.balance = card.balance
  BY <1>1, <1>4 DEF StateNext, SetCard, HandleDeliverKeys, HandleActivate, HandleDiscover,
                    HandleRequestWipe, HandleMarkPending, HandleTerminate, Card
<1>5. QED
  BY <1>1, <1>2, <1>3, <1>4, JobCalled DEF JobCall

\* Whatever is interleaved, only a callback let through to payment and a charge
\* at the till take money off the card, each the amount that it was asked for
\* (debitCard, called in lnurlHandler.ts:136 and posChargeHandler.ts:24 only).
THEOREM MoneyLeavesOnlyByCharge == SystemAssumption /\ SystemSpec => MoneyLeavesByCharge
<1> SUFFICES ASSUME SystemAssumption
             PROVE  SystemSpec => MoneyLeavesByCharge
  OBVIOUS
<1>1. SystemInit => SystemInv
  BY InitSystem
<1>2. SystemInv /\ [SystemNext]_systemVars => SystemInv'
  BY StepSystem
<1> DEFINE Taken ==
      card'.balance < card.balance =>
          \/ \E r \in Callbacks :
                Withdraw!At(r, "pay") /\ req'[r].debited /\ Leaves(req[r].amount)
          \/ \E r \in Requests :
                /\ Desk!At(r, "money") /\ op'[r].pc \in {"audit", "failed"}
                /\ op[r].kind = "pos_charge" /\ Leaves(op[r].amount)
<1>3. ASSUME SystemInv, [SystemNext]_systemVars
      PROVE  [Taken]_card
  <2>1. CASE CallbackStep
    BY <1>3, <2>1, CallbackTakes
  <2>2. CASE DeskStep
    BY <1>3, <2>2, DeskTakes
  <2>3. CASE JobStep
    BY <1>3, <2>3, JobTakesNothing
  <2>4. CASE UNCHANGED systemVars
    BY <2>4 DEF systemVars, doVars
  <2>5. QED
    BY <1>3, <2>1, <2>2, <2>3, <2>4 DEF SystemNext
<1>4. SystemInv /\ [SystemNext]_systemVars => [Taken]_card
  BY <1>3
<1>5. QED
  BY <1>1, <1>2, <1>4, PTL DEF SystemSpec, MoneyLeavesByCharge

=============================================================================
