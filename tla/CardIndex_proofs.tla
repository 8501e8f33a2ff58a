--------------------------- MODULE CardIndex_proofs ---------------------------
(***************************************************************************)
(* Any number of handlers and repairs, crossing and failing: the index     *)
(* shows the state of the card's object unless something excuses it.       *)
(***************************************************************************)
EXTENDS CardIndex, CardReplayDO_proofs

(* Plans and calls ----------------------------------------------------------- *)

Ops == {"mark-pending", "deliver-keys", "discover", "activate", "request-wipe", "terminate"}

LEMMA PlanSteps ==
    ASSUME NEW h \in Handlers
    PROVE  Head(h) \in Ops /\ Tail(h) \in Handlers \cup {<< >>}
<1>1. CASE h = Programming
  <2>1. Head(h) = "mark-pending" /\ Tail(h) = <<"deliver-keys">>
    BY <1>1 DEF Programming
  <2>2. QED
    BY <2>1 DEF Handlers, Ops
<1>2. ASSUME NEW op \in Ops, h = <<op>>
      PROVE  Head(h) = op /\ Tail(h) = << >>
  BY <1>2
<1>3. CASE h # Programming
  BY <1>2, <1>3 DEF Handlers, Ops
<1>4. QED
  BY <1>1, <1>3

LEMMA GoalState ==
    ASSUME NEW op \in Ops
    PROVE  Goal(op) \in CardStates
BY DEF Ops, Goal, CardStates

LEMMA MetadataEntry ==
    ASSUME NEW op \in Ops
    PROVE  IndexMetadata(op) \in Entries
BY GoalState DEF IndexMetadata, Entries

LEMMA AbsentIsNoState == Absent \notin CardStates
BY DEF Absent, CardStates

LEMMA WorkerPlans ==
    ASSUME IndexTypeOK, NEW w \in Workers, worker[w].todo # << >>
    PROVE  /\ Head(worker[w].todo) \in Ops
           /\ Tail(worker[w].todo) \in Handlers \cup {<< >>}
<1>1. worker[w].todo \in Handlers
  BY DEF IndexTypeOK, Worker
<1>2. QED
  BY <1>1, PlanSteps

LEMMA ActAllowed ==
    ASSUME NEW op, Act(op)
    PROVE  DONext \/ UNCHANGED doVars
<1>1. 1 \in 1..MaxVersion
  BY IndexAssumption, DOAssumption DEF IndexAssumption, DOAssumption
<1>2. QED
  BY <1>1 DEF Act, DONext, StateNext, RewindNext

LEMMA StepImplements == [IndexNext]_indexVars => [DONext]_doVars
<1> SUFFICES ASSUME IndexNext PROVE DONext \/ UNCHANGED doVars
  BY DEF indexVars, doVars
<1>1. ASSUME NEW w \in Workers, DoStateTransition(w) \/ TransitionThrows(w)
      PROVE  DONext \/ UNCHANGED doVars
  BY <1>1, ActAllowed DEF DoStateTransition, TransitionThrows
<1>2. ASSUME NEW w \in Workers, Begin(w) \/ IndexCard(w) \/ IndexFails(w)
      PROVE  UNCHANGED doVars
  BY <1>2 DEF Begin, IndexCard, IndexFails
<1>3. ASSUME NEW p \in Repairs, RepairList(p) \/ Mend(p)
      PROVE  UNCHANGED doVars
  BY <1>3 DEF RepairList, Mend, RepairRead, RepairPut, RepairFails
<1>4. CASE Restore
  BY <1>4 DEF Restore, DONext, RewindNext
<1>5. CASE Expire
  BY <1>5 DEF Expire
<1>6. QED
  BY <1>1, <1>2, <1>3, <1>4, <1>5 DEF IndexNext, Work

(* Types ---------------------------------------------------------------------- *)

LEMMA SetStep ==
    ASSUME IndexTypeOK, NEW w \in Workers, NEW todo \in Handlers \cup {<< >>},
           NEW meta \in Entries, Set(w, todo, meta)
    PROVE  /\ worker' \in [Workers -> Worker]
           /\ worker'[w].meta = meta
           /\ \A v \in Workers \ {w} : worker'[v] = worker[v]
BY DEF IndexTypeOK, Set, Worker

LEMMA DisturbStep ==
    ASSUME IndexTypeOK, Disturb
    PROVE  /\ repair' \in [Repairs -> Repair \cup {Resting}]
           /\ \A p \in Repairs : repair[p] = Resting => repair'[p] = Resting
           /\ \A p \in Repairs : repair'[p] # Resting => repair'[p].alone = FALSE
BY DEF IndexTypeOK, Disturb, Repair, Resting

LEMMA RepairTyped ==
    ASSUME IndexTypeOK, NEW p \in Repairs
    PROVE  /\ repair[p] # Resting => repair[p] \in Repair
           /\ repair[p].pc \in {"read", "put"} => repair[p] # Resting
BY DEF IndexTypeOK, Resting

LEMMA RepairBecomes ==
    ASSUME IndexTypeOK, NEW p \in Repairs, NEW v \in Repair \cup {Resting},
           repair' = [repair EXCEPT ![p] = v]
    PROVE  /\ repair' \in [Repairs -> Repair \cup {Resting}]
           /\ repair'[p] = v
           /\ \A q \in Repairs \ {p} : repair'[q] = repair[q]
BY DEF IndexTypeOK

LEMMA FaultType ==
    ASSUME IndexTypeOK, Fault
    PROVE  faults' \in 0..MaxFaults
BY IndexAssumption DEF Fault, IndexTypeOK

LEMMA CardState ==
    ASSUME IndexTypeOK
    PROVE  card.state \in CardStates
BY DEF IndexTypeOK, TypeOK, Card

LEMMA BeginStep ==
    ASSUME IndexTypeOK, NEW w \in Workers, Begin(w)
    PROVE  /\ \E todo \in Handlers : Set(w, todo, Absent)
           /\ calls' \in 0..MaxCalls
           /\ worker[w].meta = Absent
<1>1. worker[w].meta = Absent
  BY DEF Begin, Idle
<1>2. calls' \in 0..MaxCalls
  BY IndexAssumption DEF Begin, IndexTypeOK
<1>3. \E todo \in Handlers : Set(w, todo, Absent)
  BY DEF Begin, Plan, Handlers
<1>4. QED
  BY <1>1, <1>2, <1>3

LEMMA ListStep ==
    ASSUME IndexTypeOK, NEW p \in Repairs, RepairList(p)
    PROVE  \E v \in Repair :
              /\ v.pc = "read"
              /\ v.alone => /\ \A w \in Workers : worker[w] = Idle
                            /\ \A q \in Repairs : repair[q] = Resting
              /\ repair' = [repair EXCEPT ![p] = v]
<1> DEFINE b == /\ \A w \in Workers : worker[w] = Idle
                /\ \A q \in Repairs : repair[q] = Resting
           v == [pc |-> "read", state |-> entry, alone |-> b]
<1>1. entry \in CardStates
  BY DEF RepairList, IndexTypeOK, Entries
<1>2. b \in BOOLEAN
  OBVIOUS
<1>3. repair' = [repair EXCEPT ![p] = v]
  BY DEF RepairList
<1>4. v.pc = "read" /\ v.alone = b
  OBVIOUS
<1>5. ASSUME NEW c \in BOOLEAN
      PROVE  [pc |-> "read", state |-> entry, alone |-> c] \in Repair
  BY <1>1 DEF Repair
<1>6. v \in Repair
  BY <1>2, <1>5
<1>7. QED
  BY <1>3, <1>4, <1>6

\* What a repair that read the object goes on with.
LEMMA ReadStep ==
    ASSUME IndexTypeOK, NEW p \in Repairs, RepairRead(p)
    PROVE  \E v \in Repair \cup {Resting} :
              /\ repair[p] # Resting
              /\ v # Resting => /\ v.pc = "put"
                                /\ v.state = card.state
                                /\ v.alone = repair[p].alone
              /\ repair' = [repair EXCEPT ![p] = v]
<1>1. repair[p] # Resting /\ repair[p] \in Repair
  BY RepairTyped DEF RepairRead
<1> DEFINE u == [repair[p] EXCEPT !.pc = "put", !.state = card.state]
<1>2. u \in Repair /\ u.pc = "put" /\ u.state = card.state /\ u.alone = repair[p].alone
  BY <1>1, CardState DEF Repair
<1>3. repair' = [repair EXCEPT ![p] = IF card.state = repair[p].state THEN Resting ELSE u]
  BY DEF RepairRead, IndexTypeOK
<1> HIDE DEF u
<1>4. QED
  BY <1>1, <1>2, <1>3

LEMMA IndexStepType == IndexTypeOK /\ [IndexNext]_indexVars => IndexTypeOK'
<1> SUFFICES ASSUME IndexTypeOK, [IndexNext]_indexVars PROVE IndexTypeOK'
  OBVIOUS
<1>1. TypeOK'
  BY StepImplements, StepType DEF IndexTypeOK
<1>2. Absent \in Entries
  BY DEF Entries
<1>3. ASSUME NEW w \in Workers, Begin(w)
      PROVE  IndexTypeOK'
  BY <1>1, <1>2, <1>3, BeginStep, SetStep DEF Begin, IndexTypeOK
<1>4. ASSUME NEW w \in Workers, DoStateTransition(w)
      PROVE  IndexTypeOK'
  <2>1. worker' \in [Workers -> Worker]
    BY <1>4, WorkerPlans, MetadataEntry, SetStep DEF DoStateTransition
  <2>2. repair' \in [Repairs -> Repair \cup {Resting}]
    BY <1>4, DisturbStep DEF DoStateTransition
  <2>3. excuses' \subseteq Excuses
    BY <1>4 DEF DoStateTransition, Excuse, Excuses, IndexTypeOK
  <2>4. QED
    BY <1>1, <1>4, <2>1, <2>2, <2>3 DEF DoStateTransition, IndexTypeOK
<1>5. ASSUME NEW w \in Workers, TransitionThrows(w)
      PROVE  IndexTypeOK'
  <2>1. worker' \in [Workers -> Worker]
    BY <1>2, <1>5, WorkerPlans, SetStep DEF TransitionThrows
  <2>2. repair' \in [Repairs -> Repair \cup {Resting}]
    BY <1>5, DisturbStep DEF TransitionThrows
  <2>3. faults' \in 0..MaxFaults
    BY <1>5, FaultType DEF TransitionThrows
  <2>4. excuses' \subseteq Excuses
    BY <1>5 DEF TransitionThrows, Excuses, IndexTypeOK
  <2>5. QED
    BY <1>1, <1>5, <2>1, <2>2, <2>3, <2>4 DEF TransitionThrows, IndexTypeOK
<1>6. ASSUME NEW w \in Workers, IndexCard(w) \/ IndexFails(w)
      PROVE  IndexTypeOK'
  <2>1. worker[w].todo \in Handlers \cup {<< >>} /\ worker[w].meta \in Entries
    BY DEF IndexTypeOK, Worker
  <2>2. worker' \in [Workers -> Worker]
    BY <1>2, <1>6, <2>1, SetStep DEF IndexCard, IndexFails
  <2>3. faults' \in 0..MaxFaults
    BY <1>6, FaultType DEF IndexCard, IndexFails, IndexTypeOK
  <2>4. excuses' \subseteq Excuses
    BY <1>6 DEF IndexCard, IndexFails, Excuses, IndexTypeOK
  <2>5. QED
    BY <1>1, <1>6, <2>1, <2>2, <2>3, <2>4 DEF IndexCard, IndexFails, IndexTypeOK
<1>7. CASE Restore
  <2>1. repair' \in [Repairs -> Repair \cup {Resting}]
    BY <1>7, DisturbStep DEF Restore
  <2>2. calls' \in 0..MaxCalls /\ excuses' \subseteq Excuses
    BY <1>7, IndexAssumption DEF Restore, Excuses, IndexTypeOK
  <2>3. QED
    BY <1>1, <1>7, <2>1, <2>2 DEF Restore, IndexTypeOK
<1>8. CASE Expire
  BY <1>1, <1>2, <1>8 DEF Expire, IndexTypeOK
<1>9. ASSUME NEW p \in Repairs, RepairList(p) \/ RepairRead(p)
      PROVE  IndexTypeOK'
  <2>1. repair' \in [Repairs -> Repair \cup {Resting}]
    BY <1>9, ListStep, ReadStep, RepairBecomes
  <2>2. QED
    BY <1>1, <1>9, <2>1 DEF RepairList, RepairRead, IndexTypeOK
<1>10. ASSUME NEW p \in Repairs, RepairPut(p) \/ RepairFails(p)
       PROVE  IndexTypeOK'
  <2>1. repair' = [repair EXCEPT ![p] = Resting]
    BY <1>10 DEF RepairPut, RepairFails
  <2>2. repair' \in [Repairs -> Repair \cup {Resting}]
    BY <2>1, RepairBecomes
  <2>3. entry' \in Entries
    BY <1>10, RepairTyped DEF RepairPut, RepairFails, IndexTypeOK, Repair, Entries
  <2>4. faults' \in 0..MaxFaults
    BY <1>10, FaultType DEF RepairPut, RepairFails, IndexTypeOK
  <2>5. excuses' \subseteq Excuses
    BY <1>10 DEF RepairPut, RepairFails, IndexTypeOK
  <2>6. QED
    BY <1>1, <1>10, <2>2, <2>3, <2>4, <2>5 DEF RepairPut, RepairFails, IndexTypeOK
<1>11. CASE UNCHANGED indexVars
  BY <1>1, <1>11 DEF indexVars, IndexTypeOK
<1>12. QED
  BY <1>3, <1>4, <1>5, <1>6, <1>7, <1>8, <1>9, <1>10, <1>11 DEF IndexNext, Work, Mend

LEMMA IndexInitType == IndexInit => IndexTypeOK
BY InitType, IndexAssumption DEF IndexInit, IndexTypeOK, Entries, Idle, Worker, Resting

\* Entry, handlers and repairs keep their types, for any number of them and any
\* faults.
THEOREM IndexTypeCorrect == IndexSpec => []IndexTypeOK
BY IndexInitType, IndexStepType, PTL DEF IndexSpec

\* Seen from the object, handlers and repairs are nothing but sequences of its
\* own handlers.
THEOREM IndexImplementsDO == IndexSpec => DOSpec
<1>1. IndexInit => DOInit
  BY DEF IndexInit
<1>2. QED
  BY <1>1, StepImplements, PTL DEF IndexSpec, DOSpec

(* The index is true ----------------------------------------------------------- *)

Alone(p) == repair[p] # Resting /\ repair[p].alone

\* Whoever is about to write an entry is about to write the card's state.
Faithful ==
    /\ \A w \in Workers : worker[w].meta \in {Absent, card.state}
    /\ \A p \in Repairs : repair[p].pc = "put" => repair[p].state = card.state

\* So it is while nothing excuses the entry, and while some repair is alone, when
\* no handler has an entry to write either.
IndexInv ==
    /\ \A p \in Repairs : Alone(p) => Written
    /\ excuses = {} \/ (\E p \in Repairs : Alone(p)) => Faithful
    /\ IndexTrue

LEMMA InvQuiet ==
    ASSUME IndexInv, card' = card,
           excuses' = {} => excuses = {},
           \A p \in Repairs : Alone(p)' => Alone(p),
           \A w \in Workers : worker'[w].meta \in {Absent, worker[w].meta},
           \A p \in Repairs : repair'[p] = repair[p] \/ repair'[p].pc # "put"
                              \/ repair'[p].state = card.state,
           excuses' = {} /\ Written' => Shown'
    PROVE  IndexInv'
<1>1. \A p \in Repairs : Alone(p)' => Written'
  BY DEF IndexInv, Written
<1>2. ASSUME excuses' = {} \/ (\E p \in Repairs : Alone(p)')
      PROVE  Faithful'
  <2>1. Faithful
    BY <1>2 DEF IndexInv
  <2>2. QED
    BY <2>1 DEF Faithful
<1>3. IndexTrue'
  BY DEF IndexTrue
<1>4. QED
  BY <1>1, <1>2, <1>3 DEF IndexInv

LEMMA IndexInvStep ==
    ASSUME IndexTypeOK, IndexTypeOK', IndexInv, [IndexNext]_indexVars
    PROVE  IndexInv'
<1>1. Absent \in Entries /\ Absent \notin CardStates
  BY AbsentIsNoState DEF Entries
\* A step that disturbs the repairs and leaves an excuse leaves nothing to show.
<1>2. ASSUME Disturb, excuses' # {}
      PROVE  IndexInv'
  BY <1>2, DisturbStep DEF IndexInv, IndexTrue, Alone
<1>3. ASSUME NEW w \in Workers, Begin(w)
      PROVE  IndexInv'
  <2>1. PICK todo \in Handlers : Set(w, todo, Absent)
    BY <1>3, BeginStep
  <2>2. worker'[w].meta = Absent /\ worker[w].meta = Absent
        /\ \A v \in Workers \ {w} : worker'[v] = worker[v]
    BY <1>1, <1>3, <2>1, BeginStep, SetStep
  <2>3. UNCHANGED <<card, entry, repair, excuses>>
    BY <1>3 DEF Begin, doVars
  <2>4. Written' => Written
    BY <2>2 DEF Written
  <2>5. QED
    BY <2>2, <2>3, <2>4, InvQuiet DEF IndexInv, IndexTrue, Shown, Alone
<1>4. ASSUME NEW w \in Workers, DoStateTransition(w)
      PROVE  IndexInv'
  <2> DEFINE op == Head(worker[w].todo)
  <2>1. CASE excuses' # {}
    BY <1>2, <1>4, <2>1 DEF DoStateTransition
  <2>2. CASE excuses' = {}
    <3>1. OthersRest(w) /\ op # "request-wipe" /\ card'.state = Goal(op)
      BY <1>4, <2>2 DEF DoStateTransition, Excuse
    <3>2. op \in Ops /\ Tail(worker[w].todo) \in Handlers \cup {<< >>}
      BY <1>4, WorkerPlans DEF DoStateTransition
    <3>3. IndexMetadata(op) = Goal(op) /\ Goal(op) \in CardStates
      BY <3>1, <3>2, GoalState DEF IndexMetadata
    <3>4. Set(w, Tail(worker[w].todo), IndexMetadata(op)) /\ Disturb
      BY <1>4 DEF DoStateTransition
    <3>5. worker'[w].meta = card'.state /\ \A v \in Workers \ {w} : worker'[v] = worker[v]
      BY <3>1, <3>2, <3>3, <3>4, SetStep, MetadataEntry
    <3>6. \A v \in Workers : worker'[v].meta \in {Absent, card'.state}
      BY <3>1, <3>5 DEF OthersRest, Idle
    <3>7. \A p \in Repairs : repair'[p] = Resting
      BY <3>1, <3>4, DisturbStep DEF OthersRest
    <3>8. ~Written'
      BY <1>1, <3>1, <3>3, <3>5 DEF Written
    <3>9. QED
      BY <3>6, <3>7, <3>8 DEF IndexInv, Faithful, IndexTrue, Alone, Resting
  <2>3. QED
    BY <2>1, <2>2
<1>5. ASSUME NEW w \in Workers, TransitionThrows(w)
      PROVE  IndexInv'
  BY <1>2, <1>5 DEF TransitionThrows
<1>6. ASSUME NEW w \in Workers, IndexCard(w) \/ IndexFails(w)
      PROVE  IndexInv'
  <2>1. worker[w].meta # Absent /\ UNCHANGED <<card, repair>>
    BY <1>6 DEF IndexCard, IndexFails, doVars
  <2>2. \A p \in Repairs : ~Alone(p)
    BY <2>1 DEF IndexInv, Written
  <2>3. worker[w].todo \in Handlers \cup {<< >>}
    BY DEF IndexTypeOK, Worker
  <2>4. worker'[w].meta = Absent /\ \A v \in Workers \ {w} : worker'[v] = worker[v]
    BY <1>1, <1>6, <2>3, SetStep DEF IndexCard, IndexFails
  <2>5. CASE IndexCard(w)
    <3>1. entry' = worker[w].meta /\ excuses' = excuses
      BY <2>5 DEF IndexCard
    <3>2. excuses = {} => Shown'
      BY <2>1, <3>1 DEF IndexInv, Faithful, Shown
    <3>3. QED
      BY <2>1, <2>2, <2>4, <3>1, <3>2, InvQuiet DEF Alone
  <2>6. CASE IndexFails(w)
    <3>1. excuses' # {}
      BY <2>6 DEF IndexFails
    <3>2. QED
      BY <2>1, <2>2, <3>1 DEF IndexInv, IndexTrue, Alone
  <2>7. QED
    BY <1>6, <2>5, <2>6
<1>7. CASE Restore
  BY <1>2, <1>7 DEF Restore
<1>8. CASE Expire
  <2>1. UNCHANGED <<card, worker, repair, excuses>> /\ Shown'
    BY <1>8 DEF Expire, doVars, Shown
  <2>2. QED
    BY <2>1, InvQuiet DEF Alone
<1>9. ASSUME NEW p \in Repairs, RepairList(p)
      PROVE  IndexInv'
  <2>1. PICK v \in Repair :
           /\ v.pc = "read"
           /\ v.alone => /\ \A w \in Workers : worker[w] = Idle
                         /\ \A q \in Repairs : repair[q] = Resting
           /\ repair' = [repair EXCEPT ![p] = v]
    BY <1>9, ListStep
  <2>2. repair'[p] = v /\ \A q \in Repairs \ {p} : repair'[q] = repair[q]
    BY <2>1, RepairBecomes
  <2>3. UNCHANGED <<card, entry, worker, excuses>>
    BY <1>9 DEF RepairList, doVars
  <2>4. CASE v.alone
    <3>1. \A w \in Workers : worker'[w].meta = Absent
      BY <2>1, <2>3, <2>4 DEF Idle
    <3>2. \A q \in Repairs : repair'[q].pc # "put"
      BY <2>1, <2>2, <2>4 DEF Resting
    <3>3. Faithful' /\ Written'
      BY <3>1, <3>2 DEF Faithful, Written
    <3>4. IndexTrue'
      BY <2>3 DEF IndexInv, IndexTrue, Written, Shown
    <3>5. QED
      BY <3>3, <3>4 DEF IndexInv
  <2>5. CASE ~v.alone
    <3>1. \A q \in Repairs : Alone(q)' => Alone(q)
      BY <2>2, <2>5 DEF Alone
    <3>2. \A q \in Repairs : repair'[q] = repair[q] \/ repair'[q].pc # "put"
      BY <2>1, <2>2
    <3>3. QED
      BY <2>3, <3>1, <3>2, InvQuiet DEF IndexInv, IndexTrue, Written, Shown
  <2>6. QED
    BY <2>4, <2>5
<1>10. ASSUME NEW p \in Repairs, RepairRead(p)
       PROVE  IndexInv'
  <2>1. PICK v \in Repair \cup {Resting} :
           /\ repair[p] # Resting
           /\ v # Resting => /\ v.pc = "put"
                             /\ v.state = card.state
                             /\ v.alone = repair[p].alone
           /\ repair' = [repair EXCEPT ![p] = v]
    BY <1>10, ReadStep
  <2>2. repair'[p] = v /\ \A q \in Repairs \ {p} : repair'[q] = repair[q]
    BY <2>1, RepairBecomes
  <2>3. UNCHANGED <<card, entry, worker, excuses>>
    BY <1>10 DEF RepairRead, doVars
  <2>4. \A q \in Repairs : Alone(q)' => Alone(q)
    BY <2>1, <2>2 DEF Alone
  <2>5. \A q \in Repairs : repair'[q] = repair[q] \/ repair'[q].pc # "put"
                           \/ repair'[q].state = card.state
    BY <2>1, <2>2 DEF Resting
  <2>6. QED
    BY <2>3, <2>4, <2>5, InvQuiet DEF IndexInv, IndexTrue, Written, Shown
<1>11. ASSUME NEW p \in Repairs, RepairPut(p)
       PROVE  IndexInv'
  <2>1. /\ repair[p].pc = "put" /\ repair[p] # Resting
        /\ entry' = repair[p].state
        /\ repair' = [repair EXCEPT ![p] = Resting]
        /\ excuses' = IF repair[p].alone THEN {} ELSE excuses
        /\ UNCHANGED <<card, worker>>
    BY <1>11, RepairTyped DEF RepairPut, doVars
  <2>2. repair'[p] = Resting /\ \A q \in Repairs \ {p} : repair'[q] = repair[q]
    BY <2>1, RepairBecomes
  <2>3. \A q \in Repairs : Alone(q)' => Alone(q)
    BY <2>2 DEF Alone
  <2>4. excuses' = {} => Faithful
    BY <2>1 DEF IndexInv, Alone
  <2>5. excuses' = {} => Shown'
    BY <2>1, <2>4 DEF Faithful, Shown
  <2>6. (\E q \in Repairs : Alone(q)) => Faithful
    BY DEF IndexInv
  <2>7. Faithful => Faithful'
    BY <2>1, <2>2 DEF Faithful, Resting
  <2>8. \A q \in Repairs : Alone(q)' => Written'
    BY <2>1, <2>3 DEF IndexInv, Written
  <2>9. QED
    BY <2>3, <2>4, <2>5, <2>6, <2>7, <2>8 DEF IndexInv, IndexTrue
<1>12. ASSUME NEW p \in Repairs, RepairFails(p)
       PROVE  IndexInv'
  <2>1. repair' = [repair EXCEPT ![p] = Resting] /\ UNCHANGED <<card, entry, worker, excuses>>
    BY <1>12 DEF RepairFails, doVars
  <2>2. repair'[p] = Resting /\ \A q \in Repairs \ {p} : repair'[q] = repair[q]
    BY <2>1, RepairBecomes
  <2>3. \A q \in Repairs : Alone(q)' => Alone(q)
    BY <2>2 DEF Alone
  <2>4. \A q \in Repairs : repair'[q] = repair[q] \/ repair'[q].pc # "put"
    BY <2>2 DEF Resting
  <2>5. QED
    BY <2>1, <2>3, <2>4, InvQuiet DEF IndexInv, IndexTrue, Written, Shown
<1>13. CASE UNCHANGED indexVars
  BY <1>13, InvQuiet DEF indexVars, IndexInv, IndexTrue, Written, Shown, Alone
<1>14. QED
  BY <1>3, <1>4, <1>5, <1>6, <1>7, <1>8, <1>9, <1>10, <1>11, <1>12, <1>13
  DEF IndexNext, Work, Mend

LEMMA IndexInvInit == IndexInit => IndexInv
BY DEF IndexInit, IndexInv, Alone, Faithful, IndexTrue, Shown, Written, Idle, Resting

\* An entry that is shown repeats the state of the card's object, however many
\* handlers and repairs there are, unless one of the excuses happened since the
\* last call or repair that was alone.
THEOREM IndexIsTrue == IndexSpec => []IndexTrue
<1>1. IndexTypeOK /\ IndexTypeOK' /\ IndexInv /\ [IndexNext]_indexVars => IndexInv'
  BY IndexInvStep
<1>2. IndexInv => IndexTrue
  BY DEF IndexInv
<1>3. QED
  BY IndexTypeCorrect, IndexInvInit, <1>1, <1>2, PTL DEF IndexSpec

=============================================================================
