------------------------------ MODULE CardIndex ------------------------------
(***************************************************************************)
(* The card index in KV (utils/cardIndex.ts): one entry per card that      *)
(* repeats the state of the card's object for the registry page and the    *)
(* health counts.                                                          *)
(*                                                                         *)
(* Every lifecycle call of card/lifecycle.ts goes through                  *)
(* doStateTransition: first the object acts, then, one await later, the    *)
(* worker writes the entry.  A repair (repairCardIndex) lists the entries, *)
(* then reads each card's object, then writes the entries that differ.     *)
(* Cards do not share anything in either, so one card is modelled; that    *)
(* the repair lists all cards first is the await before it reads this one. *)
(* Entries carry the state only; what the handlers do besides (versions,   *)
(* keys, configurations) is in CardLifecycle, money in CardReplayDO.       *)
(***************************************************************************)
EXTENDS CardReplayDO

CONSTANTS
    Workers,        \* places for lifecycle handlers under way at the same time
    Repairs,        \* places for repairs under way at the same time
    MaxCalls,       \* bound on lifecycle handlers and restores
    MaxFaults       \* bound on failed calls

ASSUME IndexAssumption ==
    /\ {MaxCalls, MaxFaults} \subseteq Nat
    /\ MaxVersion # 0

VARIABLES
    entry,      \* the card's entry in UID_CONFIG
    worker,     \* lifecycle handlers under way
    repair,     \* repairs under way
    excuses,    \* what has happened that may leave the entry wrong (history)
    calls,      \* lifecycle handlers and restores so far
    faults      \* failed calls so far

indexVars == <<card, config, last, taps, txns, nextTxnId, file,
               entry, worker, repair, excuses, calls, faults>>

Absent == "absent"
Entries == CardStates \cup {Absent}

Programming == <<"mark-pending", "deliver-keys">>
Handlers == {Programming, <<"deliver-keys">>, <<"discover">>, <<"activate">>,
             <<"request-wipe">>, <<"terminate">>}

\* todo: the calls still to make; meta: the entry to write for the last one.
Worker == [todo : Handlers \cup {<< >>}, meta : Entries]
Idle == [todo |-> << >>, meta |-> Absent]

\* A repair holds the entry it listed, then the state it read; alone says that
\* nothing else has touched the card since it began.
Repair == [pc : {"read", "put"}, state : CardStates, alone : BOOLEAN]
Resting == [pc |-> "rest"]

Excuses == {"race", "fault", "restore", "known", "wipe"}

Fault == faults < MaxFaults /\ faults' = faults + 1

OthersRest(w) ==
    /\ \A v \in Workers \ {w} : worker[v] = Idle
    /\ \A p \in Repairs : repair[p] = Resting

Set(w, todo, meta) == worker' = [worker EXCEPT ![w] = [todo |-> todo, meta |-> meta]]

\* The repairs that are under way are no longer alone.
Disturb ==
    repair' = [p \in Repairs |-> IF repair[p] = Resting THEN Resting
                                 ELSE [repair[p] EXCEPT !.alone = FALSE]]

-----------------------------------------------------------------------------
(* Lifecycle handlers.                                                     *)

Plan(w, states, todo) ==
    /\ card.state \in states
    /\ Set(w, todo, Absent)

\* A handler reads the card's row and decides what to call.
Begin(w) ==
    /\ worker[w] = Idle
    /\ calls < MaxCalls
    /\ calls' = calls + 1
    /\ \/ Plan(w, {"new", "pending", "discovered"}, Programming)
       \/ Plan(w, {"new", "pending"}, <<"discover">>)
       \/ Plan(w, {"wipe_requested", "terminated"}, <<"deliver-keys">>)
       \/ Plan(w, {"keys_delivered", "discovered"}, <<"activate">>)
       \/ Plan(w, {"keys_delivered", "active"}, <<"request-wipe">>)
       \/ Plan(w, CardStates \ {"terminated"}, <<"terminate">>)
    /\ UNCHANGED <<doVars, entry, repair, excuses, faults>>

\* The object acts, or answers with the row it has; when it has none to wipe it
\* answers 404, which ends the call without an error.
Act(op) ==
    \/ /\ op = "mark-pending"
       /\ IF card.exists THEN UNCHANGED doVars ELSE HandleMarkPending
    \/ /\ op = "discover"
       /\ IF ~card.exists \/ card.state \in {"new", "pending"}
          THEN HandleDiscover(1) ELSE UNCHANGED doVars
    \/ op = "deliver-keys" /\ HandleDeliverKeys
    \/ op = "activate" /\ HandleActivate(1)
    \/ op = "request-wipe" /\ IF card.exists THEN HandleRequestWipe ELSE UNCHANGED doVars
    \/ op = "terminate" /\ HandleTerminate

\* The state a call is meant to reach.
Goal(op) ==
    CASE op = "mark-pending" -> "pending"
      [] op = "discover" -> "discovered"
      [] op = "deliver-keys" -> "keys_delivered"
      [] op = "activate" -> "active"
      [] op = "terminate" -> "terminated"
      [] op = "request-wipe" -> "wipe_requested"

\* Mutant: only the transitions into and out of use are indexed.
IndexUseOnly(op) ==
    IF op \in {"request-wipe", "discover"} THEN Absent ELSE Goal(op)

\* The entry names the goal, whatever state the object answers with; a wipe
\* request has no metadata.
IndexMetadata(op) == IF op = "request-wipe" THEN Absent ELSE Goal(op)

\* History: a call that was alone makes good what went before.
Excuse(w, op) ==
    excuses' = IF ~OthersRest(w) THEN excuses \cup {"race"}
               ELSE IF op = "request-wipe" THEN excuses \cup {"wipe"}
               ELSE IF card'.state # Goal(op) THEN excuses \cup {"known"}
               ELSE {}

DoStateTransition(w) ==
    LET op == Head(worker[w].todo) IN
    /\ worker[w].todo # << >> /\ worker[w].meta = Absent
    /\ Act(op)
    /\ Set(w, Tail(worker[w].todo), IndexMetadata(op))
    /\ Excuse(w, op)
    /\ Disturb
    /\ UNCHANGED <<entry, calls, faults>>

\* The call throws, before the object acted or after.  Only a failed
\* mark-pending is survived.
TransitionThrows(w) ==
    LET op == Head(worker[w].todo) IN
    /\ worker[w].todo # << >> /\ worker[w].meta = Absent
    /\ Fault
    /\ Act(op) \/ UNCHANGED doVars
    /\ Set(w, IF op = "mark-pending" THEN Tail(worker[w].todo) ELSE << >>, Absent)
    /\ excuses' = excuses \cup {"fault"}
    /\ Disturb
    /\ UNCHANGED <<entry, calls>>

IndexCard(w) ==
    /\ worker[w].meta # Absent
    /\ entry' = worker[w].meta
    /\ Set(w, worker[w].todo, Absent)
    /\ UNCHANGED <<doVars, repair, excuses, calls, faults>>

\* The put fails, which indexCard swallows, or the worker dies before it.
IndexFails(w) ==
    /\ worker[w].meta # Absent
    /\ Fault
    /\ Set(w, worker[w].todo, Absent) \/ Set(w, << >>, Absent)
    /\ excuses' = excuses \cup {"fault"}
    /\ UNCHANGED <<doVars, entry, repair, calls>>

\* handleCardRestore leaves the index alone.
Restore ==
    /\ calls < MaxCalls
    /\ calls' = calls + 1
    /\ HandleImportState
    /\ excuses' = excuses \cup {"restore"}
    /\ Disturb
    /\ UNCHANGED <<entry, worker, faults>>

\* CARD_INDEX_TTL.
Expire ==
    /\ entry # Absent
    /\ entry' = Absent
    /\ UNCHANGED <<doVars, worker, repair, excuses, calls, faults>>

-----------------------------------------------------------------------------
(* Repair.                                                                 *)

\* A card that has no entry is not looked at.
RepairList(p) ==
    /\ repair[p] = Resting
    /\ entry # Absent
    /\ repair' = [repair EXCEPT ![p] =
                     [pc |-> "read", state |-> entry,
                      alone |-> /\ \A w \in Workers : worker[w] = Idle
                                /\ \A q \in Repairs : repair[q] = Resting]]
    /\ UNCHANGED <<doVars, entry, worker, excuses, calls, faults>>

\* Mutant: an entry that differs is written back as it was listed.
RepairReadListed(p) ==
    /\ repair[p].pc = "read"
    /\ repair' = [repair EXCEPT ![p] = IF card.state = repair[p].state THEN Resting
                                       ELSE [repair[p] EXCEPT !.pc = "put"]]
    /\ UNCHANGED <<doVars, entry, worker, excuses, calls, faults>>

RepairRead(p) ==
    /\ repair[p].pc = "read"
    /\ repair' = [repair EXCEPT ![p] = IF card.state = repair[p].state THEN Resting
                                       ELSE [@ EXCEPT !.pc = "put", !.state = card.state]]
    /\ UNCHANGED <<doVars, entry, worker, excuses, calls, faults>>

RepairPut(p) ==
    /\ repair[p].pc = "put"
    /\ entry' = repair[p].state
    /\ repair' = [repair EXCEPT ![p] = Resting]
    /\ excuses' = IF repair[p].alone THEN {} ELSE excuses
    /\ UNCHANGED <<doVars, worker, calls, faults>>

\* The object or KV fails: the page counts an error, or does not notice.
RepairFails(p) ==
    /\ repair[p] # Resting
    /\ Fault
    /\ repair' = [repair EXCEPT ![p] = Resting]
    /\ UNCHANGED <<doVars, entry, worker, excuses, calls>>

-----------------------------------------------------------------------------

IndexInit ==
    /\ DOInit
    /\ entry = Absent
    /\ worker = [w \in Workers |-> Idle]
    /\ repair = [p \in Repairs |-> Resting]
    /\ excuses = {}
    /\ calls = 0
    /\ faults = 0

Work(w) ==
    DoStateTransition(w) \/ TransitionThrows(w) \/ IndexCard(w) \/ IndexFails(w)

Mend(p) == RepairRead(p) \/ RepairPut(p) \/ RepairFails(p)

IndexNext ==
    \/ \E w \in Workers : Begin(w) \/ Work(w)
    \/ \E p \in Repairs : RepairList(p) \/ Mend(p)
    \/ Restore
    \/ Expire

\* A worker that awaits gets its answer.
IndexSpec ==
    /\ IndexInit /\ [][IndexNext]_indexVars
    /\ \A w \in Workers : WF_indexVars(Work(w))
    /\ \A p \in Repairs : WF_indexVars(Mend(p))

-----------------------------------------------------------------------------
(* Properties.                                                             *)

\* The variables have their types.
IndexTypeOK ==
    /\ TypeOK
    /\ entry \in Entries
    /\ worker \in [Workers -> Worker]
    /\ repair \in [Repairs -> Repair \cup {Resting}]
    /\ excuses \subseteq Excuses
    /\ calls \in 0..MaxCalls
    /\ faults \in 0..MaxFaults

Written == \A w \in Workers : worker[w].meta = Absent
Shown == entry \in {Absent, card.state}

\* An entry that is shown repeats the state of the card's object, once the
\* handlers have written theirs, unless since the last call or repair that was
\* alone handlers crossed, a call failed, a backup was restored, a handler
\* found the card farther along than it had read, or a wipe was requested.
IndexTrue == Written /\ excuses = {} => Shown

\* A repair that nothing disturbs any more ends, and the entry is then right,
\* however wrong it was.
RepairHeals ==
    \A p \in Repairs :
        ( /\ calls = MaxCalls /\ faults = MaxFaults
          /\ \A w \in Workers : worker[w] = Idle
          /\ repair[p] # Resting /\ repair[p].alone ) ~> Shown

=============================================================================
