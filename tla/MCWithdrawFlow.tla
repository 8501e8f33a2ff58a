--------------------------- MODULE MCWithdrawFlow ---------------------------
(***************************************************************************)
(* Instances of WithdrawFlow for TLC.                                      *)
(***************************************************************************)
EXTENDS WithdrawFlow, TLC

CONSTANTS i1, i2, r1, r2, r3, fake, cln

NoFiles == {}

\* For liveness: all requests come in and the tables are not taken back any more,
\* or they may be, and only r1 is still to come in: the others were refused before
\* the last reset.
Refused ==
    [pc |-> "refused", counter |-> 0, invoice |-> i1, amount |-> 1, method |-> cln,
     presented |-> Never, granted |-> Never, ok |-> FALSE, debited |-> FALSE,
     dead |-> FALSE]

NodeInit ==
    /\ DOInit
    /\ node = [inv \in Invoices |-> "unpaid"]
    /\ faults = 0
    /\ \/ rewinds = MaxRewinds /\ req = [r \in Requests |-> Idle]
       \/ rewinds = 0 /\ req = [r \in Requests |-> IF r = r1 THEN Idle ELSE Refused]

FairNodeSpec == NodeInit /\ [][FlowNext]_flowVars /\ Fairness

\* After the last restore or reset nobody reads the operator's file any more, and
\* of the card's lifecycle the callbacks see no more than that it is terminated.
Followed ==
    /\ file' # file => rewinds < MaxRewinds
    /\ card'.state \in {"new", "terminated"}

Symmetric == Permutations(Requests)

=============================================================================
