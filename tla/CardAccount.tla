---------------------------- MODULE CardAccount ----------------------------
(***************************************************************************)
(* What the card object promises about money, without tables: an account   *)
(* with funds and charges.  A deposit may not lift the funds over the      *)
(* limit, a charge needs cover, a charge can be reversed once and for      *)
(* exactly its amount, and a restore brings back funds and charges as they *)
(* stood in one backup, never one without the other.                       *)
(***************************************************************************)
EXTENDS Integers

CONSTANTS Amounts, Limit, Ids

VARIABLES
    funds,      \* the account's balance
    charges,    \* every charge: its id, its amount and whether it stands
    backup      \* the funds and charges of the latest backup

Positive == {a \in Amounts : a > 0}

Entry(i, a, s) == [id |-> i, amount |-> a, stands |-> s]

Deposit(a) ==
    /\ funds + a <= Limit
    /\ funds' = funds + a
    /\ UNCHANGED <<charges, backup>>

Charge(i, a) ==
    /\ funds >= a
    /\ \A c \in charges : c.id # i
    /\ funds' = funds - a
    /\ charges' = charges \cup {Entry(i, a, TRUE)}
    /\ UNCHANGED backup

Reverse(c) ==
    /\ c.stands
    /\ funds' = funds + c.amount
    /\ charges' = (charges \ {c}) \cup {Entry(c.id, c.amount, FALSE)}
    /\ UNCHANGED backup

Save == /\ backup' = [funds |-> funds, charges |-> charges]
        /\ UNCHANGED <<funds, charges>>

Restore == /\ funds' = backup.funds
           /\ charges' = backup.charges
           /\ UNCHANGED backup

Init == funds = 0 /\ charges = {}

Next ==
    \/ \E a \in Positive : Deposit(a)
    \/ \E i \in Ids, a \in Positive : Charge(i, a)
    \/ \E c \in charges : Reverse(c)
    \/ Save
    \/ Restore

Spec == Init /\ [][Next]_<<funds, charges, backup>>

=============================================================================
