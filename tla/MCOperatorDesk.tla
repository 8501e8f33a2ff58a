--------------------------- MODULE MCOperatorDesk ---------------------------
(***************************************************************************)
(* Instances of OperatorDesk for TLC.                                      *)
(***************************************************************************)
EXTENDS OperatorDesk, TLC

CONSTANTS r1, r2, r3, s1, s2, fake

NoFiles == {}

\* Of the row only its termination matters to the desk, of the tables the money:
\* what the other handlers do to the rest is not followed further.
Followed ==
    /\ card'.state = "new" \/ (card'.state = "terminated" /\ faults' = 0)
    /\ UNCHANGED <<config, file>>

Symmetric == Permutations(Requests) \cup Permutations(Shifts)

=============================================================================
