----------------------------- MODULE MCFrontDoor -----------------------------
(* A small instance of FrontDoor.  Its parts share no variable; to explore    *)
(* the sum of their states and not the product, one moves only while the      *)
(* others are where they begin.                                               *)
EXTENDS FrontDoor, TLC

\* Of the pages' initial states one is enough for the others to move in.
PageRests == PageInit /\ mode = "free" /\ ~granted /\ UNCHANGED pageVars
DeskRests == TopUpInit /\ web = "ask" /\ UNCHANGED topUpVars
LimiterRests == LimiterInit /\ UNCHANGED limiterVars
SessionRests == SessionInit /\ UNCHANGED sessionVars

\* Only fewer requests meet a fault of KV.
FewWithFaults == faults' = 0 \/ sent' < MaxSent

OneMoves ==
    \/ PageRests /\ DeskRests /\ SessionRests /\ LimiterNext /\ FewWithFaults
    \/ PageRests /\ DeskRests /\ LimiterRests /\ SessionNext
    \/ DeskRests /\ LimiterRests /\ SessionRests /\ PageNext
    \/ PageRests /\ LimiterRests /\ SessionRests /\ TopUpNext

OneMovesSpec == FrontDoorInit /\ [][OneMoves]_frontDoorVars

\* Requests are interchangeable, and so are calls.
Symmetry == Permutations(Requests) \cup Permutations(Calls)
=============================================================================
