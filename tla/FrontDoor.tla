------------------------------ MODULE FrontDoor ------------------------------
(***************************************************************************)
(* The request counters, the operator's session and the two pages side by  *)
(* side: every request is counted before it is routed (index.ts), and the  *)
(* four have no state in common, so their steps interleave freely.         *)
(***************************************************************************)
EXTENDS RateLimiter, OperatorSession, ChargePage, TopUpPage

frontDoorVars == <<limiterVars, sessionVars, pageVars, topUpVars>>

FrontDoorInit == LimiterInit /\ SessionInit /\ PageInit /\ TopUpInit

FrontDoorNext ==
    \/ LimiterNext /\ UNCHANGED <<sessionVars, pageVars, topUpVars>>
    \/ SessionNext /\ UNCHANGED <<limiterVars, pageVars, topUpVars>>
    \/ PageNext /\ UNCHANGED <<limiterVars, sessionVars, topUpVars>>
    \/ TopUpNext /\ UNCHANGED <<limiterVars, sessionVars, pageVars>>

FrontDoorSpec == FrontDoorInit /\ [][FrontDoorNext]_frontDoorVars

\* All variables have their types.
FrontDoorTypeOK == LimiterTypeOK /\ SessionTypeOK /\ PageTypeOK /\ TopUpTypeOK

=============================================================================
