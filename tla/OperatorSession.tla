--------------------------- MODULE OperatorSession ---------------------------
(***************************************************************************)
(* The operator's login (operatorLoginHandler.ts), session cookie          *)
(* (operatorAuth.ts) and CSRF cookie (withOperatorAuth.ts, csrf.js).       *)
(*                                                                         *)
(* Each till is a browser with one cookie jar and may have several         *)
(* requests under way; cookies are as they were when a request was sent,   *)
(* clocks as they are when it is handled.  Signatures are genuine, and the *)
(* PIN is either right or wrong.                                           *)
(***************************************************************************)
EXTENDS Integers

CONSTANTS
    Tills,          \* browsers
    Calls,          \* places for requests under way at the same time
    SessionAge,     \* OPERATOR_SESSION_MAX_AGE
    CsrfAge,        \* OPERATOR_CSRF_MAX_AGE
    MaxClock        \* bound on the clock

ASSUME SessionAssumption ==
    /\ SessionAge \in Nat \ {0}
    /\ CsrfAge \in Nat \ {0}
    /\ MaxClock \in Nat

VARIABLES
    clock,      \* seconds since the epoch
    jar,        \* the cookies of each till, by the time they expire
    call,       \* requests under way
    typed,      \* when each till was last given a session (history)
    loaded      \* when each till asked for its last operator page (history)

sessionVars == <<clock, jar, call, typed, loaded>>

Never == -1
None == 0           \* no cookie: one that has always been expired
Clocks == 0..MaxClock
Expiry == 0..(MaxClock + SessionAge + CsrfAge)

Open == [pc : {"page", "post", "logout"}, till : Tills,
         session : Expiry, csrf : Expiry, asked : Clocks]
        \cup [pc : {"login"}, till : Tills, right : BOOLEAN]
Closed == [pc : {"none", "served", "denied", "forged"}]

Answer(i, pc) == call' = [call EXCEPT ![i] = [pc |-> pc]]

-----------------------------------------------------------------------------
(* The browser.                                                            *)

\* It sends the cookies its jar still holds.
Cookie(until) == IF clock < until THEN until ELSE None

SubmitPin(i, t, right) ==
    /\ call[i] \in Closed
    /\ call' = [call EXCEPT ![i] = [pc |-> "login", till |-> t, right |-> right]]
    /\ UNCHANGED <<clock, jar, typed, loaded>>

\* csrf.js copies the token from the jar into the header, so they agree.
SendCall(i, t, pc) ==
    /\ call[i] \in Closed
    /\ call' = [call EXCEPT ![i] =
                   [pc |-> pc, till |-> t, asked |-> clock,
                    session |-> Cookie(jar[t].session), csrf |-> Cookie(jar[t].csrf)]]
    /\ UNCHANGED <<clock, jar, typed, loaded>>

-----------------------------------------------------------------------------
(* The worker.                                                             *)

\* The right PIN begins a shift: a session that ends SessionAge from now, in a
\* cookie the browser keeps as long.
HandleOperatorLogin(i) ==
    LET c == call[i] IN
    /\ c.pc = "login"
    /\ IF c.right
       THEN /\ jar' = [jar EXCEPT ![c.till].session = clock + SessionAge]
            /\ typed' = [typed EXCEPT ![c.till] = clock]
            /\ Answer(i, "served")
       ELSE /\ Answer(i, "denied")
            /\ UNCHANGED <<jar, typed>>
    /\ UNCHANGED <<clock, loaded>>

\* Mutant: the cookie is cleared with an expiry time before the epoch.
LogoutBeforeEpoch(i) ==
    /\ call[i].pc = "logout"
    /\ jar' = [jar EXCEPT ![call[i].till].session = Never]
    /\ Answer(i, "served")
    /\ UNCHANGED <<clock, typed, loaded>>

\* Whoever asks; the token stays in the jar.
HandleOperatorLogout(i) ==
    /\ call[i].pc = "logout"
    /\ jar' = [jar EXCEPT ![call[i].till].session = None]
    /\ Answer(i, "served")
    /\ UNCHANGED <<clock, typed, loaded>>

\* Mutant: the end of the session is left to the browser's cookie.
RequireCookie(c) == c.session # None

RequireOperator(c) == c.session # None /\ clock <= c.session

\* Mutant: a till is given a token once.
SetTokenOnce(c) ==
    IF c.csrf = None /\ jar[c.till].csrf = None
    THEN jar' = [jar EXCEPT ![c.till].csrf = clock + CsrfAge] ELSE UNCHANGED jar

\* A page gives a browser that sent no token a new one.
SetToken(c) ==
    IF c.csrf = None
    THEN jar' = [jar EXCEPT ![c.till].csrf = clock + CsrfAge] ELSE UNCHANGED jar

HandlePage(i) ==
    LET c == call[i] IN
    /\ c.pc = "page"
    /\ IF RequireOperator(c)
       THEN /\ SetToken(c)
            /\ loaded' = [loaded EXCEPT ![c.till] = c.asked]
            /\ Answer(i, "served")
       ELSE /\ Answer(i, "denied")
            /\ UNCHANGED <<jar, loaded>>
    /\ UNCHANGED <<clock, typed>>

HandlePost(i) ==
    LET c == call[i] IN
    /\ c.pc = "post"
    /\ Answer(i, IF ~RequireOperator(c) THEN "denied"
                 ELSE IF c.csrf = None THEN "forged" ELSE "served")
    /\ UNCHANGED <<clock, jar, typed, loaded>>

Advance ==
    /\ clock < MaxClock
    /\ clock' = clock + 1
    /\ UNCHANGED <<jar, call, typed, loaded>>

-----------------------------------------------------------------------------

SessionInit ==
    /\ clock = 0
    /\ jar = [t \in Tills |-> [session |-> None, csrf |-> None]]
    /\ call = [i \in Calls |-> [pc |-> "none"]]
    /\ typed = [t \in Tills |-> Never]
    /\ loaded = [t \in Tills |-> Never]

SessionNext ==
    \/ \E i \in Calls :
          \/ \E t \in Tills, right \in BOOLEAN : SubmitPin(i, t, right)
          \/ \E t \in Tills, pc \in {"page", "post", "logout"} : SendCall(i, t, pc)
          \/ HandleOperatorLogin(i)
          \/ HandleOperatorLogout(i)
          \/ HandlePage(i)
          \/ HandlePost(i)
    \/ Advance

SessionSpec == SessionInit /\ [][SessionNext]_sessionVars

-----------------------------------------------------------------------------
(* Properties.                                                             *)

\* The variables have their types.
SessionTypeOK ==
    /\ clock \in Clocks
    /\ jar \in [Tills -> [session : Expiry, csrf : Expiry]]
    /\ call \in [Calls -> Open \cup Closed]
    /\ typed \in [Tills -> Clocks \cup {Never}]
    /\ loaded \in [Tills -> Clocks \cup {Never}]

\* What an operator handler does, it does for a till at which the right PIN was
\* entered at most SessionAge ago, however long the request was under way and
\* whatever logins and logouts it crossed.
ServedMeansLoggedIn ==
    [][ \A i \in Calls :
          call[i].pc \in {"page", "post"} /\ call'[i].pc = "served"
          => /\ typed[call[i].till] # Never
             /\ clock <= typed[call[i].till] + SessionAge ]_sessionVars

\* A till that was given an operator page holds a token that was good when it
\* asked for the page.  So in its session it is refused a post for want of a
\* token only after the token of its last page has run out (one left over from
\* an earlier login does, before the session), and a reload helps.
TillKeepsPosting ==
    \A t \in Tills : loaded[t] # Never => jar[t].csrf > loaded[t]

=============================================================================
