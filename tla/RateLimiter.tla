----------------------------- MODULE RateLimiter -----------------------------
(***************************************************************************)
(* The request counters in KV (rateLimiter.ts) and the limits put on them: *)
(* the one of index.ts on every request of an address, and the second ones *)
(* of the login, client error and card tap handlers.                       *)
(*                                                                         *)
(* A request is a worker that awaits KV once to read a counter and once to *)
(* write it, for each limit it passes; the clock may tick between any two  *)
(* of these steps.                                                         *)
(***************************************************************************)
EXTENDS Integers

CONSTANTS
    Requests,       \* places for requests under way at the same time
    Addresses,      \* client addresses (CF-Connecting-IP)
    Cards,          \* cards whose taps are counted
    Short,          \* the 60 s window
    Long,           \* LOGIN_RATE_LIMIT_WINDOW
    GlobalLimit,    \* 100 requests of an address in Short
    ErrorLimit,     \* CLIENT_ERROR_RATE_LIMIT in Short
    TapLimit,       \* TAP_RATE_LIMIT_REQUESTS in Short
    LoginLimit,     \* LOGIN_RATE_LIMIT_REQUESTS in Long
    MaxTime,        \* bound on the clock
    MaxSent,        \* bound on the requests sent
    MaxFaults       \* bound on failed or stale KV calls

ASSUME LimiterAssumption ==
    /\ {Short, Long} \subseteq Nat \ {0} /\ Short <= Long
    /\ {GlobalLimit, ErrorLimit, TapLimit, LoginLimit} \subseteq Nat \ {0}
    /\ {MaxTime, MaxSent, MaxFaults} \subseteq Nat
    /\ Addresses \cap Cards = {}

VARIABLES
    time,       \* the clock
    kv,         \* RATE_LIMITS
    req,        \* the worker of each request
    passed,     \* per limit and key, the requests counted (history)
    overlap,    \* keys read stale, or while a request was about to write (history)
    sent,       \* requests sent so far
    faults      \* failed or stale KV calls so far

limiterVars == <<time, kv, req, passed, overlap, sent, faults>>

\* "plain" stands for every request with no limit of its own.
Limits == {"global", "error", "tap", "login"}
Kinds == {"plain", "error", "tap", "login"}
Times == 0..MaxTime
Keys == (Addresses \cup Cards) \X Times

Worker == [pc : {"get", "put"}, gate : Limits, kind : Kinds,
           from : Addresses, uid : Cards, key : Keys, seen : Nat]
Refused == [pc : {"limited"}, gate : Limits, key : Keys]
Ended == Refused \cup [pc : {"idle"}]

At(r, pc) == req[r].pc = pc
Becomes(r, w) == req' = [req EXCEPT ![r] = w]

-----------------------------------------------------------------------------
(* The counters.                                                           *)

Limit(l) ==
    CASE l = "global" -> GlobalLimit
      [] l = "error" -> ErrorLimit
      [] l = "tap" -> TapLimit
      [] l = "login" -> LoginLimit

Window(l) == IF l = "login" THEN Long ELSE Short

\* A tap is counted for its card, anything else for its address: the limits on
\* an address share their counters whenever their windows start together.
KeyOf(w) == <<IF w.gate = "tap" THEN w.uid ELSE w.from,
              time - (time % Window(w.gate))>>

\* A missing or expired counter reads as 0.
Count(k) == IF time < kv[k].until THEN kv[k].count ELSE 0

\* Mutant: one request too many.
AtLimitLate(l, n) == n > Limit(l)

AtLimit(l, n) == n >= Limit(l)

\* Mutant: a request counts double.
WriteTwice(w) ==
    /\ kv' = [kv EXCEPT ![w.key] = [count |-> w.seen + 2,
                                    until |-> time + 2 * Window(w.gate)]]
    /\ passed' = [passed EXCEPT ![w.gate][w.key] = @ + 1]

\* The counter as it was read, plus one, to live two windows from now.
Write(w) ==
    /\ kv' = [kv EXCEPT ![w.key] = [count |-> w.seen + 1,
                                    until |-> time + 2 * Window(w.gate)]]
    /\ passed' = [passed EXCEPT ![w.gate][w.key] = @ + 1]

-----------------------------------------------------------------------------
(* Steps.                                                                  *)

\* Mutant: a handler's limit is looked at in place of the global one.
SendToHandler(r, kind, from, uid) ==
    /\ req[r] \in Ended
    /\ sent < MaxSent
    /\ sent' = sent + 1
    /\ Becomes(r, [pc |-> "get", gate |-> kind, kind |-> kind,
                   from |-> from, uid |-> uid, key |-> <<from, 0>>, seen |-> 0])
    /\ UNCHANGED <<time, kv, passed, overlap, faults>>

Send(r, kind, from, uid) ==
    /\ req[r] \in Ended
    /\ sent < MaxSent
    /\ sent' = sent + 1
    /\ Becomes(r, [pc |-> "get", gate |-> "global", kind |-> kind,
                   from |-> from, uid |-> uid, key |-> <<from, 0>>, seen |-> 0])
    /\ UNCHANGED <<time, kv, passed, overlap, faults>>

\* The counter of this window is compared; n is what KV says it is.
Compare(r, n) ==
    LET w == req[r] IN
    /\ At(r, "get")
    /\ Becomes(r, IF AtLimit(w.gate, n)
                  THEN [pc |-> "limited", gate |-> w.gate, key |-> KeyOf(w)]
                  ELSE [w EXCEPT !.pc = "put", !.key = KeyOf(w), !.seen = n])
    /\ UNCHANGED <<time, kv, passed, sent>>

Writing(k) == \E q \in Requests : At(q, "put") /\ req[q].key = k

GetCounter(r) ==
    LET k == KeyOf(req[r]) IN
    /\ Compare(r, Count(k))
    /\ overlap' = [overlap EXCEPT ![k] = @ \/ Writing(k)]
    /\ UNCHANGED faults

\* KV answers with the miss an edge has cached before the counter was written.
GetMissing(r) ==
    /\ faults < MaxFaults
    /\ faults' = faults + 1
    /\ Compare(r, 0)
    /\ overlap' = [overlap EXCEPT ![KeyOf(req[r])] = TRUE]

\* A request that passed the global limit goes on to the one of its handler;
\* what it does behind its limits is the business of other modules.
PutCounter(r) ==
    LET w == req[r] IN
    /\ At(r, "put")
    /\ Write(w)
    /\ Becomes(r, IF w.gate = "global" /\ w.kind # "plain"
                  THEN [w EXCEPT !.pc = "get", !.gate = w.kind]
                  ELSE [pc |-> "idle"])
    /\ UNCHANGED <<time, overlap, sent, faults>>

\* KV throws, before it acted or after: the worker answers 500.
KvThrows(r) ==
    /\ faults < MaxFaults
    /\ faults' = faults + 1
    /\ \/ At(r, "get") /\ UNCHANGED <<kv, passed>>
       \/ At(r, "put") /\ UNCHANGED <<kv, passed>>
       \/ At(r, "put") /\ Write(req[r])
    /\ Becomes(r, [pc |-> "idle"])
    /\ UNCHANGED <<time, overlap, sent>>

Tick ==
    /\ time < MaxTime
    /\ time' = time + 1
    /\ UNCHANGED <<kv, req, passed, overlap, sent, faults>>

-----------------------------------------------------------------------------

LimiterInit ==
    /\ time = 0
    /\ kv = [k \in Keys |-> [count |-> 0, until |-> 0]]
    /\ req = [r \in Requests |-> [pc |-> "idle"]]
    /\ passed = [l \in Limits |-> [k \in Keys |-> 0]]
    /\ overlap = [k \in Keys |-> FALSE]
    /\ sent = 0
    /\ faults = 0

LimiterNext ==
    \/ \E r \in Requests :
          \/ \E kind \in Kinds, a \in Addresses, c \in Cards : Send(r, kind, a, c)
          \/ GetCounter(r)
          \/ GetMissing(r)
          \/ PutCounter(r)
          \/ KvThrows(r)
    \/ Tick

LimiterSpec == LimiterInit /\ [][LimiterNext]_limiterVars

-----------------------------------------------------------------------------
(* Properties.                                                             *)

\* The variables have their types.
LimiterTypeOK ==
    /\ time \in Times
    /\ kv \in [Keys -> [count : Nat, until : Nat]]
    /\ req \in [Requests -> Worker \cup Ended]
    /\ passed \in [Limits -> [Keys -> Nat]]
    /\ overlap \in [Keys -> BOOLEAN]
    /\ sent \in 0..MaxSent
    /\ faults \in 0..MaxFaults

\* All requests counted under one key, whichever limit counted them.
Counted(k) ==
    passed["global"][k] + passed["error"][k] + passed["tap"][k] + passed["login"][k]

\* Nobody is refused early: however requests overlap, fail or cross the end of
\* a window, one is answered 429 only when at least as many as its limit allows
\* were counted under its key.
NoEarlyRefusal ==
    \A r \in Requests : At(r, "limited") => Counted(req[r].key) >= Limit(req[r].gate)

\* More requests than allowed pass only in a window in which some request read
\* a counter that was stale or about to be written (the counter is read and
\* written back in two calls).  Of logins twice the limit may pass: the global
\* limit writes the same counter and makes it run out early.
LimitHeld ==
    \A k \in Keys : ~overlap[k] =>
        /\ \A l \in Limits \ {"login"} : passed[l][k] <= Limit(l)
        /\ passed["login"][k] <= 2 * LoginLimit

=============================================================================
