--------------------------- MODULE FrontDoor_proofs ---------------------------
(***************************************************************************)
(* What stands before the handlers, for any number of requests, browsers   *)
(* and charges: the request counters refuse nobody early and are exceeded  *)
(* only where a read was stale, sessions and tokens last as long as they   *)
(* should, the charge page charges a sale once, and the top-up page sends  *)
(* an amount again only after an error.                                    *)
(***************************************************************************)
EXTENDS FrontDoor, TLAPS

(* Request counters: types --------------------------------------------------- *)

LEMMA WindowPositive ==
    ASSUME NEW l \in Limits
    PROVE  Window(l) \in Nat \ {0} /\ Window(l) >= Short /\ (l # "login" => Window(l) = Short)
BY LimiterAssumption DEF Window

LEMMA LimitPositive == ASSUME NEW l \in Limits PROVE Limit(l) \in Nat \ {0}
BY LimiterAssumption DEF Limit, Limits

\* The start of a window of w units is at or before now, less than w units ago.
LEMMA WindowStart ==
    ASSUME NEW n \in Nat, NEW w \in Nat \ {0}
    PROVE  n - (n % w) \in 0..n /\ n < (n - (n % w)) + w
<1>1. n % w \in 0..(w - 1)
  OBVIOUS
<1>2. n = w * (n \div w) + (n % w) /\ n \div w \in Int
  OBVIOUS
<1>3. n \div w >= 0
  <2>1. SUFFICES ASSUME n \div w <= -1 PROVE FALSE
    BY <1>2
  <2>2. w * (n \div w) <= -w
    BY <1>2, <2>1
  <2>3. QED
    BY <1>1, <1>2, <2>2
<1>4. w * (n \div w) >= 0
  BY <1>2, <1>3
<1>5. QED
  BY <1>1, <1>2, <1>4

\* At the key a worker counts under, its window is open.
WindowOpen(k, l) == k[2] <= time /\ time < k[2] + Window(l)

LEMMA KeyOpen ==
    ASSUME LimiterTypeOK, NEW w \in Worker
    PROVE  KeyOf(w) \in Keys /\ WindowOpen(KeyOf(w), w.gate)
<1>1. w.gate \in Limits /\ w.from \in Addresses /\ w.uid \in Cards
  BY DEF Worker
<1>2. time \in Nat /\ time <= MaxTime /\ MaxTime \in Nat
  BY LimiterAssumption DEF LimiterTypeOK, Times
<1>3. Window(w.gate) \in Nat \ {0}
  BY <1>1, WindowPositive
<1> DEFINE s == time - (time % Window(w.gate))
<1>4. s \in 0..time /\ time < s + Window(w.gate)
  BY <1>2, <1>3, WindowStart
<1>5. KeyOf(w) = <<IF w.gate = "tap" THEN w.uid ELSE w.from, s>>
  BY DEF KeyOf
<1> HIDE DEF s
<1>6. s \in Times
  BY <1>2, <1>4 DEF Times
<1>7. QED
  BY <1>1, <1>2, <1>4, <1>5, <1>6 DEF Keys, WindowOpen

LEMMA CountType ==
    ASSUME LimiterTypeOK, NEW k \in Keys
    PROVE  Count(k) \in Nat
BY DEF LimiterTypeOK, Count

LEMMA RequestTypes ==
    ASSUME LimiterTypeOK, NEW r \in Requests
    PROVE  /\ req[r] \in Worker \cup Ended
           /\ At(r, "get") \/ At(r, "put") => req[r] \in Worker
           /\ At(r, "limited") => req[r] \in Refused
BY DEF LimiterTypeOK, At, Worker, Ended, Refused

LEMMA BecomesType ==
    ASSUME LimiterTypeOK, NEW r \in Requests, NEW w \in Worker \cup Ended, Becomes(r, w)
    PROVE  /\ req' \in [Requests -> Worker \cup Ended]
           /\ req'[r] = w
           /\ \A q \in Requests \ {r} : req'[q] = req[q]
BY DEF LimiterTypeOK, Becomes

\* What a comparison leaves behind: a refusal, or a worker about to write.
Compared(w, k, n) ==
    IF AtLimit(w.gate, n) THEN [pc |-> "limited", gate |-> w.gate, key |-> k]
    ELSE [w EXCEPT !.pc = "put", !.key = k, !.seen = n]

LEMMA ComparedType ==
    ASSUME NEW w \in Worker, NEW k \in Keys, NEW n \in Nat
    PROVE  /\ Compared(w, k, n) \in Worker \cup Ended
           /\ Compared(w, k, n).key = k
           /\ Compared(w, k, n).gate = w.gate
           /\ Compared(w, k, n).pc = IF AtLimit(w.gate, n) THEN "limited" ELSE "put"
           /\ ~AtLimit(w.gate, n) => Compared(w, k, n).seen = n
BY DEF Compared, Worker, Refused, Ended

LEMMA CompareStep ==
    ASSUME LimiterTypeOK, NEW r \in Requests, NEW n \in Nat, Compare(r, n)
    PROVE  /\ req[r] \in Worker
           /\ KeyOf(req[r]) \in Keys
           /\ WindowOpen(KeyOf(req[r]), req[r].gate)
           /\ Becomes(r, Compared(req[r], KeyOf(req[r]), n))
           /\ Compared(req[r], KeyOf(req[r]), n) \in Worker \cup Ended
           /\ UNCHANGED <<time, kv, passed, sent>>
<1>1. req[r] \in Worker
  BY RequestTypes DEF Compare
<1>2. KeyOf(req[r]) \in Keys /\ WindowOpen(KeyOf(req[r]), req[r].gate)
  BY <1>1, KeyOpen
<1>3. Becomes(r, Compared(req[r], KeyOf(req[r]), n))
  BY DEF Compare, Compared
<1>4. QED
  BY <1>1, <1>2, <1>3, ComparedType DEF Compare

\* One more request is counted, by its limit and in its counter.
LEMMA WriteStep ==
    ASSUME LimiterTypeOK, NEW w \in Worker, Write(w)
    PROVE  /\ kv' \in [Keys -> [count : Nat, until : Nat]]
           /\ passed' \in [Limits -> [Keys -> Nat]]
           /\ kv'[w.key].count = w.seen + 1
           /\ kv'[w.key].until = time + 2 * Window(w.gate)
           /\ \A k \in Keys \ {w.key} : kv'[k] = kv[k]
           /\ passed'[w.gate][w.key] = passed[w.gate][w.key] + 1
           /\ \A l \in Limits, k \in Keys :
                 l # w.gate \/ k # w.key => passed'[l][k] = passed[l][k]
<1>1. w.gate \in Limits /\ w.key \in Keys /\ w.seen \in Nat
  BY DEF Worker
<1>2. time \in Nat /\ Window(w.gate) \in Nat
  BY <1>1, WindowPositive, LimiterAssumption DEF LimiterTypeOK, Times
<1>3. /\ kv' = [kv EXCEPT ![w.key] = [count |-> w.seen + 1,
                                      until |-> time + 2 * Window(w.gate)]]
      /\ passed' = [passed EXCEPT ![w.gate][w.key] = @ + 1]
  BY DEF Write
<1>4. [count |-> w.seen + 1, until |-> time + 2 * Window(w.gate)] \in [count : Nat, until : Nat]
  BY <1>1, <1>2
<1>5. passed \in [Limits -> [Keys -> Nat]] /\ kv \in [Keys -> [count : Nat, until : Nat]]
  BY DEF LimiterTypeOK
<1>6. /\ kv' \in [Keys -> [count : Nat, until : Nat]]
      /\ kv'[w.key].count = w.seen + 1
      /\ kv'[w.key].until = time + 2 * Window(w.gate)
      /\ \A k \in Keys \ {w.key} : kv'[k] = kv[k]
  BY <1>1, <1>3, <1>4, <1>5
<1>7. /\ passed'[w.gate] = [passed[w.gate] EXCEPT ![w.key] = @ + 1]
      /\ \A l \in Limits \ {w.gate} : passed'[l] = passed[l]
      /\ DOMAIN passed' = Limits /\ passed' = [l \in Limits |-> passed'[l]]
  BY <1>1, <1>3, <1>5
<1>8. passed[w.gate] \in [Keys -> Nat]
  BY <1>1, <1>5
<1>9. /\ passed'[w.gate] \in [Keys -> Nat]
      /\ passed'[w.gate][w.key] = passed[w.gate][w.key] + 1
      /\ \A k \in Keys \ {w.key} : passed'[w.gate][k] = passed[w.gate][k]
  BY <1>1, <1>7, <1>8
<1>10. QED
  BY <1>1, <1>5, <1>6, <1>7, <1>9

LEMMA PutWorker ==
    ASSUME NEW w \in Worker, w.kind # "plain"
    PROVE  [w EXCEPT !.pc = "get", !.gate = w.kind] \in Worker
BY DEF Worker, Limits, Kinds

\* A step of the limiter is a request sent, a comparison, the writing of a
\* counter, the end of a worker, or a tick of the clock.
Ends(r) == Becomes(r, [pc |-> "idle"])

Puts(r) ==
    /\ At(r, "put")
    /\ Write(req[r])
    /\ \/ Ends(r)
       \/ req[r].kind # "plain" /\ Becomes(r, [req[r] EXCEPT !.pc = "get", !.gate = req[r].kind])
    /\ faults' \in 0..MaxFaults
    /\ UNCHANGED <<time, overlap, sent>>

Gives(r) ==
    /\ Ends(r)
    /\ faults' \in 0..MaxFaults
    /\ UNCHANGED <<time, kv, passed, overlap, sent>>

Sends(r) ==
    /\ \E w \in Worker : w.pc = "get" /\ Becomes(r, w)
    /\ sent' \in 0..MaxSent
    /\ UNCHANGED <<time, kv, passed, overlap, faults>>

LEMMA LimiterSteps ==
    ASSUME LimiterTypeOK, LimiterNext
    PROVE  \/ \E r \in Requests :
                 \/ Sends(r)
                 \/ GetCounter(r)
                 \/ GetMissing(r)
                 \/ Puts(r)
                 \/ Gives(r)
           \/ Tick
<1>1. MaxFaults \in Nat /\ MaxSent \in Nat /\ MaxTime \in Nat
  BY LimiterAssumption
<1>2. ASSUME NEW r \in Requests, NEW kind \in Kinds, NEW a \in Addresses, NEW c \in Cards,
             Send(r, kind, a, c)
      PROVE  Sends(r)
  <2> DEFINE w == [pc |-> "get", gate |-> "global", kind |-> kind,
                   from |-> a, uid |-> c, key |-> <<a, 0>>, seen |-> 0]
  <2>1. w \in Worker
    BY <1>1 DEF Worker, Limits, Keys, Times
  <2>2. w.pc = "get" /\ Becomes(r, w)
    BY <1>2 DEF Send
  <2>3. sent' \in 0..MaxSent
    BY <1>1, <1>2 DEF Send, LimiterTypeOK
  <2>4. QED
    BY <1>2, <2>1, <2>2, <2>3 DEF Send, Sends
<1>3. ASSUME NEW r \in Requests, PutCounter(r)
      PROVE  Puts(r)
  BY <1>1, <1>3 DEF PutCounter, Puts, Ends, LimiterTypeOK
<1>4. ASSUME NEW r \in Requests, KvThrows(r)
      PROVE  Puts(r) \/ Gives(r)
  <2>1. faults' \in 0..MaxFaults
    BY <1>1, <1>4 DEF KvThrows, LimiterTypeOK
  <2>2. QED
    BY <1>4, <2>1 DEF KvThrows, Puts, Gives, Ends
<1>5. QED
  BY <1>2, <1>3, <1>4 DEF LimiterNext

LEMMA IdleType == [pc |-> "idle"] \in Worker \cup Ended
BY DEF Ended

LEMMA CompareType ==
    ASSUME LimiterTypeOK, NEW r \in Requests, NEW n \in Nat, Compare(r, n),
           overlap' \in [Keys -> BOOLEAN], faults' \in 0..MaxFaults
    PROVE  LimiterTypeOK'
<1>1. req' \in [Requests -> Worker \cup Ended]
  BY CompareStep, BecomesType
<1>2. QED
  BY <1>1, CompareStep DEF LimiterTypeOK

LEMMA LimiterTypeStep ==
    ASSUME LimiterTypeOK, [LimiterNext]_limiterVars
    PROVE  LimiterTypeOK'
<1>1. MaxFaults \in Nat /\ MaxSent \in Nat /\ MaxTime \in Nat
  BY LimiterAssumption
<1>2. ASSUME NEW r \in Requests, Sends(r)
      PROVE  LimiterTypeOK'
  BY <1>2, BecomesType DEF Sends, LimiterTypeOK
<1>3. ASSUME NEW r \in Requests, GetCounter(r)
      PROVE  LimiterTypeOK'
  <2>1. req[r] \in Worker /\ KeyOf(req[r]) \in Keys
    BY <1>3, RequestTypes, KeyOpen DEF GetCounter, Compare
  <2>2. Count(KeyOf(req[r])) \in Nat
    BY <2>1, CountType
  <2>3. overlap' \in [Keys -> BOOLEAN] /\ faults' \in 0..MaxFaults
    BY <1>3, <2>1 DEF GetCounter, LimiterTypeOK, Writing
  <2>4. QED
    BY <1>3, <2>2, <2>3, CompareType DEF GetCounter
<1>4. ASSUME NEW r \in Requests, GetMissing(r)
      PROVE  LimiterTypeOK'
  <2>1. overlap' \in [Keys -> BOOLEAN]
    BY <1>4 DEF GetMissing, LimiterTypeOK
  <2>2. faults' \in 0..MaxFaults
    BY <1>1, <1>4 DEF GetMissing, LimiterTypeOK
  <2>3. QED
    BY <1>4, <2>1, <2>2, CompareType DEF GetMissing
<1>5. ASSUME NEW r \in Requests, Puts(r)
      PROVE  LimiterTypeOK'
  <2>1. req[r] \in Worker
    BY <1>5, RequestTypes DEF Puts
  <2>2. req' \in [Requests -> Worker \cup Ended]
    BY <1>5, <2>1, PutWorker, IdleType, BecomesType DEF Puts, Ends
  <2>3. /\ kv' \in [Keys -> [count : Nat, until : Nat]]
        /\ passed' \in [Limits -> [Keys -> Nat]]
    BY <1>5, <2>1, WriteStep DEF Puts
  <2>4. QED
    BY <1>5, <2>2, <2>3 DEF Puts, LimiterTypeOK
<1>6. ASSUME NEW r \in Requests, Gives(r)
      PROVE  LimiterTypeOK'
  BY <1>6, IdleType, BecomesType DEF Gives, Ends, LimiterTypeOK
<1>7. CASE Tick
  BY <1>1, <1>7 DEF Tick, LimiterTypeOK, Times
<1>8. CASE UNCHANGED limiterVars
  BY <1>8 DEF limiterVars, LimiterTypeOK
<1>9. QED
  BY <1>2, <1>3, <1>4, <1>5, <1>6, <1>7, <1>8, LimiterSteps

LEMMA LimiterTypeInit == LimiterInit => LimiterTypeOK
BY LimiterAssumption DEF LimiterInit, LimiterTypeOK, Times, Limits, Ended

\* The counters, the workers and the history keep their types for any number of
\* requests, limits and faults.
THEOREM LimiterTypeCorrect == LimiterSpec => []LimiterTypeOK
BY LimiterTypeInit, LimiterTypeStep, PTL DEF LimiterSpec

(* Request counters: nobody is refused early --------------------------------- *)

\* Counted, with the history p as an argument.
Total(p, k) == p["global"][k] + p["error"][k] + p["tap"][k] + p["login"][k]

\* No counter, and no value a worker has read from one, is above the number of
\* requests counted under its key.
CountsTrue ==
    /\ \A k \in Keys : kv[k].count <= Total(passed, k)
    /\ \A r \in Requests : At(r, "put") => req[r].seen <= Total(passed, req[r].key)
    /\ \A r \in Requests : At(r, "limited") => Total(passed, req[r].key) >= Limit(req[r].gate)

LEMMA CountedType ==
    ASSUME LimiterTypeOK, NEW k \in Keys
    PROVE  /\ \A l \in Limits : passed[l][k] \in Nat
           /\ Total(passed, k) \in Nat
BY DEF LimiterTypeOK, Total, Limits

LEMMA CountedGrows ==
    ASSUME LimiterTypeOK, NEW w \in Worker, Write(w)
    PROVE  /\ Total(passed', w.key) = Total(passed, w.key) + 1
           /\ \A k \in Keys \ {w.key} : Total(passed', k) = Total(passed, k)
<1>1. w.gate \in Limits /\ w.key \in Keys
  BY DEF Worker
<1>2. \A k \in Keys : \A l \in Limits : passed[l][k] \in Nat
  BY CountedType
<1>3. Total(passed', w.key) = Total(passed, w.key) + 1
  <2> DEFINE k == w.key
  <2>1. /\ passed'[w.gate][k] = passed[w.gate][k] + 1
        /\ \A l \in Limits : l # w.gate => passed'[l][k] = passed[l][k]
    BY <1>1, WriteStep
  <2>2. \A l \in Limits : passed[l][k] \in Nat
    BY <1>1, <1>2
  <2> HIDE DEF k
  <2>3. Total(passed', k) = Total(passed, k) + 1
    <3>1. CASE w.gate = "global"
      BY <2>1, <2>2, <3>1 DEF Total, Limits
    <3>2. CASE w.gate = "error"
      BY <2>1, <2>2, <3>2 DEF Total, Limits
    <3>3. CASE w.gate = "tap"
      BY <2>1, <2>2, <3>3 DEF Total, Limits
    <3>4. CASE w.gate = "login"
      BY <2>1, <2>2, <3>4 DEF Total, Limits
    <3>5. QED
      BY <1>1, <3>1, <3>2, <3>3, <3>4 DEF Limits
  <2>4. QED
    BY <2>3 DEF k
<1>4. ASSUME NEW k \in Keys \ {w.key} PROVE Total(passed', k) = Total(passed, k)
  BY <1>4, WriteStep DEF Total, Limits
<1>5. QED
  BY <1>3, <1>4

\* A comparison refuses, or remembers, no more than was counted.
LEMMA CompareCounts ==
    ASSUME LimiterTypeOK, CountsTrue, NEW r \in Requests, NEW n \in Nat, Compare(r, n),
           n <= Total(passed, KeyOf(req[r]))
    PROVE  CountsTrue'
<1> DEFINE w == req[r]
           k == KeyOf(w)
           c == Compared(w, k, n)
<1>1. w \in Worker /\ k \in Keys /\ Becomes(r, c) /\ UNCHANGED <<kv, passed>>
  BY CompareStep
<1>2. /\ c \in Worker \cup Ended
      /\ c.key = k /\ c.gate = w.gate
      /\ c.pc = IF AtLimit(w.gate, n) THEN "limited" ELSE "put"
      /\ ~AtLimit(w.gate, n) => c.seen = n
  BY <1>1, ComparedType
<1>3. w.gate \in Limits
  BY <1>1 DEF Worker
<1> HIDE DEF w, k, c
<1>4. req'[r] = c /\ \A q \in Requests \ {r} : req'[q] = req[q]
  BY <1>1, <1>2, BecomesType
<1>5. passed' = passed
  BY <1>1
<1>6. \A q \in Keys : kv'[q].count <= Total(passed', q)
  BY <1>1, <1>5 DEF CountsTrue
<1>7. ASSUME NEW q \in Requests, At(q, "put")'
      PROVE  req'[q].seen <= Total(passed, req'[q].key)
  BY <1>2, <1>4, <1>7 DEF CountsTrue, At, k, w
<1>8. ASSUME NEW q \in Requests, At(q, "limited")'
      PROVE  Total(passed, req'[q].key) >= Limit(req'[q].gate)
  <2>1. CASE q # r
    BY <1>4, <1>8, <2>1 DEF CountsTrue, At
  <2>2. CASE q = r
    <3>1. n >= Limit(w.gate)
      BY <1>2, <1>4, <1>8, <2>2 DEF At, AtLimit
    <3>2. Total(passed, k) \in Nat /\ Limit(w.gate) \in Nat /\ n <= Total(passed, k)
      BY <1>1, <1>3, CountedType, LimitPositive DEF k, w
    <3>3. QED
      BY <1>2, <1>4, <2>2, <3>1, <3>2
  <2>3. QED
    BY <2>1, <2>2
<1>9. \A q \in Requests : At(q, "put")' => req'[q].seen <= Total(passed', req'[q].key)
  BY <1>5, <1>7
<1>10. \A q \in Requests : At(q, "limited")' => Total(passed', req'[q].key) >= Limit(req'[q].gate)
  BY <1>5, <1>8
<1>11. QED
  BY <1>6, <1>9, <1>10 DEF CountsTrue

LEMMA CountsTrueStep ==
    ASSUME LimiterTypeOK, CountsTrue, [LimiterNext]_limiterVars
    PROVE  CountsTrue'
<1>1. ASSUME NEW r \in Requests, NEW w \in Worker \cup Ended, Becomes(r, w),
             w.pc \notin {"put", "limited"}, UNCHANGED <<kv, passed>>
      PROVE  CountsTrue'
  <2>1. req'[r] = w /\ \A q \in Requests \ {r} : req'[q] = req[q]
    BY <1>1, BecomesType
  <2>2. QED
    BY <1>1, <2>1 DEF CountsTrue, At
<1>2. ASSUME NEW r \in Requests, Sends(r)
      PROVE  CountsTrue'
  BY <1>1, <1>2 DEF Sends
<1>3. ASSUME NEW r \in Requests, GetCounter(r)
      PROVE  CountsTrue'
  <2>1. KeyOf(req[r]) \in Keys
    BY <1>3, RequestTypes, KeyOpen DEF GetCounter, Compare
  <2>2. Count(KeyOf(req[r])) \in Nat /\ Count(KeyOf(req[r])) <= Total(passed, KeyOf(req[r]))
    BY <2>1, CountType, CountedType DEF CountsTrue, Count
  <2>3. QED
    BY <1>3, <2>2, CompareCounts DEF GetCounter
<1>4. ASSUME NEW r \in Requests, GetMissing(r)
      PROVE  CountsTrue'
  <2>1. KeyOf(req[r]) \in Keys
    BY <1>4, RequestTypes, KeyOpen DEF GetMissing, Compare
  <2>2. 0 <= Total(passed, KeyOf(req[r]))
    BY <2>1, CountedType
  <2>3. QED
    BY <1>4, <2>2, CompareCounts DEF GetMissing
<1>5. ASSUME NEW r \in Requests, Puts(r)
      PROVE  CountsTrue'
  <2> DEFINE w == req[r]
  <2>1. w \in Worker /\ At(r, "put")
    BY <1>5, RequestTypes DEF Puts
  <2>2. w.key \in Keys /\ w.seen \in Nat
    BY <2>1 DEF Worker
  <2>3. PICK v \in Worker \cup Ended : Becomes(r, v) /\ v.pc \in {"get", "idle"}
    <3>1. CASE Ends(r)
      BY <3>1, IdleType DEF Ends
    <3>2. CASE ~Ends(r)
      <4> DEFINE v == [w EXCEPT !.pc = "get", !.gate = w.kind]
      <4>1. v \in Worker /\ Becomes(r, v)
        BY <1>5, <2>1, <3>2, PutWorker DEF Puts
      <4>2. v.pc = "get"
        BY <2>1 DEF Worker
      <4>3. QED
        BY <4>1, <4>2
    <3>3. QED
      BY <3>1, <3>2
  <2>4. req'[r] = v /\ \A q \in Requests \ {r} : req'[q] = req[q]
    BY <2>3, BecomesType
  <2>5. Write(w)
    BY <1>5 DEF Puts
  <2>6. /\ kv'[w.key].count = w.seen + 1
        /\ \A k \in Keys \ {w.key} : kv'[k] = kv[k]
    BY <2>1, <2>5, WriteStep
  <2>7. /\ Total(passed', w.key) = Total(passed, w.key) + 1
        /\ \A k \in Keys \ {w.key} : Total(passed', k) = Total(passed, k)
    BY <2>1, <2>5, CountedGrows
  <2>8. \A k \in Keys : Total(passed, k) \in Nat
    BY CountedType
  <2> HIDE DEF w
  <2>9. w.seen <= Total(passed, w.key)
    BY <2>1 DEF CountsTrue, w
  <2>10. \A k \in Keys : Total(passed', k) >= Total(passed, k)
    BY <2>2, <2>7, <2>8
  <2>11. \A k \in Keys : kv'[k].count <= Total(passed', k)
    BY <2>2, <2>6, <2>7, <2>8, <2>9 DEF CountsTrue
  <2>12. ASSUME NEW q \in Requests, At(q, "put")'
         PROVE  req'[q].seen <= Total(passed', req'[q].key)
    <3>1. q # r /\ req'[q] = req[q] /\ At(q, "put")
      BY <2>3, <2>4, <2>12 DEF At
    <3>2. req[q].key \in Keys /\ req[q].seen \in Nat
      BY <3>1, RequestTypes DEF Worker
    <3>3. req[q].seen <= Total(passed, req[q].key)
      BY <3>1 DEF CountsTrue
    <3>4. Total(passed, req[q].key) \in Nat /\ Total(passed', req[q].key) \in Nat
      BY <2>7, <2>8, <3>2
    <3>5. QED
      BY <2>10, <3>1, <3>2, <3>3, <3>4
  <2>13. ASSUME NEW q \in Requests, At(q, "limited")'
         PROVE  Total(passed', req'[q].key) >= Limit(req'[q].gate)
    <3>1. q # r /\ req'[q] = req[q] /\ At(q, "limited")
      BY <2>3, <2>4, <2>13 DEF At
    <3>2. req[q].key \in Keys /\ req[q].gate \in Limits
      BY <3>1, RequestTypes DEF Refused
    <3>3. Total(passed, req[q].key) >= Limit(req[q].gate)
      BY <3>1 DEF CountsTrue
    <3>4. Total(passed, req[q].key) \in Nat /\ Total(passed', req[q].key) \in Nat
          /\ Limit(req[q].gate) \in Nat
      BY <2>7, <2>8, <3>2, LimitPositive
    <3>5. QED
      BY <2>10, <3>1, <3>2, <3>3, <3>4
  <2>14. QED
    BY <2>11, <2>12, <2>13 DEF CountsTrue
<1>6. ASSUME NEW r \in Requests, Gives(r)
      PROVE  CountsTrue'
  BY <1>1, <1>6, IdleType DEF Gives, Ends
<1>7. CASE UNCHANGED <<kv, passed, req>>
  BY <1>7 DEF CountsTrue, At
<1>8. QED
  BY <1>2, <1>3, <1>4, <1>5, <1>6, <1>7, LimiterSteps DEF Tick, limiterVars

LEMMA CountsTrueInit == LimiterInit => CountsTrue
BY LimiterAssumption DEF LimiterInit, CountsTrue, At, Total, Limits

\* However many requests overlap, fail or cross the end of a window, one is
\* answered 429 only when its limit was really reached under its key.
THEOREM NobodyRefusedEarly == LimiterSpec => []NoEarlyRefusal
<1>1. LimiterTypeOK /\ CountsTrue /\ [LimiterNext]_limiterVars => CountsTrue'
  BY CountsTrueStep
<1>2. CountsTrue => NoEarlyRefusal
  BY DEF CountsTrue, NoEarlyRefusal, Counted, Total
<1>3. QED
  BY CountsTrueInit, LimiterTypeCorrect, <1>1, <1>2, PTL DEF LimiterSpec

(* Request counters: the limits hold where no read was stale ------------------- *)

Writer(r, k) == At(r, "put") /\ req[r].key = k

\* The counter of k is at least the number of requests counted under k ...
CounterHolds(k) ==
    kv[k].count >= Total(passed, k) /\ passed["login"][k] <= LoginLimit

\* ... or it has run out once, which it can do only when no limit but the login's
\* looks at k any more; then it counts the logins since.
CounterLost(k) ==
    /\ time >= k[2] + Short
    /\ kv[k].until >= k[2] + Long
    /\ passed["login"][k] <= LoginLimit + kv[k].count

\* The same of the value that a worker is about to write back.
ReadHolds(r, k) ==
    req[r].seen >= Total(passed, k) /\ passed["login"][k] <= LoginLimit

ReadLost(r, k) ==
    /\ req[r].gate = "login"
    /\ time >= k[2] + Short
    /\ passed["login"][k] <= LoginLimit + req[r].seen

\* A key none of whose reads was stale or overlapped.
Held(k) ==
    /\ \A q, r \in Requests : Writer(q, k) /\ Writer(r, k) => q = r
    /\ \A l \in Limits \ {"login"} : passed[l][k] <= Limit(l)
    /\ passed["login"][k] <= 2 * LoginLimit
    /\ Total(passed, k) = 0 \/ kv[k].until >= k[2] + Short
    /\ CounterHolds(k) \/ CounterLost(k)
    /\ \A r \in Requests : Writer(r, k) =>
          /\ k[2] <= time
          /\ req[r].seen < Limit(req[r].gate)
          /\ ReadHolds(r, k) \/ ReadLost(r, k)

AllHeld == \A k \in Keys : ~overlap[k] => Held(k)

LEMMA HeldTypes ==
    ASSUME LimiterTypeOK, NEW k \in Keys
    PROVE  /\ k[2] \in Nat /\ time \in Nat
           /\ kv[k].count \in Nat /\ kv[k].until \in Nat
           /\ Short \in Nat /\ Long \in Nat /\ Short > 0 /\ Short <= Long
           /\ LoginLimit \in Nat /\ LoginLimit > 0
           /\ Total(passed, k) \in Nat
           /\ \A l \in Limits : passed[l][k] \in Nat /\ passed[l][k] <= Total(passed, k)
<1>1. k[2] \in Nat /\ time \in Nat
  BY LimiterAssumption DEF LimiterTypeOK, Keys, Times
<1>2. kv[k].count \in Nat /\ kv[k].until \in Nat
  BY DEF LimiterTypeOK
<1>3. Short \in Nat /\ Long \in Nat /\ Short > 0 /\ Short <= Long
      /\ LoginLimit \in Nat /\ LoginLimit > 0
  BY LimiterAssumption
<1>4. Total(passed, k) \in Nat /\ \A l \in Limits : passed[l][k] \in Nat
  BY CountedType
<1>5. \A l \in Limits : passed[l][k] <= Total(passed, k)
  BY <1>4 DEF Total, Limits
<1>6. QED
  BY <1>1, <1>2, <1>3, <1>4, <1>5

\* What neither touches the counter and the history of k nor adds a writer at k
\* leaves k as it was; time may pass.
LEMMA HeldQuiet ==
    ASSUME LimiterTypeOK, LimiterTypeOK', NEW k \in Keys, Held(k), time <= time',
           kv'[k] = kv[k], \A l \in Limits : passed'[l][k] = passed[l][k],
           \A r \in Requests : Writer(r, k)' => Writer(r, k) /\ req'[r] = req[r]
    PROVE  Held(k)'
<1>1. k[2] \in Nat /\ time \in Nat /\ time' \in Nat /\ Short \in Nat
  BY HeldTypes DEF LimiterTypeOK, Times
<1>2. Total(passed', k) = Total(passed, k)
  BY DEF Total, Limits
<1>3. time >= k[2] + Short => time' >= k[2] + Short
  BY <1>1
<1>4. \A r \in Requests : Writer(r, k)' =>
          /\ k[2] <= time'
          /\ req'[r].seen < Limit(req'[r].gate)
          /\ \/ req'[r].seen >= Total(passed', k) /\ passed'["login"][k] <= LoginLimit
             \/ /\ req'[r].gate = "login"
                /\ time' >= k[2] + Short
                /\ passed'["login"][k] <= LoginLimit + req'[r].seen
  <2>1. SUFFICES ASSUME NEW r \in Requests, Writer(r, k)'
                 PROVE  /\ k[2] <= time'
                        /\ req'[r].seen < Limit(req'[r].gate)
                        /\ \/ /\ req'[r].seen >= Total(passed', k)
                              /\ passed'["login"][k] <= LoginLimit
                           \/ /\ req'[r].gate = "login"
                              /\ time' >= k[2] + Short
                              /\ passed'["login"][k] <= LoginLimit + req'[r].seen
    OBVIOUS
  <2>2. /\ k[2] <= time
        /\ req[r].seen < Limit(req[r].gate)
        /\ ReadHolds(r, k) \/ ReadLost(r, k)
        /\ req'[r] = req[r]
    BY <2>1 DEF Held
  <2>3. passed'["login"][k] = passed["login"][k]
    BY DEF Limits
  <2>4. QED
    BY <1>1, <1>2, <1>3, <2>2, <2>3 DEF ReadHolds, ReadLost
<1>5. CounterHolds(k)' \/ CounterLost(k)'
  BY <1>2, <1>3 DEF Held, CounterHolds, CounterLost, Limits
<1>6. QED
  BY <1>2, <1>4, <1>5 DEF Held, ReadHolds, ReadLost, Limits

\* A worker that reads a counter nobody is about to write, in its window, reads
\* no less than was counted, unless the counter has run out.
LEMMA HeldRead ==
    ASSUME LimiterTypeOK, NEW k \in Keys, Held(k), NEW l \in Limits, WindowOpen(k, l)
    PROVE  \/ Count(k) >= Total(passed, k) /\ passed["login"][k] <= LoginLimit
           \/ /\ l = "login"
              /\ time >= k[2] + Short
              /\ passed["login"][k] <= LoginLimit + Count(k)
<1>1. Window(l) \in Nat /\ (l # "login" => Window(l) = Short) /\ (l = "login" => Window(l) = Long)
  BY WindowPositive DEF Window
<1>2. k[2] <= time /\ time < k[2] + Window(l)
  BY DEF WindowOpen
<1>3. l # "login" => time < k[2] + Short
  BY <1>1, <1>2
<1>4. CASE CounterHolds(k)
  <2>1. CASE time < kv[k].until
    BY <1>4, <2>1 DEF Count, CounterHolds
  <2>2. CASE Total(passed, k) = 0
    BY <1>4, <2>2, CountType, HeldTypes DEF CounterHolds
  <2>3. CASE ~(time < kv[k].until) /\ kv[k].until >= k[2] + Short
    <3>1. Count(k) = 0 /\ time >= k[2] + Short
      BY <2>3, HeldTypes DEF Count
    <3>2. l = "login"
      BY <1>3, <3>1, HeldTypes
    <3>3. passed["login"][k] \in Nat
      BY HeldTypes DEF Limits
    <3>4. QED
      BY <1>4, <3>1, <3>2, <3>3, HeldTypes DEF CounterHolds
  <2>4. QED
    BY <2>1, <2>2, <2>3 DEF Held
<1>5. CASE CounterLost(k)
  <2>1. l = "login"
    BY <1>3, <1>5, HeldTypes DEF CounterLost
  <2>2. time < k[2] + Long
    BY <1>1, <1>2, <2>1
  <2>3. time < kv[k].until
    BY <1>5, <2>2, HeldTypes DEF CounterLost
  <2>4. QED
    BY <1>5, <2>1, <2>3 DEF CounterLost, Count
<1>6. QED
  BY <1>4, <1>5 DEF Held

LEMMA HeldCompare ==
    ASSUME LimiterTypeOK, LimiterTypeOK', NEW r \in Requests, GetCounter(r),
           NEW x \in Keys, x = KeyOf(req[r]), Held(x), ~Writing(x)
    PROVE  Held(x)'
<1> DEFINE w == req[r]
           k == KeyOf(w)
           n == Count(k)
           c == Compared(w, k, n)
<1>1. At(r, "get") /\ w \in Worker /\ k \in Keys /\ WindowOpen(k, w.gate) /\ w.gate \in Limits
  BY RequestTypes, KeyOpen DEF GetCounter, Compare, Worker
<1>2. n \in Nat
  BY <1>1, CountType
<1>3. Becomes(r, c) /\ c \in Worker \cup Ended /\ UNCHANGED <<time, kv, passed>>
  BY <1>2, CompareStep DEF GetCounter
<1>4. /\ c.key = k /\ c.gate = w.gate
      /\ c.pc = IF AtLimit(w.gate, n) THEN "limited" ELSE "put"
      /\ ~AtLimit(w.gate, n) => c.seen = n
  BY <1>1, <1>2, ComparedType
<1>5. req'[r] = c /\ \A q \in Requests \ {r} : req'[q] = req[q]
  BY <1>3, BecomesType
<1>6. \/ n >= Total(passed, k) /\ passed["login"][k] <= LoginLimit
      \/ /\ w.gate = "login"
         /\ time >= k[2] + Short
         /\ passed["login"][k] <= LoginLimit + n
  BY <1>1, HeldRead
<1>7. x = k /\ Held(x)
  OBVIOUS
<1> HIDE DEF w, k, n, c
<1>8. \A q \in Requests : ~Writer(q, x)
  BY <1>7 DEF Writing, Writer, k, w
<1>9. Limit(w.gate) \in Nat
  BY <1>1, LimitPositive
<1>10. ASSUME NEW q \in Requests, At(q, "put")', req'[q].key = x
       PROVE  q = r /\ ~AtLimit(w.gate, n)
  <2>1. q = r
    BY <1>5, <1>8, <1>10 DEF Writer, At
  <2>2. c.pc = "put"
    BY <1>5, <1>10, <2>1 DEF At
  <2>3. QED
    BY <1>4, <2>1, <2>2
<1>11. ASSUME NEW q \in Requests, At(q, "put")', req'[q].key = x
       PROVE  /\ x[2] <= time'
              /\ req'[q].seen < Limit(req'[q].gate)
              /\ \/ req'[q].seen >= Total(passed', x) /\ passed'["login"][x] <= LoginLimit
                 \/ /\ req'[q].gate = "login"
                    /\ time' >= x[2] + Short
                    /\ passed'["login"][x] <= LoginLimit + req'[q].seen
  <2>1. req'[q] = c /\ c.seen = n /\ c.gate = w.gate /\ n < Limit(w.gate)
    BY <1>2, <1>4, <1>5, <1>9, <1>10, <1>11 DEF AtLimit
  <2>2. x[2] <= time
    BY <1>1, <1>7 DEF WindowOpen
  <2>3. QED
    BY <1>3, <1>6, <1>7, <2>1, <2>2
<1>12. CounterHolds(x)' \/ CounterLost(x)'
  BY <1>3, <1>7 DEF Held, CounterHolds, CounterLost
<1>13. \A q, s \in Requests : (Writer(q, x) /\ Writer(s, x))' => q = s
  BY <1>10 DEF Writer
<1>14. QED
  BY <1>3, <1>7, <1>11, <1>12, <1>13 DEF Held, Writer, ReadHolds, ReadLost

LEMMA HeldWrite ==
    ASSUME LimiterTypeOK, LimiterTypeOK', NEW r \in Requests, NEW k \in Keys, Held(k),
           Writer(r, k), Write(req[r]), UNCHANGED time,
           \A q \in Requests : Writer(q, k)' => Writer(q, k) /\ q # r
    PROVE  Held(k)'
<1> DEFINE w == req[r]
           g == w.gate
           s == w.seen
<1>1. w \in Worker /\ g \in Limits /\ s \in Nat /\ w.key = k
  BY RequestTypes DEF Worker, Writer
<1>2. /\ kv'[k].count = s + 1
      /\ kv'[k].until = time + 2 * Window(g)
      /\ passed'[g][k] = passed[g][k] + 1
      /\ \A l \in Limits \ {g} : passed'[l][k] = passed[l][k]
  BY <1>1, WriteStep
<1>3. Total(passed', k) = Total(passed, k) + 1
  BY <1>1, CountedGrows
<1>4. k[2] <= time /\ s < Limit(g) /\ (ReadHolds(r, k) \/ ReadLost(r, k))
  BY DEF Held
<1>5. \A q \in Requests : ~Writer(q, k)'
  BY DEF Held
<1>6. /\ Window(g) \in Nat /\ Window(g) >= Short
      /\ (g = "login" => Window(g) = Long /\ Limit(g) = LoginLimit)
      /\ Limit(g) \in Nat
  BY <1>1, WindowPositive, LimitPositive DEF Window, Limit
<1>7. passed[g][k] \in Nat /\ passed["login"][k] \in Nat /\ passed[g][k] <= Total(passed, k)
  BY <1>1, HeldTypes DEF Limits
<1> HIDE DEF w, g, s
<1>8. kv'[k].until >= k[2] + Short
  BY <1>2, <1>4, <1>6, HeldTypes
<1>9. passed["login"][k] <= 2 * LoginLimit
      /\ \A l \in Limits \ {"login"} : passed[l][k] <= Limit(l)
  BY DEF Held
<1>10. CASE ReadHolds(r, k)
  <2>1. s >= Total(passed, k) /\ passed["login"][k] <= LoginLimit
    BY <1>10 DEF ReadHolds, s, w
  <2>2. passed'[g][k] <= Limit(g) /\ s + 1 >= Total(passed, k) + 1
    BY <1>1, <1>2, <1>4, <1>6, <1>7, <2>1, HeldTypes
  <2>3. passed'["login"][k] <= LoginLimit
    BY <1>1, <1>2, <1>6, <2>1, <2>2 DEF Limits
  <2>4. \A l \in Limits \ {"login"} : passed'[l][k] <= Limit(l)
    BY <1>1, <1>2, <1>9, <2>2
  <2>5. passed'["login"][k] <= 2 * LoginLimit
    <3>1. passed'["login"][k] \in Nat
      BY HeldTypes DEF LimiterTypeOK, Limits
    <3>2. QED
      BY <2>3, <3>1, HeldTypes
  <2>6. kv'[k].count >= Total(passed', k)
    BY <1>2, <1>3, <2>2
  <2>7. QED
    BY <1>5, <1>8, <2>3, <2>4, <2>5, <2>6 DEF Held, CounterHolds
<1>11. CASE ReadLost(r, k)
  <2>1. g = "login" /\ time >= k[2] + Short /\ passed["login"][k] <= LoginLimit + s
    BY <1>11 DEF ReadLost, g, s, w
  <2>2. passed'["login"][k] = passed["login"][k] + 1
    BY <1>2, <2>1
  <2>3. passed'["login"][k] <= LoginLimit + (s + 1) /\ passed'["login"][k] <= 2 * LoginLimit
    BY <1>1, <1>4, <1>6, <1>7, <2>1, <2>2, HeldTypes
  <2>4. kv'[k].until >= k[2] + Long
    BY <1>2, <1>4, <1>6, <2>1, HeldTypes
  <2>5. \A l \in Limits \ {"login"} : passed'[l][k] <= Limit(l)
    BY <1>2, <1>9, <2>1
  <2>6. CounterLost(k)'
    BY <1>2, <2>1, <2>3, <2>4 DEF CounterLost
  <2>7. QED
    BY <1>5, <1>8, <2>3, <2>5, <2>6 DEF Held
<1>12. QED
  BY <1>4, <1>10, <1>11

LEMMA AllHeldStep ==
    ASSUME LimiterTypeOK, LimiterTypeOK', AllHeld, [LimiterNext]_limiterVars
    PROVE  AllHeld'
<1>1. SUFFICES ASSUME NEW k \in Keys, ~overlap'[k] PROVE Held(k)'
  BY DEF AllHeld
<1>2. time \in Nat
  BY DEF LimiterTypeOK, Times
<1>3. ASSUME NEW r \in Requests, NEW v \in Worker \cup Ended, Becomes(r, v),
             v.pc # "put" \/ v.key # k
      PROVE  \A q \in Requests : Writer(q, k)' => q # r /\ Writer(q, k) /\ req'[q] = req[q]
  <2>1. req'[r] = v /\ \A q \in Requests \ {r} : req'[q] = req[q]
    BY <1>3, BecomesType
  <2>2. QED
    BY <1>3, <2>1 DEF Writer, At
<1>4. ASSUME NEW r \in Requests, Sends(r) \/ Gives(r)
      PROVE  Held(k)'
  <2>1. \E v \in Worker \cup Ended : v.pc # "put" /\ Becomes(r, v)
    BY <1>4, IdleType DEF Sends, Gives, Ends
  <2>2. \A q \in Requests : Writer(q, k)' => Writer(q, k) /\ req'[q] = req[q]
    BY <1>3, <2>1
  <2>3. UNCHANGED <<time, kv, passed, overlap>>
    BY <1>4 DEF Sends, Gives
  <2>4. Held(k)
    BY <1>1, <2>3 DEF AllHeld
  <2>5. QED
    BY <1>2, <2>2, <2>3, <2>4, HeldQuiet
<1>5. ASSUME NEW r \in Requests, NEW n \in Nat, Compare(r, n), k # KeyOf(req[r]),
             overlap'[k] = overlap[k]
      PROVE  Held(k)'
  <2> DEFINE c == Compared(req[r], KeyOf(req[r]), n)
  <2>1. /\ req[r] \in Worker /\ KeyOf(req[r]) \in Keys
        /\ Becomes(r, c) /\ c \in Worker \cup Ended
        /\ UNCHANGED <<time, kv, passed>>
    BY <1>5, CompareStep
  <2>2. c.key # k
    BY <1>5, <2>1, ComparedType
  <2> HIDE DEF c
  <2>3. \A q \in Requests : Writer(q, k)' => Writer(q, k) /\ req'[q] = req[q]
    BY <1>3, <2>1, <2>2
  <2>4. Held(k)
    BY <1>1, <1>5 DEF AllHeld
  <2>5. QED
    BY <1>2, <2>1, <2>3, <2>4, HeldQuiet
<1>6. ASSUME NEW r \in Requests, GetCounter(r)
      PROVE  Held(k)'
  <2>1. KeyOf(req[r]) \in Keys
    BY <1>6, RequestTypes, KeyOpen DEF GetCounter, Compare
  <2>2. Count(KeyOf(req[r])) \in Nat
    BY <2>1, CountType
  <2>3. overlap' = [overlap EXCEPT ![KeyOf(req[r])] = @ \/ Writing(KeyOf(req[r]))]
    BY <1>6 DEF GetCounter
  <2>4. CASE k = KeyOf(req[r])
    <3>1. ~overlap[k] /\ ~Writing(k)
      BY <1>1, <2>1, <2>3, <2>4 DEF LimiterTypeOK
    <3>2. QED
      BY <1>6, <2>4, <3>1, HeldCompare DEF AllHeld
  <2>5. CASE k # KeyOf(req[r])
    <3>1. overlap'[k] = overlap[k]
      BY <2>3, <2>5 DEF LimiterTypeOK
    <3>2. QED
      BY <1>5, <1>6, <2>2, <2>5, <3>1 DEF GetCounter
  <2>6. QED
    BY <2>4, <2>5
<1>7. ASSUME NEW r \in Requests, GetMissing(r)
      PROVE  Held(k)'
  <2>1. overlap' = [overlap EXCEPT ![KeyOf(req[r])] = TRUE]
    BY <1>7 DEF GetMissing
  <2>2. k # KeyOf(req[r]) /\ overlap'[k] = overlap[k]
    BY <1>1, <2>1 DEF LimiterTypeOK
  <2>3. QED
    BY <1>5, <1>7, <2>2 DEF GetMissing
<1>8. ASSUME NEW r \in Requests, Puts(r)
      PROVE  Held(k)'
  <2>1. req[r] \in Worker /\ At(r, "put") /\ Write(req[r]) /\ UNCHANGED <<time, overlap>>
    BY <1>8, RequestTypes DEF Puts
  <2>2. \E v \in Worker \cup Ended : v.pc # "put" /\ Becomes(r, v)
    <3>1. CASE Ends(r)
      BY <3>1, IdleType DEF Ends
    <3>2. CASE ~Ends(r)
      <4> DEFINE v == [req[r] EXCEPT !.pc = "get", !.gate = req[r].kind]
      <4>1. v \in Worker /\ Becomes(r, v)
        BY <1>8, <2>1, <3>2, PutWorker DEF Puts
      <4>2. v.pc = "get"
        BY <2>1 DEF Worker
      <4>3. QED
        BY <4>1, <4>2
    <3>3. QED
      BY <3>1, <3>2
  <2>3. \A q \in Requests : Writer(q, k)' => q # r /\ Writer(q, k) /\ req'[q] = req[q]
    BY <1>3, <2>2
  <2>4. Held(k)
    BY <1>1, <2>1 DEF AllHeld
  <2>5. CASE req[r].key = k
    BY <2>1, <2>3, <2>4, <2>5, HeldWrite DEF Writer
  <2>6. CASE req[r].key # k
    <3>1. kv'[k] = kv[k] /\ \A l \in Limits : passed'[l][k] = passed[l][k]
      BY <2>1, <2>6, WriteStep
    <3>2. QED
      BY <1>2, <2>1, <2>3, <2>4, <3>1, HeldQuiet
  <2>7. QED
    BY <2>5, <2>6
<1>9. ASSUME time <= time', UNCHANGED <<kv, req, passed, overlap>>
      PROVE  Held(k)'
  <2>1. Held(k)
    BY <1>1, <1>9 DEF AllHeld
  <2>2. \A q \in Requests : Writer(q, k)' => Writer(q, k) /\ req'[q] = req[q]
    BY <1>9 DEF Writer, At
  <2>3. QED
    BY <1>9, <2>1, <2>2, HeldQuiet
<1>10. QED
  BY <1>2, <1>4, <1>6, <1>7, <1>8, <1>9, LimiterSteps DEF Tick, limiterVars

LEMMA AllHeldInit == LimiterInit => AllHeld
<1>1. SUFFICES ASSUME LimiterInit, NEW k \in Keys PROVE Held(k)
  BY DEF AllHeld
<1>2. \A q \in Requests : ~Writer(q, k)
  BY <1>1 DEF LimiterInit, Writer, At
<1>3. Total(passed, k) = 0 /\ \A l \in Limits : passed[l][k] = 0
  BY <1>1 DEF LimiterInit, Total, Limits
<1>4. kv[k].count = 0
  BY <1>1 DEF LimiterInit
<1>5. CounterHolds(k)
  BY <1>3, <1>4, LimiterAssumption DEF CounterHolds, Limits
<1>6. \A l \in Limits : 0 <= Limit(l)
  BY LimitPositive
<1>7. passed["login"][k] <= 2 * LoginLimit
  BY <1>3, LimiterAssumption DEF Limits
<1>8. QED
  BY <1>2, <1>3, <1>5, <1>6, <1>7 DEF Held

\* Under a key at which no read was stale or overlapped another request, no limit
\* is exceeded, and the login's at most once over, for any limits and windows.
THEOREM LimitsHold == LimiterSpec => []LimitHeld
<1>1. LimiterTypeOK /\ LimiterTypeOK' /\ AllHeld /\ [LimiterNext]_limiterVars => AllHeld'
  BY AllHeldStep
<1>2. AllHeld => LimitHeld
  BY DEF AllHeld, Held, LimitHeld
<1>3. QED
  BY LimiterTypeCorrect, AllHeldInit, <1>1, <1>2, PTL DEF LimiterSpec

(* Sessions and tokens --------------------------------------------------------- *)

\* A request sent with the cookies of its till.
Carries(c) == c.pc \in {"page", "post", "logout"}

LEMMA CallTypes ==
    ASSUME SessionTypeOK, NEW i \in Calls
    PROVE  /\ call[i] \in Open \cup Closed
           /\ Carries(call[i]) => /\ call[i].till \in Tills
                                  /\ {call[i].session, call[i].csrf} \subseteq Expiry
                                  /\ call[i].asked \in Clocks
           /\ call[i].pc = "login" => call[i].till \in Tills
BY DEF SessionTypeOK, Open, Closed, Carries

LEMMA ClockTypes ==
    ASSUME SessionTypeOK
    PROVE  /\ clock \in Nat /\ clock <= MaxClock
           /\ clock + SessionAge \in Expiry /\ clock + CsrfAge \in Expiry
           /\ None \in Expiry
           /\ \A x \in Expiry : x \in Nat
           /\ \A x \in Clocks \cup {Never} : x \in Int
           /\ \A x \in Clocks : x \in Nat
BY SessionAssumption DEF SessionTypeOK, Clocks, Expiry, None, Never

LEMMA AnswerStep ==
    ASSUME SessionTypeOK, NEW i \in Calls, NEW pc \in {"served", "denied", "forged"}, Answer(i, pc)
    PROVE  /\ call' \in [Calls -> Open \cup Closed]
           /\ call'[i] = [pc |-> pc]
           /\ \A j \in Calls \ {i} : call'[j] = call[j]
           /\ \A j \in Calls : Carries(call'[j]) => j # i /\ call'[j] = call[j]
BY DEF SessionTypeOK, Answer, Closed, Carries

\* The cookies of one till are set; session and csrf are what it has then.
LEMMA JarStep ==
    ASSUME SessionTypeOK, NEW t \in Tills, NEW s \in Expiry, NEW c \in Expiry
    PROVE  /\ [jar EXCEPT ![t].session = s] \in [Tills -> [session : Expiry, csrf : Expiry]]
           /\ [jar EXCEPT ![t].session = s][t].session = s
           /\ [jar EXCEPT ![t].csrf = c] \in [Tills -> [session : Expiry, csrf : Expiry]]
           /\ [jar EXCEPT ![t].csrf = c][t].csrf = c
           /\ \A u \in Tills : [jar EXCEPT ![t].session = s][u].csrf = jar[u].csrf
           /\ \A u \in Tills : [jar EXCEPT ![t].csrf = c][u].session = jar[u].session
           /\ \A u \in Tills \ {t} : [jar EXCEPT ![t].session = s][u] = jar[u]
           /\ \A u \in Tills \ {t} : [jar EXCEPT ![t].csrf = c][u] = jar[u]
BY DEF SessionTypeOK

LEMMA SetTokenStep ==
    ASSUME SessionTypeOK, NEW c, c.till \in Tills, SetToken(c)
    PROVE  /\ jar' \in [Tills -> [session : Expiry, csrf : Expiry]]
           /\ \A t \in Tills : jar'[t].session = jar[t].session
           /\ \A t \in Tills : jar'[t].csrf \in {jar[t].csrf, clock + CsrfAge}
           /\ c.csrf = None => jar'[c.till].csrf = clock + CsrfAge
           /\ c.csrf # None => jar' = jar
<1>1. CASE c.csrf = None
  <2> DEFINE t == c.till
             x == clock + CsrfAge
  <2>1. jar' = [jar EXCEPT ![t].csrf = x]
    BY <1>1 DEF SetToken
  <2>2. t \in Tills /\ x \in Expiry /\ None \in Expiry
    BY ClockTypes
  <2> HIDE DEF t, x
  <2>3. /\ jar' \in [Tills -> [session : Expiry, csrf : Expiry]]
        /\ jar'[t].csrf = x
        /\ \A u \in Tills : jar'[u].session = jar[u].session
        /\ \A u \in Tills \ {t} : jar'[u] = jar[u]
    BY <2>1, <2>2 DEF SessionTypeOK
  <2>4. \A u \in Tills : jar'[u].csrf \in {jar[u].csrf, x}
    BY <2>3
  <2>5. QED
    BY <1>1, <2>3, <2>4 DEF t, x
<1>2. CASE c.csrf # None
  BY <1>2 DEF SetToken, SessionTypeOK
<1>3. QED
  BY <1>1, <1>2

LEMMA CookieType ==
    ASSUME SessionTypeOK, NEW x \in Expiry
    PROVE  Cookie(x) \in Expiry /\ (Cookie(x) # None => Cookie(x) = x /\ x > clock)
BY ClockTypes DEF Cookie

\* What an action does to the calls, the cookies and the history.
Opens(i) ==
    /\ \/ \E t \in Tills, right \in BOOLEAN :
             call' = [call EXCEPT ![i] = [pc |-> "login", till |-> t, right |-> right]]
       \/ \E t \in Tills, pc \in {"page", "post", "logout"} :
             call' = [call EXCEPT ![i] =
                   [pc |-> pc, till |-> t, asked |-> clock,
                    session |-> Cookie(jar[t].session), csrf |-> Cookie(jar[t].csrf)]]
    /\ UNCHANGED <<clock, jar, typed, loaded>>

LEMMA OpensType ==
    ASSUME SessionTypeOK, NEW i \in Calls, Opens(i)
    PROVE  /\ call' \in [Calls -> Open \cup Closed]
           /\ \A j \in Calls \ {i} : call'[j] = call[j]
           /\ \/ ~Carries(call'[i])
              \/ \E t \in Tills :
                    /\ call'[i].till = t /\ call'[i].asked = clock
                    /\ call'[i].session = Cookie(jar[t].session)
                    /\ call'[i].csrf = Cookie(jar[t].csrf)
<1>1. CASE \E t \in Tills, right \in BOOLEAN :
             call' = [call EXCEPT ![i] = [pc |-> "login", till |-> t, right |-> right]]
  BY <1>1 DEF SessionTypeOK, Open, Carries
<1>2. ASSUME NEW t \in Tills, NEW pc \in {"page", "post", "logout"},
             call' = [call EXCEPT ![i] =
                   [pc |-> pc, till |-> t, asked |-> clock,
                    session |-> Cookie(jar[t].session), csrf |-> Cookie(jar[t].csrf)]]
      PROVE  /\ call' \in [Calls -> Open \cup Closed]
             /\ \A j \in Calls \ {i} : call'[j] = call[j]
             /\ call'[i].till = t /\ call'[i].asked = clock
             /\ call'[i].session = Cookie(jar[t].session)
             /\ call'[i].csrf = Cookie(jar[t].csrf)
  <2> DEFINE c == [pc |-> pc, till |-> t, asked |-> clock,
                   session |-> Cookie(jar[t].session), csrf |-> Cookie(jar[t].csrf)]
  <2>1. {Cookie(jar[t].session), Cookie(jar[t].csrf)} \subseteq Expiry /\ clock \in Clocks
    BY CookieType DEF SessionTypeOK
  <2>2. c \in Open
    BY <2>1 DEF Open
  <2>3. QED
    BY <1>2, <2>2 DEF SessionTypeOK
<1>3. QED
  BY <1>1, <1>2 DEF Opens

LEMMA OpensSteps ==
    ASSUME NEW i \in Calls,
           \/ \E t \in Tills, right \in BOOLEAN : SubmitPin(i, t, right)
           \/ \E t \in Tills, pc \in {"page", "post", "logout"} : SendCall(i, t, pc)
    PROVE  Opens(i)
BY DEF Opens, SubmitPin, SendCall

LEMMA SessionTypeStep ==
    ASSUME SessionTypeOK, [SessionNext]_sessionVars
    PROVE  SessionTypeOK'
<1>1. ASSUME NEW i \in Calls, Opens(i)
      PROVE  SessionTypeOK'
  BY <1>1, OpensType DEF Opens, SessionTypeOK
<1>2. ASSUME NEW i \in Calls, HandleOperatorLogin(i)
      PROVE  SessionTypeOK'
  <2>1. call[i].till \in Tills
    BY <1>2, CallTypes DEF HandleOperatorLogin
  <2>2. call' \in [Calls -> Open \cup Closed]
    BY <1>2, AnswerStep DEF HandleOperatorLogin
  <2>3. jar' \in [Tills -> [session : Expiry, csrf : Expiry]]
    BY <1>2, <2>1, ClockTypes, JarStep DEF HandleOperatorLogin, SessionTypeOK
  <2>4. typed' \in [Tills -> Clocks \cup {Never}]
    BY <1>2, <2>1 DEF HandleOperatorLogin, SessionTypeOK
  <2>5. QED
    BY <1>2, <2>2, <2>3, <2>4 DEF HandleOperatorLogin, SessionTypeOK
<1>3. ASSUME NEW i \in Calls, HandleOperatorLogout(i)
      PROVE  SessionTypeOK'
  <2>1. call[i].till \in Tills
    BY <1>3, CallTypes DEF HandleOperatorLogout, Carries
  <2>2. call' \in [Calls -> Open \cup Closed]
    BY <1>3, AnswerStep DEF HandleOperatorLogout
  <2>3. jar' \in [Tills -> [session : Expiry, csrf : Expiry]]
    BY <1>3, <2>1, ClockTypes, JarStep DEF HandleOperatorLogout
  <2>4. QED
    BY <1>3, <2>2, <2>3 DEF HandleOperatorLogout, SessionTypeOK
<1>4. ASSUME NEW i \in Calls, HandlePage(i)
      PROVE  SessionTypeOK'
  <2>1. call[i].till \in Tills /\ call[i].asked \in Clocks
    BY <1>4, CallTypes DEF HandlePage, Carries
  <2>2. call' \in [Calls -> Open \cup Closed]
    BY <1>4, AnswerStep DEF HandlePage
  <2>3. jar' \in [Tills -> [session : Expiry, csrf : Expiry]]
    BY <1>4, <2>1, SetTokenStep DEF HandlePage, SessionTypeOK
  <2>4. loaded' \in [Tills -> Clocks \cup {Never}]
    BY <1>4, <2>1 DEF HandlePage, SessionTypeOK
  <2>5. QED
    BY <1>4, <2>2, <2>3, <2>4 DEF HandlePage, SessionTypeOK
<1>5. ASSUME NEW i \in Calls, HandlePost(i)
      PROVE  SessionTypeOK'
  BY <1>5, AnswerStep DEF HandlePost, SessionTypeOK
<1>6. CASE Advance
  BY <1>6, SessionAssumption DEF Advance, SessionTypeOK, Clocks
<1>7. CASE UNCHANGED sessionVars
  BY <1>7 DEF sessionVars, SessionTypeOK
<1>8. QED
  BY <1>1, <1>2, <1>3, <1>4, <1>5, <1>6, <1>7, OpensSteps DEF SessionNext

LEMMA SessionTypeInit == SessionInit => SessionTypeOK
BY SessionAssumption DEF SessionInit, SessionTypeOK, Clocks, Expiry, Closed, None, Never

\* Cookies, requests and the history keep their types, for any number of tills
\* and requests and any ages.
THEOREM SessionTypeCorrect == SessionSpec => []SessionTypeOK
BY SessionTypeInit, SessionTypeStep, PTL DEF SessionSpec

\* A session ends at most SessionAge after the last login of its till.
Fits(s, t) == s # None => typed[t] # Never /\ s <= typed[t] + SessionAge

SessionsFit ==
    /\ \A t \in Tills : typed[t] <= clock /\ Fits(jar[t].session, t)
    /\ \A i \in Calls : Carries(call[i]) => Fits(call[i].session, call[i].till)

\* The history moves only forward, so what fitted still fits.
LEMMA FitsStep ==
    ASSUME SessionTypeOK, SessionTypeOK', SessionsFit, clock <= clock',
           \A t \in Tills : typed'[t] = typed[t] \/ typed'[t] = clock,
           \A t \in Tills : \/ jar'[t].session \in {jar[t].session, None}
                            \/ typed'[t] = clock /\ jar'[t].session = clock + SessionAge,
           \A i \in Calls : Carries(call'[i]) =>
               \/ call'[i] = call[i]
               \/ call'[i].session \in {jar[call'[i].till].session, None}
    PROVE  SessionsFit'
<1>1. clock \in Nat /\ clock' \in Nat /\ SessionAge \in Nat
  BY ClockTypes, SessionAssumption DEF SessionTypeOK, Clocks
<1>2. \A t \in Tills : typed[t] \in Int /\ typed'[t] \in Int /\ typed[t] <= clock
  BY ClockTypes DEF SessionTypeOK, SessionsFit
<1>3. \A t \in Tills : typed'[t] >= typed[t] /\ typed'[t] <= clock'
  BY <1>1, <1>2
<1>4. ASSUME NEW t \in Tills, NEW s \in Expiry, Fits(s, t)
      PROVE  s # None => typed'[t] # Never /\ s <= typed'[t] + SessionAge
  <2>1. s \in Nat
    BY ClockTypes
  <2>2. typed[t] # Never => typed'[t] # Never
    BY <1>1 DEF Never
  <2>3. QED
    BY <1>1, <1>2, <1>3, <1>4, <2>1, <2>2 DEF Fits
<1>5. ASSUME NEW t \in Tills
      PROVE  jar'[t].session # None
             => typed'[t] # Never /\ jar'[t].session <= typed'[t] + SessionAge
  <2>1. jar[t].session \in Expiry /\ Fits(jar[t].session, t)
    BY DEF SessionTypeOK, SessionsFit
  <2>2. CASE jar'[t].session \in {jar[t].session, None}
    BY <1>4, <2>1, <2>2
  <2>3. CASE typed'[t] = clock /\ jar'[t].session = clock + SessionAge
    BY <1>1, <2>3 DEF Never
  <2>4. QED
    BY <2>2, <2>3
<1>6. ASSUME NEW i \in Calls, Carries(call'[i])
      PROVE  call'[i].session # None
             => /\ typed'[call'[i].till] # Never
                /\ call'[i].session <= typed'[call'[i].till] + SessionAge
  <2>1. call'[i].till \in Tills
    BY <1>6 DEF SessionTypeOK, Open, Closed, Carries
  <2>2. CASE call'[i] = call[i]
    <3>1. call[i].session \in Expiry /\ Fits(call[i].session, call[i].till)
      BY <1>6, <2>2, CallTypes DEF SessionsFit
    <3>2. QED
      BY <1>4, <2>1, <2>2, <3>1
  <2>3. CASE call'[i].session \in {jar[call'[i].till].session, None}
    <3>1. /\ jar[call'[i].till].session \in Expiry
          /\ Fits(jar[call'[i].till].session, call'[i].till)
      BY <2>1 DEF SessionTypeOK, SessionsFit
    <3>2. QED
      BY <1>4, <2>1, <2>3, <3>1
  <2>4. QED
    BY <1>6, <2>2, <2>3
<1>7. QED
  BY <1>3, <1>5, <1>6 DEF SessionsFit, Fits

LEMMA SessionsFitStep ==
    ASSUME SessionTypeOK, SessionTypeOK', SessionsFit, [SessionNext]_sessionVars
    PROVE  SessionsFit'
<1>1. clock \in Nat
  BY ClockTypes
<1>2. ASSUME NEW i \in Calls, Opens(i)
      PROVE  SessionsFit'
  <2>1. UNCHANGED <<clock, jar, typed>>
    BY <1>2 DEF Opens
  <2>2. ASSUME NEW j \in Calls, Carries(call'[j])
        PROVE  \/ call'[j] = call[j]
               \/ call'[j].session \in {jar[call'[j].till].session, None}
    BY <1>2, <2>2, OpensType DEF Cookie
  <2>3. QED
    BY <1>1, <2>1, <2>2, FitsStep
<1>3. ASSUME NEW i \in Calls, HandleOperatorLogin(i)
      PROVE  SessionsFit'
  <2>1. call[i].till \in Tills
    BY <1>3, CallTypes DEF HandleOperatorLogin
  <2>2. \A j \in Calls : Carries(call'[j]) => call'[j] = call[j]
    BY <1>3, AnswerStep DEF HandleOperatorLogin
  <2>3. /\ \A t \in Tills : typed'[t] = typed[t] \/ typed'[t] = clock
        /\ \A t \in Tills : \/ jar'[t].session \in {jar[t].session, None}
                            \/ typed'[t] = clock /\ jar'[t].session = clock + SessionAge
    <3>1. CASE call[i].right
      <4>1. /\ jar' = [jar EXCEPT ![call[i].till].session = clock + SessionAge]
            /\ typed' = [typed EXCEPT ![call[i].till] = clock]
        BY <1>3, <3>1 DEF HandleOperatorLogin
      <4>2. QED
        BY <2>1, <4>1, ClockTypes, JarStep DEF SessionTypeOK
    <3>2. CASE ~call[i].right
      BY <1>3, <3>2 DEF HandleOperatorLogin
    <3>3. QED
      BY <3>1, <3>2
  <2>4. clock' = clock
    BY <1>3 DEF HandleOperatorLogin
  <2>5. QED
    BY <1>1, <2>2, <2>3, <2>4, FitsStep
<1>4. ASSUME NEW i \in Calls, HandleOperatorLogout(i)
      PROVE  SessionsFit'
  <2>1. call[i].till \in Tills
    BY <1>4, CallTypes DEF HandleOperatorLogout, Carries
  <2>2. \A j \in Calls : Carries(call'[j]) => call'[j] = call[j]
    BY <1>4, AnswerStep DEF HandleOperatorLogout
  <2>3. \A t \in Tills : jar'[t].session \in {jar[t].session, None}
    BY <1>4, <2>1, ClockTypes, JarStep DEF HandleOperatorLogout
  <2>4. UNCHANGED <<clock, typed>>
    BY <1>4 DEF HandleOperatorLogout
  <2>5. QED
    BY <1>1, <2>2, <2>3, <2>4, FitsStep
<1>5. ASSUME NEW i \in Calls, HandlePage(i)
      PROVE  SessionsFit'
  <2>1. call[i].till \in Tills
    BY <1>5, CallTypes DEF HandlePage, Carries
  <2>2. \A j \in Calls : Carries(call'[j]) => call'[j] = call[j]
    BY <1>5, AnswerStep DEF HandlePage
  <2>3. \A t \in Tills : jar'[t].session \in {jar[t].session, None}
    BY <1>5, <2>1, SetTokenStep DEF HandlePage
  <2>4. UNCHANGED <<clock, typed>>
    BY <1>5 DEF HandlePage
  <2>5. QED
    BY <1>1, <2>2, <2>3, <2>4, FitsStep
<1>6. ASSUME NEW i \in Calls, HandlePost(i)
      PROVE  SessionsFit'
  <2>1. \A j \in Calls : Carries(call'[j]) => call'[j] = call[j]
    BY <1>6, AnswerStep DEF HandlePost
  <2>2. QED
    BY <1>1, <1>6, <2>1, FitsStep DEF HandlePost
<1>7. CASE Advance
  BY <1>1, <1>7, FitsStep DEF Advance
<1>8. CASE UNCHANGED sessionVars
  BY <1>1, <1>8, FitsStep DEF sessionVars
<1>9. QED
  BY <1>2, <1>3, <1>4, <1>5, <1>6, <1>7, <1>8, OpensSteps DEF SessionNext

LEMMA SessionsFitInit == SessionInit => SessionsFit
BY DEF SessionInit, SessionsFit, Fits, Carries, None, Never

\* A request is served only by its own handler, which looked at its session.
LEMMA ServedFits ==
    ASSUME SessionTypeOK, SessionsFit, [SessionNext]_sessionVars, NEW i \in Calls,
           call[i].pc \in {"page", "post"}, call'[i].pc = "served"
    PROVE  /\ typed[call[i].till] # Never
           /\ clock <= typed[call[i].till] + SessionAge
<1>1. Carries(call[i]) /\ Fits(call[i].session, call[i].till)
  BY DEF Carries, SessionsFit
<1>2. call[i].till \in Tills /\ call[i].session \in Expiry
  BY <1>1, CallTypes
<1>3. call'[i] # call[i]
  OBVIOUS
<1>4. RequireOperator(call[i])
  <2>1. ASSUME NEW j \in Calls, Opens(j)
        PROVE  FALSE
    <3>1. i = j
      BY <1>3, <2>1, OpensType
    <3>2. QED
      BY <2>1, <3>1 DEF Opens, SessionTypeOK
  <2>2. ASSUME NEW j \in Calls, NEW pc \in {"served", "denied", "forged"}, Answer(j, pc)
        PROVE  i = j /\ pc = "served"
    BY <1>3, <2>2, AnswerStep
  <2>3. ASSUME NEW j \in Calls, HandleOperatorLogin(j)
        PROVE  FALSE
    BY <2>2, <2>3 DEF HandleOperatorLogin
  <2>4. ASSUME NEW j \in Calls, HandleOperatorLogout(j)
        PROVE  FALSE
    BY <2>2, <2>4 DEF HandleOperatorLogout
  <2>5. ASSUME NEW j \in Calls, HandlePage(j)
        PROVE  RequireOperator(call[i])
    BY <2>2, <2>5 DEF HandlePage
  <2>6. ASSUME NEW j \in Calls, HandlePost(j)
        PROVE  RequireOperator(call[i])
    BY <2>2, <2>6 DEF HandlePost
  <2>7. QED
    BY <1>3, <2>1, <2>3, <2>4, <2>5, <2>6, OpensSteps DEF SessionNext, Advance, sessionVars
<1>5. call[i].session \in Nat /\ clock \in Nat /\ typed[call[i].till] \in Int
      /\ SessionAge \in Nat
  BY <1>2, ClockTypes, SessionAssumption DEF SessionTypeOK
<1>6. QED
  BY <1>1, <1>4, <1>5 DEF RequireOperator, Fits

\* What an operator handler does, it does for a till at which the right PIN was
\* entered at most SessionAge before, whatever logins and logouts it crossed.
THEOREM ServedOnlyInSession == SessionSpec => ServedMeansLoggedIn
<1>1. SessionTypeOK /\ SessionTypeOK' /\ SessionsFit /\ [SessionNext]_sessionVars => SessionsFit'
  BY SessionsFitStep
<1>2. SessionTypeOK /\ SessionsFit /\ [SessionNext]_sessionVars
      => [ \A i \in Calls :
             call[i].pc \in {"page", "post"} /\ call'[i].pc = "served"
             => /\ typed[call[i].till] # Never
                /\ clock <= typed[call[i].till] + SessionAge ]_sessionVars
  BY ServedFits
<1>3. QED
  BY SessionTypeCorrect, SessionsFitInit, <1>1, <1>2, PTL DEF SessionSpec, ServedMeansLoggedIn

\* A request carries no newer token than its till holds, one that was good when
\* it was sent; no token is to run out more than CsrfAge from now.
TokensFit ==
    /\ \A t \in Tills : jar[t].csrf <= clock + CsrfAge
    /\ \A i \in Calls : Carries(call[i]) =>
          /\ call[i].asked <= clock
          /\ call[i].csrf # None => /\ call[i].csrf > call[i].asked
                                    /\ call[i].csrf <= jar[call[i].till].csrf
    /\ TillKeepsPosting

\* Tokens are only replaced by newer ones.
LEMMA TokensStep ==
    ASSUME SessionTypeOK, SessionTypeOK', TokensFit, clock <= clock',
           \A t \in Tills : jar'[t].csrf \in {jar[t].csrf, clock + CsrfAge},
           \A i \in Calls : Carries(call'[i]) =>
               \/ call'[i] = call[i]
               \/ /\ call'[i].asked = clock
                  /\ call'[i].csrf = Cookie(jar[call'[i].till].csrf),
           \A t \in Tills : loaded'[t] # Never =>
               loaded'[t] = loaded[t] \/ jar'[t].csrf > loaded'[t]
    PROVE  TokensFit'
<1>1. clock \in Nat /\ clock' \in Nat /\ CsrfAge \in Nat
  BY ClockTypes, SessionAssumption DEF SessionTypeOK, Clocks
<1>2. \A t \in Tills : jar[t].csrf \in Nat /\ jar'[t].csrf \in Nat
  BY ClockTypes DEF SessionTypeOK
<1>3. \A t \in Tills : jar[t].csrf <= jar'[t].csrf /\ jar'[t].csrf <= clock' + CsrfAge
  BY <1>1, <1>2 DEF TokensFit
<1>4. ASSUME NEW i \in Calls, Carries(call'[i])
      PROVE  /\ call'[i].asked <= clock'
             /\ call'[i].csrf # None => /\ call'[i].csrf > call'[i].asked
                                        /\ call'[i].csrf <= jar'[call'[i].till].csrf
  <2>1. call'[i].till \in Tills
    BY <1>4 DEF SessionTypeOK, Open, Closed, Carries
  <2>2. CASE call'[i] = call[i]
    <3>1. call[i].asked \in Nat /\ call[i].csrf \in Nat
      BY <1>4, <2>2, CallTypes, ClockTypes
    <3>2. QED
      BY <1>1, <1>2, <1>3, <1>4, <2>1, <2>2, <3>1 DEF TokensFit
  <2>3. CASE /\ call'[i].asked = clock
             /\ call'[i].csrf = Cookie(jar[call'[i].till].csrf)
    <3>1. jar[call'[i].till].csrf \in Expiry
      BY <2>1 DEF SessionTypeOK
    <3>2. QED
      BY <1>1, <1>2, <1>3, <2>1, <2>3, <3>1, CookieType
  <2>4. QED
    BY <1>4, <2>2, <2>3
<1>5. ASSUME NEW t \in Tills, loaded'[t] # Never
      PROVE  jar'[t].csrf > loaded'[t]
  <2>1. loaded[t] \in Int
    BY ClockTypes DEF SessionTypeOK
  <2>2. QED
    BY <1>2, <1>3, <1>5, <2>1 DEF TokensFit, TillKeepsPosting
<1>6. QED
  BY <1>3, <1>4, <1>5 DEF TokensFit, TillKeepsPosting

LEMMA TokensFitStep ==
    ASSUME SessionTypeOK, SessionTypeOK', TokensFit, [SessionNext]_sessionVars
    PROVE  TokensFit'
<1>1. clock \in Nat
  BY ClockTypes
<1>2. ASSUME NEW i \in Calls, Opens(i)
      PROVE  TokensFit'
  <2>1. UNCHANGED <<clock, jar, loaded>>
    BY <1>2 DEF Opens
  <2>2. ASSUME NEW j \in Calls, Carries(call'[j])
        PROVE  \/ call'[j] = call[j]
               \/ /\ call'[j].asked = clock
                  /\ call'[j].csrf = Cookie(jar[call'[j].till].csrf)
    BY <1>2, <2>2, OpensType
  <2>3. QED
    BY <1>1, <2>1, <2>2, TokensStep
<1>3. ASSUME NEW i \in Calls, HandleOperatorLogin(i)
      PROVE  TokensFit'
  <2>1. call[i].till \in Tills
    BY <1>3, CallTypes DEF HandleOperatorLogin
  <2>2. \A j \in Calls : Carries(call'[j]) => call'[j] = call[j]
    BY <1>3, AnswerStep DEF HandleOperatorLogin
  <2>3. \A t \in Tills : jar'[t].csrf = jar[t].csrf
    <3>1. CASE call[i].right
      <4> DEFINE s == clock + SessionAge
      <4>1. jar' = [jar EXCEPT ![call[i].till].session = s]
        BY <1>3, <3>1 DEF HandleOperatorLogin
      <4>2. s \in Expiry
        BY ClockTypes
      <4> HIDE DEF s
      <4>3. QED
        BY <2>1, <4>1, <4>2, JarStep
    <3>2. CASE ~call[i].right
      BY <1>3, <3>2 DEF HandleOperatorLogin
    <3>3. QED
      BY <3>1, <3>2
  <2>4. UNCHANGED <<clock, loaded>>
    BY <1>3 DEF HandleOperatorLogin
  <2>5. QED
    BY <1>1, <2>2, <2>3, <2>4, TokensStep
<1>4. ASSUME NEW i \in Calls, HandleOperatorLogout(i)
      PROVE  TokensFit'
  <2>1. call[i].till \in Tills
    BY <1>4, CallTypes DEF HandleOperatorLogout, Carries
  <2>2. \A j \in Calls : Carries(call'[j]) => call'[j] = call[j]
    BY <1>4, AnswerStep DEF HandleOperatorLogout
  <2>3. \A t \in Tills : jar'[t].csrf = jar[t].csrf
    BY <1>4, <2>1, ClockTypes, JarStep DEF HandleOperatorLogout
  <2>4. UNCHANGED <<clock, loaded>>
    BY <1>4 DEF HandleOperatorLogout
  <2>5. QED
    BY <1>1, <2>2, <2>3, <2>4, TokensStep
<1>5. ASSUME NEW i \in Calls, HandlePage(i)
      PROVE  TokensFit'
  <2> DEFINE c == call[i]
  <2>1. Carries(c) /\ c.till \in Tills /\ c.asked \in Nat /\ c.csrf \in Nat
    BY <1>5, CallTypes, ClockTypes DEF HandlePage, Carries
  <2>2. \A j \in Calls : Carries(call'[j]) => call'[j] = call[j]
    BY <1>5, AnswerStep DEF HandlePage
  <2>3. clock' = clock
    BY <1>5 DEF HandlePage
  <2>4. CASE RequireOperator(c)
    <3>1. SetToken(c) /\ loaded' = [loaded EXCEPT ![c.till] = c.asked]
      BY <1>5, <2>4 DEF HandlePage
    <3>2. \A t \in Tills : jar'[t].csrf \in {jar[t].csrf, clock + CsrfAge}
      BY <2>1, <3>1, SetTokenStep
    <3>3. jar'[c.till].csrf > c.asked
      <4>1. CASE c.csrf = None
        <5>1. jar'[c.till].csrf = clock + CsrfAge
          BY <2>1, <3>1, <4>1, SetTokenStep
        <5>2. c.asked <= clock
          BY <2>1 DEF TokensFit
        <5>3. QED
          BY <1>1, <2>1, <5>1, <5>2, SessionAssumption
      <4>2. CASE c.csrf # None
        <5>1. jar' = jar /\ c.csrf > c.asked /\ c.csrf <= jar[c.till].csrf
          BY <2>1, <3>1, <4>2, SetTokenStep DEF TokensFit
        <5>2. jar[c.till].csrf \in Nat
          BY <2>1, ClockTypes DEF SessionTypeOK
        <5>3. QED
          BY <2>1, <5>1, <5>2
      <4>3. QED
        BY <4>1, <4>2
    <3>4. ASSUME NEW t \in Tills
          PROVE  loaded'[t] = loaded[t] \/ jar'[t].csrf > loaded'[t]
      BY <3>1, <3>3 DEF SessionTypeOK
    <3>5. QED
      BY <1>1, <2>2, <2>3, <3>2, <3>4, TokensStep
  <2>5. CASE ~RequireOperator(c)
    <3>1. UNCHANGED <<jar, loaded>>
      BY <1>5, <2>5 DEF HandlePage
    <3>2. QED
      BY <1>1, <2>2, <2>3, <3>1, TokensStep
  <2>6. QED
    BY <2>4, <2>5
<1>6. ASSUME NEW i \in Calls, HandlePost(i)
      PROVE  TokensFit'
  <2>1. \A j \in Calls : Carries(call'[j]) => call'[j] = call[j]
    BY <1>6, AnswerStep DEF HandlePost
  <2>2. QED
    BY <1>1, <1>6, <2>1, TokensStep DEF HandlePost
<1>7. CASE Advance
  BY <1>1, <1>7, TokensStep DEF Advance
<1>8. CASE UNCHANGED sessionVars
  BY <1>1, <1>8, TokensStep DEF sessionVars
<1>9. QED
  BY <1>2, <1>3, <1>4, <1>5, <1>6, <1>7, <1>8, OpensSteps DEF SessionNext

LEMMA TokensFitInit == SessionInit => TokensFit
BY SessionAssumption DEF SessionInit, TokensFit, TillKeepsPosting, Carries, None, Never

\* A till that was given an operator page holds a token that was good when it
\* asked for the page, whatever requests it has under way at once.
THEOREM TillHoldsToken == SessionSpec => []TillKeepsPosting
<1>1. SessionTypeOK /\ SessionTypeOK' /\ TokensFit /\ [SessionNext]_sessionVars => TokensFit'
  BY TokensFitStep
<1>2. TokensFit => TillKeepsPosting
  BY DEF TokensFit
<1>3. QED
  BY SessionTypeCorrect, TokensFitInit, <1>1, <1>2, PTL DEF SessionSpec

(* The charge page ------------------------------------------------------------- *)

\* What the page remembers of a sale fits what it shows: a reader is on or
\* starting only under the overlay, the overlay asks for the amount shown, a
\* charge that was sent is over or under way until the button is pressed again,
\* and the payment it waits for is the last one sent.
PageInv ==
    /\ reader = "on" => app = "scanning"
    /\ reader = "starting" => app = "charging"
    /\ Covered => amount = asked /\ asked # 0
    /\ ~first /\ ~pressed => app \in {"processing"} \cup Outcomes
    /\ app = "processing" => posts # << >> /\ Last.amount = asked
    /\ app = "success" => posts # << >>
    /\ ApprovedIsCharged
    /\ SecondChargeIsPressed

LEMMA PageTypeStep ==
    ASSUME PageTypeOK, PageInv, [PageNext]_pageVars
    PROVE  PageTypeOK'
<1>1. ASSUME NEW a \in Prices \cup {0}, HandleKeypadInput(a)
      PROVE  PageTypeOK'
  BY <1>1 DEF HandleKeypadInput, Show, PageTypeOK
<1>2. ASSUME NEW a \in Prices \cup {0}, EditCart(a)
      PROVE  PageTypeOK'
  BY <1>2 DEF EditCart, Show, PageTypeOK
<1>3. CASE ToggleMode
  BY <1>3 DEF ToggleMode, Show, PageTypeOK
<1>4. CASE PressCharge \/ AutoCharge
  BY <1>4 DEF PressCharge, AutoCharge, StartChargeFlow, Show, PageTypeOK, AppStates
<1>5. CASE ResetSale \/ Reload
  BY <1>5 DEF ResetSale, Reload, NewSale, Show, PageTypeOK, AppStates
<1>6. CASE CancelCharge
  BY <1>6 DEF CancelCharge, Show, PageTypeOK, AppStates
<1>7. CASE ScanStarts \/ ScanFails
  BY <1>7 DEF ScanStarts, ScanFails, PageTypeOK, AppStates
<1>8. CASE ReadingError \/ TapUnreadable
  BY <1>8 DEF ReadingError, TapUnreadable, Show, PageTypeOK, AppStates, Outcomes
<1>9. CASE Tap
  <2> DEFINE p == [amount |-> IF mode = "menu" THEN amount ELSE asked,
                   at |-> "sent", first |-> first, pressed |-> pressed]
  <2>1. amount \in Prices /\ asked \in Prices
    BY <1>9 DEF Tap, PageTypeOK, PageInv, Covered
  <2>2. p \in Post
    BY <2>1 DEF Post, Fates, PageTypeOK
  <2>3. posts \in Seq(Post) /\ posts' = Append(posts, p) /\ Len(posts) < MaxPosts
    BY <1>9 DEF Tap, PageTypeOK
  <2> HIDE DEF p
  <2>4. posts' \in Seq(Post) /\ Len(posts') <= MaxPosts
    BY <2>2, <2>3, PageAssumption
  <2>5. QED
    BY <1>9, <2>4 DEF Tap, Show, PageTypeOK, AppStates
<1>10. ASSUME NEW i \in 1..MaxPosts, NEW fate \in {"charged", "refused"}, Serve(i, fate)
       PROVE  PageTypeOK'
  <2>1. /\ posts \in Seq(Post) /\ i \in 1..Len(posts)
        /\ posts' = [posts EXCEPT ![i].at = fate]
    BY <1>10 DEF Serve, PageTypeOK
  <2>2. [posts[i] EXCEPT !.at = fate] \in Post
    <3>1. posts[i] \in Post
      BY <2>1
    <3>2. QED
      BY <3>1 DEF Post, Fates
  <2>3. posts' \in Seq(Post) /\ Len(posts') = Len(posts)
    BY <2>1, <2>2
  <2>4. QED
    BY <1>10, <2>3 DEF Serve, PageTypeOK
<1>11. CASE Answered \/ AnswerLost
  BY <1>11 DEF Answered, AnswerLost, Show, PageTypeOK, AppStates, Outcomes
<1>12. CASE UNCHANGED pageVars
  BY <1>12 DEF pageVars, PageTypeOK
<1>13. QED
  BY <1>1, <1>2, <1>3, <1>4, <1>5, <1>6, <1>7, <1>8, <1>9, <1>10, <1>11, <1>12 DEF PageNext

\* While no charge is sent and none is served, the parts of the invariant that
\* are about the charges sent depend on the page's state alone.
LEMMA PageInvQuiet ==
    ASSUME PageInv, UNCHANGED posts,
           app' = "processing" => app = "processing" /\ asked' = asked,
           app' = "success" => \/ app = "success" /\ asked' = asked
                               \/ app = "processing" /\ asked' = asked /\ Last.at = "charged"
    PROVE  /\ app' = "processing" => posts' # << >> /\ Last'.amount = asked'
           /\ app' = "success" => posts' # << >>
           /\ ApprovedIsCharged'
           /\ SecondChargeIsPressed'
BY DEF PageInv, Last, ApprovedIsCharged, SecondChargeIsPressed

LEMMA PageInvStep ==
    ASSUME PageTypeOK, PageInv, [PageNext]_pageVars
    PROVE  PageInv'
<1>1. ASSUME NEW a \in Prices \cup {0}, HandleKeypadInput(a) \/ EditCart(a)
      PROVE  PageInv'
  BY <1>1, PageInvQuiet DEF HandleKeypadInput, EditCart, Show, PageInv, Covered, Outcomes
<1>2. CASE ToggleMode
  BY <1>2, PageInvQuiet DEF ToggleMode, Show, PageInv, Covered, Outcomes
<1>3. CASE PressCharge \/ AutoCharge
  BY <1>3, PageInvQuiet DEF PressCharge, AutoCharge, StartChargeFlow, Show, PageInv, Covered,
     Outcomes
<1>4. CASE ResetSale \/ Reload
  BY <1>4, PageInvQuiet DEF ResetSale, Reload, NewSale, Show, PageInv, Covered, Outcomes
<1>5. CASE CancelCharge
  BY <1>5, PageInvQuiet DEF CancelCharge, Show, PageInv, Covered, Outcomes
<1>6. CASE ScanStarts \/ ScanFails
  BY <1>6, PageInvQuiet DEF ScanStarts, ScanFails, PageInv, Covered, Outcomes
<1>7. CASE ReadingError \/ TapUnreadable
  BY <1>7, PageInvQuiet DEF ReadingError, TapUnreadable, Show, PageInv, Covered, Outcomes
<1>8. CASE Tap
  <2> DEFINE p == [amount |-> IF mode = "menu" THEN amount ELSE asked,
                   at |-> "sent", first |-> first, pressed |-> pressed]
  <2>1. posts \in Seq(Post) /\ posts' = Append(posts, p)
    BY <1>8 DEF Tap, PageTypeOK
  <2>2. p.amount = asked /\ (p.first \/ p.pressed)
    BY <1>8 DEF Tap, PageInv, PageTypeOK, Covered, Outcomes
  <2> HIDE DEF p
  <2>3. /\ Len(posts') = Len(posts) + 1 /\ posts'[Len(posts) + 1] = p
        /\ DOMAIN posts' = 1..(Len(posts) + 1)
        /\ \A i \in 1..Len(posts) : posts'[i] = posts[i]
    BY <2>1
  <2>4. posts' # << >> /\ Last' = p
    BY <2>1, <2>3 DEF Last
  <2>5. SecondChargeIsPressed'
    BY <2>1, <2>2, <2>3 DEF PageInv, SecondChargeIsPressed
  <2>6. app' = "processing" /\ reader' = "off" /\ UNCHANGED asked /\ amount' = amount
    BY <1>8 DEF Tap, Show
  <2>7. QED
    BY <1>8, <2>2, <2>4, <2>5, <2>6 DEF Tap, PageInv, Covered, ApprovedIsCharged
<1>9. ASSUME NEW i \in 1..MaxPosts, NEW fate \in {"charged", "refused"}, Serve(i, fate)
      PROVE  PageInv'
  <2>1. /\ posts \in Seq(Post) /\ i \in 1..Len(posts) /\ posts[i].at = "sent"
        /\ posts' = [posts EXCEPT ![i].at = fate]
        /\ UNCHANGED <<app, mode, amount, asked, reader, first, pressed>>
    BY <1>9 DEF Serve, PageTypeOK
  <2>2. /\ DOMAIN posts' = 1..Len(posts) /\ Len(posts') = Len(posts) /\ DOMAIN posts = 1..Len(posts)
        /\ \A j \in 1..Len(posts) : j # i => posts'[j] = posts[j]
        /\ posts'[i] = [posts[i] EXCEPT !.at = fate]
    BY <2>1
  <2>3. posts[i] \in Post
    BY <2>1
  <2>4. \A j \in 1..Len(posts) : /\ posts'[j].amount = posts[j].amount
                                 /\ posts'[j].first = posts[j].first
                                 /\ posts'[j].pressed = posts[j].pressed
                                 /\ posts[j].at = "charged" => posts'[j].at = "charged"
    BY <2>1, <2>2, <2>3 DEF Post
  <2>5. SecondChargeIsPressed'
    BY <2>2, <2>4 DEF PageInv, SecondChargeIsPressed
  <2>6. posts # << >> /\ posts' # << >> /\ Len(posts) \in 1..Len(posts)
    BY <2>1, <2>2
  <2>7. Last'.amount = Last.amount /\ (Last.at = "charged" => Last'.at = "charged")
    BY <2>2, <2>4, <2>6 DEF Last
  <2>8. QED
    BY <2>1, <2>5, <2>6, <2>7 DEF PageInv, Covered, ApprovedIsCharged, Outcomes
<1>10. CASE Answered \/ AnswerLost
  BY <1>10, PageInvQuiet DEF Answered, AnswerLost, Show, PageInv, Covered, Outcomes
<1>11. CASE UNCHANGED pageVars
  BY <1>11, PageInvQuiet DEF pageVars, PageInv, Covered, Outcomes
<1>12. QED
  BY <1>1, <1>2, <1>3, <1>4, <1>5, <1>6, <1>7, <1>8, <1>9, <1>10, <1>11 DEF PageNext

LEMMA PageInitial == PageInit => PageTypeOK /\ PageInv
<1>1. SUFFICES ASSUME PageInit PROVE PageTypeOK /\ PageInv
  OBVIOUS
<1>2. << >> \in Seq(Post) /\ Len(<< >>) = 0 /\ DOMAIN << >> = {}
  OBVIOUS
<1>3. PageTypeOK
  <2>1. posts \in Seq(Post) /\ Len(posts) <= MaxPosts
    BY <1>1, <1>2, PageAssumption DEF PageInit
  <2>2. first \in BOOLEAN /\ pressed \in BOOLEAN /\ armed \in BOOLEAN
    BY <1>1 DEF PageInit
  <2>3. QED
    BY <1>1, <2>1, <2>2 DEF PageInit, PageTypeOK, AppStates
<1>4. SecondChargeIsPressed
  BY <1>1, <1>2 DEF PageInit, SecondChargeIsPressed
<1>5. QED
  BY <1>1, <1>3, <1>4 DEF PageInit, PageInv, Covered, ApprovedIsCharged

LEMMA PageInvariant == PageSpec => [](PageTypeOK /\ PageInv)
<1>1. PageTypeOK /\ PageInv /\ [PageNext]_pageVars => (PageTypeOK /\ PageInv)'
  BY PageTypeStep, PageInvStep
<1>2. QED
  BY PageInitial, <1>1, PTL DEF PageSpec

\* The page keeps its types, for any prices and any number of charges.
THEOREM PageTypeCorrect == PageSpec => []PageTypeOK
BY PageInvariant, PTL

\* Whatever the timer, the reader, the operator and the server do, a second
\* charge of a sale follows only a press of the charge button.
THEOREM NoSecondChargeUnasked == PageSpec => []SecondChargeIsPressed
<1>1. PageInv => SecondChargeIsPressed
  BY DEF PageInv
<1>2. QED
  BY PageInvariant, <1>1, PTL

\* A payment shown as approved was taken by the server at the amount asked for.
THEOREM ApprovalIsTrue == PageSpec => []ApprovedIsCharged
<1>1. PageInv => ApprovedIsCharged
  BY DEF PageInv
<1>2. QED
  BY PageInvariant, <1>1, PTL

\* No step but the failure or the cancelling of a reader that is still starting
\* leaves the overlay up without a reader.
THEOREM OverlayKeepsReader == PageSpec => OverlayListens
<1>1. [PageNext]_pageVars
      => [ Asking' /\ reader' = "off"
           => reader = "starting" \/ (Asking /\ reader = "off") ]_pageVars
  <2>1. SUFFICES ASSUME PageNext, Asking', reader' = "off"
                 PROVE  reader = "starting" \/ (Asking /\ reader = "off")
    OBVIOUS
  <2>2. ASSUME NEW a, HandleKeypadInput(a) \/ EditCart(a)
        PROVE  FALSE
    BY <2>1, <2>2 DEF HandleKeypadInput, EditCart, Show, Asking, Covered
  <2>3. ASSUME ToggleMode \/ PressCharge \/ ResetSale \/ Reload \/ AutoCharge
        PROVE  FALSE
    BY <2>1, <2>3 DEF ToggleMode, PressCharge, ResetSale, Reload, AutoCharge, StartChargeFlow,
       Show, Asking, Covered, Outcomes
  <2>4. ASSUME CancelCharge \/ ScanStarts \/ ScanFails
        PROVE  reader = "starting"
    BY <2>1, <2>4 DEF CancelCharge, ScanStarts, ScanFails, Show, Asking
  <2>5. ASSUME ReadingError \/ TapUnreadable \/ Tap \/ Answered \/ AnswerLost
        PROVE  FALSE
    BY <2>1, <2>5 DEF ReadingError, TapUnreadable, Tap, Answered, AnswerLost, Show, Asking
  <2>6. ASSUME NEW i, NEW fate, Serve(i, fate)
        PROVE  Asking /\ reader = "off"
    BY <2>1, <2>6 DEF Serve, Asking
  <2>7. QED
    BY <2>1, <2>2, <2>3, <2>4, <2>5, <2>6 DEF PageNext
<1>2. QED
  BY <1>1, PTL DEF PageSpec, OverlayListens
(* The top-up page ------------------------------------------------------------ *)

\* A page that could send by a tap has an amount that is fresh: after a top-up
\* it is idle again only with an empty keypad or after an error.
Unsent == desk = "idle" /\ entered => fresh

TopUpInv == TopUpTypeOK /\ Unsent /\ RepeatIsReported

LEMMA TopUpInitial == TopUpInit => TopUpInv
<1> SUFFICES ASSUME TopUpInit PROVE TopUpInv
  OBVIOUS
<1>1. usb \in BOOLEAN
  BY Zenon DEF TopUpInit
<1>2. sends \in Seq(TopUp) /\ RepeatIsReported
  BY DEF TopUpInit, RepeatIsReported
<1>3. QED
  BY <1>1, <1>2 DEF TopUpInit, TopUpInv, TopUpTypeOK, Unsent

\* A card that is read, by either reader.
LEMMA SubmitKeeps ==
    ASSUME TopUpInv, SubmitTopup, entered' = entered
    PROVE  /\ sends' \in Seq(TopUp) /\ desk' \in {"idle", "scanning", "processing"}
           /\ fresh' \in BOOLEAN
           /\ Unsent' /\ RepeatIsReported'
<1>1. CASE desk = "idle" /\ entered
  <2>1. fresh = TRUE
    BY <1>1 DEF TopUpInv, TopUpTypeOK, Unsent
  <2> DEFINE new == [at |-> "sent", awaited |-> TRUE, fresh |-> fresh]
  <2>2. new \in TopUp /\ sends' = Append(sends, new) /\ desk' = "processing" /\ fresh' = FALSE
    BY <1>1, <2>1 DEF SubmitTopup, TopUp
  <2>3. sends' \in Seq(TopUp) /\ \A i \in DOMAIN sends' : sends'[i].fresh
    BY <2>1, <2>2 DEF TopUpInv, TopUpTypeOK, RepeatIsReported
  <2>4. QED
    BY <2>2, <2>3 DEF Unsent, RepeatIsReported
<1>2. CASE ~(desk = "idle" /\ entered)
  BY <1>2 DEF SubmitTopup, TopUpInv, TopUpTypeOK, Unsent, RepeatIsReported
<1>3. QED
  BY <1>1, <1>2

\* A top-up whose fate or awaiting changes.
LEMMA MarkedSends ==
    ASSUME TopUpInv, NEW i \in DOMAIN sends,
           NEW t \in TopUp, t.fresh = sends[i].fresh, sends' = [sends EXCEPT ![i] = t]
    PROVE  sends' \in Seq(TopUp) /\ RepeatIsReported'
<1>1. sends' \in Seq(TopUp)
  BY DEF TopUpInv, TopUpTypeOK
<1>2. DOMAIN sends' = DOMAIN sends
      /\ \A k \in DOMAIN sends : sends'[k] = IF k = i THEN t ELSE sends[k]
  BY DEF TopUpInv, TopUpTypeOK
<1>3. QED
  BY <1>1, <1>2 DEF TopUpInv, RepeatIsReported

LEMMA AnsweredSends ==
    ASSUME TopUpInv, NEW i, Awaited(i), Heard(i)
    PROVE  sends' \in Seq(TopUp) /\ RepeatIsReported'
<1> DEFINE t == [sends[i] EXCEPT !.awaited = FALSE]
<1>1. i \in DOMAIN sends /\ sends[i] \in TopUp
  BY DEF Awaited, TopUpInv, TopUpTypeOK
<1>2. t \in TopUp /\ t.fresh = sends[i].fresh
  BY <1>1 DEF TopUp
<1>3. sends' = [sends EXCEPT ![i] = t]
  BY DEF Heard
<1>4. QED
  BY <1>1, <1>2, <1>3, MarkedSends

LEMMA ReloadKeeps ==
    ASSUME TopUpInv, ReloadDesk
    PROVE  TopUpInv'
<1>1. /\ sends' \in Seq(TopUp) /\ DOMAIN sends' = DOMAIN sends
      /\ \A i \in DOMAIN sends : sends'[i].fresh = sends[i].fresh
  <2>1. sends \in Seq(TopUp) /\ \A i \in DOMAIN sends : sends[i] \in TopUp
    BY DEF TopUpInv, TopUpTypeOK
  <2>2. \A i \in DOMAIN sends :
          /\ [sends[i] EXCEPT !.awaited = FALSE] \in TopUp
          /\ [sends[i] EXCEPT !.awaited = FALSE].fresh = sends[i].fresh
    BY <2>1 DEF TopUp
  <2>3. sends' = [i \in DOMAIN sends |-> [sends[i] EXCEPT !.awaited = FALSE]]
    BY DEF ReloadDesk
  <2>4. DOMAIN sends = 1..Len(sends) /\ Len(sends) \in Nat
    BY <2>1
  <2>5. sends' \in [1..Len(sends) -> TopUp]
    BY <2>2, <2>3, <2>4
  <2>6. sends' \in Seq(TopUp)
    BY <2>4, <2>5
  <2>7. QED
    BY <2>2, <2>3, <2>6
<1>2. RepeatIsReported'
  BY <1>1 DEF TopUpInv, RepeatIsReported
<1>3. QED
  BY <1>1, <1>2 DEF ReloadDesk, TopUpInv, TopUpTypeOK, Unsent

LEMMA TopUpStep == TopUpInv /\ [TopUpNext]_topUpVars => TopUpInv'
<1> SUFFICES ASSUME TopUpInv, [TopUpNext]_topUpVars PROVE TopUpInv'
  OBVIOUS
<1> USE DEF TopUpInv, TopUpTypeOK, Unsent
<1>1. CASE HandleKeypad
  BY <1>1 DEF HandleKeypad, RepeatIsReported
<1>2. CASE PressTap
  BY <1>2 DEF PressTap, RepeatIsReported
<1>3. CASE ToggleWedgeMode
  BY <1>3 DEF ToggleWedgeMode, RepeatIsReported
<1>4. CASE HandleWedgeInput
  <2>1. SubmitTopup /\ entered' = entered /\ UNCHANGED <<web, usb, scanner>>
    BY <1>4 DEF HandleWedgeInput
  <2>2. QED
    BY <2>1, SubmitKeeps
<1>5. CASE ReloadDesk
  BY <1>5, ReloadKeeps
<1>6. CASE ScanBegins
  BY <1>6 DEF ScanBegins, RepeatIsReported
<1>7. CASE ScanRefused
  BY <1>7 DEF ScanRefused, Unlock, RepeatIsReported
<1>8. CASE ReadError
  BY <1>8 DEF ReadError, Unlock, RepeatIsReported
<1>9. CASE CardUnreadable
  BY <1>9 DEF CardUnreadable, Unlock, RepeatIsReported
<1>10. CASE CardTapped
  <2>1. SubmitTopup /\ entered' = entered /\ scanner' = "off" /\ UNCHANGED <<web, usb>>
    BY <1>10 DEF CardTapped
  <2>2. QED
    BY <2>1, SubmitKeeps
<1>11. ASSUME NEW i \in 1..MaxSends, NEW fate \in {"credited", "refused"}, ServeTopUp(i, fate)
       PROVE  TopUpInv'
  <2> DEFINE t == [sends[i] EXCEPT !.at = fate]
  <2>1. i \in DOMAIN sends /\ sends[i] \in TopUp
    BY <1>11 DEF ServeTopUp
  <2>2. t \in TopUp /\ t.fresh = sends[i].fresh
    BY <2>1 DEF TopUp
  <2>3. sends' = [sends EXCEPT ![i] = t] /\ UNCHANGED <<web, desk, entered, usb, scanner, fresh>>
    BY <1>11 DEF ServeTopUp
  <2>4. sends' \in Seq(TopUp) /\ RepeatIsReported'
    BY <2>1, <2>2, <2>3, MarkedSends
  <2>5. QED
    BY <2>3, <2>4
<1>12. ASSUME NEW i \in 1..MaxSends, Succeeded(i)
       PROVE  TopUpInv'
  <2>1. sends' \in Seq(TopUp) /\ RepeatIsReported'
    BY <1>12, AnsweredSends DEF Succeeded
  <2>2. QED
    BY <1>12, <2>1 DEF Succeeded, Heard
<1>13. ASSUME NEW i \in 1..MaxSends, Failed(i)
       PROVE  TopUpInv'
  <2>1. sends' \in Seq(TopUp) /\ RepeatIsReported'
    BY <1>13, AnsweredSends DEF Failed
  <2>2. QED
    BY <1>13, <2>1 DEF Failed, Heard, Unlock
<1>14. CASE UNCHANGED topUpVars
  BY <1>14 DEF topUpVars, RepeatIsReported
<1>15. QED
  BY <1>1, <1>2, <1>3, <1>4, <1>5, <1>6, <1>7, <1>8, <1>9, <1>10, <1>11, <1>12, <1>13, <1>14
     DEF TopUpNext

LEMMA TopUpInvariant == TopUpSpec => []TopUpInv
BY TopUpInitial, TopUpStep, PTL DEF TopUpSpec

\* The top-up page keeps its types, for any number of top-ups.
THEOREM TopUpTypeCorrect == TopUpSpec => []TopUpTypeOK
<1>1. TopUpInv => TopUpTypeOK
  BY DEF TopUpInv
<1>2. QED
  BY TopUpInvariant, <1>1, PTL

\* Whatever both readers, the operator, reloads and late answers do, a top-up is
\* sent for an amount keyed since the one before, or after an error.
THEOREM RepeatsReported == TopUpSpec => []RepeatIsReported
<1>1. TopUpInv => RepeatIsReported
  BY DEF TopUpInv
<1>2. QED
  BY TopUpInvariant, <1>1, PTL

(* All four side by side ----------------------------------------------------- *)

\* A step of one is a step of the whole in which the others rest, so whatever is
\* proved of one alone holds of it behind the front door.
THEOREM FrontDoorComposes ==
    FrontDoorSpec => LimiterSpec /\ SessionSpec /\ PageSpec /\ TopUpSpec
<1>1. FrontDoorInit => LimiterInit /\ SessionInit /\ PageInit /\ TopUpInit
  BY DEF FrontDoorInit
<1>2. [FrontDoorNext]_frontDoorVars =>
        /\ [LimiterNext]_limiterVars
        /\ [SessionNext]_sessionVars
        /\ [PageNext]_pageVars
        /\ [TopUpNext]_topUpVars
  BY Zenon DEF FrontDoorNext, frontDoorVars
<1>3. QED
  BY <1>1, <1>2, PTL DEF FrontDoorSpec, LimiterSpec, SessionSpec, PageSpec, TopUpSpec

\* The variables of all four keep their types however their steps interleave.
THEOREM FrontDoorTypeCorrect == FrontDoorSpec => []FrontDoorTypeOK
BY FrontDoorComposes, LimiterTypeCorrect, SessionTypeCorrect, PageTypeCorrect,
   TopUpTypeCorrect, PTL DEF FrontDoorTypeOK

=============================================================================
