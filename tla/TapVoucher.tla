----------------------------- MODULE TapVoucher -----------------------------
(***************************************************************************)
(* What a tap of the card is worth to the callbacks that present it with   *)
(* an invoice, without counters, rows, payments or object calls: nothing   *)
(* is spent without a voucher, a caller draws at most one in its life, and *)
(* of those that show a tap in the period between two takings back of the  *)
(* taps, one alone draws a voucher for it in that period.  Who showed it   *)
(* earlier and is late to draw is not held to that.                        *)
(***************************************************************************)
EXTENDS Integers

CONSTANTS Callers, Taps

VARIABLES
    period,     \* how often the taps were taken back
    vouchers,   \* every voucher drawn: by whom, for which tap, shown and drawn when
    spent       \* those that moved the card's money

Voucher(c, t, q, p) == [by |-> c, tap |-> t, shown |-> q, drawn |-> p]

Draw(c, t, q) ==
    /\ \A v \in vouchers : v.by # c
    /\ q = period =>
          \A v \in vouchers : v.tap = t => ~(v.shown = period /\ v.drawn = period)
    /\ vouchers' = vouchers \cup {Voucher(c, t, q, period)}
    /\ UNCHANGED <<period, spent>>

Spend(v) ==
    /\ v \notin spent
    /\ spent' = spent \cup {v}
    /\ UNCHANGED <<period, vouchers>>

Renew ==
    /\ period' = period + 1
    /\ UNCHANGED <<vouchers, spent>>

Init == period = 0 /\ vouchers = {} /\ spent = {}

Next ==
    \/ \E c \in Callers, t \in Taps, q \in 0..period : Draw(c, t, q)
    \/ \E v \in vouchers : Spend(v)
    \/ Renew

Spec == Init /\ [][Next]_<<period, vouchers, spent>>

=============================================================================
