------------------------------ MODULE ChargePage ------------------------------
(***************************************************************************)
(* The charge page of the till (static/js/pos.js) with its Web NFC scanner *)
(* (createNfcScanner of static/js/nfc.js): the operator enters an amount,  *)
(* the page asks for a card, sends the charge and shows how it went.       *)
(*                                                                         *)
(* An action is an event handler of the page with the promise jobs that    *)
(* follow at once.  The overlay covers the page, so that under it the      *)
(* operator can only cancel.  An amount stands for the keypad's display or *)
(* the total of the cart; what the server does with a charge is in         *)
(* OperatorDesk.                                                           *)
(***************************************************************************)
EXTENDS Integers, Sequences

CONSTANTS
    Prices,         \* amounts an operator may enter
    MaxPosts        \* bound on the charges sent

ASSUME PageAssumption ==
    /\ Prices \subseteq Nat \ {0}
    /\ MaxPosts \in Nat

VARIABLES
    app,        \* appState
    mode,       \* posMode
    amount,     \* amountInput, or the total of the cart
    asked,      \* chargeAmount
    reader,     \* posScanner: its abort controller and whether it listens
    granted,    \* the browser lets the page use NFC without asking
    armed,      \* autoChargeTimer, or the permission query before it
    posts,      \* the charges sent, and what became of them at the server
    first,      \* no charge of this sale has been sent yet (history)
    pressed     \* the charge button was pressed since the last charge was sent (history)

pageVars == <<app, mode, amount, asked, reader, granted, armed, posts, first, pressed>>

Outcomes == {"success", "failed"}
AppStates == {"idle", "charging", "scanning", "processing"} \cup Outcomes
Fates == {"sent", "charged", "refused"}
Post == [amount : Prices, at : Fates, first : BOOLEAN, pressed : BOOLEAN]

Covered == app \in {"charging", "scanning", "processing"}
Last == posts[Len(posts)]

\* updateView: an idle page that shows an amount and need not ask for NFC will
\* charge by itself.
Show(next, a) ==
    /\ app' = next
    /\ amount' = a
    /\ armed' = (next = "idle" /\ a # 0 /\ granted)

NewSale == first' = TRUE /\ pressed' = FALSE

-----------------------------------------------------------------------------
(* The operator.                                                           *)

HandleKeypadInput(a) ==
    /\ mode = "free" /\ app = "idle"
    /\ Show(app, a)
    /\ UNCHANGED <<mode, asked, reader, granted, posts, first, pressed>>

\* Items are added, or all removed; also while the last outcome is shown.
EditCart(a) ==
    /\ mode = "menu" /\ ~Covered
    /\ a = 0 \/ a > amount
    /\ Show(app, a)
    /\ UNCHANGED <<mode, asked, reader, granted, posts, first, pressed>>

ToggleMode ==
    /\ ~Covered
    /\ mode' = IF mode = "free" THEN "menu" ELSE "free"
    /\ Show(app, 0)
    /\ UNCHANGED <<asked, reader, granted, posts, first, pressed>>

StartChargeFlow ==
    /\ amount # 0
    /\ asked' = amount
    /\ reader' = "starting"
    /\ Show("charging", amount)
    /\ UNCHANGED <<mode, granted, posts, first>>

PressCharge == ~Covered /\ StartChargeFlow /\ pressed' = TRUE

ResetSale ==
    /\ app \in Outcomes
    /\ asked' = 0
    /\ reader' = "off"
    /\ Show("idle", 0)
    /\ NewSale
    /\ UNCHANGED <<mode, granted, posts>>

\* A reader that is still starting settles the scan that startChargeFlow waits
\* for, which goes on as if it listened.
CancelCharge ==
    /\ app \in {"charging", "scanning"}
    /\ Show(IF reader = "starting" THEN "scanning" ELSE "idle", amount)
    /\ reader' = "off"
    /\ UNCHANGED <<mode, asked, granted, posts, first, pressed>>

\* A charge that was sent is not taken back; the mode is kept in the browser.
Reload ==
    /\ Show("idle", 0)
    /\ asked' = 0
    /\ reader' = "off"
    /\ NewSale
    /\ UNCHANGED <<mode, granted, posts>>

-----------------------------------------------------------------------------
(* Timer and reader.                                                       *)

AutoCharge ==
    /\ armed /\ app = "idle"
    /\ StartChargeFlow
    /\ UNCHANGED pressed

ScanStarts ==
    /\ reader = "starting"
    /\ reader' = "on"
    /\ granted' = TRUE
    /\ app' = "scanning"
    /\ UNCHANGED <<mode, amount, asked, armed, posts, first, pressed>>

\* No NFC, no permission, or another error.  The page, still charging, takes no
\* notice.
ScanFails ==
    /\ reader = "starting"
    /\ reader' = "off"
    /\ app' = "scanning"
    /\ UNCHANGED <<mode, amount, asked, granted, armed, posts, first, pressed>>

\* Mutant: the overlay stays up.
ReadingErrorKept ==
    /\ reader = "on"
    /\ reader' = "off"
    /\ UNCHANGED <<app, amount, armed, mode, asked, granted, posts, first, pressed>>

ReadingError ==
    /\ reader = "on"
    /\ reader' = "off"
    /\ Show("idle", amount)
    /\ UNCHANGED <<mode, asked, granted, posts, first, pressed>>

\* The card names no p and c.
TapUnreadable ==
    /\ reader = "on"
    /\ reader' = "off"
    /\ Show("failed", amount)
    /\ UNCHANGED <<mode, asked, granted, posts, first, pressed>>

\* directCharge sends the cart's total, or the amount the flow began with.
Tap ==
    /\ reader = "on"
    /\ Len(posts) < MaxPosts
    /\ reader' = "off"
    /\ posts' = Append(posts, [amount |-> IF mode = "menu" THEN amount ELSE asked,
                               at |-> "sent", first |-> first, pressed |-> pressed])
    /\ first' = FALSE
    /\ pressed' = FALSE
    /\ Show("processing", amount)
    /\ UNCHANGED <<mode, asked, granted>>

-----------------------------------------------------------------------------
(* The server, and its answer.                                             *)

Serve(i, fate) ==
    /\ i \in DOMAIN posts
    /\ posts[i].at = "sent"
    /\ posts' = [posts EXCEPT ![i].at = fate]
    /\ UNCHANGED <<app, mode, amount, asked, reader, granted, armed, first, pressed>>

\* Mutant: an answer is taken for an approval.
AnsweredAny ==
    /\ app = "processing" /\ Last.at # "sent"
    /\ Show("success", IF mode = "menu" THEN 0 ELSE amount)
    /\ UNCHANGED <<mode, asked, reader, granted, posts, first, pressed>>

\* An approved cart is emptied; an amount on the keypad stays.
Answered ==
    /\ app = "processing" /\ Last.at # "sent"
    /\ IF Last.at = "charged"
       THEN Show("success", IF mode = "menu" THEN 0 ELSE amount)
       ELSE Show("failed", amount)
    /\ UNCHANGED <<mode, asked, reader, granted, posts, first, pressed>>

\* Mutant: the page goes back to the sale.
AnswerLostIdle ==
    /\ app = "processing"
    /\ Show("idle", amount)
    /\ UNCHANGED <<mode, asked, reader, granted, posts, first, pressed>>

\* The fetch fails, whether the server has acted, will act or will not, or the
\* answer is not JSON.
AnswerLost ==
    /\ app = "processing"
    /\ Show("failed", amount)
    /\ UNCHANGED <<mode, asked, reader, granted, posts, first, pressed>>

-----------------------------------------------------------------------------

PageInit ==
    /\ app = "idle"
    /\ mode \in {"free", "menu"}
    /\ amount = 0 /\ asked = 0
    /\ reader = "off"
    /\ granted \in BOOLEAN
    /\ armed = FALSE
    /\ posts = << >>
    /\ first = TRUE /\ pressed = FALSE

PageNext ==
    \/ \E a \in Prices \cup {0} : HandleKeypadInput(a) \/ EditCart(a)
    \/ ToggleMode \/ PressCharge \/ ResetSale \/ CancelCharge \/ Reload
    \/ AutoCharge
    \/ ScanStarts \/ ScanFails \/ ReadingError \/ TapUnreadable \/ Tap
    \/ \E i \in 1..MaxPosts, fate \in {"charged", "refused"} : Serve(i, fate)
    \/ Answered \/ AnswerLost

PageSpec == PageInit /\ [][PageNext]_pageVars

-----------------------------------------------------------------------------
(* Properties.                                                             *)

\* The variables have their types.
PageTypeOK ==
    /\ app \in AppStates
    /\ mode \in {"free", "menu"}
    /\ {amount, asked} \subseteq Prices \cup {0}
    /\ reader \in {"off", "starting", "on"}
    /\ granted \in BOOLEAN
    /\ armed \in BOOLEAN
    /\ posts \in Seq(Post)
    /\ Len(posts) <= MaxPosts
    /\ first \in BOOLEAN
    /\ pressed \in BOOLEAN

\* The page never charges a sale twice by itself: with its timer, with cancelled
\* scans, reader errors and lost answers, a second charge between two sales is
\* sent only when the operator has pressed the charge button again.
SecondChargeIsPressed ==
    \A i \in DOMAIN posts : posts[i].first \/ posts[i].pressed

\* A payment shown as approved was taken by the server, and the amount is the one
\* that the overlay asked for, in either mode.
ApprovedIsCharged ==
    app = "success" => Last.at = "charged" /\ Last.amount = asked

\* While the overlay asks for a card, a reader that listens is not lost: only one
\* that is still starting (it fails, or is cancelled) leaves the overlay without
\* a reader.
Asking == app \in {"charging", "scanning"}
OverlayListens ==
    [][ Asking' /\ reader' = "off"
        => reader = "starting" \/ (Asking /\ reader = "off") ]_pageVars

=============================================================================
