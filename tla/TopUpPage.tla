------------------------------- MODULE TopUpPage -------------------------------
(***************************************************************************)
(* The top-up page of the desk (static/js/topup.js) with its Web NFC       *)
(* scanner (createNfcScanner of static/js/nfc.js) and its USB reader: the  *)
(* operator keys an amount, a card is read and the page sends the top-up.  *)
(*                                                                         *)
(* An action is an event handler of the page with the promise jobs that    *)
(* follow at once.  Of the amount only whether there is one matters.  The  *)
(* scanner may report at any time, also while an answer is awaited, and    *)
(* several answers may be awaited.  What the server does with a top-up is  *)
(* in OperatorDesk.                                                        *)
(***************************************************************************)
EXTENDS Integers, Sequences

CONSTANT MaxSends       \* bound on the top-ups sent

ASSUME TopUpAssumption == MaxSends \in Nat

VARIABLES
    web,        \* whether the browser has NFC and lets the page use it
    desk,       \* appState
    entered,    \* amountInput is not 0
    usb,        \* the USB reader's field is shown instead of the NFC button
    scanner,    \* nfcScanner: its abort controller and whether it listens
    sends,      \* the top-ups sent, and what became of them at the server
    fresh       \* since then an amount was keyed or something failed (history)

topUpVars == <<web, desk, entered, usb, scanner, sends, fresh>>

TopUp == [at : {"sent", "credited", "refused"}, awaited : BOOLEAN, fresh : BOOLEAN]

\* An error of a reader or of an answer leads back to the keypad.
Unlock == desk' = "idle" /\ fresh' = TRUE

\* submitTopup, called with what a card was read to hold: without an amount, or
\* while the page is not idle, nothing is sent.
SubmitTopup ==
    IF desk = "idle" /\ entered
    THEN /\ Len(sends) < MaxSends
         /\ sends' = Append(sends, [at |-> "sent", awaited |-> TRUE, fresh |-> fresh])
         /\ desk' = "processing"
         /\ fresh' = FALSE
    ELSE UNCHANGED <<sends, desk, fresh>>

-----------------------------------------------------------------------------
(* The operator.                                                           *)

HandleKeypad ==
    /\ desk = "idle"
    /\ entered' \in BOOLEAN
    /\ fresh' = TRUE
    /\ UNCHANGED <<web, desk, usb, scanner, sends>>

\* The button; a scan that is under way is aborted and begun again.
PressTap ==
    /\ desk = "idle" /\ entered /\ ~usb
    /\ scanner' = "starting"
    /\ UNCHANGED <<web, desk, entered, usb, sends, fresh>>

\* Only the way back stops the scanner; appState stays what it is.
ToggleWedgeMode ==
    /\ web # "none"
    /\ usb' = ~usb
    /\ scanner' = IF usb THEN "off" ELSE scanner
    /\ UNCHANGED <<web, desk, entered, sends, fresh>>

\* The USB reader has typed a card's address and Enter.
HandleWedgeInput ==
    /\ usb
    /\ SubmitTopup
    /\ UNCHANGED <<web, entered, usb, scanner>>

\* The page is loaded again: nobody awaits what was sent.  A browser that need
\* not ask starts the scanner, unless it answers after the load event.
ReloadDesk ==
    /\ desk' = "idle" /\ entered' = FALSE
    /\ usb' = (web = "none")
    /\ scanner' \in IF web = "granted" THEN {"off", "starting"} ELSE {"off"}
    /\ sends' = [i \in DOMAIN sends |-> [sends[i] EXCEPT !.awaited = FALSE]]
    /\ UNCHANGED <<web, fresh>>

-----------------------------------------------------------------------------
(* The scanner.                                                            *)

\* Whatever the page is doing, it now shows that it scans.
ScanBegins ==
    /\ scanner = "starting"
    /\ scanner' = "on"
    /\ desk' = "scanning"
    /\ web' = "granted"
    /\ UNCHANGED <<entered, usb, sends, fresh>>

ScanRefused ==
    /\ scanner = "starting"
    /\ scanner' = "off"
    /\ Unlock
    /\ UNCHANGED <<web, entered, usb, sends>>

\* The scanner goes on listening.
ReadError ==
    /\ scanner = "on"
    /\ Unlock
    /\ UNCHANGED <<web, entered, usb, scanner, sends>>

\* The card holds no address, or one without p and c.
CardUnreadable ==
    /\ scanner = "on"
    /\ scanner' = "off"
    /\ Unlock
    /\ UNCHANGED <<web, entered, usb, sends>>

CardTapped ==
    /\ scanner = "on"
    /\ scanner' = "off"
    /\ SubmitTopup
    /\ UNCHANGED <<web, entered, usb>>

-----------------------------------------------------------------------------
(* The server, and its answers.                                            *)

ServeTopUp(i, fate) ==
    /\ i \in DOMAIN sends /\ sends[i].at = "sent"
    /\ sends' = [sends EXCEPT ![i].at = fate]
    /\ UNCHANGED <<web, desk, entered, usb, scanner, fresh>>

Awaited(i) == i \in DOMAIN sends /\ sends[i].awaited

Heard(i) ==
    /\ sends' = [sends EXCEPT ![i].awaited = FALSE]
    /\ UNCHANGED <<web, usb, scanner>>

\* Mutant: the amount stays on the keypad.
SucceededKept(i) ==
    /\ Awaited(i) /\ sends[i].at = "credited"
    /\ desk' = "idle"
    /\ Heard(i)
    /\ UNCHANGED <<entered, fresh>>

\* The amount is cleared, also one that was keyed since.
Succeeded(i) ==
    /\ Awaited(i) /\ sends[i].at = "credited"
    /\ desk' = "idle" /\ entered' = FALSE
    /\ Heard(i)
    /\ UNCHANGED fresh

\* Refused, or the answer is lost, whatever the server did or will do.
Failed(i) ==
    /\ Awaited(i)
    /\ Unlock
    /\ Heard(i)
    /\ UNCHANGED entered

-----------------------------------------------------------------------------

TopUpInit ==
    /\ web \in {"none", "ask", "granted"}
    /\ desk = "idle" /\ entered = FALSE
    /\ usb = (web = "none")
    /\ scanner \in IF web = "granted" THEN {"off", "starting"} ELSE {"off"}
    /\ sends = << >>
    /\ fresh = FALSE

TopUpNext ==
    \/ HandleKeypad \/ PressTap \/ ToggleWedgeMode \/ HandleWedgeInput \/ ReloadDesk
    \/ ScanBegins \/ ScanRefused \/ ReadError \/ CardUnreadable \/ CardTapped
    \/ \E i \in 1..MaxSends :
          \/ \E fate \in {"credited", "refused"} : ServeTopUp(i, fate)
          \/ Succeeded(i) \/ Failed(i)

TopUpSpec == TopUpInit /\ [][TopUpNext]_topUpVars

-----------------------------------------------------------------------------
(* Properties.                                                             *)

\* The variables have their types.
TopUpTypeOK ==
    /\ web \in {"none", "ask", "granted"}
    /\ desk \in {"idle", "scanning", "processing"}
    /\ entered \in BOOLEAN
    /\ usb \in BOOLEAN
    /\ scanner \in {"off", "starting", "on"}
    /\ sends \in Seq(TopUp)
    /\ fresh \in BOOLEAN

\* The page never credits an amount twice by itself: however scans, switches of
\* the reader, reloads and late answers interleave, each top-up is sent for an
\* amount that was keyed since the one before, or after an error.
RepeatIsReported == \A i \in DOMAIN sends : sends[i].fresh

\* With an amount entered and no top-up in process, a card that is tapped on the
\* phone is topped up (step 5 and 6 of the operator's guide).  Violated: the scan
\* that reads the card has set appState to 'scanning', where submitTopup returns.
TapIsSent ==
    [][ CardTapped /\ entered /\ desk # "processing" => sends' # sends ]_topUpVars

=============================================================================
