--------------------------- MODULE MCCardLifecycle ---------------------------
(***************************************************************************)
(* Instances of CardLifecycle for TLC.                                     *)
(***************************************************************************)
EXTENDS CardLifecycle, TLC

CONSTANTS j1, j2, fake, pay

KeyVersions == 1..MaxVersion
NoFiles == {}

\* The third key version is for histories of one kind each: orderly ones, and
\* overlapping ones in which nothing fails, no money moves and the chip does not
\* get past the first.  In overlapping ones money does not meet the second
\* version or a failure, and a backup meets neither money nor a second version
\* on the chip.
Small ==
    \/ /\ file = EmptyExport
       /\ \/ orderly
          \/ card.latest <= 2 /\ chip <= 2 /\ txns = << >>
          \/ card.latest <= 1 /\ chip <= 2 /\ faults = 0
          \/ chip <= 1 /\ faults = 0 /\ txns = << >>
    \/ card.latest <= 2 /\ chip = 1 /\ known = {1} /\ faults = 0 /\ txns = << >>

\* One backup is made, of a card in use or terminated, between two requests, and
\* restored at any time.  No lifecycle handler looks at the taps: claims are not
\* followed further.  In histories that are not orderly any more, a worker moves
\* the money as well.
Followed ==
    IF file' # file
    THEN /\ file = EmptyExport
         /\ orderly /\ Quiet /\ taps = NoTaps /\ txns = << >>
         /\ card.latest = 1 /\ card.state \in {"active", "terminated"} /\ config.exists
    ELSE \/ job' # job
         \/ UNCHANGED <<taps, last>> /\ orderly'
         \/ HandleImportState /\ file # EmptyExport

Symmetric == Permutations(Jobs)

=============================================================================
