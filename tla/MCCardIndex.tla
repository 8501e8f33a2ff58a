----------------------------- MODULE MCCardIndex -----------------------------
(* Small instances of CardIndex: no taps and no money. *)
EXTENDS CardIndex

\* A card that was backed up when it was active.
ActiveFile == [EmptyExport EXCEPT
    !.card = [exists |-> TRUE, state |-> "active", latest |-> 1, active |-> 1, balance |-> 0]]

OldFiles == {ActiveFile}
=============================================================================
