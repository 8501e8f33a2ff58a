--------------------------- MODULE MCCardReplayDO ---------------------------
(***************************************************************************)
(* Instances of CardReplayDO for TLC.                                       *)
(***************************************************************************)
EXTENDS CardReplayDO

CONSTANTS i1, k1, fake, cln

Row(i, a, after, voided, voids) ==
    [id |-> i, counter |-> NoCounter, amount |-> a, after |-> after,
     voided |-> voided, voids |-> voids]

\* A file exported from another server: a top-up, a charge and its reversal,
\* so the restored AUTOINCREMENT sequence overtakes the local one.
ForeignFile ==
    [EmptyExport EXCEPT
        !.card = [exists |-> TRUE, state |-> "active", latest |-> MaxVersion,
                  active |-> 1, balance |-> 2],
        !.txns = << Row(1, 2, 2, FALSE, 0), Row(2, -1, 1, TRUE, 0),
                    Row(3, 1, 2, FALSE, 2) >>]

ForeignFiles == {ForeignFile}
LedgerAmounts == {-1, 0, 1, 2}

\* Money moves while the card has neither taps nor configuration, live or in its
\* backup, and these change while no money has moved: no handler reads both, and
\* the run explores the sum of their states in place of the product.
MoneyAlone ==
    /\ {config', file'.config} = {NoConfig}
    /\ {taps', file'.taps} = {NoTaps}
    /\ {last', file'.last} = {NoCounter}

ApartNext == DONext /\ (nextTxnId' = 1 \/ MoneyAlone)

ApartSpec == DOInit /\ [][ApartNext]_doVars

=============================================================================
