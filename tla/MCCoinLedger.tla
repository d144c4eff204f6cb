---------------------------- MODULE MCCoinLedger ----------------------------
(* CoinLedger for TLC: two handlers, one user, one coin; a change is one in *)
(* the last place, or a third of it.                                       *)
EXTENDS CoinLedger

CONSTANTS h1, h2, alice

MCHandlers == {h1, h2}
MCUsers == {alice}
MCChanges == {-3, -1, 0, 1, 3}
=============================================================================
