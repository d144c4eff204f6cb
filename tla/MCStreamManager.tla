--------------------------- MODULE MCStreamManager ----------------------------
(* StreamManager for TLC: two symbols, one of them spelled in two ways. *)
EXTENDS StreamManager, TLC

CONSTANTS btc, eth, BTC, u1, u2, w1, w2

MCSymbols == {btc, eth}
MCSpellings == {btc, eth, BTC}
MCLower == btc :> btc @@ BTC :> btc @@ eth :> eth
MCUsers == {u1, u2}
MCWorkers == {w1, w2}
===============================================================================
