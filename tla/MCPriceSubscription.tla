------------------------- MODULE MCPriceSubscription --------------------------
(* PriceSubscription for TLC: two users who share a symbol, one of whom     *)
(* connects again.                                                         *)
EXTENDS PriceSubscription, TLC

CONSTANTS u1, u2, c1, c2, c3, btc, w1

MCUsers == {u1, u2}
MCConns == {c1, c2, c3}
MCUserOf == c1 :> u1 @@ c2 :> u2 @@ c3 :> u1
MCSymbols == {btc}
MCPortfolios == {{btc}}
MCWorkers == {w1}
===============================================================================
