----------------------------- MODULE MCWsManager ------------------------------
(* WsManager for TLC: one user connects twice, another once. *)
EXTENDS WsManager, TLC

CONSTANTS u1, u2, c1, c2, c3, btc

MCUsers == {u1, u2}
MCConns == {c1, c2, c3}
MCUserOf == c1 :> u1 @@ c2 :> u1 @@ c3 :> u2
MCSymbols == {btc}
MCPortfolios == {{}, {btc}}
===============================================================================
