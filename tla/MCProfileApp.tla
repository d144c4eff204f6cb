---------------------------- MODULE MCProfileApp ----------------------------
(* ProfileApp for TLC: two connections, two subscriptions one after the other. *)
EXTENDS ProfileApp

CONSTANTS c1, c2, p1, p2

MCConns == {c1, c2}
MCPubsubs == {p1, p2}
=============================================================================
