------------------------ MODULE MCSecondStatPipeline ------------------------
(* SecondStatPipeline for TLC: two symbols that compete for one place.      *)
EXTENDS SecondStatPipeline

CONSTANTS btc, eth

MCSymbols == {btc, eth}
=============================================================================
