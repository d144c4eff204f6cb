------------------------ MODULE MCDailyStatPipeline ------------------------
(* DailyStatPipeline for TLC: a trade and two arrays of a ticker each, two    *)
(* workers and channels of one place; the second ticker may have no price.    *)
EXTENDS DailyStatPipeline

MCFeed == << [kind |-> "trade", tickers |-> <<>>],
             [kind |-> "array", tickers |-> <<1>>], [kind |-> "array", tickers |-> <<2>>] >>
MCCapacity == [c \in Channels |-> 1]
MCPriceless == {2}
===============================================================================
