---------------------- MODULE AggregatorPipelinesProofs -----------------------
(***************************************************************************)
(* Theorems about the Aggregator's two pipelines, for any feed, any        *)
(* symbols, and any number of workers and capacities of the channels:      *)
(* first the way of trades to Redis, then that of mini tickers to Kafka.   *)
(***************************************************************************)
EXTENDS DailyStatPipeline, SecondStatPipeline, SequenceTheorems, TLAPS

-------------------------------------------------------------------------------
(* The way of trades to Redis.  What a goroutine is about to pass on is a  *)
(* price, and the worker offers only symbols that have one.                *)
StatInv ==
    /\ RunsUntilInterrupt
    /\ conv = "sending" => parsed \in Prices
    /\ writer = "publishing" => stat \in Prices
    /\ \A s \in todo : latest[s] > 0

LEMMA Caps == /\ MaxTrades \in Nat \ {0} /\ RawCap \in Nat \ {0}
              /\ TradeCap \in Nat \ {0} /\ OutCap \in Nat \ {0}
  BY CapAssumption

LEMMA StatInitially == StatInit => StatInv
<1> SUFFICES ASSUME StatInit PROVE StatInv
  OBVIOUS
<1>1. raw = <<>> /\ trades = <<>> /\ out = <<>>
  BY DEF StatInit
<1>2. /\ raw \in Seq(Prices \union {Nil}) /\ Len(raw) <= RawCap
      /\ trades \in Seq(Prices) /\ Len(trades) <= TradeCap
      /\ out \in Seq(Prices) /\ Len(out) <= OutCap
  BY <1>1, Caps, EmptySeq
<1>3. 0 \in 0..MaxTrades
  BY Caps
<1>4. StatTypeOK
  BY <1>2, <1>3 DEF StatInit, StatTypeOK
<1> QED
  BY <1>4 DEF StatInit, StatInv, RunsUntilInterrupt

(* A buffered channel keeps its type and its bound.                        *)
LEMMA TailKeeps ==
    ASSUME NEW S, NEW s \in Seq(S), s # <<>>
    PROVE  Head(s) \in S /\ Tail(s) \in Seq(S) /\ Len(Tail(s)) = Len(s) - 1 /\ Len(s) \in Nat
  OBVIOUS

LEMMA AppendKeeps ==
    ASSUME NEW S, NEW s \in Seq(S), NEW x \in S, NEW n \in Nat, Len(s) < n
    PROVE  Append(s, x) \in Seq(S) /\ Len(Append(s, x)) <= n
  OBVIOUS

(* The distributor and the interrupt. *)
LEMMA TradesKeep ==
    ASSUME StatInv, \/ \E s \in Symbols : DistributeTrade(s)
                    \/ TradesEnd
                    \/ StatInterrupt
    PROVE  StatInv'
<1> USE Caps
<1>1. StatTypeOK
  BY DEF StatInv, RunsUntilInterrupt
<1>2. ASSUME NEW s \in Symbols, DistributeTrade(s) PROVE StatInv'
  <2>1. traded' \in [Symbols -> 0..MaxTrades]
    <3>1. CASE traded[s] < MaxTrades /\ traded' = [traded EXCEPT ![s] = traded[s] + 1]
      <4>1. traded \in [Symbols -> 0..MaxTrades] /\ traded[s] + 1 \in 0..MaxTrades
        BY <1>1, <3>1 DEF StatTypeOK
      <4> QED
        BY <3>1, <4>1
    <3>2. CASE UNCHANGED traded
      BY <1>1, <3>2 DEF StatTypeOK
    <3> QED
      BY <1>2, <3>1, <3>2 DEF DistributeTrade
  <2>2. raw' \in Seq(Prices \union {Nil}) /\ Len(raw') <= RawCap
    <3>1. CASE traded[s] < MaxTrades /\ raw' = Append(raw, Price(s, traded[s] + 1))
      <4>1. Price(s, traded[s] + 1) \in Prices
        BY <1>1, <3>1 DEF StatTypeOK, Price, Prices
      <4> QED
        BY <1>1, <1>2, <3>1, <4>1, AppendKeeps DEF DistributeTrade, StatTypeOK
    <3>2. CASE raw' = Append(raw, Nil)
      BY <1>1, <1>2, <3>2, AppendKeeps DEF DistributeTrade, StatTypeOK
    <3> QED
      BY <1>2, <3>1, <3>2 DEF DistributeTrade
  <2> QED
    BY <1>2, <2>1, <2>2 DEF DistributeTrade, StatInv, RunsUntilInterrupt, StatTypeOK,
       convVars, recvVars, outVars, writerVars
<1>3. CASE TradesEnd
  BY <1>1, <1>3 DEF TradesEnd, StatInv, RunsUntilInterrupt, StatTypeOK,
     convVars, recvVars, outVars, writerVars
<1>4. CASE StatInterrupt
  BY <1>1, <1>4 DEF StatInterrupt, StatInv, RunsUntilInterrupt, StatTypeOK,
     rawVars, convVars, recvVars, outVars, writerVars
<1> QED
  BY <1>2, <1>3, <1>4

(* ConvertRawToSS leaves its loop only on the context or on a channel that *)
(* only the context closes.                                                *)
LEMMA ConverterKeeps ==
    ASSUME StatInv, TradeConverter
    PROVE  StatInv'
<1> USE Caps
<1>1. StatTypeOK
  BY DEF StatInv, RunsUntilInterrupt
<1>2. CASE ConvertTakes
  <2>1. Head(raw) \in Prices \union {Nil} /\ raw' \in Seq(Prices \union {Nil})
        /\ Len(raw') <= RawCap
    BY <1>1, <1>2, TailKeeps DEF ConvertTakes, StatTypeOK
  <2> QED
    BY <1>1, <1>2, <2>1 DEF ConvertTakes, StatInv, RunsUntilInterrupt, StatTypeOK,
       convVars, recvVars, outVars, writerVars
<1>3. CASE ConvertSends
  <2>1. trades' \in Seq(Prices) /\ Len(trades') <= TradeCap
    BY <1>1, <1>3, AppendKeeps DEF ConvertSends, StatTypeOK, StatInv
  <2> QED
    BY <1>1, <1>3, <2>1 DEF ConvertSends, StatInv, RunsUntilInterrupt, StatTypeOK,
       rawVars, recvVars, outVars, writerVars
<1>4. CASE ConvertSeesClosed \/ ConvertSeesCancel \/ ConvertWaited
  BY <1>1, <1>4 DEF ConvertSeesClosed, ConvertSeesCancel, ConvertWaited, ConvReturns,
     StatInv, RunsUntilInterrupt, StatTypeOK, rawVars, recvVars, outVars, writerVars
<1> QED
  BY <1>2, <1>3, <1>4 DEF TradeConverter

(* The worker offers into a channel that is open as long as it runs        *)
(* uninterrupted.                                                          *)
LEMMA ReceiverKeeps ==
    ASSUME StatInv, StatReceiver
    PROVE  StatInv'
<1> USE Caps
<1>1. StatTypeOK
  BY DEF StatInv, RunsUntilInterrupt
<1>2. CASE ReceiveTrade
  <2>1. Head(trades) \in Prices /\ trades' \in Seq(Prices) /\ Len(trades') <= TradeCap
    BY <1>1, <1>2, TailKeeps DEF ReceiveTrade, StatTypeOK
  <2>2. Head(trades).symbol \in Symbols /\ Head(trades).n \in 1..MaxTrades
    BY <2>1 DEF Prices
  <2>3. /\ latest' \in [Symbols -> 0..MaxTrades]
        /\ \A s \in Symbols : latest[s] > 0 => latest'[s] > 0
    BY <1>1, <1>2, <2>2 DEF ReceiveTrade, StatTypeOK
  <2> QED
    BY <1>1, <1>2, <2>1, <2>3 DEF ReceiveTrade, StatInv, RunsUntilInterrupt, StatTypeOK,
       rawVars, convVars, outVars, writerVars
<1>3. CASE ReceiveTick
  BY <1>1, <1>3 DEF ReceiveTick, StatInv, RunsUntilInterrupt, StatTypeOK,
     rawVars, convVars, outVars, writerVars
<1>4. ASSUME NEW s \in Symbols, Offer(s) PROVE StatInv'
  <2>1. out' \in Seq(Prices) /\ Len(out') <= OutCap
    <3>1. Price(s, latest[s]) \in Prices
      BY <1>1, <1>4 DEF Offer, StatInv, StatTypeOK, Price, Prices
    <3> QED
      BY <1>1, <1>4, <3>1, AppendKeeps DEF Offer, StatTypeOK
  <2> QED
    BY <1>1, <1>4, <2>1 DEF Offer, Offered, StatInv, RunsUntilInterrupt, StatTypeOK,
       rawVars, convVars, writerVars
<1>5. CASE OfferPanics \/ ReceiveSeesCancel
  BY <1>1, <1>5 DEF OfferPanics, ReceiveSeesCancel, StatInv, RunsUntilInterrupt, StatTypeOK,
     rawVars, convVars, outVars, writerVars
<1> QED
  BY <1>2, <1>3, <1>4, <1>5 DEF StatReceiver

LEMMA WriterKeeps ==
    ASSUME StatInv, Writer
    PROVE  StatInv'
<1> USE Caps
<1>1. StatTypeOK
  BY DEF StatInv, RunsUntilInterrupt
<1>2. CASE WriterTakes
  <2>1. Head(out) \in Prices /\ out' \in Seq(Prices) /\ Len(out') <= OutCap
    BY <1>1, <1>2, TailKeeps DEF WriterTakes, StatTypeOK
  <2> QED
    BY <1>1, <1>2, <2>1 DEF WriterTakes, StatInv, RunsUntilInterrupt, StatTypeOK,
       rawVars, convVars, recvVars
<1>3. ASSUME NEW s \in Symbols, Publish(s) PROVE StatInv'
  <2>1. told' \in [Symbols -> 0..MaxTrades]
    BY <1>1, <1>3 DEF Publish, StatInv, StatTypeOK, Prices
  <2> QED
    BY <1>1, <1>3, <2>1 DEF Publish, StatInv, RunsUntilInterrupt, StatTypeOK,
       rawVars, convVars, recvVars, outVars
<1>4. CASE Ping \/ PublishFails \/ WriterReturns
  BY <1>1, <1>4 DEF Ping, PublishFails, WriterReturns, StatInv, RunsUntilInterrupt, StatTypeOK,
     rawVars, convVars, recvVars, outVars
<1> QED
  BY <1>2, <1>3, <1>4 DEF Writer

LEMMA StatInvariance == StatSpec => []StatInv
<1>1. StatInv /\ [StatNext]_statVars => StatInv'
  <2> SUFFICES ASSUME StatInv, [StatNext]_statVars PROVE StatInv'
    OBVIOUS
  <2>1. CASE StatNext
    BY <2>1, TradesKeep, ConverterKeeps, ReceiverKeeps, WriterKeeps DEF StatNext
  <2>2. CASE UNCHANGED statVars
    BY <2>2 DEF statVars, StatInv, RunsUntilInterrupt, StatTypeOK
  <2> QED
    BY <2>1, <2>2
<1> QED
  BY <1>1, StatInitially, PTL DEF StatSpec

(* Until the interrupt no goroutine of the way of trades ends and no       *)
(* channel is closed, so that the worker's offer cannot panic              *)
(* (convertingAggTrade.go:35-38, 93).                                      *)
THEOREM RunsUntilInterrupted == StatSpec => []RunsUntilInterrupt
<1>1. StatInv => RunsUntilInterrupt
  BY DEF StatInv
<1> QED
  BY <1>1, StatInvariance, PTL

-------------------------------------------------------------------------------
(* The order of the prices of a symbol, from what Redis was told back to   *)
(* the last trade.  A price that a full channel or the context drops       *)
(* leaves the others in their order.                                       *)
IsOf(e, s) == e \in Prices /\ e.symbol = s
Nums(seq, s) == {seq[i].n : i \in {k \in DOMAIN seq : IsOf(seq[k], s)}}
Below(P, Q) == \A p \in P, q \in Q : p <= q
Rising(seq, s) ==
    \A i, j \in DOMAIN seq :
        i < j /\ IsOf(seq[i], s) /\ IsOf(seq[j], s) => seq[i].n <= seq[j].n

ToldInOrder(s) ==
    /\ Rising(out, s)
    /\ Below({told[s]}, Nums(<<stat>>, s) \cup Nums(out, s) \cup {latest[s]})
    /\ Below(Nums(<<stat>>, s), Nums(out, s) \cup {latest[s]})
    /\ Below(Nums(out, s), {latest[s]})

ComingInOrder(s) ==
    /\ Rising(trades, s) /\ Rising(raw, s)
    /\ Below({latest[s]}, Nums(trades, s) \cup Nums(<<parsed>>, s) \cup Nums(raw, s) \cup {traded[s]})
    /\ Below(Nums(trades, s), Nums(<<parsed>>, s) \cup Nums(raw, s) \cup {traded[s]})
    /\ Below(Nums(<<parsed>>, s), Nums(raw, s) \cup {traded[s]})
    /\ Below(Nums(raw, s), {traded[s]})

OrderInv == StatInv /\ \A s \in Symbols : ToldInOrder(s) /\ ComingInOrder(s)

(* The numbers of the prices of s in a sequence, and of a single price.    *)
LEMMA NumsAre ==
    ASSUME NEW s
    PROVE  /\ \A seq : Nums(seq, s) \subseteq Nat
           /\ \A e : /\ IsOf(e, s) => Nums(<<e>>, s) = {e.n}
                     /\ ~IsOf(e, s) => Nums(<<e>>, s) = {}
                     /\ \A z : z \in Nums(<<e>>, s) <=> IsOf(e, s) /\ z = e.n
           /\ Nums(<<>>, s) = {} /\ Rising(<<>>, s)
           /\ ~IsOf(Nil, s)
<1>1. \A e : IsOf(e, s) => e.n \in Nat
  BY Caps DEF IsOf, Prices
<1>2. \A e : DOMAIN <<e>> = {1} /\ <<e>>[1] = e
  OBVIOUS
<1>3. \A e, z : z \in Nums(<<e>>, s) <=> IsOf(e, s) /\ z = e.n
  BY <1>2 DEF Nums
<1>4. \A e : /\ IsOf(e, s) => Nums(<<e>>, s) = {e.n}
             /\ ~IsOf(e, s) => Nums(<<e>>, s) = {}
  BY <1>3
<1> QED
  BY <1>1, <1>3, <1>4, NilAssumption DEF Nums, Rising, IsOf

(* A sequence at its ends.                                                 *)
LEMMA AppendInOrder ==
    ASSUME NEW S, NEW seq \in Seq(S), NEW e, NEW s
    PROVE  /\ Nums(Append(seq, e), s) = Nums(seq, s) \cup Nums(<<e>>, s)
           /\ Rising(seq, s) /\ Below(Nums(seq, s), Nums(<<e>>, s)) => Rising(Append(seq, e), s)
<1> DEFINE t == Append(seq, e)
           n == Len(seq)
<1>1. /\ n \in Nat /\ DOMAIN seq = 1..n /\ DOMAIN t = 1..(n + 1)
      /\ \A i \in 1..n : t[i] = seq[i]
      /\ t[n + 1] = e
  OBVIOUS
<1>2. 1..(n + 1) = 1..n \cup {n + 1}
  BY <1>1
<1> HIDE DEF t, n
<1>3. Nums(t, s) = Nums(seq, s) \cup Nums(<<e>>, s)
  <2>1. \A z : z \in Nums(t, s) <=> \E i \in 1..(n + 1) : IsOf(t[i], s) /\ z = t[i].n
    BY <1>1 DEF Nums
  <2>2. \A z : z \in Nums(seq, s) <=> \E i \in 1..n : IsOf(seq[i], s) /\ z = seq[i].n
    BY <1>1 DEF Nums
  <2>3. \A z : z \in Nums(<<e>>, s) <=> IsOf(e, s) /\ z = e.n
    BY NumsAre
  <2>4. \A z : z \in Nums(t, s) <=> (z \in Nums(seq, s) \/ z \in Nums(<<e>>, s))
    <3> TAKE z
    <3>1. (\E i \in 1..(n + 1) : IsOf(t[i], s) /\ z = t[i].n)
          <=> (\E i \in 1..n : IsOf(t[i], s) /\ z = t[i].n) \/ (IsOf(t[n + 1], s) /\ z = t[n + 1].n)
      BY <1>2
    <3>2. (\E i \in 1..n : IsOf(t[i], s) /\ z = t[i].n) <=> (\E i \in 1..n : IsOf(seq[i], s) /\ z = seq[i].n)
      BY <1>1
    <3>3. t[n + 1] = e
      BY <1>1
    <3> QED
      BY <2>1, <2>2, <2>3, <3>1, <3>2, <3>3
  <2> QED
    BY <2>4
<1>4. ASSUME Rising(seq, s), Below(Nums(seq, s), Nums(<<e>>, s)) PROVE Rising(t, s)
  <2> SUFFICES ASSUME NEW i \in 1..(n + 1), NEW j \in 1..(n + 1), i < j, IsOf(t[i], s), IsOf(t[j], s)
               PROVE  t[i].n <= t[j].n
    BY <1>1 DEF Rising
  <2>1. i \in 1..n
    BY <1>1
  <2>2. CASE j \in 1..n
    BY <1>1, <1>4, <2>1, <2>2 DEF Rising
  <2>3. CASE j = n + 1
    <3>1. seq[i].n \in Nums(seq, s)
      BY <1>1, <2>1 DEF Nums
    <3>2. e.n \in Nums(<<e>>, s)
      BY <1>1, <2>3, NumsAre
    <3> QED
      BY <1>1, <1>4, <2>1, <2>3, <3>1, <3>2 DEF Below
  <2> QED
    BY <1>2, <2>2, <2>3
<1> QED
  BY <1>3, <1>4 DEF t

LEMMA TailInOrder ==
    ASSUME NEW S, NEW seq \in Seq(S), seq # <<>>, NEW s
    PROVE  /\ Nums(seq, s) = Nums(<<Head(seq)>>, s) \cup Nums(Tail(seq), s)
           /\ Rising(seq, s) => /\ Rising(Tail(seq), s)
                                /\ Below(Nums(<<Head(seq)>>, s), Nums(Tail(seq), s))
<1> DEFINE t == Tail(seq)
           n == Len(t)
           e == Head(seq)
<1>1. /\ n \in Nat /\ DOMAIN t = 1..n /\ DOMAIN seq = 1..(n + 1)
      /\ \A i \in 1..n : t[i] = seq[i + 1]
      /\ seq[1] = e
  OBVIOUS
<1>2. \A i \in 1..(n + 1) : i = 1 \/ (i - 1 \in 1..n /\ (i - 1) + 1 = i)
  BY <1>1
<1>3. 1 \in 1..(n + 1) /\ \A i \in 1..n : i + 1 \in 1..(n + 1) /\ 1 < i + 1
  BY <1>1
<1> HIDE DEF t, n, e
<1>4. Nums(seq, s) = Nums(<<e>>, s) \cup Nums(t, s)
  <2>1. \A z : z \in Nums(seq, s) <=> \E i \in 1..(n + 1) : IsOf(seq[i], s) /\ z = seq[i].n
    BY <1>1 DEF Nums
  <2>2. \A z : z \in Nums(t, s) <=> \E i \in 1..n : IsOf(t[i], s) /\ z = t[i].n
    BY <1>1 DEF Nums
  <2>3. \A z : z \in Nums(<<e>>, s) <=> IsOf(e, s) /\ z = e.n
    BY NumsAre
  <2>4. \A z \in Nums(seq, s) : z \in Nums(<<e>>, s) \cup Nums(t, s)
    <3> TAKE z \in Nums(seq, s)
    <3>1. PICK i \in 1..(n + 1) : IsOf(seq[i], s) /\ z = seq[i].n
      BY <2>1
    <3> QED
      BY <1>1, <1>2, <2>2, <2>3, <3>1
  <2>5. \A z \in Nums(<<e>>, s) \cup Nums(t, s) : z \in Nums(seq, s)
    <3>1. ASSUME NEW z \in Nums(<<e>>, s) PROVE z \in Nums(seq, s)
      <4>1. IsOf(seq[1], s) /\ z = seq[1].n
        BY <1>1, <2>3, <3>1
      <4> QED
        BY <1>3, <2>1, <4>1
    <3>2. ASSUME NEW z \in Nums(t, s) PROVE z \in Nums(seq, s)
      <4>1. PICK i \in 1..n : IsOf(t[i], s) /\ z = t[i].n
        BY <2>2, <3>2
      <4>2. t[i] = seq[i + 1] /\ i + 1 \in 1..(n + 1)
        BY <1>1, <1>3
      <4> QED
        BY <2>1, <4>1, <4>2
    <3> QED
      BY <3>1, <3>2
  <2> QED
    BY <2>4, <2>5
<1>5. ASSUME Rising(seq, s) PROVE Rising(t, s) /\ Below(Nums(<<e>>, s), Nums(t, s))
  <2>1. Rising(t, s)
    <3> SUFFICES ASSUME NEW i \in 1..n, NEW j \in 1..n, i < j, IsOf(t[i], s), IsOf(t[j], s)
                 PROVE  t[i].n <= t[j].n
      BY <1>1 DEF Rising
    <3>1. i + 1 \in DOMAIN seq /\ j + 1 \in DOMAIN seq /\ i + 1 < j + 1
      BY <1>1, <1>3
    <3>2. t[i] = seq[i + 1] /\ t[j] = seq[j + 1]
      BY <1>1
    <3> QED
      BY <1>5, <3>1, <3>2 DEF Rising
  <2>2. Below(Nums(<<e>>, s), Nums(t, s))
    <3> SUFFICES ASSUME IsOf(e, s), NEW i \in 1..n, IsOf(t[i], s)
                 PROVE  e.n <= t[i].n
      BY <1>1, NumsAre DEF Below, Nums
    <3>1. i + 1 \in DOMAIN seq /\ 1 \in DOMAIN seq /\ 1 < i + 1
      BY <1>1, <1>3
    <3> QED
      BY <1>1, <1>5, <3>1 DEF Rising
  <2> QED
    BY <2>1, <2>2
<1> QED
  BY <1>4, <1>5 DEF t, e

comingVars == <<raw, parsed, trades, latest, traded>>
toldVars == <<told, stat, out, latest>>

(* The types the lemmas below need.                                        *)
LEMMA OrderTypes ==
    ASSUME StatInv
    PROVE  /\ raw \in Seq(Prices \cup {Nil}) /\ trades \in Seq(Prices) /\ out \in Seq(Prices)
           /\ \A s \in Symbols : latest[s] \in Nat /\ traded[s] \in Nat /\ told[s] \in Nat
           /\ traded \in [Symbols -> 0..MaxTrades] /\ latest \in [Symbols -> 0..MaxTrades]
           /\ told \in [Symbols -> 0..MaxTrades]
           /\ conv = "sending" => parsed \in Prices
           /\ writer = "publishing" => stat \in Prices
           /\ \A s \in todo : s \in Symbols /\ latest[s] > 0
<1>1. StatTypeOK
  BY DEF StatInv, RunsUntilInterrupt
<1> QED
  BY <1>1, Caps DEF StatInv, StatTypeOK

(* The only price of s in <<Price(d, m)>>, and what was below an older one. *)
LEMMA PriceIs ==
    ASSUME NEW d, NEW m, NEW s, NEW n \in Nums(<<Price(d, m)>>, s)
    PROVE  s = d /\ n = m
<1>1. Price(d, m).symbol = d /\ Price(d, m).n = m
  BY DEF Price
<1>2. IsOf(Price(d, m), s) /\ n = Price(d, m).n
  BY NumsAre
<1> QED
  BY <1>1, <1>2 DEF IsOf

LEMMA BelowNewer ==
    ASSUME NEW P, P \subseteq Nat, NEW x \in Nat, NEW y \in Nat, Below(P, {x}), x <= y
    PROVE  Below(P, {y})
<1> SUFFICES ASSUME NEW p \in P PROVE p <= y
  BY DEF Below
<1>1. p <= x /\ p \in Nat
  BY DEF Below
<1> QED
  BY <1>1

(* The next trade is the newest.                                           *)
LEMMA TradeComesLast ==
    ASSUME OrderInv, NEW d \in Symbols, DistributeTrade(d), NEW s \in Symbols
    PROVE  ComingInOrder(s)'
<1>1. /\ raw \in Seq(Prices \cup {Nil}) /\ traded \in [Symbols -> 0..MaxTrades]
      /\ latest[s] \in Nat /\ traded[s] \in Nat /\ ComingInOrder(s)
  BY OrderTypes DEF OrderInv
<1>2. UNCHANGED <<parsed, trades, latest>>
  BY DEF DistributeTrade, convVars, recvVars
<1>3. PICK e : /\ raw' = Append(raw, e)
               /\ \/ e = Nil /\ UNCHANGED traded
                  \/ e = Price(d, traded[d] + 1) /\ traded' = [traded EXCEPT ![d] = @ + 1]
  BY DEF DistributeTrade
<1>4. /\ traded'[s] \in Nat /\ traded[s] <= traded'[s]
      /\ \A n \in Nums(<<e>>, s) : traded[s] <= n /\ n <= traded'[s]
  <2>1. CASE e = Nil /\ UNCHANGED traded
    <3>1. Nums(<<e>>, s) = {}
      BY <2>1, NumsAre
    <3> QED
      BY <1>1, <2>1, <3>1
  <2>2. CASE e = Price(d, traded[d] + 1) /\ traded' = [traded EXCEPT ![d] = @ + 1]
    <3>1. traded'[s] = IF s = d THEN traded[s] + 1 ELSE traded[s]
      BY <1>1, <2>2
    <3>2. \A n \in Nums(<<e>>, s) : s = d /\ n = traded[d] + 1
      BY <2>2, PriceIs
    <3> QED
      BY <1>1, <3>1, <3>2
  <2> QED
    BY <1>3, <2>1, <2>2
<1>5. Below(Nums(raw, s), Nums(<<e>>, s))
  <2>1. Nums(raw, s) \subseteq Nat /\ Nums(<<e>>, s) \subseteq Nat
    BY NumsAre
  <2>2. \A n \in Nums(raw, s) : n <= traded[s]
    BY <1>1 DEF ComingInOrder, Below
  <2> QED
    BY <1>1, <1>4, <2>1, <2>2 DEF Below
<1>6. Nums(raw, s)' = Nums(raw, s) \cup Nums(<<e>>, s) /\ Rising(raw, s)'
  BY <1>1, <1>3, <1>5, AppendInOrder DEF ComingInOrder
<1>7. /\ Nums(trades, s)' = Nums(trades, s) /\ Nums(<<parsed>>, s)' = Nums(<<parsed>>, s)
      /\ latest'[s] = latest[s] /\ Rising(trades, s)'
  BY <1>1, <1>2 DEF ComingInOrder
<1>8. /\ Nums(trades, s) \subseteq Nat /\ Nums(<<parsed>>, s) \subseteq Nat
      /\ Nums(raw, s) \subseteq Nat /\ Nums(<<e>>, s) \subseteq Nat
  BY NumsAre
<1> DEFINE Before == Nums(trades, s) \cup Nums(<<parsed>>, s) \cup Nums(raw, s) \cup {latest[s]}
<1>9. Before \subseteq Nat /\ Below(Before, {traded[s]})
  BY <1>1, <1>8 DEF ComingInOrder, Below
<1>10. Below(Before, {traded'[s]})
  BY <1>1, <1>4, <1>9, BelowNewer
<1>11. Below(Before, Nums(<<e>>, s))
  <2> SUFFICES ASSUME NEW b \in Before, NEW n \in Nums(<<e>>, s) PROVE b <= n
    BY DEF Below
  <2>1. b <= traded[s] /\ traded[s] <= n /\ b \in Nat /\ n \in Nat
    BY <1>4, <1>8, <1>9 DEF Below
  <2> QED
    BY <1>1, <2>1
<1>12. Below(Nums(<<e>>, s), {traded'[s]})
  BY <1>4 DEF Below
<1> QED
  BY <1>1, <1>6, <1>7, <1>10, <1>11, <1>12 DEF ComingInOrder, Below

(* ConvertRawToSS passes the oldest on, or drops it.                       *)
LEMMA ConverterInOrder ==
    ASSUME OrderInv, TradeConverter, NEW s \in Symbols
    PROVE  ComingInOrder(s)'
<1>1. /\ raw \in Seq(Prices \cup {Nil}) /\ trades \in Seq(Prices)
      /\ latest[s] \in Nat /\ traded[s] \in Nat /\ ComingInOrder(s)
  BY OrderTypes DEF OrderInv
<1>2. /\ Nums(trades, s) \subseteq Nat /\ Nums(<<parsed>>, s) \subseteq Nat /\ Nums(raw, s) \subseteq Nat
      /\ Nums(<<Nil>>, s) = {}
  BY NumsAre
<1>3. CASE ConvertTakes
  <2>1. /\ raw # <<>> /\ raw' = Tail(raw) /\ UNCHANGED <<trades, latest, traded>>
        /\ (parsed' = parsed /\ Head(raw) = Nil) \/ parsed' = Head(raw)
    BY <1>3 DEF ConvertTakes, convVars, recvVars
  <2>2. /\ Nums(raw, s) = Nums(<<Head(raw)>>, s) \cup Nums(raw, s)'
        /\ Rising(raw, s)' /\ Below(Nums(<<Head(raw)>>, s), Nums(raw, s)')
    BY <1>1, <2>1, TailInOrder DEF ComingInOrder
  <2>3. /\ Nums(trades, s)' = Nums(trades, s) /\ Rising(trades, s)'
        /\ latest'[s] = latest[s] /\ traded'[s] = traded[s]
    BY <1>1, <2>1 DEF ComingInOrder
  <2>4. Nums(<<parsed>>, s)' = Nums(<<parsed>>, s) \/ Nums(<<parsed>>, s)' = Nums(<<Head(raw)>>, s)
    BY <2>1
  <2> QED
    BY <1>1, <2>2, <2>3, <2>4 DEF ComingInOrder, Below
<1>4. CASE ConvertSends
  <2>1. trades' = Append(trades, parsed) /\ parsed' = Nil /\ UNCHANGED <<raw, latest, traded>>
    BY <1>4 DEF ConvertSends, rawVars, recvVars
  <2>2. Below(Nums(trades, s), Nums(<<parsed>>, s))
    BY <1>1 DEF ComingInOrder, Below
  <2>3. Nums(trades, s)' = Nums(trades, s) \cup Nums(<<parsed>>, s) /\ Rising(trades, s)'
    BY <1>1, <2>1, <2>2, AppendInOrder DEF ComingInOrder
  <2>4. /\ Nums(raw, s)' = Nums(raw, s) /\ Rising(raw, s)' /\ Nums(<<parsed>>, s)' = {}
        /\ latest'[s] = latest[s] /\ traded'[s] = traded[s]
    BY <1>1, <1>2, <2>1 DEF ComingInOrder
  <2> QED
    BY <1>1, <2>3, <2>4 DEF ComingInOrder, Below
<1>5. CASE ConvertSeesClosed \/ ConvertSeesCancel \/ ConvertWaited
  <2>1. parsed' = Nil /\ UNCHANGED <<raw, trades, latest, traded>>
    BY <1>5 DEF ConvertSeesClosed, ConvertSeesCancel, ConvertWaited, ConvReturns, rawVars, recvVars
  <2>2. /\ Nums(raw, s)' = Nums(raw, s) /\ Rising(raw, s)' /\ Nums(<<parsed>>, s)' = {}
        /\ Nums(trades, s)' = Nums(trades, s) /\ Rising(trades, s)'
        /\ latest'[s] = latest[s] /\ traded'[s] = traded[s]
    BY <1>1, <1>2, <2>1 DEF ComingInOrder
  <2> QED
    BY <1>1, <2>2 DEF ComingInOrder, Below
<1> QED
  BY <1>3, <1>4, <1>5 DEF TradeConverter

(* The worker takes the oldest, which is newer than what it had.           *)
LEMMA LatestIsNewer ==
    ASSUME OrderInv, ReceiveTrade, NEW s \in Symbols
    PROVE  ComingInOrder(s)' /\ ToldInOrder(s)'
<1>1. /\ trades \in Seq(Prices) /\ latest \in [Symbols -> 0..MaxTrades]
      /\ latest[s] \in Nat /\ traded[s] \in Nat /\ told[s] \in Nat
      /\ ComingInOrder(s) /\ ToldInOrder(s)
  BY OrderTypes DEF OrderInv
<1>2. /\ trades # <<>> /\ trades' = Tail(trades)
      /\ latest' = [latest EXCEPT ![Head(trades).symbol] = Head(trades).n]
      /\ UNCHANGED <<raw, parsed, traded, told, stat, out>>
  BY DEF ReceiveTrade, rawVars, convVars, outVars, writerVars
<1>3. /\ Nums(trades, s) = Nums(<<Head(trades)>>, s) \cup Nums(trades, s)'
      /\ Rising(trades, s)' /\ Below(Nums(<<Head(trades)>>, s), Nums(trades, s)')
  BY <1>1, <1>2, TailInOrder DEF ComingInOrder
<1>4. \/ latest'[s] = latest[s]
      \/ latest'[s] \in Nums(<<Head(trades)>>, s)
  <2>1. Head(trades) \in Prices
    BY <1>1, <1>2
  <2>2. CASE Head(trades).symbol = s
    <3>1. latest'[s] = Head(trades).n
      BY <1>1, <1>2, <2>2
    <3> QED
      BY <2>1, <2>2, <3>1, NumsAre DEF IsOf
  <2>3. CASE Head(trades).symbol # s
    BY <1>1, <1>2, <2>3
  <2> QED
    BY <2>2, <2>3
<1>5. /\ Nums(<<Head(trades)>>, s) \subseteq Nat /\ Nums(out, s) \subseteq Nat
      /\ Nums(<<stat>>, s) \subseteq Nat
  BY NumsAre
<1>6. latest'[s] \in Nat /\ latest[s] <= latest'[s]
  BY <1>1, <1>3, <1>4, <1>5 DEF ComingInOrder, Below
<1>7. /\ Nums(raw, s)' = Nums(raw, s) /\ Nums(<<parsed>>, s)' = Nums(<<parsed>>, s)
      /\ Rising(raw, s)' /\ traded'[s] = traded[s]
  BY <1>1, <1>2 DEF ComingInOrder
<1>8. /\ Nums(out, s)' = Nums(out, s) /\ Nums(<<stat>>, s)' = Nums(<<stat>>, s)
      /\ Rising(out, s)' /\ told'[s] = told[s]
  BY <1>1, <1>2 DEF ToldInOrder
<1>9. ComingInOrder(s)'
  BY <1>1, <1>3, <1>4, <1>7 DEF ComingInOrder, Below
<1>10. ToldInOrder(s)'
  <2> DEFINE Before == {told[s]} \cup Nums(<<stat>>, s) \cup Nums(out, s)
  <2>1. Before \subseteq Nat /\ Below(Before, {latest[s]})
    BY <1>1, <1>5 DEF ToldInOrder, Below
  <2>2. Below(Before, {latest'[s]})
    BY <1>1, <1>6, <2>1, BelowNewer
  <2> QED
    BY <1>1, <1>8, <2>2 DEF ToldInOrder, Below
<1> QED
  BY <1>9, <1>10

(* What is offered is the latest, or nothing where the channel is full.    *)
LEMMA OfferInOrder ==
    ASSUME OrderInv, NEW d \in Symbols, Offer(d), NEW s \in Symbols
    PROVE  ToldInOrder(s)'
<1>1. out \in Seq(Prices) /\ latest[s] \in Nat /\ told[s] \in Nat /\ ToldInOrder(s)
  BY OrderTypes DEF OrderInv
<1>2. /\ UNCHANGED <<told, stat, latest>>
      /\ out' = out \/ out' = Append(out, Price(d, latest[d]))
  BY DEF Offer, writerVars
<1>3. \A n \in Nums(<<Price(d, latest[d])>>, s) : n = latest[s]
  BY PriceIs
<1>4. Below(Nums(out, s), Nums(<<Price(d, latest[d])>>, s))
  BY <1>1, <1>3 DEF ToldInOrder, Below
<1>5. /\ Nums(out, s)' = Nums(out, s) \/ Nums(out, s)' = Nums(out, s) \cup Nums(<<Price(d, latest[d])>>, s)
      /\ Rising(out, s)'
  BY <1>1, <1>2, <1>4, AppendInOrder DEF ToldInOrder
<1>6. Nums(<<stat>>, s)' = Nums(<<stat>>, s) /\ told'[s] = told[s] /\ latest'[s] = latest[s]
  BY <1>2
<1> QED
  BY <1>1, <1>3, <1>4, <1>5, <1>6 DEF ToldInOrder, Below

(* The writer tells Redis the oldest that was offered, or fails to.        *)
LEMMA WriterInOrder ==
    ASSUME OrderInv, Writer, NEW s \in Symbols
    PROVE  ToldInOrder(s)' /\ told[s] <= told'[s]
<1>1. /\ out \in Seq(Prices) /\ latest[s] \in Nat /\ told[s] \in Nat /\ ToldInOrder(s)
      /\ told \in [Symbols -> 0..MaxTrades]
      /\ writer = "publishing" => stat \in Prices
  BY OrderTypes DEF OrderInv
<1>2. Nums(<<Nil>>, s) = {} /\ Nums(<<stat>>, s) \subseteq Nat /\ Nums(out, s) \subseteq Nat
  BY NumsAre
<1>3. CASE WriterTakes
  <2>1. /\ out # <<>> /\ out' = Tail(out) /\ stat' = Head(out)
        /\ UNCHANGED <<told, latest>>
    BY <1>3 DEF WriterTakes, recvVars
  <2>2. /\ Nums(out, s) = Nums(<<stat>>, s)' \cup Nums(out, s)'
        /\ Rising(out, s)' /\ Below(Nums(<<stat>>, s)', Nums(out, s)')
    BY <1>1, <2>1, TailInOrder DEF ToldInOrder
  <2>3. told'[s] = told[s] /\ latest'[s] = latest[s]
    BY <2>1
  <2> QED
    BY <1>1, <2>2, <2>3 DEF ToldInOrder, Below
<1>4. ASSUME NEW d \in Symbols, Publish(d) PROVE ToldInOrder(s)' /\ told[s] <= told'[s]
  <2>1. /\ writer = "publishing" /\ stat.symbol = d /\ told' = [told EXCEPT ![d] = stat.n] /\ stat' = Nil
        /\ UNCHANGED <<out, latest>>
    BY <1>4 DEF Publish, recvVars, outVars
  <2>2. told'[s] = told[s] \/ told'[s] \in Nums(<<stat>>, s)
    <3>1. CASE s = d
      BY <1>1, <2>1, <3>1, NumsAre DEF IsOf
    <3>2. CASE s # d
      BY <1>1, <2>1, <3>2
    <3> QED
      BY <3>1, <3>2
  <2>3. /\ Nums(out, s)' = Nums(out, s) /\ Rising(out, s)' /\ Nums(<<stat>>, s)' = {}
        /\ latest'[s] = latest[s]
    BY <1>1, <1>2, <2>1 DEF ToldInOrder
  <2> QED
    BY <1>1, <1>2, <2>2, <2>3 DEF ToldInOrder, Below
<1>5. CASE Ping \/ PublishFails \/ WriterReturns
  <2>1. UNCHANGED <<told, out, latest>> /\ stat' \in {stat, Nil}
    BY <1>5 DEF Ping, PublishFails, WriterReturns, recvVars, outVars
  <2>2. /\ Nums(out, s)' = Nums(out, s) /\ Rising(out, s)'
        /\ Nums(<<stat>>, s)' = Nums(<<stat>>, s) \/ Nums(<<stat>>, s)' = {}
        /\ latest'[s] = latest[s] /\ told'[s] = told[s]
    BY <1>1, <1>2, <2>1 DEF ToldInOrder
  <2> QED
    BY <1>1, <2>2 DEF ToldInOrder, Below
<1> QED
  BY <1>3, <1>4, <1>5 DEF Writer

(* What the other goroutines leave alone.                                  *)
LEMMA OthersInOrder ==
    ASSUME OrderInv, NEW s \in Symbols
    PROVE  /\ UNCHANGED comingVars => ComingInOrder(s)'
           /\ UNCHANGED toldVars => ToldInOrder(s)'
<1>1. ComingInOrder(s) /\ ToldInOrder(s)
  BY DEF OrderInv
<1>2. ASSUME UNCHANGED comingVars PROVE ComingInOrder(s)'
  <2>1. UNCHANGED <<raw, parsed, trades, latest, traded>>
    BY <1>2 DEF comingVars
  <2> QED
    BY <1>1, <2>1 DEF ComingInOrder
<1>3. ASSUME UNCHANGED toldVars PROVE ToldInOrder(s)'
  <2>1. UNCHANGED <<told, stat, out, latest>>
    BY <1>3 DEF toldVars
  <2> QED
    BY <1>1, <2>1 DEF ToldInOrder
<1> QED
  BY <1>2, <1>3

(* No step breaks the order, and none tells Redis an older price.          *)
LEMMA StepInOrder ==
    ASSUME OrderInv, [StatNext]_statVars, NEW s \in Symbols
    PROVE  ComingInOrder(s)' /\ ToldInOrder(s)' /\ told[s] <= told'[s]
<1>1. told[s] \in Nat /\ (UNCHANGED told => told[s] <= told'[s])
  BY OrderTypes DEF OrderInv
<1>2. ASSUME NEW d \in Symbols, DistributeTrade(d)
      PROVE  ComingInOrder(s)' /\ ToldInOrder(s)' /\ told[s] <= told'[s]
  <2>1. UNCHANGED toldVars /\ UNCHANGED told
    BY <1>2 DEF DistributeTrade, toldVars, recvVars, outVars, writerVars
  <2> QED
    BY <1>1, <1>2, <2>1, TradeComesLast, OthersInOrder
<1>3. CASE TradesEnd \/ StatInterrupt \/ UNCHANGED statVars
  <2>1. UNCHANGED toldVars /\ UNCHANGED told /\ UNCHANGED comingVars
    BY <1>3 DEF TradesEnd, StatInterrupt, statVars, toldVars, comingVars, rawVars, convVars,
       recvVars, outVars, writerVars
  <2> QED
    BY <1>1, <2>1, OthersInOrder
<1>4. CASE TradeConverter
  <2>1. UNCHANGED toldVars /\ UNCHANGED told
    BY <1>4 DEF TradeConverter, ConvertTakes, ConvertSends, ConvertSeesClosed, ConvertSeesCancel,
       ConvertWaited, ConvReturns, toldVars, recvVars, outVars, writerVars
  <2> QED
    BY <1>1, <1>4, <2>1, ConverterInOrder, OthersInOrder
<1>5. CASE ReceiveTrade
  <2>1. UNCHANGED told
    BY <1>5 DEF ReceiveTrade
  <2> QED
    BY <1>1, <1>5, <2>1, LatestIsNewer
<1>6. ASSUME NEW d \in Symbols, Offer(d)
      PROVE  ComingInOrder(s)' /\ ToldInOrder(s)' /\ told[s] <= told'[s]
  <2>1. UNCHANGED comingVars /\ UNCHANGED told
    BY <1>6 DEF Offer, comingVars, rawVars, convVars
  <2> QED
    BY <1>1, <1>6, <2>1, OfferInOrder, OthersInOrder
<1>7. CASE ReceiveTick \/ OfferPanics \/ ReceiveSeesCancel
  <2>1. UNCHANGED toldVars /\ UNCHANGED told /\ UNCHANGED comingVars
    BY <1>7 DEF ReceiveTick, OfferPanics, ReceiveSeesCancel, toldVars, comingVars, rawVars,
       convVars, outVars, writerVars
  <2> QED
    BY <1>1, <2>1, OthersInOrder
<1>8. CASE Writer
  <2>1. UNCHANGED comingVars
    BY <1>8 DEF Writer, Ping, WriterTakes, Publish, PublishFails, WriterReturns, comingVars,
       rawVars, convVars, recvVars
  <2> QED
    BY <1>8, <2>1, WriterInOrder, OthersInOrder
<1> QED
  BY <1>2, <1>3, <1>4, <1>5, <1>6, <1>7, <1>8 DEF StatNext, StatReceiver

LEMMA OrderInitially == StatInit => OrderInv
<1> SUFFICES ASSUME StatInit PROVE OrderInv
  OBVIOUS
<1>1. ASSUME NEW s \in Symbols PROVE ToldInOrder(s) /\ ComingInOrder(s)
  <2>1. /\ raw = <<>> /\ trades = <<>> /\ out = <<>> /\ parsed = Nil /\ stat = Nil
        /\ told[s] = 0 /\ latest[s] = 0 /\ traded[s] = 0
    BY DEF StatInit
  <2>2. Nums(<<>>, s) = {} /\ Rising(<<>>, s) /\ Nums(<<Nil>>, s) = {}
    BY NumsAre
  <2> QED
    BY <2>1, <2>2 DEF ToldInOrder, ComingInOrder, Below
<1> QED
  BY <1>1, StatInitially DEF OrderInv

(* Redis is never told an older price of a symbol after a newer one,       *)
(* whatever a full channel dropped, Redis refused or an interrupt took     *)
(* away (convertingAggTrade.go:75-97, writer.go:35-56).                    *)
THEOREM PricesGoForward == StatSpec => [][\A s \in Symbols : told[s] <= told'[s]]_statVars
<1>1. OrderInv /\ StatInv' /\ [StatNext]_statVars => OrderInv'
  BY StepInOrder DEF OrderInv
<1>2. OrderInv /\ [StatNext]_statVars => [\A s \in Symbols : told[s] <= told'[s]]_statVars
  BY StepInOrder
<1> QED
  BY <1>1, <1>2, OrderInitially, StatInvariance, PTL DEF StatSpec

-------------------------------------------------------------------------------
(* The way of the mini tickers to Kafka.  First, what a sequence of        *)
(* messages or of tickers gains and loses at its ends: the tickers of it,  *)
(* and that it has none twice.                                             *)

LEMMA AppendArrays ==
    ASSUME NEW S, NEW s \in Seq(S), NEW e \in S
    PROVE  /\ Of(Arrays(Append(s, e))) = Of(Arrays(s)) \cup Range(e.tickers)
           /\ /\ Once(Arrays(s)) /\ Once(<<e.tickers>>)
              /\ Of(Arrays(s)) \cap Range(e.tickers) = {}
              => Once(Arrays(Append(s, e)))
<1> DEFINE t == Append(s, e)
           n == Len(s)
<1>1. /\ n \in Nat /\ DOMAIN s = 1..n /\ DOMAIN t = 1..(n + 1)
      /\ \A i \in 1..n : t[i] = s[i]
      /\ t[n + 1] = e
  OBVIOUS
<1>2. /\ DOMAIN Arrays(t) = 1..(n + 1) /\ DOMAIN Arrays(s) = 1..n
      /\ \A i \in 1..n : Arrays(t)[i] = Arrays(s)[i]
      /\ Arrays(t)[n + 1] = e.tickers
  BY <1>1 DEF Arrays
<1> HIDE DEF t, n
<1>3. Of(Arrays(t)) = Of(Arrays(s)) \cup Range(e.tickers)
  <2>1. 1..(n + 1) = 1..n \cup {n + 1}
    BY <1>1
  <2>2. \A z : z \in Of(Arrays(t)) <=> \E i \in 1..(n + 1) : z \in Range(Arrays(t)[i])
    BY <1>2 DEF Of
  <2>3. \A z : z \in Of(Arrays(s)) <=> \E i \in 1..n : z \in Range(Arrays(s)[i])
    BY <1>2 DEF Of
  <2> QED
    BY <1>2, <2>1, <2>2, <2>3
<1>4. ASSUME Once(Arrays(s)), Once(<<e.tickers>>), Of(Arrays(s)) \cap Range(e.tickers) = {}
      PROVE  Once(Arrays(t))
  <2> SUFFICES ASSUME NEW i \in 1..(n + 1), NEW k \in 1..(n + 1),
                      NEW j \in DOMAIN Arrays(t)[i], NEW l \in DOMAIN Arrays(t)[k],
                      Arrays(t)[i][j] = Arrays(t)[k][l]
               PROVE  i = k /\ j = l
    BY <1>2 DEF Once
  <2>0. \A a \in 1..n : Range(Arrays(s)[a]) \subseteq Of(Arrays(s))
    BY <1>2 DEF Of
  <2>1. CASE i \in 1..n /\ k \in 1..n
    BY <1>2, <1>4, <2>1 DEF Once
  <2>2. CASE i = n + 1 /\ k = n + 1
    <3>1. \A a, b \in DOMAIN e.tickers : e.tickers[a] = e.tickers[b] => a = b
      BY <1>4 DEF Once
    <3> QED
      BY <1>2, <2>2, <3>1
  <2>3. CASE i \in 1..n /\ k = n + 1
    BY <1>2, <1>4, <2>0, <2>3 DEF Range
  <2>4. CASE i = n + 1 /\ k \in 1..n
    BY <1>2, <1>4, <2>0, <2>4 DEF Range
  <2> QED
    BY <1>1, <2>1, <2>2, <2>3, <2>4
<1> QED
  BY <1>3, <1>4 DEF t

LEMMA AppendTickers ==
    ASSUME NEW S, NEW s \in Seq(S), NEW e \in S
    PROVE  /\ Of(<<Append(s, e)>>) = Of(<<s>>) \cup {e}
           /\ Once(<<s>>) /\ e \notin Of(<<s>>) => Once(<<Append(s, e)>>)
<1> DEFINE t == Append(s, e)
           n == Len(s)
<1>1. /\ n \in Nat /\ DOMAIN s = 1..n /\ DOMAIN t = 1..(n + 1)
      /\ \A i \in 1..n : t[i] = s[i]
      /\ t[n + 1] = e
  OBVIOUS
<1> HIDE DEF t, n
<1>2. \A q : Of(<<q>>) = Range(q)
  BY DEF Of
<1>3. \A q : Once(<<q>>) <=> \A j, l \in DOMAIN q : q[j] = q[l] => j = l
  BY DEF Once
<1>4. Range(t) = Range(s) \cup {e}
  BY <1>1 DEF Range
<1>5. ASSUME Once(<<s>>), e \notin Range(s) PROVE Once(<<t>>)
  BY <1>1, <1>3, <1>5 DEF Range
<1> QED
  BY <1>2, <1>4, <1>5 DEF t

LEMMA TailArrays ==
    ASSUME NEW S, NEW s \in Seq(S), s # <<>>, Once(Arrays(s))
    PROVE  /\ Of(Arrays(s)) = Of(Arrays(Tail(s))) \cup Range(Head(s).tickers)
           /\ Of(Arrays(Tail(s))) \cap Range(Head(s).tickers) = {}
           /\ Once(Arrays(Tail(s))) /\ Once(<<Head(s).tickers>>)
<1> DEFINE t == Tail(s)
           e == Head(s)
           n == Len(t)
<1>1. /\ n \in Nat /\ DOMAIN t = 1..n /\ DOMAIN s = 1..(n + 1)
      /\ \A i \in 1..n : t[i] = s[i + 1]
      /\ s[1] = e
  OBVIOUS
<1>2. /\ DOMAIN Arrays(s) = 1..(n + 1) /\ DOMAIN Arrays(t) = 1..n
      /\ \A i \in 1..n : Arrays(t)[i] = Arrays(s)[i + 1]
      /\ Arrays(s)[1] = e.tickers
  BY <1>1 DEF Arrays
<1> HIDE DEF t, n, e
<1>3. \A z : z \in Of(Arrays(s)) <=> \E i \in 1..(n + 1) : z \in Range(Arrays(s)[i])
  BY <1>2 DEF Of
<1>4. \A z : z \in Of(Arrays(t)) <=> \E i \in 1..n : z \in Range(Arrays(t)[i])
  BY <1>2 DEF Of
<1>5. \A i \in 1..(n + 1) : i = 1 \/ (i - 1 \in 1..n /\ (i - 1) + 1 = i)
  BY <1>1
<1>6. Of(Arrays(s)) = Of(Arrays(t)) \cup Range(e.tickers)
  <2>1. \A z \in Of(Arrays(s)) : z \in Of(Arrays(t)) \cup Range(e.tickers)
    BY <1>2, <1>3, <1>4, <1>5
  <2>2. \A z \in Of(Arrays(t)) : z \in Of(Arrays(s))
    BY <1>1, <1>2, <1>3, <1>4
  <2>3. \A z \in Range(e.tickers) : z \in Of(Arrays(s))
    BY <1>1, <1>2, <1>3
  <2> QED
    BY <2>1, <2>2, <2>3
<1>7. Once(Arrays(t))
  <2> SUFFICES ASSUME NEW i \in 1..n, NEW k \in 1..n,
                      NEW j \in DOMAIN Arrays(t)[i], NEW l \in DOMAIN Arrays(t)[k],
                      Arrays(t)[i][j] = Arrays(t)[k][l]
               PROVE  i = k /\ j = l
    BY <1>2 DEF Once
  <2>1. Arrays(t)[i] = Arrays(s)[i + 1] /\ Arrays(t)[k] = Arrays(s)[k + 1]
    BY <1>2
  <2>2. i + 1 \in DOMAIN Arrays(s) /\ k + 1 \in DOMAIN Arrays(s)
    BY <1>1, <1>2
  <2>3. i + 1 = k + 1 /\ j = l
    BY <2>1, <2>2 DEF Once
  <2> QED
    BY <2>3
<1>8. Once(<<e.tickers>>)
  <2>1. \A j, l \in DOMAIN e.tickers : e.tickers[j] = e.tickers[l] => j = l
    BY <1>1, <1>2 DEF Once
  <2> QED
    BY <2>1 DEF Once
<1>9. Of(Arrays(t)) \cap Range(e.tickers) = {}
  <2> SUFFICES ASSUME NEW z \in Of(Arrays(t)), z \in Range(e.tickers) PROVE FALSE
    OBVIOUS
  <2>1. PICK i \in 1..n : z \in Range(Arrays(t)[i])
    BY <1>4
  <2>2. PICK j \in DOMAIN Arrays(s)[i + 1] : z = Arrays(s)[i + 1][j]
    BY <1>2, <2>1 DEF Range
  <2>3. PICK l \in DOMAIN Arrays(s)[1] : z = Arrays(s)[1][l]
    BY <1>2 DEF Range
  <2>4. i + 1 \in DOMAIN Arrays(s) /\ 1 \in DOMAIN Arrays(s) /\ i + 1 # 1
    BY <1>1, <1>2
  <2> QED
    BY <2>2, <2>3, <2>4 DEF Once
<1> QED
  BY <1>6, <1>7, <1>8, <1>9 DEF t, e

LEMMA TailTickers ==
    ASSUME NEW S, NEW s \in Seq(S), s # <<>>, Once(<<s>>)
    PROVE  /\ Of(<<s>>) = Of(<<Tail(s)>>) \cup {Head(s)}
           /\ Head(s) \notin Of(<<Tail(s)>>)
           /\ Once(<<Tail(s)>>)
<1> DEFINE t == Tail(s)
           e == Head(s)
           n == Len(t)
<1>1. /\ n \in Nat /\ DOMAIN t = 1..n /\ DOMAIN s = 1..(n + 1)
      /\ \A i \in 1..n : t[i] = s[i + 1]
      /\ s[1] = e
  OBVIOUS
<1> HIDE DEF t, n, e
<1>2. \A q : Of(<<q>>) = Range(q)
  BY DEF Of
<1>3. \A q : Once(<<q>>) <=> \A j, l \in DOMAIN q : q[j] = q[l] => j = l
  BY DEF Once
<1>4. \A i \in 1..(n + 1) : i = 1 \/ (i - 1 \in 1..n /\ (i - 1) + 1 = i)
  BY <1>1
<1>5. Range(s) = Range(t) \cup {e}
  <2>1. \A i \in 1..(n + 1) : s[i] \in Range(t) \cup {e}
    <3> TAKE i \in 1..(n + 1)
    <3>1. CASE i = 1
      BY <1>1, <3>1
    <3>2. CASE i - 1 \in 1..n /\ (i - 1) + 1 = i
      BY <1>1, <3>2 DEF Range
    <3> QED
      BY <1>4, <3>1, <3>2
  <2>2. \A i \in 1..n : t[i] \in Range(s)
    <3> TAKE i \in 1..n
    <3>1. i + 1 \in 1..(n + 1) /\ t[i] = s[i + 1]
      BY <1>1
    <3> QED
      BY <1>1, <3>1 DEF Range
  <2>3. e \in Range(s)
    BY <1>1 DEF Range
  <2>4. Range(s) \subseteq Range(t) \cup {e}
    BY <1>1, <2>1 DEF Range
  <2>5. Range(t) \subseteq Range(s)
    BY <1>1, <2>2 DEF Range
  <2> QED
    BY <2>3, <2>4, <2>5
<1>6. e \notin Range(t)
  <2> SUFFICES ASSUME NEW i \in 1..n, t[i] = e PROVE FALSE
    BY <1>1 DEF Range
  <2>1. i + 1 \in 1..(n + 1) /\ 1 \in 1..(n + 1) /\ s[i + 1] = s[1] /\ i + 1 # 1
    BY <1>1
  <2> QED
    BY <1>1, <1>3, <2>1
<1>7. Once(<<t>>)
  <2> SUFFICES ASSUME NEW j \in 1..n, NEW l \in 1..n, t[j] = t[l] PROVE j = l
    BY <1>1, <1>3
  <2>1. j + 1 \in 1..(n + 1) /\ l + 1 \in 1..(n + 1) /\ s[j + 1] = s[l + 1]
    BY <1>1
  <2>2. j + 1 = l + 1
    BY <1>1, <1>3, <2>1
  <2> QED
    BY <1>1, <2>2
<1> QED
  BY <1>2, <1>5, <1>6, <1>7 DEF t, e

-------------------------------------------------------------------------------
(* What a place gains and loses, and that a ticker moved from one place to *)
(* another, or dropped, is still in one place at most.                     *)

Written == published \cup refused

Typed == \A x \in Places : Contents(x) \in Seq(Carried(x))

(* The property, and where the tickers come from: whatever is somewhere    *)
(* was received.                                                           *)
EachOnce ==
    /\ \A x \in Places : /\ Once(At(x))
                         /\ Have(x) \cap Written = {}
                         /\ Have(x) \subseteq Received
    /\ \A x, y \in Places : x # y => Have(x) \cap Have(y) = {}
    /\ Written \subseteq Received
    /\ ~interrupted /\ Alive =>
          \A t \in Received : t \in Written \/ \E x \in Places : t \in Have(x)

(* The tickers of one thing that is at a place. *)
TickersOf(x, e) == IF x \in MessagePlaces THEN Range(e.tickers) ELSE {e}

(* What comes to a place, and what leaves it.                              *)
LEMMA PutAt ==
    ASSUME NEW x \in Places, NEW S, Contents(x) \in Seq(S), NEW e \in S,
           Contents(x)' = Append(Contents(x), e)
    PROVE  /\ Have(x)' = Have(x) \cup TickersOf(x, e)
           /\ /\ Once(At(x)) /\ Have(x) \cap TickersOf(x, e) = {}
              /\ x \in MessagePlaces => Once(<<e.tickers>>)
              => Once(At(x))'
<1>1. CASE x \in MessagePlaces
  BY <1>1, AppendArrays DEF Have, At, TickersOf
<1>2. CASE x \notin MessagePlaces
  <2>1. e \notin Have(x) <=> Have(x) \cap {e} = {}
    OBVIOUS
  <2> QED
    BY <1>2, <2>1, AppendTickers DEF Have, At, TickersOf
<1> QED
  BY <1>1, <1>2

LEMMA TakeAt ==
    ASSUME NEW x \in Places, NEW S, Contents(x) \in Seq(S), Contents(x) # <<>>, Once(At(x)),
           Contents(x)' = Tail(Contents(x)), NEW e, e = Head(Contents(x))
    PROVE  /\ Have(x) = Have(x)' \cup TickersOf(x, e)
           /\ Have(x)' \cap TickersOf(x, e) = {}
           /\ Once(At(x))'
           /\ x \in MessagePlaces => Once(<<e.tickers>>)
<1>1. CASE x \in MessagePlaces
  BY <1>1, TailArrays DEF Have, At, TickersOf
<1>2. CASE x \notin MessagePlaces
  <2>1. e \notin Have(x)' <=> Have(x)' \cap {e} = {}
    OBVIOUS
  <2> QED
    BY <1>2, <2>1, TailTickers DEF Have, At, TickersOf
<1> QED
  BY <1>1, <1>2

(* An empty place has no ticker, and one left alone has the same.          *)
LEMMA EmptyAt ==
    ASSUME NEW x \in Places, Contents(x) = <<>>
    PROVE  Have(x) = {} /\ Once(At(x))
<1>1. CASE x \in MessagePlaces
  BY <1>1 DEF Have, At, Arrays, Of, Once
<1>2. CASE x \notin MessagePlaces
  <2>1. Of(<<<<>>>>) = {}
    BY DEF Of, Range
  <2>2. Once(<<<<>>>>)
    BY DEF Once
  <2> QED
    BY <1>2, <2>1, <2>2 DEF Have, At
<1> QED
  BY <1>1, <1>2

LEMMA SameAt ==
    ASSUME NEW x \in Places, Contents(x)' = Contents(x)
    PROVE  Have(x)' = Have(x) /\ At(x)' = At(x)
  BY DEF Have, At

(* The first thing at x goes to the end of y. *)
LEMMA TransferKeeps ==
    ASSUME EachOnce, Typed, NEW x \in Places, NEW y \in Places, x # y,
           x \in MessagePlaces <=> y \in MessagePlaces,
           NEW e, e \in Carried(y),
           Contents(x) # <<>>, e = Head(Contents(x)),
           Contents(x)' = Tail(Contents(x)), Contents(y)' = Append(Contents(y), e),
           \A z \in Places \ {x, y} : Contents(z)' = Contents(z),
           UNCHANGED <<received, published, refused>>,
           interrupted => interrupted', Alive' => Alive
    PROVE  EachOnce' /\ Typed'
<1> DEFINE M == TickersOf(x, e)
<1>1. M = TickersOf(y, e)
  BY DEF TickersOf
<1>2. Contents(x) \in Seq(Carried(x)) /\ Contents(y) \in Seq(Carried(y))
  BY DEF Typed
<1>3. Once(At(x)) /\ Once(At(y)) /\ Have(x) \cap Have(y) = {}
  BY DEF EachOnce
<1>4. /\ Have(x) = Have(x)' \cup M /\ Have(x)' \cap M = {} /\ Once(At(x))'
      /\ x \in MessagePlaces => Once(<<e.tickers>>)
  BY <1>2, <1>3, TakeAt
<1>5. Have(y)' = Have(y) \cup M /\ Once(At(y))'
  BY <1>1, <1>2, <1>3, <1>4, PutAt
<1>6. \A z \in Places \ {x, y} : Have(z)' = Have(z) /\ (Once(At(z))' <=> Once(At(z)))
  BY SameAt
<1>7. UNCHANGED Written /\ UNCHANGED Received
  BY DEF Written, Received
<1> HIDE DEF M
<1>8. Typed'
  <2>1. Contents(x)' \in Seq(Carried(x)) /\ Contents(y)' \in Seq(Carried(y))
    BY <1>2
  <2> QED
    BY <2>1 DEF Typed
<1>9. EachOnce'
  <2>1. \A z \in Places : Once(At(z))'
    BY <1>4, <1>5, <1>6 DEF EachOnce
  <2>2. \A z \in Places : Have(z)' \subseteq Received /\ Have(z)' \cap Written = {}
    BY <1>4, <1>5, <1>6 DEF EachOnce
  <2>3. ASSUME NEW z \in Places, NEW w \in Places, z # w PROVE Have(z)' \cap Have(w)' = {}
    <3>1. \A v \in Places \ {x, y} : Have(v) \cap Have(x) = {} /\ Have(v) \cap Have(y) = {}
      BY DEF EachOnce
    <3>2. CASE z \notin {x, y} /\ w \notin {x, y}
      BY <1>6, <2>3, <3>2 DEF EachOnce
    <3>3. CASE z \in {x, y} /\ w \notin {x, y}
      BY <1>4, <1>5, <1>6, <3>1, <3>3
    <3>4. CASE z \notin {x, y} /\ w \in {x, y}
      BY <1>4, <1>5, <1>6, <3>1, <3>4
    <3>5. CASE z \in {x, y} /\ w \in {x, y}
      BY <1>3, <1>4, <1>5, <2>3, <3>5
    <3> QED
      BY <3>2, <3>3, <3>4, <3>5
  <2>4. ASSUME ~interrupted', Alive', NEW t \in Received, t \notin Written
        PROVE  \E z \in Places : t \in Have(z)'
    <3>1. PICK z \in Places : t \in Have(z)
      BY <2>4 DEF EachOnce
    <3>2. CASE z \notin {x, y}
      BY <1>6, <3>1, <3>2
    <3>3. CASE z \in {x, y}
      BY <1>4, <1>5, <3>1, <3>3
    <3> QED
      BY <3>2, <3>3
  <2> QED
    BY <1>7, <2>1, <2>2, <2>3, <2>4 DEF EachOnce
<1> QED
  BY <1>8, <1>9

(* Something goes away, after an interrupt or with no ticker in it, or     *)
(* nothing moves at all.                                                   *)
LEMMA DropKeeps ==
    ASSUME EachOnce, Typed, NEW x \in Places,
           \/ Contents(x)' = Contents(x)
           \/ Contents(x)' = <<>>
           \/ Contents(x) # <<>> /\ Contents(x)' = Tail(Contents(x)),
           \A z \in Places \ {x} : Contents(z)' = Contents(z),
           UNCHANGED <<received, published, refused>>,
           interrupted => interrupted', Alive' => Alive,
           \/ interrupted'
           \/ Contents(x)' = Contents(x)
           \/ Contents(x) # <<>> /\ x \in MessagePlaces /\ Contents(x)' = Tail(Contents(x))
              /\ Head(Contents(x)).tickers = <<>>
    PROVE  EachOnce' /\ Typed'
<1>1. Contents(x) \in Seq(Carried(x)) /\ Once(At(x))
  BY DEF Typed, EachOnce
<1>2. Have(x)' \subseteq Have(x) /\ Once(At(x))' /\ Contents(x)' \in Seq(Carried(x))
  <2>1. CASE Contents(x)' = Contents(x)
    BY <1>1, <2>1, SameAt
  <2>2. CASE Contents(x)' = <<>>
    <3>1. Have(x)' = {} /\ Once(At(x))'
      <4>1. CASE x \in MessagePlaces
        BY <2>2, <4>1 DEF Have, At, Arrays, Of, Once
      <4>2. CASE x \notin MessagePlaces
        <5>1. Of(<<<<>>>>) = {}
          BY DEF Of, Range
        <5>2. Once(<<<<>>>>)
          BY DEF Once
        <5> QED
          BY <2>2, <4>2, <5>1, <5>2 DEF Have, At
      <4> QED
        BY <4>1, <4>2
    <3> QED
      BY <2>2, <3>1
  <2>3. CASE Contents(x) # <<>> /\ Contents(x)' = Tail(Contents(x))
    <3>1. Have(x)' \subseteq Have(x) /\ Once(At(x))'
      BY <1>1, <2>3, TakeAt
    <3>2. Contents(x)' \in Seq(Carried(x))
      BY <1>1, <2>3
    <3> QED
      BY <3>1, <3>2
  <2> QED
    BY <2>1, <2>2, <2>3
<1>3. interrupted' \/ Have(x)' = Have(x)
  <2>1. CASE Contents(x)' = Contents(x)
    BY <2>1, SameAt
  <2>2. CASE /\ Contents(x) # <<>> /\ x \in MessagePlaces /\ Contents(x)' = Tail(Contents(x))
             /\ Head(Contents(x)).tickers = <<>>
    <3>1. Have(x) = Have(x)' \cup TickersOf(x, Head(Contents(x)))
      BY <1>1, <2>2, TakeAt
    <3>2. TickersOf(x, Head(Contents(x))) = {}
      BY <2>2 DEF TickersOf, Range
    <3> QED
      BY <3>1, <3>2
  <2> QED
    BY <2>1, <2>2
<1>4. \A z \in Places \ {x} : Have(z)' = Have(z) /\ (Once(At(z))' <=> Once(At(z)))
  BY SameAt
<1>5. UNCHANGED Written /\ UNCHANGED Received
  BY DEF Written, Received
<1>6. Typed'
  BY <1>2 DEF Typed
<1>7. EachOnce'
  <2>1. \A z \in Places : Once(At(z))' /\ Have(z)' \subseteq Have(z)
    BY <1>2, <1>4 DEF EachOnce
  <2>2. \A z \in Places : Have(z)' \subseteq Received /\ Have(z)' \cap Written = {}
    BY <2>1 DEF EachOnce
  <2>3. \A z, w \in Places : z # w => Have(z)' \cap Have(w)' = {}
    BY <2>1 DEF EachOnce
  <2>4. ~interrupted' => \A z \in Places : Have(z)' = Have(z)
    BY <1>3, <1>4
  <2> QED
    BY <1>5, <2>1, <2>2, <2>3, <2>4 DEF EachOnce
<1> QED
  BY <1>6, <1>7

-------------------------------------------------------------------------------
(* The places by name, the inductive invariant, and what the operations on *)
(* channels and goroutines do.                                             *)

Named == {"receiver", "distributor", "converter", "maker", "producer"}

(* The goroutines and the channels are apart, and so are their names.      *)
LEMMA Names ==
    /\ Named \subseteq Goroutines /\ Workers \subseteq Goroutines /\ Goroutines = Named \cup Workers
    /\ Channels \cap Goroutines = {} /\ Workers \cap Named = {}
    /\ Places = Goroutines \cup Channels
    /\ MessagePlaces \subseteq Places /\ MessagePlaces \cap Workers = {}
  BY PipelineAssumption DEF Named, Goroutines, Channels, Places, MessagePlaces

(* Where the tickers of a place are kept.                                  *)
LEMMA ContentsAre ==
    /\ \A c \in Channels : Contents(c) = chan[c].buf /\ Contents(c)' = chan'[c].buf
    /\ \A g \in Goroutines \ {"producer"} : Contents(g) = held[g] /\ Contents(g)' = held'[g]
    /\ Contents("producer") = batchBuffer /\ Contents("producer")' = batchBuffer'
  BY Names DEF Contents, Channels

(* What each place carries, case by case.                                  *)
LEMMA CarriedAre ==
    /\ Carried("receiver") = Msgs /\ Carried("rawMsgs") = Msgs
    /\ Carried("distributor") = {msg \in Msgs : msg.kind # "other"}
    /\ Carried("rawAggTrade") = {msg \in Msgs : msg.kind = "trade"}
    /\ Carried("rawMiniTicker") = {msg \in Msgs : msg.kind \in {"array", "broken"}}
    /\ \A x \in Places \ MessagePlaces : Carried(x) = Tickers
<1>1. \A x \in Places \ MessagePlaces : Carried(x) = Tickers
  BY DEF Carried, MessagePlaces
<1> QED
  BY <1>1 DEF Carried

(* A message of the feed has tickers only as an array.                     *)
LEMMA MsgsAreTyped ==
    \A msg \in Msgs : /\ msg.kind \in Kinds /\ msg.tickers \in Seq(Tickers)
                      /\ msg.kind # "array" => msg.tickers = <<>>
<1> TAKE msg \in Msgs
<1>1. PICK i \in DOMAIN Feed : msg = Feed[i]
  BY DEF Msgs, Range
<1>2. Feed[i] \in [kind : Kinds, tickers : Seq(Nat)]
  <2>1. Feed \in Seq([kind : Kinds, tickers : Seq(Nat)])
    BY PipelineAssumption
  <2>2. \A S : \A s \in Seq(S) : \A k \in DOMAIN s : s[k] \in S
    OBVIOUS
  <2> QED
    BY <2>1, <2>2
<1>3. Range(Feed[i].tickers) \subseteq Tickers
  <2>1. i \in DOMAIN Arrays(Feed) /\ Arrays(Feed)[i] = Feed[i].tickers
    BY DEF Arrays
  <2> QED
    BY <2>1 DEF Tickers, Of
<1>4. msg.tickers \in Seq(Tickers)
  <2>1. \A j \in 1..Len(msg.tickers) : msg.tickers[j] \in Tickers
    BY <1>1, <1>2, <1>3 DEF Range
  <2> QED
    BY <1>1, <1>2, <2>1
<1> QED
  BY <1>1, <1>2, <1>4, PipelineAssumption

-------------------------------------------------------------------------------

Channeled == /\ DOMAIN chan = Channels
             /\ \A c \in Channels : /\ chan[c] = [buf |-> chan[c].buf, closed |-> chan[c].closed]
                                    /\ chan[c].closed \in BOOLEAN
                                    /\ Len(chan[c].buf) <= Capacity[c]

(* A goroutine has something to pass on exactly while it sends, one thing  *)
(* unless it is the converter; and the producer selects with room in its   *)
(* buffer.                                                                 *)
Shape ==
    /\ \A g \in Goroutines : pc[g] # "sending" => held[g] = <<>>
    /\ \A g \in Goroutines : pc[g] = "sending" => /\ held[g] # <<>>
                                                  /\ g # "converter" => Len(held[g]) = 1
    /\ pc["producer"] # "sending"
    /\ pc["producer"] = "selecting" => Len(batchBuffer) < BatchSize

(* Who closes a channel was interrupted, or another closed its own before. *)
Closing ==
    /\ \A c \in Channels : chan[c].closed => interrupted
    /\ pc["converter"] \in {"waiting", "waiting to go on"} => interrupted
    /\ pc["maker"] = "returning" => interrupted
    /\ ChannelsCloseOnInterrupt

DailyInv == TypeOK /\ Shape /\ Closing /\ EachOnce

(* The type invariant by the parts the lemmas name.                        *)
LEMMA TypeOKHas ==
    TypeOK <=> /\ Channeled /\ Typed
               /\ pc \in [Goroutines -> Steps] /\ DOMAIN held = Goroutines
               /\ received \in 0..Len(Feed) /\ Len(batchBuffer) <= BatchSize
               /\ {timerFired, interrupted} \subseteq BOOLEAN
               /\ panic \in {"none", "nil connection", "closed channel", "division by zero"}
               /\ published \subseteq Tickers /\ refused \subseteq Tickers
  BY DEF TypeOK, Channeled, Typed

(* What To, Put, Take and Close do to goroutines and channels.             *)
LEMMA ToIs ==
    ASSUME pc \in [Goroutines -> Steps], DOMAIN held = Goroutines,
           NEW g \in Goroutines, NEW step, NEW xs, To(g, step, xs)
    PROVE  /\ pc'[g] = step /\ held'[g] = xs
           /\ \A h \in Goroutines \ {g} : pc'[h] = pc[h] /\ held'[h] = held[h]
           /\ DOMAIN held' = Goroutines
           /\ step \in Steps => pc' \in [Goroutines -> Steps]
  BY DEF To

LEMMA PutIs ==
    ASSUME Channeled, Typed, NEW c \in Channels, NEW e, HasRoom(c), chan' = Put(c, e)
    PROVE  /\ chan'[c].buf = Append(chan[c].buf, e)
           /\ \A d \in Channels \ {c} : chan'[d] = chan[d]
           /\ \A d \in Channels : chan'[d].closed = chan[d].closed
           /\ Channeled'
<1>1. chan[c].buf \in Seq(Carried(c)) /\ Capacity[c] \in Nat
  BY ContentsAre, Names, PipelineAssumption DEF Typed
<1>2. Len(Append(chan[c].buf, e)) = Len(chan[c].buf) + 1 /\ Len(chan[c].buf) \in Nat
  BY <1>1
<1>3. /\ chan'[c].buf = Append(chan[c].buf, e) /\ chan'[c].closed = chan[c].closed
      /\ chan'[c] = [buf |-> chan'[c].buf, closed |-> chan'[c].closed]
      /\ DOMAIN chan' = Channels
      /\ \A d \in Channels \ {c} : chan'[d] = chan[d]
  <2>1. chan' = [chan EXCEPT ![c] = [chan[c] EXCEPT !.buf = Append(chan[c].buf, e)]]
    BY DEF Put
  <2>2. chan'[c] = [chan[c] EXCEPT !.buf = Append(chan[c].buf, e)]
    BY <2>1 DEF Channeled
  <2>3. chan'[c] = [buf |-> Append(chan[c].buf, e), closed |-> chan[c].closed]
    BY <2>2 DEF Channeled
  <2> QED
    BY <2>1, <2>3 DEF Channeled
<1>4. Len(Append(chan[c].buf, e)) <= Capacity[c]
  BY <1>1, <1>2 DEF HasRoom
<1> QED
  BY <1>3, <1>4 DEF Channeled

LEMMA TakeIs ==
    ASSUME Channeled, Typed, NEW c \in Channels, chan[c].buf # <<>>, chan' = Take(c)
    PROVE  /\ chan'[c].buf = Tail(chan[c].buf)
           /\ \A d \in Channels \ {c} : chan'[d] = chan[d]
           /\ \A d \in Channels : chan'[d].closed = chan[d].closed
           /\ Channeled'
<1>1. chan[c].buf \in Seq(Carried(c)) /\ Capacity[c] \in Nat
  BY ContentsAre, Names, PipelineAssumption DEF Typed
<1>2. Len(Tail(chan[c].buf)) = Len(chan[c].buf) - 1 /\ Len(chan[c].buf) \in Nat
  BY <1>1
<1>3. /\ chan'[c].buf = Tail(chan[c].buf) /\ chan'[c].closed = chan[c].closed
      /\ chan'[c] = [buf |-> chan'[c].buf, closed |-> chan'[c].closed]
      /\ DOMAIN chan' = Channels
      /\ \A d \in Channels \ {c} : chan'[d] = chan[d]
  <2>1. chan' = [chan EXCEPT ![c] = [chan[c] EXCEPT !.buf = Tail(chan[c].buf)]]
    BY DEF Take
  <2>2. chan'[c] = [chan[c] EXCEPT !.buf = Tail(chan[c].buf)]
    BY <2>1 DEF Channeled
  <2>3. chan'[c] = [buf |-> Tail(chan[c].buf), closed |-> chan[c].closed]
    BY <2>2 DEF Channeled
  <2> QED
    BY <2>1, <2>3 DEF Channeled
<1>4. Len(Tail(chan[c].buf)) <= Capacity[c]
  BY <1>1, <1>2 DEF Channeled
<1> QED
  BY <1>3, <1>4 DEF Channeled

LEMMA CloseIs ==
    ASSUME Channeled, NEW cs, chan' = Close(cs)
    PROVE  /\ \A d \in Channels : chan'[d].buf = chan[d].buf
           /\ \A d \in Channels : chan'[d].closed <=> (d \in cs \/ chan[d].closed)
           /\ Channeled'
<1>1. DOMAIN chan' = Channels
  BY DEF Close
<1>2. \A d \in Channels : /\ d \in cs => chan'[d] = [chan[d] EXCEPT !.closed = TRUE]
                          /\ d \notin cs => chan'[d] = chan[d]
  BY DEF Close
<1>3. ASSUME NEW d \in Channels
      PROVE  /\ chan'[d].buf = chan[d].buf /\ chan'[d].closed \in BOOLEAN
             /\ chan'[d].closed <=> (d \in cs \/ chan[d].closed)
             /\ chan'[d] = [buf |-> chan'[d].buf, closed |-> chan'[d].closed]
  <2>1. chan[d] = [buf |-> chan[d].buf, closed |-> chan[d].closed] /\ chan[d].closed \in BOOLEAN
    BY DEF Channeled
  <2>2. CASE d \in cs
    <3>1. chan'[d] = [buf |-> chan[d].buf, closed |-> TRUE]
      BY <1>2, <2>1, <2>2
    <3> QED
      BY <2>2, <3>1
  <2>3. CASE d \notin cs
    BY <1>2, <2>1, <2>3
  <2> QED
    BY <2>2, <2>3
<1> QED
  BY <1>1, <1>3 DEF Channeled

-------------------------------------------------------------------------------
(* From the parts of the invariant to the whole of it: the goroutines go   *)
(* on, stay put or panic.                                                  *)

LEMMA SameInterrupt ==
    ASSUME interrupted \in BOOLEAN, interrupted' = interrupted
    PROVE  interrupted' <=> interrupted
  OBVIOUS

(* A goroutine other than the producer goes on.                            *)
LEMMA GoesOn ==
    ASSUME DailyInv, NEW g \in Goroutines \ {"producer"}, NEW step \in Steps, NEW xs,
           To(g, step, xs),
           step = "sending" => xs # <<>> /\ (g # "converter" => Len(xs) = 1),
           step # "sending" => xs = <<>>,
           Channeled', EachOnce', Typed', received' \in 0..Len(Feed),
           UNCHANGED <<producing, interrupted, panic, kafka>>,
           \A d \in Channels : chan'[d].closed => chan[d].closed \/ interrupted,
           g = "converter" /\ step \in {"waiting", "waiting to go on"} => interrupted,
           g = "maker" /\ step = "returning" => interrupted
    PROVE  DailyInv'
<1>1. TypeOK /\ Shape /\ Closing
  BY DEF DailyInv
<1>2. /\ pc'[g] = step /\ held'[g] = xs
      /\ \A h \in Goroutines \ {g} : pc'[h] = pc[h] /\ held'[h] = held[h]
      /\ DOMAIN held' = Goroutines /\ pc' \in [Goroutines -> Steps]
  BY <1>1, ToIs, TypeOKHas
<1>3. UNCHANGED <<batchBuffer, timerFired, interrupted, panic, published, refused>>
  BY DEF producing, kafka
<1>4. TypeOK'
  BY <1>1, <1>2, <1>3, TypeOKHas DEF TypeOK, Channeled, Typed
<1>5. Shape'
  BY <1>1, <1>2, <1>3, Names DEF Shape, Named
<1>6. Closing'
  <2>0. interrupted' = interrupted
    BY <1>3
  <2>1. interrupted' <=> interrupted
    <3>1. interrupted \in BOOLEAN
      BY <1>1 DEF TypeOK
    <3> QED
      BY <2>0, <3>1, SameInterrupt
  <2>2. \A d \in Channels : chan'[d].closed => interrupted
    BY <1>1 DEF Closing
  <2>3. ChannelsCloseOnInterrupt'
    BY <1>1, <1>3, <2>1 DEF Closing, ChannelsCloseOnInterrupt
  <2>4. \A h \in Goroutines \ {g} : pc'[h] = pc[h]
    BY <1>2
  <2>5. /\ pc'["converter"] \in {"waiting", "waiting to go on"} => interrupted
        /\ pc'["maker"] = "returning" => interrupted
    BY <1>1, <1>2, <2>4, Names DEF Closing, Named
  <2> QED
    BY <2>1, <2>2, <2>3, <2>5 DEF Closing
<1> QED
  BY <1>4, <1>5, <1>6 DEF DailyInv

(* None goes on, though a channel may lose its first message.              *)
LEMMA StaysPut ==
    ASSUME DailyInv, UNCHANGED <<pc, held>>,
           Channeled', EachOnce', Typed',
           UNCHANGED <<received, producing, interrupted, panic, kafka>>,
           \A d \in Channels : chan'[d].closed => chan[d].closed
    PROVE  DailyInv'
<1>1. TypeOK /\ Shape /\ Closing
  BY DEF DailyInv
<1>3. UNCHANGED <<batchBuffer, timerFired, interrupted, panic, published, refused>>
  BY DEF producing, kafka
<1>4. TypeOK'
  BY <1>1, <1>3 DEF TypeOK, Channeled, Typed
<1>5. Shape'
  BY <1>1, <1>3 DEF Shape
<1>6. Closing'
  <2>0. interrupted' = interrupted
    BY <1>3
  <2>1. interrupted' <=> interrupted
    <3>1. interrupted \in BOOLEAN
      BY <1>1 DEF TypeOK
    <3> QED
      BY <2>0, <3>1, SameInterrupt
  <2>2. \A d \in Channels : chan'[d].closed => interrupted
    BY <1>1 DEF Closing
  <2>3. ChannelsCloseOnInterrupt'
    BY <1>1, <1>3, <2>1 DEF Closing, ChannelsCloseOnInterrupt
  <2> QED
    BY <1>1, <2>1, <2>2, <2>3 DEF Closing
<1> QED
  BY <1>4, <1>5, <1>6 DEF DailyInv

(* A panic moves nothing.                                                  *)
LEMMA PanicKeeps ==
    ASSUME DailyInv, NEW cause \in {"nil connection", "closed channel", "division by zero"},
           Panics(cause), cause = "closed channel" => interrupted,
           UNCHANGED <<received, producing, interrupted, kafka>>
    PROVE  DailyInv'
<1>1. TypeOK /\ Shape /\ Closing /\ EachOnce
  BY DEF DailyInv
<1>2. UNCHANGED <<pc, held, chan, received, batchBuffer, timerFired, interrupted, published, refused>>
      /\ panic' = cause
  BY DEF producing, kafka, stages, Panics
<1>3. \A x : Contents(x)' = Contents(x)
  BY <1>2 DEF Contents
<1>4. TypeOK'
  BY <1>1, <1>2, <1>3 DEF TypeOK
<1>5. Shape'
  BY <1>1, <1>2 DEF Shape
<1>6. Closing'
  <2>0. interrupted' = interrupted
    BY <1>2
  <2>1. interrupted' <=> interrupted
    <3>1. interrupted \in BOOLEAN
      BY <1>1 DEF TypeOK
    <3> QED
      BY <2>0, <3>1, SameInterrupt
  <2>2. ChannelsCloseOnInterrupt'
    BY <1>2, <2>1 DEF ChannelsCloseOnInterrupt
  <2>3. \A d \in Channels : chan'[d].closed => interrupted
    BY <1>1, <1>2 DEF Closing
  <2> QED
    BY <1>1, <1>2, <2>1, <2>2, <2>3 DEF Closing
<1>7. EachOnce'
  <2>1. \A x \in Places : Have(x)' = Have(x) /\ (Once(At(x))' <=> Once(At(x)))
    BY <1>3, SameAt
  <2>2. UNCHANGED Written /\ UNCHANGED Received /\ ~Alive'
    BY <1>2 DEF Written, Received, Alive
  <2>3. \A x \in Places : Once(At(x))' /\ Have(x)' \cap Written = {} /\ Have(x)' \subseteq Received
    BY <1>1, <2>1 DEF EachOnce
  <2>4. \A x, y \in Places : x # y => Have(x)' \cap Have(y)' = {}
    BY <1>1, <2>1 DEF EachOnce
  <2>5. Written \subseteq Received
    BY <1>1 DEF EachOnce
  <2> QED
    BY <2>2, <2>3, <2>4, <2>5 DEF EachOnce
<1> QED
  BY <1>4, <1>5, <1>6, <1>7 DEF DailyInv

-------------------------------------------------------------------------------
(* What moves tickers: a goroutine sends, takes or lets go what it has, or *)
(* a channel loses its first message.                                      *)

(* What a step leaves alone has what it had.                               *)
LEMMA OthersStay ==
    ASSUME UNCHANGED batchBuffer
    PROVE  \A z \in Places : /\ z \in Channels /\ chan'[z] = chan[z] => Contents(z)' = Contents(z)
                             /\ z \in Goroutines /\ held'[z] = held[z] => Contents(z)' = Contents(z)
                             /\ z \in Channels \/ z \in Goroutines
<1> TAKE z \in Places
<1>1. CASE z \in Channels
  BY <1>1, ContentsAre, Names
<1>2. CASE z = "producer"
  BY <1>2, ContentsAre, Names DEF Named
<1>3. CASE z \in Goroutines \ {"producer"}
  BY <1>3, ContentsAre, Names
<1> QED
  BY <1>1, <1>2, <1>3, Names

(* A goroutine sends what comes first in its hands.                        *)
LEMMA SendMoves ==
    ASSUME DailyInv, NEW g \in Goroutines \ {"producer"}, NEW c \in Channels, NEW step, NEW left,
           held[g] # <<>>, HasRoom(c), chan' = Put(c, Head(held[g])),
           left = Tail(held[g]), To(g, step, left),
           g \in MessagePlaces <=> c \in MessagePlaces, Head(held[g]) \in Carried(c),
           UNCHANGED <<received, batchBuffer, interrupted, panic, kafka>>
    PROVE  EachOnce' /\ Typed' /\ Channeled'
           /\ \A d \in Channels : chan'[d].closed => chan[d].closed
<1>1. EachOnce /\ Typed /\ Channeled /\ pc \in [Goroutines -> Steps] /\ DOMAIN held = Goroutines
  BY TypeOKHas DEF DailyInv
<1>2. /\ held'[g] = left
      /\ \A h \in Goroutines \ {g} : held'[h] = held[h]
  BY <1>1 DEF To
<1>3. /\ chan'[c].buf = Append(chan[c].buf, Head(held[g]))
      /\ \A d \in Channels \ {c} : chan'[d] = chan[d]
      /\ \A d \in Channels : chan'[d].closed = chan[d].closed
      /\ Channeled'
  BY <1>1, PutIs
<1>4. /\ Contents(g) = held[g] /\ Contents(g)' = Tail(Contents(g))
      /\ Contents(c)' = Append(Contents(c), Head(held[g]))
      /\ \A z \in Places \ {g, c} : Contents(z)' = Contents(z)
  <2>1. Contents(g) = held[g] /\ Contents(g)' = held'[g]
    BY ContentsAre
  <2>2. Contents(c) = chan[c].buf /\ Contents(c)' = chan'[c].buf
    BY ContentsAre
  <2> QED
    BY <1>2, <1>3, <2>1, <2>2, OthersStay
<1>5. g \in Places /\ c \in Places /\ g # c
  BY Names
<1>6. UNCHANGED <<published, refused>> /\ (Alive' => Alive)
  BY DEF kafka, Alive
<1> QED
  BY <1>1, <1>3, <1>4, <1>5, <1>6, TransferKeeps

(* A goroutine takes what comes first in a channel.                        *)
LEMMA TakeMoves ==
    ASSUME DailyInv, NEW g \in Goroutines \ {"producer"}, NEW c \in Channels, NEW step,
           held[g] = <<>>, chan[c].buf # <<>>, chan' = Take(c), To(g, step, <<Head(chan[c].buf)>>),
           g \in MessagePlaces <=> c \in MessagePlaces, Head(chan[c].buf) \in Carried(g),
           UNCHANGED <<received, batchBuffer, interrupted, panic, kafka>>
    PROVE  EachOnce' /\ Typed' /\ Channeled'
           /\ \A d \in Channels : chan'[d].closed => chan[d].closed
<1>1. EachOnce /\ Typed /\ Channeled /\ pc \in [Goroutines -> Steps] /\ DOMAIN held = Goroutines
  BY TypeOKHas DEF DailyInv
<1>2. /\ held'[g] = <<Head(chan[c].buf)>>
      /\ \A h \in Goroutines \ {g} : held'[h] = held[h]
  BY <1>1, ToIs
<1>3. /\ chan'[c].buf = Tail(chan[c].buf)
      /\ \A d \in Channels \ {c} : chan'[d] = chan[d]
      /\ \A d \in Channels : chan'[d].closed = chan[d].closed
      /\ Channeled'
  BY <1>1, TakeIs
<1>4. <<Head(chan[c].buf)>> = Append(<<>>, Head(chan[c].buf))
  OBVIOUS
<1>5. /\ Contents(g) = <<>> /\ Contents(g)' = Append(Contents(g), Head(chan[c].buf))
      /\ Contents(c) = chan[c].buf /\ Contents(c)' = Tail(Contents(c))
      /\ \A z \in Places \ {g, c} : Contents(z)' = Contents(z)
  <2>1. Contents(g) = held[g] /\ Contents(g)' = held'[g]
    BY ContentsAre
  <2>2. Contents(c) = chan[c].buf /\ Contents(c)' = chan'[c].buf
    BY ContentsAre
  <2> QED
    BY <1>2, <1>3, <1>4, <2>1, <2>2, OthersStay
<1>6. g \in Places /\ c \in Places /\ g # c
  BY Names
<1>7. UNCHANGED <<published, refused>> /\ (Alive' => Alive)
  BY DEF kafka, Alive
<1> QED
  BY <1>1, <1>3, <1>5, <1>6, <1>7, TransferKeeps

(* A goroutine lets go what it has, if anything, for an interrupt.         *)
LEMMA ReleaseMoves ==
    ASSUME DailyInv, NEW g \in Goroutines \ {"producer"}, NEW step,
           held[g] = <<>> \/ interrupted, To(g, step, <<>>),
           \A d \in Channels : chan'[d].buf = chan[d].buf,
           UNCHANGED <<received, batchBuffer, interrupted, panic, kafka>>
    PROVE  EachOnce' /\ Typed'
<1>1. EachOnce /\ Typed /\ pc \in [Goroutines -> Steps] /\ DOMAIN held = Goroutines
  BY TypeOKHas DEF DailyInv
<1>2. /\ held'[g] = <<>>
      /\ \A h \in Goroutines \ {g} : held'[h] = held[h]
  BY <1>1, ToIs
<1>3. /\ Contents(g) = held[g] /\ Contents(g)' = <<>>
      /\ \A z \in Places \ {g} : Contents(z)' = Contents(z)
  BY <1>2, ContentsAre, Names
<1>4. g \in Places
  BY Names
<1>5. UNCHANGED <<published, refused>> /\ (Alive' => Alive)
  BY DEF kafka, Alive
<1> QED
  BY <1>1, <1>3, <1>4, <1>5, DropKeeps

(* The goroutine that took it, if one did, has nothing of it.              *)
LEMMA DiscardMoves ==
    ASSUME DailyInv, NEW c \in Channels, chan[c].buf # <<>>, chan' = Take(c),
           \A g \in Goroutines : held'[g] = held[g],
           interrupted \/ (c \in MessagePlaces /\ Head(chan[c].buf).tickers = <<>>),
           UNCHANGED <<received, batchBuffer, interrupted, panic, kafka>>
    PROVE  EachOnce' /\ Typed' /\ Channeled'
           /\ \A d \in Channels : chan'[d].closed => chan[d].closed
<1>1. EachOnce /\ Typed /\ Channeled
  BY TypeOKHas DEF DailyInv
<1>2. /\ chan'[c].buf = Tail(chan[c].buf)
      /\ \A d \in Channels \ {c} : chan'[d] = chan[d]
      /\ \A d \in Channels : chan'[d].closed = chan[d].closed
      /\ Channeled'
  BY <1>1, TakeIs
<1>3. /\ Contents(c) = chan[c].buf /\ Contents(c)' = Tail(Contents(c))
      /\ \A z \in Places \ {c} : Contents(z)' = Contents(z)
  <2>1. Contents(c) = chan[c].buf /\ Contents(c)' = chan'[c].buf
    BY ContentsAre
  <2> QED
    BY <1>2, <2>1, OthersStay
<1>4. c \in Places
  BY Names
<1>5. UNCHANGED <<published, refused>> /\ (Alive' => Alive)
  BY DEF kafka, Alive
<1> QED
  BY <1>1, <1>2, <1>3, <1>4, <1>5, DropKeeps

(* Who sends has something to send, and nobody else has.                   *)
LEMMA EmptyHands ==
    ASSUME DailyInv, NEW g \in Goroutines
    PROVE  /\ pc[g] # "sending" => held[g] = <<>>
           /\ pc[g] = "sending" => held[g] # <<>>
           /\ pc[g] = "sending" /\ g # "converter" =>
                 Len(held[g]) = 1 /\ (g # "producer" => Tail(held[g]) = <<>>)
           /\ g # "producer" => held[g] \in Seq(Carried(g))
<1>1. g # "producer" => held[g] \in Seq(Carried(g))
  BY ContentsAre, Names, TypeOKHas DEF DailyInv, Typed
<1>2. ASSUME NEW S, NEW s \in Seq(S), Len(s) = 1 PROVE Tail(s) = <<>>
  <2>1. Tail(s) \in Seq(S) /\ Len(Tail(s)) = 0
    BY <1>2
  <2> QED
    BY <2>1, EmptySeq
<1> QED
  BY <1>1, <1>2 DEF DailyInv, Shape

-------------------------------------------------------------------------------
(* The moves every goroutine makes.                                        *)

(* A goroutine passes the first thing it has on.                           *)
LEMMA SendKeeps ==
    ASSUME DailyInv, NEW g \in Goroutines \ {"producer"}, NEW c \in Channels, NEW step \in Steps,
           pc[g] = "sending", HasRoom(c), chan' = Put(c, Head(held[g])),
           NEW left, left = Tail(held[g]), To(g, step, left),
           step = "sending" <=> left # <<>>, step \in {"sending", "selecting"},
           g \in MessagePlaces <=> c \in MessagePlaces, Head(held[g]) \in Carried(c),
           UNCHANGED <<received, producing, interrupted, panic, kafka>>
    PROVE  DailyInv'
<1>1. held[g] # <<>> /\ (g # "converter" => left = <<>>)
  BY EmptyHands
<1>2. UNCHANGED batchBuffer
  BY DEF producing
<1>3. /\ EachOnce' /\ Typed' /\ Channeled'
      /\ \A d \in Channels : chan'[d].closed => chan[d].closed
  BY <1>1, <1>2, SendMoves
<1>4. received' \in 0..Len(Feed)
  BY TypeOKHas DEF DailyInv
<1> QED
  BY <1>1, <1>3, <1>4, GoesOn

(* A goroutine takes the first message of a channel.                       *)
LEMMA TakeKeeps ==
    ASSUME DailyInv, NEW g \in Goroutines \ {"producer"}, NEW c \in Channels,
           pc[g] = "selecting", chan[c].buf # <<>>, chan' = Take(c),
           To(g, "sending", <<Head(chan[c].buf)>>),
           g \in MessagePlaces <=> c \in MessagePlaces, Head(chan[c].buf) \in Carried(g),
           UNCHANGED <<received, producing, interrupted, panic, kafka>>
    PROVE  DailyInv'
<1>1. held[g] = <<>>
  BY EmptyHands
<1>2. UNCHANGED batchBuffer
  BY DEF producing
<1>3. /\ EachOnce' /\ Typed' /\ Channeled'
      /\ \A d \in Channels : chan'[d].closed => chan[d].closed
  BY <1>1, <1>2, TakeMoves
<1>4. received' \in 0..Len(Feed)
  BY TypeOKHas DEF DailyInv
<1>5. <<Head(chan[c].buf)>> # <<>> /\ Len(<<Head(chan[c].buf)>>) = 1 /\ "sending" \in Steps
  BY DEF Steps
<1> QED
  BY <1>3, <1>4, <1>5, GoesOn

(* A goroutine that has nothing, or is interrupted, goes on, and may close *)
(* channels if somebody did before it.                                     *)
LEMMA ReleaseKeeps ==
    ASSUME DailyInv, NEW g \in Goroutines \ {"producer"}, NEW step \in Steps \ {"sending"},
           held[g] = <<>> \/ interrupted, To(g, step, <<>>),
           Channeled', \A d \in Channels : chan'[d].buf = chan[d].buf,
           \A d \in Channels : chan'[d].closed => chan[d].closed \/ interrupted,
           g = "converter" /\ step \in {"waiting", "waiting to go on"} => interrupted,
           g = "maker" /\ step = "returning" => interrupted,
           UNCHANGED <<received, producing, interrupted, panic, kafka>>
    PROVE  DailyInv'
<1>1. UNCHANGED batchBuffer
  BY DEF producing
<1>2. EachOnce' /\ Typed'
  BY <1>1, ReleaseMoves
<1>3. received' \in 0..Len(Feed)
  BY TypeOKHas DEF DailyInv
<1> QED
  BY <1>2, <1>3, GoesOn

(* A goroutine returns, and its deferred calls close channels.             *)
LEMMA ReturnKeeps ==
    ASSUME DailyInv, NEW g \in Goroutines \ {"producer"}, NEW cs,
           held[g] = <<>> \/ interrupted, Return(g, cs), interrupted \/ cs = {},
           UNCHANGED <<received, producing, interrupted, panic, kafka>>
    PROVE  DailyInv'
<1>1. Channeled
  BY TypeOKHas DEF DailyInv
<1>2. To(g, "done", <<>>) /\ chan' = Close(cs) /\ "done" \in Steps \ {"sending"}
  BY DEF Return, Steps
<1>3. /\ Channeled' /\ \A d \in Channels : chan'[d].buf = chan[d].buf
      /\ \A d \in Channels : chan'[d].closed => chan[d].closed \/ interrupted
  BY <1>1, <1>2, CloseIs
<1> QED
  BY <1>2, <1>3, ReleaseKeeps

(* The same without a channel.                                             *)
LEMMA StepKeeps ==
    ASSUME DailyInv, NEW g \in Goroutines \ {"producer"}, NEW step \in Steps \ {"sending"},
           held[g] = <<>> \/ interrupted, To(g, step, <<>>), UNCHANGED chan,
           g = "converter" /\ step \in {"waiting", "waiting to go on"} => interrupted,
           g = "maker" /\ step = "returning" => interrupted,
           UNCHANGED <<received, producing, interrupted, panic, kafka>>
    PROVE  DailyInv'
<1>1. Channeled
  BY TypeOKHas DEF DailyInv
<1>2. /\ Channeled' /\ \A d \in Channels : chan'[d].buf = chan[d].buf
      /\ \A d \in Channels : chan'[d].closed => chan[d].closed
  BY <1>1 DEF Channeled
<1> QED
  BY <1>2, ReleaseKeeps

(* A message is dropped, and who took it has nothing.                      *)
LEMMA DiscardKeeps ==
    ASSUME DailyInv, NEW c \in Channels, chan[c].buf # <<>>, chan' = Take(c),
           interrupted \/ (c \in MessagePlaces /\ Head(chan[c].buf).tickers = <<>>),
           \/ UNCHANGED <<pc, held>>
           \/ \E g \in Goroutines \ {"producer"}, step \in Steps \ {"sending"} :
                /\ held[g] = <<>> /\ To(g, step, <<>>)
                /\ g = "converter" /\ step \in {"waiting", "waiting to go on"} => interrupted
                /\ g = "maker" /\ step = "returning" => interrupted,
           UNCHANGED <<received, producing, interrupted, panic, kafka>>
    PROVE  DailyInv'
<1>1. UNCHANGED batchBuffer
  BY DEF producing
<1>2. received' \in 0..Len(Feed) /\ pc \in [Goroutines -> Steps] /\ DOMAIN held = Goroutines
  BY TypeOKHas DEF DailyInv
<1>3. CASE UNCHANGED <<pc, held>>
  <2>1. \A h \in Goroutines : held'[h] = held[h]
    BY <1>3
  <2>2. /\ EachOnce' /\ Typed' /\ Channeled'
        /\ \A d \in Channels : chan'[d].closed => chan[d].closed
    BY <1>1, <2>1, DiscardMoves
  <2> QED
    BY <1>3, <2>2, StaysPut
<1>4. ASSUME NEW g \in Goroutines \ {"producer"}, NEW step \in Steps \ {"sending"},
             held[g] = <<>>, To(g, step, <<>>),
             g = "converter" /\ step \in {"waiting", "waiting to go on"} => interrupted,
             g = "maker" /\ step = "returning" => interrupted
      PROVE  DailyInv'
  <2>1. \A h \in Goroutines : held'[h] = held[h]
    <3>1. held'[g] = <<>> /\ \A h \in Goroutines \ {g} : held'[h] = held[h]
      BY <1>2, <1>4 DEF To
    <3> QED
      BY <1>4, <3>1
  <2>2. /\ EachOnce' /\ Typed' /\ Channeled'
        /\ \A d \in Channels : chan'[d].closed => chan[d].closed
    BY <1>1, <2>1, DiscardMoves
  <2>3. \A d \in Channels : chan'[d].closed => chan[d].closed \/ interrupted
    BY <2>2
  <2> QED
    BY <1>2, <1>4, <2>2, <2>3, GoesOn
<1> QED
  BY <1>3, <1>4

-------------------------------------------------------------------------------
(* A message of Feed that was not received yet has no ticker that was.     *)
LEMMA NewTickers ==
    ASSUME received \in 0..Len(Feed), received < Len(Feed), received' = received + 1
    PROVE  /\ Received' = Received \cup Range(Feed[received + 1].tickers)
           /\ Received \cap Range(Feed[received + 1].tickers) = {}
           /\ Once(<<Feed[received + 1].tickers>>)
           /\ Feed[received + 1] \in Msgs
<1> DEFINE n == received + 1
<1>1. /\ Len(Feed) \in Nat /\ DOMAIN Feed = 1..Len(Feed) /\ n \in DOMAIN Feed
      /\ 1..n = 1..received \cup {n} /\ n \notin 1..received
      /\ \A i \in 1..received : i \in DOMAIN Feed
  BY PipelineAssumption
<1>2. /\ DOMAIN Arrays(Feed) = DOMAIN Feed
      /\ \A i \in DOMAIN Feed : Arrays(Feed)[i] = Feed[i].tickers
      /\ Once(Arrays(Feed))
  BY PipelineAssumption DEF Arrays
<1> HIDE DEF n
<1>3. \A i, k \in DOMAIN Feed : \A j \in DOMAIN Feed[i].tickers, l \in DOMAIN Feed[k].tickers :
         Feed[i].tickers[j] = Feed[k].tickers[l] => i = k /\ j = l
  BY <1>2 DEF Once
<1>4. Received' = UNION {Range(Feed[i].tickers) : i \in 1..n}
  BY DEF Received, n
<1>5. Received' = Received \cup Range(Feed[n].tickers)
  BY <1>1, <1>4 DEF Received
<1>6. Received \cap Range(Feed[n].tickers) = {}
  <2> SUFFICES ASSUME NEW i \in 1..received, NEW t \in Range(Feed[i].tickers),
                      t \in Range(Feed[n].tickers)
               PROVE  FALSE
    BY DEF Received
  <2>1. PICK j \in DOMAIN Feed[i].tickers : t = Feed[i].tickers[j]
    BY DEF Range
  <2>2. PICK l \in DOMAIN Feed[n].tickers : t = Feed[n].tickers[l]
    BY DEF Range
  <2> QED
    BY <1>1, <1>3, <2>1, <2>2
<1>7. Once(<<Feed[n].tickers>>)
  BY <1>1, <1>3 DEF Once
<1>8. Feed[n] \in Msgs
  BY <1>1 DEF Msgs, Range
<1> QED
  BY <1>5, <1>6, <1>7, <1>8 DEF n

-------------------------------------------------------------------------------
(* The receiver.                                                           *)

(* Recv: a message of tickers that are nowhere yet.                        *)
LEMMA RecvKeeps ==
    ASSUME DailyInv, Recv, UNCHANGED <<producing, interrupted, kafka>>
    PROVE  DailyInv'
<1> DEFINE msg == Feed[received + 1]
           M == Range(msg.tickers)
<1>1. /\ EachOnce /\ Typed /\ Channeled /\ received \in 0..Len(Feed)
      /\ pc \in [Goroutines -> Steps] /\ DOMAIN held = Goroutines
  BY TypeOKHas DEF DailyInv
<1>2. /\ pc["receiver"] = "selecting" /\ received < Len(Feed) /\ received' = received + 1
      /\ To("receiver", "sending", <<msg>>) /\ UNCHANGED <<chan, panic>>
  BY DEF Recv
<1>3. /\ "receiver" \in Goroutines \ {"producer"} /\ "receiver" \in Places
      /\ "receiver" \in MessagePlaces
  BY Names DEF Named, MessagePlaces
<1>4. held["receiver"] = <<>>
  BY <1>2, <1>3, EmptyHands
<1>5. /\ held'["receiver"] = <<msg>>
      /\ \A h \in Goroutines \ {"receiver"} : held'[h] = held[h]
  BY <1>1, <1>2, <1>3, ToIs
<1>6. /\ Received' = Received \cup M /\ Received \cap M = {}
      /\ Once(<<msg.tickers>>) /\ msg \in Msgs
  BY <1>1, <1>2, NewTickers
<1>7. UNCHANGED <<batchBuffer, interrupted, published, refused, panic>>
  BY <1>2 DEF producing, kafka
<1>8. <<msg>> = Append(<<>>, msg)
  OBVIOUS
<1>9. /\ Contents("receiver") = <<>> /\ Contents("receiver")' = Append(Contents("receiver"), msg)
      /\ \A z \in Places \ {"receiver"} : Contents(z)' = Contents(z)
  <2>1. Contents("receiver") = held["receiver"] /\ Contents("receiver")' = held'["receiver"]
    BY <1>3, ContentsAre
  <2> QED
    BY <1>2, <1>4, <1>5, <1>7, <1>8, <2>1, OthersStay
<1>10. Carried("receiver") = Msgs
  BY CarriedAre
<1> HIDE DEF msg, M
<1>11. Have("receiver") = {} /\ Once(At("receiver"))
  BY <1>3, <1>9, EmptyAt
<1>12. Have("receiver")' = M /\ Once(At("receiver"))'
  <2>1. TickersOf("receiver", msg) = M
    BY <1>3 DEF TickersOf, M
  <2>2. Contents("receiver") \in Seq(Msgs)
    BY <1>1, <1>3, <1>10 DEF Typed
  <2>3. Contents("receiver")' = Append(Contents("receiver"), msg) /\ msg \in Msgs
    BY <1>6, <1>9
  <2>4. /\ Have("receiver")' = Have("receiver") \cup TickersOf("receiver", msg)
        /\ /\ Once(At("receiver")) /\ Have("receiver") \cap TickersOf("receiver", msg) = {}
           /\ "receiver" \in MessagePlaces => Once(<<msg.tickers>>)
           => Once(At("receiver"))'
    BY <1>3, <2>2, <2>3, PutAt
  <2> QED
    BY <1>6, <1>11, <2>1, <2>4
<1>13. \A z \in Places \ {"receiver"} : Have(z)' = Have(z) /\ (Once(At(z))' <=> Once(At(z)))
  BY <1>9, SameAt
<1>14. Typed'
  <2>1. Contents("receiver")' \in Seq(Msgs)
    BY <1>6, <1>9
  <2>2. \A z \in Places \ {"receiver"} : Contents(z)' \in Seq(Carried(z))
    BY <1>1, <1>9 DEF Typed
  <2> QED
    BY <1>10, <2>1, <2>2 DEF Typed
<1>15. EachOnce'
  <2>1. UNCHANGED Written
    BY <1>7 DEF Written
  <2>2. \A z \in Places : Have(z) \subseteq Received
    BY <1>1 DEF EachOnce
  <2>3. \A z \in Places : Once(At(z))'
    BY <1>1, <1>12, <1>13 DEF EachOnce
  <2>4. Written \subseteq Received
    BY <1>1 DEF EachOnce
  <2>5. \A z \in Places : Have(z)' \cap Written = {} /\ Have(z)' \subseteq Received'
    BY <1>1, <1>6, <1>12, <1>13, <2>4 DEF EachOnce
  <2>6. \A z, w \in Places : z # w => Have(z)' \cap Have(w)' = {}
    <3>1. \A z \in Places \ {"receiver"} : Have(z)' \cap M = {}
      BY <1>6, <1>13, <2>2
    <3>2. \A z, w \in Places \ {"receiver"} : z # w => Have(z)' \cap Have(w)' = {}
      BY <1>1, <1>13 DEF EachOnce
    <3> QED
      BY <1>12, <3>1, <3>2
  <2>7. ASSUME ~interrupted', Alive', NEW t \in Received'
        PROVE  t \in Written \/ \E z \in Places : t \in Have(z)'
    <3>1. CASE t \in M
      BY <1>3, <1>12, <3>1
    <3>2. CASE t \in Received
      <4>1. ~interrupted /\ Alive
        BY <1>7, <2>7 DEF Alive
      <4>2. t \in Written \/ \E z \in Places : t \in Have(z)
        BY <1>1, <3>2, <4>1 DEF EachOnce
      <4> QED
        BY <1>11, <1>13, <4>2
    <3> QED
      BY <1>6, <2>7, <3>1, <3>2
  <2> QED
    BY <1>6, <2>1, <2>3, <2>4, <2>5, <2>6, <2>7 DEF EachOnce
<1>16. Channeled' /\ \A d \in Channels : chan'[d].closed => chan[d].closed \/ interrupted
  BY <1>1, <1>2 DEF Channeled
<1>17. received' \in 0..Len(Feed)
  BY <1>1, <1>2
<1>18. <<msg>> # <<>> /\ Len(<<msg>>) = 1 /\ "sending" \in Steps /\ To("receiver", "sending", <<msg>>)
  BY <1>2 DEF Steps, msg
<1>19. UNCHANGED <<producing, interrupted, panic, kafka>>
  BY <1>2
<1> QED
  BY <1>3, <1>14, <1>15, <1>16, <1>17, <1>18, <1>19, GoesOn

(* Every step of the receiver and of the stream it reads.                  *)
LEMMA ReceiverStepKeeps ==
    ASSUME DailyInv, Receiver \/ Stream
    PROVE  DailyInv'
<1>1. "receiver" \in Goroutines \ {"producer"} /\ "receiver" \in MessagePlaces
  BY Names DEF Named, MessagePlaces
<1>2. UNCHANGED <<producing, interrupted, kafka>>
  BY DEF Receiver, Stream
<1>3. CASE Dial
  <2>1. UNCHANGED received /\ pc["receiver"] = "dialing"
    BY <1>3 DEF Dial
  <2>2. CASE Panics("nil connection")
    BY <1>2, <2>1, <2>2, PanicKeeps
  <2>3. CASE To("receiver", "opening", <<>>) /\ UNCHANGED <<chan, panic>>
    <3>1. held["receiver"] = <<>> /\ "opening" \in Steps \ {"sending"}
      BY <1>1, <2>1, EmptyHands DEF Steps
    <3> QED
      BY <1>1, <1>2, <2>1, <2>3, <3>1, StepKeeps
  <2> QED
    BY <1>3, <2>2, <2>3 DEF Dial
<1>4. CASE OpenStream
  <2>1. /\ pc["receiver"] = "opening" /\ To("receiver", "selecting", <<>>)
        /\ UNCHANGED <<chan, panic, received>>
    BY <1>4 DEF OpenStream
  <2>2. held["receiver"] = <<>> /\ "selecting" \in Steps \ {"sending"}
    BY <1>1, <2>1, EmptyHands DEF Steps
  <2> QED
    BY <1>1, <1>2, <2>1, <2>2, StepKeeps
<1>5. CASE StreamEnds \/ ReceiverCancelled
  <2>1. /\ pc["receiver"] \in {"opening", "selecting"} \/ interrupted
        /\ Return("receiver", {}) /\ UNCHANGED <<panic, received>>
    BY <1>5 DEF StreamEnds, ReceiverCancelled
  <2>2. held["receiver"] = <<>> \/ interrupted
    BY <1>1, <2>1, EmptyHands
  <2> QED
    BY <1>1, <1>2, <2>1, <2>2, ReturnKeeps
<1>6. CASE ReceiverSends
  <2>1. /\ pc["receiver"] = "sending" /\ HasRoom("rawMsgs")
        /\ chan' = Put("rawMsgs", Head(held["receiver"]))
        /\ To("receiver", "selecting", <<>>) /\ UNCHANGED <<panic, received>>
    BY <1>6 DEF ReceiverSends
  <2>2. /\ held["receiver"] # <<>> /\ Tail(held["receiver"]) = <<>>
        /\ held["receiver"] \in Seq(Carried("receiver"))
    BY <1>1, <2>1, EmptyHands
  <2>3. Head(held["receiver"]) \in Carried("rawMsgs")
    BY <2>2, CarriedAre
  <2>4. "rawMsgs" \in Channels /\ "rawMsgs" \in MessagePlaces /\ "selecting" \in Steps
    BY DEF Channels, MessagePlaces, Steps
  <2> QED
    BY <1>1, <1>2, <2>1, <2>2, <2>3, <2>4, SendKeeps
<1> QED
  BY <1>2, <1>3, <1>4, <1>5, <1>6, RecvKeeps DEF Receiver, Stream

-------------------------------------------------------------------------------
(* The distributor and the converter.                                      *)

(* The names of places, for the provers.                                   *)
LEMMA PlaceNames ==
    /\ {"rawMsgs", "rawAggTrade", "rawMiniTicker", "worker", "dailyStat", "kafkaMsg"} \subseteq Channels
    /\ {"receiver", "distributor", "converter", "maker"} \subseteq Goroutines \ {"producer"}
    /\ Workers \subseteq Goroutines \ {"producer"}
    /\ {"receiver", "distributor", "rawMsgs", "rawAggTrade", "rawMiniTicker"} \subseteq MessagePlaces
    /\ {"converter", "maker", "worker", "dailyStat", "kafkaMsg"} \cap MessagePlaces = {}
    /\ Workers \cap MessagePlaces = {}
    /\ "converter" \notin Workers /\ "maker" \notin Workers
  BY Names DEF Channels, MessagePlaces, Named

(* What comes first in a channel is what the channel carries.              *)
LEMMA InChannel ==
    ASSUME DailyInv, NEW c \in Channels
    PROVE  /\ chan[c].buf \in Seq(Carried(c))
           /\ chan[c].buf # <<>> => Head(chan[c].buf) \in Carried(c)
           /\ chan[c].closed => interrupted
<1>1. chan[c].buf \in Seq(Carried(c))
  BY Names, ContentsAre, TypeOKHas DEF DailyInv, Typed
<1>2. chan[c].buf # <<>> => Head(chan[c].buf) \in Carried(c)
  BY <1>1
<1>3. chan[c].closed => interrupted
  BY DEF DailyInv, Closing
<1> QED
  BY <1>1, <1>2, <1>3

(* Every step of the distributor, and of the taker of trades.              *)
LEMMA DistributorKeeps ==
    ASSUME DailyInv, Distributor
    PROVE  DailyInv'
<1>1. UNCHANGED <<received, producing, interrupted, kafka>>
  BY DEF Distributor
<1>2. CASE Distribute
  <2> DEFINE msg == Head(chan["rawMsgs"].buf)
  <2>1. /\ pc["distributor"] = "selecting" /\ chan["rawMsgs"].buf # <<>>
        /\ IF msg.kind = "other" THEN UNCHANGED <<pc, held>> ELSE To("distributor", "sending", <<msg>>)
        /\ chan' = Take("rawMsgs") /\ UNCHANGED panic
    BY <1>2 DEF Distribute
  <2>2. msg \in Msgs
    BY <2>1, InChannel, PlaceNames, CarriedAre
  <2>3. CASE msg.kind = "other"
    <3>1. msg.tickers = <<>>
      BY <2>2, <2>3, MsgsAreTyped
    <3> QED
      BY <1>1, <2>1, <2>3, <3>1, PlaceNames, DiscardKeeps
  <2>4. CASE msg.kind # "other"
    <3>1. msg \in Carried("distributor")
      BY <2>2, <2>4, CarriedAre
    <3> QED
      BY <1>1, <2>1, <2>4, <3>1, PlaceNames, TakeKeeps
  <2> QED
    BY <2>3, <2>4
<1>3. CASE DistributorSends
  <2> DEFINE msg == Head(held["distributor"])
             out_ == IF msg.kind = "trade" THEN "rawAggTrade" ELSE "rawMiniTicker"
  <2>1. /\ pc["distributor"] = "sending" /\ HasRoom(out_) /\ chan' = Put(out_, msg)
        /\ To("distributor", "selecting", <<>>) /\ UNCHANGED panic
    BY <1>3 DEF DistributorSends
  <2>2. /\ held["distributor"] # <<>> /\ Tail(held["distributor"]) = <<>>
        /\ held["distributor"] \in Seq(Carried("distributor"))
    BY <2>1, PlaceNames, EmptyHands
  <2>3. msg \in Msgs /\ msg.kind \in {"trade", "array", "broken"}
    BY <2>2, CarriedAre, MsgsAreTyped DEF Kinds
  <2>4. msg \in Carried(out_)
    BY <2>3, CarriedAre
  <2>5. out_ \in Channels /\ out_ \in MessagePlaces /\ "selecting" \in Steps
    BY PlaceNames DEF Steps
  <2> QED
    BY <1>1, <2>1, <2>2, <2>4, <2>5, PlaceNames, SendKeeps
<1>4. CASE DistributorReturns
  <2>1. /\ pc["distributor"] = "selecting" \/ interrupted
        /\ interrupted \/ chan["rawMsgs"].closed
        /\ Return("distributor", {"rawMiniTicker", "rawAggTrade"}) /\ UNCHANGED panic
    BY <1>4 DEF DistributorReturns, IsEmptied
  <2>2. interrupted
    BY <2>1, InChannel, PlaceNames
  <2> QED
    BY <1>1, <2>1, <2>2, PlaceNames, ReturnKeeps
<1>5. CASE TakeTrade
  <2>1. /\ chan["rawAggTrade"].buf # <<>> /\ chan' = Take("rawAggTrade")
        /\ UNCHANGED <<pc, held>> /\ UNCHANGED panic
    BY <1>5 DEF TakeTrade
  <2>2. Head(chan["rawAggTrade"].buf).tickers = <<>>
    BY <2>1, InChannel, PlaceNames, CarriedAre, MsgsAreTyped
  <2> QED
    BY <1>1, <2>1, <2>2, PlaceNames, DiscardKeeps
<1> QED
  BY <1>2, <1>3, <1>4, <1>5 DEF Distributor

(* The converter takes an array apart: its tickers go from the channel to  *)
(* the converter, in their order.                                          *)
LEMMA ArrayKeeps ==
    ASSUME DailyInv, pc["converter"] = "selecting", chan["rawMiniTicker"].buf # <<>>,
           chan' = Take("rawMiniTicker"),
           NEW xs, xs = Head(chan["rawMiniTicker"].buf).tickers, xs # <<>>,
           To("converter", "sending", xs),
           UNCHANGED <<received, producing, interrupted, panic, kafka>>
    PROVE  DailyInv'
<1> DEFINE x == "rawMiniTicker"
           y == "converter"
<1>1. /\ EachOnce /\ Typed /\ Channeled /\ received \in 0..Len(Feed)
      /\ pc \in [Goroutines -> Steps] /\ DOMAIN held = Goroutines
  BY TypeOKHas DEF DailyInv
<1>2. /\ x \in Channels /\ y \in Goroutines \ {"producer"} /\ x \in Places /\ y \in Places
      /\ x # y /\ x \in MessagePlaces /\ y \notin MessagePlaces
  BY PlaceNames, Names
<1>3. /\ held'[y] = xs
      /\ \A h \in Goroutines \ {y} : held'[h] = held[h]
  BY <1>1, <1>2, ToIs
<1>4. /\ chan'[x].buf = Tail(chan[x].buf)
      /\ \A d \in Channels \ {x} : chan'[d] = chan[d]
      /\ \A d \in Channels : chan'[d].closed = chan[d].closed
      /\ Channeled'
  BY <1>1, <1>2, TakeIs
<1>5. UNCHANGED <<batchBuffer, interrupted, published, refused, panic>>
  BY DEF producing, kafka
<1>6. held[y] = <<>>
  BY <1>2, EmptyHands
<1>7. /\ Contents(x) # <<>> /\ Contents(x)' = Tail(Contents(x)) /\ xs = Head(Contents(x)).tickers
      /\ Contents(y) = <<>> /\ Contents(y)' = xs
      /\ \A z \in Places \ {x, y} : Contents(z)' = Contents(z)
  <2>1. Contents(x) = chan[x].buf /\ Contents(x)' = chan'[x].buf
    BY <1>2, ContentsAre
  <2>2. Contents(y) = held[y] /\ Contents(y)' = held'[y]
    BY <1>2, ContentsAre
  <2> QED
    BY <1>3, <1>4, <1>5, <1>6, <2>1, <2>2, OthersStay
<1>8. Contents(x) \in Seq(Carried(x)) /\ Once(At(x)) /\ xs \in Seq(Tickers)
  <2>1. Contents(x) \in Seq(Carried(x)) /\ Once(At(x))
    BY <1>1, <1>2 DEF Typed, EachOnce
  <2>2. Head(Contents(x)) \in Msgs
    BY <1>7, <2>1, CarriedAre
  <2> QED
    BY <1>7, <2>1, <2>2, MsgsAreTyped
<1> HIDE DEF x, y
<1> DEFINE M == Range(xs)
<1>9. /\ Have(x) = Have(x)' \cup M /\ Have(x)' \cap M = {} /\ Once(At(x))' /\ Once(<<xs>>)
  <2>1. TickersOf(x, Head(Contents(x))) = M
    BY <1>2, <1>7 DEF TickersOf
  <2> QED
    BY <1>2, <1>7, <1>8, <2>1, TakeAt
<1>10. Have(y) = {} /\ Have(y)' = M /\ Once(At(y))'
  <2>1. Have(y) = {}
    BY <1>2, <1>7, EmptyAt
  <2>2. Of(<<xs>>) = M
    BY DEF Of
  <2> QED
    BY <1>2, <1>7, <1>9, <2>1, <2>2 DEF Have, At
<1>11. \A z \in Places \ {x, y} : Have(z)' = Have(z) /\ (Once(At(z))' <=> Once(At(z)))
  BY <1>7, SameAt
<1> HIDE DEF M
<1>12. Typed'
  <2>1. Contents(x)' \in Seq(Carried(x))
    BY <1>7, <1>8
  <2>2. Contents(y)' \in Seq(Carried(y))
    BY <1>2, <1>7, <1>8, CarriedAre
  <2>3. \A z \in Places \ {x, y} : Contents(z)' \in Seq(Carried(z))
    BY <1>1, <1>7 DEF Typed
  <2> QED
    BY <2>1, <2>2, <2>3 DEF Typed
<1>13. EachOnce'
  <2>1. UNCHANGED Written /\ UNCHANGED Received
    BY <1>5 DEF Written, Received
  <2>2. \A z \in Places : Once(At(z))'
    BY <1>1, <1>9, <1>10, <1>11 DEF EachOnce
  <2>3. \A z \in Places : Have(z)' \cap Written = {} /\ Have(z)' \subseteq Received
    BY <1>1, <1>2, <1>9, <1>10, <1>11 DEF EachOnce
  <2>4. \A z, w \in Places : z # w => Have(z)' \cap Have(w)' = {}
    <3>1. \A z \in Places \ {x, y} : Have(z)' \cap Have(x) = {}
      BY <1>1, <1>2, <1>11 DEF EachOnce
    <3>2. \A z, w \in Places \ {x, y} : z # w => Have(z)' \cap Have(w)' = {}
      BY <1>1, <1>11 DEF EachOnce
    <3> QED
      BY <1>9, <1>10, <3>1, <3>2
  <2>5. ASSUME ~interrupted', Alive', NEW t \in Received
        PROVE  t \in Written \/ \E z \in Places : t \in Have(z)'
    <3>1. ~interrupted /\ Alive
      BY <1>5, <2>5 DEF Alive
    <3>2. t \in Written \/ \E z \in Places : t \in Have(z)
      BY <1>1, <3>1 DEF EachOnce
    <3> QED
      BY <1>2, <1>9, <1>10, <1>11, <3>2
  <2>6. Written \subseteq Received
    BY <1>1 DEF EachOnce
  <2> QED
    BY <2>1, <2>2, <2>3, <2>4, <2>5, <2>6 DEF EachOnce
<1>14. received' \in 0..Len(Feed) /\ "sending" \in Steps
  BY <1>1 DEF Steps
<1>15. To(y, "sending", xs) /\ y = "converter"
  BY DEF y
<1>16. \A d \in Channels : chan'[d].closed => chan[d].closed \/ interrupted
  BY <1>4
<1> QED
  BY <1>2, <1>4, <1>12, <1>13, <1>14, <1>15, <1>16, GoesOn

(* Every step of the converter.                                            *)
LEMMA ConverterStepKeeps ==
    ASSUME DailyInv, Converter
    PROVE  DailyInv'
<1>1. UNCHANGED <<received, producing, interrupted, kafka>>
  BY DEF Converter
<1>2. {"selecting", "waiting", "waiting to go on"} \subseteq Steps \ {"sending"}
  BY DEF Steps
<1>3. CASE Convert
  <2> DEFINE msg == Head(chan["rawMiniTicker"].buf)
  <2>1. /\ pc["converter"] = "selecting" /\ chan["rawMiniTicker"].buf # <<>>
        /\ chan' = Take("rawMiniTicker") /\ UNCHANGED panic
    BY <1>3 DEF Convert
  <2>2. msg \in Msgs /\ msg.kind \in {"array", "broken"} /\ (msg.kind = "broken" => msg.tickers = <<>>)
    BY <2>1, InChannel, PlaceNames, CarriedAre, MsgsAreTyped
  <2>3. held["converter"] = <<>>
    BY <2>1, PlaceNames, EmptyHands
  <2>4. CASE msg.kind = "broken"
    <3>1. UNCHANGED <<pc, held>>
      BY <1>3, <2>4 DEF Convert
    <3> QED
      BY <1>1, <2>1, <2>2, <2>4, <3>1, PlaceNames, DiscardKeeps
  <2>5. CASE msg.kind = "array" /\ interrupted
    <3>1. To("converter", "waiting to go on", <<>>)
      BY <1>3, <2>5 DEF Convert
    <3> QED
      BY <1>1, <1>2, <2>1, <2>3, <2>5, <3>1, PlaceNames, DiscardKeeps
  <2>6. CASE msg.kind = "array" /\ ~interrupted
    <3>1. To("converter", IF msg.tickers = <<>> THEN "selecting" ELSE "sending", msg.tickers)
      BY <1>3, <2>6 DEF Convert
    <3>2. CASE msg.tickers = <<>>
      <4>1. To("converter", "selecting", <<>>)
        BY <3>1, <3>2
      <4> QED
        BY <1>1, <1>2, <2>1, <2>3, <3>2, <4>1, PlaceNames, DiscardKeeps
    <3>3. CASE msg.tickers # <<>>
      <4>1. To("converter", "sending", msg.tickers)
        BY <3>1, <3>3
      <4> QED
        BY <1>1, <2>1, <3>3, <4>1, ArrayKeeps
    <3> QED
      BY <3>2, <3>3
  <2> QED
    BY <2>2, <2>4, <2>5, <2>6
<1>4. CASE ConverterSends
  <2> DEFINE left == Tail(held["converter"])
             step == IF left = <<>> THEN "selecting" ELSE "sending"
  <2>1. /\ pc["converter"] = "sending" /\ HasRoom("worker")
        /\ chan' = Put("worker", Head(held["converter"]))
        /\ To("converter", step, left) /\ UNCHANGED panic
    BY <1>4 DEF ConverterSends
  <2>2. held["converter"] # <<>> /\ held["converter"] \in Seq(Carried("converter"))
    BY <2>1, PlaceNames, EmptyHands
  <2>3. Head(held["converter"]) \in Carried("worker")
    BY <2>2, PlaceNames, Names, CarriedAre
  <2>4. step \in Steps /\ (step = "sending" <=> left # <<>>) /\ step \in {"sending", "selecting"}
    BY DEF Steps
  <2> QED
    BY <1>1, <2>1, <2>3, <2>4, PlaceNames, SendKeeps
<1>5. CASE ConverterCancelled
  BY <1>1, <1>2, <1>5, PlaceNames, StepKeeps DEF ConverterCancelled
<1>6. CASE ConverterGoesOn
  <2>1. /\ pc["converter"] = "waiting to go on" /\ To("converter", "selecting", <<>>)
        /\ UNCHANGED <<chan, panic>>
    BY <1>6 DEF ConverterGoesOn
  <2>2. held["converter"] = <<>>
    BY <2>1, PlaceNames, EmptyHands
  <2> QED
    BY <1>1, <1>2, <2>1, <2>2, PlaceNames, StepKeeps
<1>7. CASE ConverterReturns
  <2>1. /\ interrupted \/ chan["rawMiniTicker"].closed \/ pc["converter"] = "waiting"
        /\ Return("converter", {"worker", "dailyStat"}) /\ UNCHANGED panic
    BY <1>7 DEF ConverterReturns, IsEmptied
  <2>2. interrupted
    BY <2>1, InChannel, PlaceNames DEF DailyInv, Closing
  <2> QED
    BY <1>1, <2>1, <2>2, PlaceNames, ReturnKeeps
<1> QED
  BY <1>3, <1>4, <1>5, <1>6, <1>7 DEF Converter

-------------------------------------------------------------------------------
(* The workers and the maker of Kafka's messages.                          *)

(* Every step of a worker.                                                 *)
LEMMA WorkerKeeps ==
    ASSUME DailyInv, NEW w \in Workers, Worker(w)
    PROVE  DailyInv'
<1>1. UNCHANGED <<received, producing, interrupted, kafka>>
  BY DEF Worker
<1>2. w \in Goroutines \ {"producer"} /\ w \notin MessagePlaces /\ w # "converter" /\ w # "maker"
  BY PlaceNames
<1>3. {"selecting", "done"} \subseteq Steps \ {"sending"}
  BY DEF Steps
<1>4. CASE WorkerTakes(w)
  <2> DEFINE t == Head(chan["worker"].buf)
  <2>1. /\ pc[w] = "selecting" /\ chan["worker"].buf # <<>>
        /\ IF interrupted THEN To(w, "done", <<>>) ELSE To(w, "sending", <<t>>)
        /\ chan' = Take("worker") /\ UNCHANGED panic
    BY <1>4 DEF WorkerTakes
  <2>2. held[w] = <<>>
    BY <1>2, <2>1, EmptyHands
  <2>3. CASE interrupted
    <3>1. To(w, "done", <<>>)
      BY <2>1, <2>3
    <3> QED
      BY <1>1, <1>2, <1>3, <2>1, <2>2, <2>3, <3>1, PlaceNames, DiscardKeeps
  <2>4. CASE ~interrupted
    <3>1. To(w, "sending", <<t>>)
      BY <2>1, <2>4
    <3>2. t \in Carried(w)
      BY <1>2, <2>1, InChannel, PlaceNames, Names, CarriedAre
    <3> QED
      BY <1>1, <1>2, <2>1, <3>1, <3>2, PlaceNames, TakeKeeps
  <2> QED
    BY <2>3, <2>4
<1>5. CASE WorkerSends(w)
  <2>1. pc[w] = "sending"
    BY <1>5 DEF WorkerSends
  <2>2. CASE chan["dailyStat"].closed
    <3>1. Panics("closed channel")
      BY <1>5, <2>2 DEF WorkerSends
    <3>2. interrupted
      BY <2>2, InChannel, PlaceNames
    <3> QED
      BY <1>1, <3>1, <3>2, PanicKeeps
  <2>3. CASE ~chan["dailyStat"].closed
    <3>1. /\ HasRoom("dailyStat") /\ chan' = Put("dailyStat", Head(held[w]))
          /\ To(w, "selecting", <<>>) /\ UNCHANGED panic
      BY <1>5, <2>3 DEF WorkerSends
    <3>2. held[w] # <<>> /\ Tail(held[w]) = <<>> /\ held[w] \in Seq(Carried(w))
      BY <1>2, <2>1, EmptyHands
    <3>3. Head(held[w]) \in Carried("dailyStat")
      BY <1>2, <3>2, PlaceNames, Names, CarriedAre
    <3> QED
      BY <1>1, <1>2, <1>3, <2>1, <3>1, <3>2, <3>3, PlaceNames, SendKeeps
  <2> QED
    BY <2>2, <2>3
<1>6. CASE WorkerReturns(w)
  <2>1. /\ pc[w] = "selecting" /\ Return(w, {}) /\ UNCHANGED panic
    BY <1>6 DEF WorkerReturns
  <2>2. held[w] = <<>>
    BY <1>2, <2>1, EmptyHands
  <2> QED
    BY <1>1, <1>2, <2>1, <2>2, ReturnKeeps
<1> QED
  BY <1>4, <1>5, <1>6 DEF Worker

(* Every step of the maker.                                                *)
LEMMA MakerKeeps ==
    ASSUME DailyInv, KafkaMsg
    PROVE  DailyInv'
<1>1. UNCHANGED <<received, producing, interrupted, kafka>>
  BY DEF KafkaMsg
<1>2. {"selecting", "returning"} \subseteq Steps \ {"sending"}
  BY DEF Steps
<1>3. CASE MakeKafkaMsg
  <2> DEFINE t == Head(chan["dailyStat"].buf)
  <2>1. pc["maker"] = "selecting" /\ chan["dailyStat"].buf # <<>>
    BY <1>3 DEF MakeKafkaMsg
  <2>2. held["maker"] = <<>>
    BY <2>1, PlaceNames, EmptyHands
  <2>3. CASE Panics("division by zero")
    BY <1>1, <2>3, PanicKeeps
  <2>4. CASE /\ IF interrupted THEN To("maker", "returning", <<>>)
                               ELSE To("maker", "sending", <<t>>)
             /\ chan' = Take("dailyStat") /\ UNCHANGED panic
    <3>1. CASE interrupted
      <4>1. To("maker", "returning", <<>>)
        BY <2>4, <3>1
      <4> QED
        BY <1>1, <1>2, <2>1, <2>2, <2>4, <3>1, <4>1, PlaceNames, DiscardKeeps
    <3>2. CASE ~interrupted
      <4>1. To("maker", "sending", <<t>>)
        BY <2>4, <3>2
      <4>2. t \in Carried("maker")
        BY <2>1, InChannel, PlaceNames, Names, CarriedAre
      <4> QED
        BY <1>1, <2>1, <2>4, <4>1, <4>2, PlaceNames, TakeKeeps
    <3> QED
      BY <3>1, <3>2
  <2> QED
    BY <1>3, <2>3, <2>4 DEF MakeKafkaMsg
<1>4. CASE KafkaMsgSends
  <2>1. /\ pc["maker"] = "sending" /\ HasRoom("kafkaMsg")
        /\ chan' = Put("kafkaMsg", Head(held["maker"]))
        /\ To("maker", "selecting", <<>>) /\ UNCHANGED panic
    BY <1>4 DEF KafkaMsgSends
  <2>2. held["maker"] # <<>> /\ Tail(held["maker"]) = <<>> /\ held["maker"] \in Seq(Carried("maker"))
    BY <2>1, PlaceNames, EmptyHands
  <2>3. Head(held["maker"]) \in Carried("kafkaMsg")
    BY <2>2, PlaceNames, Names, CarriedAre
  <2> QED
    BY <1>1, <1>2, <2>1, <2>2, <2>3, PlaceNames, SendKeeps
<1>5. CASE KafkaMsgReturns
  <2>1. /\ pc["maker"] # "sending"
        /\ interrupted \/ chan["dailyStat"].closed \/ pc["maker"] = "returning"
        /\ Return("maker", {"kafkaMsg"}) /\ UNCHANGED panic
    BY <1>5 DEF KafkaMsgReturns, IsEmptied
  <2>2. interrupted
    BY <2>1, InChannel, PlaceNames DEF DailyInv, Closing
  <2> QED
    BY <1>1, <2>1, <2>2, PlaceNames, ReturnKeeps
<1> QED
  BY <1>3, <1>4, <1>5 DEF KafkaMsg

-------------------------------------------------------------------------------
(* The producer goes on; it has its tickers in the buffer.                 *)
LEMMA ProducerGoesOn ==
    ASSUME DailyInv, NEW step \in Steps \ {"sending"}, ProducerTo(step) \/ UNCHANGED pc,
           UNCHANGED <<held, received, interrupted, panic>>, timerFired' \in BOOLEAN,
           Channeled', EachOnce', Typed',
           \A d \in Channels : chan'[d].closed => chan[d].closed,
           published' \subseteq Tickers, refused' \subseteq Tickers,
           Len(batchBuffer') <= BatchSize,
           pc'["producer"] = "selecting" => Len(batchBuffer') < BatchSize
    PROVE  DailyInv'
<1>1. TypeOK /\ Shape /\ Closing
  BY DEF DailyInv
<1>2. pc \in [Goroutines -> Steps] /\ "producer" \in Goroutines
  BY <1>1, Names DEF TypeOK, Named
<1>3. /\ pc' \in [Goroutines -> Steps]
      /\ \A g \in Goroutines \ {"producer"} : pc'[g] = pc[g]
      /\ pc'["producer"] = pc["producer"] \/ pc'["producer"] # "sending"
  BY <1>2 DEF ProducerTo
<1>4. {timerFired', interrupted'} \subseteq BOOLEAN
  BY <1>1 DEF TypeOK
<1>5. TypeOK'
  BY <1>1, <1>3, <1>4, TypeOKHas DEF TypeOK, Channeled, Typed
<1>6. Shape'
  <2>1. pc["producer"] # "sending" /\ pc'["producer"] # "sending"
    BY <1>1, <1>3 DEF Shape
  <2> QED
    BY <1>1, <1>2, <1>3, <2>1 DEF Shape
<1>7. Closing'
  <2>1. interrupted' <=> interrupted
    <3>1. interrupted \in BOOLEAN /\ interrupted' = interrupted
      BY <1>1 DEF TypeOK
    <3> QED
      BY <3>1, SameInterrupt
  <2>2. \A d \in Channels : chan'[d].closed => interrupted
    BY <1>1 DEF Closing
  <2>3. ChannelsCloseOnInterrupt'
    BY <1>1, <2>1 DEF Closing, ChannelsCloseOnInterrupt
  <2>4. pc'["converter"] = pc["converter"] /\ pc'["maker"] = pc["maker"]
    BY <1>3, PlaceNames
  <2> QED
    BY <1>1, <2>1, <2>2, <2>3, <2>4 DEF Closing
<1> QED
  BY <1>5, <1>6, <1>7 DEF DailyInv

-------------------------------------------------------------------------------
(* The producer, the interrupt and the theorems.                           *)

LEMMA NoneIsTyped == \A S : <<>> \in Seq(S)
  OBVIOUS

(* The producer and its timer go on, and no ticker does.                   *)
LEMMA NothingMoves ==
    ASSUME DailyInv, UNCHANGED <<held, chan, batchBuffer, received, interrupted, panic, kafka>>
    PROVE  EachOnce' /\ Typed' /\ Channeled'
           /\ published' \subseteq Tickers /\ refused' \subseteq Tickers
           /\ \A d \in Channels : chan'[d].closed => chan[d].closed
<1>1. EachOnce /\ Typed /\ Channeled /\ published \subseteq Tickers /\ refused \subseteq Tickers
  BY TypeOKHas DEF DailyInv
<1>2. \A z \in Places : Contents(z)' = Contents(z)
  BY OthersStay
<1>3. "producer" \in Places
  BY Names DEF Named
<1>4. UNCHANGED <<published, refused>> /\ (Alive' => Alive)
  BY DEF kafka, Alive
<1>5. interrupted => interrupted'
  BY TypeOKHas DEF DailyInv
<1>6. EachOnce' /\ Typed'
  BY <1>1, <1>2, <1>3, <1>4, <1>5, DropKeeps
<1> QED
  BY <1>1, <1>4, <1>6 DEF Channeled

(* The producer takes a tick or ends, or its timer fires.                  *)
LEMMA IdleProducerKeeps ==
    ASSUME DailyInv, BatchTimer \/ ProducerTakesTick \/ ProducerEnds
    PROVE  DailyInv'
<1>1. UNCHANGED <<held, chan, batchBuffer, received, interrupted, panic, kafka>>
  BY DEF BatchTimer, ProducerTakesTick, ProducerEnds, stages, producing
<1>2. /\ EachOnce' /\ Typed' /\ Channeled'
      /\ published' \subseteq Tickers /\ refused' \subseteq Tickers
      /\ \A d \in Channels : chan'[d].closed => chan[d].closed
  BY <1>1, NothingMoves
<1>3. /\ Len(batchBuffer) <= BatchSize /\ timerFired \in BOOLEAN
      /\ pc["producer"] = "selecting" => Len(batchBuffer) < BatchSize
      /\ pc \in [Goroutines -> Steps] /\ "producer" \in Goroutines
  BY Names DEF DailyInv, TypeOK, Shape, Named
<1>4. {"writing", "last write", "done"} \subseteq Steps \ {"sending"}
  BY DEF Steps
<1>5. timerFired' \in BOOLEAN
  BY <1>3 DEF BatchTimer, ProducerTakesTick, ProducerEnds, producing
<1>6. CASE UNCHANGED pc
  BY <1>1, <1>2, <1>3, <1>4, <1>5, <1>6, ProducerGoesOn
<1>7. ASSUME NEW step \in {"writing", "last write", "done"}, ProducerTo(step)
      PROVE  DailyInv'
  <2>1. pc'["producer"] # "selecting"
    BY <1>3, <1>7 DEF ProducerTo
  <2> QED
    BY <1>1, <1>2, <1>3, <1>4, <1>5, <1>7, <2>1, ProducerGoesOn
<1> QED
  BY <1>6, <1>7 DEF BatchTimer, ProducerTakesTick, ProducerEnds, stages

(* A message comes to the buffer, which is written when it is full.        *)
LEMMA ProducerTakesKeeps ==
    ASSUME DailyInv, ProducerTakesMsg
    PROVE  DailyInv'
<1> DEFINE e == Head(chan["kafkaMsg"].buf)
<1>1. /\ pc["producer"] = "selecting" /\ chan["kafkaMsg"].buf # <<>>
      /\ batchBuffer' = Append(batchBuffer, e) /\ chan' = Take("kafkaMsg")
      /\ IF Len(batchBuffer') >= BatchSize THEN ProducerTo("writing") ELSE UNCHANGED pc
      /\ UNCHANGED <<held, received, timerFired, interrupted, panic, kafka>>
  BY DEF ProducerTakesMsg
<1>2. /\ EachOnce /\ Typed /\ Channeled /\ published \subseteq Tickers /\ refused \subseteq Tickers
      /\ pc \in [Goroutines -> Steps] /\ timerFired \in BOOLEAN /\ interrupted \in BOOLEAN
  BY TypeOKHas DEF DailyInv
<1>3. /\ "kafkaMsg" \in Channels /\ "kafkaMsg" \notin MessagePlaces
      /\ "producer" \in Goroutines /\ "producer" \notin MessagePlaces /\ "producer" \notin Channels
      /\ "kafkaMsg" \in Places /\ "producer" \in Places
  BY PlaceNames, Names DEF Named, MessagePlaces, Channels
<1>4. /\ chan'["kafkaMsg"].buf = Tail(chan["kafkaMsg"].buf)
      /\ \A d \in Channels \ {"kafkaMsg"} : chan'[d] = chan[d]
      /\ \A d \in Channels : chan'[d].closed = chan[d].closed
      /\ Channeled'
  BY <1>1, <1>2, <1>3, TakeIs
<1>5. /\ Contents("kafkaMsg") = chan["kafkaMsg"].buf
      /\ Contents("kafkaMsg")' = chan'["kafkaMsg"].buf
      /\ Contents("producer") = batchBuffer /\ Contents("producer")' = batchBuffer'
  BY <1>3, ContentsAre
<1>6. \A z \in Places \ {"kafkaMsg", "producer"} : Contents(z)' = Contents(z)
  BY <1>1, <1>3, <1>4, ContentsAre, Names
<1>7. e \in Carried("producer")
  BY <1>1, <1>3, InChannel, CarriedAre
<1>8. interrupted => interrupted'
  BY <1>1, <1>2, SameInterrupt
<1>9. UNCHANGED <<received, published, refused>> /\ (Alive' => Alive)
  BY <1>1 DEF kafka, Alive
<1>10. EachOnce' /\ Typed'
  BY <1>1, <1>2, <1>3, <1>4, <1>5, <1>6, <1>7, <1>8, <1>9, TransferKeeps
<1>11. batchBuffer \in Seq(Tickers) /\ Len(batchBuffer) < BatchSize /\ BatchSize \in Nat
  BY <1>1, <1>2, <1>3, <1>5, CarriedAre, PipelineAssumption DEF Typed, DailyInv, Shape
<1>12. Len(batchBuffer') = Len(batchBuffer) + 1 /\ Len(batchBuffer') <= BatchSize
  BY <1>1, <1>11
<1>13. pc'["producer"] = "selecting" => Len(batchBuffer') < BatchSize
  BY <1>1, <1>2, <1>3, <1>11, <1>12 DEF ProducerTo
<1>14. "writing" \in Steps \ {"sending"} /\ timerFired' \in BOOLEAN
  BY <1>1, <1>2 DEF Steps
<1>15. ProducerTo("writing") \/ UNCHANGED pc
  BY <1>1
<1> QED
  BY <1>1, <1>2, <1>4, <1>9, <1>10, <1>12, <1>13, <1>14, <1>15, ProducerGoesOn

(* A write puts every ticker of the buffer on one of the two sides.        *)
LEMMA ProducerWritesKeeps ==
    ASSUME DailyInv, ProducerWrites
    PROVE  DailyInv'
<1>1. PICK taken \in SUBSET Range(batchBuffer) : SendToKafka(taken)
  BY DEF ProducerWrites
<1>2. /\ published' = published \cup taken
      /\ refused' = refused \cup (Range(batchBuffer) \ taken)
      /\ batchBuffer' = <<>>
  BY <1>1 DEF SendToKafka
<1>3. /\ UNCHANGED <<held, chan, received, interrupted, panic>>
      /\ \/ ProducerTo("selecting") /\ timerFired' = FALSE
         \/ ProducerTo("done") /\ UNCHANGED timerFired
  BY DEF ProducerWrites
<1>4. /\ EachOnce /\ Typed /\ Channeled /\ published \subseteq Tickers /\ refused \subseteq Tickers
      /\ pc \in [Goroutines -> Steps] /\ timerFired \in BOOLEAN /\ interrupted \in BOOLEAN
  BY TypeOKHas DEF DailyInv
<1>5. "producer" \in Places /\ "producer" \in Goroutines /\ "producer" \notin MessagePlaces
  BY Names DEF Named, MessagePlaces
<1>6. /\ Contents("producer") = batchBuffer /\ Contents("producer")' = <<>>
      /\ \A z \in Places \ {"producer"} : Contents(z)' = Contents(z)
  BY <1>2, <1>3, ContentsAre, Names
<1>7. Have("producer") = Range(batchBuffer) /\ Have("producer")' = {} /\ Once(At("producer"))'
  <2>1. \A q : Of(<<q>>) = Range(q)
    BY DEF Of
  <2>2. Range(<<>>) = {} /\ Once(<<<<>>>>)
    BY DEF Range, Once
  <2> QED
    BY <1>5, <1>6, <2>1, <2>2 DEF Have, At
<1>8. \A z \in Places \ {"producer"} : Have(z)' = Have(z) /\ (Once(At(z))' <=> Once(At(z)))
  BY <1>6, SameAt
<1>9. batchBuffer \in Seq(Tickers) /\ Range(batchBuffer) \subseteq Tickers
  <2>1. batchBuffer \in Seq(Tickers)
    BY <1>4, <1>5, <1>6, CarriedAre DEF Typed
  <2> QED
    BY <2>1 DEF Range
<1>10. Typed'
  <2>1. Contents("producer")' \in Seq(Carried("producer"))
    BY <1>6, NoneIsTyped
  <2> QED
    BY <1>4, <1>6, <2>1 DEF Typed
<1>11. EachOnce'
  <2>1. Written' = Written \cup Have("producer")
    BY <1>2, <1>7 DEF Written
  <2>2. Received' = Received
    BY <1>3 DEF Received
  <2>3. \A z \in Places : Once(At(z))'
    BY <1>4, <1>7, <1>8 DEF EachOnce
  <2>4. \A z \in Places : Have(z)' \cap Written' = {} /\ Have(z)' \subseteq Received
    BY <1>4, <1>5, <1>7, <1>8, <2>1 DEF EachOnce
  <2>5. \A z, w \in Places : z # w => Have(z)' \cap Have(w)' = {}
    BY <1>4, <1>7, <1>8 DEF EachOnce
  <2>6. Written' \subseteq Received
    BY <1>4, <1>5, <2>1 DEF EachOnce
  <2>7. ASSUME ~interrupted', Alive', NEW t \in Received
        PROVE  t \in Written' \/ \E z \in Places : t \in Have(z)'
    <3>1. ~interrupted /\ Alive
      BY <1>3, <2>7 DEF Alive
    <3>2. t \in Written \/ \E z \in Places : t \in Have(z)
      BY <1>4, <3>1 DEF EachOnce
    <3> QED
      BY <1>8, <2>1, <3>2
  <2> QED
    BY <2>2, <2>3, <2>4, <2>5, <2>6, <2>7 DEF EachOnce
<1>12. published' \subseteq Tickers /\ refused' \subseteq Tickers
  BY <1>2, <1>4, <1>9
<1>13. Len(batchBuffer') = 0 /\ BatchSize \in Nat \ {0} /\ Len(batchBuffer') <= BatchSize
       /\ Len(batchBuffer') < BatchSize
  BY <1>2, PipelineAssumption
<1>14. Channeled' /\ \A d \in Channels : chan'[d].closed => chan[d].closed
  BY <1>3, <1>4 DEF Channeled
<1>15. {"selecting", "done"} \subseteq Steps \ {"sending"} /\ timerFired' \in BOOLEAN
  BY <1>3, <1>4 DEF Steps
<1>16. ProducerTo("selecting") \/ ProducerTo("done")
  BY <1>3
<1> QED
  BY <1>3, <1>10, <1>11, <1>12, <1>13, <1>14, <1>15, <1>16, ProducerGoesOn

-------------------------------------------------------------------------------
(* The context is cancelled, and nothing else changes.                     *)
LEMMA InterruptKeeps ==
    ASSUME DailyInv, Interrupt
    PROVE  DailyInv'
<1>1. /\ UNCHANGED <<pc, held, chan, received, batchBuffer, timerFired, panic, published, refused>>
      /\ interrupted' = TRUE
  BY DEF Interrupt, stages, producing, kafka
<1>2. /\ TypeOK /\ Shape /\ Closing /\ EachOnce /\ Typed
  BY TypeOKHas DEF DailyInv
<1>3. \A z \in Places : Contents(z)' = Contents(z)
  BY <1>1, OthersStay
<1>4. "producer" \in Places
  BY Names DEF Named
<1>5. UNCHANGED <<received, published, refused>> /\ (Alive' => Alive) /\ interrupted'
  BY <1>1 DEF Alive
<1>6. EachOnce' /\ Typed'
  BY <1>2, <1>3, <1>4, <1>5, DropKeeps
<1>7. TypeOK'
  <2>1. {timerFired', interrupted'} \subseteq BOOLEAN
    BY <1>1, <1>2 DEF TypeOK
  <2> QED
    BY <1>1, <1>2, <1>6, <2>1 DEF TypeOK, Typed
<1>8. Shape'
  BY <1>1, <1>2 DEF Shape
<1>9. Closing'
  BY <1>5 DEF Closing, ChannelsCloseOnInterrupt
<1> QED
  BY <1>6, <1>7, <1>8, <1>9 DEF DailyInv

LEMMA DailyInitially == Init => DailyInv
<1> SUFFICES ASSUME Init PROVE DailyInv
  OBVIOUS
<1>1. \A x \in Places : Contents(x) = <<>>
  BY Names DEF Init, Contents
<1>2. Typed
  BY <1>1, NoneIsTyped DEF Typed
<1>3. Channeled
  <2>1. /\ DOMAIN chan = Channels
        /\ \A c \in Channels : chan[c] = [buf |-> <<>>, closed |-> FALSE]
    BY DEF Init
  <2>2. \A c \in Channels : chan[c].buf = <<>> /\ chan[c].closed = FALSE
    BY <2>1
  <2>3. \A c \in Channels : Len(chan[c].buf) <= Capacity[c]
    BY <2>2, PipelineAssumption
  <2> QED
    BY <2>1, <2>2, <2>3 DEF Channeled
<1>4. received \in 0..Len(Feed) /\ Len(batchBuffer) = 0 /\ BatchSize \in Nat \ {0}
  BY PipelineAssumption DEF Init
<1>5. pc \in [Goroutines -> Steps] /\ DOMAIN held = Goroutines
  BY DEF Init, Steps
<1>6. TypeOK
  <2>1. Len(batchBuffer) <= BatchSize
    BY <1>4
  <2>2. /\ timerFired = FALSE /\ interrupted = FALSE /\ panic = "none"
        /\ published = {} /\ refused = {}
    BY DEF Init
  <2> QED
    BY <1>2, <1>3, <1>4, <1>5, <2>1, <2>2, TypeOKHas
<1>7. Shape
  BY <1>4, Names DEF Init, Shape, Named
<1>8. Closing
  BY PlaceNames DEF Init, Closing, ChannelsCloseOnInterrupt
<1>9. EachOnce
  <2>1. \A x \in Places : Have(x) = {} /\ Once(At(x))
    BY <1>1, EmptyAt
  <2>2. Received = {}
    BY DEF Init, Received
  <2>3. Written = {}
    BY DEF Init, Written
  <2> QED
    BY <2>1, <2>2, <2>3 DEF EachOnce
<1> QED
  BY <1>6, <1>7, <1>8, <1>9 DEF DailyInv

LEMMA DailyInvariance == Spec => []DailyInv
<1>1. DailyInv /\ [Next]_vars => DailyInv'
  <2> SUFFICES ASSUME DailyInv, [Next]_vars PROVE DailyInv'
    OBVIOUS
  <2>1. CASE Next
    BY <2>1, ReceiverStepKeeps, DistributorKeeps, ConverterStepKeeps, WorkerKeeps, MakerKeeps,
       IdleProducerKeeps, ProducerTakesKeeps, ProducerWritesKeeps, InterruptKeeps
       DEF Next, Producer
  <2>2. CASE UNCHANGED vars
    <3>1. /\ UNCHANGED <<held, chan, batchBuffer, received, interrupted, panic, kafka>>
          /\ UNCHANGED <<pc, producing>>
      BY <2>2 DEF vars, kafka, producing
    <3>2. /\ EachOnce' /\ Typed' /\ Channeled'
          /\ \A d \in Channels : chan'[d].closed => chan[d].closed
      BY <3>1, NothingMoves
    <3> QED
      BY <3>1, <3>2, StaysPut
  <2> QED
    BY <2>1, <2>2
<1> QED
  BY <1>1, DailyInitially, PTL DEF Spec

(* A ticker that was received is in one place: none is passed on twice,    *)
(* none is written again after a write that failed, and until an interrupt *)
(* or a panic none is missing, whatever the feed, the capacities of the    *)
(* channels and the number of workers (convertingDailyStat.go:74,120,165,  *)
(* producer.go:189).                                                       *)
THEOREM TickersAreOnce == Spec => []EachTickerOnce
<1>1. DailyInv => EachTickerOnce
  <2> SUFFICES ASSUME DailyInv PROVE EachTickerOnce
    OBVIOUS
  <2>1. ~interrupted /\ Alive => Received = (UNION {Have(x) : x \in Places}) \cup Written
    <3> SUFFICES ASSUME ~interrupted, Alive
                 PROVE  Received = (UNION {Have(x) : x \in Places}) \cup Written
      OBVIOUS
    <3>1. \A t \in Received : t \in Written \/ \E x \in Places : t \in Have(x)
      BY DEF DailyInv, EachOnce
    <3>2. Written \subseteq Received /\ \A x \in Places : Have(x) \subseteq Received
      BY DEF DailyInv, EachOnce
    <3>3. \A t : t \in UNION {Have(x) : x \in Places} <=> \E x \in Places : t \in Have(x)
      OBVIOUS
    <3> QED
      BY <3>1, <3>2, <3>3
  <2> QED
    BY <2>1 DEF EachTickerOnce, DailyInv, EachOnce, Written
<1> QED
  BY <1>1, DailyInvariance, PTL

(* Of a send on a closed channel the process panics only after an          *)
(* interrupt (convertingDailyStat.go:27-33,74,120,165), though a nil       *)
(* connection can end it at any time (receive_msgs.go:68-75).              *)
THEOREM ChannelsClosedOnInterrupt == Spec => []ChannelsCloseOnInterrupt
<1>1. DailyInv => ChannelsCloseOnInterrupt
  BY DEF DailyInv, Closing
<1> QED
  BY <1>1, DailyInvariance, PTL
===============================================================================
