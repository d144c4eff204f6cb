-------------------------- MODULE DailyStatPipeline --------------------------
(***************************************************************************)
(* The Aggregator's way from Binance's mini tickers to Kafka: a chain of   *)
(* goroutines joined by bounded channels (cmd/main.go:108).                *)
(*                                                                         *)
(*   receiver --rawMsgs--> distributor --rawMiniTicker--> converter        *)
(*     --worker--> Workers --dailyStat--> maker --kafkaMsg--> producer  *)
(*                                                                         *)
(* gateway/converting/receive_msgs.go, convertingDailyStat.go and          *)
(* adapters/kaffka/producer.go.  The context main cancels on an interrupt  *)
(* ends each of them; no order between their ends is kept.                 *)
(*                                                                         *)
(* A ticker is a number, the same from the array it comes in to the Kafka  *)
(* message made of it.  A trade goes the other way at the distributor, to  *)
(* ConvertRawToSS, of which only the channel it empties is here.           *)
(***************************************************************************)
EXTENDS Naturals, FiniteSets, Sequences, Functions

CONSTANTS Feed,       \* the messages of the MiniTicker stream
          Workers,    \* goroutines of ReceiveDailyStat (4 in the code)
          Capacity,   \* channel -> its capacity (100 to 500 in the code)
          BatchSize,  \* config.BatchSize
          Priceless   \* tickers whose close price may be 0 or not a number

Channels == {"rawMsgs", "rawAggTrade", "rawMiniTicker", "worker", "dailyStat", "kafkaMsg"}

(* A message as the first byte and json.Unmarshal tell it apart: '{', '[' with *)
(* and without an array of tickers in it, and anything else, nothing included. *)
Kinds == {"trade", "array", "broken", "other"}

(* Where tickers can be; a worker is a place like the named goroutines. *)
Goroutines == {"receiver", "distributor", "converter", "maker", "producer"} \cup Workers
Places == Goroutines \cup Channels

Arrays(msgs) == [i \in DOMAIN msgs |-> msgs[i].tickers]
Of(arrays) == UNION {Range(arrays[i]) : i \in DOMAIN arrays}

(* No ticker twice, in one array or in two. *)
Once(arrays) ==
    \A i, k \in DOMAIN arrays : \A j \in DOMAIN arrays[i], l \in DOMAIN arrays[k] :
        arrays[i][j] = arrays[k][l] => i = k /\ j = l

ASSUME PipelineAssumption ==
    /\ Feed \in Seq([kind : Kinds, tickers : Seq(Nat)])
    /\ \A i \in DOMAIN Feed : Feed[i].kind # "array" => Feed[i].tickers = <<>>
    /\ Once(Arrays(Feed))
    /\ Workers # {} /\ IsFiniteSet(Workers)
    /\ Workers \cap (Channels \cup {"receiver", "distributor", "converter", "maker", "producer"}) = {}
    /\ Capacity \in [Channels -> Nat \ {0}]
    /\ BatchSize \in Nat \ {0}
    /\ Priceless \subseteq Nat

VARIABLES pc,           \* where each goroutine is
          held,         \* what each holds: messages, or tickers
          chan,         \* each channel: its contents, and whether it is closed
          received,     \* messages the receiver has had of Feed
          batchBuffer,  \* producer.batchBuffer
          timerFired,   \* batchTimer has a tick for the producer
          interrupted,  \* main's context is cancelled
          panic,        \* what the process has panicked of
          published,    \* Kafka: the tickers of the topic
          refused       \* history: tickers of failed writes that Kafka did not take

stages == <<pc, held, chan>>
producing == <<batchBuffer, timerFired>>
kafka == <<published, refused>>
vars == <<pc, held, chan, received, batchBuffer, timerFired, interrupted, panic,
          published, refused>>

Msgs == Range(Feed)
Tickers == Of(Arrays(Feed))

(* What a place may have: the distributor drops the messages that are none, *)
(* and knows a trade from a list.                                           *)
Carried(x) ==
    CASE x \in {"receiver", "rawMsgs"} -> Msgs
      [] x = "distributor" -> {msg \in Msgs : msg.kind # "other"}
      [] x = "rawAggTrade" -> {msg \in Msgs : msg.kind = "trade"}
      [] x = "rawMiniTicker" -> {msg \in Msgs : msg.kind \in {"array", "broken"}}
      [] OTHER -> Tickers

Contents(x) ==
    IF x \in Channels THEN chan[x].buf ELSE IF x = "producer" THEN batchBuffer ELSE held[x]

Steps == {"dialing", "opening", "selecting", "sending", "waiting", "waiting to go on",
          "returning", "writing", "last write", "done"}

TypeOK ==
    /\ pc \in [Goroutines -> Steps]
    /\ DOMAIN held = Goroutines /\ DOMAIN chan = Channels
    /\ \A c \in Channels : /\ chan[c] = [buf |-> chan[c].buf, closed |-> chan[c].closed]
                           /\ chan[c].closed \in BOOLEAN
                           /\ Len(chan[c].buf) <= Capacity[c]
    /\ \A x \in Places : Contents(x) \in Seq(Carried(x))
    /\ received \in 0..Len(Feed)
    /\ Len(batchBuffer) <= BatchSize
    /\ {timerFired, interrupted} \subseteq BOOLEAN
    /\ panic \in {"none", "nil connection", "closed channel", "division by zero"}
    /\ published \subseteq Tickers /\ refused \subseteq Tickers

Init ==
    /\ pc = [g \in Goroutines |-> IF g = "receiver" THEN "dialing" ELSE "selecting"]
    /\ held = [g \in Goroutines |-> <<>>]
    /\ chan = [c \in Channels |-> [buf |-> <<>>, closed |-> FALSE]]
    /\ received = 0
    /\ batchBuffer = <<>> /\ timerFired = FALSE
    /\ interrupted = FALSE /\ panic = "none"
    /\ published = {} /\ refused = {}

-----------------------------------------------------------------------------
(* Channels and goroutines.                                                *)

HasRoom(c) == ~chan[c].closed /\ Len(chan[c].buf) < Capacity[c]
Put(c, x) == [chan EXCEPT ![c].buf = Append(@, x)]
Take(c) == [chan EXCEPT ![c].buf = Tail(@)]
IsEmptied(c) == chan[c].closed /\ chan[c].buf = <<>>
Close(cs) == [c \in Channels |-> IF c \in cs THEN [chan[c] EXCEPT !.closed = TRUE] ELSE chan[c]]

To(g, step, xs) ==
    /\ pc' = [pc EXCEPT ![g] = step]
    /\ held' = [held EXCEPT ![g] = xs]

(* Goroutine g returns, and its deferred calls close the channels cs. *)
Return(g, cs) == To(g, "done", <<>>) /\ chan' = Close(cs)

(* A panic ends the process. *)
Alive == panic = "none"

Panics(cause) ==
    /\ panic' = cause
    /\ UNCHANGED stages

-----------------------------------------------------------------------------
(* ReceiveMiniTickerMessage.                                               *)

(* createClientConn fails when its retries run out, and in any case once the *)
(* context is cancelled.  Its error is logged and not returned on: the receiver *)
(* goes on with a nil connection, which panics in the call that opens the       *)
(* stream or, at the latest, in the deferred Close.                             *)
Dial ==
    /\ pc["receiver"] = "dialing"
    /\ \/ ~interrupted /\ To("receiver", "opening", <<>>) /\ UNCHANGED <<chan, panic>>
       \/ Panics("nil connection")
    /\ UNCHANGED received

(* createMiniTickerStream, with the retries it makes on the way.  Neither this *)
(* call nor Recv is sure to fail if the context is cancelled while it runs.    *)
OpenStream ==
    /\ pc["receiver"] = "opening"
    /\ To("receiver", "selecting", <<>>)
    /\ UNCHANGED <<chan, panic, received>>

(* Mutant: the receiver closes its channel behind itself, as the others do. *)
StreamEndsClosing ==
    /\ pc["receiver"] \in {"opening", "selecting"}
    /\ Return("receiver", {"rawMsgs"})
    /\ UNCHANGED <<panic, received>>

(* The retries run out, or the stream ends or fails: nothing receives again. *)
StreamEnds ==
    /\ pc["receiver"] \in {"opening", "selecting"}
    /\ Return("receiver", {})
    /\ UNCHANGED <<panic, received>>

Recv ==
    /\ pc["receiver"] = "selecting" /\ received < Len(Feed)
    /\ received' = received + 1
    /\ To("receiver", "sending", <<Feed[received + 1]>>)
    /\ UNCHANGED <<chan, panic>>

ReceiverSends ==
    /\ pc["receiver"] = "sending" /\ HasRoom("rawMsgs")
    /\ chan' = Put("rawMsgs", Head(held["receiver"]))
    /\ To("receiver", "selecting", <<>>)
    /\ UNCHANGED <<panic, received>>

ReceiverCancelled ==
    /\ pc["receiver"] \in {"opening", "selecting", "sending"} /\ interrupted
    /\ Return("receiver", {})
    /\ UNCHANGED <<panic, received>>

(* What the receiver does by itself, and what it waits for the stream to do. *)
Receiver ==
    /\ Alive
    /\ Dial \/ ReceiverSends \/ ReceiverCancelled
    /\ UNCHANGED <<producing, interrupted, kafka>>

Stream ==
    /\ Alive
    /\ OpenStream \/ Recv \/ StreamEnds
    /\ UNCHANGED <<producing, interrupted, kafka>>

-----------------------------------------------------------------------------
(* DistributeMessages.                                                     *)

Distribute ==
    /\ pc["distributor"] = "selecting" /\ chan["rawMsgs"].buf # <<>>
    /\ LET msg == Head(chan["rawMsgs"].buf)
       IN  IF msg.kind = "other"
             THEN UNCHANGED <<pc, held>>
             ELSE To("distributor", "sending", <<msg>>)
    /\ chan' = Take("rawMsgs")
    /\ UNCHANGED panic

DistributorSends ==
    /\ pc["distributor"] = "sending"
    /\ LET msg == Head(held["distributor"])
           out == IF msg.kind = "trade" THEN "rawAggTrade" ELSE "rawMiniTicker"
       IN  HasRoom(out) /\ chan' = Put(out, msg)
    /\ To("distributor", "selecting", <<>>)
    /\ UNCHANGED panic

DistributorReturns ==
    /\ \/ pc["distributor"] \in {"selecting", "sending"} /\ interrupted
       \/ pc["distributor"] = "selecting" /\ IsEmptied("rawMsgs")
    /\ Return("distributor", {"rawMiniTicker", "rawAggTrade"})
    /\ UNCHANGED panic

(* ConvertRawToSS receives a trade. *)
TakeTrade ==
    /\ chan["rawAggTrade"].buf # <<>>
    /\ chan' = Take("rawAggTrade")
    /\ UNCHANGED <<pc, held, panic>>

Distributor ==
    /\ Alive
    /\ Distribute \/ DistributorSends \/ DistributorReturns \/ TakeTrade
    /\ UNCHANGED <<received, producing, interrupted, kafka>>

-----------------------------------------------------------------------------
(* ConvertRawToArrDS and its workers, ReceiveDailyStat.                    *)

(* An array of tickers arrives.  Once interrupted, it is dropped and the loop *)
(* waits for the workers before it goes on.                                   *)
Convert ==
    /\ pc["converter"] = "selecting" /\ chan["rawMiniTicker"].buf # <<>>
    /\ LET msg == Head(chan["rawMiniTicker"].buf)
       IN  CASE msg.kind = "broken" -> UNCHANGED <<pc, held>>
             [] msg.kind = "array" /\ interrupted -> To("converter", "waiting to go on", <<>>)
             [] OTHER -> To("converter", IF msg.tickers = <<>> THEN "selecting" ELSE "sending",
                            msg.tickers)
    /\ chan' = Take("rawMiniTicker")
    /\ UNCHANGED panic

ConverterSends ==
    /\ pc["converter"] = "sending" /\ HasRoom("worker")
    /\ chan' = Put("worker", Head(held["converter"]))
    /\ LET left == Tail(held["converter"])
       IN  To("converter", IF left = <<>> THEN "selecting" ELSE "sending", left)
    /\ UNCHANGED panic

(* Mutant: the send to the workers does not look at the context. *)
ConverterNotCancelled == FALSE /\ UNCHANGED <<stages, panic>>

ConverterCancelled ==
    /\ pc["converter"] = "sending" /\ interrupted
    /\ To("converter", "waiting", <<>>)
    /\ UNCHANGED <<chan, panic>>

WorkersDone == \A w \in Workers : pc[w] = "done"

ConverterGoesOn ==
    /\ pc["converter"] = "waiting to go on" /\ WorkersDone
    /\ To("converter", "selecting", <<>>)
    /\ UNCHANGED <<chan, panic>>

(* The two returns of the select do not wait for the workers. *)
ConverterReturns ==
    /\ \/ pc["converter"] = "selecting" /\ (interrupted \/ IsEmptied("rawMiniTicker"))
       \/ pc["converter"] = "waiting" /\ WorkersDone
    /\ Return("converter", {"worker", "dailyStat"})
    /\ UNCHANGED panic

(* A worker makes the DailyStat, and drops it if the context is cancelled. *)
WorkerTakes(w) ==
    /\ pc[w] = "selecting" /\ chan["worker"].buf # <<>>
    /\ IF interrupted THEN To(w, "done", <<>>)
                      ELSE To(w, "sending", <<Head(chan["worker"].buf)>>)
    /\ chan' = Take("worker")
    /\ UNCHANGED panic

(* Mutant: a full channel drops the DailyStat, as receiveSecondStat does. *)
WorkerDrops(w) ==
    /\ pc[w] = "sending"
    /\ IF chan["dailyStat"].closed
         THEN Panics("closed channel")
         ELSE /\ chan' = IF HasRoom("dailyStat") THEN Put("dailyStat", Head(held[w])) ELSE chan
              /\ To(w, "selecting", <<>>)
              /\ UNCHANGED panic

(* The send has no way out: it waits for room, and panics once the converter *)
(* has closed the channel.                                                   *)
WorkerSends(w) ==
    /\ pc[w] = "sending"
    /\ IF chan["dailyStat"].closed
         THEN Panics("closed channel")
         ELSE /\ HasRoom("dailyStat")
              /\ chan' = Put("dailyStat", Head(held[w]))
              /\ To(w, "selecting", <<>>)
              /\ UNCHANGED panic

WorkerReturns(w) ==
    /\ pc[w] = "selecting" /\ (interrupted \/ IsEmptied("worker"))
    /\ Return(w, {})
    /\ UNCHANGED panic

Converter ==
    /\ Alive
    /\ \/ Convert \/ ConverterSends \/ ConverterCancelled \/ ConverterGoesOn
       \/ ConverterReturns
    /\ UNCHANGED <<received, producing, interrupted, kafka>>

Worker(w) ==
    /\ Alive
    /\ WorkerTakes(w) \/ WorkerSends(w) \/ WorkerReturns(w)
    /\ UNCHANGED <<received, producing, interrupted, kafka>>

-----------------------------------------------------------------------------
(* ReceiveKafkaMsg.                                                        *)

(* ChangeInPercent divides by the close price, which is whatever came. *)
MakeKafkaMsg ==
    /\ pc["maker"] = "selecting" /\ chan["dailyStat"].buf # <<>>
    /\ LET t == Head(chan["dailyStat"].buf)
       IN  \/ t \in Priceless /\ Panics("division by zero")
          \/ /\ IF interrupted THEN To("maker", "returning", <<>>)
                               ELSE To("maker", "sending", <<t>>)
             /\ chan' = Take("dailyStat")
             /\ UNCHANGED panic

KafkaMsgSends ==
    /\ pc["maker"] = "sending" /\ HasRoom("kafkaMsg")
    /\ chan' = Put("kafkaMsg", Head(held["maker"]))
    /\ To("maker", "selecting", <<>>)
    /\ UNCHANGED panic

KafkaMsgReturns ==
    /\ \/ pc["maker"] = "selecting" /\ (interrupted \/ IsEmptied("dailyStat"))
       \/ pc["maker"] = "returning"
    /\ Return("maker", {"kafkaMsg"})
    /\ UNCHANGED panic

KafkaMsg ==
    /\ Alive
    /\ MakeKafkaMsg \/ KafkaMsgSends \/ KafkaMsgReturns
    /\ UNCHANGED <<received, producing, interrupted, kafka>>

-----------------------------------------------------------------------------
(* producer.Start and sendToKafka.                                         *)

ProducerTo(step) == pc' = [pc EXCEPT !["producer"] = step]

BatchTimer ==
    /\ Alive /\ ~timerFired
    /\ timerFired' = TRUE
    /\ UNCHANGED <<stages, received, batchBuffer, interrupted, panic, kafka>>

(* Mutant: the tick writes full batches only. *)
ProducerTicksFull ==
    /\ Alive /\ pc["producer"] = "selecting" /\ timerFired
    /\ IF Len(batchBuffer) < BatchSize
         THEN timerFired' = FALSE /\ UNCHANGED pc
         ELSE ProducerTo("writing") /\ UNCHANGED timerFired
    /\ UNCHANGED <<held, chan, received, batchBuffer, interrupted, panic, kafka>>

ProducerTakesTick ==
    /\ Alive /\ pc["producer"] = "selecting" /\ timerFired
    /\ IF batchBuffer = <<>>
         THEN timerFired' = FALSE /\ UNCHANGED pc
         ELSE ProducerTo("writing") /\ UNCHANGED timerFired
    /\ UNCHANGED <<held, chan, received, batchBuffer, interrupted, panic, kafka>>

ProducerTakesMsg ==
    /\ Alive /\ pc["producer"] = "selecting" /\ chan["kafkaMsg"].buf # <<>>
    /\ batchBuffer' = Append(batchBuffer, Head(chan["kafkaMsg"].buf))
    /\ IF Len(batchBuffer') >= BatchSize THEN ProducerTo("writing") ELSE UNCHANGED pc
    /\ chan' = Take("kafkaMsg")
    /\ UNCHANGED <<held, received, timerFired, interrupted, panic, kafka>>

(* The context is cancelled or the channel closed: one last write, if there is *)
(* anything to write.                                                          *)
ProducerEnds ==
    /\ Alive /\ pc["producer"] = "selecting" /\ (interrupted \/ IsEmptied("kafkaMsg"))
    /\ ProducerTo(IF batchBuffer = <<>> THEN "done" ELSE "last write")
    /\ UNCHANGED <<held, chan, received, producing, interrupted, panic, kafka>>

(* WriteMessages succeeds, or fails with the messages of some partitions in the *)
(* topic (taken); the buffer is emptied either way.                             *)
SendToKafka(taken) ==
    /\ published' = published \cup taken
    /\ refused' = refused \cup (Range(batchBuffer) \ taken)
    /\ batchBuffer' = <<>>

(* After a write the timer starts again, a tick not yet taken being withdrawn. *)
ProducerWrites ==
    /\ Alive /\ pc["producer"] \in {"writing", "last write"}
    /\ \E taken \in SUBSET Range(batchBuffer) : SendToKafka(taken)
    /\ IF pc["producer"] = "writing"
         THEN ProducerTo("selecting") /\ timerFired' = FALSE
         ELSE ProducerTo("done") /\ UNCHANGED timerFired
    /\ UNCHANGED <<held, chan, received, interrupted, panic>>

Producer == ProducerTakesTick \/ ProducerTakesMsg \/ ProducerEnds \/ ProducerWrites

-----------------------------------------------------------------------------

Interrupt ==
    /\ Alive /\ ~interrupted
    /\ interrupted' = TRUE
    /\ UNCHANGED <<stages, received, producing, panic, kafka>>

Next ==
    \/ Receiver \/ Stream \/ Distributor \/ Converter
    \/ \E w \in Workers : Worker(w)
    \/ KafkaMsg \/ Producer \/ BatchTimer \/ Interrupt

(* The scheduler runs every goroutine that can run, and the timer fires.  The *)
(* producer's timer can be ready whenever it selects, so only the random choice *)
(* select makes lets the other two cases come: strong fairness.  The stream may *)
(* stay silent, and an interrupt need not come.                                 *)
Fairness ==
    /\ WF_vars(Receiver) /\ WF_vars(Distributor)
    /\ WF_vars(Converter) /\ \A w \in Workers : WF_vars(Worker(w))
    /\ WF_vars(KafkaMsg) /\ WF_vars(Producer) /\ WF_vars(BatchTimer)
    /\ SF_vars(ProducerTakesMsg)
    /\ SF_vars(ProducerEnds)

Spec == Init /\ [][Next]_vars /\ Fairness

-----------------------------------------------------------------------------
(* Properties.                                                             *)

MessagePlaces == {"receiver", "rawMsgs", "distributor", "rawAggTrade", "rawMiniTicker"}

(* The tickers a place has, an array for each of its messages. *)
At(x) == IF x \in MessagePlaces THEN Arrays(Contents(x)) ELSE <<Contents(x)>>

Have(x) == Of(At(x))
Received == UNION {Range(Feed[i].tickers) : i \in 1..received}

(* A ticker is in one place: none is passed on twice and none is written    *)
(* again after a write that reported an error; and until an interrupt or a   *)
(* panic none is missing but those of a failed write: slow goroutines make   *)
(* the others wait, they drop nothing (convertingDailyStat.go:74,120,165,    *)
(* producer.go:189).                                                         *)
EachTickerOnce ==
    /\ TypeOK
    /\ \A x \in Places : Once(At(x)) /\ Have(x) \cap (published \cup refused) = {}
    /\ \A x, y \in Places : x # y => Have(x) \cap Have(y) = {}
    /\ ~interrupted /\ Alive =>
          Received = (UNION {Have(x) : x \in Places}) \cup published \cup refused

(* Nobody sends to a closed channel in a process that was not interrupted, in *)
(* whatever order the goroutines find their channels full, empty or closed.  A  *)
(* nil connection is another matter: Dial panics of one at any time.            *)
ChannelsCloseOnInterrupt == panic = "closed channel" => interrupted

(* Every ticker received comes to a write to Kafka, however few follow it: the *)
(* batch timer writes what does not fill a batch (producer.go:112-117).        *)
ReceivedIsWritten ==
    \A i \in DOMAIN Feed :
        received >= i ~> \/ Range(Feed[i].tickers) \subseteq published \cup refused
                         \/ interrupted
                         \/ ~Alive

(* A sender that nothing wakes: its channel is full and open, and the goroutine *)
(* that should empty it has returned (convertingDailyStat.go:120,165).          *)
Stranded(g, c, reader) ==
    pc[g] = "sending" /\ ~HasRoom(c) /\ ~chan[c].closed /\ pc[reader] = "done"

(* After an interrupt every goroutine returns, as wg.Wait at main.go:137 needs, *)
(* unless the process panics or one of the two sends without a case for the     *)
(* context is stranded: nothing else can make the wait endless.                 *)
InterruptEnds ==
    interrupted ~> \/ \A g \in Goroutines : pc[g] = "done"
                   \/ ~Alive
                   \/ \E w \in Workers : Stranded(w, "dailyStat", "maker")
                   \/ Stranded("maker", "kafkaMsg", "producer")
===============================================================================
