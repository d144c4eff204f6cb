----------------------------- MODULE EtlPipeline -----------------------------
(***************************************************************************)
(* The Kafka-ClickHouse service: a consumer goroutine moves the messages   *)
(* of the topic into a channel and commits each as soon as the channel     *)
(* has it (adapters/kaffka/consumer.go); an inserter goroutine collects    *)
(* them into batches and inserts these into ClickHouse                     *)
(* (internal/repository/repo.go).  The process is interrupted, killed and  *)
(* restarted; Kafka and ClickHouse survive it.                             *)
(*                                                                         *)
(* A message is its offset.  The kafka.Reader belongs to a library: Join,  *)
(* Leave and Flush say what it does between the calls of the consumer.     *)
(***************************************************************************)
EXTENDS Naturals, Sequences, SequencesExt

CONSTANTS MsgLimit,     \* messages ever produced to the topic
          Invalid,      \* offsets of messages that do not parse
          ChanCap,      \* capacity of kafkaMsgs (500 in the code)
          BatchSize,    \* cfg.BatchSize
          LeaveLimit,   \* rebalances explored
          DoubtLimit,   \* failed Sends explored that ClickHouse had applied
          RestartLimit  \* restarts of the process explored

ASSUME EtlAssumption ==
    /\ MsgLimit \in Nat \ {0}
    /\ Invalid \subseteq 1..MsgLimit
    /\ ChanCap \in Nat \ {0}
    /\ BatchSize \in Nat \ {0}
    /\ LeaveLimit \in Nat /\ DoubtLimit \in Nat /\ RestartLimit \in Nat

VARIABLES produced,   \* Kafka: messages in the topic, offsets 1..produced
          committed,  \* Kafka: next offset of the group, 0 before any commit
          table,      \* ClickHouse: the rows, in the order they were inserted
          position,   \* the reader's next offset, 0 while not in the group
          pending,    \* next offset the reader is to commit, 0 if none
          consumer,   \* where consumer.Start is
          hand,       \* the offset it fetched last and has not passed on
          channel,    \* kafkaMsgs
          closed,     \* kafkaMsgs was closed
          inserter,   \* where BatchInsert is
          buffer,     \* batchBuffer
          timer,      \* batchTimer
          cancelled,  \* main's context is cancelled
          up,         \* the process runs
          budget,     \* rebalances, doubtful Sends and restarts so far
          fetched,    \* history: the offsets fetched
          lost,       \* history: offsets in channel or buffer when a process ended
          skipped,    \* history: offsets Join started after
          disturbed   \* history: a rebalance, doubtful Send or end of a process

kafka == <<produced, committed>>
reading == <<position, pending>>
consuming == <<consumer, hand, closed, fetched>>
inserting == <<inserter, buffer, timer, table>>
rest == <<lost, skipped, disturbed, budget>>
vars == <<produced, committed, table, position, pending, consumer, hand, channel, closed,
          inserter, buffer, timer, cancelled, up, budget, fetched, lost, skipped, disturbed>>

Offsets == 1..MsgLimit

TypeOK ==
    /\ produced \in 0..MsgLimit
    /\ {committed, position, pending} \subseteq 0..(MsgLimit + 1)
    /\ table \in Seq(Offsets) /\ buffer \in Seq(Offsets) /\ channel \in Seq(Offsets)
    /\ Len(channel) <= ChanCap
    /\ consumer \in {"fetching", "offering", "committing", "stopping", "returned"}
    /\ hand \in 0..MsgLimit
    /\ inserter \in {"selecting", "inserting", "last insert", "returned"}
    /\ timer \in {"running", "fired", "spent"}
    /\ {closed, cancelled, up, disturbed} \subseteq BOOLEAN
    /\ budget \in [leaves : 0..LeaveLimit, doubts : 0..DoubtLimit, restarts : 0..RestartLimit]
    /\ fetched \subseteq Offsets /\ lost \subseteq Offsets /\ skipped \subseteq Offsets

Init ==
    /\ produced = 0 /\ committed = 0 /\ table = <<>>
    /\ position = 0 /\ pending = 0
    /\ consumer = "fetching" /\ hand = 0
    /\ channel = <<>> /\ closed = FALSE
    /\ inserter = "selecting" /\ buffer = <<>> /\ timer = "running"
    /\ cancelled = FALSE /\ up = TRUE
    /\ budget = [leaves |-> 0, doubts |-> 0, restarts |-> 0]
    /\ fetched = {} /\ lost = {} /\ skipped = {} /\ disturbed = FALSE

-----------------------------------------------------------------------------
(* Kafka and its reader.                                                   *)

(* The Aggregator's producer appends a message. *)
Produce ==
    /\ produced < MsgLimit
    /\ produced' = produced + 1
    /\ UNCHANGED <<committed, reading, consuming, channel, inserting, cancelled, up, rest>>

(* The reader joins its group: it goes on at the group's offset, or, with   *)
(* StartOffset LastOffset and no offset committed, at the end of the topic. *)
Join ==
    /\ up /\ consumer # "returned" /\ position = 0
    /\ position' = IF committed = 0 THEN produced + 1 ELSE committed
    /\ skipped' = IF committed = 0 THEN 1..produced ELSE skipped
    /\ UNCHANGED <<kafka, pending, consuming, channel, inserting, cancelled, up,
                   lost, disturbed, budget>>

(* CommitInterval has passed: the reader sends the offset it collected. *)
Flush ==
    /\ up /\ position # 0 /\ pending # 0
    /\ committed' = pending
    /\ pending' = 0
    /\ UNCHANGED <<produced, position, consuming, channel, inserting, cancelled, up, rest>>

(* The group rebalances: what the reader prefetched is dropped, and its last *)
(* commit succeeds or fails.                                                 *)
Leave ==
    /\ up /\ position # 0 /\ budget.leaves < LeaveLimit
    /\ committed' \in IF pending = 0 THEN {committed} ELSE {committed, pending}
    /\ position' = 0 /\ pending' = 0
    /\ disturbed' = TRUE
    /\ budget' = [budget EXCEPT !.leaves = @ + 1]
    /\ UNCHANGED <<produced, consuming, channel, inserting, cancelled, up, lost, skipped>>

-----------------------------------------------------------------------------
(* The consumer goroutine, consumer.Start.                                 *)

Again == IF cancelled THEN "stopping" ELSE "fetching"

FetchCommits ==                                            \* mutant: ReadMessage
    /\ up /\ consumer = "fetching" /\ position \in 1..produced
    /\ hand' = position
    /\ fetched' = fetched \cup {position}
    /\ position' = position + 1
    /\ pending' = position + 1
    /\ consumer' = IF position \in Invalid THEN "committing" ELSE "offering"
    /\ UNCHANGED <<kafka, closed, channel, inserting, cancelled, up, rest>>

(* FetchMessage returns a message; an error with the context still open is *)
(* logged and the call made again, which changes nothing here.             *)
Fetch ==
    /\ up /\ consumer = "fetching" /\ position \in 1..produced
    /\ hand' = position
    /\ fetched' = fetched \cup {position}
    /\ position' = position + 1
    /\ consumer' = IF position \in Invalid THEN "committing" ELSE "offering"
    /\ UNCHANGED <<kafka, pending, closed, channel, inserting, cancelled, up, rest>>

(* The channel is closed only by the consumer itself, when it returns. *)
Offer ==
    /\ up /\ consumer = "offering" /\ Len(channel) < ChanCap
    /\ channel' = Append(channel, hand)
    /\ consumer' = "committing"
    /\ UNCHANGED <<kafka, reading, hand, closed, fetched, inserting, cancelled, up, rest>>

(* CommitMessages only asks the reader to commit; it may fail once the     *)
(* context is cancelled, and the failure is logged.                        *)
Commit ==
    /\ up /\ consumer = "committing"
    /\ \/ pending' = IF pending > hand THEN pending ELSE hand + 1
       \/ cancelled /\ pending' = pending
    /\ hand' = 0
    /\ consumer' = Again
    /\ UNCHANGED <<kafka, position, closed, fetched, channel, inserting, cancelled, up, rest>>

ConsumerSeesCancelFetching ==                                           \* mutant
    /\ up /\ consumer = "fetching" /\ cancelled
    /\ consumer' = "stopping"
    /\ UNCHANGED <<kafka, reading, hand, closed, fetched, channel, inserting, cancelled, up, rest>>

(* Both selects and FetchMessage watch the context. *)
ConsumerSeesCancel ==
    /\ up /\ consumer \in {"fetching", "offering"} /\ cancelled
    /\ consumer' = "stopping"
    /\ UNCHANGED <<kafka, reading, hand, closed, fetched, channel, inserting, cancelled, up, rest>>

(* The deferred calls: close(outChan), then reader.Close, whose last commit *)
(* succeeds or fails.                                                       *)
ConsumerReturns ==
    /\ up /\ consumer = "stopping"
    /\ consumer' = "returned"
    /\ closed' = TRUE
    /\ committed' \in IF pending = 0 THEN {committed} ELSE {committed, pending}
    /\ position' = 0 /\ pending' = 0
    /\ UNCHANGED <<produced, hand, fetched, channel, inserting, cancelled, up, rest>>

ConsumerStep == Fetch \/ Offer \/ Commit \/ ConsumerSeesCancel \/ ConsumerReturns

-----------------------------------------------------------------------------
(* The inserter goroutine, Repository.BatchInsert.                         *)

Expire ==
    /\ up /\ timer = "running"
    /\ timer' = "fired"
    /\ UNCHANGED <<kafka, reading, consuming, channel, inserter, buffer, table, cancelled, up, rest>>

(* select takes the tick. *)
TakeTick ==
    /\ up /\ inserter = "selecting" /\ timer = "fired"
    /\ timer' = "spent"
    /\ inserter' = "inserting"
    /\ UNCHANGED <<kafka, reading, consuming, channel, buffer, table, cancelled, up, rest>>

(* select takes a message; a full batch is inserted. *)
TakeMsg ==
    /\ up /\ inserter = "selecting" /\ channel # <<>>
    /\ channel' = Tail(channel)
    /\ buffer' = Append(buffer, Head(channel))
    /\ inserter' = IF Len(buffer) + 1 >= BatchSize THEN "inserting" ELSE "selecting"
    /\ UNCHANGED <<kafka, reading, consuming, timer, table, cancelled, up, rest>>

(* select takes ctx.Done or the closed channel: what is buffered, and only  *)
(* that, is inserted a last time.                                           *)
TakeEnd ==
    /\ up /\ inserter = "selecting"
    /\ cancelled \/ (closed /\ channel = <<>>)
    /\ inserter' = "last insert"
    /\ UNCHANGED <<kafka, reading, consuming, channel, buffer, timer, table, cancelled, up, rest>>

AfterInsertTimerSpent ==                                                \* mutant
    /\ inserter' = IF inserter = "inserting" THEN "selecting" ELSE "returned"
    /\ timer' = timer

(* After an insert the timer is reset (which discards a tick not yet taken) *)
(* and the loop goes on, whatever insert returned.                          *)
AfterInsert ==
    /\ inserter' = IF inserter = "inserting" THEN "selecting" ELSE "returned"
    /\ timer' = IF inserter = "inserting" THEN "running" ELSE timer

InsertedKeepsBuffer ==                                                  \* mutant
    /\ up /\ inserter \in {"inserting", "last insert"}
    /\ table' = table \o buffer
    /\ buffer' = buffer
    /\ AfterInsert
    /\ UNCHANGED <<kafka, reading, consuming, channel, cancelled, up, rest>>

(* insert succeeds; with an empty buffer it has nothing to do. *)
Inserted ==
    /\ up /\ inserter \in {"inserting", "last insert"}
    /\ table' = table \o buffer
    /\ buffer' = <<>>
    /\ AfterInsert
    /\ UNCHANGED <<kafka, reading, consuming, channel, cancelled, up, rest>>

(* PrepareBatch, Append or Send fails: the buffer is kept for the next insert. *)
InsertFails ==
    /\ up /\ inserter \in {"inserting", "last insert"} /\ buffer # <<>>
    /\ AfterInsert
    /\ UNCHANGED <<kafka, reading, consuming, channel, buffer, table, cancelled, up, rest>>

(* Send fails although ClickHouse stored the rows: they are kept, too. *)
InsertInDoubt ==
    /\ up /\ inserter \in {"inserting", "last insert"} /\ buffer # <<>>
    /\ budget.doubts < DoubtLimit
    /\ table' = table \o buffer
    /\ AfterInsert
    /\ disturbed' = TRUE
    /\ budget' = [budget EXCEPT !.doubts = @ + 1]
    /\ UNCHANGED <<kafka, reading, consuming, channel, buffer, cancelled, up, lost, skipped>>

InserterStep == TakeTick \/ TakeMsg \/ TakeEnd \/ Inserted \/ InsertFails \/ InsertInDoubt

-----------------------------------------------------------------------------
(* The process.                                                            *)

Interrupt ==
    /\ up /\ ~cancelled
    /\ cancelled' = TRUE
    /\ UNCHANGED <<kafka, reading, consuming, channel, inserting, up, rest>>

(* The memory of the process is gone; the next one starts with main's. *)
Ends ==
    /\ position' = 0 /\ pending' = 0
    /\ consumer' = "fetching" /\ hand' = 0
    /\ channel' = <<>> /\ closed' = FALSE
    /\ inserter' = "selecting" /\ buffer' = <<>> /\ timer' = "running"
    /\ cancelled' = FALSE /\ up' = FALSE
    /\ lost' = lost \cup ToSet(channel) \cup ToSet(buffer)
    /\ disturbed' = TRUE
    /\ UNCHANGED <<kafka, table, fetched, skipped, budget>>

(* wg.Wait returns and main with it. *)
Exit ==
    /\ up /\ cancelled /\ consumer = "returned" /\ inserter = "returned"
    /\ Ends

(* The process dies: SIGTERM, which main does not catch, or a failure. *)
Die == up /\ Ends

Restart ==
    /\ ~up /\ budget.restarts < RestartLimit
    /\ up' = TRUE
    /\ budget' = [budget EXCEPT !.restarts = @ + 1]
    /\ UNCHANGED <<kafka, reading, consuming, channel, inserting, cancelled, lost, skipped, disturbed>>

Next ==
    \/ Produce \/ Join \/ Flush \/ Leave
    \/ Fetch \/ Offer \/ Commit \/ ConsumerSeesCancel \/ ConsumerReturns
    \/ Expire \/ TakeTick \/ TakeMsg \/ TakeEnd \/ Inserted \/ InsertFails \/ InsertInDoubt
    \/ Interrupt \/ Exit \/ Die \/ Restart

(* Goroutines that can run do run and the timer expires.  select chooses at *)
(* random among the cases that are ready, so it does not pass over the end  *)
(* for ever.  ClickHouse is assumed to accept an insert tried for ever.     *)
Fairness ==
    /\ WF_vars(ConsumerStep) /\ WF_vars(InserterStep)
    /\ WF_vars(Expire) /\ WF_vars(Exit)
    /\ SF_vars(TakeEnd) /\ SF_vars(Inserted)

Spec == Init /\ [][Next]_vars /\ Fairness

-----------------------------------------------------------------------------
(* Properties.                                                             *)

(* The message in the consumer's hand, if it is one the channel shall get. *)
Unoffered == IF hand # 0 /\ hand \notin Invalid /\ consumer # "committing" THEN <<hand>> ELSE <<>>

(* What the service has taken in, oldest first. *)
Line == table \o buffer \o channel \o Unoffered

InOrder(offsets) == \A i, j \in DOMAIN offsets : i < j => offsets[i] < offsets[j]

(* Until a rebalance, a doubtful Send or the end of a process, the rows and *)
(* what waits for them (buffer, channel, the message in hand) are exactly   *)
(* the valid messages fetched, each once and in the order of their offsets, *)
(* however inserts failed and were repeated.                                *)
ExactlyOnceInOrder ==
    ~disturbed => ToSet(Line) = fetched \ Invalid /\ InOrder(Line)

(* An offset is committed only when the message went on to the inserter: it *)
(* is a row, buffered, in the channel, or was there when a process ended.   *)
(* The exception are the messages before the offset a reader joined at      *)
(* while the group had none.                                                *)
CommittedWasHandedOn ==
    /\ TypeOK
    /\ \A o \in (fetched \ Invalid) \ skipped :
           o < committed \/ o < pending =>
               o \in ToSet(table) \cup ToSet(buffer) \cup ToSet(channel) \cup lost

(* A message in the batch buffer is inserted, however many attempts fail,   *)
(* unless the process ends or is told to: the timer fires again after every *)
(* insert, also when fewer than BatchSize messages are there.               *)
BufferedIsStored ==
    \A o \in Offsets :
        o \in ToSet(buffer) ~> (o \in ToSet(table) \/ cancelled \/ ~up)

(* After an interrupt both goroutines return and the process exits: the     *)
(* consumer does not wait for a channel nobody reads any more.              *)
InterruptEnds == cancelled ~> ~up

(* repo.go:176: "Inserting remaining messages before shutdown": when both   *)
(* goroutines have returned, nothing that was committed is left in memory.  *)
ShutdownInsertsRemaining ==
    up /\ consumer = "returned" /\ inserter = "returned" =>
        \A o \in ToSet(buffer) \cup ToSet(channel) : o >= committed
=============================================================================
