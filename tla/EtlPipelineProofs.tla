-------------------------- MODULE EtlPipelineProofs ---------------------------
(***************************************************************************)
(* Theorems about EtlPipeline, for any topic, capacities and limits.       *)
(***************************************************************************)
EXTENDS EtlPipeline, SequenceTheorems, TLAPS

(* TypeOK in parts: what disturbs one seldom disturbs another. *)
Numbers == /\ produced \in 0..MsgLimit /\ hand \in 0..MsgLimit
           /\ committed \in 0..(MsgLimit + 1)
           /\ position \in 0..(MsgLimit + 1) /\ pending \in 0..(MsgLimit + 1)
Contents == /\ table \in Seq(Offsets) /\ buffer \in Seq(Offsets) /\ channel \in Seq(Offsets)
            /\ Len(channel) <= ChanCap
Places == /\ consumer \in {"fetching", "offering", "committing", "stopping", "returned"}
          /\ inserter \in {"selecting", "inserting", "last insert", "returned"}
          /\ timer \in {"running", "fired", "spent"}
Flags == /\ closed \in BOOLEAN /\ cancelled \in BOOLEAN
         /\ up \in BOOLEAN /\ disturbed \in BOOLEAN
Budgets == budget \in [leaves : 0..LeaveLimit, doubts : 0..DoubtLimit, restarts : 0..RestartLimit]
Histories == fetched \subseteq Offsets /\ lost \subseteq Offsets /\ skipped \subseteq 1..produced
Types == Numbers /\ Contents /\ Places /\ Flags /\ Budgets /\ Histories

(* The offsets that went on to the inserter. *)
HandedOn == ToSet(table) \cup ToSet(buffer) \cup ToSet(channel) \cup lost

(* Offsets that are committed or about to be, and those the reader is      *)
(* past, except the one in hand.                                           *)
Passed(o) == \/ o < committed \/ o < pending
             \/ o < position /\ o # hand
             \/ o < hand

(* What was passed by went on, unless it does not parse or was skipped.    *)
PassedOn == \A o \in Offsets \ (Invalid \cup skipped) : Passed(o) => o \in HandedOn

(* What the consumer has in its hand where. *)
HandFollowsPhase ==
    /\ consumer = "fetching" => hand = 0
    /\ consumer \in {"offering", "committing"} => hand \in Offsets
    /\ consumer = "committing" => hand \in Invalid \cup HandedOn

IInv == Types /\ PassedOn /\ HandFollowsPhase

-------------------------------------------------------------------------------
(* The elements of the sequences the pipeline builds. *)
LEMMA ToSetAppend ==
  ASSUME NEW S, NEW s \in Seq(S), NEW e \in S
  PROVE  ToSet(Append(s, e)) = ToSet(s) \cup {e}
<1>1. /\ DOMAIN s = 1..Len(s) /\ Len(s) \in Nat
      /\ DOMAIN Append(s, e) = 1..(Len(s) + 1)
  BY AppendProperties, LenProperties
<1> QED
  BY <1>1, AppendProperties DEF ToSet

LEMMA ToSetConcat ==
  ASSUME NEW S, NEW s \in Seq(S), NEW t \in Seq(S)
  PROVE  ToSet(s \o t) = ToSet(s) \cup ToSet(t)
<1>1. /\ DOMAIN s = 1..Len(s) /\ Len(s) \in Nat
      /\ DOMAIN t = 1..Len(t) /\ Len(t) \in Nat
      /\ DOMAIN (s \o t) = 1..(Len(s) + Len(t))
  BY ConcatProperties, LenProperties
<1>2. \A i \in 1..(Len(s) + Len(t)) :
        (s \o t)[i] = IF i <= Len(s) THEN s[i] ELSE t[i - Len(s)]
  BY ConcatProperties
<1>3. ToSet(s \o t) \subseteq ToSet(s) \cup ToSet(t)
  BY <1>1, <1>2 DEF ToSet
<1>4. ToSet(s) \subseteq ToSet(s \o t)
  BY <1>1, <1>2 DEF ToSet
<1>5. ToSet(t) \subseteq ToSet(s \o t)
  <2> SUFFICES ASSUME NEW j \in 1..Len(t) PROVE t[j] \in ToSet(s \o t)
    BY <1>1 DEF ToSet
  <2>1. j + Len(s) \in 1..(Len(s) + Len(t)) /\ (s \o t)[j + Len(s)] = t[j]
    BY <1>1, <1>2
  <2> QED
    BY <1>1, <2>1 DEF ToSet
<1> QED
  BY <1>3, <1>4, <1>5

LEMMA ToSetHeadTail ==
  ASSUME NEW S, NEW s \in Seq(S), s # <<>>
  PROVE  ToSet(s) = {Head(s)} \cup ToSet(Tail(s))
<1>1. /\ DOMAIN s = 1..Len(s) /\ Len(s) \in Nat /\ Len(s) # 0
      /\ DOMAIN Tail(s) = 1..(Len(s) - 1)
      /\ Head(s) = s[1]
      /\ \A i \in 1..(Len(s) - 1) : Tail(s)[i] = s[i + 1]
  BY HeadTailProperties, LenProperties, EmptySeq
<1>2. ToSet(s) \subseteq {Head(s)} \cup ToSet(Tail(s))
  <2> SUFFICES ASSUME NEW i \in 1..Len(s), i # 1 PROVE s[i] \in ToSet(Tail(s))
    BY <1>1 DEF ToSet
  <2>1. i - 1 \in 1..(Len(s) - 1) /\ Tail(s)[i - 1] = s[i]
    BY <1>1
  <2> QED
    BY <1>1, <2>1 DEF ToSet
<1>3. {Head(s)} \cup ToSet(Tail(s)) \subseteq ToSet(s)
  BY <1>1 DEF ToSet
<1> QED
  BY <1>2, <1>3

LEMMA ToSetBounded == ASSUME NEW S, NEW s \in Seq(S) PROVE ToSet(s) \subseteq S
  BY ElementOfSeq, LenProperties DEF ToSet

(* The service starts with nothing in its hands. *)
LEMMA Initially == Init => IInv
<1> SUFFICES ASSUME Init PROVE IInv
  OBVIOUS
<1> USE EtlAssumption DEF Init
<1>1. Contents
  BY EmptySeq DEF Contents
<1>2. Numbers /\ Histories
  BY DEF Numbers, Histories
<1>p. Places /\ Flags
  BY DEF Places, Flags
<1>3. Budgets
  BY DEF Budgets
<1>4. PassedOn /\ HandFollowsPhase
  BY DEF PassedOn, HandFollowsPhase, Passed, Offsets
<1> QED
  BY <1>1, <1>2, <1>p, <1>3, <1>4 DEF IInv, Types

(* Every step keeps the types. *)
LEMMA TypesKept == ASSUME IInv, Next PROVE Types'
<1> USE EtlAssumption
<1>0. /\ Numbers /\ Contents /\ Places /\ Flags /\ Budgets /\ Histories
      /\ HandFollowsPhase
  BY DEF IInv, Types
<1>1. Numbers'
  <2>1. CASE Produce \/ Join \/ Flush \/ Leave
    BY <1>0, <2>1 DEF Numbers, Produce, Join, Flush, Leave, kafka, reading, consuming
  <2>2. CASE Fetch \/ Offer \/ ConsumerSeesCancel \/ ConsumerReturns
    BY <1>0, <2>2 DEF Numbers, Fetch, Offer, ConsumerSeesCancel, ConsumerReturns,
       kafka, reading
  <2>3. CASE Commit
    <3>1. hand \in 1..MsgLimit
      BY <1>0, <2>3 DEF Commit, HandFollowsPhase, Offsets
    <3>2. pending' \in 0..(MsgLimit + 1)
      BY <1>0, <2>3, <3>1 DEF Commit, Numbers
    <3> QED
      BY <1>0, <2>3, <3>2 DEF Commit, Numbers, kafka
  <2>4. CASE Expire \/ InserterStep
    <3>1. UNCHANGED <<produced, hand, committed, position, pending>>
      BY <2>4 DEF Expire, InserterStep, TakeTick, TakeMsg, TakeEnd, Inserted, InsertFails,
         InsertInDoubt, kafka, reading, consuming
    <3> QED
      BY <1>0, <3>1 DEF Numbers
  <2>5. CASE Ends
    BY <1>0, <2>5 DEF Numbers, Ends, kafka
  <2>6. CASE Interrupt \/ Restart
    BY <1>0, <2>6 DEF Numbers, Interrupt, Restart, kafka, reading, consuming
  <2> QED
    BY <2>1, <2>2, <2>3, <2>4, <2>5, <2>6 DEF Next, InserterStep, Exit, Die
<1>2. Contents'
  <2>1. CASE Offer
    <3>1. /\ hand \in Offsets /\ channel \in Seq(Offsets) /\ Len(channel) < ChanCap
          /\ channel' = Append(channel, hand) /\ UNCHANGED <<table, buffer>>
      BY <1>0, <2>1 DEF Contents, HandFollowsPhase, Offer, inserting
    <3>2. channel' \in Seq(Offsets) /\ Len(channel') = Len(channel) + 1 /\ Len(channel) \in Nat
      BY <3>1, AppendProperties, LenProperties
    <3> QED
      BY <1>0, <3>1, <3>2 DEF Contents
  <2>2. CASE TakeMsg
    <3>1. /\ channel \in Seq(Offsets) /\ channel # <<>> /\ buffer \in Seq(Offsets)
          /\ channel' = Tail(channel) /\ buffer' = Append(buffer, Head(channel))
          /\ UNCHANGED table
      BY <1>0, <2>2 DEF Contents, TakeMsg
    <3>2. /\ Head(channel) \in Offsets /\ channel' \in Seq(Offsets)
          /\ Len(channel') = Len(channel) - 1 /\ Len(channel) \in Nat
      BY <3>1, HeadTailProperties, LenProperties
    <3>3. buffer' \in Seq(Offsets)
      BY <3>1, <3>2, AppendProperties
    <3> QED
      BY <1>0, <3>1, <3>2, <3>3 DEF Contents
  <2>3. CASE Inserted \/ InsertInDoubt
    <3>1. /\ table \in Seq(Offsets) /\ buffer \in Seq(Offsets)
          /\ table' = table \o buffer /\ buffer' \in {buffer, <<>>} /\ UNCHANGED channel
      BY <1>0, <2>3 DEF Contents, Inserted, InsertInDoubt
    <3>2. table' \in Seq(Offsets)
      BY <3>1, ConcatProperties
    <3>3. buffer' \in Seq(Offsets)
      BY <3>1, EmptySeq
    <3> QED
      BY <1>0, <3>1, <3>2, <3>3 DEF Contents
  <2>4. CASE Ends
    <3>1. table' = table /\ buffer' = <<>> /\ channel' = <<>>
      BY <2>4 DEF Ends
    <3>2. <<>> \in Seq(Offsets) /\ Len(<<>>) = 0
      BY EmptySeq
    <3> QED
      BY <1>0, <3>1, <3>2 DEF Contents
  <2>5. CASE UNCHANGED <<table, buffer, channel>>
    BY <1>0, <2>5 DEF Contents
  <2> QED
    BY <2>1, <2>2, <2>3, <2>4, <2>5
       DEF Next, Produce, Join, Flush, Leave, Fetch, Commit, ConsumerSeesCancel, ConsumerReturns,
           Expire, TakeTick, TakeEnd, InsertFails, Interrupt, Exit, Die, Restart, inserting
<1>3. Places'
  BY <1>0 DEF Next, Produce, Join, Flush, Leave, Fetch, Offer, Commit, ConsumerSeesCancel,
     ConsumerReturns, Expire, TakeTick, TakeMsg, TakeEnd, Inserted, InsertFails, InsertInDoubt,
     AfterInsert, Interrupt, Exit, Die, Ends, Restart, consuming, inserting, Places, Again
<1>4. Flags'
  BY <1>0 DEF Next, Produce, Join, Flush, Leave, Fetch, Offer, Commit, ConsumerSeesCancel,
     ConsumerReturns, Expire, TakeTick, TakeMsg, TakeEnd, Inserted, InsertFails, InsertInDoubt,
     Interrupt, Exit, Die, Ends, Restart, consuming, rest, Flags
<1>5. Budgets'
  <2>1. CASE Leave
    <3>1. budget.leaves < LeaveLimit /\ budget' = [budget EXCEPT !.leaves = @ + 1]
      BY <2>1 DEF Leave
    <3> QED
      BY <1>0, <3>1 DEF Budgets
  <2>2. CASE InsertInDoubt
    <3>1. budget.doubts < DoubtLimit /\ budget' = [budget EXCEPT !.doubts = @ + 1]
      BY <2>2 DEF InsertInDoubt
    <3> QED
      BY <1>0, <3>1 DEF Budgets
  <2>3. CASE Restart
    <3>1. budget.restarts < RestartLimit /\ budget' = [budget EXCEPT !.restarts = @ + 1]
      BY <2>3 DEF Restart
    <3> QED
      BY <1>0, <3>1 DEF Budgets
  <2>4. CASE UNCHANGED budget
    BY <1>0, <2>4 DEF Budgets
  <2> QED
    BY <2>1, <2>2, <2>3, <2>4
       DEF Next, Produce, Join, Flush, Fetch, Offer, Commit, ConsumerSeesCancel, ConsumerReturns,
           Expire, TakeTick, TakeMsg, TakeEnd, Inserted, InsertFails, Interrupt, Exit, Die, Ends, rest
<1>6. Histories'
  <2>1. CASE Ends
    <3>1. ToSet(channel) \subseteq Offsets /\ ToSet(buffer) \subseteq Offsets
      BY <1>0, ToSetBounded DEF Contents
    <3> QED
      BY <1>0, <2>1, <3>1 DEF Ends, Histories, kafka
  <2>2. CASE Produce \/ Join
    <3>1. UNCHANGED <<fetched, lost>> /\ skipped' \in {skipped, 1..produced}
      BY <2>2 DEF Produce, Join, consuming, rest
    <3>2. 1..produced \subseteq 1..produced'
      BY <1>0, <2>2 DEF Produce, Join, Numbers, kafka
    <3> QED
      BY <1>0, <3>1, <3>2 DEF Histories
  <2>3. CASE Fetch
    <3>1. position \in Offsets /\ fetched' = fetched \cup {position}
      BY <1>0, <2>3 DEF Fetch, Numbers, Offsets
    <3> QED
      BY <1>0, <2>3, <3>1 DEF Fetch, Histories, kafka, rest
  <2>4. CASE UNCHANGED <<produced, fetched, lost, skipped>>
    BY <1>0, <2>4 DEF Histories
  <2> QED
    BY <2>1, <2>2, <2>3, <2>4
       DEF Next, Flush, Leave, Offer, Commit, ConsumerSeesCancel, ConsumerReturns,
           Expire, TakeTick, TakeMsg, TakeEnd, Inserted, InsertFails, InsertInDoubt,
           Interrupt, Exit, Die, Restart, kafka, consuming, rest
<1> QED
  BY <1>1, <1>2, <1>3, <1>4, <1>5, <1>6 DEF Types

-------------------------------------------------------------------------------
(* Steps of Kafka and of its reader. *)
LEMMA ReaderKeeps ==
  ASSUME IInv, Produce \/ Join \/ Flush \/ Leave
  PROVE  IInv'
<1> USE EtlAssumption
<1>1. UNCHANGED <<hand, consumer, table, buffer, channel, lost>>
  BY DEF Produce, Join, Flush, Leave, consuming, inserting, rest
<1>2. Types'
  BY TypesKept DEF Next
<1>3. skipped \subseteq skipped' /\ skipped' \subseteq 1..produced'
  BY DEF Produce, Join, Flush, Leave, kafka, rest, IInv, Types, Numbers, Histories
<1>4. UNCHANGED HandedOn
  BY <1>1 DEF HandedOn
<1>5. PassedOn'
  <2> SUFFICES ASSUME NEW o \in Offsets \ (Invalid \cup skipped'), Passed(o)'
               PROVE  o \in HandedOn
    BY <1>4 DEF PassedOn
  <2>1. Passed(o)
    BY <1>1, <1>3 DEF Produce, Join, Flush, Leave, kafka, reading, rest, Passed, Offsets, IInv, Types, Numbers
  <2> QED
    BY <1>3, <2>1 DEF IInv, PassedOn
<1> QED
  BY <1>1, <1>2, <1>3, <1>4, <1>5 DEF IInv, HandFollowsPhase

-------------------------------------------------------------------------------
(* Steps of the consumer: an offset is in its hand until the channel has   *)
(* it, and passed by from then on.                                         *)
LEMMA ConsumerKeeps == ASSUME IInv, ConsumerStep PROVE IInv'
<1> USE EtlAssumption
<1>0. Numbers /\ PassedOn /\ HandFollowsPhase
  BY DEF IInv, Types
<1>t. Types'
  BY TypesKept DEF Next, ConsumerStep
<1>1. CASE Fetch
  <2> USE <1>1 DEF Fetch
  <2>2. UNCHANGED <<HandedOn, skipped, produced>>
    BY DEF HandedOn, kafka, inserting, rest
  <2>3. hand = 0 /\ hand' = position /\ position \in Offsets
    BY <1>0 DEF HandFollowsPhase, Numbers, Offsets
  <2>4. PassedOn'
    <3> SUFFICES ASSUME NEW o \in Offsets \ (Invalid \cup skipped), Passed(o)'
                 PROVE  o \in HandedOn
      BY <2>2 DEF PassedOn
    <3>1. Passed(o)
      BY <1>0, <2>3 DEF Passed, Offsets, Numbers, kafka
    <3> QED
      BY <1>0, <3>1 DEF PassedOn
  <2>5. HandFollowsPhase'
    BY <2>3 DEF HandFollowsPhase
  <2> QED
    BY <1>t, <2>2, <2>4, <2>5 DEF IInv
<1>2. CASE Offer
  <2> USE <1>2 DEF Offer
  <2>1. hand \in Offsets /\ channel \in Seq(Offsets)
    BY DEF IInv, Types, Contents, HandFollowsPhase
  <2>4. HandedOn' = HandedOn \cup {hand}
    BY <2>1, ToSetAppend DEF HandedOn, inserting, rest
  <2>5. PassedOn'
    BY <1>0, <2>4 DEF PassedOn, Passed, kafka, reading, rest
  <2>6. HandFollowsPhase'
    BY <2>1, <2>4 DEF HandFollowsPhase
  <2> QED
    BY <1>t, <2>5, <2>6 DEF IInv
<1>3. CASE Commit
  <2> USE <1>3 DEF Commit
  <2>1. hand \in Offsets /\ hand \in Invalid \cup HandedOn
    BY <1>0 DEF HandFollowsPhase
  <2>2. consumer' \in {"fetching", "stopping"}
    BY DEF Again
  <2>4. UNCHANGED <<HandedOn, skipped, produced>>
    BY DEF HandedOn, kafka, inserting, rest
  <2>5. PassedOn'
    <3> SUFFICES ASSUME NEW o \in Offsets \ (Invalid \cup skipped), Passed(o)', o # hand
                 PROVE  o \in HandedOn
      BY <2>1, <2>4 DEF PassedOn
    <3>1. Passed(o)
      BY <1>0, <2>1 DEF Passed, Offsets, Numbers, kafka
    <3> QED
      BY <1>0, <3>1 DEF PassedOn
  <2>6. HandFollowsPhase'
    BY <2>2 DEF HandFollowsPhase
  <2> QED
    BY <1>t, <2>4, <2>5, <2>6 DEF IInv
<1>4. CASE ConsumerSeesCancel
  <2>1. HandFollowsPhase'
    BY <1>4 DEF ConsumerSeesCancel, HandFollowsPhase
  <2>2. UNCHANGED <<HandedOn, committed, pending, position, hand, skipped, produced>>
    BY <1>4 DEF ConsumerSeesCancel, HandedOn, kafka, reading, inserting, rest
  <2> QED
    BY <1>0, <1>t, <2>1, <2>2 DEF IInv, PassedOn, Passed
<1>5. CASE ConsumerReturns
  <2> USE <1>5 DEF ConsumerReturns
  <2>1. HandFollowsPhase'
    BY DEF HandFollowsPhase
  <2>2. UNCHANGED <<HandedOn, hand, skipped, produced>>
    BY DEF HandedOn, inserting, rest
  <2>3. \A o \in Offsets : Passed(o)' => Passed(o)
    BY <1>0 DEF Passed, Numbers, Offsets
  <2> QED
    BY <1>0, <1>t, <2>1, <2>2, <2>3 DEF IInv, PassedOn
<1> QED
  BY <1>1, <1>2, <1>3, <1>4, <1>5 DEF ConsumerStep

-------------------------------------------------------------------------------
(* Steps that leave Kafka, the reader and the consumer alone. *)
LEMMA HandedOnGrows ==
  ASSUME IInv, Types', HandedOn \subseteq HandedOn',
         UNCHANGED <<kafka, reading, consumer, hand, skipped>>
  PROVE  IInv'
  BY DEF IInv, PassedOn, Passed, HandFollowsPhase, kafka, reading

(* Steps of the inserter move messages on and drop none. *)
LEMMA InserterKeeps == ASSUME IInv, InserterStep \/ Expire PROVE IInv'
<1>1. Types' /\ Contents
  BY TypesKept DEF Next, InserterStep, IInv, Types
<1>2. UNCHANGED <<kafka, reading, consumer, hand, skipped, lost>>
  BY DEF InserterStep, Expire, TakeTick, TakeMsg, TakeEnd, Inserted, InsertFails, InsertInDoubt,
         consuming, rest
<1>3. HandedOn \subseteq HandedOn'
  <2>1. CASE TakeMsg
    <3>1. channel \in Seq(Offsets) /\ channel # <<>> /\ buffer \in Seq(Offsets)
      BY <1>1, <2>1 DEF TakeMsg, Contents
    <3>2. Head(channel) \in Offsets
      BY <3>1, HeadTailProperties
    <3>3. ToSet(buffer') = ToSet(buffer) \cup {Head(channel)}
      BY <2>1, <3>1, <3>2, ToSetAppend DEF TakeMsg
    <3>4. ToSet(channel) = {Head(channel)} \cup ToSet(channel')
      BY <2>1, <3>1, ToSetHeadTail DEF TakeMsg
    <3> QED
      BY <1>2, <2>1, <3>3, <3>4 DEF TakeMsg, HandedOn
  <2>2. CASE Inserted \/ InsertInDoubt
    <3>1. ToSet(table') = ToSet(table) \cup ToSet(buffer)
      BY <1>1, <2>2, ToSetConcat DEF Inserted, InsertInDoubt, Contents
    <3> QED
      BY <1>2, <2>2, <3>1 DEF Inserted, InsertInDoubt, HandedOn
  <2>3. CASE Expire \/ TakeTick \/ TakeEnd \/ InsertFails
    BY <1>2, <2>3 DEF Expire, TakeTick, TakeEnd, InsertFails, HandedOn
  <2> QED
    BY <2>1, <2>2, <2>3 DEF InserterStep
<1> QED
  BY <1>1, <1>2, <1>3, HandedOnGrows

-------------------------------------------------------------------------------
(* When the process ends what was handed on and not inserted counts as     *)
(* lost, and an offset only in the hand is passed no more.                 *)
LEMMA ProcessKeeps == ASSUME IInv, Interrupt \/ Exit \/ Die \/ Restart PROVE IInv'
<1>1. Types' /\ Numbers /\ PassedOn
  BY TypesKept DEF Next, IInv, Types
<1>2. CASE Ends
  <2> USE <1>2 DEF Ends
  <2>1. HandedOn' = ToSet(table) \cup ToSet(<<>>) \cup ToSet(<<>>) \cup lost'
    BY DEF HandedOn
  <2>2. HandedOn \subseteq HandedOn'
    BY <2>1 DEF HandedOn
  <2>3. \A o \in Offsets : Passed(o)' => Passed(o)
    BY <1>1 DEF Passed, Numbers, Offsets, kafka
  <2>4. PassedOn'
    BY <1>1, <2>2, <2>3 DEF PassedOn
  <2> QED
    BY <1>1, <2>4 DEF IInv, HandFollowsPhase
<1>3. CASE Interrupt \/ Restart
  <2>1. UNCHANGED <<kafka, reading, consumer, hand, skipped, HandedOn>>
    BY <1>3 DEF Interrupt, Restart, consuming, inserting, rest, HandedOn
  <2> QED
    BY <1>1, <2>1, HandedOnGrows
<1> QED
  BY <1>2, <1>3 DEF Exit, Die

-------------------------------------------------------------------------------
(* The invariant holds in every reachable state. *)
LEMMA Invariance == Spec => []IInv
<1>1. Init => IInv
  BY Initially
<1>2. IInv /\ [Next]_vars => IInv'
  <2> SUFFICES ASSUME IInv, [Next]_vars PROVE IInv'
    OBVIOUS
  <2>1. CASE Next
    BY <2>1, ReaderKeeps, ConsumerKeeps, InserterKeeps, ProcessKeeps
       DEF Next, ConsumerStep, InserterStep
  <2>2. CASE UNCHANGED vars
    <3>1. UNCHANGED HandedOn /\ Contents'
      BY <2>2 DEF vars, HandedOn, IInv, Types, Contents
    <3>2. Types'
      BY <2>2, <3>1 DEF vars, IInv, Types, Numbers, Places, Flags, Budgets, Histories
    <3> QED
      BY <2>2, <3>1, <3>2 DEF vars, IInv, PassedOn, Passed, HandFollowsPhase
  <2> QED
    BY <2>1, <2>2
<1> QED
  BY <1>1, <1>2, PTL DEF Spec

-------------------------------------------------------------------------------
(* The order of the rows, until something disturbs the service.            *)

(* What is offered parses. *)
OfferedIsValid == consumer = "offering" => hand \notin Invalid

(* The reader never goes back: it is past all it fetched, and once out of  *)
(* the group it returns to it only with nothing fetched.                   *)
ReaderIsAhead ==
    /\ position # 0 => \A o \in fetched : o < position
    /\ position = 0 => fetched = {} \/ consumer = "returned"

OrderInv == OfferedIsValid /\ (~disturbed => ReaderIsAhead /\ ExactlyOnceInOrder)

(* The line is of offsets, and what is in the hand is its last part. *)
LEMMA LineTypes ==
  ASSUME Contents, Numbers
  PROVE  /\ Unoffered \in Seq(Offsets) /\ Line \in Seq(Offsets)
         /\ table \o buffer \in Seq(Offsets) /\ table \o buffer \o channel \in Seq(Offsets)
<1>1. Unoffered \in Seq(Offsets)
  <2>1. CASE hand = 0
    BY <2>1, EmptySeq DEF Unoffered
  <2>2. CASE hand # 0
    <3>1. hand \in Offsets
      BY <2>2 DEF Numbers, Offsets
    <3>2. <<hand>> \in Seq(Offsets) /\ <<>> \in Seq(Offsets)
      BY <3>1, EmptySeq
    <3> QED
      BY <3>2 DEF Unoffered
  <2> QED
    BY <2>1, <2>2
<1>2. table \o buffer \in Seq(Offsets)
  BY ConcatProperties DEF Contents
<1>3. table \o buffer \o channel \in Seq(Offsets)
  BY <1>2, ConcatProperties DEF Contents
<1> QED
  BY <1>1, <1>2, <1>3, ConcatProperties DEF Line

(* An element that is behind all others in order can be appended. *)
LEMMA AppendInOrder ==
  ASSUME NEW s \in Seq(Offsets), NEW e \in Offsets, InOrder(s), \A o \in ToSet(s) : o < e
  PROVE  InOrder(s \o <<e>>) /\ ToSet(s \o <<e>>) = ToSet(s) \cup {e}
<1>1. <<e>> \in Seq(Offsets) /\ Len(<<e>>) = 1 /\ <<e>>[1] = e
  OBVIOUS
<1>2. /\ DOMAIN s = 1..Len(s) /\ Len(s) \in Nat
      /\ \A i \in 1..Len(s) : s[i] \in Offsets
  BY LenProperties, ElementOfSeq
<1>3. /\ DOMAIN (s \o <<e>>) = 1..(Len(s) + 1)
      /\ \A i \in 1..(Len(s) + 1) : (s \o <<e>>)[i] = IF i <= Len(s) THEN s[i] ELSE e
  <2>1. /\ s \o <<e>> \in Seq(Offsets) /\ Len(s \o <<e>>) = Len(s) + 1
        /\ \A i \in 1..(Len(s) + 1) :
             (s \o <<e>>)[i] = IF i <= Len(s) THEN s[i] ELSE <<e>>[i - Len(s)]
    BY <1>1, ConcatProperties
  <2>2. DOMAIN (s \o <<e>>) = 1..(Len(s) + 1)
    BY <2>1, LenProperties
  <2>3. \A i \in 1..(Len(s) + 1) : ~(i <= Len(s)) => i - Len(s) = 1
    BY <1>2
  <2> QED
    BY <1>1, <2>1, <2>2, <2>3
<1>4. InOrder(s \o <<e>>)
  <2> SUFFICES ASSUME NEW i \in 1..(Len(s) + 1), NEW j \in 1..(Len(s) + 1), i < j
               PROVE  (s \o <<e>>)[i] < (s \o <<e>>)[j]
    BY <1>3 DEF InOrder
  <2>1. i \in 1..Len(s) /\ (s \o <<e>>)[i] = s[i]
    BY <1>2, <1>3
  <2>2. CASE j <= Len(s)
    BY <1>2, <1>3, <2>1, <2>2 DEF InOrder
  <2>3. CASE ~(j <= Len(s))
    <3>1. s[i] \in ToSet(s)
      BY <1>2, <2>1 DEF ToSet
    <3> QED
      BY <1>3, <2>1, <2>3, <3>1
  <2> QED
    BY <2>2, <2>3
<1>5. ToSet(s \o <<e>>) = ToSet(s) \cup ToSet(<<e>>)
  BY <1>1, ToSetConcat
<1>6. ToSet(<<e>>) = {e}
  BY <1>1 DEF ToSet
<1> QED
  BY <1>4, <1>5, <1>6

(* Moving the first message of the channel to the batch leaves the line.   *)
LEMMA MoveHead ==
  ASSUME NEW S, NEW b \in Seq(S), NEW c \in Seq(S), c # <<>>
  PROVE  Append(b, Head(c)) \o Tail(c) = b \o c
<1>1. /\ Head(c) \in S /\ Tail(c) \in Seq(S) /\ Len(Tail(c)) = Len(c) - 1
      /\ \A i \in 1..Len(Tail(c)) : Tail(c)[i] = c[i + 1]
      /\ Head(c) = c[1] /\ Len(c) \in Nat \ {0} /\ Len(b) \in Nat
  BY HeadTailProperties, EmptySeq, LenProperties
<1>2. /\ Append(b, Head(c)) \in Seq(S) /\ Len(Append(b, Head(c))) = Len(b) + 1
      /\ \A i \in 1..(Len(b) + 1) :
           Append(b, Head(c))[i] = IF i <= Len(b) THEN b[i] ELSE c[1]
  BY <1>1, AppendProperties
<1> DEFINE l == Append(b, Head(c)) \o Tail(c)
           r == b \o c
<1>3. /\ l \in Seq(S) /\ Len(l) = Len(b) + 1 + (Len(c) - 1)
      /\ \A i \in 1..Len(l) : l[i] = IF i <= Len(b) + 1 THEN Append(b, Head(c))[i]
                                                       ELSE Tail(c)[i - (Len(b) + 1)]
  BY <1>1, <1>2, ConcatProperties
<1>4. /\ r \in Seq(S) /\ Len(r) = Len(b) + Len(c)
      /\ \A i \in 1..Len(r) : r[i] = IF i <= Len(b) THEN b[i] ELSE c[i - Len(b)]
  BY ConcatProperties
<1>5. ASSUME NEW i \in 1..Len(l) PROVE l[i] = r[i]
  <2>0. i \in 1..Len(r)
    BY <1>1, <1>3, <1>4
  <2>1. CASE i <= Len(b)
    BY <1>1, <1>2, <1>3, <1>4, <2>0, <2>1
  <2>2. CASE i = Len(b) + 1
    <3>1. i - Len(b) = 1 /\ i \in 1..(Len(b) + 1) /\ ~(i <= Len(b))
      BY <1>1, <2>2
    <3> QED
      BY <1>2, <1>3, <1>4, <2>0, <2>2, <3>1
  <2>3. CASE i > Len(b) + 1
    <3>1. /\ i - (Len(b) + 1) \in 1..Len(Tail(c))
          /\ (i - (Len(b) + 1)) + 1 = i - Len(b)
      BY <1>1, <1>3, <2>3
    <3> QED
      BY <1>1, <1>3, <1>4, <2>0, <2>3, <3>1
  <2> QED
    BY <1>1, <1>3, <2>1, <2>2, <2>3
<1> QED
  BY <1>1, <1>3, <1>4, <1>5, SeqEqual

(* A fetch puts the next message behind the line. *)
LEMMA FetchInOrder == ASSUME IInv, OrderInv, Fetch PROVE OrderInv'
<1>0. Numbers /\ Contents /\ HandFollowsPhase
  BY DEF IInv, Types
<1>1. /\ UNCHANGED <<table, buffer, channel, disturbed>>
      /\ hand = 0 /\ hand' = position /\ position \in Offsets /\ position' = position + 1
      /\ fetched' = fetched \cup {position}
      /\ consumer' = IF position \in Invalid THEN "committing" ELSE "offering"
  <2>1. position \in 1..produced /\ 1..produced \subseteq Offsets
    BY <1>0, EtlAssumption DEF Fetch, Numbers, Offsets
  <2> QED
    BY <1>0, <2>1 DEF Fetch, HandFollowsPhase, inserting, rest
<1>2. OfferedIsValid'
  BY <1>1 DEF OfferedIsValid
<1> SUFFICES ASSUME ~disturbed PROVE ReaderIsAhead' /\ ExactlyOnceInOrder'
  BY <1>1, <1>2 DEF OrderInv
<1>3. /\ \A o \in fetched : o < position
      /\ ToSet(Line) = fetched \ Invalid /\ InOrder(Line)
  BY <1>1 DEF OrderInv, ReaderIsAhead, ExactlyOnceInOrder, Offsets
<1>4. ReaderIsAhead'
  <2>1. fetched \subseteq Nat /\ position \in Nat /\ position' # 0
    BY <1>0, <1>1 DEF IInv, Types, Histories, Numbers, Offsets
  <2> QED
    BY <1>1, <1>3, <2>1 DEF ReaderIsAhead
<1>5. Line \in Seq(Offsets) /\ Line = table \o buffer \o channel
  <2>1. Unoffered = <<>>
    BY <1>1 DEF Unoffered
  <2> QED
    BY <1>0, <2>1, LineTypes, ConcatEmptySeq DEF Line
<1>6. CASE position \in Invalid
  <2>1. Unoffered' = <<>>
    BY <1>1, <1>6 DEF Unoffered
  <2>2. Line' = Line
    BY <1>0, <1>1, <1>5, <2>1, LineTypes, ConcatEmptySeq DEF Line
  <2>3. fetched' \ Invalid = fetched \ Invalid
    BY <1>1, <1>6
  <2> QED
    BY <1>1, <1>3, <1>4, <2>2, <2>3 DEF ExactlyOnceInOrder
<1>7. CASE position \notin Invalid
  <2>1. Unoffered' = <<position>>
    BY <1>1, <1>7 DEF Unoffered, Offsets
  <2>2. Line' = Line \o <<position>>
    BY <1>1, <1>5, <2>1 DEF Line
  <2>3. \A o \in ToSet(Line) : o < position
    BY <1>3
  <2>4. InOrder(Line \o <<position>>) /\ ToSet(Line \o <<position>>) = ToSet(Line) \cup {position}
    BY <1>1, <1>3, <1>5, <2>3, AppendInOrder
  <2>5. fetched' \ Invalid = (fetched \ Invalid) \cup {position}
    BY <1>1, <1>7
  <2> QED
    BY <1>3, <1>4, <2>2, <2>4, <2>5 DEF ExactlyOnceInOrder
<1> QED
  BY <1>6, <1>7

(* Every other step of an undisturbed service leaves the line as it is. *)
LEMMA LineKept ==
  ASSUME IInv, OfferedIsValid, Next, ~Fetch, ~disturbed'
  PROVE  Line' = Line
<1>0. Numbers /\ Contents /\ HandFollowsPhase
  BY DEF IInv, Types
<1>1. CASE Offer
  <2>1. /\ hand \in Offsets /\ hand # 0 /\ hand \notin Invalid /\ consumer = "offering"
        /\ UNCHANGED <<table, buffer>> /\ channel' = Append(channel, hand)
        /\ consumer' = "committing"
    BY <1>0, <1>1 DEF Offer, OfferedIsValid, HandFollowsPhase, Offsets, inserting
  <2>2. Unoffered = <<hand>> /\ Unoffered' = <<>>
    BY <2>1 DEF Unoffered
  <2>3. /\ table \o buffer \in Seq(Offsets) /\ channel \in Seq(Offsets)
        /\ channel' = channel \o <<hand>> /\ channel' \in Seq(Offsets)
    BY <1>0, <2>1, LineTypes, AppendIsConcat, AppendProperties DEF Contents
  <2>4. /\ <<hand>> \in Seq(Offsets)
        /\ table \o buffer \o channel' \in Seq(Offsets)
        /\ table \o buffer \o channel' = table \o buffer \o channel \o <<hand>>
    <3>1. <<hand>> \in Seq(Offsets)
      BY <2>1
    <3> QED
      BY <2>3, <3>1, ConcatAssociative, ConcatProperties
  <2> QED
    BY <2>1, <2>2, <2>4, ConcatEmptySeq DEF Line
<1>2. CASE TakeMsg
  <2>1. /\ UNCHANGED <<table, hand, consumer>> /\ channel # <<>>
        /\ channel' = Tail(channel) /\ buffer' = Append(buffer, Head(channel))
    BY <1>2 DEF TakeMsg, consuming
  <2>2. buffer' \o channel' = buffer \o channel
    BY <1>0, <2>1, MoveHead DEF Contents
  <2>3. buffer' \in Seq(Offsets) /\ channel' \in Seq(Offsets)
    BY TypesKept DEF Types, Contents
  <2>4. table \o buffer' \o channel' = table \o buffer \o channel
    <3>0. table \in Seq(Offsets) /\ buffer \in Seq(Offsets) /\ channel \in Seq(Offsets)
      BY <1>0 DEF Contents
    <3>1. ASSUME NEW b \in Seq(Offsets), NEW c \in Seq(Offsets)
          PROVE  table \o b \o c = table \o (b \o c)
      BY <3>0, ConcatAssociative
    <3>2. table \o buffer' \o channel' = table \o (buffer' \o channel')
      BY <2>3, <3>1, Zenon
    <3>3. table \o buffer \o channel = table \o (buffer \o channel)
      BY <3>0, <3>1, Zenon
    <3> QED
      BY <2>2, <3>2, <3>3, Zenon
  <2>5. Unoffered' = Unoffered
    BY <2>1 DEF Unoffered
  <2> QED
    BY <2>1, <2>4, <2>5 DEF Line
<1>3. CASE Inserted
  <2>1. /\ UNCHANGED <<channel, hand, consumer>>
        /\ table' = table \o buffer /\ buffer' = <<>>
    BY <1>3 DEF Inserted, consuming
  <2>2. table' \o buffer' = table \o buffer
    BY <1>0, <2>1, LineTypes, ConcatEmptySeq
  <2>3. Unoffered' = Unoffered
    BY <2>1 DEF Unoffered
  <2> QED
    BY <2>1, <2>2, <2>3 DEF Line
<1>4. CASE Commit \/ ConsumerSeesCancel
  <2>1. UNCHANGED <<table, buffer, channel>>
    BY <1>4 DEF Commit, ConsumerSeesCancel, inserting
  <2>2. Unoffered' = Unoffered
    BY <1>0, <1>4 DEF Commit, ConsumerSeesCancel, Unoffered, HandFollowsPhase
  <2> QED
    BY <2>1, <2>2 DEF Line
<1>5. CASE ConsumerReturns
  <2>1. UNCHANGED <<table, buffer, channel, hand>> /\ consumer = "stopping" /\ consumer' = "returned"
    BY <1>5 DEF ConsumerReturns, inserting
  <2>2. Unoffered' = Unoffered
    BY <2>1 DEF Unoffered
  <2> QED
    BY <2>1, <2>2 DEF Line
<1>6. CASE UNCHANGED <<table, buffer, channel, hand, consumer>>
  <2>1. Unoffered' = Unoffered
    BY <1>6 DEF Unoffered
  <2> QED
    BY <1>6, <2>1 DEF Line
<1>7. ~Exit /\ ~Die /\ ~InsertInDoubt
  BY DEF Exit, Die, Ends, InsertInDoubt
<1> QED
  BY <1>1, <1>2, <1>3, <1>4, <1>5, <1>6, <1>7
     DEF Next, Produce, Join, Flush, Leave, Expire, TakeTick, TakeEnd, InsertFails,
         Interrupt, Restart, consuming, inserting

(* The reader does not go back unless it is sent back. *)
LEMMA ReaderStaysAhead ==
  ASSUME IInv, Next, ~Fetch, ReaderIsAhead, ~disturbed'
  PROVE  ReaderIsAhead'
<1>1. UNCHANGED fetched
  BY DEF Next, Produce, Join, Flush, Leave, Offer, Commit, ConsumerSeesCancel, ConsumerReturns,
     Expire, TakeTick, TakeMsg, TakeEnd, Inserted, InsertFails, InsertInDoubt, Interrupt, Exit,
     Die, Ends, Restart, consuming
<1>2. CASE Join
  <2>1. consumer # "returned" /\ position = 0
    BY <1>2 DEF Join
  <2>2. fetched = {}
    BY <2>1 DEF ReaderIsAhead
  <2> QED
    BY <1>1, <2>2 DEF ReaderIsAhead
<1>3. CASE ConsumerReturns
  BY <1>1, <1>3 DEF ConsumerReturns, ReaderIsAhead
<1>4. CASE Offer \/ Commit \/ ConsumerSeesCancel
  BY <1>1, <1>4 DEF Offer, Commit, ConsumerSeesCancel, ReaderIsAhead, reading
<1>5. CASE UNCHANGED <<position, consumer>>
  BY <1>1, <1>5 DEF ReaderIsAhead
<1>6. ~Leave /\ ~Exit /\ ~Die
  BY DEF Leave, Exit, Die, Ends
<1> QED
  BY <1>2, <1>3, <1>4, <1>5, <1>6
     DEF Next, Produce, Flush, Expire, TakeTick, TakeMsg, TakeEnd, Inserted, InsertFails,
         InsertInDoubt, Interrupt, Restart, consuming, reading

(* A step keeps the order. *)
LEMMA OrderKept == ASSUME IInv, OrderInv, Next PROVE OrderInv'
<1>1. CASE Fetch
  BY <1>1, FetchInOrder
<1>2. CASE ~Fetch
  <2>1. OfferedIsValid'
    BY <1>2 DEF OrderInv, OfferedIsValid, Next, Produce, Join, Flush, Leave, Offer, Commit, Again,
       ConsumerSeesCancel, ConsumerReturns, Expire, TakeTick, TakeMsg, TakeEnd, Inserted,
       InsertFails, InsertInDoubt, Interrupt, Exit, Die, Ends, Restart, consuming
  <2>2. ASSUME ~disturbed' PROVE ReaderIsAhead' /\ ExactlyOnceInOrder'
    <3>1. ~disturbed /\ UNCHANGED fetched
      <4>1. ~Leave /\ ~InsertInDoubt /\ ~Exit /\ ~Die
        BY <2>2 DEF Leave, InsertInDoubt, Exit, Die, Ends
      <4>2. UNCHANGED disturbed
        BY <1>2, <4>1 DEF Next, Produce, Join, Flush, Offer, Commit, ConsumerSeesCancel,
           ConsumerReturns, Expire, TakeTick, TakeMsg, TakeEnd, Inserted, InsertFails, Interrupt,
           Restart, rest
      <4>3. UNCHANGED fetched
        BY <1>2, <4>1 DEF Next, Produce, Join, Flush, Offer, Commit, ConsumerSeesCancel,
           ConsumerReturns, Expire, TakeTick, TakeMsg, TakeEnd, Inserted, InsertFails, Interrupt,
           Restart, consuming
      <4> QED
        BY <2>2, <4>2, <4>3
    <3>2. ReaderIsAhead'
      BY <1>2, <2>2, <3>1, ReaderStaysAhead DEF OrderInv
    <3>3. Line' = Line
      BY <1>2, <2>2, LineKept DEF OrderInv
    <3> QED
      BY <3>1, <3>2, <3>3 DEF OrderInv, ExactlyOnceInOrder
  <2> QED
    BY <2>1, <2>2 DEF OrderInv
<1> QED
  BY <1>1, <1>2

(* Until a rebalance, a doubtful Send or the end of a process, every valid *)
(* message fetched is in one place of the line, and the line is in the     *)
(* order of the offsets, however inserts failed and were repeated.         *)
THEOREM RowsInOrder == Spec => []ExactlyOnceInOrder
<1>1. Init => OrderInv
  <2> SUFFICES ASSUME Init PROVE OrderInv
    OBVIOUS
  <2>1. Line = <<>>
    BY EmptySeq, ConcatEmptySeq DEF Init, Line, Unoffered
  <2>2. ToSet(<<>>) = {} /\ InOrder(<<>>)
    BY DEF ToSet, InOrder
  <2> QED
    BY <2>1, <2>2 DEF Init, OrderInv, OfferedIsValid, ReaderIsAhead, ExactlyOnceInOrder
<1>2. IInv /\ OrderInv /\ [Next]_vars => OrderInv'
  <2> SUFFICES ASSUME IInv, OrderInv, [Next]_vars PROVE OrderInv'
    OBVIOUS
  <2>1. CASE UNCHANGED vars
    <3>1. Unoffered' = Unoffered
      BY <2>1 DEF vars, Unoffered
    <3>2. Line' = Line
      BY <2>1, <3>1 DEF vars, Line
    <3> QED
      BY <2>1, <3>2 DEF vars, OrderInv, OfferedIsValid, ReaderIsAhead, ExactlyOnceInOrder
  <2> QED
    BY <2>1, OrderKept
<1>3. Spec => []OrderInv
  BY <1>1, <1>2, Invariance, PTL DEF Spec
<1>4. OrderInv => ExactlyOnceInOrder
  BY DEF OrderInv, ExactlyOnceInOrder
<1> QED
  BY <1>3, <1>4, PTL

-------------------------------------------------------------------------------
(* A fetched message whose offset is committed, or about to be, is a row,  *)
(* waits in the channel or the batch, or was there when a process ended,   *)
(* through rebalances, failed inserts, interrupts and restarts.            *)
THEOREM CommitsFollowHandover == Spec => []CommittedWasHandedOn
<1>1. IInv => CommittedWasHandedOn
  <2> SUFFICES ASSUME IInv PROVE CommittedWasHandedOn
    OBVIOUS
  <2>1. TypeOK
    <3>1. {committed, position, pending} \subseteq 0..(MsgLimit + 1)
      BY DEF IInv, Types, Numbers
    <3>2. {closed, cancelled, up, disturbed} \subseteq BOOLEAN
      BY DEF IInv, Types, Flags
    <3>3. skipped \subseteq Offsets
      BY EtlAssumption DEF IInv, Types, Numbers, Histories, Offsets
    <3> QED
      BY <3>1, <3>2, <3>3 DEF TypeOK, IInv, Types, Numbers, Contents, Places, Budgets, Histories
  <2>2. ASSUME NEW o \in (fetched \ Invalid) \ skipped, o < committed \/ o < pending
        PROVE  o \in HandedOn
    BY <2>2 DEF IInv, Types, Histories, PassedOn, Passed
  <2> QED
    BY <2>1, <2>2 DEF CommittedWasHandedOn, HandedOn
<1> QED
  BY <1>1, Invariance, PTL
===============================================================================
