------------------------- MODULE SocketProducerProofs -------------------------
(***************************************************************************)
(* Theorems about SocketProducer, for any readers, streams, retries and    *)
(* channel capacity.                                                       *)
(***************************************************************************)
EXTENDS SocketProducer, TLAPS

(* Only sp.conn and a lost connection are not closed.                      *)
OneLink == \A r \in Readers : link[r] # "closed" => r = conn \/ r = lost

(* A lost connection is not sp.conn, and only a first connect() loses one. *)
LostIsApart == /\ lost # Nil => link[lost] # "closed" /\ conn # lost
               /\ loop \in {"absent", "connecting", "retrying"} => lost = Nil

(* Before the first connection and between CloseOld and Redial there is    *)
(* none, and an attempt is left.                                           *)
Dialling == {"absent", "connecting", "retrying", "redialling"}
NoConnWhileDialling == loop \in Dialling => conn = Nil /\ attempt < MaxRetries

(* While the loop selects, the reader of its connection has not been       *)
(* stopped, and one that ended has left its error behind.                  *)
ReaderOrError ==
    loop = "selecting" /\ conn # Nil =>
        /\ stopper = conn /\ ~cancelled[conn]
        /\ ctxDone \/ Running(conn) \/ errors > 0

IInv == /\ ReaderHasConnection /\ ReturnsClean
        /\ OneLink /\ LostIsApart /\ NoConnWhileDialling /\ ReaderOrError

-------------------------------------------------------------------------------
(* Without a connection nothing is read, and nothing is open but what is lost. *)
LEMMA NilIsQuiet == ASSUME IInv, conn = Nil
                    PROVE  NoReader /\ \A r \in Readers : link[r] # "closed" => r = lost
  BY SocketProducerAssumption DEF IInv, ReaderHasConnection, OneLink, NoReader

LEMMA Initially == Init => IInv
<1> SUFFICES ASSUME Init PROVE IInv
  OBVIOUS
<1> USE SocketProducerAssumption DEF Init
<1>1. TypeOK
  <2>1. link \in [Readers -> {"closed", "open", "broken"}]
        /\ reader \in [Readers -> {"idle", "reading", "sending", "reporting"}]
        /\ cancelled \in [Readers -> BOOLEAN]
        /\ stream \in [Streams -> {"none", "waiting", "sending", "ended"}]
    OBVIOUS
  <2>2. loop \in LoopPhases /\ attempt \in 0..MaxRetries /\ errors \in 0..1 /\ out \in 0..OutCap
    BY DEF LoopPhases
  <2> QED
    BY <2>1, <2>2 DEF TypeOK
<1>2. \A r \in Readers : ~Running(r) /\ link[r] = "closed"
  BY DEF Running
<1>3. ReaderHasConnection /\ ReturnsClean /\ OneLink
  BY <1>1, <1>2 DEF ReaderHasConnection, ReturnsClean, OneLink
<1>4. NoConnWhileDialling /\ ReaderOrError /\ LostIsApart
  BY DEF NoConnWhileDialling, ReaderOrError, LostIsApart
<1> QED
  BY <1>3, <1>4 DEF IInv

(* A connection installed when there was none is the only one, and read. *)
LEMMA Installed ==
  ASSUME IInv, conn = Nil, NEW r \in Readers, Install(r), loop' = "selecting",
         attempt' \in 0..MaxRetries, fallback' \in BOOLEAN,
         UNCHANGED <<errors, tick, out, lost, stream, ctxDone>>
  PROVE  IInv'
<1> USE SocketProducerAssumption
<1>1. NoReader /\ \A q \in Readers : link[q] # "closed" => q = lost
  BY NilIsQuiet
<1>2. TypeOK'
  BY DEF IInv, ReaderHasConnection, TypeOK, Install, LoopPhases
<1>3. (\A q \in Readers : Running(q) => conn = q /\ link[q] # "closed")' /\ OneLink'
  BY <1>1 DEF IInv, ReaderHasConnection, TypeOK, Install, NoReader, Running, OneLink
<1>4. ReaderOrError'
  BY DEF IInv, ReaderHasConnection, TypeOK, Install, ReaderOrError, Running
<1>5. LostIsApart'
  BY DEF IInv, ReaderHasConnection, TypeOK, Install, LostIsApart
<1> QED
  BY <1>2, <1>3, <1>4, <1>5 DEF IInv, ReaderHasConnection, ReturnsClean, NoConnWhileDialling, Dialling

(* A step of the loop that changes neither a reader nor a connection. *)
LEMMA LoopMoves ==
  ASSUME IInv, TypeOK', UNCHANGED <<conn, lost, link, reader>>,
         loop' \in {"absent", "connecting", "retrying"} => lost = Nil,
         loop' = "returned" => conn = Nil \/ loop = "returned",
         loop' \in Dialling => conn = Nil /\ attempt' < MaxRetries,
         loop' = "selecting" => conn = Nil
  PROVE  IInv'
<1>1. (\A r \in Readers : Running(r) => conn = r /\ link[r] # "closed")' /\ OneLink'
  BY DEF IInv, ReaderHasConnection, Running, OneLink
<1>2. ReturnsClean'
  <2>1. CASE conn = Nil
    BY <2>1, NilIsQuiet DEF ReturnsClean, NoReader, Running
  <2>2. CASE loop = "returned"
    BY <2>2 DEF IInv, ReturnsClean, NoReader, Running
  <2> QED
    BY <2>1, <2>2 DEF ReturnsClean
<1>3. LostIsApart'
  BY DEF IInv, LostIsApart
<1> QED
  BY <1>1, <1>2, <1>3 DEF IInv, ReaderHasConnection, NoConnWhileDialling, Dialling, ReaderOrError

-------------------------------------------------------------------------------
(* The loop. *)
LEMMA LoopKeeps == ASSUME IInv, Loop PROVE IInv'
<1> USE SocketProducerAssumption
<1>0. TypeOK
  BY DEF IInv, ReaderHasConnection
<1>1. CASE FirstConnect
  <2> USE <1>1 DEF FirstConnect
  <2>1. conn = Nil /\ attempt < MaxRetries /\ fallback' \in BOOLEAN /\ lost = Nil
    BY <1>0 DEF IInv, NoConnWhileDialling, Dialling, Dial, TypeOK, LostIsApart
  <2>2. CASE \E r \in Readers : Install(r) /\ loop' = "selecting"
    BY <1>0, <2>1, <2>2, Installed DEF TypeOK
  <2>3. CASE loop' = "retrying" /\ UNCHANGED <<readerVars, conn, stopper>>
    <3>1. TypeOK'
      BY <1>0, <2>1, <2>3 DEF TypeOK, readerVars, LoopPhases
    <3> QED
      BY <2>1, <2>3, <3>1, LoopMoves DEF readerVars, Dialling
  <2> QED
    BY <2>2, <2>3
<1>2. CASE RetryConnect
  <2> USE <1>2 DEF RetryConnect
  <2>1. conn = Nil /\ attempt < MaxRetries /\ lost = Nil
    BY DEF IInv, NoConnWhileDialling, Dialling, LostIsApart
  <2>2. loop' \in {"returned", "selecting", "retrying"} /\ fallback' \in BOOLEAN
    BY <1>0 DEF Dial, TypeOK
  <2>3. attempt' \in 0..MaxRetries /\ (loop' \in Dialling => attempt' < MaxRetries)
    BY <1>0, <2>1 DEF TypeOK, Dialling
  <2>4. lost' \in Readers \cup {Nil} /\ link' \in [Readers -> {"closed", "open", "broken"}]
    BY <1>0 DEF TypeOK
  <2>5. TypeOK'
    BY <1>0, <2>2, <2>3, <2>4 DEF TypeOK, LoopPhases
  <2>6. CASE UNCHANGED <<lost, link>>
    BY <2>1, <2>2, <2>3, <2>5, <2>6, LoopMoves
  <2>7. CASE \E r \in Readers : /\ ~Running(r) /\ link[r] = "closed"
                                /\ lost' = r
                                /\ link' = [link EXCEPT ![r] = "open"]
                                /\ loop' = "selecting"
    <3>1. PICK r \in Readers : lost' = r /\ link' = [link EXCEPT ![r] = "open"]
      BY <2>7
    <3>2. \A q \in Readers : ~Running(q) /\ link[q] = "closed"
      BY <2>1, NilIsQuiet DEF NoReader
    <3>3. \A q \in Readers : ~Running(q)' /\ (link'[q] # "closed" <=> q = r)
      BY <1>0, <3>1, <3>2 DEF TypeOK, Running
    <3>4. conn' = Nil /\ loop' = "selecting"
      BY <2>1, <2>7
    <3>5. ReaderHasConnection' /\ OneLink' /\ LostIsApart'
      BY <2>5, <3>1, <3>3, <3>4 DEF ReaderHasConnection, OneLink, LostIsApart
    <3> QED
      BY <3>4, <3>5 DEF IInv, ReturnsClean, NoConnWhileDialling, Dialling, ReaderOrError
  <2> QED
    BY <2>6, <2>7
<1>3. CASE TakeCtxDone \/ TakeTick \/ TakeError
  <2>1. loop' \in {"draining", "stopping"} /\ UNCHANGED <<conn, lost, link, reader>>
    BY <1>3 DEF TakeCtxDone, TakeTick, TakeError, StopReader
  <2>2. TypeOK'
    <3>1. cancelled' \in [Readers -> BOOLEAN]
      BY <1>0, <1>3 DEF TypeOK, TakeCtxDone, TakeTick, TakeError, StopReader
    <3>2. errors' \in 0..1 /\ tick' \in BOOLEAN
      <4>1. CASE TakeError
        BY <1>0, <4>1 DEF TypeOK, TakeError
      <4>2. CASE TakeCtxDone \/ TakeTick
        BY <1>0, <4>2 DEF TypeOK, TakeCtxDone, TakeTick
      <4> QED
        BY <1>3, <4>1, <4>2
    <3>3. UNCHANGED <<attempt, stopper, out, fallback, lost, stream, ctxDone>>
      BY <1>3 DEF TakeCtxDone, TakeTick, TakeError
    <3> QED
      BY <1>0, <2>1, <3>1, <3>2, <3>3 DEF TypeOK, LoopPhases
  <2>3. /\ loop' \notin Dialling /\ loop' # "returned" /\ loop' # "selecting"
        /\ loop' \notin {"absent", "connecting", "retrying"}
    BY <2>1 DEF Dialling
  <2> QED
    BY <2>1, <2>2, <2>3, LoopMoves
<1>4. CASE CloseOld
  <2> USE <1>4 DEF CloseOld
  <2>1. TypeOK'
    BY <1>0 DEF TypeOK, LoopPhases
  <2>2. \A r \in Readers : link'[r] # "closed" => r = lost
    BY <1>0 DEF IInv, OneLink, TypeOK
  <2>3. NoReader'
    BY DEF NoReader, Running
  <2>4. LostIsApart'
    BY <1>0 DEF IInv, LostIsApart, TypeOK
  <2> QED
    BY <2>1, <2>2, <2>3, <2>4 DEF IInv, ReaderHasConnection, NoReader, ReturnsClean, OneLink,
       NoConnWhileDialling, Dialling, ReaderOrError
<1>5. CASE Redial
  <2> USE <1>5 DEF Redial
  <2>1. conn = Nil /\ attempt < MaxRetries
    BY DEF IInv, NoConnWhileDialling, Dialling
  <2>2. CASE ~ctxDone /\ Dial /\ \E r \in Readers : Install(r) /\ loop' = "selecting" /\ UNCHANGED attempt
    <3>1. fallback' \in BOOLEAN
      BY <1>0, <2>2 DEF Dial, TypeOK
    <3> QED
      BY <1>0, <2>1, <2>2, <3>1, Installed DEF TypeOK
  <2>3. CASE UNCHANGED <<conn, stopper, readerVars>>
    <3>1. loop' \in {"selecting", "redialling"} /\ fallback' \in BOOLEAN
      BY <2>3, <2>1, <1>0 DEF Dial, TypeOK
    <3>2. attempt' \in 0..MaxRetries /\ (loop' \in Dialling => attempt' < MaxRetries)
      BY <1>0, <2>1, <2>3 DEF TypeOK, Dialling
    <3>3. TypeOK'
      BY <1>0, <2>3, <3>1, <3>2 DEF TypeOK, readerVars, LoopPhases
    <3> QED
      BY <2>1, <2>3, <3>1, <3>2, <3>3, LoopMoves DEF readerVars
  <2> QED
    BY <2>2, <2>3
<1>6. CASE Return
  <2> USE <1>6 DEF Return
  <2>1. TypeOK'
    BY <1>0 DEF TypeOK, LoopPhases
  <2>2. \A r \in Readers : link'[r] # "closed" => r = lost
    BY <1>0 DEF IInv, OneLink, TypeOK
  <2>3. NoReader'
    BY DEF NoReader, Running
  <2>4. LostIsApart'
    BY <1>0 DEF IInv, LostIsApart, TypeOK
  <2> QED
    BY <2>1, <2>2, <2>3, <2>4 DEF IInv, ReaderHasConnection, NoReader, ReturnsClean, OneLink,
       NoConnWhileDialling, Dialling, ReaderOrError
<1> QED
  BY <1>1, <1>2, <1>3, <1>4, <1>5, <1>6 DEF Loop

-------------------------------------------------------------------------------
(* The readers.  One that ends has been stopped or leaves an error. *)
LEMMA ReaderKeeps == ASSUME IInv, NEW r \in Readers, Reader(r) PROVE IInv'
<1> USE SocketProducerAssumption
<1>0. TypeOK /\ Running(r) /\ conn = r /\ link[r] # "closed" /\ loop # "returned"
  <2>1. TypeOK /\ Running(r)
    BY DEF IInv, ReaderHasConnection, Reader, ReadMessage, ReadFails, SendOut, Report, Running
  <2> QED
    BY <2>1 DEF IInv, ReaderHasConnection, ReturnsClean, NoReader
<1>1. UNCHANGED <<loopVars, link, cancelled, ctxDone>>
  BY DEF Reader, ReadMessage, ReadFails, SendOut, Report
<1>2. \E phase \in {"idle", "reading", "sending", "reporting"} : ReaderTo(r, phase)
  BY DEF Reader, ReadMessage, ReadFails, SendOut, Report
<1>3. TypeOK'
  <2>1. reader' \in [Readers -> {"idle", "reading", "sending", "reporting"}]
    BY <1>0, <1>2 DEF TypeOK, ReaderTo
  <2>2. errors' \in 0..1 /\ out' \in 0..OutCap /\ UNCHANGED <<tick, stream>>
    BY <1>0 DEF TypeOK, Reader, ReadMessage, ReadFails, SendOut, Report
  <2> QED
    BY <1>0, <1>1, <2>1, <2>2 DEF TypeOK, loopVars
<1>4. (\A q \in Readers : Running(q) => conn = q /\ link[q] # "closed")'
  BY <1>0, <1>1, <1>2 DEF IInv, ReaderHasConnection, ReaderTo, Running, loopVars, TypeOK
<1>5. ReturnsClean' /\ OneLink' /\ LostIsApart' /\ NoConnWhileDialling'
  BY <1>0, <1>1 DEF IInv, ReturnsClean, OneLink, LostIsApart, NoConnWhileDialling, loopVars
<1>6. ReaderOrError'
  <2> SUFFICES ASSUME loop = "selecting" PROVE ctxDone \/ Running(r)' \/ errors' > 0
    BY <1>0, <1>1 DEF IInv, ReaderOrError, loopVars
  <2>1. ~cancelled[r]
    BY <1>0, SocketProducerAssumption DEF IInv, ReaderOrError
  <2> QED
    BY <1>0, <2>1 DEF Reader, ReadMessage, ReadFails, SendOut, Report, ReaderTo, Running, Done, TypeOK
<1> QED
  BY <1>3, <1>4, <1>5, <1>6 DEF IInv, ReaderHasConnection

-------------------------------------------------------------------------------
(* The rest: Binance, time, the gRPC handlers and main. *)
LEMMA OthersKeep ==
  ASSUME IInv,
         \/ \E r \in Readers : ConnectionBreaks(r)
         \/ \E g \in Streams : Handler(g)
         \/ LostIsCollected \/ Tick \/ Interrupt
  PROVE  IInv'
<1> USE SocketProducerAssumption
<1>0. TypeOK
  BY DEF IInv, ReaderHasConnection
<1>1. CASE \E r \in Readers : ConnectionBreaks(r)
  <2>1. PICK r \in Readers : ConnectionBreaks(r)
    BY <1>1
  <2>2. TypeOK'
    BY <1>0, <2>1 DEF TypeOK, ConnectionBreaks, loopVars
  <2>3. \A q \in Readers : link'[q] # "closed" <=> link[q] # "closed"
    BY <1>0, <2>1 DEF TypeOK, ConnectionBreaks
  <2> QED
    BY <1>0, <2>1, <2>2, <2>3 DEF IInv, ConnectionBreaks, ReaderHasConnection, ReturnsClean, OneLink,
       LostIsApart, TypeOK, NoConnWhileDialling, Dialling, ReaderOrError, Running, NoReader, loopVars
<1>2. CASE \E g \in Streams : Handler(g)
  <2>1. PICK g \in Streams : Handler(g)
    BY <1>2
  <2>2. TypeOK'
    BY <1>0, <2>1 DEF TypeOK, Handler, OpenStream, TakeMessage, SendMessage, EndStream,
       loopVars, readerVars, LoopPhases
  <2>3. UNCHANGED <<attempt, conn, stopper, lost, readerVars, errors, ctxDone>>
        /\ (loop' = loop \/ (loop = "absent" /\ loop' = "connecting"))
    BY <2>1 DEF Handler, OpenStream, TakeMessage, SendMessage, EndStream, loopVars
  <2> QED
    BY <2>2, <2>3 DEF IInv, ReaderHasConnection, ReturnsClean, OneLink, LostIsApart,
       NoConnWhileDialling, Dialling, ReaderOrError, Running, NoReader, readerVars
<1>3. CASE Tick \/ Interrupt
  <2>1. TypeOK' /\ UNCHANGED <<loopVars, readerVars, errors>> /\ (ctxDone => ctxDone')
    BY <1>0, <1>3 DEF TypeOK, Tick, Interrupt, loopVars, readerVars
  <2> QED
    BY <2>1 DEF IInv, ReaderHasConnection, ReturnsClean, OneLink, LostIsApart,
       NoConnWhileDialling, Dialling, ReaderOrError, Running, NoReader, loopVars, readerVars
<1>4. CASE LostIsCollected
  <2>1. /\ lost \in Readers /\ lost # conn /\ lost' = Nil
        /\ link' = [link EXCEPT ![lost] = "closed"]
        /\ UNCHANGED <<loop, attempt, conn, stopper, reader, cancelled, errors, ctxDone>>
    BY <1>0, <1>4 DEF LostIsCollected, IInv, LostIsApart, TypeOK
  <2>2. TypeOK'
    BY <1>0, <1>4, <2>1 DEF TypeOK, LostIsCollected
  <2>3. \A r \in Readers : link'[r] = IF r = lost THEN "closed" ELSE link[r]
    BY <1>0, <2>1 DEF TypeOK
  <2>4. ReaderHasConnection' /\ OneLink' /\ LostIsApart' /\ ReturnsClean'
    BY <2>1, <2>2, <2>3 DEF IInv, ReaderHasConnection, OneLink, LostIsApart, ReturnsClean,
       Running, NoReader
  <2> QED
    BY <2>1, <2>4 DEF IInv, NoConnWhileDialling, Dialling, ReaderOrError, Running
<1> QED
  BY <1>1, <1>2, <1>3, <1>4

-------------------------------------------------------------------------------
(* The conjuncts of IInv hold together in every reachable state. *)
LEMMA Invariance == Spec => []IInv
<1>1. Init => IInv
  BY Initially
<1>2. IInv /\ [Next]_vars => IInv'
  <2> SUFFICES ASSUME IInv, [Next]_vars PROVE IInv'
    OBVIOUS
  <2>1. CASE Next
    BY <2>1, LoopKeeps, ReaderKeeps, OthersKeep DEF Next
  <2>2. CASE UNCHANGED vars
    BY <2>2 DEF vars, loopVars, readerVars, IInv, TypeOK, ReaderHasConnection, ReturnsClean,
       OneLink, LostIsApart, NoConnWhileDialling, Dialling, ReaderOrError, Running, NoReader
  <2> QED
    BY <2>1, <2>2
<1> QED
  BY <1>1, <1>2, PTL DEF Spec

(* A running reader reads the producer's connection, which is not closed:  *)
(* no reconnect, error or shutdown makes two read at once.                 *)
THEOREM ReaderReadsConnection == Spec => []ReaderHasConnection
<1>1. IInv => ReaderHasConnection
  BY DEF IInv
<1> QED
  BY <1>1, Invariance, PTL

(* A producer that waits without an error to take reads exactly its own    *)
(* connection, and only a lost connection is open and not read.            *)
THEOREM OnlyLostIsUnread == Spec => []ConnectedIsRead
<1>1. IInv => ConnectedIsRead
  <2> SUFFICES ASSUME IInv, loop = "selecting", ~ctxDone, errors = 0, NEW r \in Readers
               PROVE  /\ Running(r) <=> r = conn
                      /\ link[r] # "closed" /\ ~Running(r) => r = lost
    BY DEF ConnectedIsRead
  <2>1. Running(r) => r = conn
    BY DEF IInv, ReaderHasConnection
  <2>2. r = conn => Running(r)
    BY SocketProducerAssumption DEF IInv, ReaderOrError, ReaderHasConnection, TypeOK
  <2> QED
    BY <2>1, <2>2 DEF IInv, OneLink
<1> QED
  BY <1>1, Invariance, PTL

(* A producer that returned left no reader behind, and of all connections  *)
(* it opened at most the one that a retried first connect() lost.          *)
THEOREM OnlyLostIsLeftBehind == Spec => []ReturnsClean
<1>1. IInv => ReturnsClean
  BY DEF IInv
<1> QED
  BY <1>1, Invariance, PTL
===============================================================================
