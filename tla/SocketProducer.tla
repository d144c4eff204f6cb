---------------------------- MODULE SocketProducer ----------------------------
(***************************************************************************)
(* The Socket service for one symbol: the socketProducer that keeps a      *)
(* WebSocket connection to Binance and reads it (connsock/conn.go), the    *)
(* map entry that creates it once (connection_manager.go), and the gRPC    *)
(* handlers that take its messages (svr/server.go).                        *)
(*                                                                         *)
(* Two kinds of goroutine run for a producer: the loop (Start and all it   *)
(* calls) and the readers it launches, one per connection; a reader and    *)
(* the connection it was given have one identity here.  They share         *)
(* outputChan, readMsgError (capacity 1) and the wait group readMsgWg.     *)
(***************************************************************************)
EXTENDS Naturals

CONSTANTS Readers,      \* readers, each with its connection
          Nil,          \* sp.conn or sp.readMsgCancel is nil
          Streams,      \* gRPC streams opened for the symbol
          MaxRetries,   \* maxRetries of reconnect (5 in the code)
          OutCap        \* capacity of outputChan (100 in the code)

ASSUME SocketProducerAssumption ==
    /\ Nil \notin Readers
    /\ MaxRetries \in Nat \ {0}
    /\ OutCap \in Nat \ {0}

VARIABLES loop,      \* where Start is
          attempt,   \* failed attempts of the current reconnect
          conn,      \* sp.conn
          stopper,   \* the reader sp.readMsgCancel cancels
          link,      \* the state of each reader's connection
          reader,    \* where each reader is
          cancelled, \* the reader's own context was cancelled
          errors,    \* length of readMsgError
          tick,      \* a tick waits in reconnectTicker.C
          out,       \* length of outputChan
          fallback,  \* urlConnection was switched to the .us endpoint
          lost,      \* a connection opened, the only reference to it dropped
          stream,    \* where each gRPC handler is
          ctxDone    \* main's context is cancelled

loopVars == <<loop, attempt, conn, stopper, fallback, lost>>
readerVars == <<link, reader, cancelled>>
vars == <<loopVars, readerVars, errors, tick, out, stream, ctxDone>>

LoopPhases == {"absent", "connecting", "retrying", "selecting", "stopping", "redialling",
               "draining", "returned"}

TypeOK ==
    /\ loop \in LoopPhases
    /\ attempt \in 0..MaxRetries
    /\ conn \in Readers \cup {Nil}
    /\ stopper \in Readers \cup {Nil}
    /\ link \in [Readers -> {"closed", "open", "broken"}]
    /\ reader \in [Readers -> {"idle", "reading", "sending", "reporting"}]
    /\ cancelled \in [Readers -> BOOLEAN]
    /\ errors \in 0..1
    /\ tick \in BOOLEAN
    /\ out \in 0..OutCap
    /\ fallback \in BOOLEAN
    /\ lost \in Readers \cup {Nil}
    /\ stream \in [Streams -> {"none", "waiting", "sending", "ended"}]
    /\ ctxDone \in BOOLEAN

Init ==
    /\ loop = "absent"
    /\ attempt = 0
    /\ conn = Nil
    /\ stopper = Nil
    /\ link = [r \in Readers |-> "closed"]
    /\ reader = [r \in Readers |-> "idle"]
    /\ cancelled = [r \in Readers |-> FALSE]
    /\ errors = 0
    /\ tick = FALSE
    /\ out = 0
    /\ fallback = FALSE
    /\ lost = Nil
    /\ stream = [g \in Streams |-> "none"]
    /\ ctxDone = FALSE

Running(r) == reader[r] # "idle"
NoReader == \A r \in Readers : ~Running(r)

-------------------------------------------------------------------------------
(* Dialling. *)

(* connect(): a 451 on the first endpoint switches to the other for good   *)
(* and dials once more; either dial may succeed or fail.                   *)
Dial == fallback' \in {fallback, TRUE}

(* A new connection becomes sp.conn and gets its reader. *)
Install(r) ==
    /\ ~Running(r) /\ link[r] = "closed"
    /\ conn' = r
    /\ stopper' = r
    /\ link' = [link EXCEPT ![r] = "open"]
    /\ reader' = [reader EXCEPT ![r] = "reading"]
    /\ cancelled' = [cancelled EXCEPT ![r] = FALSE]

(* Start: the first connect(). *)
FirstConnect ==
    /\ loop = "connecting"
    /\ Dial
    /\ \/ \E r \in Readers : Install(r) /\ loop' = "selecting"
       \/ loop' = "retrying" /\ UNCHANGED <<readerVars, conn, stopper>>
    /\ UNCHANGED <<attempt, errors, tick, out, lost, stream, ctxDone>>

(* Start: reconnect() after a failed first connect().  Its connection is   *)
(* assigned to a conn of the inner scope: sp.conn becomes the outer, nil   *)
(* one, the reader started for it returns at once, and nobody holds the    *)
(* connection that was opened.                                             *)
RetryConnect ==
    /\ loop = "retrying"
    /\ \/ ctxDone /\ loop' = "returned" /\ UNCHANGED <<attempt, lost, link, fallback>>
       \/ /\ ~ctxDone
          /\ Dial
          /\ \/ /\ \E r \in Readers : /\ ~Running(r) /\ link[r] = "closed"
                                      /\ lost' = r
                                      /\ link' = [link EXCEPT ![r] = "open"]
                /\ loop' = "selecting" /\ attempt' = 0
             \/ /\ attempt' = attempt + 1
                /\ loop' = IF attempt' = MaxRetries THEN "returned" ELSE "retrying"
                /\ UNCHANGED <<lost, link>>
    /\ UNCHANGED <<conn, stopper, reader, cancelled, errors, tick, out, stream, ctxDone>>

-------------------------------------------------------------------------------
(* The select of Start, and doReconnect. *)

(* cancel() of readMsgCancel; then the loop waits for readMsgWg. *)
StopReader(phase) ==
    /\ loop' = phase
    /\ cancelled' = IF stopper = Nil THEN cancelled ELSE [cancelled EXCEPT ![stopper] = TRUE]

TakeCtxDone ==
    /\ loop = "selecting" /\ ctxDone
    /\ StopReader("draining")
    /\ UNCHANGED <<attempt, conn, stopper, fallback, lost, link, reader, errors, tick, out,
                   stream, ctxDone>>

TakeTick ==
    /\ loop = "selecting" /\ tick
    /\ tick' = FALSE
    /\ StopReader("stopping")
    /\ UNCHANGED <<attempt, conn, stopper, fallback, lost, link, reader, errors, out,
                   stream, ctxDone>>

(* The reconnecting flag is always false here: doReconnect, which sets it, *)
(* returns before the loop selects again, so no error is ever ignored.     *)
TakeError ==
    /\ loop = "selecting" /\ errors > 0
    /\ errors' = errors - 1
    /\ StopReader("stopping")
    /\ UNCHANGED <<attempt, conn, stopper, fallback, lost, link, reader, tick, out,
                   stream, ctxDone>>

(* Mutant: the old connection is closed without waiting for its reader. *)
CloseOldAtOnce ==
    /\ loop = "stopping"
    /\ link' = IF conn = Nil THEN link ELSE [link EXCEPT ![conn] = "closed"]
    /\ conn' = Nil
    /\ loop' = "redialling"
    /\ attempt' = 0
    /\ UNCHANGED <<stopper, fallback, lost, reader, cancelled, errors, tick, out, stream, ctxDone>>

(* Mutant: sp.conn is not reset. *)
CloseOldKeepsConn ==
    /\ loop = "stopping" /\ NoReader
    /\ link' = IF conn = Nil THEN link ELSE [link EXCEPT ![conn] = "closed"]
    /\ loop' = "redialling"
    /\ attempt' = 0
    /\ UNCHANGED <<conn, stopper, fallback, lost, reader, cancelled, errors, tick, out, stream, ctxDone>>

(* doReconnect: readMsgWg.Wait() returned; the old connection is closed. *)
CloseOld ==
    /\ loop = "stopping" /\ NoReader
    /\ link' = IF conn = Nil THEN link ELSE [link EXCEPT ![conn] = "closed"]
    /\ conn' = Nil
    /\ loop' = "redialling"
    /\ attempt' = 0
    /\ UNCHANGED <<stopper, fallback, lost, reader, cancelled, errors, tick, out, stream, ctxDone>>

(* doReconnect: reconnect().  When it fails the loop selects again with no *)
(* connection and no reader.                                               *)
Redial ==
    /\ loop = "redialling"
    /\ \/ ctxDone /\ loop' = "selecting"
          /\ UNCHANGED <<attempt, fallback, conn, stopper, readerVars>>
       \/ /\ ~ctxDone
          /\ Dial
          /\ \/ \E r \in Readers : Install(r) /\ loop' = "selecting" /\ UNCHANGED attempt
             \/ /\ attempt' = attempt + 1
                /\ loop' = IF attempt' = MaxRetries THEN "selecting" ELSE "redialling"
                /\ UNCHANGED <<conn, stopper, readerVars>>
    /\ UNCHANGED <<lost, errors, tick, out, stream, ctxDone>>

(* Mutant: the deferred function does not wait for the reader. *)
ReturnAtOnce ==
    /\ loop = "draining"
    /\ link' = IF conn = Nil THEN link ELSE [link EXCEPT ![conn] = "closed"]
    /\ loop' = "returned"
    /\ UNCHANGED <<attempt, conn, stopper, fallback, lost, reader, cancelled, errors, tick,
                   out, stream, ctxDone>>

(* Start's deferred function: readMsgWg.Wait() returned. *)
Return ==
    /\ loop = "draining" /\ NoReader
    /\ link' = IF conn = Nil THEN link ELSE [link EXCEPT ![conn] = "closed"]
    /\ loop' = "returned"
    /\ UNCHANGED <<attempt, conn, stopper, fallback, lost, reader, cancelled, errors, tick,
                   out, stream, ctxDone>>

-------------------------------------------------------------------------------
(* A reader. *)

Done(r) == cancelled[r] \/ ctxDone

ReaderTo(r, phase) == reader' = [reader EXCEPT ![r] = phase]

(* ReadMessage returned a message. *)
ReadMessage(r) ==
    /\ reader[r] = "reading" /\ link[r] = "open"
    /\ ReaderTo(r, IF Done(r) THEN "idle" ELSE "sending")
    /\ UNCHANGED <<loopVars, link, cancelled, errors, tick, out, stream, ctxDone>>

(* Mutant: the reader ends on an error without reporting it. *)
ReadFailsSilently(r) ==
    /\ reader[r] = "reading" /\ (link[r] # "open" \/ Done(r))
    /\ ReaderTo(r, "idle")
    /\ UNCHANGED <<loopVars, link, cancelled, errors, tick, out, stream, ctxDone>>

(* Mutant: no read deadline is set when the context is done. *)
ReadFailsIfBroken(r) ==
    /\ reader[r] = "reading" /\ link[r] # "open"
    /\ ReaderTo(r, IF Done(r) THEN "idle" ELSE "reporting")
    /\ UNCHANGED <<loopVars, link, cancelled, errors, tick, out, stream, ctxDone>>

(* ReadMessage failed: the connection is not open any more, or the context *)
(* is done and the read deadline was set to now.                           *)
ReadFails(r) ==
    /\ reader[r] = "reading" /\ (link[r] # "open" \/ Done(r))
    /\ ReaderTo(r, IF Done(r) THEN "idle" ELSE "reporting")
    /\ UNCHANGED <<loopVars, link, cancelled, errors, tick, out, stream, ctxDone>>

(* outputChan <- msg, which no context interrupts. *)
SendOut(r) ==
    /\ reader[r] = "sending" /\ out < OutCap
    /\ out' = out + 1
    /\ ReaderTo(r, "reading")
    /\ UNCHANGED <<loopVars, link, cancelled, errors, tick, stream, ctxDone>>

(* readMsgError <- err, likewise; the reader ends. *)
Report(r) ==
    /\ reader[r] = "reporting" /\ errors = 0
    /\ errors' = 1
    /\ ReaderTo(r, "idle")
    /\ UNCHANGED <<loopVars, link, cancelled, tick, out, stream, ctxDone>>

-------------------------------------------------------------------------------
(* Binance, time, the gRPC handlers and main. *)

ConnectionBreaks(r) ==
    /\ link[r] = "open"
    /\ link' = [link EXCEPT ![r] = "broken"]
    /\ UNCHANGED <<loopVars, reader, cancelled, errors, tick, out, stream, ctxDone>>

(* Nothing in the program closes a lost connection; the finalizer of its   *)
(* socket does, if the garbage collector comes to it.                      *)
LostIsCollected ==
    /\ lost # Nil
    /\ link' = [link EXCEPT ![lost] = "closed"]
    /\ lost' = Nil
    /\ UNCHANGED <<loop, attempt, conn, stopper, fallback, reader, cancelled, errors, tick, out,
                   stream, ctxDone>>

(* 23 hours have passed.  They outlast any redial, and the loop does not   *)
(* leave an error waiting that long.                                       *)
Tick ==
    /\ loop = "selecting" /\ errors = 0 /\ ~tick
    /\ tick' = TRUE
    /\ UNCHANGED <<loopVars, readerVars, errors, out, stream, ctxDone>>

(* ReceiveRawAggTrade: GetOrCreateConnection starts the producer unless it *)
(* is in the map, where it stays even after its Start returned.            *)
OpenStream(g) ==
    /\ stream[g] = "none"
    /\ stream' = [stream EXCEPT ![g] = "waiting"]
    /\ loop' = IF loop = "absent" THEN "connecting" ELSE loop
    /\ UNCHANGED <<attempt, conn, stopper, fallback, lost, readerVars, errors, tick, out, ctxDone>>

(* A handler takes a message; no other stream of the symbol gets it. *)
TakeMessage(g) ==
    /\ stream[g] = "waiting" /\ out > 0
    /\ out' = out - 1
    /\ stream' = [stream EXCEPT ![g] = "sending"]
    /\ UNCHANGED <<loopVars, readerVars, errors, tick, ctxDone>>

(* stream.Send returned, with an error in the second case. *)
SendMessage(g) ==
    /\ stream[g] = "sending"
    /\ \E phase \in {"waiting", "ended"} : stream' = [stream EXCEPT ![g] = phase]
    /\ UNCHANGED <<loopVars, readerVars, errors, tick, out, ctxDone>>

(* The stream's context or main's is done. *)
EndStream(g) ==
    /\ stream[g] = "waiting"
    /\ stream' = [stream EXCEPT ![g] = "ended"]
    /\ UNCHANGED <<loopVars, readerVars, errors, tick, out, ctxDone>>

Interrupt ==
    /\ ~ctxDone
    /\ ctxDone' = TRUE
    /\ UNCHANGED <<loopVars, readerVars, errors, tick, out, stream>>

Loop == \/ FirstConnect \/ RetryConnect \/ TakeCtxDone \/ TakeTick \/ TakeError
        \/ CloseOld \/ Redial \/ Return

Reader(r) == ReadMessage(r) \/ ReadFails(r) \/ SendOut(r) \/ Report(r)

Handler(g) == OpenStream(g) \/ TakeMessage(g) \/ SendMessage(g) \/ EndStream(g)

Next == \/ Loop
        \/ \E r \in Readers : Reader(r) \/ ConnectionBreaks(r)
        \/ \E g \in Streams : Handler(g)
        \/ LostIsCollected \/ Tick \/ Interrupt

(* The loop runs on; a reader notices a broken connection or its cancelled *)
(* context, and sends and reports when there is room.  A select with more  *)
(* than one ready case picks fairly, so main's cancellation is taken.      *)
Fairness ==
    /\ WF_vars(Loop)
    /\ SF_vars(TakeCtxDone)
    /\ \A r \in Readers : WF_vars(ReadFails(r)) /\ WF_vars(SendOut(r)) /\ WF_vars(Report(r))

Spec == Init /\ [][Next]_vars /\ Fairness

-------------------------------------------------------------------------------
(* Properties. *)

(* A running reader reads sp.conn, which the loop has not closed; so two    *)
(* never run at once, and the messages of a symbol keep their order in      *)
(* outputChan, through every reconnect (conn.go:110, 139-146).              *)
ReaderHasConnection ==
    TypeOK /\ \A r \in Readers : Running(r) => conn = r /\ link[r] # "closed"

(* A producer that waits for errors and has none to take knows whether it   *)
(* is connected: exactly its own connection is read, and a failed reconnect *)
(* leaves it with neither until the ticker.  The one connection that is     *)
(* open and not read is that of a first connect() that needed a retry, to  *)
(* which it lost its reference (conn.go:52, 148).                          *)
ConnectedIsRead ==
    loop = "selecting" /\ ~ctxDone /\ errors = 0 =>
        \A r \in Readers : /\ Running(r) <=> r = conn
                           /\ link[r] # "closed" /\ ~Running(r) => r = lost

(* A producer that returned left no reader behind, and of all connections  *)
(* it opened at most the lost one is still open.                           *)
ReturnsClean ==
    loop = "returned" => NoReader /\ \A r \in Readers : link[r] # "closed" => r = lost

(* A reader that no context can wake: it sends to a full outputChan, or    *)
(* reports while readMsgError still holds the error of a reader before it. *)
Blocked(r) == \/ reader[r] = "sending" /\ out = OutCap
              \/ reader[r] = "reporting" /\ errors = 1

(* A broken connection is replaced or given up: the loop learns of it,     *)
(* unless the reader is blocked or the connection has none (lost).         *)
BrokenConnectionIsDropped ==
    \A r \in Readers : link[r] = "broken" ~> link[r] # "broken" \/ Blocked(r) \/ r = lost

(* After main's cancel() the producer returns, unless its reader is        *)
(* blocked: then readMsgWg.Wait() and with it wg.Wait() of main hang.      *)
ShutdownReturns ==
    ctxDone /\ loop # "absent" ~> loop = "returned" \/ \E r \in Readers : Blocked(r)
===============================================================================
