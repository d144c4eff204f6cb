---------------------------- MODULE StreamManager -----------------------------
(***************************************************************************)
(* The Aggregator's registry of per-symbol aggTrade streams: StreamManager *)
(* (stream_manager.go), the goroutine each stream runs in                  *)
(* (converting.ReceiveAggTradeMessage and the helpers it calls), and the   *)
(* part of main() that serves GET/DELETE /coin and shuts down.             *)
(*                                                                         *)
(* AddCoin and DeleteCoin hold sm.mu from the first line to the last, so   *)
(* each is one action.  The goroutine takes the lock only in its deferred  *)
(* cleanup: everything between the cancellation of a stream and that       *)
(* cleanup interleaves with the handlers.                                  *)
(***************************************************************************)
EXTENDS Naturals

CONSTANTS Symbols,    \* symbols as StreamManager keys them (lower case)
          Spellings,  \* symbols as requests spell them
          Lower,      \* strings.ToLower: [Spellings -> Symbols]
          Users,      \* the id parameter of /coin
          Workers,    \* identities for stream goroutines
          NoWorker,   \* sm.streams has no entry for the symbol
          NoSymbol,   \* a goroutine that is not running serves no symbol
          MaxRetries, \* converting.MaxRetries (10 in the code)
          ChanCap,    \* capacity of rawMsgsChan (300 in the code)
          MaxLate     \* bound: handlers that outlast server.Shutdown

ASSUME StreamManagerAssumption ==
    /\ Lower \in [Spellings -> Symbols]
    /\ NoWorker \notin Workers
    /\ NoSymbol \notin Symbols
    /\ MaxRetries \in Nat \ {0}
    /\ ChanCap \in Nat \ {0}
    /\ MaxLate \in Nat

VARIABLES followers,  \* sm.Followers; a missing key and an empty set act alike
          streams,    \* sm.streams: the goroutine whose cancel func is stored
          phase,      \* where each stream goroutine is
          symbolOf,   \* the symbol the goroutine was started for
          cancelled,  \* its own context was cancelled by DeleteCoin
          attempts,   \* failed attempts of the retry loop it is in
          queued,     \* messages in rawMsgsChan
          main,       \* where main() is
          shutdownErr,\* server.Shutdown returned an error: its 3 s were over
          inFlight    \* handlers it left running, as many as may yet act

mainVars == <<main, shutdownErr, inFlight>>
vars == <<followers, streams, phase, symbolOf, cancelled, attempts, queued, mainVars>>
registry == <<followers, streams>>

Phases == {"idle", "connecting", "opening", "receiving", "sending", "exiting"}
MainPhases == {"serving", "stopping", "waiting", "released", "exited", "panicked"}

TypeOK ==
    /\ followers \in [Symbols -> SUBSET Users]
    /\ streams \in [Symbols -> Workers \cup {NoWorker}]
    /\ phase \in [Workers -> Phases]
    /\ symbolOf \in [Workers -> Symbols \cup {NoSymbol}]
    /\ cancelled \in [Workers -> BOOLEAN]
    /\ attempts \in [Workers -> 0..MaxRetries]
    /\ queued \in 0..ChanCap
    /\ main \in MainPhases
    /\ shutdownErr \in BOOLEAN
    /\ inFlight \in 0..MaxLate

Init ==
    /\ followers = [s \in Symbols |-> {}]
    /\ streams = [s \in Symbols |-> NoWorker]
    /\ phase = [w \in Workers |-> "idle"]
    /\ symbolOf = [w \in Workers |-> NoSymbol]
    /\ cancelled = [w \in Workers |-> FALSE]
    /\ attempts = [w \in Workers |-> 0]
    /\ queued = 0
    /\ main = "serving"
    /\ shutdownErr = FALSE
    /\ inFlight = 0

Live(w) == phase[w] # "idle"

-------------------------------------------------------------------------------
(* The registry: handlers of GET and DELETE /coin. *)

(* A handler runs.  Until server.Shutdown returns, which is after cancel(), *)
(* requests keep coming; then there are only the handlers it gave up on,   *)
(* beside main in wg.Wait.                                                 *)
Handling ==
    /\ \/ main \in {"serving", "stopping"} /\ UNCHANGED inFlight
       \/ main \in {"waiting", "released"} /\ inFlight > 0 /\ inFlight' = inFlight - 1
    /\ UNCHANGED <<main, shutdownErr>>

(* sm.start: enter the cancel func, launch the goroutine. *)
Start(w, s) ==
    /\ phase[w] = "idle"
    /\ streams' = [streams EXCEPT ![s] = w]
    /\ phase' = [phase EXCEPT ![w] = "connecting"]
    /\ symbolOf' = [symbolOf EXCEPT ![w] = s]
    /\ cancelled' = [cancelled EXCEPT ![w] = FALSE]
    /\ attempts' = [attempts EXCEPT ![w] = 0]

(* Mutant: whether to start is read off the followers, not off sm.streams. *)
AddCoinByFollowers(raw, u) ==
    LET s == Lower[raw] IN
    /\ Handling
    /\ u \notin followers[s]
    /\ followers' = [followers EXCEPT ![s] = @ \cup {u}]
    /\ IF followers[s] = {}
         THEN \E w \in Workers : Start(w, s)
         ELSE UNCHANGED <<streams, phase, symbolOf, cancelled, attempts>>
    /\ UNCHANGED queued

(* A user already in Followers returns at once and changes nothing. *)
AddCoin(raw, u) ==
    LET s == Lower[raw] IN
    /\ Handling
    /\ u \notin followers[s]
    /\ followers' = [followers EXCEPT ![s] = @ \cup {u}]
    /\ IF streams[s] = NoWorker
         THEN \E w \in Workers : Start(w, s)
         ELSE UNCHANGED <<streams, phase, symbolOf, cancelled, attempts>>
    /\ UNCHANGED queued

(* cancel() of the entry of s, if there is one, under condition cond. *)
CancelIf(cond, s) ==
    cancelled' = IF cond /\ streams[s] # NoWorker
                   THEN [cancelled EXCEPT ![streams[s]] = TRUE]
                   ELSE cancelled

(* Mutant: emptiness is tested before the user is removed. *)
DeleteCoinTestsTooEarly(raw, u) ==
    LET s == Lower[raw] IN
    /\ Handling
    /\ followers' = [followers EXCEPT ![s] = @ \ {u}]
    /\ CancelIf(followers[s] = {}, s)
    /\ UNCHANGED <<streams, phase, symbolOf, attempts, queued>>

(* Mutant: any user who leaves cancels the stream. *)
DeleteCoinAlwaysCancels(raw, u) ==
    LET s == Lower[raw] IN
    /\ Handling
    /\ followers' = [followers EXCEPT ![s] = @ \ {u}]
    /\ CancelIf(u \in followers[s], s)
    /\ UNCHANGED <<streams, phase, symbolOf, attempts, queued>>

(* The entry stays in sm.streams: only the goroutine's cleanup removes it. *)
DeleteCoin(raw, u) ==
    LET s == Lower[raw] IN
    /\ Handling
    /\ followers' = [followers EXCEPT ![s] = @ \ {u}]
    /\ CancelIf(followers'[s] = {}, s)
    /\ UNCHANGED <<streams, phase, symbolOf, attempts, queued>>

-------------------------------------------------------------------------------
(* The stream goroutine. *)

(* Mutant: stream contexts derive from context.Background(), not from ctx. *)
StoppedByCancelOnly(w) == cancelled[w]

(* ctx.Err() # nil: DeleteCoin's cancel(), or main's. *)
Stopped(w) == cancelled[w] \/ main # "serving"

Goto(w, p) == phase' = [phase EXCEPT ![w] = p]

(* The next iteration of a loop whose first select polls ctx.Done(). *)
LoopTo(w, p) == Goto(w, IF Stopped(w) THEN "exiting" ELSE p)

(* createClientConn got its grpc.ClientConn. *)
Connected(w) ==
    /\ phase[w] = "connecting"
    /\ LoopTo(w, "opening")
    /\ attempts' = [attempts EXCEPT ![w] = 0]
    /\ UNCHANGED <<registry, symbolOf, cancelled, queued, mainVars>>

(* createAggTradeStream opened the stream. *)
Opened(w) ==
    /\ phase[w] = "opening"
    /\ LoopTo(w, "receiving")
    /\ attempts' = [attempts EXCEPT ![w] = 0]
    /\ UNCHANGED <<registry, symbolOf, cancelled, queued, mainVars>>

(* An attempt of either retry loop failed; after MaxRetries the goroutine  *)
(* gives up.                                                               *)
AttemptFails(w) ==
    /\ phase[w] \in {"connecting", "opening"}
    /\ attempts' = [attempts EXCEPT ![w] = @ + 1]
    /\ IF attempts'[w] = MaxRetries THEN Goto(w, "exiting") ELSE LoopTo(w, phase[w])
    /\ UNCHANGED <<registry, symbolOf, cancelled, queued, mainVars>>

(* stream.Recv() returned a message, or EOF or an error, after which the   *)
(* goroutine returns: nothing reopens the stream.                          *)
Recv(w) ==
    /\ phase[w] = "receiving"
    /\ Goto(w, "sending") \/ Goto(w, "exiting")
    /\ UNCHANGED <<registry, symbolOf, cancelled, attempts, queued, mainVars>>

(* outChan <- resp.Data, in a select with ctx.Done(). *)
Send(w) ==
    /\ phase[w] = "sending"
    /\ queued < ChanCap
    /\ queued' = queued + 1
    /\ LoopTo(w, "receiving")
    /\ UNCHANGED <<registry, symbolOf, cancelled, attempts, mainVars>>

(* Mutant: the send to outChan is not in a select with ctx.Done(). *)
StopOnContextButNotSending(w) ==
    /\ phase[w] \in {"connecting", "opening", "receiving"}
    /\ Stopped(w)
    /\ Goto(w, "exiting")
    /\ UNCHANGED <<registry, symbolOf, cancelled, attempts, queued, mainVars>>

(* ctx.Done() wakes the goroutine wherever it waits: in a retry delay, in  *)
(* Recv() (the stream carries ctx) or in the send.                         *)
StopOnContext(w) ==
    /\ phase[w] \in {"connecting", "opening", "receiving", "sending"}
    /\ Stopped(w)
    /\ Goto(w, "exiting")
    /\ UNCHANGED <<registry, symbolOf, cancelled, attempts, queued, mainVars>>

(* What the goroutine captured is gone with it. *)
Gone(w) ==
    /\ Goto(w, "idle")
    /\ symbolOf' = [symbolOf EXCEPT ![w] = NoSymbol]
    /\ cancelled' = [cancelled EXCEPT ![w] = FALSE]
    /\ attempts' = [attempts EXCEPT ![w] = 0]

(* Mutant: the deferred cleanup forgets to delete the entry. *)
CleanupKeepsEntry(w) ==
    /\ phase[w] = "exiting"
    /\ Gone(w)
    /\ UNCHANGED <<registry, queued, mainVars>>

(* The deferred cleanup: delete(sm.streams, symbol), by symbol and not by  *)
(* identity, then wg.Done().                                               *)
Cleanup(w) ==
    /\ phase[w] = "exiting"
    /\ streams' = [streams EXCEPT ![symbolOf[w]] = NoWorker]
    /\ Gone(w)
    /\ UNCHANGED <<followers, queued, mainVars>>

-------------------------------------------------------------------------------
(* DistributeMessages takes a message off rawMsgsChan. *)
TakeRaw == /\ queued > 0 /\ main \notin {"exited", "panicked"}
           /\ queued' = queued - 1
           /\ UNCHANGED <<registry, phase, symbolOf, cancelled, attempts, mainVars>>

MainTo(from, to) ==
    /\ main = from
    /\ main' = to
    /\ UNCHANGED <<registry, phase, symbolOf, cancelled, attempts, queued>>

Interrupt == MainTo("serving", "stopping") /\ UNCHANGED <<shutdownErr, inFlight>>  \* <-c, cancel()

(* Mutant: server.Close, which waits for no handler. *)
ServerCloses ==
    /\ MainTo("stopping", "waiting")
    /\ inFlight' \in 0..MaxLate
    /\ UNCHANGED shutdownErr

(* server.Shutdown returns when the last handler has. *)
ServerShutdown == MainTo("stopping", "waiting") /\ UNCHANGED <<shutdownErr, inFlight>>

(* Its 3 seconds are over with handlers still at work; main logs the error *)
(* and goes on, and so do they.                                            *)
ServerShutdownTimesOut ==
    /\ MainTo("stopping", "waiting")
    /\ shutdownErr' = TRUE
    /\ inFlight' \in 1..MaxLate

(* The group's counter is 0, which releases main from wg.Wait: no stream   *)
(* runs, and the goroutines of the pipelines are done, which are elsewhere. *)
WaitReleased ==
    /\ \A w \in Workers : ~Live(w)
    /\ MainTo("waiting", "released")
    /\ UNCHANGED <<shutdownErr, inFlight>>

(* Every goroutine ends with the process. *)
ProcessEnds(how) ==
    /\ main = "released"
    /\ main' = how
    /\ streams' = [s \in Symbols |-> NoWorker]
    /\ phase' = [w \in Workers |-> "idle"]
    /\ symbolOf' = [w \in Workers |-> NoSymbol]
    /\ cancelled' = [w \in Workers |-> FALSE]
    /\ attempts' = [w \in Workers |-> 0]
    /\ UNCHANGED <<followers, queued, shutdownErr, inFlight>>

(* wg.Wait has returned, and main returns. *)
Exit == ProcessEnds("exited")

(* A released wg.Wait that finds the counter above 0 again panics: the     *)
(* group was reused before it returned.                                    *)
WaitPanics == (\E w \in Workers : Live(w)) /\ ProcessEnds("panicked")

(* The process is gone; its state no longer changes. *)
Exited == main \in {"exited", "panicked"} /\ UNCHANGED vars

Handler == \E raw \in Spellings, u \in Users : AddCoin(raw, u) \/ DeleteCoin(raw, u)

Worker(w) == \/ Connected(w) \/ Opened(w) \/ AttemptFails(w) \/ Recv(w)
             \/ Send(w) \/ StopOnContext(w) \/ Cleanup(w)

Next == \/ Handler
        \/ \E w \in Workers : Worker(w)
        \/ TakeRaw \/ Interrupt \/ ServerShutdown \/ ServerShutdownTimesOut
        \/ WaitReleased \/ Exit \/ WaitPanics \/ Exited

(* A goroutine whose context is done is woken and its deferred calls run;  *)
(* main goes on once it was interrupted.  Nothing else is promised: no     *)
(* request, message or interrupt need ever come.                           *)
Fairness ==
    /\ \A w \in Workers : WF_vars(StopOnContext(w)) /\ WF_vars(Cleanup(w))
    /\ WF_vars(ServerShutdown \/ ServerShutdownTimesOut)
    /\ WF_vars(WaitReleased) /\ WF_vars(Exit \/ WaitPanics)

Spec == Init /\ [][Next]_vars /\ Fairness

-------------------------------------------------------------------------------
(* Properties. *)

(* sm.streams and the running goroutines name each other: the entry of a   *)
(* symbol is the goroutine that serves it, and every running goroutine has *)
(* its entry.  This is what makes it safe for the deferred cleanup to      *)
(* delete by symbol: it can never remove the entry of a successor.         *)
EntriesMatchWorkers ==
    /\ \A s \in Symbols : streams[s] # NoWorker => Live(streams[s]) /\ symbolOf[streams[s]] = s
    /\ \A w \in Workers : Live(w) => symbolOf[w] \in Symbols /\ streams[symbolOf[w]] = w

(* Two goroutines never serve one symbol, whatever the order of follows,   *)
(* unfollows, failures and cleanups: no trade is counted twice.            *)
OneStreamPerSymbol ==
    \A v, w \in Workers : Live(v) /\ Live(w) /\ symbolOf[v] = symbolOf[w] => v = w

(* A stream nobody follows has been told to stop, even when the follower   *)
(* left while the stream was still connecting.                             *)
UnfollowedIsCancelled ==
    \A s \in Symbols : streams[s] # NoWorker /\ followers[s] = {} => cancelled[streams[s]]

(* A step that cancels a stream leaves its symbol without followers.       *)
CancelsOnlyUnfollowed ==
    [][\A w \in Workers : Live(w) /\ ~cancelled[w] /\ cancelled'[w]
           => followers'[symbolOf[w]] = {}]_vars

(* A cancelled stream goroutine ends, even if it is retrying, or blocked   *)
(* on a full rawMsgsChan, and even if the symbol is followed again.        *)
CancelledWorkerEnds ==
    \A w \in Workers : Live(w) /\ cancelled[w] ~> ~Live(w)

(* After an interrupt no stream goroutine keeps the process from ending,    *)
(* whatever it was doing: retrying, receiving, blocked on rawMsgsChan, or  *)
(* just started by a handler that outlasted server.Shutdown.               *)
ShutdownCompletes == main = "stopping" ~> main \in {"exited", "panicked"}

(* wg.Wait does what main counts on, though handlers add to its group at   *)
(* any time (main.go:127-137, stream_manager.go:72): unless server.Shutdown *)
(* gave up on a handler, the process ends because Wait returned, not by a  *)
(* panic of Wait, and with no stream goroutine cut off.                    *)
WaitCoversStreams ==
    [][main' # main /\ main' \in {"exited", "panicked"} /\ ~shutdownErr
           => main' = "exited" /\ \A w \in Workers : ~Live(w)]_vars

Feed == INSTANCE SymbolFeed WITH
            interest <- followers,
            feed <- [s \in Symbols |->
                        IF streams[s] = NoWorker THEN "off"
                        ELSE IF cancelled[streams[s]] THEN "closing" ELSE "on"]

(* The registry implements the abstract feed: a stream opens only when the *)
(* symbol has none, closes only with the last follower, and does end then. *)
RefinesFeed == Feed!FeedSpec
===============================================================================
