------------------------- MODULE StreamManagerProofs --------------------------
(***************************************************************************)
(* What holds of StreamManager for every set of symbols, users and         *)
(* goroutines.  EntriesMatchWorkers is inductive once types are known, and *)
(* the other safety properties follow from it: the entry of a symbol and   *)
(* the goroutine that serves it always name each other, so a cancel()      *)
(* reaches the right goroutine and a cleanup removes its own entry.        *)
(***************************************************************************)
EXTENDS StreamManager, TLAPS

(* A goroutine in a retry loop has attempts left. *)
RetriesLeft == \A w \in Workers : phase[w] \in {"connecting", "opening"} => attempts[w] < MaxRetries

IInv == TypeOK /\ RetriesLeft /\ EntriesMatchWorkers /\ UnfollowedIsCancelled

(* The steps of main before the process ends: they leave the streams alone. *)
MainStep == Interrupt \/ ServerShutdown \/ ServerShutdownTimesOut \/ WaitReleased

LEMMA MainStepAside ==
    ASSUME MainStep
    PROVE  UNCHANGED <<followers, streams, phase, symbolOf, cancelled, attempts, queued>>
BY DEF MainStep, Interrupt, ServerShutdown, ServerShutdownTimesOut, WaitReleased, MainTo, registry

(* The registry starts empty. *)
LEMMA InitIInv == Init => IInv
<1> SUFFICES ASSUME Init PROVE IInv
  OBVIOUS
<1> USE StreamManagerAssumption DEF Init
<1>1. TypeOK
  <2>1. main \in MainPhases /\ shutdownErr \in BOOLEAN
    BY DEF MainPhases
  <2> QED
    BY <2>1 DEF TypeOK, Phases
<1>2. RetriesLeft /\ EntriesMatchWorkers /\ UnfollowedIsCancelled
  BY DEF RetriesLeft, EntriesMatchWorkers, UnfollowedIsCancelled, Live
<1> QED
  BY <1>1, <1>2 DEF IInv

(* sm.start gives every variable it sets a value of its type, and the new  *)
(* goroutine has all its attempts.                                         *)
LEMMA StartTypes ==
    ASSUME TypeOK, NEW s \in Symbols, NEW w \in Workers, Start(w, s)
    PROVE  /\ streams' \in [Symbols -> Workers \cup {NoWorker}]
           /\ phase' \in [Workers -> Phases]
           /\ symbolOf' \in [Workers -> Symbols \cup {NoSymbol}]
           /\ cancelled' \in [Workers -> BOOLEAN]
           /\ attempts' \in [Workers -> 0..MaxRetries]
BY StreamManagerAssumption DEF TypeOK, Start, Phases

(* A handler uses up one of those that outlasted server.Shutdown, or none. *)
LEMMA HandlingTypes ==
    ASSUME TypeOK, Handling
    PROVE  /\ UNCHANGED <<main, shutdownErr>> /\ inFlight' \in 0..MaxLate
           /\ inFlight' <= inFlight
<1>1. inFlight \in 0..MaxLate
  BY DEF TypeOK
<1>2. CASE inFlight' = inFlight
  BY <1>1, <1>2, StreamManagerAssumption DEF Handling
<1>3. CASE inFlight > 0 /\ inFlight' = inFlight - 1
  BY <1>1, <1>3, StreamManagerAssumption DEF Handling
<1> QED
  BY <1>2, <1>3 DEF Handling

(* Types, and the attempts left, are preserved by every step. *)
LEMMA NextTypeOK == TypeOK /\ RetriesLeft /\ [Next]_vars => (TypeOK /\ RetriesLeft)'
<1> SUFFICES ASSUME TypeOK, RetriesLeft, [Next]_vars PROVE (TypeOK /\ RetriesLeft)'
  OBVIOUS
<1> USE StreamManagerAssumption DEF registry, mainVars
<1>1. ASSUME NEW raw \in Spellings, NEW u \in Users, AddCoin(raw, u)
      PROVE  (TypeOK /\ RetriesLeft)'
  <2>1. Lower[raw] \in Symbols
    OBVIOUS
  <2>2. /\ followers' \in [Symbols -> SUBSET Users]
        /\ UNCHANGED <<queued, main, shutdownErr>> /\ inFlight' \in 0..MaxLate
    BY <1>1, <2>1, HandlingTypes DEF AddCoin, TypeOK
  <2>3. CASE streams[Lower[raw]] = NoWorker
    <3>1. PICK w \in Workers : Start(w, Lower[raw])
      BY <1>1, <2>3 DEF AddCoin
    <3>2. TypeOK'
      BY <2>1, <2>2, <3>1, StartTypes DEF TypeOK
    <3>3. RetriesLeft'
      BY <3>1 DEF Start, RetriesLeft, TypeOK
    <3> QED
      BY <3>2, <3>3
  <2>4. CASE streams[Lower[raw]] # NoWorker
    BY <1>1, <2>2, <2>4 DEF AddCoin, TypeOK, RetriesLeft
  <2> QED
    BY <2>3, <2>4
<1>2. ASSUME NEW raw \in Spellings, NEW u \in Users, DeleteCoin(raw, u)
      PROVE  (TypeOK /\ RetriesLeft)'
  <2>1. Lower[raw] \in Symbols
    OBVIOUS
  <2>2. followers' \in [Symbols -> SUBSET Users]
    BY <1>2, <2>1 DEF DeleteCoin, TypeOK
  <2>3. cancelled' \in [Workers -> BOOLEAN]
    BY <1>2, <2>1 DEF DeleteCoin, CancelIf, TypeOK
  <2>4. UNCHANGED <<main, shutdownErr>> /\ inFlight' \in 0..MaxLate
    BY <1>2, HandlingTypes DEF DeleteCoin
  <2> QED
    BY <1>2, <2>2, <2>3, <2>4 DEF DeleteCoin, TypeOK, RetriesLeft
<1>3. ASSUME NEW w \in Workers, Worker(w) PROVE (TypeOK /\ RetriesLeft)'
  <2> USE DEF TypeOK, RetriesLeft, Phases
  <2>1. CASE Connected(w)
    BY <2>1 DEF Connected, LoopTo, Goto
  <2>2. CASE Opened(w)
    BY <2>2 DEF Opened, LoopTo, Goto
  <2>3. CASE AttemptFails(w)
    <3>1. attempts[w] \in Nat /\ attempts[w] < MaxRetries
      BY <2>3 DEF AttemptFails
    <3>2. attempts' \in [Workers -> 0..MaxRetries]
      BY <2>3, <3>1 DEF AttemptFails
    <3>3. phase' \in [Workers -> Phases]
      BY <2>3 DEF AttemptFails, LoopTo, Goto
    <3>4. RetriesLeft'
      BY <2>3, <3>1 DEF AttemptFails, LoopTo, Goto
    <3> QED
      BY <2>3, <3>2, <3>3, <3>4 DEF AttemptFails
  <2>4. CASE Recv(w)
    BY <2>4 DEF Recv, Goto
  <2>5. CASE Send(w)
    BY <2>5 DEF Send, LoopTo, Goto
  <2>6. CASE StopOnContext(w)
    BY <2>6 DEF StopOnContext, Goto
  <2>7. CASE Cleanup(w)
    <3>1. /\ phase' \in [Workers -> Phases]
          /\ symbolOf' \in [Workers -> Symbols \cup {NoSymbol}]
          /\ cancelled' \in [Workers -> BOOLEAN]
          /\ attempts' \in [Workers -> 0..MaxRetries]
      BY <2>7 DEF Cleanup, Gone, Goto
    <3>2. streams' \in [Symbols -> Workers \cup {NoWorker}]
      BY <2>7 DEF Cleanup
    <3>3. RetriesLeft'
      BY <2>7 DEF Cleanup, Gone, Goto
    <3> QED
      BY <2>7, <3>1, <3>2, <3>3 DEF Cleanup
  <2> HIDE DEF TypeOK, RetriesLeft, Phases
  <2> QED
    BY <1>3, <2>1, <2>2, <2>3, <2>4, <2>5, <2>6, <2>7 DEF Worker
<1>4. CASE TakeRaw
  BY <1>4 DEF TakeRaw, TypeOK, RetriesLeft
<1>5. CASE MainStep
  <2> USE DEF MainStep, Interrupt, ServerShutdown, ServerShutdownTimesOut, WaitReleased, MainTo
  <2>1. main' \in MainPhases
    BY <1>5 DEF MainPhases
  <2>2. shutdownErr' = shutdownErr \/ shutdownErr' = TRUE
    BY <1>5
  <2>3. inFlight' = inFlight \/ inFlight' \in 1..MaxLate
    BY <1>5
  <2>4. UNCHANGED <<followers, streams, phase, symbolOf, cancelled, attempts, queued>>
    BY <1>5, MainStepAside
  <2> HIDE DEF MainStep, Interrupt, ServerShutdown, ServerShutdownTimesOut, WaitReleased, MainTo
  <2>5. shutdownErr' \in BOOLEAN
    BY <2>2, Zenon DEF TypeOK
  <2>6. inFlight' \in 0..MaxLate
    BY <2>3 DEF TypeOK
  <2> QED
    BY <2>1, <2>4, <2>5, <2>6 DEF TypeOK, RetriesLeft
<1>6. CASE Exit \/ WaitPanics
  <2>1. main' \in MainPhases
    BY <1>6 DEF Exit, WaitPanics, ProcessEnds, MainPhases
  <2>2. /\ streams' \in [Symbols -> Workers \cup {NoWorker}]
        /\ phase' \in [Workers -> Phases]
        /\ symbolOf' \in [Workers -> Symbols \cup {NoSymbol}]
        /\ cancelled' \in [Workers -> BOOLEAN]
        /\ attempts' \in [Workers -> 0..MaxRetries]
    <3>1. 0 \in 0..MaxRetries /\ "idle" \in Phases
      BY DEF Phases
    <3> QED
      BY <1>6, <3>1 DEF Exit, WaitPanics, ProcessEnds
  <2>3. RetriesLeft' /\ UNCHANGED <<followers, queued, shutdownErr, inFlight>>
    BY <1>6 DEF Exit, WaitPanics, ProcessEnds, RetriesLeft
  <2> QED
    BY <2>1, <2>2, <2>3 DEF TypeOK
<1>7. CASE Exited \/ UNCHANGED vars
  BY <1>7 DEF Exited, vars, TypeOK, RetriesLeft
<1> QED
  BY <1>1, <1>2, <1>3, <1>4, <1>5, <1>6, <1>7 DEF Next, Handler, MainStep

(* sm.start, when the symbol has no entry: no goroutine serves it either,  *)
(* so the new one is alone.                                                *)
LEMMA StartMatches ==
    ASSUME TypeOK, EntriesMatchWorkers, UnfollowedIsCancelled,
           NEW s \in Symbols, NEW w \in Workers, Start(w, s), streams[s] = NoWorker,
           followers' \in [Symbols -> SUBSET Users],
           followers'[s] # {}, \A r \in Symbols \ {s} : followers'[r] = followers[r]
    PROVE  EntriesMatchWorkers' /\ UnfollowedIsCancelled'
<1> USE StreamManagerAssumption DEF TypeOK, Start
<1>1. \A r \in Symbols : streams'[r] = IF r = s THEN w ELSE streams[r]
  OBVIOUS
<1>2. /\ \A v \in Workers : phase'[v] = IF v = w THEN "connecting" ELSE phase[v]
      /\ \A v \in Workers : symbolOf'[v] = IF v = w THEN s ELSE symbolOf[v]
      /\ \A v \in Workers : cancelled'[v] = IF v = w THEN FALSE ELSE cancelled[v]
  OBVIOUS
<1>3. \A r \in Symbols : streams[r] # w
  BY DEF EntriesMatchWorkers, Live
<1>4. EntriesMatchWorkers'
  BY <1>1, <1>2, <1>3 DEF EntriesMatchWorkers, Live
<1>5. UnfollowedIsCancelled'
  BY <1>1, <1>2, <1>3 DEF UnfollowedIsCancelled
<1> QED
  BY <1>4, <1>5

(* The registry's own invariants are preserved by every step. *)
LEMMA NextMatches ==
    ASSUME TypeOK, TypeOK', EntriesMatchWorkers, UnfollowedIsCancelled, [Next]_vars
    PROVE  EntriesMatchWorkers' /\ UnfollowedIsCancelled'
<1> USE StreamManagerAssumption DEF registry, mainVars
<1>1. ASSUME NEW raw \in Spellings, NEW u \in Users, AddCoin(raw, u)
      PROVE  EntriesMatchWorkers' /\ UnfollowedIsCancelled'
  <2> DEFINE s == Lower[raw]
  <2>1. s \in Symbols
    OBVIOUS
  <2>2. /\ followers'[s] = followers[s] \cup {u}
        /\ \A r \in Symbols \ {s} : followers'[r] = followers[r]
    BY <1>1, <2>1 DEF AddCoin, TypeOK
  <2>3. CASE streams[s] = NoWorker
    <3>1. PICK w \in Workers : Start(w, s)
      BY <1>1, <2>3 DEF AddCoin
    <3>2. followers' \in [Symbols -> SUBSET Users] /\ followers'[s] # {}
      BY <2>2 DEF TypeOK
    <3> HIDE DEF s
    <3> QED
      BY <2>1, <2>2, <2>3, <3>1, <3>2, StartMatches
  <2>4. CASE streams[s] # NoWorker
    <3>1. UNCHANGED <<streams, phase, symbolOf, cancelled>>
      BY <1>1, <2>4 DEF AddCoin
    <3> QED
      BY <2>2, <3>1 DEF EntriesMatchWorkers, UnfollowedIsCancelled, Live
  <2> QED
    BY <2>3, <2>4
<1>2. ASSUME NEW raw \in Spellings, NEW u \in Users, DeleteCoin(raw, u)
      PROVE  EntriesMatchWorkers' /\ UnfollowedIsCancelled'
  <2> DEFINE s == Lower[raw]
  <2>1. s \in Symbols
    OBVIOUS
  <2>2. UNCHANGED <<streams, phase, symbolOf>>
    BY <1>2 DEF DeleteCoin
  <2>3. EntriesMatchWorkers'
    BY <2>2 DEF EntriesMatchWorkers, Live
  <2>4. /\ \A r \in Symbols \ {s} : followers'[r] = followers[r]
        /\ \A w \in Workers : cancelled[w] => cancelled'[w]
        /\ followers'[s] = {} /\ streams[s] # NoWorker => cancelled'[streams[s]]
    BY <1>2, <2>1 DEF DeleteCoin, CancelIf, TypeOK
  <2>5. UnfollowedIsCancelled'
    BY <2>1, <2>2, <2>4 DEF UnfollowedIsCancelled, TypeOK
  <2> QED
    BY <2>3, <2>5
<1>3. ASSUME NEW w \in Workers, Worker(w) PROVE EntriesMatchWorkers' /\ UnfollowedIsCancelled'
  <2>1. CASE Cleanup(w)
    <3>1. /\ Live(w)
          /\ \A r \in Symbols : streams'[r] = IF r = symbolOf[w] THEN NoWorker ELSE streams[r]
          /\ \A v \in Workers \ {w} : /\ phase'[v] = phase[v]
                                       /\ symbolOf'[v] = symbolOf[v]
                                       /\ cancelled'[v] = cancelled[v]
          /\ phase'[w] = "idle"
          /\ UNCHANGED followers
      BY <2>1 DEF Cleanup, Gone, Goto, TypeOK, Live
    <3>2. symbolOf[w] \in Symbols /\ streams[symbolOf[w]] = w
      BY <3>1 DEF EntriesMatchWorkers
    <3>3. \A r \in Symbols : r # symbolOf[w] => streams[r] # w
      BY DEF EntriesMatchWorkers
    <3>4. EntriesMatchWorkers'
      BY <3>1, <3>2, <3>3 DEF EntriesMatchWorkers, Live, TypeOK
    <3>5. UnfollowedIsCancelled'
      BY <3>1, <3>2, <3>3 DEF UnfollowedIsCancelled, TypeOK
    <3> QED
      BY <3>4, <3>5
  <2>2. CASE ~Cleanup(w)
    <3>1. UNCHANGED <<followers, streams, symbolOf, cancelled>>
      BY <1>3, <2>2 DEF Worker, Connected, Opened, AttemptFails, Recv, Send, StopOnContext
    <3>2. phase[w] # "idle" /\ \E p \in Phases \ {"idle"} : Goto(w, p)
      BY <1>3, <2>2 DEF Worker, Connected, Opened, AttemptFails, Recv, Send, StopOnContext,
                        LoopTo, Phases
    <3>3. \A v \in Workers : phase'[v] = "idle" <=> phase[v] = "idle"
      BY <3>2 DEF Goto, TypeOK
    <3> QED
      BY <3>1, <3>3 DEF EntriesMatchWorkers, UnfollowedIsCancelled, Live, TypeOK
  <2> QED
    BY <2>1, <2>2
<1>4. CASE UNCHANGED <<registry, phase, symbolOf, cancelled>>
  BY <1>4 DEF EntriesMatchWorkers, UnfollowedIsCancelled, Live
<1>5. TakeRaw \/ MainStep \/ Exited \/ UNCHANGED vars
      => UNCHANGED <<registry, phase, symbolOf, cancelled>>
  BY MainStepAside DEF TakeRaw, Exited, vars
<1>6. CASE Exit \/ WaitPanics
  <2>1. /\ \A s \in Symbols : streams'[s] = NoWorker
        /\ \A w \in Workers : phase'[w] = "idle"
    BY <1>6 DEF Exit, WaitPanics, ProcessEnds
  <2> QED
    BY <2>1 DEF EntriesMatchWorkers, UnfollowedIsCancelled, Live
<1> QED
  BY <1>1, <1>2, <1>3, <1>4, <1>5, <1>6 DEF Next, Handler, MainStep

(* The inductive invariant of the registry. *)
THEOREM Invariance == Spec => []IInv
<1>1. Init => IInv
  BY InitIInv
<1>2. IInv /\ [Next]_vars => IInv'
  BY NextTypeOK, NextMatches DEF IInv
<1> QED
  BY <1>1, <1>2, PTL DEF Spec

(* Every variable always has its type. *)
THEOREM TypeCorrect == Spec => []TypeOK
<1>1. IInv => TypeOK
  BY DEF IInv
<1> QED
  BY <1>1, Invariance, PTL

(* sm.streams and the running goroutines name each other. *)
THEOREM EntriesAlwaysMatch == Spec => []EntriesMatchWorkers
<1>1. IInv => EntriesMatchWorkers
  BY DEF IInv
<1> QED
  BY <1>1, Invariance, PTL

(* No symbol is ever served by two goroutines. *)
THEOREM AtMostOneStream == Spec => []OneStreamPerSymbol
<1>1. IInv => OneStreamPerSymbol
  BY DEF IInv, EntriesMatchWorkers, OneStreamPerSymbol
<1> QED
  BY <1>1, Invariance, PTL

(* A stream nobody follows has been told to stop. *)
THEOREM NoForgottenStream == Spec => []UnfollowedIsCancelled
<1>1. IInv => UnfollowedIsCancelled
  BY DEF IInv
<1> QED
  BY <1>1, Invariance, PTL

(* A step that cancels a stream is the DELETE that takes its symbol's last *)
(* follower away.                                                          *)
THEOREM CancelIsOfUnfollowed == Spec => CancelsOnlyUnfollowed
<1> DEFINE A == \A w \in Workers : Live(w) /\ ~cancelled[w] /\ cancelled'[w]
                   => followers'[symbolOf[w]] = {}
<1>1. IInv /\ [Next]_vars => A
  <2> SUFFICES ASSUME IInv, [Next]_vars, NEW v \in Workers,
                      Live(v), ~cancelled[v], cancelled'[v]
               PROVE  followers'[symbolOf[v]] = {}
    OBVIOUS
  <2>1. TypeOK /\ EntriesMatchWorkers
    BY DEF IInv
  <2>2. ASSUME NEW raw \in Spellings, NEW u \in Users, DeleteCoin(raw, u)
        PROVE  followers'[symbolOf[v]] = {}
    <3>1. /\ followers'[Lower[raw]] = {}
          /\ streams[Lower[raw]] # NoWorker
          /\ cancelled' = [cancelled EXCEPT ![streams[Lower[raw]]] = TRUE]
      BY <2>1, <2>2 DEF DeleteCoin, CancelIf, TypeOK
    <3>2. Lower[raw] \in Symbols
      BY StreamManagerAssumption
    <3>3. streams[Lower[raw]] = v
      BY <2>1, <3>1, <3>2 DEF TypeOK
    <3> QED
      BY <2>1, <3>1, <3>2, <3>3, StreamManagerAssumption DEF EntriesMatchWorkers
  <2>3. ASSUME NEW raw \in Spellings, NEW u \in Users, AddCoin(raw, u) PROVE FALSE
    BY <2>1, <2>3 DEF AddCoin, Start, TypeOK
  <2>4. ASSUME NEW w \in Workers, Worker(w) PROVE FALSE
    BY <2>1, <2>4 DEF Worker, Connected, Opened, AttemptFails, Recv, Send, StopOnContext,
                      Cleanup, Gone, TypeOK
  <2>5. TakeRaw \/ MainStep \/ Exited \/ UNCHANGED vars => UNCHANGED cancelled
    BY MainStepAside DEF TakeRaw, Exited, vars
  <2>6. ~Exit /\ ~WaitPanics
    BY DEF Exit, WaitPanics, ProcessEnds
  <2> QED
    BY <2>2, <2>3, <2>4, <2>5, <2>6 DEF Next, Handler, MainStep
<1> QED
  BY <1>1, Invariance, PTL DEF Spec, CancelsOnlyUnfollowed

-------------------------------------------------------------------------------
(* Handlers beside main's wg.Wait there are only after server.Shutdown     *)
(* returned an error, and without one no stream runs once Wait let go: none *)
(* can start.                                                              *)
WaitInv ==
    /\ inFlight > 0 => shutdownErr
    /\ main \in {"released", "exited", "panicked"} /\ ~shutdownErr => \A w \in Workers : ~Live(w)

LEMMA NextWaitInv == TypeOK /\ WaitInv /\ [Next]_vars => WaitInv'
<1> SUFFICES ASSUME TypeOK, WaitInv, [Next]_vars PROVE WaitInv'
  OBVIOUS
<1> USE StreamManagerAssumption DEF registry, mainVars
<1>1. ASSUME NEW raw \in Spellings, NEW u \in Users, AddCoin(raw, u) \/ DeleteCoin(raw, u)
      PROVE  WaitInv'
  <2>1. Handling
    BY <1>1 DEF AddCoin, DeleteCoin
  <2>2. /\ main \in {"serving", "stopping"} \/ (main \in {"waiting", "released"} /\ inFlight > 0)
        /\ UNCHANGED <<main, shutdownErr>>
    BY <2>1 DEF Handling
  <2>3. inFlight' <= inFlight /\ inFlight \in Nat /\ inFlight' \in Nat
    BY <2>1, HandlingTypes DEF TypeOK
  <2>4. main \in {"released", "exited", "panicked"} => shutdownErr
    BY <2>2 DEF WaitInv
  <2> QED
    BY <2>2, <2>3, <2>4 DEF WaitInv
<1>2. ASSUME NEW w \in Workers, Worker(w) PROVE WaitInv'
  <2>1. Live(w) /\ UNCHANGED <<main, shutdownErr, inFlight>>
    BY <1>2 DEF Worker, Connected, Opened, AttemptFails, Recv, Send, StopOnContext, Cleanup, Live
  <2> QED
    BY <2>1 DEF WaitInv
<1>3. CASE Interrupt \/ ServerShutdown \/ ServerShutdownTimesOut
  BY <1>3 DEF Interrupt, ServerShutdown, ServerShutdownTimesOut, MainTo, WaitInv, TypeOK
<1>4. CASE WaitReleased
  BY <1>4 DEF WaitReleased, MainTo, WaitInv, Live
<1>5. CASE Exit \/ WaitPanics
  BY <1>5 DEF Exit, WaitPanics, ProcessEnds, WaitInv, Live
<1>6. CASE TakeRaw \/ Exited \/ UNCHANGED vars
  BY <1>6 DEF TakeRaw, Exited, vars, WaitInv, Live
<1> QED
  BY <1>1, <1>2, <1>3, <1>4, <1>5, <1>6 DEF Next, Handler

(* The process ends because wg.Wait returned and with no stream cut off,   *)
(* whenever handlers added to the group, unless server.Shutdown gave up on *)
(* one of them (main.go:127-137, stream_manager.go:72).                    *)
THEOREM WaitCovers == Spec => WaitCoversStreams
<1> DEFINE A == main' # main /\ main' \in {"exited", "panicked"} /\ ~shutdownErr
                  => main' = "exited" /\ \A w \in Workers : ~Live(w)
<1>1. Init => WaitInv
  BY DEF Init, WaitInv
<1>2. TypeOK /\ WaitInv /\ [Next]_vars => WaitInv'
  BY NextWaitInv
<1>3. TypeOK /\ WaitInv /\ [Next]_vars => A
  <2> SUFFICES ASSUME WaitInv, [Next]_vars, main' # main,
                      main' \in {"exited", "panicked"}, ~shutdownErr
               PROVE  main' = "exited" /\ \A w \in Workers : ~Live(w)
    OBVIOUS
  <2>1. CASE Exit
    BY <2>1 DEF Exit, ProcessEnds, WaitInv
  <2>2. CASE WaitPanics
    BY <2>2 DEF WaitPanics, ProcessEnds, WaitInv
  <2>3. ASSUME NEW raw \in Spellings, NEW u \in Users, AddCoin(raw, u) \/ DeleteCoin(raw, u)
        PROVE  FALSE
    BY <2>3 DEF AddCoin, DeleteCoin, Handling
  <2>4. ASSUME NEW w \in Workers, Worker(w) PROVE FALSE
    BY <2>4 DEF Worker, Connected, Opened, AttemptFails, Recv, Send, StopOnContext, Cleanup, mainVars
  <2>5. ~TakeRaw /\ ~Interrupt /\ ~ServerShutdown /\ ~ServerShutdownTimesOut /\ ~WaitReleased
    BY DEF TakeRaw, Interrupt, ServerShutdown, ServerShutdownTimesOut, WaitReleased, MainTo, mainVars
  <2>6. ~Exited /\ ~UNCHANGED vars
    BY DEF Exited, vars, mainVars
  <2> QED
    BY <2>1, <2>2, <2>3, <2>4, <2>5, <2>6 DEF Next, Handler
<1> QED
  BY <1>1, <1>2, <1>3, TypeCorrect, PTL DEF Spec, WaitCoversStreams

-------------------------------------------------------------------------------
(* The abstract feed of one symbol, as RefinesFeed reads it off the state. *)
FeedOf == [s \in Symbols |-> IF streams[s] = NoWorker THEN "off"
                             ELSE IF cancelled[streams[s]] THEN "closing" ELSE "on"]

(* GET /coin is a Follow. *)
LEMMA AddCoinFollows ==
    ASSUME IInv, NEW raw \in Spellings, NEW u \in Users, AddCoin(raw, u)
    PROVE  Feed!Follow(Lower[raw], u)
<1> DEFINE s == Lower[raw]
<1> USE StreamManagerAssumption
<1>1. s \in Symbols /\ TypeOK /\ EntriesMatchWorkers
  BY DEF IInv
<1>2. u \notin followers[s] /\ followers' = [followers EXCEPT ![s] = @ \cup {u}]
  BY DEF AddCoin
<1>3. FeedOf' = [FeedOf EXCEPT ![s] = IF @ = "off" THEN "on" ELSE @]
  <2>1. CASE streams[s] = NoWorker
    <3>1. PICK w \in Workers : Start(w, s)
      BY <2>1 DEF AddCoin
    <3>2. \A r \in Symbols : streams[r] # w
      BY <1>1, <3>1 DEF EntriesMatchWorkers, Live, Start
    <3>3. \A r \in Symbols : streams'[r] = IF r = s THEN w ELSE streams[r]
      BY <1>1, <3>1 DEF Start, TypeOK
    <3>4. \A v \in Workers : cancelled'[v] = IF v = w THEN FALSE ELSE cancelled[v]
      BY <1>1, <3>1 DEF Start, TypeOK
    <3> HIDE DEF s
    <3> QED
      BY <1>1, <2>1, <3>2, <3>3, <3>4 DEF FeedOf, TypeOK
  <2>2. CASE streams[s] # NoWorker
    <3>1. UNCHANGED <<streams, cancelled>>
      BY <2>2 DEF AddCoin
    <3> HIDE DEF s
    <3> QED
      BY <1>1, <2>2, <3>1 DEF FeedOf
  <2> QED
    BY <2>1, <2>2
<1> QED
  BY <1>2, <1>3 DEF Feed!Follow, FeedOf

(* DELETE /coin is an Unfollow. *)
LEMMA DeleteCoinUnfollows ==
    ASSUME IInv, NEW raw \in Spellings, NEW u \in Users, DeleteCoin(raw, u)
    PROVE  Feed!Unfollow(Lower[raw], u)
<1> DEFINE s == Lower[raw]
<1> USE StreamManagerAssumption
<1>1. s \in Symbols /\ TypeOK /\ EntriesMatchWorkers
  BY DEF IInv
<1>2. followers' = [followers EXCEPT ![s] = @ \ {u}] /\ UNCHANGED streams
  BY DEF DeleteCoin
<1>3. \A r \in Symbols \ {s} : streams[r] # NoWorker => streams[r] # streams[s]
  BY <1>1 DEF EntriesMatchWorkers
<1>4. \A v \in Workers :
        cancelled'[v] = (cancelled[v] \/ (followers'[s] = {} /\ v = streams[s]))
  BY <1>1 DEF DeleteCoin, CancelIf, TypeOK
<1>5. FeedOf' = [FeedOf EXCEPT ![s] = IF @ = "on" /\ followers'[s] = {} THEN "closing" ELSE @]
  <2> HIDE DEF s
  <2> QED
    BY <1>1, <1>2, <1>3, <1>4 DEF FeedOf, TypeOK
<1> QED
  BY <1>2, <1>5 DEF Feed!Unfollow, FeedOf

(* A goroutine's cleanup is the End of its symbol's feed. *)
LEMMA CleanupEnds ==
    ASSUME IInv, NEW w \in Workers, Cleanup(w)
    PROVE  \E s \in Symbols : Feed!End(s)
<1>1. TypeOK /\ EntriesMatchWorkers /\ Live(w)
  BY DEF IInv, Cleanup, Live
<1>2. PICK s \in Symbols : s = symbolOf[w] /\ streams[s] = w
  BY <1>1 DEF EntriesMatchWorkers
<1>3. \A r \in Symbols \ {s} : streams[r] # w
  BY <1>1, <1>2, StreamManagerAssumption DEF EntriesMatchWorkers
<1>4. /\ \A r \in Symbols : streams'[r] = IF r = s THEN NoWorker ELSE streams[r]
      /\ \A v \in Workers \ {w} : cancelled'[v] = cancelled[v]
      /\ UNCHANGED followers
  BY <1>1, <1>2 DEF Cleanup, Gone, TypeOK
<1>5. FeedOf' = [FeedOf EXCEPT ![s] = "off"] /\ FeedOf[s] # "off"
  <2>1. w # NoWorker
    BY StreamManagerAssumption
  <2>2. \A r \in Symbols \ {s} : streams'[r] = streams[r]
                               /\ (streams[r] # NoWorker => cancelled'[streams[r]] = cancelled[streams[r]])
    BY <1>1, <1>3, <1>4 DEF TypeOK
  <2>3. streams'[s] = NoWorker
    BY <1>4
  <2> QED
    BY <1>2, <2>1, <2>2, <2>3 DEF FeedOf
<1> QED
  BY <1>2, <1>4, <1>5 DEF Feed!End, FeedOf

(* The registry implements the safety part of the abstract feed. *)
THEOREM ImplementsFeed == Spec => Feed!FeedInit /\ [][Feed!FeedNext]_(Feed!feedVars)
<1>1. Init => Feed!FeedInit
  BY DEF Init, Feed!FeedInit
<1>2. IInv /\ [Next]_vars => [Feed!FeedNext]_(Feed!feedVars)
  <2> SUFFICES ASSUME IInv, [Next]_vars PROVE [Feed!FeedNext]_(Feed!feedVars)
    OBVIOUS
  <2>1. ASSUME NEW raw \in Spellings, NEW u \in Users, AddCoin(raw, u) \/ DeleteCoin(raw, u)
        PROVE  Feed!FeedNext
    <3>1. Lower[raw] \in Symbols
      BY StreamManagerAssumption
    <3> QED
      BY <2>1, <3>1, AddCoinFollows, DeleteCoinUnfollows DEF Feed!FeedNext
  <2>2. ASSUME NEW w \in Workers, Cleanup(w) PROVE Feed!FeedNext
    <3>1. \E s \in Symbols : Feed!End(s)
      BY <2>2, CleanupEnds
    <3> QED
      BY <3>1 DEF Feed!FeedNext
  <2>3. CASE UNCHANGED <<followers, streams, cancelled>>
    BY <2>3 DEF Feed!feedVars
  <2>4. ASSUME NEW w \in Workers, Worker(w), ~Cleanup(w)
        PROVE  UNCHANGED <<followers, streams, cancelled>>
    BY <2>4 DEF Worker, Connected, Opened, AttemptFails, Recv, Send, StopOnContext, registry
  <2>5. TakeRaw \/ MainStep \/ Exited \/ UNCHANGED vars
          => UNCHANGED <<followers, streams, cancelled>>
    BY MainStepAside DEF TakeRaw, Exited, vars, registry
  <2>6. ASSUME Exit \/ WaitPanics PROVE Feed!FeedNext
    <3>1. UNCHANGED followers /\ \A s \in Symbols : streams'[s] = NoWorker
      BY <2>6 DEF Exit, WaitPanics, ProcessEnds
    <3>2. Feed!EndAll
      BY <3>1 DEF Feed!EndAll
    <3> QED
      BY <3>2 DEF Feed!FeedNext
  <2> QED
    BY <2>1, <2>2, <2>3, <2>4, <2>5, <2>6 DEF Next, Handler, MainStep
<1> QED
  BY <1>1, <1>2, Invariance, PTL DEF Spec
===============================================================================
