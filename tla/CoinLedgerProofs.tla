-------------------------- MODULE CoinLedgerProofs --------------------------
(***************************************************************************)
(* What holds of CoinLedger for every set of handlers, users and changes,  *)
(* every last place of the column and every bound.  The invariant          *)
(* TableKeepsLedger says nothing of the calls under way; what makes it     *)
(* inductive is that a call nobody passed since it read (stale is FALSE)   *)
(* still agrees with the table: Current.  A commit makes every other call  *)
(* of its user stale, and leaves the rows of other users alone.            *)
(***************************************************************************)
EXTENDS CoinLedger, TLAPS

CallType ==
  [step : Steps, op : Ops, user : Users \union {Nil}, change : Changes \union {0},
   ids : SUBSET RowIds, value : Nat, stale : BOOLEAN, fault : BOOLEAN,
   result : Results]

(* Which request a step belongs to, and what its earlier guards ensured. *)
Shape(c) ==
  /\ c.step # "idle" => c.user \in Users /\ c.result = "none"
  /\ c.step \in {"find", "create"} => c.user \in accounts
  /\ c.step \in {"read", "insert", "update", "upsert"} => c.op = "change"
  /\ c.step \in {"match", "lock"} => c.op = "delete"
  /\ c.step = "commit" => c.op \in {"change", "delete"}
  /\ c.step = "commit" /\ c.op = "change" => ~Overflows(c.value)

(* The call adds the coin's first row, or adds to the row it has. *)
FirstRow(c) == live[c.user] = {} /\ c.value = c.change
AddsToRow(c) ==
  \E r \in Lowest(live[c.user]) :
    c.ids = {r} /\ c.value = quantity[c.user][r] + c.change

(* What a call read still holds when no commit passed it. *)
Current(c) ==
  ~c.stale =>
    /\ c.step = "insert" => FirstRow(c)
    /\ c.step = "update" => AddsToRow(c)
    /\ c.step # "upsert"
    /\ c.step = "lock" => c.ids = live[c.user]
    /\ c.step = "commit" /\ c.op = "delete" => c.ids = live[c.user]
    /\ c.step = "commit" /\ c.op = "change" =>
         AddsToRow(c) \/ (FirstRow(c) /\ \E r \in RowIds : c.ids = {r})

CallsAreCurrent == \A h \in Handlers : Shape(call[h]) /\ Current(call[h])

IInv == TableKeepsLedger /\ CallsAreCurrent


-----------------------------------------------------------------------------

(* The database starts empty and no call is under way. *)
LEMMA InitIInv == Init => IInv
<1> SUFFICES ASSUME Init PROVE IInv
  OBVIOUS
<1> USE LedgerAssumption DEF Init
<1>1. \A h \in Handlers : call[h] = Answered("none", FALSE)
  OBVIOUS
<1>2. Answered("none", FALSE) \in CallType
  BY DEF Answered, Serving, CallType, Steps, Ops, Results
<1>3. TypeOK
  <2>1. call \in [Handlers -> CallType]
    BY <1>2
  <2>2. 0 \in 0..MaxQuantity /\ 0 \in 0..MaxRounded /\ [r \in RowIds |-> 0] \in [RowIds -> 0..MaxQuantity]
    BY SMT
  <2>3. quantity \in [Users -> [RowIds -> 0..MaxQuantity]]
    BY <2>2
  <2>4. /\ ledger \in [Users -> Int \union {Nil}]
        /\ rounded \in [Users -> 0..MaxRounded]
    BY <2>2
  <2> QED
    BY <2>1, <2>3, <2>4 DEF TypeOK, CallType
<1>4. TableKeepsLedger
  BY <1>3 DEF TableKeepsLedger, Agrees
<1>5. CallsAreCurrent
  BY <1>1 DEF CallsAreCurrent, Shape, Current, Answered, Serving
<1> QED
  BY <1>4, <1>5 DEF IInv

(* A step of one call that writes nothing keeps the invariant if it keeps  *)
(* it of that call.                                                        *)
LEMMA OneCallSteps ==
    ASSUME IInv, NEW h \in Handlers,
           UNCHANGED <<accounts, profiles, table, ghosts>>,
           call' = [call EXCEPT ![h] = call'[h]],
           call'[h] \in CallType, Shape(call'[h]), Current(call'[h])
    PROVE  IInv'
<1> USE DEF table, ghosts
<1>1. call' \in [Handlers -> CallType]
  BY DEF IInv, TableKeepsLedger, TypeOK, CallType
<1>2. TypeOK'
  BY <1>1 DEF IInv, TableKeepsLedger, TypeOK, CallType
<1>3. TableKeepsLedger'
  BY <1>2 DEF IInv, TableKeepsLedger, Agrees
<1>4. ASSUME NEW g \in Handlers PROVE (Shape(call[g]) /\ Current(call[g]))'
  <2>1. Shape(call'[g]) /\ Current(call'[g])
    BY DEF IInv, CallsAreCurrent, TableKeepsLedger, TypeOK
  <2> QED
    BY <2>1 DEF Shape, Current, FirstRow, AddsToRow
<1> QED
  BY <1>3, <1>4 DEF IInv, CallsAreCurrent

(* Answers, and the requests that handlers begin to serve. *)
LEMMA AnswerIsCall ==
    ASSUME NEW result \in Results, NEW fault \in BOOLEAN
    PROVE  /\ Answered(result, fault) \in CallType
           /\ Shape(Answered(result, fault)) /\ Current(Answered(result, fault))
BY DEF Answered, Serving, CallType, Shape, Current, Steps, Ops

LEMMA EndKeeps ==
    ASSUME IInv, NEW h \in Handlers, NEW result \in Results,
           UNCHANGED <<accounts, profiles, table, ghosts>>,
           Ends(h, result) \/ Faults(h, result)
    PROVE  IInv'
<1>1. PICK fault \in BOOLEAN : call' = [call EXCEPT ![h] = Answered(result, fault)]
  BY DEF Ends, Faults
<1>2. call'[h] = Answered(result, fault)
  BY <1>1 DEF IInv, TableKeepsLedger, TypeOK
<1>3. call'[h] \in CallType /\ Shape(call'[h]) /\ Current(call'[h])
  BY <1>2, AnswerIsCall
<1> QED
  BY <1>1, <1>2, <1>3, OneCallSteps

(***************************************************************************)
(* One lemma per operation.                                                *)
(***************************************************************************)

(* A handler begins a request with nothing read. *)
LEMMA CallKeeps == ASSUME IInv, NEW h \in Handlers, Call(h) PROVE IInv'
<1> USE DEF ghosts, table
<1>1. PICK u \in Users :
        \/ \E c \in Changes : ChangeOverHttp(h, u, c) \/ ChangeOverGrpc(h, u, c)
        \/ DeleteCoin(h, u)
        \/ Register(h, u) \/ CreateUserProfile(h, u) \/ WsConnect(h, u)
  BY DEF Call
<1>2. CASE \E c \in Changes : ChangeOverHttp(h, u, c) \/ ChangeOverGrpc(h, u, c)
  <2>1. PICK c \in Changes : call' = [call EXCEPT ![h] = Serving("read", "change", u, c)]
    BY <1>2 DEF ChangeOverHttp, ChangeOverGrpc
  <2>2. call'[h] = Serving("read", "change", u, c)
    BY <2>1 DEF IInv, TableKeepsLedger, TypeOK
  <2>3. call'[h] \in CallType /\ Shape(call'[h]) /\ Current(call'[h])
    BY <2>2 DEF Serving, CallType, Shape, Current, Steps, Ops, Results
  <2> QED
    BY <1>2, <2>1, <2>2, <2>3, OneCallSteps DEF ChangeOverHttp, ChangeOverGrpc
<1>3. CASE DeleteCoin(h, u)
  <2>1. call' = [call EXCEPT ![h] = Serving("match", "delete", u, 0)]
    BY <1>3 DEF DeleteCoin
  <2>2. call'[h] = Serving("match", "delete", u, 0)
    BY <2>1 DEF IInv, TableKeepsLedger, TypeOK
  <2>3. call'[h] \in CallType /\ Shape(call'[h]) /\ Current(call'[h])
    BY <2>2 DEF Serving, CallType, Shape, Current, Steps, Ops, Results
  <2> QED
    BY <1>3, <2>1, <2>2, <2>3, OneCallSteps DEF DeleteCoin
<1>4. CASE CreateUserProfile(h, u)
  <2>1. call' = [call EXCEPT ![h] = Serving("create", "profile", u, 0)]
    BY <1>4 DEF CreateUserProfile
  <2>2. call'[h] = Serving("create", "profile", u, 0)
    BY <2>1 DEF IInv, TableKeepsLedger, TypeOK
  <2>3. call'[h] \in CallType /\ Shape(call'[h]) /\ Current(call'[h])
    <3>1. u \in accounts
      BY <1>4 DEF CreateUserProfile
    <3> QED
      BY <2>2, <3>1 DEF Serving, CallType, Shape, Current, Steps, Ops, Results
  <2> QED
    BY <1>4, <2>1, <2>2, <2>3, OneCallSteps DEF CreateUserProfile
<1>5. CASE WsConnect(h, u)
  <2>1. call' = [call EXCEPT ![h] = Serving("find", "connect", u, 0)]
    BY <1>5 DEF WsConnect
  <2>2. call'[h] = Serving("find", "connect", u, 0)
    BY <2>1 DEF IInv, TableKeepsLedger, TypeOK
  <2>3. call'[h] \in CallType /\ Shape(call'[h]) /\ Current(call'[h])
    <3>1. u \in accounts
      BY <1>5 DEF WsConnect
    <3> QED
      BY <2>2, <3>1 DEF Serving, CallType, Shape, Current, Steps, Ops, Results
  <2> QED
    BY <1>5, <2>1, <2>2, <2>3, OneCallSteps DEF WsConnect
<1>6. CASE Register(h, u)
  <2>1. /\ accounts' = accounts \union {u}
        /\ UNCHANGED <<profiles, live, deleted, quantity, ledger, rounded, disturbed>>
    BY <1>6 DEF Register
  <2>2. PICK a \in CallType :
          /\ call' = [call EXCEPT ![h] = a]
          /\ a.stale = FALSE
          /\ a.step = "idle" \/ (a.step = "create" /\ a.user = u /\ a.result = "none")
    <3>1. CASE call' = [call EXCEPT ![h] = Serving("create", "register", u, 0)]
      <4>1. Serving("create", "register", u, 0) \in CallType
        BY DEF Serving, CallType, Steps, Ops, Results
      <4> QED
        BY <3>1, <4>1 DEF Serving
    <3>2. CASE Faults(h, "error")
      <4>1. Answered("error", TRUE) \in CallType
        BY AnswerIsCall DEF Results
      <4> QED
        BY <3>2, <4>1 DEF Faults, Answered, Serving
    <3> QED
      BY <1>6, <3>1, <3>2 DEF Register
  <2>3. call'[h] = a
    BY <2>2 DEF IInv, TableKeepsLedger, TypeOK
  <2>4. TypeOK'
    BY <2>1, <2>2 DEF IInv, TableKeepsLedger, TypeOK, CallType
  <2>5. TableKeepsLedger'
    BY <2>1, <2>4 DEF IInv, TableKeepsLedger, Agrees
  <2>6. ASSUME NEW g \in Handlers PROVE (Shape(call[g]) /\ Current(call[g]))'
    <3>1. CASE g = h
      BY <2>1, <2>2, <2>3, <3>1 DEF Shape, Current
    <3>2. CASE g # h
      <4>1. call'[g] = call[g]
        BY <2>2, <3>2 DEF IInv, TableKeepsLedger, TypeOK
      <4>2. Shape(call[g]) /\ Current(call[g])
        BY DEF IInv, CallsAreCurrent
      <4> QED
        BY <2>1, <4>1, <4>2 DEF Shape, Current, FirstRow, AddsToRow
    <3> QED
      BY <3>1, <3>2
  <2> QED
    BY <2>5, <2>6 DEF IInv, CallsAreCurrent
<1> QED
  BY <1>1, <1>2, <1>3, <1>4, <1>5, <1>6

LEMMA ChangesAreInts == Changes \union {0} \subseteq Int
<1>1. Changes \subseteq Int
  BY LedgerAssumption
<1>2. {0} \subseteq Int
  OBVIOUS
<1> QED
  BY <1>1, <1>2

(* A read leaves a change that agrees with the rows it saw. *)
LEMMA ReadKeeps == ASSUME IInv, NEW h \in Handlers, Read(h) PROVE IInv'
<1> DEFINE u == call[h].user
           c == call[h].change
<1> USE LedgerAssumption
<1>1. /\ UNCHANGED <<accounts, profiles, table, ghosts>>
      /\ call[h].step = "read"
  BY DEF Read
<1>2. call[h] \in CallType /\ Shape(call[h])
  BY DEF IInv, TableKeepsLedger, TypeOK, CallType, CallsAreCurrent
<1>3. CASE \E result \in Results : Ends(h, result) \/ Faults(h, result)
  BY <1>1, <1>3, EndKeeps
<1>4. CASE /\ RowsOf(u) = {} /\ c >= 0
           /\ call' = [call EXCEPT ![h].step = "insert", ![h].value = c]
  <2>1. call'[h] = [call[h] EXCEPT !.step = "insert", !.value = c]
    BY <1>4 DEF IInv, TableKeepsLedger, TypeOK
  <2>2. call' = [call EXCEPT ![h] = call'[h]]
    BY <1>4, <2>1
  <2>3. c \in Nat
    BY <1>2, <1>4 DEF CallType
  <2>4. call'[h] \in CallType
    BY <1>2, <2>1, <2>3 DEF CallType, Steps
  <2>5. Shape(call'[h]) /\ Current(call'[h])
    <3>1. /\ call'[h].step = "insert" /\ call'[h].value = c
          /\ call'[h].user = u /\ call'[h].change = c /\ call'[h].op = call[h].op
          /\ call'[h].result = call[h].result
      BY <1>2, <2>1 DEF CallType
    <3>2. u \in Users /\ call[h].op = "change" /\ call[h].result = "none"
      BY <1>1, <1>2 DEF Shape
    <3>3. live[u] = {}
      BY <1>4 DEF RowsOf
    <3> QED
      BY <3>1, <3>2, <3>3 DEF Shape, Current, FirstRow
  <2> QED
    BY <1>1, <2>2, <2>4, <2>5, OneCallSteps
<1>5. ASSUME NEW r \in Lowest(RowsOf(u)), ~Short(quantity[u][r] + c),
             call' = [call EXCEPT ![h].step = "update", ![h].ids = {r},
                                  ![h].value = quantity[u][r] + c]
      PROVE  IInv'
  <2>1. call'[h] = [call[h] EXCEPT !.step = "update", !.ids = {r},
                                   !.value = quantity[u][r] + c]
    BY <1>5 DEF IInv, TableKeepsLedger, TypeOK
  <2>2. call' = [call EXCEPT ![h] = call'[h]]
    BY <1>5, <2>1
  <2>3. u \in Users /\ r \in live[u] /\ r \in RowIds
    BY <1>1, <1>2, <1>5 DEF Shape, Lowest, RowsOf, IInv, TableKeepsLedger, TypeOK
  <2>4. quantity[u][r] \in Nat /\ c \in Int
    <3>1. quantity \in [Users -> [RowIds -> 0..MaxQuantity]]
      BY DEF IInv, TableKeepsLedger, TypeOK
    <3>2. quantity[u][r] \in 0..MaxQuantity
      BY <2>3, <3>1
    <3>3. c \in Changes \union {0}
      BY <1>2 DEF CallType
    <3>4. c \in Int
      BY <3>3, ChangesAreInts
    <3>5. quantity[u][r] \in Nat
      BY <3>2, LedgerAssumption
    <3> QED
      BY <3>4, <3>5
  <2>5. quantity[u][r] + c \in Nat
    BY <1>5, <2>4 DEF Short
  <2>6. call'[h] \in CallType
    <3>1. {r} \in SUBSET RowIds
      BY <2>3
    <3> QED
      BY <1>2, <2>1, <2>5, <3>1 DEF CallType, Steps
  <2>7. Shape(call'[h]) /\ Current(call'[h])
    <3>1. /\ call'[h].step = "update" /\ call'[h].ids = {r}
          /\ call'[h].value = quantity[u][r] + c
          /\ call'[h].user = u /\ call'[h].change = c /\ call'[h].op = call[h].op
          /\ call'[h].result = call[h].result
      BY <1>2, <2>1 DEF CallType
    <3>2. u \in Users /\ call[h].op = "change" /\ call[h].result = "none"
      BY <1>1, <1>2 DEF Shape
    <3>3. AddsToRow(call'[h])
      BY <1>5, <3>1 DEF AddsToRow, RowsOf
    <3> QED
      BY <3>1, <3>2, <3>3 DEF Shape, Current
  <2> QED
    BY <1>1, <2>2, <2>6, <2>7, OneCallSteps
<1> QED
  BY <1>3, <1>4, <1>5 DEF Read, Results

(* A statement that changes the step and the rows of a call, nothing else. *)
Statement(h, step, ids) ==
  /\ call' = [call EXCEPT ![h] = call'[h]]
  /\ call'[h] \in CallType
  /\ call'[h].step = step /\ call'[h].ids = ids
  /\ call'[h].user = call[h].user /\ call'[h].op = call[h].op
  /\ call'[h].change = call[h].change /\ call'[h].value = call[h].value
  /\ call'[h].stale = call[h].stale /\ call'[h].result = call[h].result

LEMMA StatementOf ==
    ASSUME IInv, NEW h \in Handlers, NEW step \in Steps, NEW ids \in SUBSET RowIds,
           call' = [call EXCEPT ![h].step = step, ![h].ids = ids]
    PROVE  Statement(h, step, ids)
<1>1. call \in [Handlers -> CallType]
  BY DEF IInv, TableKeepsLedger, TypeOK, CallType
<1>2. call'[h] = [call[h] EXCEPT !.step = step, !.ids = ids]
  BY <1>1
<1>3. call' = [call EXCEPT ![h] = call'[h]]
  BY <1>1, <1>2
<1> QED
  BY <1>1, <1>2, <1>3 DEF CallType, Statement

LEMMA GoesOf ==
    ASSUME IInv, NEW h \in Handlers, NEW step \in Steps, Goes(h, step)
    PROVE  Statement(h, step, call[h].ids)
<1>1. call \in [Handlers -> CallType]
  BY DEF IInv, TableKeepsLedger, TypeOK, CallType
<1>2. call'[h] = [call[h] EXCEPT !.step = step]
  BY <1>1 DEF Goes
<1> QED
  BY <1>1, <1>2 DEF CallType, Statement, Goes

LEMMA StatementKeeps ==
    ASSUME IInv, NEW h \in Handlers, NEW step \in Steps, NEW ids,
           UNCHANGED <<accounts, profiles, table, ghosts>>,
           Statement(h, step, ids), Shape(call'[h]), Current(call'[h])
    PROVE  IInv'
BY OneCallSteps DEF Statement

LEMMA CallOf ==
    ASSUME IInv, NEW h \in Handlers
    PROVE  /\ call[h] \in CallType /\ Shape(call[h]) /\ Current(call[h])
           /\ call[h].ids \in SUBSET RowIds /\ call[h].value \in Nat
           /\ call[h].stale \in BOOLEAN
BY DEF IInv, TableKeepsLedger, TypeOK, CallType, CallsAreCurrent

LEMMA StepsAre == {"insert", "update", "upsert", "lock", "commit"} \subseteq Steps
BY DEF Steps

(* The first row gets an id nobody has. *)
LEMMA InsertKeeps == ASSUME IInv, NEW h \in Handlers, Insert(h) PROVE IInv'
<1>1. /\ UNCHANGED <<accounts, profiles, table, ghosts>>
      /\ call[h].step = "insert"
  BY DEF Insert
<1>2. CASE \E result \in Results : Ends(h, result) \/ Faults(h, result)
  BY <1>1, <1>2, EndKeeps
<1>3. ASSUME NEW r \in RowIds, ~Overflows(call[h].value),
             call' = [call EXCEPT ![h].step = "commit", ![h].ids = {r}]
      PROVE  IInv'
  <2>1. {r} \in SUBSET RowIds
    OBVIOUS
  <2>2. Statement(h, "commit", {r})
    BY <1>3, <2>1, StatementOf, StepsAre
  <2>3. Shape(call'[h])
    BY <1>1, <1>3, <2>2, CallOf DEF Shape, Statement
  <2>4. Current(call'[h])
    <3>1. FirstRow(call[h]) \/ call[h].stale
      BY <1>1, CallOf DEF Current
    <3>2. ~call'[h].stale => FirstRow(call'[h])
      BY <2>2, <3>1 DEF Statement, FirstRow
    <3> QED
      BY <1>1, <2>2, <3>2, CallOf DEF Current, Statement, Shape
  <2> QED
    BY <1>1, <2>2, <2>3, <2>4, StatementKeeps, StepsAre
<1> QED
  BY <1>2, <1>3 DEF Insert, Lowest, Results

(* An update nobody passed finds the row it read. *)
LEMMA UpdateKeeps == ASSUME IInv, NEW h \in Handlers, Update(h) PROVE IInv'
<1>1. /\ UNCHANGED <<accounts, profiles, table, ghosts>>
      /\ call[h].step = "update"
  BY DEF Update
<1>2. AddsToRow(call[h]) \/ call[h].stale
  BY <1>1, CallOf DEF Current
<1>3. CASE \E result \in Results : Ends(h, result) \/ Faults(h, result)
  BY <1>1, <1>3, EndKeeps
<1>4. CASE ~Overflows(call[h].value) /\ Goes(h, "commit")
  <2>1. Statement(h, "commit", call[h].ids)
    BY <1>4, GoesOf, StepsAre
  <2>2. Shape(call'[h])
    BY <1>1, <1>4, <2>1, CallOf DEF Shape, Statement
  <2>3. ~call'[h].stale => AddsToRow(call'[h])
    BY <1>2, <2>1 DEF Statement, AddsToRow
  <2>4. Current(call'[h])
    BY <1>1, <2>1, <2>3, CallOf DEF Current, Statement, Shape
  <2> QED
    BY <1>1, <2>1, <2>2, <2>4, StatementKeeps, StepsAre
<1>5. CASE ~(call[h].ids \subseteq live[call[h].user]) /\ Goes(h, "upsert")
  <2>1. Statement(h, "upsert", call[h].ids)
    BY <1>5, GoesOf, StepsAre
  <2>2. Shape(call'[h])
    BY <1>1, <2>1, CallOf DEF Shape, Statement
  <2>3. call[h].stale
    BY <1>2, <1>5 DEF AddsToRow, Lowest
  <2>4. Current(call'[h])
    BY <2>1, <2>3 DEF Current, Statement
  <2> QED
    BY <1>1, <2>1, <2>2, <2>4, StatementKeeps, StepsAre
<1> QED
  BY <1>3, <1>4, <1>5 DEF Update, Results

(* Only a call that was passed inserts over a row. *)
LEMMA UpsertKeeps == ASSUME IInv, NEW h \in Handlers, Upsert(h) PROVE IInv'
<1>1. /\ UNCHANGED <<accounts, profiles, table, ghosts>>
      /\ call[h].step = "upsert"
  BY DEF Upsert
<1>2. CASE \E result \in Results : Ends(h, result) \/ Faults(h, result)
  BY <1>1, <1>2, EndKeeps
<1>3. CASE ~Overflows(call[h].value) /\ Goes(h, "commit")
  <2>1. Statement(h, "commit", call[h].ids)
    BY <1>3, GoesOf, StepsAre
  <2>2. Shape(call'[h])
    BY <1>1, <1>3, <2>1, CallOf DEF Shape, Statement
  <2>3. call[h].stale
    BY <1>1, CallOf DEF Current
  <2>4. Current(call'[h])
    BY <2>1, <2>3 DEF Current, Statement
  <2> QED
    BY <1>1, <2>1, <2>2, <2>4, StatementKeeps, StepsAre
<1> QED
  BY <1>2, <1>3 DEF Upsert, Results

(* A deletion nobody passed has all the rows there are. *)
LEMMA MatchKeeps == ASSUME IInv, NEW h \in Handlers, Match(h) PROVE IInv'
<1>1. /\ UNCHANGED <<accounts, profiles, table, ghosts>>
      /\ call[h].step = "match"
  BY DEF Match
<1>2. CASE Faults(h, "error")
  BY <1>1, <1>2, EndKeeps DEF Results
<1>3. CASE call' = [call EXCEPT ![h].step = "lock", ![h].ids = live[call[h].user]]
  <2>1. call[h].user \in Users /\ call[h].op = "delete" /\ call[h].result = "none"
    BY <1>1, CallOf DEF Shape
  <2>2. live[call[h].user] \in SUBSET RowIds
    BY <2>1 DEF IInv, TableKeepsLedger, TypeOK
  <2>3. Statement(h, "lock", live[call[h].user])
    BY <1>3, <2>2, StatementOf, StepsAre, Zenon
  <2>4. Shape(call'[h]) /\ Current(call'[h])
    BY <2>1, <2>3 DEF Shape, Current, Statement
  <2> QED
    BY <1>1, <2>3, <2>4, StatementKeeps, StepsAre
<1> QED
  BY <1>2, <1>3 DEF Match

LEMMA LockKeeps == ASSUME IInv, NEW h \in Handlers, Lock(h) PROVE IInv'
<1> DEFINE left == call[h].ids \intersect live[call[h].user]
<1>1. /\ UNCHANGED <<accounts, profiles, table, ghosts>>
      /\ call[h].step = "lock"
  BY DEF Lock
<1>2. call[h].op = "delete" /\ call[h].user \in Users /\ call[h].result = "none"
  BY <1>1, CallOf DEF Shape
<1>3. CASE \E result \in Results : Ends(h, result) \/ Faults(h, result)
  BY <1>1, <1>3, EndKeeps
<1>4. CASE call' = [call EXCEPT ![h].step = "commit", ![h].ids = left]
  <2>1. left \in SUBSET RowIds
    BY CallOf
  <2>2. Statement(h, "commit", left)
    BY <1>4, <2>1, StatementOf, StepsAre, Zenon
  <2>3. Shape(call'[h])
    BY <1>2, <2>2 DEF Shape, Statement
  <2>4. call[h].stale \/ left = live[call[h].user]
    BY <1>1, CallOf DEF Current
  <2>5. Current(call'[h])
    BY <1>2, <2>2, <2>4 DEF Current, Statement
  <2> QED
    BY <1>1, <2>2, <2>3, <2>5, StatementKeeps, StepsAre
<1> QED
  BY <1>3, <1>4 DEF Lock, Results

(* The column keeps a quantity to half of its last place.                  *)
LEMMA RoundIs ==
    ASSUME NEW q \in Nat
    PROVE  /\ Round(q) \in Nat
           /\ 2 * (Round(q) - q) <= Unit /\ 2 * (q - Round(q)) <= Unit
<1> DEFINE rest == q % Unit
<1>1. Unit \in Nat /\ Unit > 0
  BY LedgerAssumption
<1>2. rest \in 0..(Unit - 1) /\ rest <= q
  BY <1>1
<1>3. Round(q) = IF 2 * rest < Unit THEN q - rest ELSE q - rest + Unit
  BY DEF Round
<1> HIDE DEF rest
<1> QED
  BY <1>1, <1>2, <1>3

(* One more rounding allows half of a last place more.                     *)
LEMMA OneMoreRounding ==
    ASSUME NEW n \in Nat
    PROVE  Unit * n \in Nat /\ Unit * (n + 1) = Unit * n + Unit
BY LedgerAssumption

(* What a commit of a change or a deletion does to the coin of its user,   *)
(* and that it touches nobody else's.                                      *)
LEMMA CommitWrites ==
    ASSUME IInv, NEW h \in Handlers, call[h].step = "commit", Write(h)
    PROVE  /\ live' \in [Users -> SUBSET RowIds] /\ deleted' \in [Users -> SUBSET RowIds]
           /\ quantity' \in [Users -> [RowIds -> 0..MaxQuantity]]
           /\ \A v \in Users \ {call[h].user} :
                live'[v] = live[v] /\ quantity'[v] = quantity[v]
           /\ call[h].op = "delete" =>
                live'[call[h].user] = live[call[h].user] \ call[h].ids
           /\ call[h].op = "change" =>
                /\ live'[call[h].user] = live[call[h].user] \union call[h].ids
                /\ \A r \in call[h].ids : quantity'[call[h].user][r] = Round(call[h].value)
<1> DEFINE u == call[h].user
           new == [r \in RowIds |-> IF r \in call[h].ids THEN Round(call[h].value)
                                    ELSE quantity[u][r]]
<1>1. u \in Users /\ call[h].op \in {"change", "delete"} /\ call[h].ids \in SUBSET RowIds
  BY CallOf DEF Shape
<1>2. /\ live \in [Users -> SUBSET RowIds] /\ deleted \in [Users -> SUBSET RowIds]
      /\ quantity \in [Users -> [RowIds -> 0..MaxQuantity]]
  BY DEF IInv, TableKeepsLedger, TypeOK
<1>3. CASE call[h].op = "delete"
  <2>1. /\ live' = [live EXCEPT ![u] = live[u] \ call[h].ids]
        /\ deleted' = [deleted EXCEPT ![u] = deleted[u] \union call[h].ids]
        /\ quantity' = quantity
    BY <1>1, <1>2, <1>3 DEF Write
  <2>2. /\ live' \in [Users -> SUBSET RowIds] /\ deleted' \in [Users -> SUBSET RowIds]
        /\ live'[u] = live[u] \ call[h].ids
    BY <1>1, <1>2, <2>1
  <2>3. \A v \in Users \ {u} : live'[v] = live[v] /\ quantity'[v] = quantity[v]
    BY <1>2, <2>1
  <2> QED
    BY <1>2, <1>3, <2>1, <2>2, <2>3
<1>4. CASE call[h].op = "change"
  <2>1. /\ live' = [live EXCEPT ![u] = live[u] \union call[h].ids]
        /\ deleted' = [deleted EXCEPT ![u] = deleted[u] \ call[h].ids]
        /\ quantity' = [quantity EXCEPT ![u] = new]
    BY <1>1, <1>2, <1>4 DEF Write
  <2>2. Round(call[h].value) \in 0..MaxQuantity
    <3>1. Round(call[h].value) \in Nat /\ ~(Round(call[h].value) > MaxQuantity)
      BY <1>4, CallOf, RoundIs DEF Shape, Overflows
    <3> QED
      BY <3>1, LedgerAssumption
  <2>3. new \in [RowIds -> 0..MaxQuantity]
    BY <1>1, <1>2, <2>2
  <2>4. quantity' \in [Users -> [RowIds -> 0..MaxQuantity]]
    BY <1>2, <2>1, <2>3
  <2>5. quantity'[u] = new
    BY <1>1, <1>2, <2>1
  <2>6. \A r \in call[h].ids : quantity'[u][r] = Round(call[h].value)
    BY <1>1, <2>5
  <2>7. \A v \in Users \ {u} : live'[v] = live[v] /\ quantity'[v] = quantity[v]
    BY <1>2, <2>1
  <2>8. /\ live' \in [Users -> SUBSET RowIds] /\ deleted' \in [Users -> SUBSET RowIds]
        /\ live'[u] = live[u] \union call[h].ids
    BY <1>1, <1>2, <2>1
  <2> QED
    BY <1>4, <2>4, <2>6, <2>7, <2>8
<1> QED
  BY <1>1, <1>3, <1>4

(* A commit nobody passed of a user nobody disturbed leaves one row, of    *)
(* what the ledger and the change add up to and the column keeps of it, or *)
(* none after a deletion.                                                  *)
LEMMA CommitAgrees ==
    ASSUME IInv, NEW h \in Handlers, call[h].step = "commit", Write(h), Account(h)
    PROVE  /\ ledger' \in [Users -> Int \union {Nil}]
           /\ rounded' \in [Users -> 0..MaxRounded]
           /\ disturbed' \subseteq Users
           /\ \A v \in Users \ disturbed' : Agrees(v)'
<1> DEFINE u == call[h].user
           value == call[h].value
           clear == call[h].stale \/ (u \in disturbed /\ call[h].op # "delete")
           none == clear \/ call[h].op = "delete"
           old == IF ledger[u] = Nil THEN 0 ELSE ledger[u]
           more == IF none THEN 0 ELSE IF Round(value) = value THEN rounded[u]
                   ELSE rounded[u] + 1
<1>1. u \in Users /\ call[h].op \in {"change", "delete"} /\ value \in Nat
  BY CallOf DEF Shape
<1>2. /\ ledger \in [Users -> Int \union {Nil}] /\ disturbed \subseteq Users
      /\ rounded \in [Users -> 0..MaxRounded]
  BY DEF IInv, TableKeepsLedger, TypeOK
<1>3. /\ disturbed' = IF clear THEN disturbed \union {u} ELSE disturbed \ {u}
      /\ ledger' = [ledger EXCEPT ![u] = IF none THEN Nil ELSE old + call[h].change]
      /\ rounded' = [rounded EXCEPT ![u] = more]
      /\ rounded'[u] <= MaxRounded
  <2>1. rounded' = [rounded EXCEPT ![u] = more]
    BY <1>1, <1>2 DEF Account
  <2> QED
    BY <2>1 DEF Account
<1>4. old \in Int /\ call[h].change \in Int
  <2>1. call[h].change \in Changes \union {0}
    BY CallOf DEF CallType
  <2> QED
    BY <1>1, <1>2, <2>1, ChangesAreInts
<1>5. rounded[u] \in Nat /\ more \in Nat /\ rounded'[u] = more /\ more <= MaxRounded
  <2>1. rounded[u] \in 0..MaxRounded
    BY <1>1, <1>2
  <2>2. rounded'[u] = more
    BY <1>1, <1>2, <1>3
  <2> QED
    BY <1>3, <2>1, <2>2, LedgerAssumption
<1>6. /\ ledger' \in [Users -> Int \union {Nil}]
      /\ rounded' \in [Users -> 0..MaxRounded]
      /\ disturbed' \subseteq Users
  <2>1. more \in 0..MaxRounded
    BY <1>5, LedgerAssumption
  <2>2. old + call[h].change \in Int
    BY <1>4
  <2> HIDE DEF more, old, clear
  <2> QED
    BY <1>1, <1>2, <1>3, <2>1, <2>2
<1>7. ASSUME NEW v \in Users \ disturbed', v # u PROVE Agrees(v)'
  <2>1. v \notin disturbed /\ ledger'[v] = ledger[v] /\ rounded'[v] = rounded[v]
    BY <1>1, <1>2, <1>3, <1>7
  <2>2. live'[v] = live[v] /\ quantity'[v] = quantity[v]
    BY <1>7, CommitWrites
  <2>3. Agrees(v)
    BY <2>1 DEF IInv, TableKeepsLedger
  <2> QED
    BY <2>1, <2>2, <2>3 DEF Agrees
<1>8. CASE none
  <2>1. ledger'[u] = Nil
    BY <1>1, <1>2, <1>3, <1>8
  <2>2. clear => u \in disturbed'
    BY <1>1, <1>2, <1>3
  <2>3. ASSUME ~clear PROVE live'[u] = {}
    <3>1. call[h].op = "delete" /\ ~call[h].stale
      BY <1>8, <2>3
    <3>2. call[h].ids = live[u]
      BY <3>1, CallOf DEF Current
    <3> QED
      BY <3>1, <3>2, CommitWrites
  <2> QED
    BY <1>6, <1>7, <2>1, <2>2, <2>3 DEF Agrees
<1>9. CASE ~none
  <2>1. /\ u \notin disturbed /\ ~call[h].stale /\ call[h].op = "change"
        /\ ledger'[u] = old + call[h].change
    BY <1>1, <1>2, <1>3, <1>9
  <2>2. Agrees(u)
    BY <1>1, <2>1 DEF IInv, TableKeepsLedger
  <2>3. AddsToRow(call[h]) \/ (FirstRow(call[h]) /\ \E r \in RowIds : call[h].ids = {r})
    BY <2>1, CallOf DEF Current
  <2>4. /\ live'[u] = live[u] \union call[h].ids
        /\ \A r \in call[h].ids : quantity'[u][r] = Round(value)
    BY <2>1, CommitWrites
  <2>5. \E r \in RowIds : live'[u] = {r} /\ quantity'[u][r] = Round(value)
    <3>1. CASE AddsToRow(call[h])
      BY <1>1, <2>2, <2>4, <3>1 DEF AddsToRow, Lowest, Agrees
    <3>2. CASE FirstRow(call[h]) /\ \E r \in RowIds : call[h].ids = {r}
      BY <2>4, <3>2 DEF FirstRow
    <3> QED
      BY <2>3, <3>1, <3>2
  <2>6. /\ 2 * (value - (old + call[h].change)) <= Unit * rounded[u]
        /\ 2 * ((old + call[h].change) - value) <= Unit * rounded[u]
    <3>1. CASE ledger[u] = Nil
      <4>1. value = call[h].change /\ old = 0
        BY <2>2, <2>3, <3>1 DEF AddsToRow, FirstRow, Lowest, Agrees
      <4> QED
        BY <1>4, <1>5, <4>1, OneMoreRounding
    <3>2. CASE ledger[u] # Nil
      <4>1. PICK r \in RowIds :
              /\ live[u] = {r}
              /\ 2 * (quantity[u][r] - ledger[u]) <= Unit * rounded[u]
              /\ 2 * (ledger[u] - quantity[u][r]) <= Unit * rounded[u]
        BY <2>2, <3>2 DEF Agrees
      <4>2. Lowest(live[u]) = {r}
        BY <4>1, LedgerAssumption DEF Lowest, RowIds
      <4>3. value = quantity[u][r] + call[h].change /\ old = ledger[u]
        BY <2>3, <3>2, <4>1, <4>2 DEF AddsToRow, FirstRow
      <4>4. quantity[u][r] \in Int
        <5>1. quantity[u][r] \in 0..MaxQuantity
          BY <1>1 DEF IInv, TableKeepsLedger, TypeOK
        <5> QED
          BY <5>1, LedgerAssumption
      <4>5. Unit * rounded[u] \in Nat
        BY <1>5, OneMoreRounding
      <4> QED
        BY <1>4, <4>1, <4>3, <4>4, <4>5
    <3> QED
      BY <3>1, <3>2
  <2>7. /\ 2 * (Round(value) - (old + call[h].change)) <= Unit * more
        /\ 2 * ((old + call[h].change) - Round(value)) <= Unit * more
    <3> DEFINE sum == old + call[h].change
    <3>1. sum \in Int /\ Unit \in Nat /\ Unit * rounded[u] \in Nat
      <4>1. Unit * rounded[u] \in Nat
        BY <1>5, OneMoreRounding
      <4> QED
        BY <1>4, <4>1, LedgerAssumption
    <3>2. CASE Round(value) = value
      BY <1>9, <2>6, <3>2
    <3>3. CASE Round(value) # value
      <4>1. Unit * more = Unit * rounded[u] + Unit
        BY <1>5, <1>9, <3>3, OneMoreRounding
      <4>2. /\ Round(value) \in Nat
            /\ 2 * (Round(value) - value) <= Unit /\ 2 * (value - Round(value)) <= Unit
        BY <1>1, RoundIs
      <4>3. 2 * (value - sum) <= Unit * rounded[u] /\ 2 * (sum - value) <= Unit * rounded[u]
        BY <2>6
      <4> HIDE DEF sum, more, value
      <4>4. /\ 2 * (Round(value) - sum) <= Unit * rounded[u] + Unit
            /\ 2 * (sum - Round(value)) <= Unit * rounded[u] + Unit
        BY <1>1, <3>1, <4>2, <4>3
      <4> QED
        BY <4>1, <4>4 DEF sum
    <3> QED
      BY <3>2, <3>3
  <2>8. ledger'[u] # Nil
    <3>1. old + call[h].change \in Int
      BY <1>4
    <3> QED
      BY <2>1, <3>1, LedgerAssumption
  <2>9. ASSUME NEW v \in Users, v = u PROVE Agrees(v)'
    <3>1. Unit * rounded'[v] = Unit * more
      BY <1>5, <2>9
    <3> HIDE DEF more, old, value, u
    <3> QED
      BY <2>1, <2>5, <2>7, <2>8, <2>9, <3>1 DEF Agrees
  <2> QED
    BY <1>6, <1>7, <2>9
<1> QED
  BY <1>1, <1>8, <1>9

(* A commit makes every call of its user that had read stale, and leaves   *)
(* the rows the other calls read as they were.                             *)
LEMMA CommitKeeps == ASSUME IInv, NEW h \in Handlers, Commit(h) PROVE IInv'
<1> DEFINE u == call[h].user
           Passed(g) == /\ g # h /\ call[g].user = u /\ call[g].step \in PastRead
           After(a) == [g \in Handlers |->
                          IF g = h THEN a
                          ELSE IF Passed(g) THEN [call[g] EXCEPT !.stale = TRUE]
                          ELSE call[g]]
<1>1. call[h].step = "commit" /\ UNCHANGED <<accounts, profiles>>
  BY DEF Commit
<1>2. CASE Faults(h, "error") /\ UNCHANGED <<table, ghosts>>
  BY <1>1, <1>2, EndKeeps DEF Results
<1>3. ASSUME Write(h), Account(h), NEW a \in CallType, call' = After(a),
             a.step = "idle", a.stale = FALSE
      PROVE  IInv'
  <2>1. call'[h] = a
    BY <1>3
  <2>2. ASSUME NEW g \in Handlers \ {h}
        PROVE  /\ call'[g] \in CallType /\ call'[g].step = call[g].step
               /\ call'[g].user = call[g].user /\ call'[g].op = call[g].op
               /\ call'[g].ids = call[g].ids /\ call'[g].value = call[g].value
               /\ call'[g].change = call[g].change /\ call'[g].result = call[g].result
               /\ Passed(g) => call'[g].stale
               /\ ~Passed(g) => call'[g].stale = call[g].stale
    <3>1. call[g] \in CallType
      BY CallOf
    <3>2. call'[g] = IF Passed(g) THEN [call[g] EXCEPT !.stale = TRUE] ELSE call[g]
      BY <1>3
    <3> QED
      BY <3>1, <3>2 DEF CallType
  <2>3. call' \in [Handlers -> CallType]
    <3>1. \A g \in Handlers : call'[g] \in CallType
      BY <1>3, <2>1, <2>2
    <3> QED
      BY <1>3, <3>1
  <2>4. TypeOK'
    BY <1>1, <1>3, <2>3, CommitWrites, CommitAgrees
       DEF TypeOK, CallType, IInv, TableKeepsLedger
  <2>5. TableKeepsLedger'
    BY <1>1, <1>3, <2>4, CommitAgrees DEF TableKeepsLedger
  <2>6. ASSUME NEW g \in Handlers \ {h} PROVE (Shape(call[g]) /\ Current(call[g]))'
    <3>1. Shape(call[g]) /\ Current(call[g])
      BY CallOf
    <3>2. Shape(call'[g]) /\ accounts' = accounts
      BY <1>1, <2>2, <3>1 DEF Shape
    <3>3. CASE call'[g].stale
      BY <3>2, <3>3 DEF Shape, Current
    <3>4. CASE call[g].step \notin PastRead
      BY <2>2, <3>2, <3>4 DEF Shape, Current, PastRead
    <3>5. CASE ~call'[g].stale /\ call[g].step \in PastRead
      <4>1. call[g].user # u /\ ~call[g].stale /\ call[g].user \in Users
        BY <2>2, <3>1, <3>5 DEF Shape, PastRead
      <4>2. live'[call[g].user] = live[call[g].user]
            /\ quantity'[call[g].user] = quantity[call[g].user]
        BY <1>1, <1>3, <4>1, CommitWrites
      <4>3. Current(call[g])'
        BY <2>2, <3>1, <4>1, <4>2 DEF Current, FirstRow, AddsToRow
      <4> QED
        BY <3>2, <4>3 DEF Shape
    <3> QED
      BY <3>3, <3>4, <3>5
  <2>7. (Shape(call[h]) /\ Current(call[h]))'
    BY <1>3, <2>1 DEF Shape, Current
  <2> QED
    BY <2>5, <2>6, <2>7 DEF IInv, CallsAreCurrent
<1>4. CASE Write(h) /\ Account(h) /\ ~(Faults(h, "error") /\ UNCHANGED <<table, ghosts>>)
  <2>1. PICK result \in Results, fault \in BOOLEAN : call' = After(Answered(result, fault))
    BY <1>4 DEF Commit, Results
  <2>2. /\ Answered(result, fault) \in CallType
        /\ Answered(result, fault).step = "idle" /\ Answered(result, fault).stale = FALSE
    BY AnswerIsCall DEF Answered, Serving
  <2> HIDE DEF After
  <2> QED
    BY <1>3, <1>4, <2>1, <2>2
<1> QED
  BY <1>2, <1>4 DEF Commit

LEMMA FindKeeps == ASSUME IInv, NEW h \in Handlers, Find(h) PROVE IInv'
<1>1. /\ UNCHANGED <<accounts, profiles, table, ghosts>>
      /\ call[h].step = "find"
  BY DEF Find
<1>2. CASE \E result \in Results : Ends(h, result) \/ Faults(h, result)
  BY <1>1, <1>2, EndKeeps
<1>3. CASE Goes(h, "create")
  <2>1. "create" \in Steps
    BY DEF Steps
  <2>2. Statement(h, "create", call[h].ids)
    BY <1>3, <2>1, GoesOf
  <2>3. Shape(call'[h]) /\ Current(call'[h])
    BY <1>1, <2>2, CallOf DEF Shape, Current, Statement
  <2> QED
    BY <1>1, <2>1, <2>2, <2>3, StatementKeeps
<1> QED
  BY <1>2, <1>3 DEF Find, Results

(* A profile is created for an account only. *)
LEMMA CreateKeeps == ASSUME IInv, NEW h \in Handlers, Create(h) PROVE IInv'
<1> USE DEF table, ghosts
<1>1. /\ UNCHANGED <<accounts, table, ghosts>>
      /\ call[h].step = "create"
  BY DEF Create
<1>2. call[h].user \in accounts
  BY <1>1, CallOf DEF Shape
<1>3. profiles' \in {profiles, profiles \union {call[h].user}}
  BY DEF Create
<1>4. PICK result \in Results, fault \in BOOLEAN :
        call' = [call EXCEPT ![h] = Answered(result, fault)]
  BY DEF Create, Ends, Faults, Results
<1>5. call \in [Handlers -> CallType]
  BY DEF IInv, TableKeepsLedger, TypeOK, CallType
<1>6. Answered(result, fault) \in CallType
  BY AnswerIsCall
<1>7. call' \in [Handlers -> CallType] /\ call'[h] = Answered(result, fault)
      /\ \A g \in Handlers \ {h} : call'[g] = call[g]
  BY <1>4, <1>5, <1>6
<1>8. TypeOK'
  BY <1>1, <1>2, <1>3, <1>7 DEF IInv, TableKeepsLedger, TypeOK, CallType
<1>9. TableKeepsLedger'
  BY <1>1, <1>8 DEF IInv, TableKeepsLedger, Agrees
<1>10. ASSUME NEW g \in Handlers PROVE (Shape(call[g]) /\ Current(call[g]))'
  <2>1. Shape(call'[g]) /\ Current(call'[g])
    BY <1>7, CallOf, AnswerIsCall
  <2> QED
    BY <1>1, <2>1 DEF Shape, Current, FirstRow, AddsToRow
<1> QED
  BY <1>9, <1>10 DEF IInv, CallsAreCurrent

(* A crash forgets the calls; what they had not committed is not there. *)
LEMMA CrashKeeps == ASSUME IInv, Crash PROVE IInv'
<1> USE DEF table, ghosts
<1>1. /\ UNCHANGED <<accounts, profiles, table, ghosts>>
      /\ call' = [h \in Handlers |-> Answered("none", TRUE)]
  BY DEF Crash
<1>2. /\ Answered("none", TRUE) \in CallType
      /\ Shape(Answered("none", TRUE)) /\ Current(Answered("none", TRUE))
  BY AnswerIsCall DEF Results
<1>3. call' \in [Handlers -> CallType]
  BY <1>1, <1>2
<1>4. TypeOK'
  BY <1>1, <1>3 DEF IInv, TableKeepsLedger, TypeOK, CallType
<1>5. TableKeepsLedger'
  BY <1>1, <1>4 DEF IInv, TableKeepsLedger, Agrees
<1>6. ASSUME NEW g \in Handlers PROVE (Shape(call[g]) /\ Current(call[g]))'
  <2>1. Shape(call'[g]) /\ Current(call'[g])
    BY <1>1, <1>2
  <2> QED
    BY <1>1, <2>1 DEF Shape, Current, FirstRow, AddsToRow
<1> QED
  BY <1>5, <1>6 DEF IInv, CallsAreCurrent

(***************************************************************************)
(* Theorems                                                                *)
(***************************************************************************)

LEMMA StutterKeeps == IInv /\ UNCHANGED vars => IInv'
BY DEF vars, IInv, TableKeepsLedger, Agrees, TypeOK, CallsAreCurrent, Shape, Current,
       FirstRow, AddsToRow

LEMMA NextIInv == IInv /\ [Next]_vars => IInv'
<1> SUFFICES ASSUME IInv, [Next]_vars PROVE IInv'
  OBVIOUS
<1>1. CASE Crash
  BY <1>1, CrashKeeps
<1>2. ASSUME NEW h \in Handlers, Call(h) PROVE IInv'
  BY <1>2, CallKeeps
<1>3. ASSUME NEW h \in Handlers, Serve(h) PROVE IInv'
  BY <1>3, ReadKeeps, InsertKeeps, UpdateKeeps, UpsertKeeps, MatchKeeps,
     LockKeeps, CommitKeeps, FindKeeps, CreateKeeps DEF Serve
<1>4. CASE UNCHANGED vars
  BY <1>4, StutterKeeps
<1> QED
  BY <1>1, <1>2, <1>3, <1>4 DEF Next

(* The inductive invariant: the table agrees with the ledger, and every    *)
(* call that no commit passed with what it read (coins_service.go:35).     *)
THEOREM LedgerInvariance == Spec => []IInv
BY InitIInv, NextIInv, PTL DEF Spec

(* As long as the commits of a user's coin do not pass each other, its     *)
(* rows say what the committed calls add up to, off by no more than half   *)
(* of the last place for each change that the column rounded, for any      *)
(* number of handlers and users and any changes (coins_service.go:35-80,   *)
(* models.go:19).                                                          *)
THEOREM LedgerAlwaysKept == Spec => []TableKeepsLedger
<1>1. IInv => TableKeepsLedger
  BY DEF IInv
<1> QED
  BY <1>1, LedgerInvariance, PTL

(* A handler's step leaves the others' where they were: at most it makes   *)
(* their call stale.                                                       *)
LEMMA OthersStay ==
    ASSUME IInv, NEW g \in Handlers, NEW h \in Handlers \ {g}, Call(g) \/ Serve(g)
    PROVE  call'[h].step = call[h].step /\ call'[h].result = call[h].result
<1>1. call \in [Handlers -> CallType]
  BY DEF IInv, TableKeepsLedger, TypeOK, CallType
<1>2. CASE Call(g)
  BY <1>1, <1>2 DEF Call, ChangeOverHttp, ChangeOverGrpc, DeleteCoin, Register,
                    CreateUserProfile, WsConnect, Faults
<1>3. CASE Read(g)
  BY <1>1, <1>3 DEF Read, Ends, Faults
<1>4. CASE Insert(g) \/ Update(g) \/ Upsert(g)
  BY <1>1, <1>4 DEF Insert, Update, Upsert, Ends, Faults, Goes
<1>5. CASE Match(g) \/ Lock(g)
  BY <1>1, <1>5 DEF Match, Lock, Ends, Faults
<1>6. CASE Find(g) \/ Create(g)
  BY <1>1, <1>6 DEF Find, Create, Ends, Faults, Goes
<1>7. CASE Commit(g)
  <2>1. CASE Faults(g, "error")
    BY <1>1, <2>1 DEF Faults
  <2>2. CASE ~Faults(g, "error")
    <3>1. \/ call'[h] = call[h]
          \/ call'[h] = [call[h] EXCEPT !.stale = TRUE]
      BY <1>7, <2>2 DEF Commit
    <3>2. call[h] \in CallType
      BY <1>1
    <3> QED
      BY <3>1, <3>2 DEF CallType
  <2> QED
    BY <2>1, <2>2
<1> QED
  BY <1>2, <1>3, <1>4, <1>5, <1>6, <1>7 DEF Serve

(* A change is refused for want of funds only when the committed calls     *)
(* leave too little at the moment of the read, or less than the rounding   *)
(* of their sum may have taken, whatever the other handlers do             *)
(* (coins_service.go:44, 62).                                              *)
THEOREM RefusalIsRight == Spec => RefusedOnlyIfShort
<1> DEFINE Sum(u) == IF ledger[u] = Nil THEN 0 ELSE ledger[u]
           Wants(u, c) == \/ Sum(u) + c < 0
                          \/ 2 * (Sum(u) + c) < Unit * rounded[u]
           Refusal(h) ==
             LET u == call[h].user IN
             call[h].step = "read" /\ call'[h].result = "insufficient"
               /\ ~call'[h].fault /\ u \notin disturbed
             => Wants(u, call[h].change)
<1>1. IInv /\ [Next]_vars => [\A h \in Handlers : Refusal(h)]_vars
  <2> SUFFICES ASSUME IInv, Next, NEW h \in Handlers, call[h].step = "read",
                      call'[h].result = "insufficient", ~call'[h].fault,
                      call[h].user \notin disturbed
               PROVE  Wants(call[h].user, call[h].change)
    OBVIOUS
  <2> DEFINE u == call[h].user
             c == call[h].change
  <2>1. call \in [Handlers -> CallType]
    BY DEF IInv, TableKeepsLedger, TypeOK, CallType
  <2>2. u \in Users /\ call[h].result = "none" /\ c \in Changes \union {0}
    BY CallOf DEF Shape, CallType
  <2>3. c \in Int
    BY <2>2, ChangesAreInts
  <2>4. Agrees(u)
    BY <2>2 DEF IInv, TableKeepsLedger
  <2>5. ~Crash
    BY DEF Crash, Answered, Serving
  <2>6. ~Call(h)
    BY DEF Call, ChangeOverHttp, ChangeOverGrpc, DeleteCoin, Register,
           CreateUserProfile, WsConnect, Idle
  <2>7. \A g \in Handlers \ {h} : ~(Call(g) \/ Serve(g))
    BY <2>2, OthersStay
  <2>8. Read(h)
    BY <2>5, <2>6, <2>7
       DEF Next, Serve, Insert, Update, Upsert, Match, Lock, Commit, Find, Create
  <2>9. CASE RowsOf(u) = {} /\ c < 0
    BY <2>2, <2>3, <2>4, <2>9 DEF RowsOf, Agrees
  <2>10. CASE \E r \in Lowest(RowsOf(u)) : Short(quantity[u][r] + c)
    <3>1. PICK r \in RowIds :
            /\ live[u] = {r} /\ ledger[u] # Nil /\ quantity[u][r] + c < 0
            /\ 2 * (ledger[u] - quantity[u][r]) <= Unit * rounded[u]
      BY <2>4, <2>10 DEF RowsOf, Lowest, Short, Agrees
    <3>2. quantity[u][r] \in 0..MaxQuantity /\ ledger[u] \in Int
          /\ rounded[u] \in 0..MaxRounded
      BY <2>2, <3>1 DEF IInv, TableKeepsLedger, TypeOK
    <3>3. quantity[u][r] \in Int /\ rounded[u] \in Nat
      BY <3>2, LedgerAssumption
    <3>4. Unit * rounded[u] \in Nat
      BY <3>3, OneMoreRounding
    <3>5. 2 * (ledger[u] + c) < Unit * rounded[u]
      BY <2>3, <3>1, <3>2, <3>3, <3>4
    <3> QED
      BY <3>1, <3>5
  <2>11. ~\E result \in Results : Faults(h, result)
    BY <2>1 DEF Faults, Answered, Serving
  <2>12. \A step \in Steps, ids \in SUBSET RowIds, value \in Int :
           /\ call' # [call EXCEPT ![h].step = step, ![h].value = value]
           /\ call' # [call EXCEPT ![h].step = step, ![h].ids = ids, ![h].value = value]
    BY <2>1, <2>2 DEF CallType
  <2>13. \A r \in Lowest(RowsOf(u)) : quantity[u][r] + c \in Int /\ {r} \in SUBSET RowIds
    <3>1. /\ live[u] \in SUBSET RowIds
          /\ \A r \in RowIds : quantity[u][r] \in 0..MaxQuantity
      BY <2>2 DEF IInv, TableKeepsLedger, TypeOK
    <3>2. \A r \in RowIds : quantity[u][r] \in Int
      BY <3>1, LedgerAssumption
    <3> QED
      BY <2>3, <3>1, <3>2 DEF Lowest, RowsOf
  <2> QED
    BY <2>3, <2>8, <2>9, <2>10, <2>11, <2>12, <2>13 DEF Read, Results, Steps
<1>2. [][\A h \in Handlers : Refusal(h)]_vars => RefusedOnlyIfShort
  BY DEF RefusedOnlyIfShort
<1> QED
  BY <1>1, <1>2, LedgerInvariance, PTL DEF Spec

(* A call that should leave its user with a profile does, whatever the     *)
(* other handlers do and however often Profile crashed before              *)
(* (handler.go:104, 141).                                                  *)
THEOREM ProfileRepair == Spec => ProfileIsRepaired
<1> DEFINE Repair(h) ==
      call[h].step \in {"find", "create"} /\ call'[h].step = "idle" /\ ~call'[h].fault
      => call[h].user \in profiles'
<1>1. IInv /\ [Next]_vars => [\A h \in Handlers : Repair(h)]_vars
  <2> SUFFICES ASSUME IInv, Next, NEW h \in Handlers,
                      call[h].step \in {"find", "create"},
                      call'[h].step = "idle", ~call'[h].fault
               PROVE  call[h].user \in profiles'
    OBVIOUS
  <2>1. call \in [Handlers -> CallType]
    BY DEF IInv, TableKeepsLedger, TypeOK, CallType
  <2>2. ~Crash
    BY DEF Crash, Answered, Serving
  <2>3. ~Call(h)
    BY DEF Call, ChangeOverHttp, ChangeOverGrpc, DeleteCoin, Register,
           CreateUserProfile, WsConnect, Idle
  <2>4. \A g \in Handlers \ {h} : ~(Call(g) \/ Serve(g))
    BY OthersStay
  <2>5. Find(h) \/ Create(h)
    BY <2>2, <2>3, <2>4
       DEF Next, Serve, Read, Insert, Update, Upsert, Match, Lock, Commit
  <2>6. ~\E result \in Results : Faults(h, result)
    BY <2>1 DEF Faults, Answered, Serving
  <2>7. ~Goes(h, "create")
    BY <2>1 DEF Goes, CallType
  <2>8. CASE Find(h)
    BY <2>6, <2>7, <2>8 DEF Find, Results
  <2>9. CASE Create(h)
    BY <2>6, <2>9 DEF Create, Results
  <2> QED
    BY <2>5, <2>8, <2>9
<1>2. [][\A h \in Handlers : Repair(h)]_vars => ProfileIsRepaired
  BY DEF ProfileIsRepaired
<1> QED
  BY <1>1, <1>2, LedgerInvariance, PTL DEF Spec

=============================================================================
