---------------------------- MODULE CoinLedger ----------------------------
(***************************************************************************)
(* The coins and profiles of Profile's PostgreSQL database: the handlers   *)
(* of the HTTP API and of the gRPC server that change them, statement by   *)
(* statement, on a READ COMMITTED database.                                *)
(*                                                                         *)
(* The coins table has no unique index on user and symbol, the quantity is *)
(* read without a lock, deletion is soft (gorm.Model), and gorm's Save     *)
(* inserts over a row its UPDATE no longer finds.  Rows of different       *)
(* symbols share nothing, so one symbol stands for all of them.  A row's   *)
(* id is known by its order only: an id that was rolled back is used again *)
(* here.                                                                   *)
(*                                                                         *)
(* A request carries any decimal, the column is a decimal(20,8): quantities *)
(* are counted in a unit so fine that every change is a whole number of    *)
(* them, and Unit of them make one in the eighth decimal place.            *)
(***************************************************************************)
EXTENDS Integers

CONSTANTS Handlers,     \* goroutines that serve requests
          Users,        \* user ids a request may carry
          Changes,      \* quantity changes a request may carry
          Unit,         \* the eighth decimal place
          MaxQuantity,  \* the largest quantity of decimal(20,8)
          MaxRows,      \* bound: rows a user's coin ever has
          MaxRounded,   \* bound: changes of a coin that were rounded
          Nil           \* no coin

ASSUME LedgerAssumption ==
  /\ Changes \subseteq Int
  /\ Unit \in Nat \ {0}
  /\ MaxQuantity \in Nat
  /\ MaxRows \in Nat
  /\ MaxRounded \in Nat
  /\ Nil \notin Int

VARIABLES accounts,   \* users that Authorization has registered
          profiles,   \* users with a row in users
          live,       \* per user, ids of the coin's rows that are not deleted
          deleted,    \* per user, ids of its soft-deleted rows
          quantity,   \* per user and row id, the committed quantity
          call,       \* per handler, the request it serves
          ledger,     \* ghost: per user, what the committed calls add up to
          rounded,    \* ghost: how many of these the table rounded
          disturbed   \* ghost: users with a commit that another one passed

table == <<live, deleted, quantity>>
ghosts == <<ledger, rounded, disturbed>>
vars == <<accounts, profiles, live, deleted, quantity, call, ledger, rounded, disturbed>>

RowIds == 1..MaxRows
Steps == {"idle", "read", "insert", "update", "upsert", "match", "lock",
          "commit", "find", "create"}
Ops == {"change", "delete", "register", "connect", "profile"}
Results == {"none", "ok", "insufficient", "notFound", "error"}

\* The record of a handler: ids and value are the rows it writes and the
\* quantity it writes to them; stale (ghost) tells that another call of the
\* user committed since this one read; fault that the database failed it.
Serving(step, op, u, c) ==
  [step |-> step, op |-> op, user |-> u, change |-> c, ids |-> {}, value |-> 0,
   stale |-> FALSE, fault |-> FALSE, result |-> "none"]
Answered(result, fault) ==
  [Serving("idle", "profile", Nil, 0) EXCEPT !.result = result, !.fault = fault]

Idle(h) == call[h].step = "idle"
Goes(h, step) == call' = [call EXCEPT ![h].step = step]
Ends(h, result) == call' = [call EXCEPT ![h] = Answered(result, FALSE)]
Faults(h, result) == call' = [call EXCEPT ![h] = Answered(result, TRUE)]

Init ==
  /\ accounts = {} /\ profiles = {}
  /\ live = [u \in Users |-> {}]
  /\ deleted = [u \in Users |-> {}]
  /\ quantity = [u \in Users |-> [r \in RowIds |-> 0]]
  /\ call = [h \in Handlers |-> Answered("none", FALSE)]
  /\ ledger = [u \in Users |-> Nil]
  /\ rounded = [u \in Users |-> 0]
  /\ disturbed = {}

(***************************************************************************)
(* UpdateCoinQuantity                                                      *)
(***************************************************************************)

\* updateCoinQuantity of the HTTP API: a user whose token was checked, and any
\* quantity that parses, zero too.
ChangeOverHttp(h, u, c) ==
  /\ Idle(h) /\ u \in accounts
  /\ call' = [call EXCEPT ![h] = Serving("read", "change", u, c)]
  /\ UNCHANGED <<accounts, profiles, table, ghosts>>

\* UpdateCoinQuantity of the gRPC server: any user id, and no zero.
ChangeOverGrpc(h, u, c) ==
  /\ Idle(h) /\ c # 0
  /\ call' = [call EXCEPT ![h] = Serving("read", "change", u, c)]
  /\ UNCHANGED <<accounts, profiles, table, ghosts>>

(* Mutant: First without the soft-delete condition. *)
RowsOfAll(u) == live[u] \union deleted[u]

\* The rows First looks among: gorm leaves the soft-deleted ones out.  It takes
\* the one with the lowest id.
RowsOf(u) == live[u]
Lowest(S) == {r \in S : \A s \in S : r <= s}

\* What the column keeps of a quantity, which is not negative here: PostgreSQL
\* rounds it to the nearest in the eighth place, halfway up.
Round(q) ==
  LET rest == q % Unit IN
  IF 2 * rest < Unit THEN q - rest ELSE q - rest + Unit

\* What is out of the column's range once it is rounded, PostgreSQL refuses.
Overflows(q) == Round(q) > MaxQuantity

(* Mutant: the test of the new quantity refuses zero too. *)
ShortAtZero(q) == q <= 0

\* A quantity below zero is refused.
Short(q) == q < 0

\* The transaction reads the coin.  Every error of the read, a failed
\* statement too, refuses a negative change as insufficient funds.
Read(h) ==
  LET u == call[h].user  c == call[h].change IN
  /\ call[h].step = "read"
  /\ \/ Faults(h, IF c < 0 THEN "insufficient" ELSE "error")
     \/ /\ RowsOf(u) = {} /\ c < 0
        /\ Ends(h, "insufficient")
     \/ /\ RowsOf(u) = {} /\ c >= 0
        /\ call' = [call EXCEPT ![h].step = "insert", ![h].value = c]
     \/ \E r \in Lowest(RowsOf(u)) :
          \/ Short(quantity[u][r] + c) /\ Ends(h, "insufficient")
          \/ /\ ~Short(quantity[u][r] + c)
             /\ call' = [call EXCEPT ![h].step = "update", ![h].ids = {r},
                                     ![h].value = quantity[u][r] + c]
  /\ UNCHANGED <<accounts, profiles, table, ghosts>>

\* Ids another transaction holds: rows it wrote and has not committed.
Held(h, u) ==
  UNION {call[g].ids : g \in {g \in Handlers \ {h} :
                                call[g].step = "commit" /\ call[g].user = u}}
Taken(h, u) == live[u] \union deleted[u] \union Held(h, u)

\* AddCoin: the foreign key wants a profile, the column a quantity in range.
Insert(h) ==
  LET u == call[h].user  next == {r \in RowIds : \A t \in Taken(h, u) : t < r} IN
  /\ call[h].step = "insert"
  /\ \/ u \notin profiles /\ Ends(h, "error")
     \/ Overflows(call[h].value) /\ Ends(h, "error")
     \/ Faults(h, "error")
     \/ /\ u \in profiles /\ ~Overflows(call[h].value)
        /\ \E r \in Lowest(next) :
             call' = [call EXCEPT ![h].step = "commit", ![h].ids = {r}]
  /\ UNCHANGED <<accounts, profiles, table, ghosts>>

\* UpdateCoin: Save's UPDATE waits for the row's lock and finds the row unless
\* it was deleted meanwhile.
Update(h) ==
  LET u == call[h].user IN
  /\ call[h].step = "update"
  /\ call[h].ids \intersect Held(h, u) = {}
  /\ \/ Faults(h, "error")
     \/ /\ call[h].ids \subseteq live[u]
        /\ IF Overflows(call[h].value) THEN Ends(h, "error") ELSE Goes(h, "commit")
     \/ ~(call[h].ids \subseteq live[u]) /\ Goes(h, "upsert")
  /\ UNCHANGED <<accounts, profiles, table, ghosts>>

\* Save of a row it did not find: INSERT ... ON CONFLICT DO UPDATE of every
\* column, deleted_at with them.
Upsert(h) ==
  /\ call[h].step = "upsert"
  /\ call[h].ids \intersect Held(h, call[h].user) = {}
  /\ \/ Faults(h, "error")
     \/ Overflows(call[h].value) /\ Ends(h, "error")
     \/ ~Overflows(call[h].value) /\ Goes(h, "commit")
  /\ UNCHANGED <<accounts, profiles, table, ghosts>>

(***************************************************************************)
(* DeleteCoin                                                              *)
(***************************************************************************)

\* deleteCoin of the HTTP API, DeleteCoin of the gRPC server.
DeleteCoin(h, u) ==
  /\ Idle(h)
  /\ call' = [call EXCEPT ![h] = Serving("match", "delete", u, 0)]
  /\ UNCHANGED <<accounts, profiles, table, ghosts>>

\* The statement's snapshot: the rows it will delete.
Match(h) ==
  /\ call[h].step = "match"
  /\ \/ Faults(h, "error")
     \/ call' = [call EXCEPT ![h].step = "lock", ![h].ids = live[call[h].user]]
  /\ UNCHANGED <<accounts, profiles, table, ghosts>>

\* It waits for the rows' locks and deletes those that are still there.
Lock(h) ==
  LET u == call[h].user  left == call[h].ids \intersect live[u] IN
  /\ call[h].step = "lock"
  /\ call[h].ids \intersect Held(h, u) = {}
  /\ \/ Faults(h, "error")
     \/ left = {} /\ Ends(h, "notFound")
     \/ left # {} /\ call' = [call EXCEPT ![h].step = "commit", ![h].ids = left]
  /\ UNCHANGED <<accounts, profiles, table, ghosts>>

(***************************************************************************)
(* Commits of both                                                         *)
(***************************************************************************)

Write(h) ==
  LET u == call[h].user  ids == call[h].ids IN
  IF call[h].op = "delete"
  THEN /\ live' = [live EXCEPT ![u] = @ \ ids]
       /\ deleted' = [deleted EXCEPT ![u] = @ \union ids]
       /\ UNCHANGED quantity
  ELSE /\ live' = [live EXCEPT ![u] = @ \union ids]
       /\ deleted' = [deleted EXCEPT ![u] = @ \ ids]
       /\ quantity' = [quantity EXCEPT ![u] =
                         [r \in RowIds |-> IF r \in ids THEN Round(call[h].value) ELSE @[r]]]

\* Ghosts: the ledger adds up the committed changes since the coin was last
\* deleted, exactly, and rounded counts those of them that made a quantity which
\* the column does not keep as it is.  A commit that another commit of the user
\* passed since it read disturbs the coin, until a deletion that none passed.
Account(h) ==
  LET u == call[h].user
      clear == call[h].stale \/ (u \in disturbed /\ call[h].op # "delete")
      none == clear \/ call[h].op = "delete"
      old == IF ledger[u] = Nil THEN 0 ELSE ledger[u]
      exact == Round(call[h].value) = call[h].value IN
  /\ disturbed' = IF clear THEN disturbed \union {u} ELSE disturbed \ {u}
  /\ ledger' = [ledger EXCEPT ![u] = IF none THEN Nil ELSE old + call[h].change]
  /\ rounded' = [rounded EXCEPT ![u] = IF none THEN 0 ELSE IF exact THEN @ ELSE @ + 1]
  /\ rounded'[u] <= MaxRounded

PastRead == {"insert", "update", "upsert", "lock", "commit"}

\* The transaction ends: committed and answered, rolled back, or committed with
\* the answer lost.
Commit(h) ==
  LET u == call[h].user
      Passed(g) == /\ g # h /\ call[g].user = u /\ call[g].step \in PastRead
      After(a) == [g \in Handlers |->
                     IF g = h THEN a
                     ELSE IF Passed(g) THEN [call[g] EXCEPT !.stale = TRUE]
                     ELSE call[g]] IN
  /\ call[h].step = "commit"
  /\ \/ /\ Write(h) /\ Account(h)
        /\ \/ call' = After(Answered("ok", FALSE))
           \/ call' = After(Answered("error", TRUE))
     \/ /\ Faults(h, "error")
        /\ UNCHANGED <<table, ghosts>>
  /\ UNCHANGED <<accounts, profiles>>

(***************************************************************************)
(* Profiles                                                                *)
(***************************************************************************)

\* register: Authorization creates the account, then the profile is created.
\* The answer of Authorization may be lost.
Register(h, u) ==
  /\ Idle(h) /\ u \notin accounts
  /\ accounts' = accounts \union {u}
  /\ \/ call' = [call EXCEPT ![h] = Serving("create", "register", u, 0)]
     \/ Faults(h, "error")
  /\ UNCHANGED <<profiles, table, ghosts>>

\* createUserProfile of the HTTP API.
CreateUserProfile(h, u) ==
  /\ Idle(h) /\ u \in accounts
  /\ call' = [call EXCEPT ![h] = Serving("create", "profile", u, 0)]
  /\ UNCHANGED <<accounts, profiles, table, ghosts>>

\* wsConnect, up to the upgrade of the connection, which WsManager continues.
WsConnect(h, u) ==
  /\ Idle(h) /\ u \in accounts
  /\ call' = [call EXCEPT ![h] = Serving("find", "connect", u, 0)]
  /\ UNCHANGED <<accounts, profiles, table, ghosts>>

(* Mutant: wsConnect refuses a user without a profile instead of creating it. *)
FindOrRefuse(h) ==
  /\ call[h].step = "find"
  /\ \/ Faults(h, "error")
     \/ call[h].user \in profiles /\ Ends(h, "ok")
     \/ call[h].user \notin profiles /\ Ends(h, "error")
  /\ UNCHANGED <<accounts, profiles, table, ghosts>>

\* GetUserProfile: a connecting user without a profile gets one.
Find(h) ==
  /\ call[h].step = "find"
  /\ \/ Faults(h, "error")
     \/ call[h].user \in profiles /\ Ends(h, "ok")
     \/ call[h].user \notin profiles /\ Goes(h, "create")
  /\ UNCHANGED <<accounts, profiles, table, ghosts>>

\* CreateUserProfile of the repository.  register answers 201 whatever comes of
\* it; the other two answer 500 for a profile that exists, since PostgreSQL's
\* text for a duplicate key is not recognised.
Create(h) ==
  LET u == call[h].user
      refused == IF call[h].op = "register" THEN "ok" ELSE "error" IN
  /\ call[h].step = "create"
  /\ \/ u \in profiles /\ Ends(h, refused) /\ UNCHANGED profiles
     \/ u \notin profiles /\ Ends(h, "ok") /\ profiles' = profiles \union {u}
     \/ Faults(h, refused) /\ profiles' \in {profiles, profiles \union {u}}
  /\ UNCHANGED <<accounts, table, ghosts>>

\* Profile is killed: its transactions are rolled back, its calls unanswered.
Crash ==
  /\ \E h \in Handlers : ~Idle(h)
  /\ call' = [h \in Handlers |-> Answered("none", TRUE)]
  /\ UNCHANGED <<accounts, profiles, table, ghosts>>

Call(h) ==
  \E u \in Users :
    \/ \E c \in Changes : ChangeOverHttp(h, u, c) \/ ChangeOverGrpc(h, u, c)
    \/ DeleteCoin(h, u)
    \/ Register(h, u) \/ CreateUserProfile(h, u) \/ WsConnect(h, u)
Serve(h) ==
  \/ Read(h) \/ Insert(h) \/ Update(h) \/ Upsert(h)
  \/ Match(h) \/ Lock(h) \/ Commit(h)
  \/ Find(h) \/ Create(h)

Next == Crash \/ \E h \in Handlers : Call(h) \/ Serve(h)

Spec == Init /\ [][Next]_vars

(***************************************************************************)
(* Properties                                                              *)
(***************************************************************************)

TypeOK ==
  /\ accounts \subseteq Users /\ profiles \subseteq accounts
  /\ live \in [Users -> SUBSET RowIds] /\ deleted \in [Users -> SUBSET RowIds]
  /\ quantity \in [Users -> [RowIds -> 0..MaxQuantity]]
  /\ call \in [Handlers -> [step : Steps, op : Ops, user : Users \union {Nil},
                            change : Changes \union {0}, ids : SUBSET RowIds,
                            value : Nat, stale : BOOLEAN, fault : BOOLEAN,
                            result : Results]]
  /\ ledger \in [Users -> Int \union {Nil}] /\ rounded \in [Users -> 0..MaxRounded]
  /\ disturbed \subseteq Users

\* The rows of a coin and the ledger say the same, up to half of the last place
\* for each change that was rounded.
Agrees(u) ==
  IF ledger[u] = Nil THEN live[u] = {}
  ELSE \E r \in RowIds :
         /\ live[u] = {r}
         /\ 2 * (quantity[u][r] - ledger[u]) <= Unit * rounded[u]
         /\ 2 * (ledger[u] - quantity[u][r]) <= Unit * rounded[u]

\* As long as no committed change or deletion of a coin was passed by another
\* one between its read and its commit, the table says what the committed calls
\* add up to: no row before the first change and after a deletion, one row with
\* the sum otherwise, off by no more than half of the last place for each change
\* that was rounded; calls that were refused, that failed or that a crash cut
\* short count for nothing, however they were interleaved (coins_service.go:35).
TableKeepsLedger == TypeOK /\ \A u \in Users \ disturbed : Agrees(u)

\* A change is refused for want of funds only when the committed calls leave too
\* little at the moment the coin is read, or less than the rounding of their sum
\* may have taken; unless the coin was disturbed or the database failed: a slower
\* call cannot make a covered one fail (coins_service.go:44, 62).
RefusedOnlyIfShort ==
  [][\A h \in Handlers :
       LET u == call[h].user
           sum == IF ledger[u] = Nil THEN 0 ELSE ledger[u] IN
       call[h].step = "read" /\ call'[h].result = "insufficient"
         /\ ~call'[h].fault /\ u \notin disturbed
       => \/ sum + call[h].change < 0
          \/ 2 * (sum + call[h].change) < Unit * rounded[u]]_vars

\* A call that should leave its user with a profile does, unless the database
\* failed it: wsConnect repairs what a failed registration left behind, and of
\* two calls that create the profile at once the refused one finds it made
\* (handler.go:104, 141).
ProfileIsRepaired ==
  [][\A h \in Handlers :
       call[h].step \in {"find", "create"} /\ call'[h].step = "idle" /\ ~call'[h].fault
       => call[h].user \in profiles']_vars

=============================================================================
