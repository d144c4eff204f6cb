----------------------------- MODULE AuthSessions -----------------------------
(***************************************************************************)
(* The Authorization service: accounts and refresh-token sessions in       *)
(* PostgreSQL (internal/api/service, internal/api/repository), served by   *)
(* concurrent gRPC handlers (internal/grpc/auth/server.go) beside a        *)
(* goroutine that deletes expired sessions (internal/app/app.go).          *)
(*                                                                         *)
(* One action is one SQL statement, or the last statement of a transaction *)
(* and its COMMIT.  PostgreSQL runs at READ COMMITTED: a statement sees    *)
(* the rows committed when it starts, and a DELETE waits for a row that    *)
(* an open transaction has deleted, then looks again.                      *)
(***************************************************************************)
EXTENDS Naturals, FiniteSets

CONSTANTS Handlers,    \* goroutines serving gRPC calls
          Names,       \* user names
          TokenLimit,  \* refresh tokens ever generated
          None         \* no handler, no name, no token

ASSUME AuthAssumption ==
    /\ TokenLimit \in Nat \ {0}
    /\ None \notin Handlers /\ None \notin Names /\ None \notin 0..TokenLimit

VARIABLES accounts,  \* how many rows of users each name has
          sessions,  \* tokens with a committed row in sessions
          expired,   \* tokens whose expires_at has passed
          lock,      \* the handler whose open transaction deleted a token's row
          call,      \* what each handler is doing
          issued,    \* how many tokens were generated
          login,     \* history: the token of the login a token descends from
          parent,    \* history: the token a token was exchanged for
          ended,     \* history: logins of which Logout or the cleanup took the session
          loggedOut  \* history: tokens of which Logout answered that it succeeded

vars == <<accounts, sessions, expired, lock, call, issued, login, parent, ended,
          loggedOut>>
history == <<login, parent, ended, loggedOut>>

Tokens == 1..TokenLimit

Idle == [at |-> "idle", name |-> None, token |-> None]

Steps == {"idle", "register: find", "register: create", "login: find", "login: store",
          "refresh: read", "refresh: delete", "refresh: store", "logout: delete"}

TypeOK ==
    /\ accounts \in [Names -> 0..1]
    /\ sessions \subseteq Tokens /\ expired \subseteq Tokens /\ ended \subseteq Tokens
    /\ loggedOut \subseteq Tokens
    /\ lock \in [Tokens -> Handlers \cup {None}]
    /\ call \in [Handlers -> [at : Steps, name : Names \cup {None}, token : Tokens \cup {None}]]
    /\ issued \in 0..TokenLimit
    /\ login \in [Tokens -> Tokens \cup {None}]
    /\ parent \in [Tokens -> Tokens \cup {None}]

Init ==
    /\ accounts = [n \in Names |-> 0]
    /\ sessions = {} /\ expired = {} /\ ended = {} /\ loggedOut = {}
    /\ lock = [t \in Tokens |-> None]
    /\ call = [h \in Handlers |-> Idle]
    /\ issued = 0
    /\ login = [t \in Tokens |-> None]
    /\ parent = [t \in Tokens |-> None]

Goto(h, step) == call' = [call EXCEPT ![h].at = step]
Answer(h) == call' = [call EXCEPT ![h] = Idle]

(* A client sends any token it was ever given, also one it already used. *)
Begin(h, step, name, token) ==
    /\ call[h] = Idle
    /\ call' = [call EXCEPT ![h] = [at |-> step, name |-> name, token |-> token]]
    /\ UNCHANGED <<accounts, sessions, expired, lock, issued, history>>

-----------------------------------------------------------------------------
(* Register and Login.                                                     *)

(* GetUserByName: a name that is taken is refused. *)
FindForRegister(h) ==
    /\ call[h].at = "register: find"
    /\ IF accounts[call[h].name] > 0 THEN Answer(h) ELSE Goto(h, "register: create")
    /\ UNCHANGED <<accounts, sessions, expired, lock, issued, history>>

(* CreateUser: the unique index refuses a name taken in the meantime. *)
CreateUser(h) ==
    /\ call[h].at = "register: create"
    /\ accounts' = [accounts EXCEPT ![call[h].name] = 1]
    /\ Answer(h)
    /\ UNCHANGED <<sessions, expired, lock, issued, history>>

(* LoginUser: no such user, or a wrong password, is refused. *)
FindForLogin(h) ==
    /\ call[h].at = "login: find"
    /\ Answer(h) \/ (accounts[call[h].name] > 0 /\ Goto(h, "login: store"))
    /\ UNCHANGED <<accounts, sessions, expired, lock, issued, history>>

(* The next random token; tokens never collide. *)
Generate == issued < TokenLimit /\ issued' = issued + 1

(* GenerateTokens: the session is stored and the tokens are returned. *)
StoreForLogin(h) ==
    /\ call[h].at = "login: store"
    /\ Generate
    /\ sessions' = sessions \cup {issued'}
    /\ login' = [login EXCEPT ![issued'] = issued']
    /\ Answer(h)
    /\ UNCHANGED <<accounts, expired, lock, parent, ended, loggedOut>>

-----------------------------------------------------------------------------
(* RefreshToken: one transaction.                                          *)

(* GetByRefreshTokenHash, the check of expires_at and GetUserByID; users    *)
(* are never deleted.                                                       *)
ReadSession(h) ==
    /\ call[h].at = "refresh: read"
    /\ IF call[h].token \in sessions \ expired THEN Goto(h, "refresh: delete") ELSE Answer(h)
    /\ UNCHANGED <<accounts, sessions, expired, lock, issued, history>>

DeleteOldUncounted(h) ==                         \* mutant: RowsAffected is not looked at
    /\ call[h].at = "refresh: delete"
    /\ lock[call[h].token] = None
    /\ Goto(h, "refresh: store")
    /\ lock' = IF call[h].token \in sessions THEN [lock EXCEPT ![call[h].token] = h] ELSE lock
    /\ UNCHANGED <<accounts, sessions, expired, issued, history>>

DeleteOldOutside(h) ==                           \* mutant: tokenRepo instead of txTokenRepo
    /\ call[h].at = "refresh: delete"
    /\ lock[call[h].token] = None
    /\ IF call[h].token \in sessions THEN Goto(h, "refresh: store") ELSE Answer(h)
    /\ sessions' = sessions \ {call[h].token}
    /\ UNCHANGED <<accounts, expired, lock, issued, history>>

(* DeleteByRefreshTokenHash: the row is deleted, and locked until the end of *)
(* the transaction; without a row the transaction is rolled back.            *)
DeleteOld(h) ==
    /\ call[h].at = "refresh: delete"
    /\ lock[call[h].token] = None
    /\ IF call[h].token \in sessions
       THEN /\ lock' = [lock EXCEPT ![call[h].token] = h]
            /\ Goto(h, "refresh: store")
       ELSE /\ Answer(h)
            /\ UNCHANGED lock
    /\ UNCHANGED <<accounts, sessions, expired, issued, history>>

UnlockedNever(h) == lock                         \* mutant: the row stays locked

Unlocked(h) == [t \in Tokens |-> IF lock[t] = h THEN None ELSE lock[t]]

(* generateTokenInTx stores the new session, and COMMIT makes both visible. *)
StoreNew(h) ==
    /\ call[h].at = "refresh: store"
    /\ Generate
    /\ sessions' = (sessions \ {call[h].token}) \cup {issued'}
    /\ login' = [login EXCEPT ![issued'] = login[call[h].token]]
    /\ parent' = [parent EXCEPT ![issued'] = call[h].token]
    /\ lock' = Unlocked(h)
    /\ Answer(h)
    /\ UNCHANGED <<accounts, expired, ended, loggedOut>>

-----------------------------------------------------------------------------
(* Logout, expiry, failures.                                               *)

DeleteForLogoutAtOnce(h) ==                      \* mutant: does not wait for the row
    /\ call[h].at = "logout: delete"
    /\ IF lock[call[h].token] = None
       THEN /\ sessions' = sessions \ {call[h].token}
            /\ ended' = IF call[h].token \in sessions THEN ended \cup {login[call[h].token]}
                                                      ELSE ended
       ELSE UNCHANGED <<sessions, ended>>
    /\ loggedOut' = loggedOut \cup {call[h].token}
    /\ Answer(h)
    /\ UNCHANGED <<accounts, expired, lock, issued, login, parent>>

(* DeleteByRefreshTokenHash; that no row was there is no error for Logout. *)
DeleteForLogout(h) ==
    /\ call[h].at = "logout: delete"
    /\ lock[call[h].token] = None
    /\ sessions' = sessions \ {call[h].token}
    /\ ended' = IF call[h].token \in sessions THEN ended \cup {login[call[h].token]} ELSE ended
    /\ loggedOut' = loggedOut \cup {call[h].token}
    /\ Answer(h)
    /\ UNCHANGED <<accounts, expired, lock, issued, login, parent>>

Expire(t) ==
    /\ t \in sessions \ expired
    /\ expired' = expired \cup {t}
    /\ UNCHANGED <<accounts, sessions, lock, call, issued, history>>

(* runTokenCleanup, DeleteExpiredToken: one DELETE, which waits while a row *)
(* it is to delete is locked.                                               *)
CleanUp ==
    LET rows == sessions \cap expired
    IN  /\ rows # {}
        /\ \A t \in rows : lock[t] = None
        /\ sessions' = sessions \ rows
        /\ ended' = ended \cup {login[t] : t \in rows}
        /\ UNCHANGED <<accounts, expired, lock, call, issued, login, parent, loggedOut>>

(* A statement, signing or the random source fails, or the connection of    *)
(* the handler breaks: its transaction is rolled back, the error answered.  *)
Fail(h) ==
    /\ call[h] # Idle
    /\ lock' = Unlocked(h)
    /\ Answer(h)
    /\ UNCHANGED <<accounts, sessions, expired, issued, history>>

(* The service dies and starts again; PostgreSQL rolls back what was open. *)
Crash ==
    /\ call' = [h \in Handlers |-> Idle]
    /\ lock' = [t \in Tokens |-> None]
    /\ UNCHANGED <<accounts, sessions, expired, issued, history>>

Call(h) ==
    \/ \E n \in Names : Begin(h, "register: find", n, None) \/ Begin(h, "login: find", n, None)
    \/ \E t \in 1..issued : Begin(h, "refresh: read", None, t) \/ Begin(h, "logout: delete", None, t)

Serve(h) ==
    \/ FindForRegister(h) \/ CreateUser(h)
    \/ FindForLogin(h) \/ StoreForLogin(h)
    \/ ReadSession(h) \/ DeleteOld(h) \/ StoreNew(h)
    \/ DeleteForLogout(h)

Next ==
    \/ \E h \in Handlers : Call(h) \/ Serve(h) \/ Fail(h)
    \/ \E t \in Tokens : Expire(t)
    \/ CleanUp \/ Crash

(* The bound TokenLimit, not the code, stops a handler that is to store a  *)
(* token: it answers with an error.                                        *)
OutOfTokens(h) == /\ issued = TokenLimit
                  /\ call[h].at \in {"login: store", "refresh: store"}
                  /\ Fail(h)

(* Handlers run, and PostgreSQL lets those that wait for a row have it in   *)
(* turn, so one that can delete again and again does.                       *)
Fairness == \A h \in Handlers : SF_vars(Serve(h)) /\ WF_vars(OutOfTokens(h))

Spec == Init /\ [][Next]_vars /\ Fairness

-----------------------------------------------------------------------------
(* Properties.                                                             *)

(* A refresh token is exchanged at most once, also when the same token is  *)
(* sent to several handlers at the same time: the second DELETE finds no   *)
(* row, and DeleteByRefreshTokenHash makes that an error.                  *)
ExchangedOnce ==
    \A t, u \in Tokens : parent[t] = parent[u] /\ parent[t] # None => t = u

(* Every login has exactly one session, however its token was rotated,      *)
(* until Logout or the cleanup takes that one away, and none from then on:  *)
(* a refresh that fails half way loses nothing, and none brings it back.    *)
OneSessionPerLogin ==
    TypeOK /\ \A l \in Tokens : login[l] = l =>
        Cardinality({t \in sessions : login[t] = l}) = IF l \in ended THEN 0 ELSE 1

(* Once Logout of a token has answered that it succeeded, the token is not  *)
(* exchanged any more, not even by a refresh that had already begun: Logout *)
(* waits for the row such a refresh has deleted.                            *)
LoggedOutIsSpent ==
    [][\A t \in Tokens : parent'[t] # parent[t] => parent'[t] \notin loggedOut]_vars

(* Every call is answered: a transaction gives its row free however it      *)
(* ends, and no two wait for each other's rows.                             *)
CallsAreAnswered == \A h \in Handlers : call[h] # Idle ~> call[h] = Idle
=============================================================================
