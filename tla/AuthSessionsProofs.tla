-------------------------- MODULE AuthSessionsProofs ---------------------------
(***************************************************************************)
(* What holds of AuthSessions for every number of handlers, names and      *)
(* tokens.  A refresh that is to store its new session still has the row   *)
(* of the old one, locked (Locks); a token that was exchanged or logged    *)
(* out has no row (Spent), so no other refresh comes that far with it; and *)
(* a token that was not generated yet occurs nowhere (Fresh).              *)
(***************************************************************************)
EXTENDS AuthSessions, TLAPS, FiniteSetTheorems

(* A call names an account, or a token the client was given. *)
Sent ==
    \A h \in Handlers :
        /\ call[h].at \in {"register: find", "register: create", "login: find", "login: store"}
             => call[h].name \in Names
        /\ call[h].at \in {"refresh: read", "refresh: delete", "refresh: store", "logout: delete"}
             => call[h].token \in 1..issued

Locks ==
    \A h \in Handlers : call[h].at = "refresh: store" =>
        call[h].token \in sessions /\ lock[call[h].token] = h

Fresh ==
    \A t \in Tokens :
        /\ t > issued => /\ t \notin sessions \cup ended \cup loggedOut
                         /\ login[t] = None /\ parent[t] = None
        /\ t \in sessions => login[t] \in 1..issued
        /\ login[t] \in {None} \cup 1..issued /\ parent[t] \in {None} \cup 1..issued

Spent ==
    /\ \A t \in Tokens : parent[t] \notin sessions
    /\ loggedOut \cap sessions = {}

(* OneSessionPerLogin without counting. *)
SessionsOf(l) == {t \in sessions : login[t] = l}
OneSession ==
    \A l \in Tokens : login[l] = l =>
        IF l \in ended THEN SessionsOf(l) = {} ELSE \E t \in Tokens : SessionsOf(l) = {t}

IInv == TypeOK /\ Sent /\ Locks /\ Fresh /\ Spent /\ ExchangedOnce /\ OneSession

(* The service starts without accounts and sessions. *)
LEMMA InitIInv == Init => IInv
<1> SUFFICES ASSUME Init PROVE IInv
  OBVIOUS
<1> USE AuthAssumption DEF Init
<1>1. TypeOK
  BY DEF TypeOK, Idle, Steps, Tokens
<1>2. Sent /\ Locks
  BY DEF Sent, Locks, Idle
<1>3. Fresh /\ Spent /\ ExchangedOnce
  BY DEF Fresh, Spent, ExchangedOnce, Tokens
<1>4. OneSession
  BY DEF OneSession, Tokens
<1> QED
  BY <1>1, <1>2, <1>3, <1>4 DEF IInv

(* The invariant says something of the calls and the locks, and something  *)
(* of the sessions; the first part is all that most steps touch.           *)
LEMMA CallsKeep ==
    ASSUME IInv, TypeOK', Sent', Locks',
           UNCHANGED <<sessions, issued, login, parent, ended, loggedOut>>
    PROVE  IInv'
<1>1. Fresh' /\ Spent' /\ ExchangedOnce'
  BY DEF IInv, Fresh, Spent, ExchangedOnce
<1>2. OneSession'
  BY DEF IInv, OneSession, SessionsOf
<1> QED
  BY <1>1, <1>2 DEF IInv

(* The call of a handler that answers or goes on. *)
LEMMA AnswerOf ==
    ASSUME TypeOK, NEW h \in Handlers, Answer(h)
    PROVE  /\ call' \in [Handlers -> [at : Steps, name : Names \cup {None},
                                      token : Tokens \cup {None}]]
           /\ call'[h].at = "idle"
           /\ \A g \in Handlers \ {h} : call'[g] = call[g]
<1>1. Idle \in [at : Steps, name : Names \cup {None}, token : Tokens \cup {None}]
  BY DEF Idle, Steps
<1> QED
  BY <1>1 DEF Answer, TypeOK, Idle

LEMMA GotoOf ==
    ASSUME TypeOK, NEW h \in Handlers, NEW step \in Steps, Goto(h, step)
    PROVE  /\ call' \in [Handlers -> [at : Steps, name : Names \cup {None},
                                      token : Tokens \cup {None}]]
           /\ call'[h].at = step
           /\ call'[h].name = call[h].name /\ call'[h].token = call[h].token
           /\ \A g \in Handlers \ {h} : call'[g] = call[g]
<1>1. call[h] \in [at : Steps, name : Names \cup {None}, token : Tokens \cup {None}]
  BY DEF TypeOK
<1>2. call'[h] = [call[h] EXCEPT !.at = step]
  BY DEF Goto, TypeOK
<1>3. call'[h] \in [at : Steps, name : Names \cup {None}, token : Tokens \cup {None}]
  BY <1>1, <1>2
<1> QED
  BY <1>1, <1>2, <1>3 DEF Goto, TypeOK

(* Steps that change a call, an account or an expiry, and no row. *)
LEMMA BeginKeeps == ASSUME IInv, NEW h \in Handlers, Call(h) PROVE IInv'
<1> USE AuthAssumption
<1>1. PICK step \in Steps, name \in Names \cup {None}, token \in Tokens \cup {None} :
        /\ Begin(h, step, name, token)
        /\ step \in {"register: find", "login: find", "refresh: read", "logout: delete"}
        /\ step \in {"register: find", "login: find"} => name \in Names
        /\ step \in {"refresh: read", "logout: delete"} => token \in 1..issued
  <2>1. issued \in 0..TokenLimit
    BY DEF IInv, TypeOK
  <2>2. 1..issued \subseteq Tokens
    BY <2>1 DEF Tokens
  <2> QED
    BY <2>2 DEF Call, Steps
<1>2. /\ call' = [call EXCEPT ![h] = [at |-> step, name |-> name, token |-> token]]
      /\ UNCHANGED <<accounts, sessions, expired, lock, issued, login, parent, ended, loggedOut>>
  BY <1>1 DEF Begin, history
<1>3. TypeOK'
  BY <1>2 DEF IInv, TypeOK
<1>4. Sent'
  BY <1>1, <1>2 DEF IInv, TypeOK, Sent
<1>5. Locks'
  BY <1>1, <1>2 DEF IInv, TypeOK, Locks
<1> QED
  BY <1>2, <1>3, <1>4, <1>5, CallsKeep

(* A step of one call that keeps sessions and locks. *)
LEMMA StepKeeps ==
    ASSUME IInv, NEW h \in Handlers, NEW step \in Steps,
           Answer(h) \/ Goto(h, step),
           accounts' \in [Names -> 0..1],
           UNCHANGED <<sessions, expired, lock, issued, history>>,
           step \in {"register: create", "login: store"} => call[h].name \in Names,
           step = "refresh: delete" => call[h].token \in 1..issued,
           step \in {"register: create", "login: store", "refresh: delete"}
    PROVE  IInv'
<1>1. TypeOK
  BY DEF IInv
<1>2. /\ call' \in [Handlers -> [at : Steps, name : Names \cup {None},
                                 token : Tokens \cup {None}]]
      /\ \/ call'[h].at = "idle"
         \/ /\ call'[h].at = step
            /\ call'[h].name = call[h].name /\ call'[h].token = call[h].token
      /\ \A g \in Handlers \ {h} : call'[g] = call[g]
  BY <1>1, AnswerOf, GotoOf
<1>3. TypeOK'
  BY <1>1, <1>2 DEF TypeOK, history
<1>4. Sent' /\ Locks'
  BY <1>2 DEF IInv, Sent, Locks
<1> QED
  BY <1>3, <1>4, CallsKeep DEF history

LEMMA NameStepsKeep ==
    ASSUME IInv, NEW h \in Handlers, FindForRegister(h) \/ CreateUser(h) \/ FindForLogin(h)
    PROVE  IInv'
<1>1. TypeOK /\ Sent
  BY DEF IInv
<1>2. CASE FindForRegister(h)
  <2>1. "register: create" \in Steps /\ call[h].name \in Names
    BY <1>1, <1>2 DEF FindForRegister, Sent, Steps
  <2>2. accounts' \in [Names -> 0..1]
    BY <1>1, <1>2 DEF FindForRegister, TypeOK
  <2>3. Answer(h) \/ Goto(h, "register: create")
    BY <1>2 DEF FindForRegister
  <2> QED
    BY <1>2, <2>1, <2>2, <2>3, StepKeeps DEF FindForRegister
<1>3. CASE CreateUser(h)
  <2>1. "register: create" \in Steps /\ call[h].name \in Names
    BY <1>1, <1>3 DEF CreateUser, Sent, Steps
  <2>2. accounts' \in [Names -> 0..1]
    <3>1. accounts \in [Names -> 0..1] /\ 1 \in 0..1
      BY <1>1 DEF TypeOK
    <3> QED
      BY <1>3, <3>1 DEF CreateUser
  <2> QED
    BY <1>3, <2>1, <2>2, StepKeeps DEF CreateUser
<1>4. CASE FindForLogin(h)
  <2>1. "login: store" \in Steps /\ call[h].name \in Names
    BY <1>1, <1>4 DEF FindForLogin, Sent, Steps
  <2>2. accounts' \in [Names -> 0..1]
    BY <1>1, <1>4 DEF FindForLogin, TypeOK
  <2>3. Answer(h) \/ Goto(h, "login: store")
    BY <1>4 DEF FindForLogin
  <2> QED
    BY <1>4, <2>1, <2>2, <2>3, StepKeeps DEF FindForLogin
<1> QED
  BY <1>2, <1>3, <1>4

LEMMA ReadSessionKeeps == ASSUME IInv, NEW h \in Handlers, ReadSession(h) PROVE IInv'
<1>1. "refresh: delete" \in Steps /\ call[h].token \in 1..issued
  BY DEF IInv, ReadSession, Sent, Steps
<1>2. accounts' \in [Names -> 0..1]
  BY DEF IInv, ReadSession, TypeOK
<1>3. Answer(h) \/ Goto(h, "refresh: delete")
  BY DEF ReadSession
<1> QED
  BY <1>1, <1>2, <1>3, StepKeeps DEF ReadSession


(* The row that is deleted is there, and nobody else has deleted it.       *)
LEMMA DeleteOldKeeps == ASSUME IInv, NEW h \in Handlers, DeleteOld(h) PROVE IInv'
<1> USE AuthAssumption
<1>1. TypeOK /\ Sent /\ Locks
  BY DEF IInv
<1>2. /\ call[h].at = "refresh: delete" /\ lock[call[h].token] = None
      /\ UNCHANGED <<accounts, sessions, expired, issued, login, parent, ended, loggedOut>>
  BY DEF DeleteOld, history
<1>3. call[h].token \in 1..issued /\ call[h].token \in Tokens
  <2>1. call[h].token \in 1..issued
    BY <1>1, <1>2 DEF Sent
  <2>2. issued \in 0..TokenLimit
    BY <1>1 DEF TypeOK
  <2> QED
    BY <2>1, <2>2 DEF Tokens
<1>4. CASE call[h].token \in sessions
  <2>1. lock' = [lock EXCEPT ![call[h].token] = h] /\ Goto(h, "refresh: store")
    BY <1>4 DEF DeleteOld
  <2>2. "refresh: store" \in Steps
    BY DEF Steps
  <2>3. /\ call' \in [Handlers -> [at : Steps, name : Names \cup {None},
                                   token : Tokens \cup {None}]]
        /\ call'[h].at = "refresh: store" /\ call'[h].token = call[h].token
        /\ \A g \in Handlers \ {h} : call'[g] = call[g]
    BY <1>1, <2>1, <2>2, GotoOf
  <2>4. TypeOK'
    BY <1>1, <1>2, <1>3, <2>1, <2>3 DEF TypeOK
  <2>5. Sent'
    BY <1>1, <1>2, <1>3, <2>3 DEF Sent
  <2>6. ASSUME NEW g \in Handlers, call'[g].at = "refresh: store"
        PROVE  call'[g].token \in sessions' /\ lock'[call'[g].token] = g
    <3>1. CASE g = h
      BY <1>1, <1>2, <1>3, <1>4, <2>1, <2>3, <3>1 DEF TypeOK
    <3>2. CASE g # h
      <4>1. call[g].token \in sessions /\ lock[call[g].token] = g /\ call'[g] = call[g]
        BY <1>1, <2>3, <2>6, <3>2 DEF Locks
      <4>2. call[g].token # call[h].token
        BY <1>2, <4>1
      <4> QED
        BY <1>1, <1>2, <2>1, <4>1, <4>2 DEF TypeOK
    <3> QED
      BY <3>1, <3>2
  <2> QED
    BY <1>2, <2>4, <2>5, <2>6, CallsKeep DEF Locks
<1>5. CASE call[h].token \notin sessions
  <2>1. lock' = lock /\ Answer(h)
    BY <1>5 DEF DeleteOld
  <2>2. /\ call' \in [Handlers -> [at : Steps, name : Names \cup {None},
                                   token : Tokens \cup {None}]]
        /\ call'[h].at = "idle"
        /\ \A g \in Handlers \ {h} : call'[g] = call[g]
    BY <1>1, <2>1, AnswerOf
  <2>3. TypeOK'
    BY <1>1, <1>2, <2>1, <2>2 DEF TypeOK
  <2>4. Sent' /\ Locks'
    BY <1>1, <1>2, <2>1, <2>2 DEF Sent, Locks
  <2> QED
    BY <1>2, <2>3, <2>4, CallsKeep
<1> QED
  BY <1>4, <1>5

(* Only its own rows does a transaction give free. *)
LEMMA UnlockedOf ==
    ASSUME TypeOK, NEW h \in Handlers, lock' = Unlocked(h)
    PROVE  /\ lock' \in [Tokens -> Handlers \cup {None}]
           /\ \A t \in Tokens : lock[t] # h => lock'[t] = lock[t]
BY DEF TypeOK, Unlocked

LEMMA FailKeeps == ASSUME IInv, NEW h \in Handlers, Fail(h) PROVE IInv'
<1>1. TypeOK /\ Sent /\ Locks
  BY DEF IInv
<1>2. /\ lock' = Unlocked(h) /\ Answer(h)
      /\ UNCHANGED <<accounts, sessions, expired, issued, login, parent, ended, loggedOut>>
  BY DEF Fail, history
<1>3. /\ call' \in [Handlers -> [at : Steps, name : Names \cup {None},
                                 token : Tokens \cup {None}]]
      /\ call'[h].at = "idle"
      /\ \A g \in Handlers \ {h} : call'[g] = call[g]
  BY <1>1, <1>2, AnswerOf
<1>4. /\ lock' \in [Tokens -> Handlers \cup {None}]
      /\ \A t \in Tokens : lock[t] # h => lock'[t] = lock[t]
  BY <1>1, <1>2, UnlockedOf
<1>5. TypeOK'
  BY <1>1, <1>2, <1>3, <1>4 DEF TypeOK
<1>6. Sent'
  BY <1>1, <1>2, <1>3 DEF Sent
<1>7. ASSUME NEW g \in Handlers, call'[g].at = "refresh: store"
      PROVE  call'[g].token \in sessions' /\ lock'[call'[g].token] = g
  <2>1. g # h /\ call'[g] = call[g]
    BY <1>3, <1>7
  <2>2. call[g].token \in sessions /\ lock[call[g].token] = g
    BY <1>1, <1>7, <2>1 DEF Locks
  <2>3. call[g].token \in Tokens
    BY <1>1, <2>2 DEF TypeOK
  <2> QED
    BY <1>2, <1>4, <2>1, <2>2, <2>3
<1> QED
  BY <1>2, <1>5, <1>6, <1>7, CallsKeep DEF Locks

LEMMA CrashKeeps == ASSUME IInv, Crash PROVE IInv'
<1>1. /\ call' = [h \in Handlers |-> Idle]
      /\ lock' = [t \in Tokens |-> None]
      /\ UNCHANGED <<accounts, sessions, expired, issued, login, parent, ended, loggedOut>>
  BY DEF Crash, history
<1>2. TypeOK'
  BY <1>1 DEF IInv, TypeOK, Idle, Steps
<1>3. Sent' /\ Locks'
  BY <1>1 DEF Sent, Locks, Idle
<1> QED
  BY <1>1, <1>2, <1>3, CallsKeep

LEMMA ExpireKeeps == ASSUME IInv, NEW t \in Tokens, Expire(t) PROVE IInv'
<1>1. /\ expired' = expired \cup {t}
      /\ UNCHANGED <<accounts, sessions, lock, call, issued, login, parent, ended, loggedOut>>
  BY DEF Expire, history
<1>2. TypeOK'
  BY <1>1 DEF IInv, TypeOK
<1>3. Sent' /\ Locks'
  BY <1>1 DEF IInv, Sent, Locks
<1> QED
  BY <1>1, <1>2, <1>3, CallsKeep

(* The next token occurs nowhere yet. *)
LEMMA GenerateOf ==
    ASSUME IInv, Generate
    PROVE  /\ issued' \in Tokens /\ issued' \in 1..issued' /\ issued' \in 0..TokenLimit
           /\ 1..issued \subseteq 1..issued' /\ issued' \notin 1..issued
           /\ issued' # None
           /\ issued' \notin sessions \cup ended \cup loggedOut
           /\ login[issued'] = None /\ parent[issued'] = None
           /\ \A t \in Tokens : t > issued' => t > issued
<1> USE AuthAssumption
<1>1. issued \in 0..TokenLimit /\ issued < TokenLimit /\ issued' = issued + 1
  BY DEF IInv, TypeOK, Generate
<1>2. /\ issued' \in Tokens /\ issued' \in 1..issued' /\ issued' \in 0..TokenLimit
      /\ 1..issued \subseteq 1..issued' /\ issued' \notin 1..issued /\ issued' > issued
  BY <1>1 DEF Tokens
<1>3. \A t \in Tokens : t > issued' => t > issued
  BY <1>1 DEF Tokens
<1> QED
  BY <1>2, <1>3 DEF IInv, Fresh


(* A login opens a session of its own. *)
LEMMA StoreForLoginKeeps == ASSUME IInv, NEW h \in Handlers, StoreForLogin(h) PROVE IInv'
<1> USE AuthAssumption
<1> DEFINE new == issued'
<1>1. TypeOK /\ Sent /\ Locks /\ Fresh /\ Spent /\ ExchangedOnce /\ OneSession
  BY DEF IInv
<1>2. /\ Generate /\ Answer(h)
      /\ sessions' = sessions \cup {new}
      /\ login' = [login EXCEPT ![new] = new]
      /\ UNCHANGED <<accounts, expired, lock, parent, ended, loggedOut>>
  BY DEF StoreForLogin
<1>3. /\ new \in Tokens /\ new \in 1..new /\ new \in 0..TokenLimit
      /\ 1..issued \subseteq 1..new /\ new \notin 1..issued /\ new # None
      /\ new \notin sessions \cup ended \cup loggedOut
      /\ login[new] = None /\ parent[new] = None
      /\ \A t \in Tokens : t > new => t > issued
  BY <1>2, GenerateOf
<1>4. /\ call' \in [Handlers -> [at : Steps, name : Names \cup {None},
                                 token : Tokens \cup {None}]]
      /\ call'[h].at = "idle"
      /\ \A g \in Handlers \ {h} : call'[g] = call[g]
  BY <1>1, <1>2, AnswerOf
<1>5. login' \in [Tokens -> Tokens \cup {None}] /\ login'[new] = new
      /\ \A t \in Tokens \ {new} : login'[t] = login[t]
  BY <1>1, <1>2, <1>3 DEF TypeOK
<1>6. TypeOK'
  BY <1>1, <1>2, <1>3, <1>4, <1>5 DEF TypeOK
<1> HIDE DEF new
<1>7. Sent'
  BY <1>1, <1>3, <1>4 DEF Sent, new
<1>8. Locks'
  BY <1>1, <1>2, <1>4 DEF Locks
<1>9. Fresh'
  <2> SUFFICES ASSUME NEW t \in Tokens
               PROVE  /\ t > new => /\ t \notin sessions' \cup ended' \cup loggedOut'
                                    /\ login'[t] = None /\ parent'[t] = None
                      /\ t \in sessions' => login'[t] \in 1..new
                      /\ login'[t] \in {None} \cup 1..new
                      /\ parent'[t] \in {None} \cup 1..new
    BY DEF Fresh, new
  <2>1. CASE t = new
    <3>1. ~(t > new)
      BY <1>3, <2>1
    <3> QED
      BY <1>2, <1>3, <1>5, <2>1, <3>1
  <2>2. CASE t # new
    BY <1>1, <1>2, <1>3, <1>5, <2>2 DEF Fresh
  <2> QED
    BY <2>1, <2>2
<1>10. Spent'
  BY <1>1, <1>2, <1>3 DEF Spent, Fresh
<1>11. ExchangedOnce'
  BY <1>1, <1>2 DEF ExchangedOnce
<1>12. ASSUME NEW l \in Tokens, login'[l] = l
       PROVE  IF l \in ended' THEN SessionsOf(l)' = {}
              ELSE \E t \in Tokens : SessionsOf(l)' = {t}
  <2>1. CASE l = new
    <3>1. \A t \in Tokens : login[t] # new
      BY <1>1, <1>3 DEF Fresh
    <3>2. SessionsOf(l)' = {new}
      BY <1>1, <1>2, <1>5, <2>1, <3>1 DEF SessionsOf, TypeOK
    <3> QED
      BY <1>2, <1>3, <2>1, <3>2
  <2>2. CASE l # new
    <3>1. SessionsOf(l)' = SessionsOf(l)
      BY <1>1, <1>2, <1>3, <1>5, <2>2 DEF SessionsOf, TypeOK
    <3>2. login[l] = l
      BY <1>5, <1>12, <2>2
    <3> QED
      BY <1>1, <1>2, <3>1, <3>2 DEF OneSession
  <2> QED
    BY <2>1, <2>2
<1> QED
  BY <1>6, <1>7, <1>8, <1>9, <1>10, <1>11, <1>12 DEF IInv, OneSession

(* The new session takes the place of the old one, which is still there,   *)
(* and of no other login's.                                                *)
LEMMA StoreNewKeeps == ASSUME IInv, NEW h \in Handlers, StoreNew(h) PROVE IInv'
<1> USE AuthAssumption
<1> DEFINE new == issued'
           spent == call[h].token
<1>1. TypeOK /\ Sent /\ Locks /\ Fresh /\ Spent /\ ExchangedOnce /\ OneSession
  BY DEF IInv
<1>2. /\ call[h].at = "refresh: store" /\ Generate /\ Answer(h)
      /\ sessions' = (sessions \ {spent}) \cup {new}
      /\ login' = [login EXCEPT ![new] = login[spent]]
      /\ parent' = [parent EXCEPT ![new] = spent]
      /\ lock' = Unlocked(h)
      /\ UNCHANGED <<accounts, expired, ended, loggedOut>>
  BY DEF StoreNew
<1>3. /\ new \in Tokens /\ new \in 1..new /\ new \in 0..TokenLimit
      /\ 1..issued \subseteq 1..new /\ new \notin 1..issued /\ new # None
      /\ new \notin sessions \cup ended \cup loggedOut
      /\ login[new] = None /\ parent[new] = None
      /\ \A t \in Tokens : t > new => t > issued
  BY <1>2, GenerateOf
<1>4. /\ call' \in [Handlers -> [at : Steps, name : Names \cup {None},
                                 token : Tokens \cup {None}]]
      /\ call'[h].at = "idle"
      /\ \A g \in Handlers \ {h} : call'[g] = call[g]
  BY <1>1, <1>2, AnswerOf
<1>5. /\ spent \in sessions /\ lock[spent] = h /\ spent \in 1..issued /\ spent \in Tokens
      /\ spent # None /\ spent # new /\ login[spent] \in 1..issued
      /\ login[spent] \in Tokens /\ login[spent] # new
  <2>1. spent \in sessions /\ lock[spent] = h /\ spent \in 1..issued
    BY <1>1, <1>2 DEF Locks, Sent
  <2>2. spent \in Tokens /\ spent # None /\ spent # new
    BY <1>1, <1>3, <2>1 DEF TypeOK, Tokens
  <2>3. login[spent] \in 1..issued /\ login[spent] # new
    BY <1>1, <1>3, <2>1, <2>2 DEF Fresh
  <2>4. login[spent] \in Tokens
    <3>1. issued \in 0..TokenLimit
      BY <1>1 DEF TypeOK
    <3> QED
      BY <2>3, <3>1 DEF Tokens
  <2> QED
    BY <2>1, <2>2, <2>3, <2>4
<1>6. /\ login' \in [Tokens -> Tokens \cup {None}] /\ login'[new] = login[spent]
      /\ \A t \in Tokens \ {new} : login'[t] = login[t]
  BY <1>1, <1>2, <1>3, <1>5 DEF TypeOK
<1>7. /\ parent' \in [Tokens -> Tokens \cup {None}] /\ parent'[new] = spent
      /\ \A t \in Tokens \ {new} : parent'[t] = parent[t]
  BY <1>1, <1>2, <1>3, <1>5 DEF TypeOK
<1>8. /\ lock' \in [Tokens -> Handlers \cup {None}]
      /\ \A t \in Tokens : lock[t] # h => lock'[t] = lock[t]
  BY <1>1, <1>2, UnlockedOf
<1>9. sessions' \subseteq Tokens
  BY <1>1, <1>2, <1>3 DEF TypeOK
<1>10. TypeOK'
  BY <1>1, <1>2, <1>3, <1>4, <1>6, <1>7, <1>8, <1>9 DEF TypeOK
<1> HIDE DEF new, spent
<1>11. Sent'
  BY <1>1, <1>3, <1>4 DEF Sent, new
<1>12. ASSUME NEW g \in Handlers, call'[g].at = "refresh: store"
       PROVE  call'[g].token \in sessions' /\ lock'[call'[g].token] = g
  <2>1. g # h /\ call'[g] = call[g]
    BY <1>4, <1>12
  <2>2. call[g].token \in sessions /\ lock[call[g].token] = g
    BY <1>1, <1>12, <2>1 DEF Locks
  <2>3. call[g].token \in Tokens /\ call[g].token # spent
    BY <1>1, <1>5, <2>1, <2>2 DEF TypeOK
  <2> QED
    BY <1>2, <1>8, <2>1, <2>2, <2>3
<1>13. Fresh'
  <2> SUFFICES ASSUME NEW t \in Tokens
               PROVE  /\ t > new => /\ t \notin sessions' \cup ended' \cup loggedOut'
                                    /\ login'[t] = None /\ parent'[t] = None
                      /\ t \in sessions' => login'[t] \in 1..new
                      /\ login'[t] \in {None} \cup 1..new
                      /\ parent'[t] \in {None} \cup 1..new
    BY DEF Fresh, new
  <2>1. CASE t = new
    <3>1. ~(t > new)
      BY <1>3, <2>1
    <3> QED
      BY <1>3, <1>5, <1>6, <1>7, <2>1, <3>1
  <2>2. CASE t # new
    <3>1. /\ t > new => /\ t \notin sessions \cup ended \cup loggedOut
                        /\ login[t] = None /\ parent[t] = None
          /\ t \in sessions => login[t] \in 1..new
          /\ login[t] \in {None} \cup 1..new
          /\ parent[t] \in {None} \cup 1..new
      BY <1>1, <1>3 DEF Fresh
    <3> QED
      BY <1>2, <1>6, <1>7, <2>2, <3>1
  <2> QED
    BY <2>1, <2>2
<1>14. Spent'
  <2>1. \A t \in Tokens : parent[t] # new
    BY <1>1, <1>3 DEF Fresh
  <2>2. \A t \in Tokens : parent'[t] \notin sessions'
    BY <1>1, <1>2, <1>5, <1>7, <2>1 DEF Spent
  <2> QED
    BY <1>1, <1>2, <1>3, <2>2 DEF Spent
<1>15. ExchangedOnce'
  <2>1. \A t \in Tokens : parent[t] # spent
    BY <1>1, <1>5 DEF Spent
  <2> QED
    BY <1>1, <1>7, <2>1 DEF ExchangedOnce
<1>16. ASSUME NEW l \in Tokens, login'[l] = l
       PROVE  IF l \in ended' THEN SessionsOf(l)' = {}
              ELSE \E t \in Tokens : SessionsOf(l)' = {t}
  <2>1. l # new /\ login[l] = l
    BY <1>5, <1>6, <1>16
  <2>2. CASE login[spent] = l
    <3>1. spent \in SessionsOf(l)
      BY <1>5, <2>2 DEF SessionsOf
    <3>2. l \notin ended /\ SessionsOf(l) = {spent}
      BY <1>1, <2>1, <3>1 DEF OneSession
    <3>3. SessionsOf(l)' = {new}
      BY <1>1, <1>2, <1>3, <1>6, <2>2, <3>2 DEF SessionsOf, TypeOK
    <3> QED
      BY <1>2, <1>3, <3>2, <3>3
  <2>3. CASE login[spent] # l
    <3>1. SessionsOf(l)' = SessionsOf(l)
      <4>1. \A t \in Tokens : t \in sessions' /\ login'[t] = l <=> t \in sessions /\ login[t] = l
        BY <1>2, <1>3, <1>6, <2>3
      <4> QED
        BY <1>1, <1>9, <4>1 DEF SessionsOf, TypeOK
    <3> QED
      BY <1>1, <1>2, <2>1, <3>1 DEF OneSession
  <2> QED
    BY <2>2, <2>3
<1> QED
  BY <1>10, <1>11, <1>12, <1>13, <1>14, <1>15, <1>16 DEF IInv, OneSession, Locks


(* A session that Logout or the cleanup takes away is the only one of its  *)
(* login, and no refresh holds its row.                                    *)
LEMMA RemovalKeeps ==
    ASSUME IInv, NEW rows \in SUBSET sessions, \A t \in rows : lock[t] = None,
           call' \in [Handlers -> [at : Steps, name : Names \cup {None},
                                   token : Tokens \cup {None}]],
           \A g \in Handlers : call'[g] = call[g] \/ call'[g].at = "idle",
           sessions' = sessions \ rows,
           ended' = ended \cup {login[t] : t \in rows},
           NEW out \in SUBSET (1..issued), out \cap sessions \subseteq rows,
           loggedOut' = loggedOut \cup out,
           UNCHANGED <<accounts, expired, lock, issued, login, parent>>
    PROVE  IInv'
<1> USE AuthAssumption
<1>1. TypeOK /\ Sent /\ Locks /\ Fresh /\ Spent /\ ExchangedOnce /\ OneSession
  BY DEF IInv
<1>2. 1..issued \subseteq Tokens
  <2>1. issued \in 0..TokenLimit
    BY <1>1 DEF TypeOK
  <2> QED
    BY <2>1 DEF Tokens
<1>3. \A t \in rows : t \in Tokens /\ login[t] \in 1..issued
  BY <1>1 DEF Fresh, TypeOK
<1>4. TypeOK'
  BY <1>1, <1>2, <1>3 DEF TypeOK
<1>5. Sent'
  BY <1>1 DEF Sent
<1>6. ASSUME NEW g \in Handlers, call'[g].at = "refresh: store"
      PROVE  call'[g].token \in sessions' /\ lock'[call'[g].token] = g
  <2>1. call'[g] = call[g]
    BY <1>6
  <2>2. call[g].token \in sessions /\ lock[call[g].token] = g
    BY <1>1, <1>6, <2>1 DEF Locks
  <2> QED
    BY <2>1, <2>2
<1>7. Fresh'
  <2> SUFFICES ASSUME NEW t \in Tokens, t > issued
               PROVE  t \notin sessions' \cup ended' \cup loggedOut'
    BY <1>1 DEF Fresh
  <2>1. t \notin 1..issued /\ t \notin sessions \cup ended \cup loggedOut
    BY <1>1 DEF Fresh, Tokens, TypeOK
  <2>2. t \notin {login[r] : r \in rows}
    BY <1>3, <2>1
  <2>3. t \notin out
    BY <2>1
  <2> QED
    BY <2>1, <2>2, <2>3
<1>8. Spent' /\ ExchangedOnce'
  BY <1>1 DEF Spent, ExchangedOnce
<1>9. ASSUME NEW l \in Tokens, login[l] = l
      PROVE  IF l \in ended' THEN SessionsOf(l)' = {}
             ELSE \E t \in Tokens : SessionsOf(l)' = {t}
  <2>1. SessionsOf(l)' = SessionsOf(l) \ rows
    BY DEF SessionsOf
  <2>2. CASE l \in ended
    BY <1>1, <1>9, <2>1, <2>2 DEF OneSession
  <2>3. CASE l \notin ended
    <3>1. PICK t \in Tokens : SessionsOf(l) = {t}
      BY <1>1, <1>9, <2>3 DEF OneSession
    <3>2. t \in sessions /\ login[t] = l
      BY <3>1 DEF SessionsOf
    <3>3. \A r \in rows : login[r] = l => r = t
      BY <3>1 DEF SessionsOf
    <3>4. CASE t \in rows
      BY <2>1, <3>1, <3>2, <3>4
    <3>5. CASE t \notin rows
      <4>1. l \notin ended'
        BY <2>3, <3>3, <3>5
      <4> QED
        BY <2>1, <3>1, <3>5, <4>1
    <3> QED
      BY <3>4, <3>5
  <2> QED
    BY <2>2, <2>3
<1> QED
  BY <1>4, <1>5, <1>6, <1>7, <1>8, <1>9 DEF IInv, Locks, OneSession

LEMMA DeleteForLogoutKeeps == ASSUME IInv, NEW h \in Handlers, DeleteForLogout(h) PROVE IInv'
<1> DEFINE t == call[h].token
           rows == {t} \cap sessions
<1>1. TypeOK /\ Sent
  BY DEF IInv
<1>2. /\ call[h].at = "logout: delete" /\ lock[t] = None /\ Answer(h)
      /\ sessions' = sessions \ {t}
      /\ ended' = IF t \in sessions THEN ended \cup {login[t]} ELSE ended
      /\ loggedOut' = loggedOut \cup {t}
      /\ UNCHANGED <<accounts, expired, lock, issued, login, parent>>
  BY DEF DeleteForLogout
<1>3. {t} \in SUBSET (1..issued)
  BY <1>1, <1>2 DEF Sent
<1>4. /\ call' \in [Handlers -> [at : Steps, name : Names \cup {None},
                                 token : Tokens \cup {None}]]
      /\ \A g \in Handlers : call'[g] = call[g] \/ call'[g].at = "idle"
  BY <1>1, <1>2, AnswerOf
<1>5. /\ rows \in SUBSET sessions /\ {t} \cap sessions \subseteq rows
      /\ \A r \in rows : lock[r] = None
      /\ sessions' = sessions \ rows
      /\ ended' = ended \cup {login[r] : r \in rows}
  BY <1>2
<1> HIDE DEF rows
<1> QED
  BY <1>2, <1>3, <1>4, <1>5, RemovalKeeps

LEMMA CleanUpKeeps == ASSUME IInv, CleanUp PROVE IInv'
<1> DEFINE rows == sessions \cap expired
<1>1. /\ rows \in SUBSET sessions /\ \A t \in rows : lock[t] = None
      /\ sessions' = sessions \ rows
      /\ ended' = ended \cup {login[t] : t \in rows}
      /\ {} \in SUBSET (1..issued) /\ {} \cap sessions \subseteq rows
      /\ loggedOut' = loggedOut \cup {}
      /\ UNCHANGED <<accounts, expired, lock, call, issued, login, parent>>
  BY DEF CleanUp
<1>2. call' \in [Handlers -> [at : Steps, name : Names \cup {None},
                              token : Tokens \cup {None}]]
  BY <1>1 DEF IInv, TypeOK
<1> HIDE DEF rows
<1> QED
  BY <1>1, <1>2, RemovalKeeps

LEMMA NextIInv == IInv /\ [Next]_vars => IInv'
<1> SUFFICES ASSUME IInv, [Next]_vars PROVE IInv'
  OBVIOUS
<1>1. ASSUME NEW h \in Handlers, Call(h) \/ Serve(h) \/ Fail(h) PROVE IInv'
  BY <1>1, BeginKeeps, NameStepsKeep, StoreForLoginKeeps, ReadSessionKeeps, DeleteOldKeeps,
     StoreNewKeeps, DeleteForLogoutKeeps, FailKeeps DEF Serve
<1>2. CASE \E t \in Tokens : Expire(t)
  BY <1>2, ExpireKeeps
<1>3. CASE CleanUp \/ Crash
  BY <1>3, CleanUpKeeps, CrashKeeps
<1>4. CASE UNCHANGED vars
  <2>1. TypeOK' /\ Sent' /\ Locks'
    BY <1>4 DEF vars, IInv, TypeOK, Sent, Locks
  <2> QED
    BY <1>4, <2>1, CallsKeep DEF vars
<1> QED
  BY <1>1, <1>2, <1>3, <1>4 DEF Next

(***************************************************************************)
(* Theorems                                                                *)
(***************************************************************************)

LEMMA Invariance == Spec => []IInv
BY InitIInv, NextIInv, PTL DEF Spec

(* No refresh token is exchanged twice, however many handlers it is sent   *)
(* to at once (token_service.go:53-92, token_repo.go:57-69).               *)
THEOREM TokenIsExchangedOnce == Spec => []ExchangedOnce
<1>1. IInv => ExchangedOnce
  BY DEF IInv
<1> QED
  BY <1>1, Invariance, PTL

(* A login keeps exactly one session through every rotation, failure and   *)
(* crash until it is ended, and none afterwards.                           *)
THEOREM LoginKeepsOneSession == Spec => []OneSessionPerLogin
<1>1. IInv => OneSessionPerLogin
  <2> SUFFICES ASSUME IInv, NEW l \in Tokens, login[l] = l
               PROVE  Cardinality(SessionsOf(l)) = IF l \in ended THEN 0 ELSE 1
    BY DEF IInv, OneSessionPerLogin, SessionsOf
  <2>1. CASE l \in ended
    BY <2>1, FS_EmptySet DEF IInv, OneSession
  <2>2. CASE l \notin ended
    <3>1. PICK t \in Tokens : SessionsOf(l) = {t}
      BY <2>2 DEF IInv, OneSession
    <3> QED
      BY <2>2, <3>1, FS_Singleton
  <2> QED
    BY <2>1, <2>2
<1> QED
  BY <1>1, Invariance, PTL

(* A token that Logout answered success for is never exchanged afterwards, *)
(* not even by a refresh already under way.                                *)
THEOREM LogoutIsFinal == Spec => LoggedOutIsSpent
<1> DEFINE Final == \A t \in Tokens : parent'[t] # parent[t] => parent'[t] \notin loggedOut
<1>1. IInv /\ [Next]_vars => [Final]_vars
  <2> SUFFICES ASSUME IInv, Next, NEW t \in Tokens, parent'[t] # parent[t]
               PROVE  parent'[t] \notin loggedOut
    OBVIOUS
  <2>1. PICK h \in Handlers : StoreNew(h)
    BY DEF Next, Call, Serve, Begin, FindForRegister, CreateUser, FindForLogin, StoreForLogin,
           ReadSession, DeleteOld, DeleteForLogout, Fail, Expire, CleanUp, Crash, history
  <2>2. parent' = [parent EXCEPT ![issued'] = call[h].token] /\ call[h].token \in sessions
    BY <2>1 DEF StoreNew, IInv, Locks
  <2>3. parent'[t] = call[h].token
    BY <2>2 DEF IInv, TypeOK
  <2> QED
    BY <2>2, <2>3 DEF IInv, Spent
<1> QED
  BY <1>1, Invariance, PTL DEF Spec, LoggedOutIsSpent


===============================================================================
