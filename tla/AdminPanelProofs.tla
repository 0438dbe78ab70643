-------------------------- MODULE AdminPanelProofs --------------------------
(***************************************************************************)
(* Theorems about AdminPanel for any clients, tokens, handlers, limit and  *)
(* times.  The argument for the throttle: clientIP names the true client   *)
(* of every honest arrival, so that the count of a client's window is the  *)
(* count of its own attempts.  For the sessions: the map holds a session   *)
(* only with the deadline it was given and before it has ended, so what    *)
(* was no longer good on arrival cannot be found later.                    *)
(***************************************************************************)
EXTENDS AdminPanel, TLAPS

\* The login a handler serves is counted for its own client.
KeyInv ==
    \A h \in Handlers : pc[h] \in {"allow", "verify", "reset"} =>
        who[h] \in Clients /\ key[h] = who[h]

\* A client's window counts what the client got through, and one more if it
\* was turned away.
PassInv ==
    \A c \in Clients :
        /\ hits[c] = None => passes[c] = 0
        /\ hits[c] # None =>
             passes[c] = IF hits[c].count <= Limit THEN hits[c].count ELSE Limit

\* Sessions in the map have their deadline and have not ended; those a browser
\* knows, and those that have ended, were created.
SessionInv ==
    /\ \A t \in Tokens : sessions[t] # None => sessions[t] = expires[t] /\ t \notin ended
    /\ \A t \in known \cup ended : expires[t] # None
    /\ \A h \in Handlers : pc[h] = "reset" =>
         token[h] \in Tokens /\ expires[token[h]] # None

\* A call that arrived without a good session will not find one.
CallInv ==
    \A h \in Handlers :
        /\ pc[h] \in {"session", "act"} => token[h] \in known \cup {None} /\ op[h] \in Calls
        /\ pc[h] = "act" => token[h] \in known
        /\ pc[h] = "session" /\ ~live[h] =>
             token[h] = None \/ token[h] \in ended \/ now > expires[token[h]]

IInv ==
    /\ TypeOK
    /\ KeyInv
    /\ PassInv
    /\ SessionInv
    /\ CallInv
    /\ OnlyGoodSessionsAct

-----------------------------------------------------------------------------
\* A window is never mistaken for none.
LEMMA WindowIsSome ==
    \A w \in [count : 1 .. Limit + 1, reset : Nat] :
        w # None /\ w.count \in 1 .. Limit + 1
BY TimesAssumption, NoneAssumption

\* clientIP names the client, whatever headers it wrote itself.
LEMMA HonestClient ==
    ASSUME NEW a \in Arrivals, Honest(a)
    PROVE  a.client \in Clients /\ ClientIP(a) = a.client
BY AddressesAssumption, NoneAssumption DEF Arrivals, Honest, ClientIP

\* The invariant holds at start-up.
LEMMA InitIInv == Init => IInv
<1> SUFFICES ASSUME Init PROVE IInv
  OBVIOUS
<1> USE TimesAssumption, NoneAssumption DEF Init
<1>1. TypeOK
  BY DEF TypeOK
<1>2. KeyInv /\ PassInv
  BY DEF KeyInv, PassInv, Addresses
<1>3. SessionInv /\ CallInv /\ OnlyGoodSessionsAct
  BY DEF SessionInv, CallInv, OnlyGoodSessionsAct
<1> QED
  BY <1>1, <1>2, <1>3 DEF IInv

\* What a login's steps do to the types.
LEMMA LoginType == ASSUME IInv, NEW h \in Handlers, Login(h) PROVE TypeOK'
<1> USE TimesAssumption, NoneAssumption
    DEF IInv, TypeOK, KeyInv, Addresses, throttle, call, store, Goto, Answer,
        ForgetLogin
<1>1. ASSUME NEW a \in Arrivals, BeginLogin(h, a) PROVE TypeOK'
  BY <1>1, HonestClient DEF BeginLogin
<1>2. CASE AllowFirst(h)
  <2>1. /\ who[h] \in Clients /\ key[h] = who[h]
        /\ [count |-> 1, reset |-> read[h] + Window]
             \in [count : 1 .. Limit + 1, reset : Nat]
    BY <1>2 DEF AllowFirst
  <2>2. passes' \in [Clients -> Nat]
    BY <1>2, <2>1 DEF AllowFirst
  <2> QED
    BY <1>2, <2>1, <2>2 DEF AllowFirst
<1>3. CASE AllowNext(h) \/ Refuse(h)
  <2>1. /\ who[h] \in Clients /\ key[h] = who[h] /\ key[h] \in Addresses
        /\ hits' = Counted(h) /\ hits[key[h]] # None
    BY <1>3 DEF AllowNext, Refuse, Fresh
  <2>2. hits[key[h]] \in [count : 1 .. Limit + 1, reset : Nat]
    BY <2>1
  <2>3. hits' \in [Addresses -> {None} \cup [count : 1 .. Limit + 1, reset : Nat]]
    BY <2>1, <2>2 DEF Counted
  <2>4. passes' \in [Clients -> Nat]
    BY <1>3, <2>1 DEF AllowNext, Refuse
  <2> QED
    BY <1>3, <2>3, <2>4 DEF AllowNext, Refuse
<1>4. CASE LoginFails(h)
  BY <1>4 DEF LoginFails
<1>5. ASSUME NEW t \in Tokens, CreateSession(h, t) PROVE TypeOK'
  <2>1. now + TTL \in Nat
    OBVIOUS
  <2> QED
    BY <1>5, <2>1 DEF CreateSession
<1>6. CASE Reset(h)
  <2>1. token[h] \in Tokens
    BY <1>6 DEF Reset, SessionInv
  <2> QED
    BY <1>6, <2>1 DEF Reset
<1> QED
  BY <1>1, <1>2, <1>3, <1>4, <1>5, <1>6, Zenon DEF Login

\* What a call's steps do to the types.
LEMMA CallType == ASSUME IInv, NEW h \in Handlers, Call(h) PROVE TypeOK'
<1> USE NoneAssumption
    DEF IInv, TypeOK, throttle, call, store, Goto, Answer, ForgetCall
<1>1. ASSUME NEW what \in Calls, NEW t \in known \cup {None}, NEW c \in known \cup {None},
             BeginCall(h, what, t, c)
      PROVE  TypeOK'
  <2>1. Good(t) \in BOOLEAN
    BY DEF Good
  <2> QED
    BY <1>1, <2>1 DEF BeginCall
<1>2. CASE Admit(h)
  BY <1>2 DEF Admit
<1>3. CASE Reject(h)
  BY <1>3 DEF Reject
<1>4. CASE RejectCSRF(h)
  BY <1>4 DEF RejectCSRF
<1>5. CASE Serve(h)
  BY <1>5 DEF Serve
<1>6. CASE Status(h)
  BY <1>6 DEF Status
<1>7. CASE Logout(h)
  BY <1>7 DEF Logout, CallInv
<1> QED
  BY <1>1, <1>2, <1>3, <1>4, <1>5, <1>6, <1>7, Zenon DEF Call

\* Every step keeps the types.
LEMMA NextType == ASSUME IInv, [Next]_vars PROVE TypeOK'
<1>1. ASSUME NEW h \in Handlers, Login(h) \/ Call(h) PROVE TypeOK'
  BY <1>1, LoginType, CallType
<1>2. CASE Restart
  BY <1>2, TimesAssumption DEF IInv, TypeOK, Restart
<1>3. CASE Tick
  BY <1>3, TimesAssumption DEF IInv, TypeOK, Tick, throttle, call, store
<1>4. CASE UNCHANGED vars
  BY <1>4 DEF IInv, TypeOK, vars, throttle, call, store
<1> QED
  BY <1>1, <1>2, <1>3, <1>4 DEF Next

-----------------------------------------------------------------------------
\* A login's steps keep the count of each client's attempts.
LEMMA LoginThrottle ==
    ASSUME IInv, NEW h \in Handlers, Login(h) PROVE KeyInv' /\ PassInv'
<1> USE TimesAssumption, NoneAssumption
    DEF IInv, TypeOK, KeyInv, PassInv, Addresses, throttle, call, store, Goto,
        Answer, ForgetLogin
<1>1. ASSUME NEW a \in Arrivals, BeginLogin(h, a) PROVE KeyInv' /\ PassInv'
  BY <1>1, HonestClient DEF BeginLogin
<1>2. CASE AllowFirst(h)
  <2>1. /\ who[h] \in Clients /\ key[h] = who[h]
        /\ [count |-> 1, reset |-> read[h] + Window]
             \in [count : 1 .. Limit + 1, reset : Nat]
    BY <1>2 DEF AllowFirst
  <2>2. /\ hits'[who[h]].count = 1 /\ hits'[who[h]] # None
        /\ \A c \in Clients \ {who[h]} : hits'[c] = hits[c]
    BY <1>2, <2>1, WindowIsSome DEF AllowFirst
  <2>3. /\ passes'[who[h]] = 1
        /\ \A c \in Clients \ {who[h]} : passes'[c] = passes[c]
    BY <1>2, <2>1 DEF AllowFirst
  <2>4. PassInv'
    BY <2>2, <2>3
  <2>5. KeyInv'
    BY <1>2 DEF AllowFirst
  <2> QED
    BY <2>4, <2>5
<1>3. CASE AllowNext(h)
  <2>1. /\ who[h] \in Clients /\ key[h] = who[h]
        /\ hits[key[h]] \in [count : 1 .. Limit + 1, reset : Nat]
        /\ hits' = Counted(h) /\ hits'[key[h]].count <= Limit
        /\ passes' = [passes EXCEPT ![who[h]] = passes[who[h]] + 1]
    BY <1>3 DEF AllowNext, Fresh, Within
  <2>2. /\ hits'[who[h]].count = hits[who[h]].count + 1
        /\ hits[who[h]].count + 1 <= Limit
        /\ hits'[who[h]] # None
        /\ \A c \in Clients \ {who[h]} : hits'[c] = hits[c]
    <3>1. hits'[who[h]] \in [count : 1 .. Limit + 1, reset : Nat]
      BY <2>1 DEF Counted
    <3>2. hits'[who[h]].count
            = IF hits[who[h]].count <= Limit THEN hits[who[h]].count + 1
              ELSE hits[who[h]].count
      BY <2>1 DEF Counted
    <3>3. \A c \in Clients \ {who[h]} : hits'[c] = hits[c]
      BY <2>1 DEF Counted
    <3> QED
      BY <2>1, <3>1, <3>2, <3>3, WindowIsSome
  <2>3. /\ hits[who[h]] # None
        /\ \A c \in Clients \ {who[h]} : passes'[c] = passes[c]
    BY <2>1, WindowIsSome
  <2>4. PassInv'
    BY <2>1, <2>2, <2>3
  <2>5. KeyInv'
    BY <1>3 DEF AllowNext
  <2> QED
    BY <2>4, <2>5
<1>4. CASE Refuse(h)
  <2>1. /\ who[h] \in Clients /\ key[h] = who[h]
        /\ hits[key[h]] \in [count : 1 .. Limit + 1, reset : Nat]
        /\ hits' = Counted(h) /\ ~(hits'[key[h]].count <= Limit)
        /\ UNCHANGED passes
    BY <1>4 DEF Refuse, Fresh, Within
  <2>2. /\ hits'[who[h]].count = Limit + 1
        /\ hits[who[h]].count \in {Limit, Limit + 1}
        /\ hits'[who[h]] # None
        /\ \A c \in Clients \ {who[h]} : hits'[c] = hits[c]
    <3>1. hits'[who[h]] \in [count : 1 .. Limit + 1, reset : Nat]
      BY <2>1 DEF Counted
    <3>2. hits'[who[h]].count
            = IF hits[who[h]].count <= Limit THEN hits[who[h]].count + 1
              ELSE hits[who[h]].count
      BY <2>1 DEF Counted
    <3>3. \A c \in Clients \ {who[h]} : hits'[c] = hits[c]
      BY <2>1 DEF Counted
    <3> QED
      BY <2>1, <3>1, <3>2, <3>3, WindowIsSome
  <2>3. /\ hits[who[h]] # None
        /\ \A c \in Clients \ {who[h]} : passes'[c] = passes[c]
    BY <2>1, WindowIsSome
  <2>4. PassInv'
    BY <2>1, <2>2, <2>3
  <2>5. KeyInv'
    BY <1>4 DEF Refuse
  <2> QED
    BY <2>4, <2>5
<1>5. CASE LoginFails(h)
  BY <1>5 DEF LoginFails
<1>6. ASSUME NEW t \in Tokens, CreateSession(h, t) PROVE KeyInv' /\ PassInv'
  BY <1>6 DEF CreateSession
<1>7. CASE Reset(h)
  BY <1>7 DEF Reset
<1> QED
  BY <1>1, <1>2, <1>3, <1>4, <1>5, <1>6, <1>7, Zenon DEF Login

\* Every step keeps the count.
LEMMA NextThrottle == ASSUME IInv, [Next]_vars PROVE KeyInv' /\ PassInv'
<1> USE DEF IInv, TypeOK, KeyInv, PassInv, Addresses, throttle, call, store
<1>1. ASSUME NEW h \in Handlers, Login(h) PROVE KeyInv' /\ PassInv'
  BY <1>1, LoginThrottle
<1>2. ASSUME NEW h \in Handlers, Call(h) PROVE KeyInv' /\ PassInv'
  <2>1. /\ UNCHANGED throttle
        /\ \E l \in {"idle", "session", "act"} : pc' = [pc EXCEPT ![h] = l]
    BY <1>2 DEF Call, BeginCall, Admit, Reject, RejectCSRF, Serve, Status,
                Logout, Answer, Goto
  <2> QED
    BY <2>1
<1>3. CASE Restart
  BY <1>3 DEF Restart
<1>4. CASE Tick
  BY <1>4 DEF Tick
<1>5. CASE UNCHANGED vars
  BY <1>5 DEF vars
<1> QED
  BY <1>1, <1>2, <1>3, <1>4, <1>5 DEF Next

-----------------------------------------------------------------------------
\* The sessions' part of the invariant.
SessionsInv == SessionInv /\ CallInv /\ OnlyGoodSessionsAct

\* A login touches no session but the one it creates.
LEMMA LoginSessions ==
    ASSUME IInv, NEW h \in Handlers, Login(h) PROVE SessionsInv'
<1> USE NoneAssumption
    DEF IInv, TypeOK, SessionsInv, SessionInv, CallInv, OnlyGoodSessionsAct,
        throttle, call, store, Goto, Answer, ForgetLogin
<1>1. ASSUME NEW a \in Arrivals, BeginLogin(h, a) PROVE SessionsInv'
  BY <1>1 DEF BeginLogin
<1>2. CASE AllowFirst(h) \/ AllowNext(h)
  BY <1>2 DEF AllowFirst, AllowNext
<1>3. CASE Refuse(h) \/ LoginFails(h)
  BY <1>3 DEF Refuse, LoginFails
<1>4. ASSUME NEW t \in Tokens, CreateSession(h, t) PROVE SessionsInv'
  <2>1. /\ t \notin known /\ t \notin ended
        /\ now + TTL \in Nat
        /\ expires' = [expires EXCEPT ![t] = now + TTL]
        /\ sessions' = [sessions EXCEPT ![t] = now + TTL]
        /\ token' = [token EXCEPT ![h] = t]
        /\ pc' = [pc EXCEPT ![h] = "reset"]
        /\ UNCHANGED <<now, known, ended, op, csrf, live>>
    BY <1>4, TimesAssumption DEF CreateSession
  <2>2. SessionInv'
    BY <2>1
  <2>3. CallInv'
    BY <2>1
  <2>4. OnlyGoodSessionsAct'
    BY <2>1
  <2> QED
    BY <2>2, <2>3, <2>4
<1>5. CASE Reset(h)
  BY <1>5 DEF Reset
<1> QED
  BY <1>1, <1>2, <1>3, <1>4, <1>5, Zenon DEF Login

\* A call finds only a good session, and ends what it ends.
LEMMA CallSessions ==
    ASSUME IInv, NEW h \in Handlers, Call(h) PROVE SessionsInv'
<1> USE NoneAssumption
    DEF IInv, TypeOK, SessionsInv, SessionInv, CallInv, OnlyGoodSessionsAct,
        throttle, call, store, Goto, Answer, ForgetCall
<1>1. ASSUME NEW what \in Calls, NEW t \in known \cup {None}, NEW c \in known \cup {None},
             BeginCall(h, what, t, c)
      PROVE  SessionsInv'
  <2>1. ~Good(t) => t = None \/ t \in ended \/ now > expires[t]
    BY DEF Good
  <2>2. Good(t) \in BOOLEAN
    BY DEF Good
  <2> QED
    BY <1>1, <2>1, <2>2 DEF BeginCall
<1>2. CASE Admit(h)
  <2>1. /\ sessions[token[h]] = expires[token[h]]
        /\ token[h] \notin ended
        /\ ~(now > expires[token[h]])
    BY <1>2 DEF Admit, Found, Expired
  <2>2. live[h]
    BY <1>2, <2>1 DEF Admit, Found
  <2> QED
    BY <1>2, <2>2 DEF Admit, Found, CSRFMatches
<1>3. CASE Reject(h)
  BY <1>3 DEF Reject
<1>4. CASE RejectCSRF(h)
  BY <1>4 DEF RejectCSRF
<1>5. CASE Serve(h)
  BY <1>5 DEF Serve
<1>6. CASE Status(h)
  BY <1>6 DEF Status
<1>7. CASE Logout(h)
  BY <1>7 DEF Logout
<1> QED
  BY <1>1, <1>2, <1>3, <1>4, <1>5, <1>6, <1>7, Zenon DEF Call

\* Every step keeps it: time only adds to what has expired, and a restart ends
\* every session there was.
LEMMA NextSessions == ASSUME IInv, [Next]_vars PROVE SessionsInv'
<1> USE NoneAssumption
    DEF IInv, TypeOK, SessionsInv, SessionInv, CallInv, OnlyGoodSessionsAct,
        throttle, call, store
<1>1. ASSUME NEW h \in Handlers, Login(h) \/ Call(h) PROVE SessionsInv'
  BY <1>1, LoginSessions, CallSessions
<1>2. CASE Restart
  BY <1>2 DEF Restart
<1>3. CASE Tick
  BY <1>3 DEF Tick
<1>4. CASE UNCHANGED vars
  BY <1>4 DEF vars
<1> QED
  BY <1>1, <1>2, <1>3, <1>4 DEF Next

\* The invariant is inductive.
LEMMA Inductive == Spec => []IInv
<1>1. IInv /\ [Next]_vars => IInv'
  BY NextType, NextThrottle, NextSessions DEF IInv, SessionsInv
<1> QED
  BY <1>1, InitIInv, PTL DEF Spec

-----------------------------------------------------------------------------
\* Every variable has its type in every reachable state.
THEOREM TypeCorrect == Spec => []TypeOK
BY Inductive, PTL DEF IInv

\* No client gets more than Limit attempts out of one window of its own.
THEOREM Guesses == Spec => []GuessesAreLimited
<1>1. IInv => GuessesAreLimited
  <2> SUFFICES ASSUME IInv, NEW c \in Clients PROVE passes[c] <= Limit
    BY DEF GuessesAreLimited
  <2> USE TimesAssumption DEF IInv, TypeOK, PassInv, Addresses
  <2>1. CASE hits[c] = None
    BY <2>1
  <2>2. CASE hits[c] # None
    <3>1. hits[c] \in [count : 1 .. Limit + 1, reset : Nat]
      BY <2>2
    <3> QED
      BY <2>2, <3>1, WindowIsSome
  <2> QED
    BY <2>1, <2>2
<1> QED
  BY <1>1, Inductive, PTL

\* A client is turned away for its own attempts only.
THEOREM NoSharedLock == Spec => OneClientLocksNoOther
<1>1. IInv /\ [Next]_vars => RefusedForOwnAttempts
  <2> SUFFICES ASSUME IInv, NEW h \in Handlers, Refuse(h)
               PROVE  passes[who[h]] = Limit
    BY DEF RefusedForOwnAttempts
  <2> USE TimesAssumption, NoneAssumption DEF IInv, TypeOK, KeyInv, PassInv, Addresses
  <2>1. /\ who[h] \in Clients /\ key[h] = who[h]
        /\ hits[who[h]] \in [count : 1 .. Limit + 1, reset : Nat]
        /\ hits' = Counted(h) /\ ~(hits'[who[h]].count <= Limit)
    BY DEF Refuse, Fresh, Within
  <2>2. hits'[who[h]].count
          = IF hits[who[h]].count <= Limit THEN hits[who[h]].count + 1
            ELSE hits[who[h]].count
    BY <2>1 DEF Counted
  <2>3. hits[who[h]] # None /\ hits[who[h]].count \in {Limit, Limit + 1}
    BY <2>1, <2>2, WindowIsSome
  <2> QED
    BY <2>1, <2>3
<1> QED
  BY <1>1, Inductive, PTL DEF Spec, OneClientLocksNoOther

\* Only calls that arrived with a good session act, and the unsafe ones with
\* its CSRF token.
THEOREM GoodSessions == Spec => []OnlyGoodSessionsAct
BY Inductive, PTL DEF IInv
=============================================================================
