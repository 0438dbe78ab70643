----------------------------- MODULE AdminPanel -----------------------------
(***************************************************************************)
(* Who may use the admin panel (server/internal/admin/admin.go,            *)
(* auth/session.go, auth/ratelimit.go): logins throttled by client address *)
(* in fixed windows, sessions that live in memory until they expire, are   *)
(* logged out or die with the process, and requests let through by their   *)
(* session and its CSRF token.  What a request then does to the settings   *)
(* and the roster is the subject of Settings and AccessStore.  Password    *)
(* checking is a choice of its outcome.                                    *)
(***************************************************************************)
EXTENDS Naturals, Sequences

CONSTANTS
    Clients,    \* the addresses of clients
    Proxy,      \* the address of the trusted reverse proxy
    Tokens,     \* the session tokens drawn; each stands for its CSRF token too
    Handlers,   \* the goroutines serving the panel
    Limit,      \* attempts allowed in a window
    Window,
    TTL,        \* a session's lifetime
    MaxTime,    \* bound on the clock
    None

ASSUME AddressesAssumption == Proxy \notin Clients
ASSUME TimesAssumption ==
    /\ Limit \in Nat \ {0}
    /\ Window \in Nat /\ TTL \in Nat /\ MaxTime \in Nat
ASSUME NoneAssumption ==
    /\ None \notin Clients \cup Tokens \cup {Proxy} \cup Nat
    /\ None \notin [count : Nat, reset : Nat]

Addresses == Clients \cup {Proxy}
Unsafe == {"change", "logout"}
Calls == Unsafe \cup {"view", "status"}

\* What clientIP looks at, and who the client really is: one that connects
\* directly writes what headers it likes, and the proxy appends the address it
\* sees to X-Forwarded-For, or overwrites X-Real-IP.
Arrivals ==
    [client : Clients, peer : Clients, forwarded : {<<>>} \cup {<<d>> : d \in Clients},
     real : Clients \cup {None}]
    \cup
    [client : Clients, peer : {Proxy},
     forwarded : {<<>>} \cup {<<d>> : d \in Clients} \cup {<<d, e>> : d, e \in Clients},
     real : Clients \cup {None}]

Honest(a) ==
    \/ a.peer = a.client
    \/ a.peer = Proxy /\ IF a.forwarded # <<>>
                         THEN a.forwarded[Len(a.forwarded)] = a.client
                         ELSE a.real = a.client

\* Mutant: the first entry of X-Forwarded-For, which the client may have sent.
ClientIPLeftmost(a) ==
    IF a.peer # Proxy THEN a.peer
    ELSE IF a.forwarded # <<>> THEN Head(a.forwarded)
    ELSE IF a.real # None THEN a.real
    ELSE a.peer

\* Mutant: the address of the connection, whoever made it.
ClientIPPeer(a) == a.peer

\* Headers count only from the trusted proxy, and then the entry it wrote.
ClientIP(a) ==
    IF a.peer # Proxy THEN a.peer
    ELSE IF a.forwarded # <<>> THEN a.forwarded[Len(a.forwarded)]
    ELSE IF a.real # None THEN a.real
    ELSE a.peer

VARIABLES
    now,
    hits,       \* RateLimiter.hits: the window of each address, or None
    sessions,   \* SessionStore.byToken: the deadline of each session, or None
    pc,         \* where each handler is
    who,        \* the client of the login it serves
    key,        \* ... as clientIP identified it
    read,       \* ... and the clock as Allow read it
    op,         \* the call it serves
    token,      \* the session it was sent, or has created
    csrf,       \* the session whose CSRF token it was sent
    known,      \* the tokens a browser has been sent
    passes,     \* history: each client's attempts let through since its own
                \* window was opened or reset
    expires,    \* history: the deadline each session was given
    ended,      \* history: the sessions logged out, or lost in a restart
    live        \* history: the session was good when the call arrived

throttle == <<hits, who, key, read, passes>>
call == <<op, csrf, live>>
store == <<sessions, expires, ended>>
vars == <<now, throttle, call, store, pc, token, known>>

TypeOK ==
    /\ now \in 0 .. MaxTime
    /\ hits \in [Addresses -> {None} \cup [count : 1 .. Limit + 1, reset : Nat]]
    /\ sessions \in [Tokens -> {None} \cup Nat]
    /\ pc \in [Handlers -> {"idle", "allow", "verify", "reset", "session", "act"}]
    /\ who \in [Handlers -> Clients \cup {None}]
    /\ key \in [Handlers -> Addresses \cup {None}]
    /\ \A h \in Handlers : pc[h] = "allow" => key[h] \in Addresses
    /\ read \in [Handlers -> 0 .. MaxTime]
    /\ op \in [Handlers -> Calls \cup {None}]
    /\ token \in [Handlers -> Tokens \cup {None}]
    /\ csrf \in [Handlers -> Tokens \cup {None}]
    /\ live \in [Handlers -> BOOLEAN]
    /\ known \subseteq Tokens /\ ended \subseteq Tokens
    /\ passes \in [Clients -> Nat]
    /\ expires \in [Tokens -> {None} \cup Nat]

Init ==
    /\ now = 0
    /\ hits = [k \in Addresses |-> None]
    /\ sessions = [t \in Tokens |-> None]
    /\ pc = [h \in Handlers |-> "idle"]
    /\ who = [h \in Handlers |-> None]
    /\ key = [h \in Handlers |-> None]
    /\ read = [h \in Handlers |-> 0]
    /\ op = [h \in Handlers |-> None]
    /\ token = [h \in Handlers |-> None]
    /\ csrf = [h \in Handlers |-> None]
    /\ live = [h \in Handlers |-> FALSE]
    /\ known = {} /\ ended = {}
    /\ passes = [c \in Clients |-> 0]
    /\ expires = [t \in Tokens |-> None]

Goto(h, label) == pc' = [pc EXCEPT ![h] = label]

\* The handler answers, and forgets what it served.
Answer(h) ==
    /\ Goto(h, "idle")
    /\ token' = [token EXCEPT ![h] = None]

ForgetLogin(h) ==
    /\ who' = [who EXCEPT ![h] = None]
    /\ key' = [key EXCEPT ![h] = None]
    /\ read' = [read EXCEPT ![h] = 0]

ForgetCall(h) ==
    /\ op' = [op EXCEPT ![h] = None]
    /\ csrf' = [csrf EXCEPT ![h] = None]
    /\ live' = [live EXCEPT ![h] = FALSE]

-----------------------------------------------------------------------------
\* handleLogin

\* Allow reads the clock before it takes the lock.
BeginLogin(h, a) ==
    /\ pc[h] = "idle"
    /\ Honest(a)
    /\ Goto(h, "allow")
    /\ who' = [who EXCEPT ![h] = a.client]
    /\ key' = [key EXCEPT ![h] = ClientIP(a)]
    /\ read' = [read EXCEPT ![h] = now]
    /\ UNCHANGED <<now, hits, passes, call, store, token, known>>

Within(count) == count <= Limit

Fresh(h) == hits[key[h]] # None => read[h] > hits[key[h]].reset

\* The address has no window, or one that was over when the clock was read.
AllowFirst(h) ==
    /\ pc[h] = "allow"
    /\ Fresh(h)
    /\ hits' = [hits EXCEPT ![key[h]] = [count |-> 1, reset |-> read[h] + Window]]
    /\ passes' = [passes EXCEPT ![who[h]] = IF key[h] = who[h] THEN 1 ELSE @ + 1]
    /\ Goto(h, "verify")
    /\ UNCHANGED <<now, who, key, read, call, store, token, known>>

\* Counts past the limit are not told apart.
Counted(h) ==
    [hits EXCEPT ![key[h]].count = IF @ <= Limit THEN @ + 1 ELSE @]

AllowNext(h) ==
    /\ pc[h] = "allow"
    /\ ~Fresh(h)
    /\ hits' = Counted(h)
    /\ Within(hits'[key[h]].count)
    /\ passes' = [passes EXCEPT ![who[h]] = @ + 1]
    /\ Goto(h, "verify")
    /\ UNCHANGED <<now, who, key, read, call, store, token, known>>

\* 429: the refused attempt is counted as well, and does not move the window.
Refuse(h) ==
    /\ pc[h] = "allow"
    /\ ~Fresh(h)
    /\ hits' = Counted(h)
    /\ ~Within(hits'[key[h]].count)
    /\ Answer(h)
    /\ ForgetLogin(h)
    /\ UNCHANGED <<now, passes, call, store, known>>

\* The body does not decode, the credentials are wrong, the stored hash is
\* malformed, or a token cannot be drawn.
LoginFails(h) ==
    /\ pc[h] = "verify"
    /\ Answer(h)
    /\ ForgetLogin(h)
    /\ UNCHANGED <<now, hits, passes, call, store, known>>

\* The credentials are right; SessionStore.Create.
CreateSession(h, t) ==
    /\ pc[h] = "verify"
    /\ expires[t] = None
    /\ sessions' = [sessions EXCEPT ![t] = now + TTL]
    /\ expires' = [expires EXCEPT ![t] = now + TTL]
    /\ token' = [token EXCEPT ![h] = t]
    /\ Goto(h, "reset")
    /\ UNCHANGED <<now, throttle, call, ended, known>>

\* The limiter forgets the address, and the answer sets both cookies.
Reset(h) ==
    /\ pc[h] = "reset"
    /\ hits' = [hits EXCEPT ![key[h]] = None]
    /\ passes' = [passes EXCEPT ![who[h]] = IF key[h] = who[h] THEN 0 ELSE @]
    /\ known' = known \cup {token[h]}
    /\ Answer(h)
    /\ ForgetLogin(h)
    /\ UNCHANGED <<now, call, store>>

-----------------------------------------------------------------------------
\* Everything else: auth, authCSRF and the handlers behind them.

\* The session is one that may still be used.
Good(t) == t \in known \ ended /\ now <= expires[t]

\* The cookie holds a token once given out; None stands for no cookie, and for
\* a token of nobody's.
BeginCall(h, what, t, c) ==
    /\ pc[h] = "idle"
    /\ Goto(h, "session")
    /\ op' = [op EXCEPT ![h] = what]
    /\ token' = [token EXCEPT ![h] = t]
    /\ csrf' = [csrf EXCEPT ![h] = c]
    /\ live' = [live EXCEPT ![h] = Good(t)]
    /\ UNCHANGED <<now, throttle, store, known>>

CSRFMatches(h) == op[h] \in Unsafe => csrf[h] = token[h]

Expired(t) == now > sessions[t]

\* SessionStore.Get finds a session that has not expired.
Found(h) ==
    token[h] # None /\ sessions[token[h]] # None /\ ~Expired(token[h])

Admit(h) ==
    /\ pc[h] = "session"
    /\ Found(h)
    /\ CSRFMatches(h)
    /\ Goto(h, "act")
    /\ UNCHANGED <<now, throttle, call, store, token, known>>

\* It does not: 401.  An expired one is dropped from the map.
Reject(h) ==
    /\ pc[h] = "session"
    /\ ~Found(h)
    /\ sessions' = [t \in Tokens |-> IF t = token[h] THEN None ELSE sessions[t]]
    /\ Answer(h)
    /\ ForgetCall(h)
    /\ UNCHANGED <<now, throttle, expires, ended, known>>

\* 403
RejectCSRF(h) ==
    /\ pc[h] = "session"
    /\ Found(h)
    /\ ~CSRFMatches(h)
    /\ Answer(h)
    /\ ForgetCall(h)
    /\ UNCHANGED <<now, throttle, store, known>>

\* A page, a listing, or a change to the settings or the roster.
Serve(h) ==
    /\ pc[h] = "act"
    /\ op[h] \in {"view", "change"}
    /\ Answer(h)
    /\ ForgetCall(h)
    /\ UNCHANGED <<now, throttle, store, known>>

\* apiStatus: SessionStore.Count drops what has expired.
Status(h) ==
    /\ pc[h] = "act"
    /\ op[h] = "status"
    /\ sessions' = [t \in Tokens |->
         IF sessions[t] # None /\ Expired(t) THEN None ELSE sessions[t]]
    /\ Answer(h)
    /\ ForgetCall(h)
    /\ UNCHANGED <<now, throttle, expires, ended, known>>

\* Mutant: logging out clears the browser's cookies and nothing else.
LogoutCookiesOnly(h) ==
    /\ pc[h] = "act"
    /\ op[h] = "logout"
    /\ ended' = ended \cup {token[h]}
    /\ Answer(h)
    /\ ForgetCall(h)
    /\ UNCHANGED <<now, throttle, sessions, expires, known>>

\* handleLogout: SessionStore.Delete.
Logout(h) ==
    /\ pc[h] = "act"
    /\ op[h] = "logout"
    /\ sessions' = [sessions EXCEPT ![token[h]] = None]
    /\ ended' = ended \cup {token[h]}
    /\ Answer(h)
    /\ ForgetCall(h)
    /\ UNCHANGED <<now, throttle, expires, known>>

-----------------------------------------------------------------------------
\* Sessions and windows are kept in memory only.
Restart ==
    /\ hits' = [k \in Addresses |-> None]
    /\ sessions' = [t \in Tokens |-> None]
    /\ pc' = [h \in Handlers |-> "idle"]
    /\ who' = [h \in Handlers |-> None]
    /\ key' = [h \in Handlers |-> None]
    /\ read' = [h \in Handlers |-> 0]
    /\ op' = [h \in Handlers |-> None]
    /\ token' = [h \in Handlers |-> None]
    /\ csrf' = [h \in Handlers |-> None]
    /\ live' = [h \in Handlers |-> FALSE]
    /\ passes' = [c \in Clients |-> 0]
    /\ ended' = ended \cup {t \in Tokens : expires[t] # None}
    /\ UNCHANGED <<now, expires, known>>

Tick ==
    /\ now < MaxTime
    /\ now' = now + 1
    /\ UNCHANGED <<throttle, call, store, pc, token, known>>

Login(h) ==
    \/ \E a \in Arrivals : BeginLogin(h, a)
    \/ AllowFirst(h) \/ AllowNext(h) \/ Refuse(h)
    \/ LoginFails(h) \/ Reset(h)
    \/ \E t \in Tokens : CreateSession(h, t)

Call(h) ==
    \/ \E what \in Calls, t, c \in known \cup {None} : BeginCall(h, what, t, c)
    \/ Admit(h) \/ Reject(h) \/ RejectCSRF(h)
    \/ Serve(h) \/ Status(h) \/ Logout(h)

Next ==
    \/ \E h \in Handlers : Login(h) \/ Call(h)
    \/ Restart
    \/ Tick

Spec == Init /\ [][Next]_vars

-----------------------------------------------------------------------------
\* No client gets more than Limit attempts out of one window, whatever headers
\* it sends and however its attempts overlap.
GuessesAreLimited == \A c \in Clients : passes[c] <= Limit

\* A client is turned away for its own attempts only: it has had all of them.
\* (Behind a reverse proxy every client has the proxy's address, and the panel
\* must not be locked for one because of another.)
RefusedForOwnAttempts ==
    \A h \in Handlers : Refuse(h) => passes[who[h]] = Limit
OneClientLocksNoOther == [][RefusedForOwnAttempts]_vars

\* A call that is let through arrived with a session, and one that was neither
\* logged out, nor expired, nor lost in a restart by then, and a change or a
\* logout carried that same session's CSRF token.
OnlyGoodSessionsAct ==
    \A h \in Handlers : pc[h] = "act" =>
        live[h] /\ (op[h] \in Unsafe => csrf[h] = token[h])
=============================================================================
