---------------------------- MODULE ProxyRequest ----------------------------
(***************************************************************************)
(* Requests through the web proxy (server/internal/proxy/proxy.go), inside *)
(* the middleware chain of the control plane (see Middleware): the         *)
(* checks in front of every fetch, the fetch, and the two ways a body goes *)
(* back, streamed untouched or buffered and rewritten.  Meanwhile the      *)
(* panel switches the proxy off and on and a user's access ends, clients   *)
(* leave, and the upstream fails wherever it likes.  A body is counted in  *)
(* chunks; what the rewriters do to it is not this module's subject, nor   *)
(* is the tunnel of an upgraded request (Tunnel).                          *)
(***************************************************************************)
EXTENDS Naturals, FiniteSets

CONSTANTS
    Requests,       \* the requests, each served by a goroutine of its own
    Limit,          \* rewriteMax, in chunks
    Longest,        \* bound: chunks in an upstream body
    RequireToken,   \* Options.RequireToken
    None

ASSUME LimitAssumption == Limit \in Nat \ {0} /\ Longest \in Nat
ASSUME RequireTokenAssumption == RequireToken \in BOOLEAN

Targets == {"malformed", "self", "sink", "site"}
Asked == [target : Targets, token : BOOLEAN, upgrade : BOOLEAN]

\* text: HTML or CSS; sized: the upstream declared the body's length, and Go has
\* not unpacked the body since.  Any status of the upstream's own is 200 here.
Responses == [text : BOOLEAN, sized : BOOLEAN, length : 0 .. Longest]

Outcomes == {"unauthorized", "bad_request", "telemetry_blocked", "blocked",
             "upstream_error", "ok", "ok_unrewritten"}

VARIABLES
    enabled,    \* Settings.ProxyEnabled
    granted,    \* the token is one AccessStore.Authorized accepts
    pc,         \* where each request is
    asked,      \* what it asks for
    resp,       \* what the upstream answered
    read,       \* chunks taken from the upstream's body
    delivered,  \* chunks written to the client
    headers,    \* what the response carries: the site's headers, a length
    status,     \* the status written, or 0
    outcomes,   \* how often each outcome was counted for the request
    broken,     \* the requests whose body broke off while it was streamed
    left,       \* the requests whose client is gone
    fetched,    \* history: the requests the upstream has seen
    late,       \* history: the requests that arrived after access had ended
    off         \* history: the requests since whose arrival the switch was off

vars == <<enabled, granted, pc, asked, resp, read, delivered, headers, status,
          outcomes, broken, left, fetched, late, off>>

clientVars == <<asked, left, late, off>>
world == <<enabled, granted>>
body == <<resp, read, delivered, headers, broken, fetched>>

TypeOK ==
    /\ enabled \in BOOLEAN /\ granted \in BOOLEAN
    /\ pc \in [Requests -> {"new", "enabled", "gate", "target", "fetch", "tunnel",
         "respond", "buffer", "prefix", "rewrite", "stream", "done"}]
    /\ asked \in [Requests -> {None} \cup Asked]
    /\ resp \in [Requests -> {None} \cup Responses]
    /\ read \in [Requests -> 0 .. Longest]
    /\ delivered \in [Requests -> 0 .. Longest]
    /\ \A r \in Requests : delivered[r] <= read[r]
    /\ headers \in [Requests -> SUBSET {"site", "length"}]
    /\ status \in [Requests -> {0, 101, 200, 204, 400, 403, 404, 500, 502}]
    /\ outcomes \in [Requests -> [Outcomes -> 0 .. 1]]
    /\ broken \subseteq Requests /\ left \subseteq Requests
    /\ fetched \subseteq Requests /\ late \subseteq Requests /\ off \subseteq Requests

Init ==
    /\ enabled \in BOOLEAN /\ granted \in BOOLEAN
    /\ pc = [r \in Requests |-> "new"]
    /\ asked = [r \in Requests |-> None]
    /\ resp = [r \in Requests |-> None]
    /\ read = [r \in Requests |-> 0]
    /\ delivered = [r \in Requests |-> 0]
    /\ headers = [r \in Requests |-> {}]
    /\ status = [r \in Requests |-> 0]
    /\ outcomes = [r \in Requests |-> [o \in Outcomes |-> 0]]
    /\ broken = {} /\ left = {} /\ fetched = {} /\ late = {} /\ off = {}

-----------------------------------------------------------------------------
Goto(r, label) == pc' = [pc EXCEPT ![r] = label]
Count(r, outcome) == outcomes' = [outcomes EXCEPT ![r][outcome] = @ + 1]
Status(r, code) == status' = [status EXCEPT ![r] = code]

\* The handler is done with the request.
Done(r) == Goto(r, "done")

\* An error page, counted.
Answer(r, code, outcome) ==
    /\ Status(r, code)
    /\ Count(r, outcome)
    /\ Done(r)

Arrive(r, what) ==
    /\ pc[r] = "new"
    /\ Goto(r, "enabled")
    /\ asked' = [asked EXCEPT ![r] = what]
    /\ late' = IF RequireToken /\ ~(what.token /\ granted) THEN late \cup {r}
               ELSE late
    /\ off' = IF enabled THEN off ELSE off \cup {r}
    /\ UNCHANGED <<world, body, status, outcomes, left>>

\* A proxy that is off answers 404 and counts nothing.
CheckEnabled(r) ==
    /\ pc[r] = "enabled"
    /\ IF enabled THEN Goto(r, "gate") /\ UNCHANGED status
       ELSE Status(r, 404) /\ Done(r)
    /\ UNCHANGED <<world, clientVars, body, outcomes>>

\* Mutant: an upgrade is let through.
GateSparesUpgrades(r) ==
    /\ pc[r] = "gate"
    /\ IF RequireToken /\ ~asked[r].upgrade /\ ~(asked[r].token /\ granted)
       THEN Answer(r, 403, "unauthorized")
       ELSE Goto(r, "target") /\ UNCHANGED <<status, outcomes>>
    /\ UNCHANGED <<world, clientVars, body>>

\* The token is looked up once, here.
Gate(r) ==
    /\ pc[r] = "gate"
    /\ IF RequireToken /\ ~(asked[r].token /\ granted)
       THEN Answer(r, 403, "unauthorized")
       ELSE Goto(r, "target") /\ UNCHANGED <<status, outcomes>>
    /\ UNCHANGED <<world, clientVars, body>>

\* link.DecodeRequest, isSelf, isTelemetrySink, isWebSocketUpgrade, in order.
CheckTarget(r) ==
    /\ pc[r] = "target"
    /\ \/ /\ asked[r].target \in {"malformed", "self"}
          /\ Answer(r, 400, "bad_request")
       \/ /\ asked[r].target = "sink"
          /\ Answer(r, 204, "telemetry_blocked")
       \/ /\ asked[r].target = "site"
          /\ Goto(r, IF asked[r].upgrade THEN "tunnel" ELSE "fetch")
          /\ UNCHANGED <<status, outcomes>>
    /\ UNCHANGED <<world, clientVars, body>>

\* serveWebSocket, from the dial to the end of the tunnel.
ServeWebSocket(r) ==
    /\ pc[r] = "tunnel"
    /\ \/ Answer(r, 403, "blocked") /\ UNCHANGED fetched
       \/ /\ Answer(r, 502, "upstream_error")
          /\ fetched' \in {fetched, fetched \cup {r}}
       \/ Answer(r, 500, "upstream_error") /\ fetched' = fetched \cup {r}
       \/ Answer(r, 101, "ok") /\ fetched' = fetched \cup {r}
       \/ \* the client could not be told of the switch
          Done(r) /\ fetched' = fetched \cup {r} /\ UNCHANGED <<status, outcomes>>
    /\ UNCHANGED <<world, clientVars, resp, read, delivered, headers, broken>>

-----------------------------------------------------------------------------
\* serveHTTP

Fetch(r, answer) ==
    /\ pc[r] = "fetch"
    /\ fetched' = fetched \cup {r}
    /\ resp' = [resp EXCEPT ![r] = answer]
    /\ Goto(r, IF answer.text THEN "buffer" ELSE "respond")
    /\ UNCHANGED <<world, clientVars, read, delivered, headers, broken, status,
                   outcomes>>

\* It cannot be put as a request, is refused by the dialer's guard, or fails
\* anywhere before the headers.
FetchFails(r) ==
    /\ pc[r] = "fetch"
    /\ \/ Answer(r, 400, "bad_request") /\ UNCHANGED fetched
       \/ Answer(r, 403, "blocked") /\ UNCHANGED fetched
       \/ /\ Answer(r, 502, "upstream_error")
          /\ fetched' \in {fetched, fetched \cup {r}}
    /\ UNCHANGED <<world, clientVars, resp, read, delivered, headers, broken>>

\* A body that is neither HTML nor CSS: the headers go out ahead of it, the
\* length among them if the upstream declared one of the bytes that follow.
Respond(r) ==
    /\ pc[r] = "respond"
    /\ headers' = [headers EXCEPT ![r] =
         IF resp[r].sized THEN {"site", "length"} ELSE {"site"}]
    /\ Status(r, 200)
    /\ Goto(r, "stream")
    /\ UNCHANGED <<world, clientVars, resp, read, delivered, broken, fetched,
                   outcomes>>

\* One io.Copy buffer, flushed.
CopyChunk(r) ==
    /\ pc[r] = "stream"
    /\ read[r] < resp[r].length
    /\ r \notin left
    /\ read' = [read EXCEPT ![r] = @ + 1]
    /\ delivered' = [delivered EXCEPT ![r] = @ + 1]
    /\ UNCHANGED <<world, clientVars, pc, resp, headers, broken, fetched, status,
                   outcomes>>

\* What a body already under way is counted as.
StreamOutcome(r) == IF resp[r].text THEN "ok_unrewritten" ELSE "ok"

\* Mutant: the end of a buffered body's stream is not counted.
CopyEndsUncounted(r) ==
    /\ pc[r] = "stream"
    /\ read[r] = resp[r].length
    /\ IF resp[r].text THEN UNCHANGED outcomes ELSE Count(r, "ok")
    /\ Done(r)
    /\ UNCHANGED <<world, clientVars, body, status>>

CopyEnds(r) ==
    /\ pc[r] = "stream"
    /\ read[r] = resp[r].length
    /\ Count(r, StreamOutcome(r))
    /\ Done(r)
    /\ UNCHANGED <<world, clientVars, body, status>>

\* The upstream or the client fails; io.Copy's error is dropped.
CopyBreaks(r) ==
    /\ pc[r] = "stream"
    /\ read[r] < resp[r].length
    /\ broken' = broken \cup {r}
    /\ Count(r, StreamOutcome(r))
    /\ Done(r)
    /\ UNCHANGED <<world, clientVars, resp, read, delivered, headers, fetched, status>>

-----------------------------------------------------------------------------
\* serveRewritten

\* Mutant: the reader stops at the limit, not one byte past it.
BufferToLimit(r) ==
    /\ pc[r] = "buffer"
    /\ LET n == IF resp[r].length < Limit THEN resp[r].length ELSE Limit
       IN  /\ read' = [read EXCEPT ![r] = n]
           /\ Goto(r, IF n > Limit THEN "prefix" ELSE "rewrite")
    /\ UNCHANGED <<world, clientVars, resp, delivered, headers, broken, fetched,
                   status, outcomes>>

\* ReadAll of a LimitReader of rewriteMax + 1.
Buffer(r) ==
    /\ pc[r] = "buffer"
    /\ LET n == IF resp[r].length < Limit + 1 THEN resp[r].length ELSE Limit + 1
       IN  /\ read' = [read EXCEPT ![r] = n]
           /\ Goto(r, IF n > Limit THEN "prefix" ELSE "rewrite")
    /\ UNCHANGED <<world, clientVars, resp, delivered, headers, broken, fetched,
                   status, outcomes>>

BufferFails(r) ==
    /\ pc[r] = "buffer"
    /\ Answer(r, 502, "upstream_error")
    /\ UNCHANGED <<world, clientVars, body>>

\* Mutant: the length the site declared goes out with the injected prefix.
WritePrefixKeepsLength(r) ==
    /\ pc[r] = "prefix"
    /\ headers' = [headers EXCEPT ![r] =
         IF resp[r].sized THEN {"site", "length"} ELSE {"site"}]
    /\ Status(r, 200)
    /\ delivered' = [delivered EXCEPT ![r] = IF r \in left THEN 0 ELSE read[r]]
    /\ Goto(r, "stream")
    /\ UNCHANGED <<world, clientVars, resp, read, broken, fetched, outcomes>>

\* Mutant: the outcome is counted with the prefix, and again at the end.
WritePrefixCounts(r) ==
    /\ pc[r] = "prefix"
    /\ headers' = [headers EXCEPT ![r] = {"site"}]
    /\ Status(r, 200)
    /\ delivered' = [delivered EXCEPT ![r] = IF r \in left THEN 0 ELSE read[r]]
    /\ Count(r, "ok_unrewritten")
    /\ Goto(r, "stream")
    /\ UNCHANGED <<world, clientVars, resp, read, broken, fetched>>

\* Too long to rewrite: what was buffered goes out as it is, then the rest.
WritePrefix(r) ==
    /\ pc[r] = "prefix"
    /\ headers' = [headers EXCEPT ![r] = {"site"}]
    /\ Status(r, 200)
    /\ delivered' = [delivered EXCEPT ![r] = IF r \in left THEN 0 ELSE read[r]]
    /\ Goto(r, "stream")
    /\ UNCHANGED <<world, clientVars, resp, read, broken, fetched, outcomes>>

WriteRewritten(r) ==
    /\ pc[r] = "rewrite"
    /\ headers' = [headers EXCEPT ![r] = {"site", "length"}]
    /\ delivered' = [delivered EXCEPT ![r] = IF r \in left THEN 0 ELSE read[r]]
    /\ Answer(r, 200, "ok")
    /\ UNCHANGED <<world, clientVars, resp, read, broken, fetched>>

\* A rewriter panics on the page: Recoverer answers, and no outcome is counted.
RewritePanics(r) ==
    /\ pc[r] = "rewrite"
    /\ Status(r, 500)
    /\ Done(r)
    /\ UNCHANGED <<world, clientVars, body, outcomes>>

-----------------------------------------------------------------------------
ClientLeaves(r) ==
    /\ pc[r] \notin {"new", "done"}
    /\ r \notin left
    /\ left' = left \cup {r}
    /\ UNCHANGED <<world, asked, late, off, body, pc, status, outcomes>>

\* The panel's switch.
Toggle ==
    /\ enabled' = ~enabled
    /\ off' = IF enabled THEN off ELSE {}
    /\ UNCHANGED <<granted, asked, left, late, body, pc, status, outcomes>>

\* The user is deleted or the token expires.
AccessEnds ==
    /\ granted
    /\ granted' = FALSE
    /\ UNCHANGED <<enabled, clientVars, body, pc, status, outcomes>>

Serve(r) ==
    \/ CheckEnabled(r) \/ Gate(r) \/ CheckTarget(r) \/ ServeWebSocket(r)
    \/ \E answer \in Responses : Fetch(r, answer)
    \/ FetchFails(r)
    \/ Respond(r) \/ CopyChunk(r) \/ CopyEnds(r) \/ CopyBreaks(r)
    \/ Buffer(r) \/ BufferFails(r)
    \/ WritePrefix(r) \/ WriteRewritten(r) \/ RewritePanics(r)

Next ==
    \/ \E r \in Requests, what \in Asked : Arrive(r, what)
    \/ \E r \in Requests : Serve(r) \/ ClientLeaves(r)
    \/ Toggle \/ AccessEnds

Spec == Init /\ [][Next]_vars

-----------------------------------------------------------------------------
\* A request that arrives once access has ended reaches no upstream, nor does
\* one aimed at this proxy itself, nor one that came while the proxy was
\* switched off and has not been on since; upgraded or not, and whatever is
\* toggled while others are on their way.
NothingForbiddenIsFetched ==
    \A r \in fetched : r \notin late \cup off /\ asked[r].target = "site"

\* A page the proxy makes itself carries none of the site's headers, and a
\* length that is declared is the length of what follows: the body as it came,
\* whole, or one that was rewritten at once.
HeadersTellTheTruth ==
    \A r \in Requests :
        /\ status[r] \in {400, 403, 404, 500, 502} => headers[r] = {}
        /\ pc[r] = "done" /\ "length" \in headers[r] /\ r \notin left =>
             IF resp[r].text THEN resp[r].length <= Limit ELSE resp[r].sized
        /\ pc[r] = "done" /\ "length" \in headers[r] /\ r \notin left \cup broken =>
             delivered[r] = resp[r].length

\* A body that arrives whole leaves whole, whatever its length is to the limit,
\* and one that could be buffered is never sent in part.
WholeBodiesLeaveWhole ==
    \A r \in Requests \ left :
        pc[r] = "done" /\ "site" \in headers[r] =>
            IF r \notin broken THEN delivered[r] = resp[r].length
            ELSE resp[r].text => delivered[r] > Limit

Counted(r) == {o \in Outcomes : outcomes[r][o] > 0}

\* A request that got past the switch is counted under exactly one outcome,
\* unless a rewriter panicked or the client could not be told of an upgrade.
OneOutcomeEach ==
    \A r \in Requests : pc[r] = "done" =>
        \/ Cardinality(Counted(r)) = 1
        \/ Counted(r) = {} /\ status[r] \in {0, 404, 500}
=============================================================================
