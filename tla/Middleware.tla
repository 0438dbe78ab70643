---------------------------- MODULE Middleware ----------------------------
(***************************************************************************)
(* The middleware chain of the control plane (httpx/middleware.go, put     *)
(* together in server/server.go) around handlers that may write a header   *)
(* or a body, take the connection over, panic or return at any point.      *)
(* Two recorders may wrap the response, that of Metrics and, inside it,    *)
(* that of AccessLog, above net/http's own writer, which is modelled from  *)
(* how they use it: the first header is sent, a body without one sends     *)
(* 200, and a handler that wrote nothing has answered 200.  What a handler *)
(* sends on a connection it took over passes by both recorders.            *)
(***************************************************************************)
EXTENDS Metrics, Sequences, FiniteSets

CONSTANTS
    Requests,   \* the requests, each served by a goroutine of its own
    MaxWrites   \* bound: what a handler writes of a body

ASSUME RequestsAssumption == IsFiniteSet(Requests)
ASSUME CodesAssumption == {200, 500} \subseteq Codes /\ Codes \subseteq Nat \ {0}
ASSUME MaxWritesAssumption == MaxWrites \in Nat

VARIABLES
    accessLog,  \* Settings.AccessLog, which the panel toggles
    pc,         \* how far into and out of the chain each request is
    method,     \* r.Method
    logging,    \* the requests AccessLog wraps in a recorder of its own
    wrote,      \* Metrics' responseRecorder: the header was written,
    status,     \*   and the status it recorded
    logWrote,   \* AccessLog's: the same,
    logStatus,
    logBytes,   \*   and what it saw written
    sent,       \* the status on the wire, 0 before there is one
    body,       \* who wrote each part of the body on the wire
    hijacked,   \* the requests whose handler took the connection over
    panicked,   \* the requests whose handler panicked
    line        \* what AccessLog logged of each request

innerVars == <<logWrote, logStatus, logBytes>>
outerVars == <<wrote, status>>
wireVars == <<sent, body>>
vars == <<metricsVars, accessLog, pc, method, logging, outerVars, innerVars,
          wireVars, hijacked, panicked, line>>

\* The requests that entered the chain, those Metrics has on its gauge, those
\* it has counted and those it has timed.
Entered == {r \in Requests : pc[r] # "new"}
Serving == {r \in Requests : pc[r] \in {"chain", "handler", "panicked", "leave"}}
Finished == {r \in Requests : pc[r] \in {"observe", "done"}}

\* Parts of a body; a frame is what a tunnel sends after its 101.
Parts == {"handler", "error", "frame"}
SwitchingProtocols == 101
Lines == [status : Codes, bytes : Nat]

ChainTypeOK ==
    /\ accessLog \in BOOLEAN
    /\ pc \in [Requests -> {"new", "chain", "handler", "panicked", "leave",
                            "count", "observe", "done"}]
    /\ method \in [Requests -> Methods]
    /\ wrote \in [Requests -> BOOLEAN] /\ status \in [Requests -> Codes]
    /\ logWrote \in [Requests -> BOOLEAN] /\ logStatus \in [Requests -> Codes]
    /\ logBytes \in [Requests -> Nat]
    /\ sent \in [Requests -> {0, SwitchingProtocols} \cup Codes]
    /\ body \in [Requests -> Seq(Parts)]
    /\ logging \subseteq Requests
    /\ hijacked \subseteq Requests /\ panicked \subseteq Requests
    /\ line \in [Requests -> {None} \cup Lines]

TypeOK == MetricsTypeOK /\ ChainTypeOK

Init ==
    /\ MetricsInit
    /\ accessLog \in BOOLEAN
    /\ pc = [r \in Requests |-> "new"]
    /\ method \in [Requests -> Methods]
    /\ wrote = [r \in Requests |-> FALSE]
    /\ status = [r \in Requests |-> 200]
    /\ logWrote = [r \in Requests |-> FALSE]
    /\ logStatus = [r \in Requests |-> 200]
    /\ logBytes = [r \in Requests |-> 0]
    /\ sent = [r \in Requests |-> 0]
    /\ body = [r \in Requests |-> <<>>]
    /\ logging = {} /\ hijacked = {} /\ panicked = {}
    /\ line = [r \in Requests |-> None]

Goto(r, label) == pc' = [pc EXCEPT ![r] = label]

-----------------------------------------------------------------------------
\* responseRecorder over net/http's writer.

\* Mutant: a second header is recorded although it is not sent.
OuterHeaderAlways(r, code) ==
    /\ wrote' = [wrote EXCEPT ![r] = TRUE]
    /\ status' = [status EXCEPT ![r] = code]
    /\ sent' = IF ~wrote[r] /\ r \notin hijacked
               THEN [sent EXCEPT ![r] = code] ELSE sent

\* WriteHeader of Metrics' recorder.
OuterHeader(r, code) ==
    IF wrote[r] THEN UNCHANGED <<wrote, status, sent>>
    ELSE /\ wrote' = [wrote EXCEPT ![r] = TRUE]
         /\ status' = [status EXCEPT ![r] = code]
         /\ sent' = IF r \in hijacked THEN sent ELSE [sent EXCEPT ![r] = code]

\* Write of it, which writes the header 200 if there is none.
OuterWrite(r, part) ==
    /\ OuterHeader(r, 200)
    /\ body' = IF r \in hijacked THEN body
               ELSE [body EXCEPT ![r] = Append(@, part)]

\* Mutant: AccessLog's recorder notes every header it is given.
InnerHeaderAlways(r, code) ==
    IF r \in logging
    THEN /\ logWrote' = [logWrote EXCEPT ![r] = TRUE]
         /\ logStatus' = [logStatus EXCEPT ![r] = code]
    ELSE UNCHANGED <<logWrote, logStatus>>

\* WriteHeader of AccessLog's recorder, where there is one.
InnerHeader(r, code) ==
    IF r \in logging /\ ~logWrote[r]
    THEN /\ logWrote' = [logWrote EXCEPT ![r] = TRUE]
         /\ logStatus' = [logStatus EXCEPT ![r] = code]
    ELSE UNCHANGED <<logWrote, logStatus>>

-----------------------------------------------------------------------------
\* Into the chain.

\* Mutant: the gauge is not raised.
ArriveUncounted(r) ==
    /\ pc[r] = "new"
    /\ Goto(r, "chain")
    /\ UNCHANGED <<registry, scrapeVars, accessLog, method, logging, outerVars,
                   innerVars, wireVars, hijacked, panicked, line>>

\* Metrics, with RequestID before it and Recoverer and SecurityHeaders after.
Arrive(r) ==
    /\ pc[r] = "new"
    /\ inFlight' = inFlight + 1
    /\ Goto(r, "chain")
    /\ UNCHANGED <<requests, duration, scrapeVars, accessLog, method, logging,
                   outerVars, innerVars, wireVars, hijacked, panicked, line>>

\* AccessLog asks whether it is enabled once, on the way in.
ConsultAccessLog(r) ==
    /\ pc[r] = "chain"
    /\ logging' = IF accessLog THEN logging \cup {r} ELSE logging
    /\ Goto(r, "handler")
    /\ UNCHANGED <<metricsVars, accessLog, method, outerVars, innerVars, wireVars,
                   hijacked, panicked, line>>

-----------------------------------------------------------------------------
\* The handler.

HandlerWritesHeader(r, code) ==
    /\ pc[r] = "handler" /\ r \notin hijacked
    /\ InnerHeader(r, code)
    /\ IF r \in logging /\ logWrote[r] THEN UNCHANGED <<wrote, status, sent>>
       ELSE OuterHeader(r, code)
    /\ UNCHANGED <<metricsVars, accessLog, pc, method, logging, logBytes, body,
                   hijacked, panicked, line>>

HandlerWrites(r) ==
    /\ pc[r] = "handler" /\ r \notin hijacked
    /\ Len(body[r]) < MaxWrites
    /\ InnerHeader(r, 200)
    /\ logBytes' = IF r \in logging THEN [logBytes EXCEPT ![r] = @ + 1]
                   ELSE logBytes
    /\ OuterWrite(r, "handler")
    /\ UNCHANGED <<metricsVars, accessLog, pc, method, logging, hijacked, panicked,
                   line>>

\* The tunnel takes the connection before it has answered, by the Unwrap of
\* both recorders, and writes nothing more by them (websocket.go).
HandlerHijacks(r) ==
    /\ pc[r] = "handler"
    /\ sent[r] = 0 /\ r \notin hijacked
    /\ hijacked' = hijacked \cup {r}
    /\ UNCHANGED <<metricsVars, accessLog, pc, method, logging, outerVars,
                   innerVars, wireVars, panicked, line>>

\* It writes the 101 on the connection, unless the client is lost first, and then
\* frames.
HandlerTunnels(r) ==
    /\ pc[r] = "handler" /\ r \in hijacked
    /\ \/ /\ sent[r] = 0
          /\ sent' = [sent EXCEPT ![r] = SwitchingProtocols]
          /\ UNCHANGED body
       \/ /\ sent[r] = SwitchingProtocols
          /\ Len(body[r]) < MaxWrites
          /\ body' = [body EXCEPT ![r] = Append(@, "frame")]
          /\ UNCHANGED sent
    /\ UNCHANGED <<metricsVars, accessLog, pc, method, logging, outerVars,
                   innerVars, hijacked, panicked, line>>

HandlerReturns(r) ==
    /\ pc[r] = "handler"
    /\ line' = IF r \in logging
               THEN [line EXCEPT ![r] =
                       [status |-> logStatus[r], bytes |-> logBytes[r]]]
               ELSE line
    /\ Goto(r, "leave")
    /\ UNCHANGED <<metricsVars, accessLog, method, logging, outerVars, innerVars,
                   wireVars, hijacked, panicked>>

\* AccessLog is unwound without its line.
HandlerPanics(r) ==
    /\ pc[r] = "handler"
    /\ panicked' = panicked \cup {r}
    /\ Goto(r, "panicked")
    /\ UNCHANGED <<metricsVars, accessLog, method, logging, outerVars, innerVars,
                   wireVars, hijacked, line>>

-----------------------------------------------------------------------------
\* Out of the chain.

\* Mutant: the error is written without a status of its own.
RecoverWithoutHeader(r) ==
    /\ pc[r] = "panicked"
    /\ OuterWrite(r, "error")
    /\ Goto(r, "leave")
    /\ UNCHANGED <<metricsVars, accessLog, method, logging, innerVars, hijacked,
                   panicked, line>>

\* Recoverer: WriteHeader(500), then the error, which finds a header written.
Recover(r) ==
    /\ pc[r] = "panicked"
    /\ OuterHeader(r, 500)
    /\ body' = IF r \in hijacked THEN body
               ELSE [body EXCEPT ![r] = Append(@, "error")]
    /\ Goto(r, "leave")
    /\ UNCHANGED <<metricsVars, accessLog, method, logging, innerVars, hijacked,
                   panicked, line>>

\* Mutant: the gauge is not lowered after a panic.
LeaveGaugeUnlessPanicked(r) ==
    /\ pc[r] = "leave"
    /\ inFlight' = IF r \in panicked THEN inFlight ELSE inFlight - 1
    /\ Goto(r, "count")
    /\ UNCHANGED <<requests, duration, scrapeVars, accessLog, method, logging,
                   outerVars, innerVars, wireVars, hijacked, panicked, line>>

\* Metrics' deferred function: the gauge first,
LeaveGauge(r) ==
    /\ pc[r] = "leave"
    /\ inFlight' = inFlight - 1
    /\ Goto(r, "count")
    /\ UNCHANGED <<requests, duration, scrapeVars, accessLog, method, logging,
                   outerVars, innerVars, wireVars, hijacked, panicked, line>>

\* then the counter, under the status the recorder holds,
CountServed(r) ==
    /\ pc[r] = "count"
    /\ CountRequest(method[r], status[r])
    /\ Goto(r, "observe")
    /\ UNCHANGED <<inFlight, duration, scrapeVars, accessLog, method, logging,
                   outerVars, innerVars, wireVars, hijacked, panicked, line>>

\* then the histogram; net/http ends the response after it.
ObserveServed(r, latency) ==
    /\ pc[r] = "observe"
    /\ Observe(method[r], latency)
    /\ sent' = IF sent[r] = 0 /\ r \notin hijacked
               THEN [sent EXCEPT ![r] = 200] ELSE sent
    /\ Goto(r, "done")
    /\ UNCHANGED <<requests, inFlight, scrapeVars, accessLog, method, logging,
                   outerVars, innerVars, body, hijacked, panicked, line>>

ToggleAccessLog ==
    /\ accessLog' = ~accessLog
    /\ UNCHANGED <<metricsVars, pc, method, logging, outerVars, innerVars,
                   wireVars, hijacked, panicked, line>>

Step(r) ==
    \/ Arrive(r) \/ ConsultAccessLog(r)
    \/ \E code \in Codes : HandlerWritesHeader(r, code)
    \/ HandlerWrites(r) \/ HandlerHijacks(r) \/ HandlerTunnels(r)
    \/ HandlerReturns(r) \/ HandlerPanics(r) \/ Recover(r)
    \/ LeaveGauge(r) \/ CountServed(r)
    \/ \E latency \in Latencies : ObserveServed(r, latency)

ScrapeStep(s) ==
    /\ Scrape(s)
    /\ UNCHANGED <<accessLog, pc, method, logging, outerVars, innerVars,
                   wireVars, hijacked, panicked, line>>

Next ==
    \/ \E r \in Requests : Step(r)
    \/ \E s \in Scrapers : ScrapeStep(s)
    \/ ToggleAccessLog

Spec == Init /\ [][Next]_vars

-----------------------------------------------------------------------------
\* What the client was answered: on the connection its handler took over, if that
\* is what it did, where it may have been nothing.
Answered(r) == IF sent[r] # 0 \/ r \in hijacked THEN sent[r] ELSE 200

\* What the chain takes a request for.  Of a tunnel its recorders see neither the
\* 101 nor the frames, but their own default, or the error of a panic.
CountedAs(r) ==
    IF r \notin hijacked THEN Answered(r)
    ELSE IF r \in panicked THEN 500 ELSE 200

\* The gauge is the number of requests being served, and the counter's value
\* under a method and a code is the number of requests made with the one and
\* answered with the other, whatever a handler does or fails to do; to which every
\* tunnel adds one under 200, or 500 if its handler panicked, although its client
\* was sent 101.
GaugeIsTrue == inFlight = Cardinality(Serving)
Counts(counter, served) ==
    \A m \in Methods, c \in Codes :
        counter[m][c] =
          Cardinality({r \in served : method[r] = m /\ CountedAs(r) = c})
CountsAreTrue == Counts(requests, Finished)
MetricsTellTheTruth == GaugeIsTrue /\ CountsAreTrue

\* A page a scrape has read while requests came and went is coherent: the
\* requests it counts as served (a tunnel as CountedAs says) are over, those it
\* shows being served are among the others, and its buckets cumulate.
Cumulates(h) ==
    \A i \in 1 .. Buckets :
        h.counts[i] <= IF i = Buckets THEN h.count ELSE h.counts[i + 1]
ScrapesAreCoherent ==
    \A s \in Scrapers : Scraped(s) =>
        /\ \E served \in SUBSET Finished :
             /\ Counts(page[s].requests, served)
             /\ page[s].inFlight <= Cardinality(Entered \ served)
        /\ \A m \in Methods : Cumulates(page[s].duration[m])

\* A status on the wire is never replaced, a client that is told anything after its
\* handler panicked is told 500 and not that all went well, and nobody whose
\* handler did not panic is sent the error.
ErrorsSent(r) == {i \in DOMAIN body[r] : body[r][i] = "error"}
TellsOfPanics ==
    \A r \in Requests :
        /\ sent[r] # 0 => sent'[r] = sent[r]
        /\ r \in panicked /\ sent'[r] # sent[r] => sent'[r] = 500
        /\ ErrorsSent(r)' # {} => r \in panicked
PanicsAreTold == [][TellsOfPanics]_vars

\* A line of the access log says of a request what the client was answered and
\* how much it was sent, even if the log was switched on or off meanwhile; but of
\* a tunnel, whatever its client was sent, 200 and no bytes.
LogTellsTheTruth ==
    \A r \in Requests : line[r] # None =>
        /\ r \notin panicked
        /\ r \notin hijacked =>
             line[r].status = Answered(r) /\ line[r].bytes = Len(body[r])
        /\ r \in hijacked => line[r] = [status |-> 200, bytes |-> 0]
=============================================================================
