---------------------------- MODULE MiddlewareProofs ----------------------------
(***************************************************************************)
(* Theorems about Middleware for any requests, methods, codes and scrapes. *)
(* The argument: what Metrics' recorder holds is what the wire was told    *)
(* (or, if the connection was taken over, nothing but perhaps an error),   *)
(* AccessLog's holds what Metrics' does for as long as the handler runs,   *)
(* and a handler that panicked leaves its recorder written, whatever it    *)
(* had done, since Recoverer writes.  A scrape that has read the counters  *)
(* has counted the requests that were over then, and they stay over while  *)
(* it goes on to the gauge.                                                *)
(***************************************************************************)
EXTENDS Middleware, FiniteSetTheorems, TLAPS

\* Which requests have panicked, taken over and logged, by where they are.
StageInv ==
    \A r \in Requests :
        /\ pc[r] \in {"new", "chain"} =>
             /\ r \notin hijacked \cup logging
             /\ ~wrote[r] /\ ~logWrote[r] /\ logStatus[r] = 200
             /\ logBytes[r] = 0 /\ body[r] = <<>>
        /\ pc[r] \in {"new", "chain", "handler"} => r \notin panicked
        /\ pc[r] = "panicked" => r \in panicked
        /\ r \in panicked /\ pc[r] \notin {"handler", "panicked"} => wrote[r]

\* Metrics' recorder and the wire, which part when a connection is taken over.
WireInv ==
    \A r \in Requests :
        /\ ~wrote[r] =>
             /\ status[r] = 200
             /\ \/ r \in hijacked \/ sent[r] = 0
                \/ pc[r] = "done" /\ sent[r] = 200
        /\ r \notin hijacked /\ wrote[r] => sent[r] = status[r]
        /\ r \notin hijacked /\ ~wrote[r] => body[r] = <<>>
        /\ r \in hijacked /\ wrote[r] => r \in panicked /\ status[r] = 500

\* AccessLog's recorder and Metrics'.
RecordInv ==
    \A r \in Requests :
        r \in logging /\ pc[r] = "handler" =>
            /\ (logWrote[r] <=> wrote[r]) /\ logStatus[r] = status[r]
            /\ logBytes[r] = IF r \in hijacked THEN 0 ELSE Len(body[r])

\* The lines that were logged.
Past == {r \in Requests : pc[r] \notin {"new", "chain", "handler", "panicked"}}
LineInv ==
    \A r \in Requests : line[r] # None =>
        /\ r \in Past \ panicked
        /\ line[r].status = CountedAs(r)
        /\ line[r].bytes = IF r \in hijacked THEN 0 ELSE Len(body[r])
        /\ line[r] = [status |-> line[r].status, bytes |-> line[r].bytes]

\* Only Recoverer writes the error.
ErrorInv == \A r \in Requests : ErrorsSent(r) # {} => r \in panicked

\* What a scrape has read so far, of requests that were over when it read.
ReadsServed(s, served) == Counts(page[s].requests, served)
ReadsInFlight(s, served) ==
    page[s].inFlight \in Nat /\ page[s].inFlight <= Cardinality(Entered \ served)
HistogramInv == \A m \in Methods : Cumulates(duration[m])
ScrapeInv ==
    \A s \in Scrapers :
        /\ visiting[s] = "inFlight" =>
             \E served \in SUBSET Finished : ReadsServed(s, served)
        /\ visiting[s] = "duration" =>
             \E served \in SUBSET Finished :
                ReadsServed(s, served) /\ ReadsInFlight(s, served)
        /\ Scraped(s) =>
             /\ \E served \in SUBSET Finished :
                  ReadsServed(s, served) /\ ReadsInFlight(s, served)
             /\ \A m \in Methods : Cumulates(page[s].duration[m])

\* The inductive invariant.
IInv ==
    /\ TypeOK
    /\ StageInv /\ WireInv /\ RecordInv /\ LineInv /\ ErrorInv
    /\ GaugeIsTrue /\ CountsAreTrue
    /\ HistogramInv /\ ScrapeInv

-----------------------------------------------------------------------------
\* The invariant holds before the first request.
LEMMA InitIInv == Init => IInv
<1> SUFFICES ASSUME Init PROVE IInv
  OBVIOUS
<1> USE CodesAssumption DEF Init, MetricsInit
<1>1. MetricsTypeOK
  BY BucketsAssumption DEF MetricsTypeOK, Counter, Histogram, HistogramChild, NoPage
<1>2. ChainTypeOK
  BY DEF ChainTypeOK
<1>3. StageInv
  BY DEF StageInv
<1>8. WireInv
  <2>1. ASSUME NEW r \in Requests
        PROVE  ~wrote[r] /\ status[r] = 200 /\ sent[r] = 0
    OBVIOUS
  <2>. QED
    BY <2>1, Zenon DEF WireInv
<1>4. RecordInv /\ LineInv
  BY DEF RecordInv, LineInv
<1>5. ErrorInv
  BY DEF ErrorInv, ErrorsSent
<1>6. GaugeIsTrue
  <2>1. Serving = {}
    BY DEF Serving
  <2>. QED
    BY <2>1, FS_EmptySet DEF GaugeIsTrue
<1>7. CountsAreTrue
  <2>1. Finished = {}
    BY DEF Finished
  <2>2. ASSUME NEW m \in Methods, NEW c \in Codes
        PROVE  {r \in Finished : method[r] = m /\ CountedAs(r) = c} = {}
    BY <2>1
  <2>3. ASSUME NEW m \in Methods, NEW c \in Codes PROVE requests[m][c] = 0
    OBVIOUS
  <2>4. ASSUME NEW m \in Methods, NEW c \in Codes
        PROVE  Cardinality({r \in Finished : method[r] = m /\ CountedAs(r) = c}) = 0
    BY <2>2, FS_EmptySet
  <2>5. ASSUME NEW m \in Methods, NEW c \in Codes
        PROVE  requests[m][c] =
                 Cardinality({r \in Finished : method[r] = m /\ CountedAs(r) = c})
    BY <2>3, <2>4
  <2>. QED
    BY <2>5 DEF CountsAreTrue, Counts
<1>9. HistogramInv
  BY BucketsAssumption DEF HistogramInv, Cumulates
<1>10. ScrapeInv
  BY DEF ScrapeInv, Scraped
<1>. QED
  BY <1>1, <1>2, <1>3, <1>4, <1>5, <1>6, <1>7, <1>8, <1>9, <1>10 DEF IInv, TypeOK

\* A request being served is on the gauge.
LEMMA GaugeIsPositive ==
    ASSUME TypeOK, GaugeIsTrue, NEW r \in Serving PROVE inFlight \in Nat \ {0}
<1>1. IsFiniteSet(Serving)
  BY RequestsAssumption, FS_Subset DEF Serving
<1>2. Cardinality(Serving) # 0
  BY <1>1, FS_EmptySet
<1>. QED
  BY <1>2 DEF GaugeIsTrue, TypeOK, MetricsTypeOK

\* Every step keeps the metrics' types,
LEMMA NextMetricsType ==
    ASSUME TypeOK, GaugeIsTrue, [Next]_vars PROVE MetricsTypeOK'
<1> USE DEF MetricsTypeOK, registry, scrapeVars, TypeOK
<1>1. CASE UNCHANGED metricsVars
  BY <1>1 DEF metricsVars
<1>2. ASSUME NEW r \in Requests, Arrive(r) PROVE MetricsTypeOK'
  BY <1>2 DEF Arrive
<1>3. ASSUME NEW r \in Requests, LeaveGauge(r) PROVE MetricsTypeOK'
  <2>1. r \in Serving
    BY <1>3 DEF LeaveGauge, Serving
  <2>. QED
    BY <1>3, <2>1, GaugeIsPositive DEF LeaveGauge
<1>4. ASSUME NEW r \in Requests, CountServed(r) PROVE MetricsTypeOK'
  <2>1. method[r] \in Methods /\ status[r] \in Codes
    BY DEF ChainTypeOK
  <2>2. requests' \in Counter
    BY <1>4, <2>1 DEF CountServed, CountRequest, Counter
  <2>. QED
    BY <1>4, <2>2 DEF CountServed
<1>5. ASSUME NEW r \in Requests, NEW latency \in Latencies, ObserveServed(r, latency)
      PROVE  MetricsTypeOK'
  <2>1. method[r] \in Methods
    BY DEF ChainTypeOK
  <2>2. duration[method[r]] \in HistogramChild
    BY <2>1 DEF Histogram
  <2>3. Recorded(duration[method[r]], latency) \in HistogramChild
    <3> DEFINE child == duration[method[r]]
    <3>1. child.count \in Nat /\ \A i \in 1 .. Buckets : child.counts[i] \in Nat
      BY <2>2 DEF HistogramChild
    <3> HIDE DEF child
    <3>2. [i \in 1 .. Buckets |-> IF latency <= i THEN child.counts[i] + 1
                                 ELSE child.counts[i]]
          \in [1 .. Buckets -> Nat]
      BY <3>1
    <3>3. Recorded(child, latency) \in HistogramChild
      BY <3>1, <3>2 DEF Recorded, HistogramChild
    <3>. QED
      BY <3>3 DEF child
  <2>4. duration' \in Histogram
    BY <1>5, <2>1, <2>3 DEF ObserveServed, Observe, Histogram
  <2>. QED
    BY <1>5, <2>4 DEF ObserveServed
<1>6. ASSUME NEW s \in Scrapers, ScrapeStep(s) PROVE MetricsTypeOK'
  <2>1. ScrapeStarts(s) => MetricsTypeOK'
    BY DEF ScrapeStarts, NoPage
  <2>2. ScrapeRequests(s) => MetricsTypeOK'
    BY DEF ScrapeRequests
  <2>3. ScrapeInFlight(s) => MetricsTypeOK'
    BY DEF ScrapeInFlight
  <2>4. ScrapeDuration(s) => MetricsTypeOK'
    BY DEF ScrapeDuration
  <2>. QED
    BY <1>6, <2>1, <2>2, <2>3, <2>4 DEF ScrapeStep, Scrape
<1>7. ASSUME NEW r \in Requests,
             \/ ConsultAccessLog(r) \/ HandlerWrites(r) \/ HandlerHijacks(r)
             \/ HandlerTunnels(r) \/ HandlerReturns(r) \/ HandlerPanics(r) \/ Recover(r)
             \/ \E code \in Codes : HandlerWritesHeader(r, code)
      PROVE  UNCHANGED metricsVars
  BY <1>7 DEF ConsultAccessLog, HandlerWrites, HandlerHijacks, HandlerTunnels, HandlerReturns,
              HandlerPanics, Recover, HandlerWritesHeader
<1>8. CASE ToggleAccessLog \/ UNCHANGED vars
  BY <1>1, <1>8 DEF ToggleAccessLog, vars
<1>. QED
  BY <1>1, <1>2, <1>3, <1>4, <1>5, <1>6, <1>7, <1>8 DEF Next, Step

\* What WriteHeader does to Metrics' recorder and the wire,
LEMMA OuterEffect ==
    ASSUME ChainTypeOK, NEW r \in Requests, NEW code \in Codes, OuterHeader(r, code)
    PROVE  /\ wrote' \in [Requests -> BOOLEAN] /\ status' \in [Requests -> Codes]
           /\ sent' \in [Requests -> {0, SwitchingProtocols} \cup Codes]
           /\ wrote'[r]
           /\ status'[r] = IF wrote[r] THEN status[r] ELSE code
           /\ sent'[r] = IF wrote[r] \/ r \in hijacked THEN sent[r] ELSE code
           /\ \A q \in Requests \ {r} :
                wrote'[q] = wrote[q] /\ status'[q] = status[q] /\ sent'[q] = sent[q]
<1>1. CASE wrote[r]
  BY <1>1 DEF OuterHeader, ChainTypeOK
<1>2. CASE ~wrote[r]
  BY <1>2 DEF OuterHeader, ChainTypeOK
<1>. QED
  BY <1>1, <1>2

\* and to AccessLog's.
LEMMA InnerEffect ==
    ASSUME ChainTypeOK, NEW r \in Requests, NEW code \in Codes, InnerHeader(r, code)
    PROVE  /\ logWrote' \in [Requests -> BOOLEAN]
           /\ logStatus' \in [Requests -> Codes]
           /\ r \in logging => logWrote'[r]
           /\ r \in logging =>
                logStatus'[r] = IF logWrote[r] THEN logStatus[r] ELSE code
           /\ \A q \in Requests :
                q # r \/ r \notin logging =>
                  logWrote'[q] = logWrote[q] /\ logStatus'[q] = logStatus[q]
<1>1. CASE r \in logging /\ ~logWrote[r]
  BY <1>1 DEF InnerHeader, ChainTypeOK
<1>2. CASE ~(r \in logging /\ ~logWrote[r])
  BY <1>2 DEF InnerHeader, ChainTypeOK
<1>. QED
  BY <1>1, <1>2

\* and the chain's.
LEMMA NextChainType ==
    ASSUME TypeOK, [Next]_vars PROVE ChainTypeOK'
<1> USE CodesAssumption DEF TypeOK, ChainTypeOK, outerVars,
        innerVars, wireVars, Lines, Parts, SwitchingProtocols
<1>1. ASSUME NEW r \in Requests, Arrive(r) PROVE ChainTypeOK'
  BY <1>1 DEF Arrive, Goto
<1>2. ASSUME NEW r \in Requests, ConsultAccessLog(r) PROVE ChainTypeOK'
  BY <1>2 DEF ConsultAccessLog, Goto
<1>3. ASSUME NEW r \in Requests, NEW code \in Codes, HandlerWritesHeader(r, code)
      PROVE  ChainTypeOK'
  <2>1. CASE r \in logging /\ logWrote[r]
    BY <1>3, <2>1, InnerEffect DEF HandlerWritesHeader
  <2>2. CASE ~(r \in logging /\ logWrote[r])
    BY <1>3, <2>2, InnerEffect, OuterEffect DEF HandlerWritesHeader
  <2>. QED
    BY <2>1, <2>2
<1>4. ASSUME NEW r \in Requests, HandlerWrites(r) PROVE ChainTypeOK'
  BY <1>4, InnerEffect, OuterEffect DEF HandlerWrites, OuterWrite
<1>5. ASSUME NEW r \in Requests, HandlerHijacks(r) PROVE ChainTypeOK'
  BY <1>5 DEF HandlerHijacks
<1>6. ASSUME NEW r \in Requests, HandlerReturns(r) PROVE ChainTypeOK'
  BY <1>6 DEF HandlerReturns, Goto
<1>7. ASSUME NEW r \in Requests, HandlerPanics(r) PROVE ChainTypeOK'
  BY <1>7 DEF HandlerPanics, Goto
<1>8. ASSUME NEW r \in Requests, Recover(r) PROVE ChainTypeOK'
  BY <1>8, OuterEffect DEF Recover, Goto
<1>9. ASSUME NEW r \in Requests, LeaveGauge(r) PROVE ChainTypeOK'
  BY <1>9 DEF LeaveGauge, Goto
<1>10. ASSUME NEW r \in Requests, CountServed(r) PROVE ChainTypeOK'
  BY <1>10 DEF CountServed, CountRequest, Goto
<1>11. ASSUME NEW r \in Requests, NEW latency \in Latencies, ObserveServed(r, latency)
      PROVE  ChainTypeOK'
  BY <1>11 DEF ObserveServed, Observe, Goto
<1>12. ASSUME NEW s \in Scrapers, ScrapeStep(s) PROVE ChainTypeOK'
  BY <1>12 DEF ScrapeStep, Scrape, ScrapeStarts, ScrapeRequests,
          ScrapeInFlight, ScrapeDuration, registry
<1>13. ASSUME NEW r \in Requests, HandlerTunnels(r)
      PROVE  ChainTypeOK'
  <2>1. CASE sent' = [sent EXCEPT ![r] = SwitchingProtocols] /\ body' = body
    BY <1>13, <2>1 DEF HandlerTunnels
  <2>2. CASE sent' = sent /\ body' = [body EXCEPT ![r] = Append(@, "frame")]
    <3>1. Append(body[r], "frame") \in Seq(Parts)
      OBVIOUS
    <3>2. body' \in [Requests -> Seq(Parts)]
      BY <2>2, <3>1
    <3>. QED
      BY <1>13, <2>2, <3>2 DEF HandlerTunnels
  <2>. QED
    BY <1>13, <2>1, <2>2 DEF HandlerTunnels
<1>14. CASE ToggleAccessLog
  BY <1>14 DEF ToggleAccessLog
<1>15. CASE UNCHANGED vars
  BY <1>15 DEF vars
<1>. QED
  BY <1>1, <1>2, <1>3, <1>4, <1>5, <1>6, <1>7, <1>8,
     <1>9, <1>10, <1>11, <1>12, <1>13, <1>14, <1>15
     DEF Next, Step

\* Each stage of the chain is left as it promises.
LEMMA NextStage ==
    ASSUME TypeOK, StageInv, [Next]_vars PROVE StageInv'
<1> USE CodesAssumption DEF TypeOK, ChainTypeOK, outerVars, innerVars, wireVars,
        metricsVars, registry, scrapeVars, StageInv
<1>1. ASSUME NEW r \in Requests, Arrive(r) PROVE StageInv'
  BY <1>1 DEF Arrive, Goto
<1>2. ASSUME NEW r \in Requests, ConsultAccessLog(r) PROVE StageInv'
  BY <1>2 DEF ConsultAccessLog, Goto
<1>3. ASSUME NEW r \in Requests, NEW code \in Codes, HandlerWritesHeader(r, code)
      PROVE  StageInv'
  <2>1. CASE r \in logging /\ logWrote[r]
    BY <1>3, <2>1, InnerEffect DEF HandlerWritesHeader
  <2>2. CASE ~(r \in logging /\ logWrote[r])
    BY <1>3, <2>2, InnerEffect, OuterEffect DEF HandlerWritesHeader
  <2>. QED
    BY <2>1, <2>2
<1>4. ASSUME NEW r \in Requests, HandlerWrites(r) PROVE StageInv'
  BY <1>4 DEF HandlerWrites, InnerHeader, OuterWrite, OuterHeader
<1>5. ASSUME NEW r \in Requests, HandlerHijacks(r) PROVE StageInv'
  BY <1>5 DEF HandlerHijacks
<1>6. ASSUME NEW r \in Requests, HandlerReturns(r) PROVE StageInv'
  BY <1>6 DEF HandlerReturns, Goto
<1>7. ASSUME NEW r \in Requests, HandlerPanics(r) PROVE StageInv'
  BY <1>7 DEF HandlerPanics, Goto
<1>8. ASSUME NEW r \in Requests, Recover(r) PROVE StageInv'
  BY <1>8 DEF Recover, OuterHeader, Goto
<1>9. ASSUME NEW r \in Requests, LeaveGauge(r) PROVE StageInv'
  BY <1>9 DEF LeaveGauge, Goto
<1>10. ASSUME NEW r \in Requests, CountServed(r) PROVE StageInv'
  BY <1>10 DEF CountServed, CountRequest, Goto
<1>11. ASSUME NEW r \in Requests, NEW latency \in Latencies, ObserveServed(r, latency)
      PROVE  StageInv'
  BY <1>11 DEF ObserveServed, Observe, Goto
<1>12. ASSUME NEW s \in Scrapers, ScrapeStep(s) PROVE StageInv'
  BY <1>12 DEF ScrapeStep, Scrape, ScrapeStarts, ScrapeRequests,
          ScrapeInFlight, ScrapeDuration, registry
<1>13. ASSUME NEW r \in Requests, HandlerTunnels(r)
      PROVE  StageInv'
  BY <1>13 DEF HandlerTunnels
<1>14. CASE ToggleAccessLog
  BY <1>14 DEF ToggleAccessLog
<1>15. CASE UNCHANGED vars
  BY <1>15 DEF vars
<1>. QED
  BY <1>1, <1>2, <1>3, <1>4, <1>5, <1>6, <1>7, <1>8,
     <1>9, <1>10, <1>11, <1>12, <1>13, <1>14, <1>15
     DEF Next, Step

\* A header that is recorded is sent, and one that is not recorded is not.
LEMMA NextWire ==
    ASSUME TypeOK, StageInv, WireInv, [Next]_vars PROVE WireInv'
<1> USE CodesAssumption DEF TypeOK, ChainTypeOK, outerVars, innerVars, wireVars,
        metricsVars, registry, scrapeVars,
        StageInv, WireInv
<1>1. ASSUME NEW r \in Requests, Arrive(r) PROVE WireInv'
  BY <1>1 DEF Arrive, Goto
<1>2. ASSUME NEW r \in Requests, ConsultAccessLog(r) PROVE WireInv'
  BY <1>2 DEF ConsultAccessLog, Goto
<1>3. ASSUME NEW r \in Requests, NEW code \in Codes, HandlerWritesHeader(r, code)
      PROVE  WireInv'
  <2>1. CASE r \in logging /\ logWrote[r]
    BY <1>3, <2>1 DEF HandlerWritesHeader
  <2>2. CASE ~(r \in logging /\ logWrote[r])
    <3>1. OuterHeader(r, code)
      BY <1>3, <2>2 DEF HandlerWritesHeader
    <3>. QED
      BY <1>3, <3>1, OuterEffect DEF HandlerWritesHeader
  <2>. QED
    BY <2>1, <2>2
<1>4. ASSUME NEW r \in Requests, HandlerWrites(r) PROVE WireInv'
  BY <1>4 DEF HandlerWrites, InnerHeader, OuterWrite, OuterHeader
<1>5. ASSUME NEW r \in Requests, HandlerHijacks(r) PROVE WireInv'
  BY <1>5 DEF HandlerHijacks
<1>6. ASSUME NEW r \in Requests, HandlerReturns(r) PROVE WireInv'
  BY <1>6 DEF HandlerReturns, Goto
<1>7. ASSUME NEW r \in Requests, HandlerPanics(r) PROVE WireInv'
  BY <1>7 DEF HandlerPanics, Goto
<1>8. ASSUME NEW r \in Requests, Recover(r) PROVE WireInv'
  BY <1>8 DEF Recover, OuterHeader, Goto
<1>9. ASSUME NEW r \in Requests, LeaveGauge(r) PROVE WireInv'
  BY <1>9 DEF LeaveGauge, Goto
<1>10. ASSUME NEW r \in Requests, CountServed(r) PROVE WireInv'
  BY <1>10 DEF CountServed, CountRequest, Goto
<1>11. ASSUME NEW r \in Requests, NEW latency \in Latencies, ObserveServed(r, latency)
      PROVE  WireInv'
  BY <1>11 DEF ObserveServed, Observe, Goto
<1>12. ASSUME NEW s \in Scrapers, ScrapeStep(s) PROVE WireInv'
  BY <1>12 DEF ScrapeStep, Scrape, ScrapeStarts, ScrapeRequests,
          ScrapeInFlight, ScrapeDuration, registry
<1>13. ASSUME NEW r \in Requests, HandlerTunnels(r)
      PROVE  WireInv'
  BY <1>13 DEF HandlerTunnels
<1>14. CASE ToggleAccessLog
  BY <1>14 DEF ToggleAccessLog
<1>15. CASE UNCHANGED vars
  BY <1>15 DEF vars
<1>. QED
  BY <1>1, <1>2, <1>3, <1>4, <1>5, <1>6, <1>7, <1>8,
     <1>9, <1>10, <1>11, <1>12, <1>13, <1>14, <1>15
     DEF Next, Step

\* The inner recorder sees what the outer one sees while the handler runs.
LEMMA NextRecord ==
    ASSUME TypeOK, StageInv, WireInv, RecordInv, [Next]_vars PROVE RecordInv'
<1> USE CodesAssumption DEF TypeOK, ChainTypeOK, outerVars, innerVars, wireVars,
        metricsVars, registry, scrapeVars,
        StageInv, WireInv, RecordInv
<1>1. ASSUME NEW r \in Requests, Arrive(r) PROVE RecordInv'
  BY <1>1 DEF Arrive, Goto
<1>2. ASSUME NEW r \in Requests, ConsultAccessLog(r) PROVE RecordInv'
  BY <1>2 DEF ConsultAccessLog, Goto
<1>3. ASSUME NEW r \in Requests, NEW code \in Codes, HandlerWritesHeader(r, code)
      PROVE  RecordInv'
  <2>1. CASE r \in logging /\ logWrote[r]
    BY <1>3, <2>1, InnerEffect DEF HandlerWritesHeader
  <2>2. CASE ~(r \in logging /\ logWrote[r])
    <3>1. InnerHeader(r, code) /\ OuterHeader(r, code)
      BY <1>3, <2>2 DEF HandlerWritesHeader
    <3>2. r \in logging =>
            /\ logWrote'[r] /\ wrote'[r]
            /\ logStatus'[r] = status'[r]
            /\ logBytes'[r] = IF r \in hijacked' THEN 0 ELSE Len(body'[r])
      <4>1. /\ logBytes' = logBytes /\ body' = body /\ hijacked' = hijacked
            /\ pc[r] = "handler" /\ logging' = logging
        BY <1>3 DEF HandlerWritesHeader
      <4>2. r \in logging => (logWrote[r] <=> wrote[r]) /\ logStatus[r] = status[r]
        BY <4>1
      <4>3. r \in logging => logWrote'[r] /\ wrote'[r] /\ logStatus'[r] = status'[r]
        BY <3>1, <4>2, InnerEffect, OuterEffect
      <4>. QED
        BY <4>1, <4>3
    <3>3. \A q \in Requests \ {r} :
            /\ logWrote'[q] = logWrote[q] /\ logStatus'[q] = logStatus[q]
            /\ wrote'[q] = wrote[q] /\ status'[q] = status[q]
      BY <3>1, InnerEffect, OuterEffect
    <3>4. /\ logging' = logging /\ pc' = pc /\ hijacked' = hijacked
          /\ logBytes' = logBytes /\ body' = body
      BY <1>3 DEF HandlerWritesHeader
    <3>5. ASSUME NEW q \in Requests, q \in logging', pc'[q] = "handler"
          PROVE  /\ (logWrote'[q] <=> wrote'[q]) /\ logStatus'[q] = status'[q]
                 /\ logBytes'[q] = IF q \in hijacked' THEN 0 ELSE Len(body'[q])
      <4>1. CASE q = r
        BY <3>2, <3>4, <3>5, <4>1
      <4>2. CASE q # r
        <5>1. /\ (logWrote[q] <=> wrote[q]) /\ logStatus[q] = status[q]
              /\ logBytes[q] = IF q \in hijacked THEN 0 ELSE Len(body[q])
          BY <3>4, <3>5
        <5>. QED
          BY <3>3, <3>4, <4>2, <5>1
      <4>. QED
        BY <4>1, <4>2
    <3>. HIDE DEF TypeOK, ChainTypeOK, StageInv, WireInv
    <3>. QED
      BY <3>5
  <2>. QED
    BY <2>1, <2>2
<1>4. ASSUME NEW r \in Requests, HandlerWrites(r) PROVE RecordInv'
  <2>1. InnerHeader(r, 200) /\ OuterHeader(r, 200)
    BY <1>4 DEF HandlerWrites, OuterWrite
  <2>2. Len(body'[r]) = Len(body[r]) + 1
    BY <1>4 DEF HandlerWrites, OuterWrite, Parts
  <2>3. r \in logging => logBytes'[r] = logBytes[r] + 1
    BY <1>4 DEF HandlerWrites
  <2>4. r \in logging =>
          /\ logWrote'[r] /\ wrote'[r]
          /\ logStatus'[r] = status'[r]
          /\ logBytes'[r] = Len(body'[r])
    <3>1. r \in logging => logBytes'[r] = Len(body'[r])
      BY <1>4, <2>2, <2>3 DEF HandlerWrites
    <3>2. r \in logging =>
            (logWrote[r] <=> wrote[r]) /\ logStatus[r] = status[r]
      BY <1>4 DEF HandlerWrites
    <3>3. r \in logging =>
            logWrote'[r] /\ wrote'[r] /\ logStatus'[r] = status'[r]
      BY <2>1, <3>2, InnerEffect, OuterEffect
    <3>. QED
      BY <3>1, <3>3
  <2>5. \A q \in Requests \ {r} :
          /\ logWrote'[q] = logWrote[q] /\ logStatus'[q] = logStatus[q]
          /\ wrote'[q] = wrote[q] /\ status'[q] = status[q]
          /\ logBytes'[q] = logBytes[q] /\ body'[q] = body[q]
    BY <1>4, <2>1, InnerEffect, OuterEffect DEF HandlerWrites, OuterWrite
  <2>. QED
    BY <1>4, <2>4, <2>5 DEF HandlerWrites
<1>5. ASSUME NEW r \in Requests, HandlerHijacks(r) PROVE RecordInv'
  BY <1>5 DEF HandlerHijacks
<1>6. ASSUME NEW r \in Requests, HandlerReturns(r) PROVE RecordInv'
  BY <1>6 DEF HandlerReturns, Goto
<1>7. ASSUME NEW r \in Requests, HandlerPanics(r) PROVE RecordInv'
  BY <1>7 DEF HandlerPanics, Goto
<1>8. ASSUME NEW r \in Requests, Recover(r) PROVE RecordInv'
  BY <1>8 DEF Recover, OuterHeader, Goto
<1>9. ASSUME NEW r \in Requests, LeaveGauge(r) PROVE RecordInv'
  BY <1>9 DEF LeaveGauge, Goto
<1>10. ASSUME NEW r \in Requests, CountServed(r) PROVE RecordInv'
  BY <1>10 DEF CountServed, CountRequest, Goto
<1>11. ASSUME NEW r \in Requests, NEW latency \in Latencies, ObserveServed(r, latency)
      PROVE  RecordInv'
  BY <1>11 DEF ObserveServed, Observe, Goto
<1>12. ASSUME NEW s \in Scrapers, ScrapeStep(s) PROVE RecordInv'
  BY <1>12 DEF ScrapeStep, Scrape, ScrapeStarts, ScrapeRequests,
          ScrapeInFlight, ScrapeDuration, registry
<1>13. ASSUME NEW r \in Requests, HandlerTunnels(r)
      PROVE  RecordInv'
  <2>1. \A q \in Requests \ {r} : body'[q] = body[q]
    BY <1>13 DEF HandlerTunnels
  <2>. QED
    BY <1>13, <2>1 DEF HandlerTunnels
<1>14. CASE ToggleAccessLog
  BY <1>14 DEF ToggleAccessLog
<1>15. CASE UNCHANGED vars
  BY <1>15 DEF vars
<1>. QED
  BY <1>1, <1>2, <1>3, <1>4, <1>5, <1>6, <1>7, <1>8,
     <1>9, <1>10, <1>11, <1>12, <1>13, <1>14, <1>15
     DEF Next, Step

\* A request past its handler is taken for what it was taken for.
LEMMA PastStays ==
    ASSUME TypeOK, StageInv, WireInv, NEW q \in Past, [Next]_vars 
    PROVE  q \in Past' /\ UNCHANGED <<CountedAs(q), body[q], q \in panicked, q \in hijacked>>
<1> USE CodesAssumption DEF TypeOK, ChainTypeOK, outerVars, innerVars, wireVars,
        metricsVars, registry, scrapeVars,
        StageInv, WireInv, CountedAs, Answered, Past
<1>1. ASSUME NEW r \in Requests, Arrive(r)
      PROVE  q \in Past' /\ UNCHANGED <<CountedAs(q), body[q], q \in panicked, q \in hijacked>>
  BY <1>1 DEF Arrive, Goto
<1>2. ASSUME NEW r \in Requests, ConsultAccessLog(r)
      PROVE  q \in Past' /\ UNCHANGED <<CountedAs(q), body[q], q \in panicked, q \in hijacked>>
  BY <1>2 DEF ConsultAccessLog, Goto
<1>3. ASSUME NEW r \in Requests, NEW code \in Codes, HandlerWritesHeader(r, code)
      PROVE  q \in Past' /\ UNCHANGED <<CountedAs(q), body[q], q \in panicked, q \in hijacked>>
  BY <1>3 DEF HandlerWritesHeader, InnerHeader,
          OuterHeader
<1>4. ASSUME NEW r \in Requests, HandlerWrites(r)
      PROVE  q \in Past' /\ UNCHANGED <<CountedAs(q), body[q], q \in panicked, q \in hijacked>>
  BY <1>4 DEF HandlerWrites, InnerHeader, OuterWrite, OuterHeader
<1>5. ASSUME NEW r \in Requests, HandlerHijacks(r)
      PROVE  q \in Past' /\ UNCHANGED <<CountedAs(q), body[q], q \in panicked, q \in hijacked>>
  BY <1>5 DEF HandlerHijacks
<1>6. ASSUME NEW r \in Requests, HandlerReturns(r)
      PROVE  q \in Past' /\ UNCHANGED <<CountedAs(q), body[q], q \in panicked, q \in hijacked>>
  BY <1>6 DEF HandlerReturns, Goto
<1>7. ASSUME NEW r \in Requests, HandlerPanics(r)
      PROVE  q \in Past' /\ UNCHANGED <<CountedAs(q), body[q], q \in panicked, q \in hijacked>>
  BY <1>7 DEF HandlerPanics, Goto
<1>8. ASSUME NEW r \in Requests, Recover(r)
      PROVE  q \in Past' /\ UNCHANGED <<CountedAs(q), body[q], q \in panicked, q \in hijacked>>
  BY <1>8 DEF Recover, OuterHeader, Goto
<1>9. ASSUME NEW r \in Requests, LeaveGauge(r)
      PROVE  q \in Past' /\ UNCHANGED <<CountedAs(q), body[q], q \in panicked, q \in hijacked>>
  BY <1>9 DEF LeaveGauge, Goto
<1>10. ASSUME NEW r \in Requests, CountServed(r)
      PROVE  q \in Past' /\ UNCHANGED <<CountedAs(q), body[q], q \in panicked, q \in hijacked>>
  BY <1>10 DEF CountServed, CountRequest, Goto
<1>11. ASSUME NEW r \in Requests, NEW latency \in Latencies, ObserveServed(r, latency)
      PROVE  q \in Past' /\ UNCHANGED <<CountedAs(q), body[q], q \in panicked, q \in hijacked>>
  BY <1>11 DEF ObserveServed, Observe, Goto
<1>12. ASSUME NEW s \in Scrapers, ScrapeStep(s)
      PROVE  q \in Past' /\ UNCHANGED <<CountedAs(q), body[q], q \in panicked, q \in hijacked>>
  BY <1>12 DEF ScrapeStep, Scrape, ScrapeStarts, ScrapeRequests,
          ScrapeInFlight, ScrapeDuration, registry
<1>13. ASSUME NEW r \in Requests, HandlerTunnels(r)
      PROVE  q \in Past' /\ UNCHANGED <<CountedAs(q), body[q], q \in panicked, q \in hijacked>>
  BY <1>13 DEF HandlerTunnels
<1>14. CASE ToggleAccessLog
  BY <1>14 DEF ToggleAccessLog
<1>15. CASE UNCHANGED vars
  BY <1>15 DEF vars
<1>. QED
  BY <1>1, <1>2, <1>3, <1>4, <1>5, <1>6, <1>7, <1>8,
     <1>9, <1>10, <1>11, <1>12, <1>13, <1>14, <1>15
     DEF Next, Step

\* A line is logged of what its recorder holds, and stays true.
LEMMA NextLine ==
    ASSUME TypeOK, StageInv, WireInv, RecordInv, LineInv, [Next]_vars PROVE LineInv'
<1>1. ASSUME NEW r \in Requests, HandlerReturns(r) PROVE LineInv'
  <2>1. r \in Past' /\ r \notin panicked' /\ body' = body /\ hijacked' = hijacked
    BY <1>1 DEF HandlerReturns, Goto, Past, TypeOK, ChainTypeOK, StageInv, wireVars
  <2>2. CountedAs(r)' = status[r]
    BY <1>1, CodesAssumption DEF HandlerReturns, CountedAs, Answered, StageInv, WireInv,
       wireVars, TypeOK, ChainTypeOK
  <2>3. r \in logging =>
          line'[r] = [status |-> status[r],
                      bytes |-> IF r \in hijacked THEN 0 ELSE Len(body[r])]
    BY <1>1 DEF HandlerReturns, RecordInv, TypeOK, ChainTypeOK
  <2>4. r \notin logging => line'[r] = line[r]
    BY <1>1 DEF HandlerReturns
  <2>5. line[r] = None
    BY <1>1 DEF HandlerReturns, LineInv, Past
  <2>6. \A q \in Requests \ {r} : line'[q] = line[q]
    BY <1>1 DEF HandlerReturns, TypeOK, ChainTypeOK
  <2>. QED
    BY <2>1, <2>2, <2>3, <2>4, <2>5, <2>6, PastStays DEF LineInv
<1>2. CASE line' = line
  BY <1>2, PastStays DEF LineInv
<1>3. line' = line \/ \E r \in Requests : HandlerReturns(r)
  BY DEF Next, Step, Arrive, ConsultAccessLog, HandlerWritesHeader, HandlerWrites,
         HandlerHijacks, HandlerTunnels, HandlerPanics, Recover, LeaveGauge, CountServed,
         ObserveServed, ScrapeStep, ToggleAccessLog, vars
<1>. QED
  BY <1>1, <1>2, <1>3

\* A handler's writes are its own.
LEMMA NextError ==
    ASSUME TypeOK, StageInv, ErrorInv, [Next]_vars PROVE ErrorInv'
<1> USE CodesAssumption DEF TypeOK, ChainTypeOK, outerVars, innerVars, wireVars,
        metricsVars, registry, scrapeVars,
        StageInv, ErrorInv, ErrorsSent
<1>1. ASSUME NEW r \in Requests, Arrive(r) PROVE ErrorInv'
  BY <1>1 DEF Arrive, Goto
<1>2. ASSUME NEW r \in Requests, ConsultAccessLog(r) PROVE ErrorInv'
  BY <1>2 DEF ConsultAccessLog, Goto
<1>3. ASSUME NEW r \in Requests, NEW code \in Codes, HandlerWritesHeader(r, code)
      PROVE  ErrorInv'
  BY <1>3 DEF HandlerWritesHeader, InnerHeader,
          OuterHeader
<1>4. ASSUME NEW r \in Requests, HandlerWrites(r) PROVE ErrorInv'
  BY <1>4 DEF HandlerWrites, InnerHeader, OuterWrite, OuterHeader
<1>5. ASSUME NEW r \in Requests, HandlerHijacks(r) PROVE ErrorInv'
  BY <1>5 DEF HandlerHijacks
<1>6. ASSUME NEW r \in Requests, HandlerReturns(r) PROVE ErrorInv'
  BY <1>6 DEF HandlerReturns, Goto
<1>7. ASSUME NEW r \in Requests, HandlerPanics(r) PROVE ErrorInv'
  BY <1>7 DEF HandlerPanics, Goto
<1>8. ASSUME NEW r \in Requests, Recover(r) PROVE ErrorInv'
  BY <1>8 DEF Recover, OuterHeader, Goto
<1>9. ASSUME NEW r \in Requests, LeaveGauge(r) PROVE ErrorInv'
  BY <1>9 DEF LeaveGauge, Goto
<1>10. ASSUME NEW r \in Requests, CountServed(r) PROVE ErrorInv'
  BY <1>10 DEF CountServed, CountRequest, Goto
<1>11. ASSUME NEW r \in Requests, NEW latency \in Latencies, ObserveServed(r, latency)
      PROVE  ErrorInv'
  BY <1>11 DEF ObserveServed, Observe, Goto
<1>12. ASSUME NEW s \in Scrapers, ScrapeStep(s) PROVE ErrorInv'
  BY <1>12 DEF ScrapeStep, Scrape, ScrapeStarts, ScrapeRequests,
          ScrapeInFlight, ScrapeDuration, registry
<1>13. ASSUME NEW r \in Requests, HandlerTunnels(r)
      PROVE  ErrorInv'
  <2>1. CASE body' = body
    BY <1>13, <2>1 DEF HandlerTunnels
  <2>2. CASE body' = [body EXCEPT ![r] = Append(@, "frame")]
    <3>1. body[r] \in Seq(Parts)
      OBVIOUS
    <3>2. \A i \in DOMAIN body'[r] : body'[r][i] = "error"
                                      => i \in DOMAIN body[r] /\ body[r][i] = "error"
      BY <2>2, <3>1
    <3>. QED
      BY <1>13, <2>2, <3>2 DEF HandlerTunnels
  <2>. QED
    BY <1>13, <2>1, <2>2 DEF HandlerTunnels
<1>14. CASE ToggleAccessLog
  BY <1>14 DEF ToggleAccessLog
<1>15. CASE UNCHANGED vars
  BY <1>15 DEF vars
<1>. QED
  BY <1>1, <1>2, <1>3, <1>4, <1>5, <1>6, <1>7, <1>8,
     <1>9, <1>10, <1>11, <1>12, <1>13, <1>14, <1>15
     DEF Next, Step

\* What a step does to the wire.
LEMMA NextTells ==
    ASSUME TypeOK, StageInv, WireInv, ErrorInv, ErrorInv', [Next]_vars PROVE TellsOfPanics
<1> USE CodesAssumption DEF TypeOK, ChainTypeOK, outerVars, innerVars, wireVars,
        metricsVars, registry, scrapeVars,
        StageInv, WireInv, ErrorInv, TellsOfPanics
<1>1. ASSUME NEW r \in Requests, Arrive(r) PROVE TellsOfPanics
  BY <1>1 DEF Arrive, Goto
<1>2. ASSUME NEW r \in Requests, ConsultAccessLog(r) PROVE TellsOfPanics
  BY <1>2 DEF ConsultAccessLog, Goto
<1>3. ASSUME NEW r \in Requests, NEW code \in Codes, HandlerWritesHeader(r, code)
      PROVE  TellsOfPanics
  BY <1>3 DEF HandlerWritesHeader, InnerHeader,
          OuterHeader
<1>4. ASSUME NEW r \in Requests, HandlerWrites(r) PROVE TellsOfPanics
  BY <1>4 DEF HandlerWrites, InnerHeader, OuterWrite, OuterHeader
<1>5. ASSUME NEW r \in Requests, HandlerHijacks(r) PROVE TellsOfPanics
  BY <1>5 DEF HandlerHijacks
<1>6. ASSUME NEW r \in Requests, HandlerReturns(r) PROVE TellsOfPanics
  BY <1>6 DEF HandlerReturns, Goto
<1>7. ASSUME NEW r \in Requests, HandlerPanics(r) PROVE TellsOfPanics
  BY <1>7 DEF HandlerPanics, Goto, ErrorsSent
<1>8. ASSUME NEW r \in Requests, Recover(r) PROVE TellsOfPanics
  BY <1>8 DEF Recover, OuterHeader, Goto
<1>9. ASSUME NEW r \in Requests, LeaveGauge(r) PROVE TellsOfPanics
  BY <1>9 DEF LeaveGauge, Goto
<1>10. ASSUME NEW r \in Requests, CountServed(r) PROVE TellsOfPanics
  BY <1>10 DEF CountServed, CountRequest, Goto
<1>11. ASSUME NEW r \in Requests, NEW latency \in Latencies, ObserveServed(r, latency)
      PROVE  TellsOfPanics
  BY <1>11 DEF ObserveServed, Observe, Goto
<1>12. ASSUME NEW s \in Scrapers, ScrapeStep(s) PROVE TellsOfPanics
  BY <1>12 DEF ScrapeStep, Scrape, ScrapeStarts, ScrapeRequests,
          ScrapeInFlight, ScrapeDuration, registry
<1>13. ASSUME NEW r \in Requests, HandlerTunnels(r)
      PROVE  TellsOfPanics
  BY <1>13 DEF HandlerTunnels
<1>14. CASE ToggleAccessLog
  BY <1>14 DEF ToggleAccessLog
<1>15. CASE UNCHANGED vars
  BY <1>15 DEF vars
<1>. QED
  BY <1>1, <1>2, <1>3, <1>4, <1>5, <1>6, <1>7, <1>8,
     <1>9, <1>10, <1>11, <1>12, <1>13, <1>14, <1>15
     DEF Next, Step

-----------------------------------------------------------------------------
\* The gauge is raised and lowered with the requests being served.
LEMMA NextGauge ==
    ASSUME TypeOK, GaugeIsTrue, [Next]_vars PROVE GaugeIsTrue'
<1> USE DEF Serving, GaugeIsTrue, TypeOK, ChainTypeOK, MetricsTypeOK
<1>1. IsFiniteSet(Serving)
  BY RequestsAssumption, FS_Subset
<1>2. ASSUME NEW r \in Requests, Arrive(r) PROVE GaugeIsTrue'
  <2>1. r \notin Serving /\ Serving' = Serving \cup {r} /\ inFlight' = inFlight + 1
    BY <1>2 DEF Arrive, Goto
  <2>. HIDE DEF Serving
  <2>. QED
    BY <1>1, <2>1, FS_AddElement
<1>3. ASSUME NEW r \in Requests, LeaveGauge(r) PROVE GaugeIsTrue'
  <2>1. r \in Serving /\ Serving' = Serving \ {r} /\ inFlight' = inFlight - 1
    BY <1>3 DEF LeaveGauge, Goto
  <2>. HIDE DEF Serving
  <2>. QED
    BY <1>1, <2>1, FS_RemoveElement
<1>4. ASSUME NEW r \in Requests,
             \/ ConsultAccessLog(r) \/ HandlerReturns(r)
             \/ HandlerPanics(r) \/ Recover(r) \/ CountServed(r)
      PROVE  GaugeIsTrue'
  <2>1. Serving' = Serving /\ inFlight' = inFlight
    BY <1>4 DEF ConsultAccessLog, HandlerReturns, HandlerPanics, Recover,
                CountServed, Goto, metricsVars, registry
  <2>. QED
    BY <2>1
<1>5. ASSUME NEW r \in Requests, NEW latency \in Latencies, ObserveServed(r, latency)
      PROVE  GaugeIsTrue'
  <2>1. Serving' = Serving /\ inFlight' = inFlight
    BY <1>5 DEF ObserveServed, Goto
  <2>. QED
    BY <2>1
<1>6. CASE UNCHANGED <<pc, inFlight>>
  BY <1>6
<1>7. ASSUME NEW r \in Requests,
             \/ HandlerWrites(r) \/ HandlerHijacks(r) \/ HandlerTunnels(r)
             \/ \E code \in Codes : HandlerWritesHeader(r, code)
      PROVE  UNCHANGED <<pc, inFlight>>
  BY <1>7 DEF HandlerWrites, HandlerHijacks, HandlerTunnels, HandlerWritesHeader, metricsVars,
              registry
<1>8. ASSUME NEW s \in Scrapers, ScrapeStep(s) PROVE UNCHANGED <<pc, inFlight>>
  BY <1>8 DEF ScrapeStep, Scrape, ScrapeStarts, ScrapeRequests, ScrapeInFlight,
              ScrapeDuration, registry
<1>9. CASE ToggleAccessLog \/ UNCHANGED vars
  BY <1>6, <1>9 DEF ToggleAccessLog, vars, metricsVars, registry
<1>. QED
  BY <1>2, <1>3, <1>4, <1>5, <1>6, <1>7, <1>8, <1>9 DEF Next, Step

\* A counter's value is the number of its requests.
LEMMA NextCounts ==
    ASSUME TypeOK, StageInv, WireInv, CountsAreTrue, [Next]_vars
    PROVE  CountsAreTrue'
<1> DEFINE Under(m, c) == {r \in Finished : method[r] = m /\ CountedAs(r) = c}
<1>1. ASSUME NEW m, NEW c PROVE IsFiniteSet(Under(m, c))
  BY RequestsAssumption, FS_Subset DEF Finished
<1>2. method' = method /\ Finished \subseteq Past
  BY DEF Finished, Past, Next, Step, Arrive, ConsultAccessLog, HandlerWritesHeader,
         HandlerWrites, HandlerHijacks, HandlerTunnels, HandlerReturns, HandlerPanics, Recover,
         LeaveGauge, CountServed, ObserveServed, ScrapeStep, ToggleAccessLog, vars
<1>3. ASSUME NEW r \in Requests, CountServed(r) PROVE CountsAreTrue'
  <2>1. r \in Requests \ Finished /\ Finished' = Finished \cup {r}
    BY <1>3 DEF CountServed, Goto, Finished, TypeOK, ChainTypeOK
  <2>2. CountedAs(r) = status[r] /\ CountedAs(r)' = CountedAs(r)
    BY <1>3, CodesAssumption
       DEF CountServed, CountedAs, Answered, StageInv, WireInv, TypeOK, ChainTypeOK, wireVars
  <2>3. \A q \in Finished : CountedAs(q)' = CountedAs(q)
    BY <1>2, PastStays
  <2>4. ASSUME NEW m \in Methods, NEW c \in Codes
        PROVE  requests'[m][c] = Cardinality(Under(m, c)')
    <3>1. requests[m][c] = Cardinality(Under(m, c)) /\ requests[m][c] \in Nat
      BY DEF CountsAreTrue, Counts, TypeOK, MetricsTypeOK, Counter
    <3>2. CASE method[r] = m /\ status[r] = c
      <4>1. Under(m, c)' = Under(m, c) \cup {r}
        BY <1>2, <2>1, <2>2, <2>3, <3>2
      <4>2. requests'[m][c] = requests[m][c] + 1
        BY <1>3, <3>2 DEF CountServed, CountRequest, TypeOK, MetricsTypeOK, Counter
      <4>3. r \notin Under(m, c)
        BY <2>1
      <4>. HIDE DEF Under
      <4>. QED
        BY <1>1, <3>1, <4>1, <4>2, <4>3, FS_AddElement
    <3>3. CASE ~(method[r] = m /\ status[r] = c)
      <4>1. Under(m, c)' = Under(m, c)
        BY <1>2, <2>1, <2>2, <2>3, <3>3
      <4>2. requests'[m][c] = requests[m][c]
        BY <1>3, <3>3 DEF CountServed, CountRequest, TypeOK, MetricsTypeOK, Counter
      <4>. QED
        BY <3>1, <4>1, <4>2
    <3>. QED
      BY <3>2, <3>3
  <2>. QED
    BY <2>4 DEF CountsAreTrue, Counts
<1>4. CASE Finished' = Finished /\ requests' = requests
  <2>1. \A q \in Finished : CountedAs(q)' = CountedAs(q)
    BY <1>2, PastStays
  <2>2. ASSUME NEW m \in Methods, NEW c \in Codes
        PROVE  requests'[m][c] = Cardinality(Under(m, c)')
    <3>1. Under(m, c)' = Under(m, c)
      BY <1>2, <1>4, <2>1
    <3>. QED
      BY <1>4, <3>1 DEF CountsAreTrue, Counts
  <2>. QED
    BY <2>2 DEF CountsAreTrue, Counts
<1>5. \/ Finished' = Finished /\ requests' = requests
      \/ \E r \in Requests : CountServed(r)
  <2> USE DEF Finished, TypeOK, ChainTypeOK, metricsVars, registry, Goto
  <2>1. ASSUME NEW r \in Requests,
               \/ Arrive(r) \/ ConsultAccessLog(r) \/ HandlerReturns(r)
               \/ HandlerPanics(r) \/ Recover(r) \/ LeaveGauge(r)
               \/ \E latency \in Latencies : ObserveServed(r, latency)
        PROVE  Finished' = Finished /\ requests' = requests
    BY <2>1 DEF Arrive, ConsultAccessLog, HandlerReturns, HandlerPanics, Recover,
                LeaveGauge, ObserveServed
  <2>2. CASE UNCHANGED <<pc, requests>>
    BY <2>2
  <2>3. ASSUME NEW r \in Requests,
               \/ HandlerWrites(r) \/ HandlerHijacks(r) \/ HandlerTunnels(r)
               \/ \E code \in Codes : HandlerWritesHeader(r, code)
        PROVE  UNCHANGED <<pc, requests>>
    BY <2>3 DEF HandlerWrites, HandlerHijacks, HandlerTunnels, HandlerWritesHeader
  <2>4. ASSUME NEW s \in Scrapers, ScrapeStep(s) PROVE UNCHANGED <<pc, requests>>
    BY <2>4 DEF ScrapeStep, Scrape, ScrapeStarts, ScrapeRequests, ScrapeInFlight,
                ScrapeDuration
  <2>5. CASE ToggleAccessLog \/ UNCHANGED vars
    BY <2>2, <2>5 DEF ToggleAccessLog, vars
  <2>. QED
    BY <2>1, <2>2, <2>3, <2>4, <2>5 DEF Next, Step
<1>. QED
  BY <1>3, <1>4, <1>5

-----------------------------------------------------------------------------
\* A value that falls into a bucket falls into all that follow.
LEMMA RecordedCumulates ==
    ASSUME NEW child \in HistogramChild, NEW latency \in Latencies, Cumulates(child)
    PROVE  Cumulates(Recorded(child, latency))
<1>1. child.count \in Nat /\ \A i \in 1 .. Buckets : child.counts[i] \in Nat
  BY DEF HistogramChild
<1>2. Recorded(child, latency).count = child.count + 1
  BY DEF Recorded
<1>3. ASSUME NEW i \in 1 .. Buckets
      PROVE  Recorded(child, latency).counts[i] =
               IF latency <= i THEN child.counts[i] + 1 ELSE child.counts[i]
  BY DEF Recorded
<1>. QED
  BY <1>1, <1>2, <1>3, BucketsAssumption DEF Cumulates, Latencies

\* Only an observation changes a histogram.
LEMMA NextHistogram ==
    ASSUME TypeOK, HistogramInv, [Next]_vars PROVE HistogramInv'
<1>1. ASSUME NEW r \in Requests, NEW latency \in Latencies, ObserveServed(r, latency)
      PROVE  HistogramInv'
  <2>1. method[r] \in Methods /\ duration \in [Methods -> HistogramChild]
    BY DEF TypeOK, ChainTypeOK, MetricsTypeOK, Histogram
  <2>2. \A m \in Methods :
          duration'[m] = IF m = method[r] THEN Recorded(duration[m], latency)
                         ELSE duration[m]
    BY <1>1, <2>1 DEF ObserveServed, Observe
  <2>. QED
    BY <2>1, <2>2, RecordedCumulates DEF HistogramInv
<1>2. CASE UNCHANGED duration
  BY <1>2 DEF HistogramInv, Cumulates
<1>3. \/ UNCHANGED duration
      \/ \E r \in Requests, latency \in Latencies : ObserveServed(r, latency)
  BY DEF Next, Step, Arrive, ConsultAccessLog, HandlerWritesHeader, HandlerWrites,
         HandlerHijacks, HandlerTunnels, HandlerReturns, HandlerPanics, Recover, LeaveGauge,
         CountServed, ScrapeStep, Scrape, ScrapeStarts, ScrapeRequests,
         ScrapeInFlight, ScrapeDuration, ToggleAccessLog, vars, metricsVars, registry
<1>. QED
  BY <1>1, <1>2, <1>3

\* A request that has entered has entered for good, one that is over is over.
LEMMA RequestsGoOn ==
    ASSUME TypeOK, [Next]_vars
    PROVE  Entered \subseteq Entered' /\ Finished \subseteq Finished' /\ method' = method
<1> USE DEF Entered, Finished, TypeOK, ChainTypeOK, Goto
<1>1. ASSUME NEW r \in Requests, Step(r)
      PROVE  Entered \subseteq Entered' /\ Finished \subseteq Finished'
  BY <1>1 DEF Step, Arrive, ConsultAccessLog, HandlerWritesHeader, HandlerWrites,
         HandlerHijacks, HandlerTunnels, HandlerReturns, HandlerPanics, Recover, LeaveGauge,
         CountServed, ObserveServed
<1>2. (\E s \in Scrapers : ScrapeStep(s)) \/ ToggleAccessLog \/ UNCHANGED vars
      => pc' = pc
  BY DEF ScrapeStep, ToggleAccessLog, vars
<1>3. method' = method
  BY DEF Next, Step, Arrive, ConsultAccessLog, HandlerWritesHeader, HandlerWrites,
         HandlerHijacks, HandlerTunnels, HandlerReturns, HandlerPanics, Recover, LeaveGauge,
         CountServed, ObserveServed, ScrapeStep, ToggleAccessLog, vars
<1>. QED
  BY <1>1, <1>2, <1>3 DEF Next

\* So what a scrape has read stays true of the requests it counted,
LEMMA ReadsServedStays ==
    ASSUME TypeOK, StageInv, WireInv, [Next]_vars, NEW served \in SUBSET Finished,
           NEW s, page'[s].requests = page[s].requests, ReadsServed(s, served)
    PROVE  served \in SUBSET Finished' /\ ReadsServed(s, served)'
<1>1. method' = method /\ \A q \in served : CountedAs(q)' = CountedAs(q)
  BY RequestsGoOn, PastStays DEF Finished, Past
<1>2. ASSUME NEW m \in Methods, NEW c \in Codes
      PROVE  page'[s].requests[m][c] =
               Cardinality({r \in served : method'[r] = m /\ CountedAs(r)' = c})
  <2>1. page[s].requests[m][c] =
          Cardinality({r \in served : method[r] = m /\ CountedAs(r) = c})
    BY DEF ReadsServed, Counts
  <2>2. {r \in served : method[r] = m /\ CountedAs(r) = c}
          = {r \in served : method'[r] = m /\ CountedAs(r)' = c}
    BY <1>1
  <2>. QED
    BY <2>1, <2>2
<1>3. ReadsServed(s, served)'
  BY <1>2 DEF ReadsServed, Counts
<1>. QED
  BY <1>3, RequestsGoOn

\* and no fewer are being served.
LEMMA ReadsInFlightStays ==
    ASSUME TypeOK, [Next]_vars, NEW served,
           NEW s, page'[s].inFlight = page[s].inFlight, ReadsInFlight(s, served)
    PROVE  ReadsInFlight(s, served)'
<1> DEFINE others == Entered \ served
           later == Entered' \ served
<1>1. others \in SUBSET later /\ later \in SUBSET Requests
  BY RequestsGoOn DEF Entered
<1>2. IsFiniteSet(later) /\ IsFiniteSet(others)
  BY <1>1, RequestsAssumption, FS_Subset
<1>3. Cardinality(others) <= Cardinality(later)
      /\ Cardinality(others) \in Nat /\ Cardinality(later) \in Nat
  BY <1>1, <1>2, FS_Subset, FS_CardinalityType
<1>. QED
  BY <1>3 DEF ReadsInFlight

\* A scrape reads what is true when it reads it.
LEMMA NextScrape ==
    ASSUME TypeOK, StageInv, WireInv, GaugeIsTrue, CountsAreTrue, HistogramInv,
           ScrapeInv, [Next]_vars
    PROVE  ScrapeInv'
<1> DEFINE Served(s) == \E served \in SUBSET Finished : ReadsServed(s, served)
           Both(s) == \E served \in SUBSET Finished :
                        ReadsServed(s, served) /\ ReadsInFlight(s, served)
           Buckled(s) == \A m \in Methods : Cumulates(page[s].duration[m])
<1>1. ScrapeInv <=> \A s \in Scrapers :
        /\ visiting[s] = "inFlight" => Served(s)
        /\ visiting[s] = "duration" => Both(s)
        /\ Scraped(s) => Both(s) /\ Buckled(s)
  BY DEF ScrapeInv
<1>2. ScrapeInv' <=> \A s \in Scrapers :
        /\ visiting'[s] = "inFlight" => Served(s)'
        /\ visiting'[s] = "duration" => Both(s)'
        /\ Scraped(s)' => Both(s)' /\ Buckled(s)'
  BY DEF ScrapeInv
<1>3. page \in [Scrapers -> [requests : {None} \cup Counter, inFlight : {None} \cup Nat,
                            duration : {None} \cup Histogram]]
      /\ DOMAIN visiting = Scrapers
  BY DEF TypeOK, MetricsTypeOK
<1>4. ASSUME NEW s \in Scrapers, page'[s].requests = page[s].requests, Served(s)
      PROVE  Served(s)'
  BY <1>4, ReadsServedStays
<1>5. ASSUME NEW s \in Scrapers, page'[s].requests = page[s].requests,
             page'[s].inFlight = page[s].inFlight, Both(s)
      PROVE  Both(s)'
  <2>1. PICK served \in SUBSET Finished : ReadsServed(s, served) /\ ReadsInFlight(s, served)
    BY <1>5
  <2>2. ReadsServed(s, served)'
    BY <1>5, <2>1, ReadsServedStays
  <2>3. ReadsInFlight(s, served)'
    BY <1>5, <2>1, ReadsInFlightStays
  <2>. QED
    BY <1>5, <2>1, <2>2, <2>3, ReadsServedStays
<1>6. ASSUME NEW s \in Scrapers, page'[s] = page[s], visiting'[s] = visiting[s]
      PROVE  /\ visiting'[s] = "inFlight" => Served(s)'
             /\ visiting'[s] = "duration" => Both(s)'
             /\ Scraped(s)' => Both(s)' /\ Buckled(s)'
  BY <1>1, <1>4, <1>5, <1>6 DEF Scraped, Cumulates
<1>7. ASSUME NEW s \in Scrapers, ScrapeStep(s)
      PROVE  /\ visiting'[s] = "inFlight" => Served(s)'
             /\ visiting'[s] = "duration" => Both(s)'
             /\ Scraped(s)' => Both(s)' /\ Buckled(s)'
  <2>1. CASE ScrapeStarts(s)
    BY <1>3, <2>1 DEF ScrapeStarts, Scraped
  <2>2. CASE ScrapeRequests(s)
    <3>1. visiting'[s] = "inFlight" /\ page'[s].requests = requests
      BY <1>3, <2>2 DEF ScrapeRequests
    <3>2. ReadsServed(s, Finished)'
      BY <1>7, <2>2, <3>1
         DEF ScrapeStep, ScrapeRequests, CountsAreTrue, Counts, ReadsServed, Finished,
             CountedAs, Answered, wireVars
    <3>3. Served(s)'
      BY <3>2
    <3>. QED
      BY <3>1, <3>3 DEF Scraped
  <2>3. CASE ScrapeInFlight(s)
    <3>1. /\ visiting[s] = "inFlight" /\ visiting'[s] = "duration"
          /\ page'[s].requests = page[s].requests /\ page'[s].inFlight = inFlight
      BY <1>3, <2>3 DEF ScrapeInFlight
    <3>2. PICK served \in SUBSET Finished : ReadsServed(s, served)
      BY <1>1, <3>1
    <3>3. ReadsServed(s, served)'
      BY <3>1, <3>2, ReadsServedStays
    <3>4. Entered' = Entered /\ Serving \in SUBSET (Entered \ served)
      BY <1>7 DEF ScrapeStep, Entered, Serving, Finished
    <3>5. IsFiniteSet(Entered \ served)
      BY RequestsAssumption, FS_Subset DEF Entered
    <3>6. inFlight \in Nat /\ inFlight <= Cardinality(Entered \ served)
      BY <3>4, <3>5, FS_Subset DEF GaugeIsTrue, TypeOK, MetricsTypeOK
    <3>7. ReadsInFlight(s, served)'
      BY <3>1, <3>4, <3>6 DEF ReadsInFlight
    <3>8. Both(s)'
      BY <3>1, <3>2, <3>3, <3>7, ReadsServedStays
    <3>. QED
      BY <3>1, <3>8 DEF Scraped
  <2>4. CASE ScrapeDuration(s)
    <3>1. /\ visiting[s] = "duration" /\ visiting'[s] = "idle"
          /\ page'[s].requests = page[s].requests
          /\ page'[s].inFlight = page[s].inFlight /\ page'[s].duration = duration
      BY <1>3, <2>4 DEF ScrapeDuration
    <3>2. Both(s)'
      BY <1>1, <1>5, <3>1
    <3>3. Buckled(s)'
      BY <3>1 DEF HistogramInv, Cumulates
    <3>. QED
      BY <3>1, <3>2, <3>3
  <2>. QED
    BY <1>7, <2>1, <2>2, <2>3, <2>4 DEF ScrapeStep, Scrape
<1>8. ASSUME NEW s \in Scrapers
      PROVE  ScrapeStep(s) \/ (page'[s] = page[s] /\ visiting'[s] = visiting[s])
  <2>1. ASSUME NEW t \in Scrapers \ {s}, ScrapeStep(t)
        PROVE  page'[s] = page[s] /\ visiting'[s] = visiting[s]
    BY <1>3, <2>1 DEF ScrapeStep, Scrape, ScrapeStarts, ScrapeRequests,
                      ScrapeInFlight, ScrapeDuration
  <2>2. ASSUME NEW r \in Requests, Step(r) PROVE UNCHANGED scrapeVars
    BY <2>2 DEF Step, Arrive, ConsultAccessLog, HandlerWritesHeader, HandlerWrites,
         HandlerHijacks, HandlerTunnels, HandlerReturns, HandlerPanics, Recover, LeaveGauge,
         CountServed, ObserveServed, metricsVars
  <2>3. ToggleAccessLog \/ UNCHANGED vars => UNCHANGED scrapeVars
    BY DEF ToggleAccessLog, vars, metricsVars
  <2>. QED
    BY <2>1, <2>2, <2>3 DEF Next, scrapeVars
<1>. HIDE DEF Served, Both, Buckled
<1>. QED
  BY <1>2, <1>6, <1>7, <1>8

\* The conjuncts together are inductive.
LEMMA NextIInv == IInv /\ [Next]_vars => IInv'
<1> SUFFICES ASSUME IInv, [Next]_vars PROVE IInv'
  OBVIOUS
<1>1. TypeOK'
  BY NextMetricsType, NextChainType DEF IInv, TypeOK
<1>2. StageInv' /\ WireInv' /\ RecordInv' /\ LineInv' /\ ErrorInv'
  BY NextStage, NextWire, NextRecord, NextLine, NextError DEF IInv
<1>3. GaugeIsTrue' /\ CountsAreTrue'
  BY NextGauge, NextCounts DEF IInv
<1>4. HistogramInv' /\ ScrapeInv'
  BY NextHistogram, NextScrape DEF IInv
<1>. QED
  BY <1>1, <1>2, <1>3, <1>4 DEF IInv

\* The strengthened invariant holds throughout.
LEMMA Inductive == Spec => []IInv
BY InitIInv, NextIInv, PTL DEF Spec

-----------------------------------------------------------------------------
\* Every variable keeps its type: the gauge never falls below zero among them.
THEOREM TypeCorrect == Spec => []TypeOK
<1>1. IInv => TypeOK
  BY DEF IInv
<1>. QED
  BY <1>1, Inductive, PTL

\* The gauge is the requests being served and a counter is the requests answered
\* with its code, through panics and second headers, together with the tunnels
\* that are taken for answers of that code.
THEOREM MetricsAreTrue == Spec => []MetricsTellTheTruth
<1>1. IInv => MetricsTellTheTruth
  BY DEF IInv, MetricsTellTheTruth
<1>. QED
  BY <1>1, Inductive, PTL

\* A page of /metrics counts no request twice, though the vectors are read one
\* after another while requests come and go.
THEOREM ScrapesCohere == Spec => []ScrapesAreCoherent
<1>1. IInv => ScrapesAreCoherent
  BY DEF IInv, ScrapeInv, ReadsServed, ReadsInFlight, ScrapesAreCoherent
<1>. QED
  BY <1>1, Inductive, PTL

\* Recoverer tells a client that was told nothing, and no other.
THEOREM PanicsAreAnswered == Spec => PanicsAreTold
<1>1. IInv /\ IInv' /\ [Next]_vars => TellsOfPanics
  BY NextTells DEF IInv
<1>. QED
  BY <1>1, Inductive, PTL DEF Spec, PanicsAreTold

\* A line of the access log is what the client saw, though the log was switched
\* while the request was on its way; of a tunnel it is 200 and nothing sent.
THEOREM LogIsTrue == Spec => []LogTellsTheTruth
<1>1. IInv => LogTellsTheTruth
  <2>1. SUFFICES ASSUME IInv, NEW r \in Requests, line[r] # None
        PROVE  /\ r \notin panicked
               /\ r \notin hijacked =>
                    line[r].status = Answered(r) /\ line[r].bytes = Len(body[r])
               /\ r \in hijacked => line[r] = [status |-> 200, bytes |-> 0]
    BY DEF LogTellsTheTruth
  <2>2. /\ r \notin panicked /\ line[r].status = CountedAs(r)
        /\ line[r].bytes = IF r \in hijacked THEN 0 ELSE Len(body[r])
        /\ line[r] = [status |-> line[r].status, bytes |-> line[r].bytes]
    BY <2>1 DEF IInv, LineInv
  <2>. QED
    BY <2>2 DEF CountedAs
<1>. QED
  BY <1>1, Inductive, PTL
=============================================================================
