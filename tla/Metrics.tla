------------------------------ MODULE Metrics ------------------------------
(***************************************************************************)
(* The metrics registry (server/internal/metrics/metrics.go) with the      *)
(* three HTTP vectors the control plane registers, and the scrapes of the  *)
(* metrics listener.  A vector's mutex makes each update, and each visit   *)
(* of a scrape, one step; the registry's lock is only ever read-locked     *)
(* once the server is built, so scrapes and updates interleave freely.     *)
(* A label pair nothing was counted under has no child: it counts 0.  The  *)
(* text format and the sum of a histogram's values are left out.           *)
(***************************************************************************)
EXTENDS Naturals

CONSTANTS
    Methods,    \* the methods requests are made with
    Codes,      \* the status codes they are answered with
    Buckets,    \* how many upper bounds a histogram has, +Inf not counted
    Scrapers,   \* the scrapes that may be under way at once
    None

ASSUME BucketsAssumption == Buckets \in Nat

VARIABLES
    requests,   \* bumshi_http_requests_total, by method and code
    inFlight,   \* bumshi_http_requests_in_flight
    duration,   \* bumshi_http_request_duration_seconds, by method
    visiting,   \* the vector each scrape is to visit next
    page        \* what each scrape has read

registry == <<requests, inFlight, duration>>
scrapeVars == <<visiting, page>>
metricsVars == <<registry, scrapeVars>>

\* A latency is known by the first bucket whose bound it does not exceed.
Latencies == 1 .. Buckets + 1

Counter == [Methods -> [Codes -> Nat]]
HistogramChild == [counts : [1 .. Buckets -> Nat], count : Nat]
Histogram == [Methods -> HistogramChild]

NoPage == [requests |-> None, inFlight |-> None, duration |-> None]

MetricsTypeOK ==
    /\ requests \in Counter
    /\ inFlight \in Nat
    /\ duration \in Histogram
    /\ visiting \in [Scrapers -> {"idle", "requests", "inFlight", "duration"}]
    /\ page \in [Scrapers -> [requests : {None} \cup Counter,
                              inFlight : {None} \cup Nat,
                              duration : {None} \cup Histogram]]

MetricsInit ==
    /\ requests = [m \in Methods |-> [c \in Codes |-> 0]]
    /\ inFlight = 0
    /\ duration = [m \in Methods |->
         [counts |-> [i \in 1 .. Buckets |-> 0], count |-> 0]]
    /\ visiting = [s \in Scrapers |-> "idle"]
    /\ page = [s \in Scrapers |-> NoPage]

-----------------------------------------------------------------------------
\* CounterVec.Add, GaugeVec.Add and HistogramVec.Observe.

CountRequest(m, c) == requests' = [requests EXCEPT ![m][c] = @ + 1]

Recorded(child, latency) ==
    [counts |-> [i \in 1 .. Buckets |->
         IF latency <= i THEN child.counts[i] + 1 ELSE child.counts[i]],
     count |-> child.count + 1]

Observe(m, latency) ==
    duration' = [duration EXCEPT ![m] = Recorded(@, latency)]

-----------------------------------------------------------------------------
\* Registry.Handler: the vectors in the order they were registered.

ScrapeStarts(s) ==
    /\ visiting[s] = "idle"
    /\ visiting' = [visiting EXCEPT ![s] = "requests"]
    /\ page' = [page EXCEPT ![s] = NoPage]
    /\ UNCHANGED registry

ScrapeRequests(s) ==
    /\ visiting[s] = "requests"
    /\ visiting' = [visiting EXCEPT ![s] = "inFlight"]
    /\ page' = [page EXCEPT ![s].requests = requests]
    /\ UNCHANGED registry

ScrapeInFlight(s) ==
    /\ visiting[s] = "inFlight"
    /\ visiting' = [visiting EXCEPT ![s] = "duration"]
    /\ page' = [page EXCEPT ![s].inFlight = inFlight]
    /\ UNCHANGED registry

ScrapeDuration(s) ==
    /\ visiting[s] = "duration"
    /\ visiting' = [visiting EXCEPT ![s] = "idle"]
    /\ page' = [page EXCEPT ![s].duration = duration]
    /\ UNCHANGED registry

Scrape(s) ==
    \/ ScrapeStarts(s) \/ ScrapeRequests(s)
    \/ ScrapeInFlight(s) \/ ScrapeDuration(s)

Scraped(s) == visiting[s] = "idle" /\ page[s] # NoPage
=============================================================================
