-------------------------- MODULE ServerLifecycle --------------------------
(***************************************************************************)
(* The life of the process once server.New has built it                    *)
(* (server/internal/server/server.go, Run and shutdown; health.go): one    *)
(* goroutine per listener, a Run that waits for a signal or for a listener *)
(* to fail, and a shutdown that drains the listeners one after another     *)
(* under a single deadline.  net/http's Server is modelled from how Run    *)
(* uses it: ListenAndServe, and a Shutdown that closes the listener first  *)
(* and then waits for the requests in progress.  A connection that a       *)
(* handler has taken over, as a WebSocket request does (websocket.go,      *)
(* Hijack), is no longer net/http's: Shutdown neither waits for it nor     *)
(* closes it, and nothing is registered that would.  It lasts until an end *)
(* of it leaves, or until the process ends after Run.                      *)
(***************************************************************************)
EXTENDS Naturals, Sequences

Listeners == {"main", "metrics", "admin"}

\* Mutant: room for the error Run receives and for one more.
ErrChRoomForOne == 1

\* make(chan error, 3)
ErrChCapacity == 3

VARIABLES
    panel,      \* s.admin is not nil
    signalled,  \* the context is cancelled: SIGINT or SIGTERM
    ready,      \* health.Checker.ready
    listener,   \* where each listener's goroutine is
    closing,    \* the servers Shutdown was called on
    busy,       \* the servers with requests in progress that net/http knows of
    tunnels,    \* there are connections that handlers of the control plane took over
    errCh,      \* the errors reported and not received, by listener
    stage,      \* where Run is
    draining,   \* the server Run is shutting down, or is to shut down next
    expired,    \* the shutdown timeout has run out
    runErr      \* the listener whose error Run returns, or "nil"

serverVars == <<panel, signalled, ready, listener, closing, busy, tunnels, errCh,
          stage, draining, expired, runErr>>

\* The servers that exist.
Built == {"main", "metrics"} \cup (IF panel THEN {"admin"} ELSE {})

\* The order of the calls in Server.shutdown.
After(l) ==
    CASE l = "main" -> "metrics"
      [] l = "metrics" -> IF panel THEN "admin" ELSE "nothing"
      [] l = "admin" -> "nothing"

\* Run's variables keep their types; it closes and waits for only the servers it
\* built.
ServerTypeOK ==
    /\ panel \in BOOLEAN /\ signalled \in BOOLEAN
    /\ ready \in BOOLEAN /\ expired \in BOOLEAN
    /\ tunnels \in BOOLEAN
    /\ listener \in [Listeners ->
         {"new", "starting", "checked", "bound", "serving", "failed", "done"}]
    /\ closing \subseteq Built
    /\ busy \subseteq Built
    /\ errCh \in Seq(Listeners) /\ Len(errCh) <= ErrChCapacity
    /\ stage \in {"select", "selected", "shutdown", "drain", "wait", "returned"}
    /\ draining \in Built \cup {"nothing"}
    /\ runErr \in Listeners \cup {"nil"}

RunInit ==
    /\ panel \in BOOLEAN
    /\ signalled = FALSE /\ ready = FALSE /\ expired = FALSE
    /\ listener = [l \in Listeners |->
         IF l = "admin" /\ ~panel THEN "done"
         ELSE IF l = "main" THEN "new" ELSE "starting"]
    /\ closing = {} /\ busy = {} /\ tunnels = FALSE
    /\ errCh = <<>>
    /\ stage = "select" /\ draining = "main"
    /\ runErr = "nil"

-----------------------------------------------------------------------------
\* The goroutine of a listener.

runVars == <<stage, draining, expired, runErr>>

inProgress == <<busy, tunnels>>

GoroutineAt(l, label) == listener' = [listener EXCEPT ![l] = label]

\* The control plane declares itself ready before it listens.
SetReady ==
    /\ listener["main"] = "new"
    /\ ready' = TRUE
    /\ GoroutineAt("main", "starting")
    /\ UNCHANGED <<panel, signalled, closing, inProgress, errCh, runVars>>

\* ListenAndServe refuses at once when Shutdown was called before it.
ListenAndServe(l) ==
    /\ listener[l] = "starting"
    /\ GoroutineAt(l, IF l \in closing THEN "done" ELSE "checked")
    /\ UNCHANGED <<panel, signalled, ready, closing, inProgress, errCh, runVars>>

Bind(l) ==
    /\ listener[l] = "checked"
    /\ GoroutineAt(l, "bound")
    /\ UNCHANGED <<panel, signalled, ready, closing, inProgress, errCh, runVars>>

\* The address is in use, or the listener fails later while serving.
Fails(l) ==
    /\ \/ listener[l] = "checked"
       \/ listener[l] = "serving" /\ l \notin closing
    /\ GoroutineAt(l, "failed")
    /\ UNCHANGED <<panel, signalled, ready, closing, inProgress, errCh, runVars>>

\* Serve registers the listener, unless Shutdown came in between.
Serve(l) ==
    /\ listener[l] = "bound"
    /\ GoroutineAt(l, IF l \in closing THEN "done" ELSE "serving")
    /\ UNCHANGED <<panel, signalled, ready, closing, inProgress, errCh, runVars>>

\* The send blocks while the channel is full.
Report(l) ==
    /\ listener[l] = "failed"
    /\ Len(errCh) < ErrChCapacity
    /\ errCh' = Append(errCh, l)
    /\ GoroutineAt(l, "done")
    /\ UNCHANGED <<panel, signalled, ready, closing, inProgress, runVars>>

\* Shutdown closed the listener: http.ErrServerClosed, which is not reported.
Closed(l) ==
    /\ listener[l] = "serving" /\ l \in closing
    /\ GoroutineAt(l, "done")
    /\ UNCHANGED <<panel, signalled, ready, closing, inProgress, errCh, runVars>>

Accept(l) ==
    /\ listener[l] = "serving" /\ l \notin closing
    /\ busy' = busy \cup {l}
    /\ UNCHANGED <<panel, signalled, ready, listener, closing, tunnels, errCh, runVars>>

\* The last request in progress ends; nothing obliges a client to let it.
Finish(l) ==
    /\ l \in busy
    /\ busy' = busy \ {l}
    /\ UNCHANGED <<panel, signalled, ready, listener, closing, tunnels, errCh, runVars>>

\* A WebSocket request takes its connection over; there may be other requests.
\* The panel's and the metrics' handlers take none.
Hijack ==
    /\ "main" \in busy
    /\ tunnels' = TRUE
    /\ busy' \in {busy, busy \ {"main"}}
    /\ UNCHANGED <<panel, signalled, ready, listener, closing, errCh, runVars>>

\* The last tunnel ends; nothing obliges its peers to end it.
TunnelsEnd ==
    /\ tunnels
    /\ tunnels' = FALSE
    /\ UNCHANGED <<panel, signalled, ready, listener, closing, busy, errCh, runVars>>

-----------------------------------------------------------------------------
\* The goroutine of Run.

listenerVars == <<panel, listener, inProgress>>

Signal ==
    /\ ~signalled
    /\ signalled' = TRUE
    /\ UNCHANGED <<ready, closing, errCh, listenerVars, runVars>>

SelectSignal ==
    /\ stage = "select" /\ signalled
    /\ stage' = "selected"
    /\ UNCHANGED <<signalled, ready, closing, errCh, draining, expired, runErr,
                   listenerVars>>

SelectError ==
    /\ stage = "select" /\ errCh # <<>>
    /\ runErr' = Head(errCh)
    /\ errCh' = Tail(errCh)
    /\ stage' = "selected"
    /\ UNCHANGED <<signalled, ready, closing, draining, expired, listenerVars>>

ClearReady ==
    /\ stage = "selected"
    /\ ready' = FALSE
    /\ stage' = "shutdown"
    /\ UNCHANGED <<signalled, closing, errCh, draining, expired, runErr,
                   listenerVars>>

\* http.Server.Shutdown: the listener is closed even when time is up.
Shutdown ==
    /\ stage = "shutdown"
    /\ closing' = closing \cup {draining}
    /\ stage' = "drain"
    /\ UNCHANGED <<signalled, ready, errCh, draining, expired, runErr,
                   listenerVars>>

\* Mutant: Shutdown is not waited for.
ShutdownReturnsAtOnce ==
    /\ stage = "drain"
    /\ draining' = After(draining)
    /\ stage' = IF draining' = "nothing" THEN "wait" ELSE "shutdown"
    /\ UNCHANGED <<signalled, ready, closing, errCh, expired, runErr,
                   listenerVars>>

\* It returns once nothing that net/http knows of is in progress, whatever
\* tunnels there are, or with an error, only logged, when the deadline all three
\* servers share has passed.
ShutdownReturns ==
    /\ stage = "drain"
    /\ draining \notin busy \/ expired
    /\ draining' = After(draining)
    /\ stage' = IF draining' = "nothing" THEN "wait" ELSE "shutdown"
    /\ UNCHANGED <<signalled, ready, closing, errCh, expired, runErr,
                   listenerVars>>

Expire ==
    /\ stage \in {"shutdown", "drain"}
    /\ ~expired
    /\ expired' = TRUE
    /\ UNCHANGED <<signalled, ready, closing, errCh, stage, draining, runErr,
                   listenerVars>>

\* Mutant: the wait group does not count the panel's goroutine.
ReturnWithoutPanel ==
    /\ stage = "wait"
    /\ \A l \in Listeners \ {"admin"} : listener[l] = "done"
    /\ stage' = "returned"
    /\ UNCHANGED <<signalled, ready, closing, errCh, draining, expired, runErr,
                   listenerVars>>

\* wg.Wait
Return ==
    /\ stage = "wait"
    /\ \A l \in Listeners : listener[l] = "done"
    /\ stage' = "returned"
    /\ UNCHANGED <<signalled, ready, closing, errCh, draining, expired, runErr,
                   listenerVars>>

ListenerStep(l) ==
    \/ ListenAndServe(l) \/ Bind(l) \/ Fails(l) \/ Serve(l)
    \/ Report(l) \/ Closed(l) \/ Accept(l) \/ Finish(l)

RunStep ==
    \/ SelectSignal \/ SelectError \/ ClearReady
    \/ Shutdown \/ ShutdownReturns \/ Return

RunNext ==
    \/ SetReady
    \/ \E l \in Listeners : ListenerStep(l)
    \/ Hijack \/ TunnelsEnd
    \/ Signal \/ Expire
    \/ RunStep

\* The scheduler runs every goroutine, the kernel answers a bind, and the
\* timer of the shutdown context fires.  No request and no tunnel has to end.
RunFairness ==
    /\ WF_serverVars(SetReady)
    /\ WF_serverVars(RunStep)
    /\ WF_serverVars(Expire)
    /\ \A l \in Listeners :
         /\ WF_serverVars(ListenAndServe(l) \/ Bind(l) \/ Serve(l))
         /\ WF_serverVars(Report(l) \/ Closed(l))

RunSpec == RunInit /\ [][RunNext]_serverVars
FairRunSpec == RunSpec /\ RunFairness

-----------------------------------------------------------------------------
\* When Run returns, no goroutine of a listener is left behind, every server was
\* shut down, and a request that net/http knows of is cut off only if the shutdown
\* timeout ran out while requests were being waited for.  Of tunnels it says
\* nothing: those still open are cut off with the process, at any time.
NothingLeftBehind ==
    stage = "returned" =>
        /\ \A l \in Listeners : listener[l] = "done"
        /\ closing = Built
        /\ expired \/ busy = {}

\* Servers are drained in order: while one is waited for, every server before
\* it has been closed and, but for tunnels, is idle or out of time, and none
\* after it has been touched (the metrics and the panel answer while the control
\* plane drains).
DrainsInOrder ==
    /\ stage \in {"select", "selected"} => closing = {}
    /\ draining = "main" => closing \subseteq {"main"}
    /\ draining = "metrics" => "main" \in closing /\ "admin" \notin closing
    /\ \A l \in closing \ {draining} : expired \/ l \notin busy

\* Run comes to an end once it was asked to or a listener failed, whatever the
\* clients with requests in progress or with tunnels do.
Ending == signalled \/ errCh # <<>> \/ runErr # "nil"
RunReturns == Ending ~> stage = "returned"
=============================================================================
