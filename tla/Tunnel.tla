------------------------------- MODULE Tunnel -------------------------------
(***************************************************************************)
(* One proxied WebSocket (server/internal/proxy/websocket.go): the handler *)
(* dials the target, relays the handshake, takes the client's connection   *)
(* over from the HTTP server, and then two goroutines copy frames, one in  *)
(* each direction, until either side closes.  The peers send, close and    *)
(* fail when they like; a frame may follow the handshake so closely that   *)
(* it is already in the bufio.Reader the handshake was read through.       *)
(***************************************************************************)
EXTENDS Naturals, Sequences

CONSTANTS Frames,   \* bound: the frames a peer sends
          None

ASSUME FramesAssumption == Frames \in Nat \ {0} /\ None \notin 1 .. Frames

Ends == {"client", "upstream"}
Peer(e) == IF e = "client" THEN "upstream" ELSE "client"
\* Each copier is named for the end it reads from.
Copiers == Ends

Deadlines == {"client", "upstreamWrite", "upstreamRead"}

VARIABLES
    pc,         \* where the handler is
    armed,      \* the connections' deadlines that are set
    open,       \* the connections the proxy holds and has not closed
    gone,       \* the peers that closed or lost their connection
    sent,       \* the number of frames each peer sent
    buffered,   \* how many of them were read along with the handshake
    next,       \* the number of the next frame each copier reads
    copier,     \* where each copier is
    held,       \* the frame each copier has read and not yet written
    got,        \* the frames each peer received
    counted     \* the outcomes counted for this request

vars == <<pc, armed, open, gone, sent, buffered, next, copier, held, got,
          counted>>

handlerVars == <<pc, armed, counted>>
copyVars == <<next, copier, held, got>>
peerVars == <<gone, sent, buffered>>

TypeOK ==
    /\ pc \in {"dial", "request", "response", "hijack", "undeadline",
               "switch", "copy", "returned"}
    /\ armed \subseteq Deadlines
    /\ open \subseteq Ends
    /\ gone \subseteq Ends
    /\ sent \in [Ends -> 0 .. Frames]
    /\ buffered \in [Ends -> 0 .. Frames]
    /\ next \in [Copiers -> 1 .. Frames + 1]
    /\ copier \in [Copiers -> {"off", "read", "write", "close", "done"}]
    /\ held \in [Copiers -> {None} \cup 1 .. Frames]
    /\ got \in [Ends -> Seq(1 .. Frames)]
    /\ counted \in {<<>>} \cup {<<o>> : o \in {"ok", "blocked", "upstream_error"}}

\* ServeHTTP cleared the server's deadlines, or could not: it ignores the
\* error.
Init ==
    /\ pc = "dial"
    /\ armed \in {{}, {"client"}}
    /\ open = {"client"}
    /\ gone = {}
    /\ sent = [e \in Ends |-> 0]
    /\ buffered = [e \in Ends |-> 0]
    /\ next = [c \in Copiers |-> 1]
    /\ copier = [c \in Copiers |-> "off"]
    /\ held = [c \in Copiers |-> None]
    /\ got = [e \in Ends |-> <<>>]
    /\ counted = <<>>

-----------------------------------------------------------------------------
\* The handler, up to the handover.

\* Before the hijack the HTTP server owns the client's connection; every way
\* out closes the upstream one (defer upstream.Close).
Refuse(outcome) ==
    /\ pc' = "returned"
    /\ counted' = Append(counted, outcome)
    /\ open' = open \ {"upstream"}

Dial ==
    /\ pc = "dial"
    /\ \/ /\ open' = open \cup {"upstream"}
          /\ pc' = "request"
          /\ UNCHANGED counted
       \/ \E outcome \in {"blocked", "upstream_error"} : Refuse(outcome)
    /\ UNCHANGED <<armed, peerVars, copyVars>>

\* upstreamHandshake: the request goes out under a write deadline, which is
\* cleared once it is written.
WriteRequest ==
    /\ pc = "request"
    /\ pc' = "response"
    /\ UNCHANGED <<armed, open, counted, peerVars, copyVars>>

WriteRequestFails ==
    /\ pc = "request"
    /\ armed' = armed \cup {"upstreamWrite"}
    /\ Refuse("upstream_error")
    /\ UNCHANGED <<peerVars, copyVars>>

\* Mutant: the read deadline is left on the connection.
ReadResponseKeepsDeadline ==
    /\ pc = "response"
    /\ \E n \in 0 .. sent["upstream"] :
         buffered' = [buffered EXCEPT !["upstream"] = n]
    /\ armed' = armed \cup {"upstreamRead"}
    /\ pc' = "hijack"
    /\ UNCHANGED <<open, gone, sent, counted, copyVars>>

\* The answer is read, with whatever follows it, under a read deadline that is
\* cleared afterwards.
ReadResponse ==
    /\ pc = "response"
    /\ \E n \in 0 .. sent["upstream"] :
         buffered' = [buffered EXCEPT !["upstream"] = n]
    /\ pc' = "hijack"
    /\ UNCHANGED <<armed, open, gone, sent, counted, copyVars>>

\* It fails, times out, or is not a 101.
ReadResponseFails ==
    /\ pc = "response"
    /\ armed' \in {armed, armed \cup {"upstreamRead"}}
    /\ Refuse("upstream_error")
    /\ UNCHANGED <<peerVars, copyVars>>

Hijack ==
    /\ pc = "hijack"
    /\ \E n \in 0 .. sent["client"] :
         buffered' = [buffered EXCEPT !["client"] = n]
    /\ pc' = "undeadline"
    /\ UNCHANGED <<armed, open, gone, sent, counted, copyVars>>

HijackFails ==
    /\ pc = "hijack"
    /\ Refuse("upstream_error")
    /\ UNCHANGED <<armed, peerVars, copyVars>>

ClearDeadline ==
    /\ pc = "undeadline"
    /\ armed' = armed \ {"client"}
    /\ pc' = "switch"
    /\ UNCHANGED <<open, counted, peerVars, copyVars>>

\* Mutant: the copiers read the connections, not the readers that hold what
\* came with the handshake.
SwitchReadsConnections ==
    /\ pc = "switch"
    /\ pc' = "copy"
    /\ counted' = Append(counted, "ok")
    /\ next' = [c \in Copiers |-> buffered[c] + 1]
    /\ copier' = [c \in Copiers |-> "read"]
    /\ UNCHANGED <<armed, open, held, got, peerVars>>

\* writeClientHandshake succeeds and tunnel starts both copiers.
Switch ==
    /\ pc = "switch"
    /\ pc' = "copy"
    /\ counted' = Append(counted, "ok")
    /\ copier' = [c \in Copiers |-> "read"]
    /\ UNCHANGED <<armed, open, next, held, got, peerVars>>

\* The client cannot be told: the handler returns and counts nothing.
SwitchFails ==
    /\ pc = "switch"
    /\ pc' = "returned"
    /\ open' = {}
    /\ UNCHANGED <<armed, counted, peerVars, copyVars>>

-----------------------------------------------------------------------------
\* The copiers.

Goto(c, label) == copier' = [copier EXCEPT ![c] = label]

Read(c) ==
    /\ copier[c] = "read"
    /\ c \in open
    /\ next[c] <= sent[c]
    /\ held' = [held EXCEPT ![c] = next[c]]
    /\ next' = [next EXCEPT ![c] = @ + 1]
    /\ Goto(c, "write")
    /\ UNCHANGED <<open, got, handlerVars, peerVars>>

\* io.Copy ends with the stream: the peer is gone, whatever it had sent, or
\* the other copier closed the connection.
ReadEnds(c) ==
    /\ copier[c] = "read"
    /\ c \in gone \/ c \notin open
    /\ Goto(c, "close")
    /\ UNCHANGED <<open, next, held, got, handlerVars, peerVars>>

Write(c) ==
    /\ copier[c] = "write"
    /\ Peer(c) \in open \ gone
    /\ got' = [got EXCEPT ![Peer(c)] = Append(@, held[c])]
    /\ held' = [held EXCEPT ![c] = None]
    /\ Goto(c, "read")
    /\ UNCHANGED <<open, next, handlerVars, peerVars>>

\* A frame written to a peer that has just gone is lost; the write may or may
\* not notice.
WriteToNobody(c) ==
    /\ copier[c] = "write"
    /\ Peer(c) \in gone \/ Peer(c) \notin open
    /\ held' = [held EXCEPT ![c] = None]
    /\ \/ Goto(c, "close")
       \/ Peer(c) \in open /\ Goto(c, "read")
    /\ UNCHANGED <<open, next, got, handlerVars, peerVars>>

\* Mutant: a copier that ends leaves the other connection open.
CloseDoneOnly(c) ==
    /\ copier[c] = "close"
    /\ Goto(c, "done")
    /\ UNCHANGED <<open, next, held, got, handlerVars, peerVars>>

\* Each copier closes the connection it was writing to.
CloseOther(c) ==
    /\ copier[c] = "close"
    /\ open' = open \ {Peer(c)}
    /\ Goto(c, "done")
    /\ UNCHANGED <<next, held, got, handlerVars, peerVars>>

\* Mutant: one receive from done instead of two.
ReturnAfterOne ==
    /\ pc = "copy"
    /\ \E c \in Copiers : copier[c] = "done"
    /\ pc' = "returned"
    /\ open' = {}
    /\ UNCHANGED <<armed, counted, peerVars, copyVars>>

\* Both copiers have ended; the deferred calls close both connections.
Return ==
    /\ pc = "copy"
    /\ \A c \in Copiers : copier[c] = "done"
    /\ pc' = "returned"
    /\ open' = {}
    /\ UNCHANGED <<armed, counted, peerVars, copyVars>>

-----------------------------------------------------------------------------
\* The peers.

Send(e) ==
    /\ e \in open \ gone
    /\ sent[e] < Frames
    /\ sent' = [sent EXCEPT ![e] = @ + 1]
    /\ UNCHANGED <<open, gone, buffered, handlerVars, copyVars>>

Leave(e) ==
    /\ e \in open \ gone
    /\ gone' = gone \cup {e}
    /\ UNCHANGED <<open, sent, buffered, handlerVars, copyVars>>

Handle ==
    \/ Dial \/ WriteRequest \/ WriteRequestFails
    \/ ReadResponse \/ ReadResponseFails
    \/ Hijack \/ HijackFails \/ ClearDeadline \/ Switch \/ SwitchFails
    \/ Return

Copy(c) ==
    \/ Read(c) \/ ReadEnds(c) \/ Write(c) \/ WriteToNobody(c) \/ CloseOther(c)

Next ==
    \/ Handle
    \/ \E c \in Copiers : Copy(c)
    \/ \E e \in Ends : Send(e) \/ Leave(e)

\* Goroutines run, and every wait before the handover has a deadline.  A peer
\* that stays reads what it is sent: tunnel has no timeout against one that
\* does not.
Fairness == WF_vars(Handle) /\ \A c \in Copiers : WF_vars(Copy(c))

Spec == Init /\ [][Next]_vars
FairSpec == Spec /\ Fairness

-----------------------------------------------------------------------------
\* Each peer receives the other's frames in order and without a gap, the ones
\* that came along with the handshake included.
FramesArriveInOrder ==
    \A e \in Ends : got[e] = [i \in 1 .. Len(got[e]) |-> i]

\* No deadline of the handshake or of the HTTP server outlives the handover:
\* a tunnel is cut by its ends and never by the clock.
NoDeadlineWhileCopying == pc = "copy" => armed = {}

\* When the handler returns, nothing it opened or took over is left: no
\* copier still runs, and the upstream connection is closed, and so is the
\* client's unless the HTTP server still owns it.
NothingLeftOpen ==
    pc = "returned" =>
        /\ \A c \in Copiers : copier[c] \in {"off", "done"}
        /\ "upstream" \notin open
        /\ counted \in {<<"ok">>, <<>>} => open = {}

\* A tunnel outlives neither of its ends.
TunnelEnds == \A e \in Ends : pc = "copy" /\ e \in gone ~> pc = "returned"
=============================================================================
