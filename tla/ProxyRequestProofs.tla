--------------------------- MODULE ProxyRequestProofs ---------------------------
(***************************************************************************)
(* Theorems about ProxyRequest for any requests, limit and body lengths.   *)
(* The argument follows one request through its stages: what has been      *)
(* read, delivered, declared and counted so far is known at each of them,  *)
(* and no other request, toggle or departure changes it.                   *)
(***************************************************************************)
EXTENDS ProxyRequest, FiniteSetTheorems, TLAPS

\* The stages after the upstream answered.
Answering == {"respond", "buffer", "prefix", "rewrite", "stream"}

\* The types of all but the outcomes.
Plain ==
    /\ enabled \in BOOLEAN /\ granted \in BOOLEAN
    /\ pc \in [Requests -> {"new", "enabled", "gate", "target", "fetch", "tunnel",
         "respond", "buffer", "prefix", "rewrite", "stream", "done"}]
    /\ asked \in [Requests -> {None} \cup Asked]
    /\ resp \in [Requests -> {None} \cup Responses]
    /\ read \in [Requests -> 0 .. Longest]
    /\ delivered \in [Requests -> 0 .. Longest]
    /\ \A r \in Requests : delivered[r] <= read[r]
    /\ headers \in [Requests -> SUBSET {"site", "length"}]
    /\ status \in [Requests -> {0, 101, 200, 204, 400, 403, 404, 500, 502}]
    /\ broken \subseteq Requests /\ left \subseteq Requests
    /\ fetched \subseteq Requests /\ late \subseteq Requests /\ off \subseteq Requests

\* No outcome counted, and one.
Zero == [o \in Outcomes |-> 0]
One(o) == [p \in Outcomes |-> IF p = o THEN 1 ELSE 0]

\* Nothing is counted before a request is done.
UncountedInv == \A r \in Requests : pc[r] # "done" => outcomes[r] = Zero

\* A request past the switch met it on, one past the gate had a token when it
\* arrived, and one past the checks asks for a site.
AllowedInv ==
    \A r \in Requests :
        /\ pc[r] # "new" => asked[r] \in Asked
        /\ pc[r] = "new" => r \notin late \cup off \cup fetched
        /\ r \in late => RequireToken /\ ~(asked[r].token /\ granted)
        /\ pc[r] \in {"target", "fetch", "tunnel"} \cup Answering => r \notin late
        /\ pc[r] \in {"fetch", "tunnel"} \cup Answering => asked[r].target = "site"
        /\ r \in off => ~enabled /\ pc[r] \in {"enabled", "done"}
        /\ r \in fetched => r \notin late \cup off /\ asked[r].target = "site"

\* What has been read and what was sent at each stage.
BodyOf(r) ==
        /\ pc[r] \notin Answering \cup {"done"} =>
             read[r] = 0 /\ headers[r] = {} /\ r \notin broken
        /\ pc[r] \in Answering => resp[r] \in Responses /\ r \notin broken
        /\ pc[r] \in {"respond", "buffer"} => read[r] = 0 /\ headers[r] = {}
        /\ pc[r] = "respond" => ~resp[r].text
        /\ pc[r] = "buffer" => resp[r].text
        /\ pc[r] = "prefix" =>
             /\ resp[r].text /\ headers[r] = {}
             /\ read[r] = Limit + 1 /\ read[r] <= resp[r].length
        /\ pc[r] = "rewrite" =>
             /\ resp[r].text /\ headers[r] = {}
             /\ read[r] = resp[r].length /\ read[r] <= Limit
        /\ pc[r] = "stream" =>
             /\ status[r] = 200 /\ read[r] <= resp[r].length
             /\ "length" \in headers[r] => ~resp[r].text /\ resp[r].sized
             /\ r \notin left =>
                  delivered[r] = read[r] /\ (resp[r].text => read[r] > Limit)
BodyInv == \A r \in Requests : BodyOf(r)

\* What is known of a request that has been answered.
DoneOf(r) ==
    pc[r] = "done" =>
        /\ headers[r] # {} => status[r] = 200 /\ resp[r] \in Responses
        /\ "length" \in headers[r] =>
             IF resp[r].text THEN resp[r].length <= Limit ELSE resp[r].sized
        /\ headers[r] # {} /\ r \notin left =>
             IF r \notin broken THEN delivered[r] = resp[r].length
             ELSE resp[r].text => delivered[r] > Limit
DoneInv == \A r \in Requests : DoneOf(r)

\* How a request that has been answered was counted.
CountInv ==
    \A r \in Requests : pc[r] = "done" =>
        \/ \E o \in Outcomes : outcomes[r] = One(o)
        \/ outcomes[r] = Zero /\ status[r] \in {0, 404, 500}

\* A status is written by the step that ends the request or begins the stream.
StatusInv == \A r \in Requests : pc[r] \notin {"stream", "done"} => status[r] = 0

\* The inductive invariant.
IInv ==
    /\ TypeOK
    /\ UncountedInv /\ AllowedInv /\ BodyInv /\ DoneInv /\ CountInv /\ StatusInv

-----------------------------------------------------------------------------
\* Counting an outcome of a request that has none gives it that one.
LEMMA CountOne ==
    ASSUME TypeOK, NEW r \in Requests, outcomes[r] = Zero, NEW o \in Outcomes,
           Count(r, o)
    PROVE  outcomes' = [outcomes EXCEPT ![r] = One(o)]
<1>1. [Zero EXCEPT ![o] = @ + 1] = One(o)
  BY DEF Zero, One
<1>2. outcomes' = [outcomes EXCEPT ![r] = [Zero EXCEPT ![o] = @ + 1]]
  BY DEF Count, TypeOK
<1>. QED
  BY <1>1, <1>2

\* What serving r does to the tallies: at most one outcome is counted, and
\* only as r ends; a request that ends uncounted shows it by its status.
Served(r) ==
    /\ pc[r] # "done"
    /\ \A q \in Requests \ {r} :
         pc'[q] = pc[q] /\ status'[q] = status[q] /\ outcomes'[q] = outcomes[q]
    /\ \/ /\ pc'[r] = "done"
          /\ \E o \in Outcomes : outcomes' = [outcomes EXCEPT ![r] = One(o)]
       \/ /\ outcomes' = outcomes
          /\ pc'[r] = "done" => status'[r] \in {0, 404, 500}

\* An error page serves a request so.
LEMMA AnswerServes ==
    ASSUME TypeOK, UncountedInv, NEW r \in Requests, pc[r] # "done", NEW code,
           NEW o \in Outcomes, Answer(r, code, o)
    PROVE  Served(r)
<1>1. outcomes' = [outcomes EXCEPT ![r] = One(o)]
  BY CountOne DEF Answer, UncountedInv
<1>2. pc' = [pc EXCEPT ![r] = "done"] /\ status' = [status EXCEPT ![r] = code]
  BY DEF Answer, Done, Goto, Status
<1>3. \A q \in Requests \ {r} :
        pc'[q] = pc[q] /\ status'[q] = status[q] /\ outcomes'[q] = outcomes[q]
  BY <1>1, <1>2 DEF TypeOK
<1>4. pc'[r] = "done"
  BY <1>2 DEF TypeOK
<1>. QED
  BY <1>1, <1>3, <1>4, Zenon DEF Served

\* And so does the end of a stream.
LEMMA EndServes ==
    ASSUME TypeOK, UncountedInv, NEW r \in Requests, pc[r] # "done",
           UNCHANGED status, NEW o \in Outcomes, Count(r, o), Done(r)
    PROVE  Served(r)
<1>1. outcomes' = [outcomes EXCEPT ![r] = One(o)]
  BY CountOne DEF UncountedInv
<1>2. pc' = [pc EXCEPT ![r] = "done"]
  BY DEF Done, Goto
<1>3. \A q \in Requests \ {r} :
        pc'[q] = pc[q] /\ status'[q] = status[q] /\ outcomes'[q] = outcomes[q]
  BY <1>1, <1>2 DEF TypeOK
<1>4. pc'[r] = "done"
  BY <1>2 DEF TypeOK
<1>. QED
  BY <1>1, <1>3, <1>4, Zenon DEF Served

\* Every step that serves a request serves it so.
LEMMA ServeServes ==
    ASSUME TypeOK, UncountedInv, StatusInv, NEW r \in Requests, Serve(r)
    PROVE  Served(r)
<1>1. {"unauthorized", "bad_request", "telemetry_blocked", "blocked",
       "upstream_error", "ok", "ok_unrewritten"} \subseteq Outcomes
  BY DEF Outcomes
<1>2. CASE CheckEnabled(r)
  BY <1>2 DEF CheckEnabled, Served, TypeOK, Goto, Done, Status
<1>3. CASE Gate(r)
  <2>1. CASE Answer(r, 403, "unauthorized")
    BY <1>1, <1>3, <2>1, AnswerServes DEF Gate
  <2>2. CASE Goto(r, "target") /\ UNCHANGED <<status, outcomes>>
    BY <1>3, <2>2 DEF Gate, Served, TypeOK, Goto
  <2>. QED
    BY <1>3, <2>1, <2>2 DEF Gate
<1>4. CASE CheckTarget(r)
  <2>1. CASE Answer(r, 400, "bad_request") \/ Answer(r, 204, "telemetry_blocked")
    BY <1>1, <1>4, <2>1, AnswerServes DEF CheckTarget
  <2>2. ASSUME NEW next \in {"tunnel", "fetch"}, Goto(r, next),
               UNCHANGED <<status, outcomes>>
        PROVE  Served(r)
    BY <1>4, <2>2 DEF CheckTarget, Served, TypeOK, Goto
  <2>. QED
    BY <1>4, <2>1, <2>2 DEF CheckTarget
<1>5. CASE ServeWebSocket(r)
  <2>1. ASSUME NEW code, NEW o \in {"blocked", "upstream_error", "ok"},
               Answer(r, code, o)
        PROVE  Served(r)
    BY <1>1, <1>5, <2>1, AnswerServes DEF ServeWebSocket
  <2>2. CASE Done(r) /\ UNCHANGED <<status, outcomes>>
    BY <1>5, <2>2 DEF ServeWebSocket, Served, StatusInv, TypeOK, Goto, Done
  <2>. QED
    BY <1>5, <2>1, <2>2 DEF ServeWebSocket
<1>6. ASSUME NEW answer \in Responses, Fetch(r, answer) PROVE Served(r)
  BY <1>6 DEF Fetch, Served, TypeOK, Goto
<1>7. CASE FetchFails(r)
  BY <1>1, <1>7, AnswerServes DEF FetchFails
<1>8. CASE Respond(r)
  BY <1>8 DEF Respond, Served, TypeOK, Goto, Status
<1>9. CASE CopyChunk(r)
  BY <1>9 DEF CopyChunk, Served
<1>10. CASE CopyEnds(r)
  BY <1>1, <1>10, EndServes DEF CopyEnds, StreamOutcome
<1>11. CASE CopyBreaks(r)
  BY <1>1, <1>11, EndServes DEF CopyBreaks, StreamOutcome
<1>12. CASE Buffer(r)
  BY <1>12 DEF Buffer, Served, TypeOK, Goto
<1>13. CASE BufferFails(r)
  BY <1>1, <1>13, AnswerServes DEF BufferFails
<1>14. CASE WritePrefix(r)
  BY <1>14 DEF WritePrefix, Served, TypeOK, Goto, Status
<1>15. CASE WriteRewritten(r)
  BY <1>1, <1>15, AnswerServes DEF WriteRewritten
<1>16. CASE RewritePanics(r)
  BY <1>16 DEF RewritePanics, Served, TypeOK, Goto, Done, Status
<1>. QED
  BY <1>2, <1>3, <1>4, <1>5, <1>6, <1>7, <1>8, <1>9, <1>10, <1>11, <1>12,
     <1>13, <1>14, <1>15, <1>16 DEF Serve

\* No other step counts, or answers, anything.
LEMMA OthersDoNot ==
    ASSUME TypeOK, [Next]_vars, ~\E r \in Requests : Serve(r)
    PROVE  /\ UNCHANGED <<outcomes, status>>
           /\ \A q \in Requests : pc[q] = "done" <=> pc'[q] = "done"
BY DEF Next, Arrive, ClientLeaves, Toggle, AccessEnds, vars, clientVars, world,
       body, TypeOK, Goto

\* The invariant holds before the first request.
LEMMA InitIInv == Init => IInv
<1> SUFFICES ASSUME Init PROVE IInv
  OBVIOUS
<1> USE LimitAssumption DEF Init
<1>1. TypeOK
  BY DEF TypeOK, Outcomes
<1>2. UncountedInv /\ AllowedInv /\ StatusInv
  BY DEF UncountedInv, Zero, AllowedInv, StatusInv, Answering
<1>3. BodyInv /\ DoneInv /\ CountInv
  BY DEF BodyInv, BodyOf, DoneInv, DoneOf, CountInv, Answering
<1>. QED
  BY <1>1, <1>2, <1>3 DEF IInv

\* Every step keeps the types but for the outcomes,
LEMMA NextPlain ==
    ASSUME TypeOK, BodyInv, AllowedInv, [Next]_vars PROVE Plain'
<1> USE LimitAssumption DEF TypeOK, world, clientVars, body, Plain,
        BodyInv, BodyOf, Responses, Answering
<1>1. ASSUME NEW r \in Requests, NEW what \in Asked, Arrive(r, what)
      PROVE  Plain'
  BY <1>1 DEF Arrive, Goto
<1>2. ASSUME NEW r \in Requests, CheckEnabled(r) PROVE Plain'
  <2>1. status' \in [Requests -> {0, 101, 200, 204, 400, 403, 404, 500, 502}]
    BY <1>2 DEF CheckEnabled, Goto, Status, Done
  <2>2. pc' \in [Requests -> {"new", "enabled", "gate", "target", "fetch",
          "tunnel", "respond", "buffer", "prefix", "rewrite", "stream", "done"}]
    BY <1>2 DEF CheckEnabled, Goto, Status, Done
  <2>. QED
    BY <1>2, <2>1, <2>2 DEF CheckEnabled
<1>3. ASSUME NEW r \in Requests, Gate(r) PROVE Plain'
  <2>1. CASE Answer(r, 403, "unauthorized")
    <3>1. status' \in [Requests -> {0, 101, 200, 204, 400, 403, 404, 500, 502}]
      BY <2>1 DEF Answer, Status
    <3>. QED
      BY <1>3, <2>1, <3>1 DEF Gate, Answer, Goto, Done
  <2>2. CASE Goto(r, "target") /\ UNCHANGED <<status, outcomes>>
    BY <1>3, <2>2 DEF Gate, Goto
  <2>. QED
    BY <1>3, <2>1, <2>2 DEF Gate
<1>4. ASSUME NEW r \in Requests, CheckTarget(r) PROVE Plain'
  <2>1. ASSUME NEW code \in {204, 400}, NEW o, Answer(r, code, o) PROVE Plain'
    <3>1. status' \in [Requests -> {0, 101, 200, 204, 400, 403, 404, 500, 502}]
      BY <2>1 DEF Answer, Status
    <3>. QED
      BY <1>4, <2>1, <3>1 DEF CheckTarget, Answer, Goto, Done
  <2>2. ASSUME NEW next \in {"tunnel", "fetch"}, Goto(r, next),
               UNCHANGED <<status, outcomes>>
        PROVE  Plain'
    BY <1>4, <2>2 DEF CheckTarget, Goto
  <2>. QED
    BY <1>4, <2>1, <2>2 DEF CheckTarget
<1>5. ASSUME NEW r \in Requests, ServeWebSocket(r) PROVE Plain'
  <2>1. status' \in [Requests -> {0, 101, 200, 204, 400, 403, 404, 500, 502}]
    BY <1>5 DEF ServeWebSocket, Answer, Goto, Status, Done
  <2>2. pc' \in [Requests -> {"new", "enabled", "gate", "target", "fetch",
          "tunnel", "respond", "buffer", "prefix", "rewrite", "stream", "done"}]
    BY <1>5 DEF ServeWebSocket, Answer, Goto, Status, Done
  <2>. QED
    BY <1>5, <2>1, <2>2 DEF ServeWebSocket
<1>6. ASSUME NEW r \in Requests, NEW answer \in Responses, Fetch(r, answer)
      PROVE  Plain'
  BY <1>6 DEF Fetch, Goto
<1>7. ASSUME NEW r \in Requests, FetchFails(r) PROVE Plain'
  <2>1. status' \in [Requests -> {0, 101, 200, 204, 400, 403, 404, 500, 502}]
    BY <1>7 DEF FetchFails, Answer, Goto, Status, Done
  <2>2. pc' \in [Requests -> {"new", "enabled", "gate", "target", "fetch",
          "tunnel", "respond", "buffer", "prefix", "rewrite", "stream", "done"}]
    BY <1>7 DEF FetchFails, Answer, Goto, Status, Done
  <2>. QED
    BY <1>7, <2>1, <2>2 DEF FetchFails
<1>8. ASSUME NEW r \in Requests, Respond(r) PROVE Plain'
  BY <1>8 DEF Respond, Goto, Status
<1>9. ASSUME NEW r \in Requests, CopyChunk(r) PROVE Plain'
  BY <1>9 DEF CopyChunk
<1>10. ASSUME NEW r \in Requests, CopyEnds(r) PROVE Plain'
  BY <1>10 DEF CopyEnds, StreamOutcome, Goto, Done
<1>11. ASSUME NEW r \in Requests, CopyBreaks(r) PROVE Plain'
  BY <1>11 DEF CopyBreaks, StreamOutcome, Goto, Done
<1>12. ASSUME NEW r \in Requests, Buffer(r) PROVE Plain'
  BY <1>12 DEF Buffer, Goto
<1>13. ASSUME NEW r \in Requests, BufferFails(r) PROVE Plain'
  <2>1. status' \in [Requests -> {0, 101, 200, 204, 400, 403, 404, 500, 502}]
    BY <1>13 DEF BufferFails, Answer, Goto, Status, Done
  <2>2. pc' \in [Requests -> {"new", "enabled", "gate", "target", "fetch",
          "tunnel", "respond", "buffer", "prefix", "rewrite", "stream", "done"}]
    BY <1>13 DEF BufferFails, Answer, Goto, Status, Done
  <2>. QED
    BY <1>13, <2>1, <2>2 DEF BufferFails
<1>14. ASSUME NEW r \in Requests, WritePrefix(r) PROVE Plain'
  BY <1>14 DEF WritePrefix, Goto, Status
<1>15. ASSUME NEW r \in Requests, WriteRewritten(r) PROVE Plain'
  <2>1. status' \in [Requests -> {0, 101, 200, 204, 400, 403, 404, 500, 502}]
    BY <1>15 DEF WriteRewritten, Answer, Status
  <2>2. pc' = [pc EXCEPT ![r] = "done"]
    BY <1>15 DEF WriteRewritten, Answer, Goto, Done
  <2>3. /\ delivered' \in [Requests -> 0 .. Longest]
        /\ \A q \in Requests : delivered'[q] <= read'[q]
    BY <1>15 DEF WriteRewritten
  <2>. QED
    BY <1>15, <2>1, <2>2, <2>3 DEF WriteRewritten
<1>16. ASSUME NEW r \in Requests, RewritePanics(r) PROVE Plain'
  <2>1. status' \in [Requests -> {0, 101, 200, 204, 400, 403, 404, 500, 502}]
    BY <1>16 DEF RewritePanics, Goto, Status, Done
  <2>2. pc' \in [Requests -> {"new", "enabled", "gate", "target", "fetch",
          "tunnel", "respond", "buffer", "prefix", "rewrite", "stream", "done"}]
    BY <1>16 DEF RewritePanics, Goto, Status, Done
  <2>. QED
    BY <1>16, <2>1, <2>2 DEF RewritePanics
<1>17. ASSUME NEW r \in Requests, ClientLeaves(r) PROVE Plain'
  BY <1>17 DEF ClientLeaves
<1>18. CASE Toggle
  BY <1>18 DEF Toggle
<1>19. CASE AccessEnds
  BY <1>19 DEF AccessEnds
<1>20. CASE UNCHANGED vars
  BY <1>20 DEF vars
<1>. QED
  BY <1>1, <1>2, <1>3, <1>4, <1>5, <1>6, <1>7, <1>8, <1>9, <1>10,
     <1>11, <1>12, <1>13, <1>14, <1>15, <1>16, <1>17, <1>18, <1>19, <1>20
     DEF Next, Serve

\* and the tallies.
LEMMA NextTallies ==
    ASSUME TypeOK, UncountedInv, StatusInv, CountInv, [Next]_vars
    PROVE  /\ outcomes' \in [Requests -> [Outcomes -> 0 .. 1]]
           /\ UncountedInv' /\ CountInv'
<1>1. ASSUME NEW r \in Requests, Serve(r)
      PROVE  /\ outcomes' \in [Requests -> [Outcomes -> 0 .. 1]]
             /\ UncountedInv' /\ CountInv'
  <2>1. Served(r)
    BY <1>1, ServeServes
  <2>2. CASE outcomes' = outcomes
    BY <2>1, <2>2 DEF Served, TypeOK, UncountedInv, CountInv
  <2>3. ASSUME NEW o \in Outcomes, outcomes' = [outcomes EXCEPT ![r] = One(o)],
               pc'[r] = "done"
        PROVE  /\ outcomes' \in [Requests -> [Outcomes -> 0 .. 1]]
               /\ UncountedInv' /\ CountInv'
    <3>1. One(o) \in [Outcomes -> 0 .. 1]
      BY DEF One
    <3>2. outcomes'[r] = One(o)
      BY <2>3 DEF TypeOK
    <3>. QED
      BY <2>1, <2>3, <3>1, <3>2 DEF Served, TypeOK, UncountedInv, CountInv
  <2>. QED
    BY <2>1, <2>2, <2>3 DEF Served
<1>2. CASE ~\E r \in Requests : Serve(r)
  BY <1>2, OthersDoNot DEF TypeOK, UncountedInv, CountInv
<1>. QED
  BY <1>1, <1>2

\* Access that has ended does not come back, and the gate is passed once.
LEMMA NextAllowed ==
    ASSUME TypeOK, AllowedInv, [Next]_vars PROVE AllowedInv'
<1> USE LimitAssumption DEF TypeOK, world, clientVars, body, AllowedInv, Answering
<1>1. ASSUME NEW r \in Requests, NEW what \in Asked, Arrive(r, what)
      PROVE  AllowedInv'
  BY <1>1 DEF Arrive, Goto
<1>2. ASSUME NEW r \in Requests, CheckEnabled(r) PROVE AllowedInv'
  BY <1>2 DEF CheckEnabled, Goto, Status, Done
<1>3. ASSUME NEW r \in Requests, Gate(r) PROVE AllowedInv'
  BY <1>3 DEF Gate, Answer, Goto, Status, Done
<1>4. ASSUME NEW r \in Requests, CheckTarget(r) PROVE AllowedInv'
  BY <1>4 DEF CheckTarget, Answer, Goto, Status, Done
<1>5. ASSUME NEW r \in Requests, ServeWebSocket(r) PROVE AllowedInv'
  BY <1>5 DEF ServeWebSocket, Answer, Goto, Status, Done
<1>6. ASSUME NEW r \in Requests, NEW answer \in Responses, Fetch(r, answer)
      PROVE  AllowedInv'
  BY <1>6 DEF Fetch, Goto
<1>7. ASSUME NEW r \in Requests, FetchFails(r) PROVE AllowedInv'
  BY <1>7 DEF FetchFails, Answer, Goto, Status, Done
<1>8. ASSUME NEW r \in Requests, Respond(r) PROVE AllowedInv'
  BY <1>8 DEF Respond, Goto, Status
<1>9. ASSUME NEW r \in Requests, CopyChunk(r) PROVE AllowedInv'
  BY <1>9 DEF CopyChunk
<1>10. ASSUME NEW r \in Requests, CopyEnds(r) PROVE AllowedInv'
  BY <1>10 DEF CopyEnds, StreamOutcome, Goto, Done
<1>11. ASSUME NEW r \in Requests, CopyBreaks(r) PROVE AllowedInv'
  BY <1>11 DEF CopyBreaks, StreamOutcome, Goto, Done
<1>12. ASSUME NEW r \in Requests, Buffer(r) PROVE AllowedInv'
  BY <1>12 DEF Buffer, Goto
<1>13. ASSUME NEW r \in Requests, BufferFails(r) PROVE AllowedInv'
  BY <1>13 DEF BufferFails, Answer, Goto, Status, Done
<1>14. ASSUME NEW r \in Requests, WritePrefix(r) PROVE AllowedInv'
  BY <1>14 DEF WritePrefix, Goto, Status
<1>15. ASSUME NEW r \in Requests, WriteRewritten(r) PROVE AllowedInv'
  BY <1>15 DEF WriteRewritten, Answer, Goto, Status, Done
<1>16. ASSUME NEW r \in Requests, RewritePanics(r) PROVE AllowedInv'
  BY <1>16 DEF RewritePanics, Goto, Status, Done
<1>17. ASSUME NEW r \in Requests, ClientLeaves(r) PROVE AllowedInv'
  BY <1>17 DEF ClientLeaves
<1>18. CASE Toggle
  BY <1>18 DEF Toggle
<1>19. CASE AccessEnds
  BY <1>19 DEF AccessEnds
<1>20. CASE UNCHANGED vars
  BY <1>20 DEF vars
<1>. QED
  BY <1>1, <1>2, <1>3, <1>4, <1>5, <1>6, <1>7, <1>8, <1>9, <1>10,
     <1>11, <1>12, <1>13, <1>14, <1>15, <1>16, <1>17, <1>18, <1>19, <1>20
     DEF Next, Serve

\* Each stage hands on what it read and sent.
LEMMA NextBody ==
    ASSUME TypeOK, BodyInv, [Next]_vars PROVE BodyInv'
<1> USE LimitAssumption DEF TypeOK, world, clientVars, body, BodyInv,
        BodyOf, Responses, Answering
<1>1. ASSUME NEW r \in Requests, NEW what \in Asked, Arrive(r, what)
      PROVE  BodyInv'
  BY <1>1 DEF Arrive, Goto
<1>2. ASSUME NEW r \in Requests, CheckEnabled(r) PROVE BodyInv'
  BY <1>2 DEF CheckEnabled, Goto, Status, Done
<1>3. ASSUME NEW r \in Requests, Gate(r) PROVE BodyInv'
  BY <1>3 DEF Gate, Answer, Goto, Status, Done
<1>4. ASSUME NEW r \in Requests, CheckTarget(r) PROVE BodyInv'
  BY <1>4 DEF CheckTarget, Answer, Goto, Status, Done
<1>5. ASSUME NEW r \in Requests, ServeWebSocket(r) PROVE BodyInv'
  BY <1>5 DEF ServeWebSocket, Answer, Goto, Status, Done
<1>6. ASSUME NEW r \in Requests, NEW answer \in Responses, Fetch(r, answer)
      PROVE  BodyInv'
  <2>1. /\ read'[r] = 0 /\ headers'[r] = {} /\ r \notin broken'
        /\ resp'[r] = answer /\ answer.text \in BOOLEAN
        /\ pc'[r] = IF answer.text THEN "buffer" ELSE "respond"
    BY <1>6 DEF Fetch, Goto
  <2>2. BodyOf(r)'
    BY <2>1
  <2>3. ASSUME NEW q \in Requests \ {r} PROVE BodyOf(q)'
    BY <1>6 DEF Fetch, Goto
  <2>. QED
    BY <2>2, <2>3
<1>7. ASSUME NEW r \in Requests, FetchFails(r) PROVE BodyInv'
  BY <1>7 DEF FetchFails, Answer, Goto, Status, Done
<1>8. ASSUME NEW r \in Requests, Respond(r) PROVE BodyInv'
  BY <1>8 DEF Respond, Goto, Status
<1>9. ASSUME NEW r \in Requests, CopyChunk(r) PROVE BodyInv'
  <2>1. BodyOf(r)'
    BY <1>9 DEF CopyChunk
  <2>2. ASSUME NEW q \in Requests \ {r} PROVE BodyOf(q)'
    BY <1>9 DEF CopyChunk
  <2>. QED
    BY <2>1, <2>2
<1>10. ASSUME NEW r \in Requests, CopyEnds(r) PROVE BodyInv'
  BY <1>10 DEF CopyEnds, StreamOutcome, Goto, Done
<1>11. ASSUME NEW r \in Requests, CopyBreaks(r) PROVE BodyInv'
  BY <1>11 DEF CopyBreaks, StreamOutcome, Goto, Done
<1>12. ASSUME NEW r \in Requests, Buffer(r) PROVE BodyInv'
  BY <1>12 DEF Buffer, Goto
<1>13. ASSUME NEW r \in Requests, BufferFails(r) PROVE BodyInv'
  BY <1>13 DEF BufferFails, Answer, Goto, Status, Done
<1>14. ASSUME NEW r \in Requests, WritePrefix(r) PROVE BodyInv'
  <2>1. BodyOf(r)'
    BY <1>14 DEF WritePrefix, Goto, Status
  <2>2. ASSUME NEW q \in Requests \ {r} PROVE BodyOf(q)'
    BY <1>14 DEF WritePrefix, Goto, Status
  <2>. QED
    BY <2>1, <2>2
<1>15. ASSUME NEW r \in Requests, WriteRewritten(r) PROVE BodyInv'
  BY <1>15 DEF WriteRewritten, Answer, Goto, Status, Done
<1>16. ASSUME NEW r \in Requests, RewritePanics(r) PROVE BodyInv'
  BY <1>16 DEF RewritePanics, Goto, Status, Done
<1>17. ASSUME NEW r \in Requests, ClientLeaves(r) PROVE BodyInv'
  BY <1>17 DEF ClientLeaves
<1>18. CASE Toggle
  BY <1>18 DEF Toggle
<1>19. CASE AccessEnds
  BY <1>19 DEF AccessEnds
<1>20. CASE UNCHANGED vars
  BY <1>20 DEF vars
<1>. QED
  BY <1>1, <1>2, <1>3, <1>4, <1>5, <1>6, <1>7, <1>8, <1>9, <1>10,
     <1>11, <1>12, <1>13, <1>14, <1>15, <1>16, <1>17, <1>18, <1>19, <1>20
     DEF Next, Serve

\* Every way to the end leaves the client what it was promised.
LEMMA NextDone ==
    ASSUME TypeOK, BodyInv, DoneInv, [Next]_vars PROVE DoneInv'
<1> USE LimitAssumption DEF TypeOK, world, clientVars, body, BodyInv, BodyOf,
        DoneInv, DoneOf, Responses, Answering
<1>1. ASSUME NEW r \in Requests, NEW what \in Asked, Arrive(r, what)
      PROVE  DoneInv'
  BY <1>1 DEF Arrive, Goto
<1>2. ASSUME NEW r \in Requests, CheckEnabled(r) PROVE DoneInv'
  BY <1>2 DEF CheckEnabled, Goto, Status, Done
<1>3. ASSUME NEW r \in Requests, Gate(r) PROVE DoneInv'
  BY <1>3 DEF Gate, Answer, Goto, Status, Done
<1>4. ASSUME NEW r \in Requests, CheckTarget(r) PROVE DoneInv'
  BY <1>4 DEF CheckTarget, Answer, Goto, Status, Done
<1>5. ASSUME NEW r \in Requests, ServeWebSocket(r) PROVE DoneInv'
  BY <1>5 DEF ServeWebSocket, Answer, Goto, Status, Done
<1>6. ASSUME NEW r \in Requests, NEW answer \in Responses, Fetch(r, answer)
      PROVE  DoneInv'
  BY <1>6 DEF Fetch, Goto
<1>7. ASSUME NEW r \in Requests, FetchFails(r) PROVE DoneInv'
  BY <1>7 DEF FetchFails, Answer, Goto, Status, Done
<1>8. ASSUME NEW r \in Requests, Respond(r) PROVE DoneInv'
  BY <1>8 DEF Respond, Goto, Status
<1>9. ASSUME NEW r \in Requests, CopyChunk(r) PROVE DoneInv'
  BY <1>9 DEF CopyChunk
<1>10. ASSUME NEW r \in Requests, CopyEnds(r) PROVE DoneInv'
  BY <1>10 DEF CopyEnds, StreamOutcome, Goto, Done
<1>11. ASSUME NEW r \in Requests, CopyBreaks(r) PROVE DoneInv'
  BY <1>11 DEF CopyBreaks, StreamOutcome, Goto, Done
<1>12. ASSUME NEW r \in Requests, Buffer(r) PROVE DoneInv'
  BY <1>12 DEF Buffer, Goto
<1>13. ASSUME NEW r \in Requests, BufferFails(r) PROVE DoneInv'
  BY <1>13 DEF BufferFails, Answer, Goto, Status, Done
<1>14. ASSUME NEW r \in Requests, WritePrefix(r) PROVE DoneInv'
  BY <1>14 DEF WritePrefix, Goto, Status
<1>15. ASSUME NEW r \in Requests, WriteRewritten(r) PROVE DoneInv'
  <2>1. DoneOf(r)'
    BY <1>15 DEF WriteRewritten, Answer, Goto, Status, Done
  <2>2. ASSUME NEW q \in Requests \ {r} PROVE DoneOf(q)'
    BY <1>15 DEF WriteRewritten, Answer, Goto, Status, Done
  <2>. QED
    BY <2>1, <2>2
<1>16. ASSUME NEW r \in Requests, RewritePanics(r) PROVE DoneInv'
  BY <1>16 DEF RewritePanics, Goto, Status, Done
<1>17. ASSUME NEW r \in Requests, ClientLeaves(r) PROVE DoneInv'
  BY <1>17 DEF ClientLeaves
<1>18. CASE Toggle
  BY <1>18 DEF Toggle
<1>19. CASE AccessEnds
  BY <1>19 DEF AccessEnds
<1>20. CASE UNCHANGED vars
  BY <1>20 DEF vars
<1>. QED
  BY <1>1, <1>2, <1>3, <1>4, <1>5, <1>6, <1>7, <1>8, <1>9, <1>10,
     <1>11, <1>12, <1>13, <1>14, <1>15, <1>16, <1>17, <1>18, <1>19, <1>20
     DEF Next, Serve

\* No status is written twice.
LEMMA NextStatus ==
    ASSUME TypeOK, StatusInv, [Next]_vars PROVE StatusInv'
<1> USE LimitAssumption DEF TypeOK, world, clientVars, body, StatusInv
<1>1. ASSUME NEW r \in Requests, NEW what \in Asked, Arrive(r, what)
      PROVE  StatusInv'
  BY <1>1 DEF Arrive, Goto
<1>2. ASSUME NEW r \in Requests, CheckEnabled(r) PROVE StatusInv'
  BY <1>2 DEF CheckEnabled, Goto, Status, Done
<1>3. ASSUME NEW r \in Requests, Gate(r) PROVE StatusInv'
  BY <1>3 DEF Gate, Answer, Goto, Status, Done
<1>4. ASSUME NEW r \in Requests, CheckTarget(r) PROVE StatusInv'
  BY <1>4 DEF CheckTarget, Answer, Goto, Status, Done
<1>5. ASSUME NEW r \in Requests, ServeWebSocket(r) PROVE StatusInv'
  BY <1>5 DEF ServeWebSocket, Answer, Goto, Status, Done
<1>6. ASSUME NEW r \in Requests, NEW answer \in Responses, Fetch(r, answer)
      PROVE  StatusInv'
  BY <1>6 DEF Fetch, Goto
<1>7. ASSUME NEW r \in Requests, FetchFails(r) PROVE StatusInv'
  BY <1>7 DEF FetchFails, Answer, Goto, Status, Done
<1>8. ASSUME NEW r \in Requests, Respond(r) PROVE StatusInv'
  BY <1>8 DEF Respond, Goto, Status
<1>9. ASSUME NEW r \in Requests, CopyChunk(r) PROVE StatusInv'
  BY <1>9 DEF CopyChunk
<1>10. ASSUME NEW r \in Requests, CopyEnds(r) PROVE StatusInv'
  BY <1>10 DEF CopyEnds, StreamOutcome, Goto, Done
<1>11. ASSUME NEW r \in Requests, CopyBreaks(r) PROVE StatusInv'
  BY <1>11 DEF CopyBreaks, StreamOutcome, Goto, Done
<1>12. ASSUME NEW r \in Requests, Buffer(r) PROVE StatusInv'
  BY <1>12 DEF Buffer, Goto
<1>13. ASSUME NEW r \in Requests, BufferFails(r) PROVE StatusInv'
  BY <1>13 DEF BufferFails, Answer, Goto, Status, Done
<1>14. ASSUME NEW r \in Requests, WritePrefix(r) PROVE StatusInv'
  BY <1>14 DEF WritePrefix, Goto, Status
<1>15. ASSUME NEW r \in Requests, WriteRewritten(r) PROVE StatusInv'
  BY <1>15 DEF WriteRewritten, Answer, Goto, Status, Done
<1>16. ASSUME NEW r \in Requests, RewritePanics(r) PROVE StatusInv'
  BY <1>16 DEF RewritePanics, Goto, Status, Done
<1>17. ASSUME NEW r \in Requests, ClientLeaves(r) PROVE StatusInv'
  BY <1>17 DEF ClientLeaves
<1>18. CASE Toggle
  BY <1>18 DEF Toggle
<1>19. CASE AccessEnds
  BY <1>19 DEF AccessEnds
<1>20. CASE UNCHANGED vars
  BY <1>20 DEF vars
<1>. QED
  BY <1>1, <1>2, <1>3, <1>4, <1>5, <1>6, <1>7, <1>8, <1>9, <1>10,
     <1>11, <1>12, <1>13, <1>14, <1>15, <1>16, <1>17, <1>18, <1>19, <1>20
     DEF Next, Serve

\* The conjuncts together are inductive.
LEMMA NextIInv == IInv /\ [Next]_vars => IInv'
<1>1. TypeOK <=> Plain /\ outcomes \in [Requests -> [Outcomes -> 0 .. 1]]
  BY DEF TypeOK, Plain
<1>2. (TypeOK <=> Plain /\ outcomes \in [Requests -> [Outcomes -> 0 .. 1]])'
  BY DEF TypeOK, Plain
<1>. QED
  BY <1>1, <1>2, NextPlain, NextTallies, NextAllowed, NextBody, NextDone, NextStatus
     DEF IInv

\* The strengthened invariant holds throughout.
LEMMA Inductive == Spec => []IInv
BY InitIInv, NextIInv, PTL DEF Spec

-----------------------------------------------------------------------------
\* Every variable keeps its type: among others nothing is delivered that was
\* not read, and no outcome is counted twice.
THEOREM TypeCorrect == Spec => []TypeOK
<1>1. IInv => TypeOK
  BY DEF IInv
<1>. QED
  BY <1>1, Inductive, PTL

\* No request that came without access, and none for this proxy itself or a
\* telemetry sink, reaches an upstream, however toggles and deletions fall.
THEOREM ForbiddenNeverFetched == Spec => []NothingForbiddenIsFetched
<1>1. IInv => NothingForbiddenIsFetched
  BY DEF IInv, TypeOK, AllowedInv, NothingForbiddenIsFetched
<1>. QED
  BY <1>1, Inductive, PTL

\* The proxy's own pages carry nothing of the site's, and a declared length is
\* the length of what follows.
THEOREM HeadersAreTrue == Spec => []HeadersTellTheTruth
<1>1. ASSUME IInv, NEW r \in Requests PROVE
        status[r] \in {400, 403, 404, 500, 502} => headers[r] = {}
  BY <1>1 DEF IInv, DoneInv, DoneOf, BodyInv, BodyOf, StatusInv, Answering
<1>2. ASSUME IInv, NEW r \in Requests, pc[r] = "done", "length" \in headers[r]
      PROVE  /\ IF resp[r].text THEN resp[r].length <= Limit ELSE resp[r].sized
             /\ r \notin left \cup broken => delivered[r] = resp[r].length
  BY <1>2 DEF IInv, DoneInv, DoneOf
<1>3. IInv => HeadersTellTheTruth
  BY <1>1, <1>2 DEF HeadersTellTheTruth
<1>. QED
  BY <1>3, Inductive, PTL

\* A body that came whole is delivered whole, and what was buffered of a longer
\* one is not lost, for every length around the limit.
THEOREM BodiesStayWhole == Spec => []WholeBodiesLeaveWhole
<1>1. IInv => WholeBodiesLeaveWhole
  BY DEF IInv, DoneInv, DoneOf, WholeBodiesLeaveWhole
<1>. QED
  BY <1>1, Inductive, PTL

\* Each request is counted under one outcome, however it ends.
THEOREM OutcomesAreCounted == Spec => []OneOutcomeEach
<1>1. ASSUME IInv, NEW r \in Requests, pc[r] = "done"
      PROVE  \/ Cardinality(Counted(r)) = 1
             \/ Counted(r) = {} /\ status[r] \in {0, 404, 500}
  <2>1. CASE outcomes[r] = Zero /\ status[r] \in {0, 404, 500}
    BY <2>1 DEF Counted, Zero
  <2>2. ASSUME NEW o \in Outcomes, outcomes[r] = One(o)
        PROVE  Cardinality(Counted(r)) = 1
    <3>1. Counted(r) = {o}
      BY <2>2 DEF Counted, One
    <3>. QED
      BY <3>1, FS_Singleton
  <2>. QED
    BY <1>1, <2>1, <2>2 DEF IInv, CountInv
<1>2. IInv => OneOutcomeEach
  BY <1>1 DEF OneOutcomeEach
<1>. QED
  BY <1>2, Inductive, PTL
=============================================================================
