---------------------------- MODULE DurableRoster ----------------------------
(***************************************************************************)
(* What the access roster promises, without files, locks or handlers: the  *)
(* live roster changes one user at a time, the durable copy is only ever   *)
(* replaced by the complete live roster, and a restart brings back either  *)
(* exactly the durable copy or, when that cannot be read, nobody.          *)
(***************************************************************************)
CONSTANT Users

VARIABLES
    up,         \* the process is running
    live,       \* the users whose tokens are honoured
    durable     \* the users a restart would bring back

vars == <<up, live, durable>>

Init ==
    /\ up = TRUE
    /\ live = {}
    /\ durable = {}

Add(u) ==
    /\ up
    /\ live' = live \cup {u}
    /\ UNCHANGED <<up, durable>>

Remove(u) ==
    /\ up
    /\ live' = live \ {u}
    /\ UNCHANGED <<up, durable>>

Save ==
    /\ up
    /\ durable' = live
    /\ UNCHANGED <<up, live>>

Stop ==
    /\ up
    /\ up' = FALSE
    /\ live' = {}
    /\ UNCHANGED durable

Start ==
    /\ ~up
    /\ up' = TRUE
    /\ live' \in {durable, {}}
    /\ UNCHANGED durable

\* The operator spoils the stored copy while the process is down.
Spoil ==
    /\ ~up
    /\ durable' = {}
    /\ UNCHANGED <<up, live>>

Next ==
    \/ \E u \in Users : Add(u) \/ Remove(u)
    \/ Save
    \/ Stop
    \/ Start
    \/ Spoil

Spec == Init /\ [][Next]_vars
=============================================================================
