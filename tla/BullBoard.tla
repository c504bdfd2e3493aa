------------------------------- MODULE BullBoard -------------------------------
(***************************************************************************)
(* fastify-bullboard-plugin: the dashboard shows BullMQ Queue objects of   *)
(* the queues discovered in Redis, and a scheduled job replaces them by    *)
(* the queues of a newer discovery until the server closes.  The queues of *)
(* one discovery are built and replaced together: a generation.            *)
(***************************************************************************)
EXTENDS Naturals, FiniteSets

CONSTANTS
    Generations,  \* bound: discoveries whose queues exist at a time
    CloseMayFail  \* queue.close() may reject

VARIABLES
    open,      \* generations with a queue that is not closed
    current,   \* currentQueues
    shown,     \* what the dashboard has
    refresh,   \* where replaceQueues is
    fresh,     \* its newQueues
    old,       \* the currentQueues it closes
    server,    \* the Fastify server
    closing    \* what its onClose hook closes

vars == <<open, current, shown, refresh, fresh, old, server, closing>>

TypeOK ==
    /\ {current, shown, fresh, old, closing} \subseteq Generations
    /\ open \subseteq Generations
    /\ refresh \in {"idle", "discovering", "replacing"}
    /\ server \in {"up", "closing", "closed"}

\* the plugin is registered: a first discovery, shown and kept
Init ==
    /\ \E g \in Generations :
          /\ open = {g}
          /\ current = g /\ shown = g /\ fresh = g /\ old = g /\ closing = g
    /\ refresh = "idle"
    /\ server = "up"

\* the interval job fires (preventOverrun); the closing server stops the scheduler
Fire ==
    /\ refresh = "idle" /\ server = "up"
    /\ refresh' = "discovering"
    /\ UNCHANGED <<open, current, shown, fresh, old, server, closing>>

\* fault: the new queues are not shown
ReplaceUnshown ==
    /\ refresh = "discovering"
    /\ \E g \in Generations \ (open \cup {current, shown}) :
          open' = open \cup {g} /\ fresh' = g
    /\ old' = current
    /\ refresh' = "replacing"
    /\ UNCHANGED <<current, shown, server, closing>>

\* Redis answered: build the queues and show them, then close the current ones
Replace ==
    /\ refresh = "discovering"
    /\ \E g \in Generations \ (open \cup {current, shown}) :
          /\ open' = open \cup {g}
          /\ fresh' = g
          /\ shown' = g
    /\ old' = current
    /\ refresh' = "replacing"
    /\ UNCHANGED <<current, server, closing>>

\* the discovery failed: the old queues stay
DiscoveryFails ==
    /\ refresh = "discovering"
    /\ refresh' = "idle"
    /\ UNCHANGED <<open, current, shown, fresh, old, server, closing>>

\* Promise.all over the closes: only when none fails, the new queues are kept as
\* the current ones
Replaced ==
    /\ refresh = "replacing"
    /\ refresh' = "idle"
    /\ \/ open' = open \ {old} /\ current' = fresh
       \/ CloseMayFail /\ open' \in {open, open \ {old}} /\ UNCHANGED current
    /\ UNCHANGED <<shown, fresh, old, server, closing>>

\* the onClose hook: close the current queues and the connections for discovery
Close ==
    /\ server = "up"
    /\ server' = "closing"
    /\ closing' = current
    /\ UNCHANGED <<open, current, shown, refresh, fresh, old>>

Closed ==
    /\ server = "closing"
    /\ server' = "closed"
    /\ \/ open' = open \ {closing}
       \/ CloseMayFail /\ UNCHANGED open
    /\ UNCHANGED <<current, shown, refresh, fresh, old, closing>>

Next == Fire \/ Replace \/ DiscoveryFails \/ Replaced \/ Close \/ Closed

Spec == Init /\ [][Next]_vars

-----------------------------------------------------------------------------
(* Properties *)

\* The dashboard never shows closed queues while the server is up: the new ones
\* are shown before the old ones are closed, also when a close failed before.
ShowsOpenQueues == server = "up" => shown \in open

\* Refreshing does not pile up connections: at most two generations are open.
TwoGenerations == Cardinality(open) <= 2

\* "Cleanup connections on shutdown": when the server is closed and no refresh is
\* running, no queue is open.
ShutdownCleansUp == server = "closed" /\ refresh = "idle" => open = {}

-----------------------------------------------------------------------------
(* The inductive invariants *)

\* What is closed is not what is shown
IInv ==
    /\ ShowsOpenQueues
    /\ refresh = "replacing" => old # shown

\* The generations that are open when closes succeed
OpenInv ==
    IF refresh = "replacing" THEN current = old /\ open \subseteq {old, fresh} ELSE open \subseteq {current}
=============================================================================
