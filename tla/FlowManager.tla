------------------------------ MODULE FlowManager ------------------------------
(***************************************************************************)
(* start(), dispose() and the adding of flows (addFlow, addFlowBulk,       *)
(* getFlow) of FlowManager, around the one BullMQ FlowProducer (external)  *)
(* it keeps.  Unlike QueueManager it waits in dispose() for a start that   *)
(* is under way.                                                           *)
(*                                                                         *)
(* A step is what runs between two awaits; calls that await the same       *)
(* promise resume together.  A close() that rejects is one that resolves:  *)
(* both callers swallow the rejection and go on.  So "closed" says that    *)
(* close() was called and has settled, and what a connection is after a    *)
(* close() that rejected is BullMQ's.                                      *)
(***************************************************************************)
CONSTANTS
    Calls,            \* calls of start() and of the flow operations
    Disposals,        \* calls of dispose()
    Producers,        \* bound: FlowProducer objects (a closed one is used again)
    NoProducer,
    LazyInitEnabled

ASSUME FlowAssumption ==
    /\ NoProducer \notin Producers
    /\ LazyInitEnabled \in BOOLEAN

VARIABLES
    flowProducer,  \* this.flowProducer
    starting,      \* the producer of the pending this.startPromise
    producer,      \* state of each FlowProducer
    call,          \* where each call is, and how it ended
    needs,         \* the call adds a flow
    disposal,      \* where each dispose() is
    wanted         \* the last call began with start, not with dispose

vars == <<flowProducer, starting, producer, call, needs, disposal, wanted>>

TypeOK ==
    /\ flowProducer \in Producers \cup {NoProducer}
    /\ starting \in Producers \cup {NoProducer}
    /\ producer \in [Producers -> {"closed", "connecting", "open", "closing"}]
    /\ call \in [Calls -> {"idle", "starting", "started", "ok", "failed", "notStarted"}]
    /\ needs \in [Calls -> BOOLEAN]
    /\ disposal \in [Disposals -> {"idle", "waiting", "closing"}]
    /\ wanted \in BOOLEAN

Init ==
    /\ flowProducer = NoProducer
    /\ starting = NoProducer
    /\ producer = [p \in Producers |-> "closed"]
    /\ call = [c \in Calls |-> "idle"]
    /\ needs = [c \in Calls |-> FALSE]
    /\ disposal = [d \in Disposals |-> "idle"]
    /\ wanted = FALSE

Pending  == starting # NoProducer
Started  == flowProducer # NoProducer

\* start(): skip when started, join a start that is pending, else build a
\* producer and await its connection
Enter(c) ==
    IF Started
    THEN /\ call' = [call EXCEPT ![c] = "started"]
         /\ UNCHANGED <<starting, producer>>
    ELSE /\ call' = [call EXCEPT ![c] = "starting"]
         /\ IF Pending
            THEN UNCHANGED <<starting, producer>>
            ELSE \E p \in Producers :
                    /\ producer[p] = "closed"
                    /\ starting' = p
                    /\ producer' = [producer EXCEPT ![p] = "connecting"]

Start(c) ==
    /\ call[c] = "idle"
    /\ needs' = [needs EXCEPT ![c] = FALSE]
    /\ wanted' = TRUE
    /\ Enter(c)
    /\ UNCHANGED <<flowProducer, disposal>>

\* addFlow: startIfNotStarted, which is start() unless lazy init is disabled
Add(c) ==
    /\ call[c] = "idle"
    /\ needs' = [needs EXCEPT ![c] = TRUE]
    /\ IF ~Started /\ ~LazyInitEnabled
       THEN /\ call' = [call EXCEPT ![c] = "notStarted"]
            /\ UNCHANGED <<starting, producer, wanted>>
       ELSE /\ wanted' = TRUE
            /\ Enter(c)
    /\ UNCHANGED <<flowProducer, disposal>>

\* what dispose() does once no start is pending: close the producer, if any
Close(waiting) ==
    /\ producer' = [producer EXCEPT ![flowProducer'] = "closing"]
    /\ disposal' = [d \in Disposals |-> IF d \in waiting THEN "closing" ELSE disposal[d]]

WaitingDisposals == {d \in Disposals : disposal[d] = "waiting"}

\* doStart connected: the producer is kept, the start's callers go on, and the
\* dispose() calls that waited for it close it
Connected ==
    /\ Pending
    /\ flowProducer' = starting
    /\ starting' = NoProducer
    /\ call' = [c \in Calls |-> IF call[c] = "starting" THEN "started" ELSE call[c]]
    /\ IF WaitingDisposals = {}
       THEN producer' = [producer EXCEPT ![starting] = "open"] /\ UNCHANGED disposal
       ELSE Close(WaitingDisposals)
    /\ UNCHANGED <<needs, wanted>>

\* faults: a producer that failed to connect is left as it is, or its state is lost;
\* those who awaited the start are not told
ConnectFailsOpen ==
    /\ Pending
    /\ starting' = NoProducer
    /\ call' = [c \in Calls |-> IF call[c] = "starting" THEN "failed" ELSE call[c]]
    /\ UNCHANGED <<flowProducer, producer, disposal, needs, wanted>>
ConnectFailsSilently ==
    /\ Pending
    /\ starting' = NoProducer
    /\ producer' = [producer EXCEPT ![starting] = "closed"]
    /\ UNCHANGED <<flowProducer, call, disposal, needs, wanted>>

\* doStart failed: it called the producer's close(), which has settled, and there is nothing to dispose
ConnectFails ==
    /\ Pending
    /\ starting' = NoProducer
    /\ producer' = [producer EXCEPT ![starting] = "closed"]
    /\ call' = [c \in Calls |-> IF call[c] = "starting" THEN "failed" ELSE call[c]]
    /\ disposal' = [d \in Disposals |-> IF disposal[d] = "waiting" THEN "idle" ELSE disposal[d]]
    /\ UNCHANGED <<flowProducer, needs, wanted>>

\* faults: dispose() does not wait for the start under way; it does not await the close
DisposeImpatient(d) ==
    /\ disposal[d] = "idle"
    /\ wanted' = FALSE
    /\ IF Started
       THEN UNCHANGED flowProducer /\ Close({d})
       ELSE UNCHANGED <<flowProducer, producer, disposal>>
    /\ UNCHANGED <<starting, call, needs>>
Dispose(d) ==
    /\ disposal[d] = "idle"
    /\ wanted' = FALSE
    /\ IF Pending
       THEN disposal' = [disposal EXCEPT ![d] = "waiting"] /\ UNCHANGED <<flowProducer, producer>>
       ELSE IF Started
       THEN UNCHANGED flowProducer /\ Close({d})
       ELSE UNCHANGED <<flowProducer, producer, disposal>>
    /\ UNCHANGED <<starting, call, needs>>

\* the close() that every dispose() awaits has resolved or rejected: the producer is
\* forgotten either way
Closed ==
    /\ \E d \in Disposals : disposal[d] = "closing"
    /\ producer' = [producer EXCEPT ![flowProducer] = "closed"]
    /\ flowProducer' = NoProducer
    /\ disposal' = [d \in Disposals |-> IF disposal[d] = "closing" THEN "idle" ELSE disposal[d]]
    /\ UNCHANGED <<starting, call, needs, wanted>>

\* the call goes on: getFlowProducer().add, which fails on a closing producer
Resume(c) ==
    /\ call[c] = "started"
    /\ call' = [call EXCEPT ![c] =
                    IF ~needs[c] THEN "ok"
                    ELSE IF ~Started THEN "notStarted"
                    ELSE IF producer[flowProducer] = "open" THEN "ok" ELSE "failed"]
    /\ UNCHANGED <<flowProducer, starting, producer, needs, disposal, wanted>>

\* the caller makes its next call
Again(c) ==
    /\ call[c] \in {"ok", "failed", "notStarted"}
    /\ call' = [call EXCEPT ![c] = "idle"]
    /\ UNCHANGED <<flowProducer, starting, producer, needs, disposal, wanted>>

Next ==
    \/ Connected \/ ConnectFails \/ Closed
    \/ \E c \in Calls : Start(c) \/ Add(c) \/ Resume(c) \/ Again(c)
    \/ \E d \in Disposals : Dispose(d)

Spec == Init /\ [][Next]_vars

\* Redis answers; nobody is assumed to call anything
Fairness ==
    /\ WF_vars(Connected \/ ConnectFails) /\ WF_vars(Closed)
    /\ \A c \in Calls : WF_vars(Resume(c))

FairSpec == Spec /\ Fairness

-----------------------------------------------------------------------------
(* Properties *)

\* A producer whose close() has not settled can still be closed: it is the one that is
\* kept or the one that is being started, and there is only one of them.
NoLeakedProducer ==
    /\ \A p \in Producers : producer[p] # "closed" => p \in {flowProducer, starting}
    /\ ~(Started /\ Pending)

\* dispose(): when the calls of dispose() have returned and nobody started the
\* manager since, every producer's close() has settled, also if a start was under way ("so we
\* don't leak a producer that gets assigned right after dispose returns").
DisposeIsFinal ==
    ~wanted /\ (\A d \in Disposals : disposal[d] = "idle") =>
        \A p \in Producers : producer[p] = "closed"

\* Calls and disposals end, and a start that was waited for does not strand the
\* dispose() that waited.
CallsEnd ==
    /\ \A c \in Calls : call[c] \in {"starting", "started"} ~> call[c] \in {"ok", "failed", "notStarted"}
    /\ \A d \in Disposals : disposal[d] = "waiting" ~> disposal[d] # "waiting"

\* A closing producer has a dispose() that waits for it and will forget it.
CloserWaits ==
    \A p \in Producers :
        producer[p] = "closing" <=> p = flowProducer /\ \E d \in Disposals : disposal[d] = "closing"
=============================================================================
