----------------------------- MODULE QueueManager -----------------------------
(***************************************************************************)
(* start(), dispose() and the operations of QueueManager that need a queue *)
(* (schedule, scheduleBulk, getJobCount, getJobsInQueue), with the lazy    *)
(* start of startIfNotStarted and the QueueRegistry that holds the BullMQ  *)
(* Queue objects (external).  Calls overlap in any order.                  *)
(*                                                                         *)
(* A step is what runs between two awaits; calls that await the same       *)
(* promise resume together.  A close() that rejects is one that resolves:  *)
(* dispose() awaits all that settle and tells no outcome from another, so  *)
(* a queue is open until its close() has settled, and what a connection is *)
(* after a close() that rejected is BullMQ's.                              *)
(***************************************************************************)
EXTENDS Naturals

CONSTANTS
    Queues,          \* the ids of the supported queues
    Calls,           \* calls of start() and of the operations
    Starts,          \* the sets of queues that callers of start() enable
    LazyInitEnabled

ASSUME ManagerAssumption ==
    /\ Starts \subseteq SUBSET Queues
    /\ LazyInitEnabled \in BOOLEAN

Start == "start"

VARIABLES
    queues,   \* the registry's queues; not empty: isStarted
    promise,  \* this.startPromise
    closing,  \* the queues that dispose() awaits the close of
    open,     \* Queue objects of each id whose close() has not settled
    pc,       \* where each call is
    call,     \* what it wants: a queue, or only to start
    answer    \* how it ended

vars == <<queues, promise, closing, open, pc, call, answer>>

TypeOK ==
    /\ queues \subseteq Queues
    /\ promise \in {"none", "pending", "rejected"}
    /\ closing \subseteq Queues
    /\ open \in [Queues -> Nat]
    /\ pc \in [Calls -> {"idle", "starting", "started", "ended"}]
    /\ call \in [Calls -> Queues \cup {Start}]
    /\ answer \in [Calls -> {"none", "ok", "notStarted", "startFailed", "notInstantiated"}]

Init ==
    /\ queues = {}
    /\ promise = "none"
    /\ closing = {}
    /\ open = [q \in Queues |-> 0]
    /\ pc = [c \in Calls |-> "idle"]
    /\ call = [c \in Calls |-> Start]
    /\ answer = [c \in Calls |-> "none"]

Ended(c, a) ==
    /\ pc' = [pc EXCEPT ![c] = "ended"]
    /\ answer' = [answer EXCEPT ![c] = a]

Goto(c, next) == pc' = [pc EXCEPT ![c] = next] /\ UNCHANGED answer

\* QueueRegistry.start up to its first await: build the queues and keep them
BuildQueues(enabled) ==
    /\ queues' = queues \cup enabled
    /\ open' = [q \in Queues |-> IF q \in enabled THEN open[q] + 1 ELSE open[q]]

\* fault: it awaits a start that has failed already
EnterStale(c, enabled) ==
    /\ IF queues = {} /\ promise = "none"
       THEN BuildQueues(enabled) /\ promise' = "pending"
       ELSE UNCHANGED <<queues, open, promise>>
    /\ Goto(c, "starting")

\* start(enabled): skip when started, join a start that is pending (or fail with
\* one that failed), else start the registry
Enter(c, enabled) ==
    IF queues # {}
    THEN /\ Goto(c, "started")
         /\ UNCHANGED <<queues, open, promise>>
    ELSE IF promise # "none"
    THEN /\ IF promise = "pending" THEN Goto(c, "starting") ELSE Ended(c, "startFailed")
         /\ UNCHANGED <<queues, open, promise>>
    ELSE /\ BuildQueues(enabled)
         /\ promise' = "pending"
         /\ Goto(c, "starting")

\* start(): of all queues, of some, or of none (enabled = []); start(false) does nothing
CallStart(c) ==
    /\ pc[c] = "idle"
    /\ call' = [call EXCEPT ![c] = Start]
    /\ \E enabled \in Starts : Enter(c, enabled)
    /\ UNCHANGED closing

\* fault: lazyInitEnabled is not looked at
CallOperationLazily(c) ==
    /\ pc[c] = "idle"
    /\ \E q \in Queues : call' = [call EXCEPT ![c] = q] /\ Enter(c, {q})
    /\ UNCHANGED closing

\* schedule(q) and the others: startIfNotStarted(q) refuses or starts queue q
CallOperation(c) ==
    /\ pc[c] = "idle"
    /\ \E q \in Queues :
          /\ call' = [call EXCEPT ![c] = q]
          /\ IF queues = {} /\ ~LazyInitEnabled
             THEN Ended(c, "notStarted") /\ UNCHANGED <<queues, open, promise>>
             ELSE Enter(c, {q})
    /\ UNCHANGED closing

\* the queues are ready and registered, or one is not: only a success clears
\* this.startPromise
StartSettles ==
    /\ promise = "pending"
    /\ \/ /\ promise' = "none"
          /\ pc' = [c \in Calls |-> IF pc[c] = "starting" THEN "started" ELSE pc[c]]
          /\ UNCHANGED answer
       \/ /\ promise' = "rejected"
          /\ pc' = [c \in Calls |-> IF pc[c] = "starting" THEN "ended" ELSE pc[c]]
          /\ answer' = [c \in Calls |-> IF pc[c] = "starting" THEN "startFailed" ELSE answer[c]]
    /\ UNCHANGED <<queues, closing, open, call>>

\* the call goes on: getQueue() of the queue it is about
Resume(c) ==
    /\ pc[c] = "started"
    /\ Ended(c, IF call[c] \in queues \cup {Start} THEN "ok" ELSE "notInstantiated")
    /\ UNCHANGED <<queues, promise, closing, open, call>>

\* the caller makes its next call
Again(c) ==
    /\ pc[c] = "ended"
    /\ pc' = [pc EXCEPT ![c] = "idle"]
    /\ answer' = [answer EXCEPT ![c] = "none"]
    /\ UNCHANGED <<queues, promise, closing, open, call>>

\* fault: the queues are forgotten before they are closed
DisposeAtOnce ==
    /\ queues # {}
    /\ closing' = queues
    /\ queues' = {}
    /\ UNCHANGED <<promise, open, pc, call, answer>>

\* dispose(): close the queues there are now (a second dispose() joins the first)
Dispose ==
    /\ queues # {}
    /\ closing' = queues
    /\ UNCHANGED <<queues, promise, open, pc, call, answer>>

\* their closes have settled (allSettled): forget the queues there are now
Disposed ==
    /\ closing # {}
    /\ open' = [q \in Queues |-> IF q \in closing THEN open[q] - 1 ELSE open[q]]
    /\ queues' = {}
    /\ closing' = {}
    /\ UNCHANGED <<promise, pc, call, answer>>

Next ==
    \/ StartSettles \/ Dispose \/ Disposed
    \/ \E c \in Calls : CallStart(c) \/ CallOperation(c) \/ Resume(c) \/ Again(c)

Spec == Init /\ [][Next]_vars

\* Redis answers; nobody is assumed to call anything
Fairness ==
    /\ WF_vars(StartSettles) /\ WF_vars(Disposed)
    /\ \A c \in Calls : WF_vars(Resume(c))

FairSpec == Spec /\ Fairness

-----------------------------------------------------------------------------
(* Properties *)

\* Every Queue object whose close() has not settled is in the registry, once: no overlap of
\* starts, lazy starts and disposals leaves a connection nobody can close.
NoLeakedQueue == \A q \in Queues : open[q] = IF q \in queues THEN 1 ELSE 0

\* What dispose() forgets is what it closed, although it reads this.queues twice.
ForgetsWhatItCloses == closing # {} => closing = queues

\* Every call ends: none waits for a start that was lost.
CallsEnd == \A c \in Calls : pc[c] \in {"starting", "started"} ~> pc[c] = "ended"

\* When every start is of all queues, an operation whose start succeeded is
\* refused only if the manager was disposed on its way: the registry is empty.
RefusesWhenEmpty ==
    \A c \in Calls :
        answer[c] # "notInstantiated" /\ answer'[c] = "notInstantiated" => queues = {}

\* README: queues are automatically started when the manager is given a list of
\* them.  With lazy start, a listed queue is instantiated when an operation needs
\* it, while nobody disposes the manager.
LazyStartsQueue ==
    [][\A c \in Calls :
          LazyInitEnabled /\ queues # {} /\ answer[c] # "notInstantiated" =>
              answer'[c] # "notInstantiated"]_vars
=============================================================================
