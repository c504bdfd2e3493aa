--------------------------- MODULE FlowManagerProofs ---------------------------
(***************************************************************************)
(* For all calls, disposals and producers: no FlowProducer is leaked and   *)
(* dispose() is final.                                                     *)
(***************************************************************************)
EXTENDS FlowManager, TLAPS

\* Each variable keeps its type.
THEOREM FlowTypes == Spec => []TypeOK
<1> USE FlowAssumption
<1>1. Init => TypeOK
  BY DEF Init, TypeOK
<1>2. TypeOK /\ [Next]_vars => TypeOK'
  <2> SUFFICES ASSUME TypeOK, [Next]_vars PROVE TypeOK'
    OBVIOUS
  <2> USE DEF TypeOK
  <2>1. ASSUME NEW c \in Calls, Start(c) PROVE TypeOK'
    BY <2>1 DEF Start, Enter
  <2>2. ASSUME NEW c \in Calls, Add(c) PROVE TypeOK'
    BY <2>2 DEF Add, Enter
  <2>3. CASE Connected
    BY <2>3 DEF Connected, Close, Pending
  <2>4. CASE ConnectFails
    BY <2>4 DEF ConnectFails, Pending
  <2>5. CASE Closed
    BY <2>5 DEF Closed
  <2>6. ASSUME NEW d \in Disposals, Dispose(d) PROVE TypeOK'
    <3>1. UNCHANGED <<flowProducer, starting, call, needs>> /\ wanted' = FALSE
      BY <2>6 DEF Dispose
    <3>2. disposal' \in [Disposals -> {"idle", "waiting", "closing"}]
      BY <2>6 DEF Dispose, Close
    <3>3. producer' \in [Producers -> {"closed", "connecting", "open", "closing"}]
      BY <2>6 DEF Dispose, Close
    <3>4. QED
      BY <3>1, <3>2, <3>3
  <2>7. ASSUME NEW c \in Calls, Resume(c) \/ Again(c) PROVE TypeOK'
    BY <2>7 DEF Resume, Again
  <2>8. CASE UNCHANGED vars
    BY <2>8 DEF vars
  <2> QED
    BY <2>1, <2>2, <2>3, <2>4, <2>5, <2>6, <2>7, <2>8 DEF Next
<1> QED
  BY <1>1, <1>2, PTL DEF Spec

-----------------------------------------------------------------------------

SomeIn(place) == \E d \in Disposals : disposal[d] = place

\* The state of every producer, told by the two references to it.
StatesMatch ==
    \A p \in Producers :
        producer[p] = IF p = starting THEN "connecting"
                      ELSE IF p # flowProducer THEN "closed"
                      ELSE IF SomeIn("closing") THEN "closing" ELSE "open"

\* A dispose() past its first line awaits something that is there, and what is
\* there after the last call was a dispose() is awaited by one.
DisposalsAccounted ==
    /\ ~(Started /\ Pending)
    /\ SomeIn("waiting") => Pending
    /\ SomeIn("closing") => Started
    /\ ~wanted /\ Pending => SomeIn("waiting")
    /\ ~wanted /\ Started => SomeIn("closing")

FlowInv == StatesMatch /\ DisposalsAccounted

\* The inductive invariant: it holds at first and every step keeps it.
THEOREM FlowInvariant == Spec => []FlowInv
<1> USE FlowAssumption DEF Started, Pending
<1>1. Init => FlowInv
  BY DEF Init, FlowInv, StatesMatch, DisposalsAccounted, SomeIn
<1>2. TypeOK /\ FlowInv /\ [Next]_vars => FlowInv'
  <2> SUFFICES ASSUME TypeOK, FlowInv, [Next]_vars PROVE FlowInv'
    OBVIOUS
  <2> USE DEF TypeOK, FlowInv, StatesMatch, DisposalsAccounted, SomeIn
  <2>1. ASSUME NEW c \in Calls, Start(c) PROVE FlowInv'
    BY <2>1 DEF Start, Enter
  <2>2. ASSUME NEW c \in Calls, Add(c) PROVE FlowInv'
    BY <2>2 DEF Add, Enter
  <2>3. CASE Connected
    <3>1. CASE WaitingDisposals = {}
      BY <2>3, <3>1 DEF Connected, WaitingDisposals
    <3>2. CASE WaitingDisposals # {}
      BY <2>3, <3>2 DEF Connected, Close, WaitingDisposals
    <3> QED
      BY <3>1, <3>2
  <2>4. CASE ConnectFails
    BY <2>4 DEF ConnectFails
  <2>5. CASE Closed
    BY <2>5 DEF Closed
  <2>6. ASSUME NEW d \in Disposals, Dispose(d) PROVE FlowInv'
    BY <2>6 DEF Dispose, Close
  <2>7. CASE UNCHANGED <<flowProducer, starting, producer, disposal, wanted>>
    BY <2>7
  <2> QED
    BY <2>1, <2>2, <2>3, <2>4, <2>5, <2>6, <2>7 DEF Next, vars, Resume, Again
<1> QED
  BY <1>1, <1>2, FlowTypes, PTL DEF Spec

\* However starts, lazy starts and disposals overlap, a producer whose close() has
\* not settled is referenced, one that closes is waited for, and nothing is open
\* once the last calls were of dispose() and have returned.
THEOREM ProducersAreDisposed == Spec => [](NoLeakedProducer /\ CloserWaits /\ DisposeIsFinal)
<1>1. TypeOK /\ FlowInv => NoLeakedProducer /\ CloserWaits /\ DisposeIsFinal
  <2> SUFFICES ASSUME TypeOK, FlowInv
               PROVE  NoLeakedProducer /\ CloserWaits /\ DisposeIsFinal
    OBVIOUS
  <2> USE FlowAssumption DEF TypeOK, FlowInv, StatesMatch, DisposalsAccounted, SomeIn,
          Started, Pending
  <2>1. NoLeakedProducer
    BY DEF NoLeakedProducer
  <2>2. CloserWaits
    BY DEF CloserWaits
  <2>3. DisposeIsFinal
    BY DEF DisposeIsFinal
  <2> QED
    BY <2>1, <2>2, <2>3
<1> QED
  BY <1>1, FlowTypes, FlowInvariant, PTL
\* When the calls of dispose() have returned and nobody started the manager since, no
\* producer is left whose close() has not settled, also when a dispose() met a start under way.
THEOREM DisposalsAreFinal == Spec => []DisposeIsFinal
  BY ProducersAreDisposed, PTL
=============================================================================
