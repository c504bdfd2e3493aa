------------------------------ MODULE LeasedLock ------------------------------
(***************************************************************************)
(* What the single consumer mode promises to the jobs that rely on it: an  *)
(* exclusive section under a lease.  A client enters only while it holds   *)
(* the lease, and the lease neither ends nor is shortened under a client   *)
(* that is inside and has not resigned.  PeriodicJob implements it.        *)
(***************************************************************************)
EXTENDS Naturals

CONSTANTS
    Clients,  \* who contends for the lease
    Nobody,   \* the holder of a lease that is free
    Full,     \* the lease of an acquisition or a renewal
    Short     \* the lease a client leaves behind after its section

VARIABLES
    holder,   \* the client that holds the lease, or Nobody
    left,     \* the time left of it
    inside,   \* the clients in the exclusive section that did not resign
    resigned  \* the clients that gave up the lease for good

lockVars == <<holder, left, inside, resigned>>

Init ==
    /\ holder = Nobody /\ left = 0
    /\ inside = {} /\ resigned = {}

Take(c) ==
    /\ holder = Nobody
    /\ holder' = c /\ left' = Full
    /\ UNCHANGED <<inside, resigned>>

Renew(c) ==
    /\ holder = c
    /\ left' = Full
    /\ UNCHANGED <<holder, inside, resigned>>

Enter(c) ==
    /\ holder = c /\ c \notin resigned
    /\ inside' = inside \cup {c}
    /\ UNCHANGED <<holder, left, resigned>>

Leave(c) ==
    /\ inside' = inside \ {c}
    /\ UNCHANGED <<holder, left, resigned>>

Shorten(c) ==
    /\ holder = c /\ c \notin inside
    /\ left' = Short
    /\ UNCHANGED <<holder, inside, resigned>>

Resign(c) ==
    /\ resigned' = resigned \cup {c}
    /\ inside' = inside \ {c}
    /\ UNCHANGED <<holder, left>>

\* Only the holder's resignation ends a lease before its time
Release(c) ==
    /\ holder = c /\ c \in resigned
    /\ holder' = Nobody /\ left' = 0
    /\ UNCHANGED <<inside, resigned>>

\* Time passes; the lease of a client inside does not run out
Age ==
    /\ left > 0
    /\ left' = left - 1
    /\ \/ left > 1 /\ holder' = holder
       \/ left = 1 /\ inside = {} /\ holder' = Nobody
    /\ UNCHANGED <<inside, resigned>>

Next ==
    \/ Age
    \/ \E c \in Clients :
          \/ Take(c) \/ Renew(c) \/ Enter(c) \/ Leave(c)
          \/ Shorten(c) \/ Resign(c) \/ Release(c)

Spec == Init /\ [][Next]_lockVars

-----------------------------------------------------------------------------
\* The section is exclusive: whoever is inside holds the lease.
InsideHolds == \A c \in inside : holder = c
=============================================================================
