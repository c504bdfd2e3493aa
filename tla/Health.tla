------------------------------- MODULE Health -------------------------------
(***************************************************************************)
(* healthcheck-utils: the health checks that HealthcheckRefreshJob runs    *)
(* periodically, two at a time, and the store of their results, a FifoMap  *)
(* (of toad-cache, external) whose entries expire, that tells the server   *)
(* and the gauges whether a dependency is available.                       *)
(***************************************************************************)
EXTENDS Naturals, FiniteSets, SequencesExt

CONSTANTS
    Checks,
    MaxHealthcheckNumber, Ttl,
    Concurrency                 \* of the job's PromisePool

VARIABLES
    store,      \* the entries, the first that was inserted first
    checking,   \* the checks under way
    due,        \* those that the job has still to start
    answer,     \* history: what each check answered last
    age         \* history: how long ago, Ttl + 1 for longer

vars == <<store, checking, due, answer, age>>

Older(n) == IF n <= Ttl THEN n + 1 ELSE n

TypeOK ==
    /\ store \in Seq([id : Checks, successful : BOOLEAN, age : 0..(Ttl + 1)])
    /\ Len(store) <= MaxHealthcheckNumber
    /\ checking \subseteq Checks /\ due \subseteq Checks
    /\ answer \in [Checks -> {"none", "up", "down"}]
    /\ age \in [Checks -> 0..(Ttl + 1)]

Init ==
    /\ store = <<>>
    /\ checking = {} /\ due = {}
    /\ answer = [c \in Checks |-> "none"] /\ age = [c \in Checks |-> Ttl + 1]

-----------------------------------------------------------------------------
(* The store *)

Position(id) == {i \in DOMAIN store : store[i].id = id}

\* set: an entry that is there keeps its place; the first one makes room for a new one
Set(id, successful) ==
    LET entry == [id |-> id, successful |-> successful, age |-> 0]
    IN  store' = IF Position(id) # {}
                 THEN [i \in DOMAIN store |-> IF store[i].id = id THEN entry ELSE store[i]]
                 ELSE Append(IF Len(store) = MaxHealthcheckNumber THEN Tail(store) ELSE store, entry)

\* getHealthcheckResult: what is missing or has expired counts as a failure
GetHealthcheckResult(id) ==
    \E i \in Position(id) : store[i].age <= Ttl /\ store[i].successful

\* get() removes an entry that has expired
Read(id) ==
    /\ \E i \in Position(id) : store[i].age > Ttl /\ store' = RemoveAt(store, i)
    /\ UNCHANGED <<checking, due, answer, age>>

-----------------------------------------------------------------------------
(* The job, whose runs do not overlap *)

Refresh ==
    /\ due = {} /\ checking = {}
    /\ due' = Checks
    /\ UNCHANGED <<store, checking, answer, age>>

Execute(id) ==
    /\ id \in due /\ Cardinality(checking) < Concurrency
    /\ due' = due \ {id} /\ checking' = checking \cup {id}
    /\ UNCHANGED <<store, answer, age>>

\* the check resolved: storeResult
Answered(id) ==
    /\ id \in checking
    /\ \E successful \in BOOLEAN :
          /\ Set(id, successful)
          /\ answer' = [answer EXCEPT ![id] = IF successful THEN "up" ELSE "down"]
    /\ age' = [age EXCEPT ![id] = 0]
    /\ checking' = checking \ {id}
    /\ UNCHANGED due

\* the check rejected: the pool goes on, nothing is stored
Rejected(id) ==
    /\ id \in checking
    /\ checking' = checking \ {id}
    /\ UNCHANGED <<store, due, answer, age>>

Tick ==
    /\ store' = [i \in DOMAIN store |-> [store[i] EXCEPT !.age = Older(@)]]
    /\ age' = [c \in Checks |-> Older(age[c])]
    /\ UNCHANGED <<checking, due, answer>>

Next ==
    \/ Refresh \/ Tick
    \/ \E id \in Checks : Read(id) \/ Execute(id) \/ Answered(id) \/ Rejected(id)

Spec == Init /\ [][Next]_vars

-----------------------------------------------------------------------------
(* Properties *)

\* A dependency is reported as available only if the last answer of its check said so,
\* not longer ago than the entries live (a check that rejects says nothing), and as long
\* as no more checks have answered than the store has room for, always then.
HealthIsFresh ==
    \A id \in Checks :
        LET Up == answer[id] = "up" /\ age[id] <= Ttl
        IN  /\ GetHealthcheckResult(id) => Up
            /\ Cardinality({c \in Checks : answer[c] # "none"}) <= MaxHealthcheckNumber /\ Up
                  => GetHealthcheckResult(id)

-----------------------------------------------------------------------------
(* The inductive invariant *)

Reporting == {c \in Checks : answer[c] # "none"}

\* The entries are of different checks and tell what these answered last, and when; an
\* answer that is not old is there unless the store had no room for it
IInv ==
    /\ TypeOK
    /\ \A i, j \in DOMAIN store : store[i].id = store[j].id => i = j
    /\ \A i \in DOMAIN store :
          /\ store[i].age = age[store[i].id]
          /\ answer[store[i].id] = IF store[i].successful THEN "up" ELSE "down"
    /\ Cardinality(Reporting) <= MaxHealthcheckNumber
          => \A c \in Reporting : age[c] <= Ttl => Position(c) # {}
=============================================================================
