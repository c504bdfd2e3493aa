-------------------------------- MODULE JobSpy --------------------------------
(***************************************************************************)
(* BackgroundJobProcessorSpy: tests await the states that the jobs of a    *)
(* queue reach, before or after they reach them, while the queue manager   *)
(* ("scheduled") and the processor ("completed", "failed") record them.    *)
(* Every operation is synchronous.                                         *)
(***************************************************************************)
EXTENDS SequencesExt

CONSTANTS
    Jobs,     \* job ids
    Waiters   \* calls of waitForJobWithId and waitForJob

States == {"scheduled", "failed", "completed"}

VARIABLES
    results,   \* jobResults: the state recorded under each key, or "none"
    promises,  \* the list of registered promises
    awaited,   \* what each call waits for
    answer     \* what its promise resolved to

vars == <<results, promises, awaited, answer>>

\* getJobResultKey: the final states of a job share a key
Key(j, state) == <<j, IF state = "scheduled" THEN state ELSE "final">>
Keys == {Key(j, s) : j \in Jobs, s \in States}

\* A call's selector, as the jobs it accepts; the id of waitForJobWithId accepts one
Requests == [jobs : (SUBSET Jobs) \ {{}}, state : States]
NoRequest == [jobs |-> {}, state |-> "none"]

Matches(w, j, state) == j \in awaited[w].jobs /\ state = awaited[w].state

TypeOK ==
    /\ results \in [Keys -> States \cup {"none"}]
    /\ promises \in Seq(Waiters)
    /\ awaited \in [Waiters -> Requests \cup {NoRequest}]
    /\ answer \in [Waiters -> Jobs \cup {"none", "pending", "cleared"}]

Init ==
    /\ results = [k \in Keys |-> "none"]
    /\ promises = <<>>
    /\ awaited = [w \in Waiters |-> NoRequest]
    /\ answer = [w \in Waiters |-> "none"]

\* fault: the results are not looked at before the wait is registered
WaitBlind(w) ==
    /\ awaited[w] = NoRequest
    /\ \E r \in Requests : awaited' = [awaited EXCEPT ![w] = r]
    /\ answer' = [answer EXCEPT ![w] = "pending"]
    /\ promises' = Append(promises, w)
    /\ UNCHANGED results

\* waitForJobWithId, waitForJob: a recorded result answers at once
Wait(w) ==
    /\ awaited[w] = NoRequest
    /\ \E r \in Requests :
          LET found == {j \in r.jobs : results[Key(j, r.state)] = r.state}
          IN /\ awaited' = [awaited EXCEPT ![w] = r]
             /\ IF found = {}
                THEN /\ answer' = [answer EXCEPT ![w] = "pending"]
                     /\ promises' = Append(promises, w)
                ELSE /\ \E j \in found : answer' = [answer EXCEPT ![w] = j]
                     /\ UNCHANGED promises
    /\ UNCHANGED results

\* promises.splice(i, 1), unless the list has become shorter than that
SpliceOne(list, i) == IF i <= Len(list) THEN RemoveAt(list, i) ELSE list

\* for (const index of indexes) promises.splice(index, 1): the indexes are those that
\* the matches have in the list before the first splice, in its order
Splice(list, indexes) ==
    LET after[i \in 0..Len(list)] ==
            IF i = 0 THEN list
            ELSE IF i \in indexes THEN SpliceOne(after[i - 1], i) ELSE after[i - 1]
    IN  after[Len(list)]

\* fault: each splice removes the rest of the list, too
UnlistRest(indexes) ==
    promises' = IF indexes = {} THEN promises
                ELSE SubSeq(promises, 1, (CHOOSE i \in indexes : \A k \in indexes : i <= k) - 1)

Unlist(indexes) == promises' = Splice(promises, indexes)

\* addJob: record the result and resolve every promise it matches (one that is
\* resolved already stays as it is)
AddJob(j, state) ==
    LET matching == {i \in DOMAIN promises : Matches(promises[i], j, state)}
    IN /\ results' = [results EXCEPT ![Key(j, state)] = state]
       /\ Unlist(matching)
       /\ answer' = [w \in Waiters |->
                        IF answer[w] = "pending" /\ \E i \in matching : promises[i] = w
                        THEN j ELSE answer[w]]
       /\ UNCHANGED awaited

\* clear(), when the processor is disposed: the pending promises are dropped
Clear ==
    /\ results' = [k \in Keys |-> "none"]
    /\ promises' = <<>>
    /\ answer' = [w \in Waiters |->
                     IF w \in Range(promises) /\ answer[w] = "pending"
                     THEN "cleared" ELSE answer[w]]
    /\ UNCHANGED awaited

Next ==
    \/ \E w \in Waiters : Wait(w)
    \/ \E j \in Jobs, state \in States : AddJob(j, state)
    \/ Clear

Spec == Init /\ [][Next]_vars

-----------------------------------------------------------------------------
(* Properties *)

Listed(w) == w \in Range(promises)
Recorded(w) == \E j \in Jobs, s \in States : Matches(w, j, s) /\ results[Key(j, s)] = s

\* A promise that is still in the list never waits for a state that has been
\* recorded, whether it was registered before or after: addJob resolves all
\* matches in one call, and the wait looks before it registers.
ListedIsUnanswered == \A w \in Waiters : Listed(w) /\ answer[w] = "pending" => ~Recorded(w)

\* README: the spy resolves a wait when the job reaches the status, no matter
\* how many waits there are and when they were made.
NoMissedJob == \A w \in Waiters : answer[w] = "pending" => ~Recorded(w)

\* The waits that the list has lost: nothing but addJob's index arithmetic
\* removes an unanswered wait, and only when the job it records is what two others
\* that are listed wait for.
LossNeedsTwoMatches ==
    [][\A w \in Waiters :
          answer[w] = "pending" /\ Listed(w) /\ ~Listed(w)' /\ answer'[w] = "pending" =>
              \E j \in Jobs, s \in States :
                  /\ AddJob(j, s) /\ ~Matches(w, j, s)
                  /\ \E u, v \in Waiters : u # v /\ \A x \in {u, v} : Listed(x) /\ Matches(x, j, s)]_vars

-----------------------------------------------------------------------------
(* The inductive invariant *)

\* Each call is listed at most once, and only after it has said what it waits for.
ListedOnce ==
    /\ \A i, k \in DOMAIN promises : promises[i] = promises[k] => i = k
    /\ \A w \in Waiters : Listed(w) => awaited[w] # NoRequest

IInv == TypeOK /\ ListedOnce /\ ListedIsUnanswered
=============================================================================
