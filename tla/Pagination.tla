------------------------------ MODULE Pagination ------------------------------
(***************************************************************************)
(* api-common: getPaginatedEntries asks an API for page after page, which  *)
(* createPaginatedResponse cuts out of what a query returned, while other  *)
(* clients add and remove items.  An item is its id; the query (external)  *)
(* returns items behind the cursor in the order of their ids, one more     *)
(* than the page holds if there are.                                       *)
(***************************************************************************)
EXTENDS Naturals, SequencesExt

CONSTANTS
    MaxItem,   \* bound: the ids are 1 .. MaxItem
    Limits     \* the page limits

VARIABLES
    limit,      \* pageLimit
    items,      \* what the API's store has
    lasting,    \* those behind the first cursor that stay in the store
    cursor,     \* currentCursor; 0: undefined
    collected,  \* resultArray
    hasMore     \* of the last response

vars == <<limit, items, lasting, cursor, collected, hasMore>>

TypeOK ==
    /\ limit \in Limits
    /\ lasting \subseteq items /\ items \subseteq 1..MaxItem
    /\ cursor \in 0..MaxItem
    /\ collected \in Seq(1..MaxItem)
    /\ hasMore \in BOOLEAN

Init ==
    /\ limit \in Limits
    /\ items \in SUBSET (1..MaxItem)
    /\ cursor \in 0..MaxItem   \* pagination.after
    /\ lasting = {i \in items : i > cursor}
    /\ collected = <<>>
    /\ hasMore = TRUE

\* the API's query: up to limit + 1 items behind the cursor, fewer only if there are no
\* more
Query ==
    LET behind == {i \in items : i > cursor}
    IN  {page \in SeqOf(behind, limit + 1) :
            /\ \A i, j \in DOMAIN page : i < j => page[i] < page[j]
            /\ \A item \in behind :
                  \/ item \in Range(page)
                  \/ Len(page) = limit + 1 /\ \A i \in DOMAIN page : page[i] < item}

Count(page) == IF Len(page) < limit THEN Len(page) ELSE limit

\* getMetaForNextPage: the cursor of the last item on the page, none if it is empty
Meta(page) ==
    [cursor  |-> IF page = <<>> THEN 0 ELSE page[Count(page)],
     hasMore |-> Len(page) > limit]

\* createPaginatedResponse: the page without the item that is too many
Data(page) == SubSeq(page, 1, Count(page))

\* apiCall and what the loop of getPaginatedEntries does with its answer
FetchPage ==
    /\ hasMore
    /\ \E page \in Query :
          /\ collected' = collected \o Data(page)
          /\ cursor' = Meta(page).cursor
          /\ hasMore' = Meta(page).hasMore
    /\ UNCHANGED <<limit, items, lasting>>

AddItem(i) ==
    /\ hasMore /\ i \notin items
    /\ items' = items \cup {i}
    /\ UNCHANGED <<limit, lasting, cursor, collected, hasMore>>

RemoveItem(i) ==
    /\ hasMore /\ i \in items
    /\ items' = items \ {i}
    /\ lasting' = lasting \ {i}
    /\ UNCHANGED <<limit, cursor, collected, hasMore>>

Next == FetchPage \/ \E i \in 1..MaxItem : AddItem(i) \/ RemoveItem(i)

Spec == Init /\ [][Next]_vars

-----------------------------------------------------------------------------
(* Properties *)

\* Whatever is added and removed between two pages, no item is collected twice, and
\* in the end every item that was there throughout is collected; also when the
\* item a cursor points at is gone.
CollectsAll ==
    /\ \A i, j \in DOMAIN collected : i < j => collected[i] < collected[j]
    /\ lasting \subseteq Range(collected) \cup {i \in 1..MaxItem : hasMore /\ i > cursor}

-----------------------------------------------------------------------------
(* The inductive invariant *)

\* What was collected is not behind the cursor
IInv ==
    /\ TypeOK
    /\ CollectsAll
    /\ hasMore => \A k \in DOMAIN collected : collected[k] <= cursor
=============================================================================
