-------------------------- MODULE ContractResponse --------------------------
(***************************************************************************)
(* api-contracts: what a contract's responsesByStatusCode say of a status  *)
(* and a content type, to the clients that read a response and the routes  *)
(* that send one.  A contract is a function from status keys to entries.   *)
(* Media types are compared without parameters and case, so a type here is *)
(* what normalizeMediaType returns.                                        *)
(***************************************************************************)
EXTENDS Naturals, Sequences

\* An entry is a bare schema, which stands for JSON, or has a content map: the
\* body descriptors in the order they were declared, none for noBodyResponse().
Bare == [bare |-> TRUE, content |-> <<>>, allowNoBody |-> FALSE]
ContentEntry(content, allowNoBody) ==
    [bare |-> FALSE, content |-> content, allowNoBody |-> allowNoBody]
NoBodyResponse == ContentEntry(<<>>, TRUE)

\* The media types of an entry are the keys of an object, and a bare schema has none
IsEntry(entry) ==
    /\ entry.bare \in BOOLEAN /\ entry.allowNoBody \in BOOLEAN
    /\ entry.content \in Seq([type : STRING \ {"none", "unset"}, kind : {"json", "blob", "sse"}])
    /\ entry.bare => entry.content = <<>>
    /\ \A i, j \in DOMAIN entry.content : entry.content[i].type = entry.content[j].type => i = j
IsContract(responses) ==
    /\ "none" \notin DOMAIN responses
    /\ \A key \in DOMAIN responses : IsEntry(responses[key])

\* getRangeKey
RangeKey(status) ==
    CASE status \in {"200", "204"} -> "2xx"
      [] status \in {"400", "404"} -> "4xx"
      [] OTHER -> "5xx"

\* The media types an entry declares, which do not repeat, and what each stands for
Declares(entry, type) == \E i \in DOMAIN entry.content : entry.content[i].type = type
KindOf(entry, type) == entry.content[CHOOSE i \in DOMAIN entry.content : entry.content[i].type = type].kind

\* resolveContentEntry
ResolveContentEntry(entry, type, strict) ==
    IF entry.content = <<>> \/ (type = "none" /\ entry.allowNoBody) THEN "noContent"
    ELSE IF Declares(entry, type) THEN KindOf(entry, type)
    ELSE IF ~strict /\ Len(entry.content) = 1 THEN Head(entry.content).kind
    ELSE "unexpected"

\* resolveContractResponse
ResolveContractResponse(entry, type, strict) ==
    IF ~entry.bare THEN ResolveContentEntry(entry, type, strict)
    ELSE IF type = "json" \/ ~strict THEN "json" ELSE "unexpected"

\* Of some status keys the one for a status: exact, then its range, then 'default'
MostSpecific(keys, status) ==
    IF status \in keys THEN status
    ELSE IF RangeKey(status) \in keys THEN RangeKey(status)
    ELSE IF "default" \in keys THEN "default" ELSE "none"
EntryKey(responses, status) == MostSpecific(DOMAIN responses, status)

\* fault: an entry that does not match gives way to the next
ResolveResponseEntryAny(responses, status, type, strict) ==
    LET expected == {k \in DOMAIN responses :
                        ResolveContractResponse(responses[k], type, strict) # "unexpected"}
        key == MostSpecific(expected, status)
    IN  IF key = "none" THEN "unexpected" ELSE ResolveContractResponse(responses[key], type, strict)

\* resolveResponseEntry: the most specific entry of the status decides alone
ResolveResponseEntry(responses, status, type, strict) ==
    LET key == EntryKey(responses, status)
    IN  IF key = "none" THEN "unexpected" ELSE ResolveContractResponse(responses[key], type, strict)

\* collectSseSchemaMaps: the media types of an entry's event streams
SseTypes(entry) ==
    {entry.content[i].type : i \in {i \in DOMAIN entry.content : entry.content[i].kind = "sse"}}

\* hasAnySuccessSseResponse
HasAnySuccessSseResponse(responses) ==
    \E key \in DOMAIN responses \cap {"200", "204", "2xx", "default"} : SseTypes(responses[key]) # {}
=============================================================================
