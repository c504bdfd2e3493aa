SPECIFICATION MCSpec
CONSTANTS
    Streams <- MCStreams
    Calls <- MCCalls
    Requests <- MCRequests
    Responses <- MCResponses
    Contracts <- MCContracts
    Injections <- MCRouted
    Mockings <- MCMocked
    Helpings <- MCHelped
    EventLists <- MCEvents
    MaxRetries = 2
    MaxEvents = 2
CHECK_DEADLOCK FALSE
INVARIANTS
    EventsInOrder RetriesEnd AnswersAreChecked ContractsAreKept
    SettlesAsAsked ClientResolves SessionKeepsFaith ContractsReach
PROPERTIES
    SilentAfterClose
