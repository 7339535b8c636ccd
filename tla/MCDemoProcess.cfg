SPECIFICATION Spec
CONSTANTS
    Debugging <- MCDebugging
    Plain <- MCPlain
    MaxSaid = 2
    MaxEvents = 2
INVARIANTS
    ProcessTypeOK
    ParentsFirst
    FailureReported
PROPERTIES
    RefinesJournal
    FatalEnds
