\* Lifecycle contract of the DuraStore API calls, two concurrent calls.
CONSTANTS
    o1 = o1
    o2 = o2
    Ops <- MCOps
SPECIFICATION Spec
INVARIANTS
    AtMostOneOutcome
    ErrorsReachFailure
PROPERTIES
    EveryCallAnswered
    ImplementsContract
