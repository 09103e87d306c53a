\* Violation run: SessionExpiryShortCircuits, which the specification states of every API call.
CONSTANTS
    o1 = o1
    o2 = o2
    Ops <- MCOps
SPECIFICATION Spec
INVARIANT SessionExpiryShortCircuits
