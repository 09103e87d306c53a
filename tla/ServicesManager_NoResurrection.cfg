\* Violation run: NoResurrection, which the specification asks of the page.
CONSTANTS
    d1 = d1
    d2 = d2
    d3 = d3
    None = None
    Deps <- MCDeps
    InitDeployed <- MCInitDeployed
    MaxUserOps = 3
SPECIFICATION Spec
CHECK_DEADLOCK FALSE
INVARIANT NoResurrection
