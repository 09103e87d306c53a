\* The deploy switch of the services page under overlapping requests.
\* With the user operations used up and no request left the page is idle.
CONSTANTS
    d1 = d1
    d2 = d2
    d3 = d3
    None = None
    Deps <- MCDeps
    InitDeployed <- MCInitDeployed
    MaxUserOps = 3
SPECIFICATION Spec
CHECK_DEADLOCK FALSE
INVARIANTS
    SwitchOffMeansUndeploying
