\* Violation run: ShownOnlyIfKeySelected, which the specification states of the resolver.
CONSTANTS
    k1 = k1
    k2 = k2
    l1 = l1
    Undefined = Undefined
    Absent = Absent
    ExDef = ExDef
    Crash = Crash
    NoPanel = NoPanel
    NoValue = NoValue
    Keys <- MCKeys
    Labels <- MCLabels
    Inputs <- MCInputs
SPECIFICATION Spec
CHECK_DEADLOCK FALSE
INVARIANT ShownOnlyIfKeySelected
