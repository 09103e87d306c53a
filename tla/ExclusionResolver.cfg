\* Visibility of regular configuration entries against the specification,
\* over every userConfigs array of up to three entries of the universe.
\* The page stops after it has rendered the panel.
CONSTANTS
    k1 = k1
    k2 = k2
    l1 = l1
    Undefined = Undefined
    Absent = Absent
    ExDef = ExDef
    Crash = Crash
    NoPanel = NoPanel
    NoValue = NoValue
    Keys <- MCKeys
    Labels <- MCLabels
    Inputs <- MCInputs
SPECIFICATION Spec
CHECK_DEADLOCK FALSE
INVARIANT RegularVisibilityMatchesSpec
