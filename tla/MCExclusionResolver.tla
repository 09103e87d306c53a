------------------------- MODULE MCExclusionResolver -------------------------
(* Model-checking instance of ExclusionResolver: every userConfigs array  *)
(* of up to three entries drawn from a universe that covers definitions   *)
(* with no, one or two selected options, a value containing "|", a        *)
(* definition without options, and regular entries without exclusion,     *)
(* with one key, two keys or an empty key.                                *)
EXTENDS ExclusionResolver

CONSTANTS k1, k2, l1

MCKeys == {k1, k2}
MCLabels == {l1}

Opt(v, sel) == [value |-> v, displayName |-> l1, selected |-> sel]

Select(opts, excl) ==
    [inputType |-> "SELECT", displayValue |-> <<Empty>>,
     options |-> opts, exclusion |-> excl]

Text(excl) ==
    [inputType |-> "TEXT", displayValue |-> <<k1>>,
     options |-> <<>>, exclusion |-> excl]

DefinitionOptions ==
    {<<>>, Undefined,
     <<Opt(<<k1>>, TRUE)>>, <<Opt(<<k1>>, FALSE)>>, <<Opt(<<k2>>, TRUE)>>,
     <<Opt(<<k1, k2>>, TRUE)>>,
     <<Opt(<<k1>>, FALSE), Opt(<<k2>>, TRUE)>>,
     <<Opt(<<k1>>, TRUE), Opt(<<k2>>, TRUE)>>}

Definitions == {Select(o, ExDef) : o \in DefinitionOptions}

RegularExclusions == {Absent, <<k1>>, <<k2>>, <<k2, k1>>, <<Empty>>}

Regulars ==
    {Text(x) : x \in RegularExclusions} \cup
    {Select(o, x) : o \in {<<>>, Undefined, <<Opt(<<k1>>, TRUE)>>},
                    x \in RegularExclusions}

MCInputs == BoundedSeq(Definitions \cup Regulars, 3)

=============================================================================
