-------------------------- MODULE ExclusionResolver --------------------------
(***************************************************************************)
(* The configuration-exclusion resolution of the services page            *)
(* (duradmin/src/main/webapp/js/services-manager.js, resolveUserConfigValue *)
(* and convertUserConfigsToArray): from a deployment's user configs it     *)
(* builds the rows of the "Configuration" panel.  Entries whose exclusion  *)
(* is "EXCLUSION_DEFINITION" are definitions; any other exclusion is a     *)
(* "|"-separated list of keys, and the entry is shown only when some key   *)
(* is among the raw selected values of some definition.                    *)
(*                                                                         *)
(* Strings.  A string is represented by its split on "|": a non-empty      *)
(* sequence of "|"-free tokens (Keys, or Empty for the empty token).  The  *)
(* representation is one-to-one, joining strings with "|" is the           *)
(* concatenation of their representations, the empty join "" is <<Empty>> *)
(* and split("|") is the identity.  The ", "-joined display string of a    *)
(* SELECT is represented by the sequence of display names it joins.  A     *)
(* row's display name is abstracted to the entry's position in the input. *)
(*                                                                         *)
(* The page computes the panel in one synchronous call of                  *)
(* loadDeploymentDetail; the model has one step, Render, that does it.     *)
(***************************************************************************)
EXTENDS Naturals, Sequences, SequencesExt

CONSTANTS
    Keys,       \* "|"-free, non-empty tokens of exclusion keys and values
    Labels,     \* display names of options
    Inputs,     \* the userConfigs arrays the page can be given
    Undefined,  \* JavaScript's undefined
    Absent,     \* the exclusion of an entry that has none
    ExDef,      \* the exclusion "EXCLUSION_DEFINITION"
    Crash,      \* the call threw a TypeError
    NoPanel,    \* the panel before it is rendered
    NoValue     \* the "no value" marker of the specification

Empty == ""     \* the empty token

ASSUME KeysAssumption == Empty \notin Keys

VARIABLES
    ucs,     \* the deployment's userConfigs
    panel    \* the rows of the Configuration panel, NoPanel before Render

vars == <<ucs, panel>>

-----------------------------------------------------------------------------
IsSelected(opt) == opt.selected

(* The options' values joined with "|" ("" when none is selected). *)
RawJoin(sel) ==
    IF sel = <<>> THEN <<Empty>>
    ELSE FlattenSeq([i \in DOMAIN sel |-> sel[i].value])

(* resolveUserConfigValue(uc, delim, showRaw): showRaw is TRUE exactly when *)
(* delim is "|".  TEXT gives displayValue; SELECT joins the selected       *)
(* options' values (raw) or display names.  A SELECT without options falls *)
(* into the else branch that assigns "no value" to a local variable and    *)
(* returns nothing: undefined.                                              *)
ResolveUserConfigValue(uc, showRaw) ==
    IF uc.inputType = "TEXT" THEN uc.displayValue
    ELSE IF uc.options = Undefined THEN Undefined
    ELSE LET sel == SelectSeq(uc.options, IsSelected)
         IN  IF showRaw THEN RawJoin(sel)
             ELSE [i \in DOMAIN sel |-> sel[i].displayName]

IsDefinition(uc) == uc.exclusion = ExDef

(* Some key of the entry's exclusion equals some value of the definition. *)
KeyMatch(exclusions, defVals) ==
    \E m \in DOMAIN exclusions, n \in DOMAIN defVals :
        exclusions[m] = defVals[n]

(* The loop over defs for an entry with exclusion keys.  It breaks at the  *)
(* first definition that matches; on its way, defVals.split throws on a    *)
(* definition whose value resolved to undefined.                           *)
ScanDefinitions(uc, defs) ==
    LET vals(k) == ResolveUserConfigValue(defs[k], TRUE)
        stops == {k \in DOMAIN defs :
                    vals(k) = Undefined \/ KeyMatch(uc.exclusion, vals(k))}
    IN  IF stops = {} THEN FALSE
        ELSE IF vals(Min(stops)) = Undefined THEN Crash
        ELSE TRUE

(* addRow: an entry with no exclusion, or with "EXCLUSION_DEFINITION",     *)
(* takes the else branch and is added.                                     *)
AddRow(uc, defs) ==
    IF uc.exclusion # Absent /\ uc.exclusion # ExDef
    THEN ScanDefinitions(uc, defs)
    ELSE TRUE

(* Faulty variant of ConvertUserConfigsToArray: one loop, in which an     *)
(* entry sees only the definitions that come before it.                    *)
ConvertOnePass(configs) ==
    LET add == [u \in DOMAIN configs |->
                  AddRow(configs[u],
                         SelectSeq(SubSeq(configs, 1, u - 1), IsDefinition))]
        rows == [u \in DOMAIN configs |->
                    <<u, ResolveUserConfigValue(configs[u], FALSE)>>]
        added(row) == add[row[1]] = TRUE
    IN  IF \E u \in DOMAIN configs : add[u] = Crash THEN Crash
        ELSE SelectSeq(rows, added)

(* convertUserConfigsToArray: the first loop collects the definitions, the *)
(* second builds each row and pushes the ones to add.                      *)
ConvertUserConfigsToArray(configs) ==
    LET defs == SelectSeq(configs, IsDefinition)
        add == [u \in DOMAIN configs |-> AddRow(configs[u], defs)]
        rows == [u \in DOMAIN configs |->
                    <<u, ResolveUserConfigValue(configs[u], FALSE)>>]
        added(row) == add[row[1]] = TRUE
    IN  IF \E u \in DOMAIN configs : add[u] = Crash THEN Crash
        ELSE SelectSeq(rows, added)

-----------------------------------------------------------------------------
Init ==
    /\ ucs \in Inputs
    /\ panel = NoPanel

(* loadDeploymentDetail builds the Configuration panel from the            *)
(* deployment's userConfigs.                                               *)
Render ==
    /\ panel = NoPanel
    /\ panel' = ConvertUserConfigsToArray(ucs)
    /\ UNCHANGED ucs

Next == Render

Spec == Init /\ [][Next]_vars

-----------------------------------------------------------------------------
(* The resolution the specification describes (section 4.2), as sets.    *)

(* A definition's raw selected values, split on "|". *)
SpecRawValues(d) ==
    IF d.options = Undefined THEN {}
    ELSE UNION {Range(d.options[i].value) :
                    i \in {j \in DOMAIN d.options : d.options[j].selected}}

SpecVisible(e, configs) ==
    /\ ~IsDefinition(e)
    /\ \/ e.exclusion = Absent
       \/ \E u \in DOMAIN configs :
             /\ IsDefinition(configs[u])
             /\ Range(e.exclusion) \cap SpecRawValues(configs[u]) # {}

(* The positions of the entries the specification shows, in input order. *)
SpecShown(configs) ==
    LET pos == [u \in DOMAIN configs |-> u]
        shown(u) == SpecVisible(configs[u], configs)
    IN  SelectSeq(pos, shown)

(* The inputs the specification's data model describes: every SELECT has  *)
(* its options and every exclusion key is a non-empty token.              *)
WellFormed(configs) ==
    \A u \in DOMAIN configs :
        /\ configs[u].inputType = "SELECT" => configs[u].options # Undefined
        /\ configs[u].exclusion \notin {Absent, ExDef} =>
              Empty \notin Range(configs[u].exclusion)

Rendered == panel # NoPanel /\ panel # Crash

-----------------------------------------------------------------------------
(* For every well-formed userConfigs array, the regular entries the panel  *)
(* shows, and their order, are those of the specification: an entry is     *)
(* shown iff it has no exclusion or one of its keys is a selected raw      *)
(* value of some definition, wherever the definitions stand in the array.  *)
RegularVisibilityMatchesSpec ==
    panel # NoPanel /\ WellFormed(ucs) =>
        /\ panel # Crash
        /\ LET regular(row) == ~IsDefinition(ucs[row[1]])
               shown == SelectSeq(panel, regular)
           IN  [i \in DOMAIN shown |-> shown[i][1]] = SpecShown(ucs)

(* A definition entry never appears among the rows of the panel. *)
DefinitionsNeverEmitted ==
    Rendered => \A i \in DOMAIN panel : ~IsDefinition(ucs[panel[i][1]])

(* Resolution is total: one malformed entry never aborts the panel. *)
ResolutionTotal == panel # Crash

(* A regular entry with exclusion keys is shown only if one of its keys is *)
(* a raw value some definition has selected; a definition with nothing     *)
(* selected contributes no value.                                          *)
ShownOnlyIfKeySelected ==
    Rendered =>
        \A i \in DOMAIN panel :
            LET e == ucs[panel[i][1]]
            IN  e.exclusion \notin {Absent, ExDef} =>
                   \E u \in DOMAIN ucs :
                      /\ IsDefinition(ucs[u])
                      /\ Range(e.exclusion) \cap SpecRawValues(ucs[u]) # {}

=============================================================================
