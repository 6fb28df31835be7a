SPECIFICATION Spec
CONSTANTS
    known_fields <- MCFields
    ConfigFile <- MCConfigFile
    Testlist <- MCTestlist
    Directed <- MCBase
    Missing = Missing
    SimulatorYaml <- MCSimulatorYaml
    Environ = {"IBEX_ROOT"}
    Plans <- MCPlans
    NoRequest = NoRequest
    Lists <- MCLists
    GenArgs <- MCGenArgs
    Outcomes <- MCOutcomes
    Jobs = 2
    MaxLines = 3
INVARIANTS
    TypeOK
    NoLostUpdate
    SelectionExact
    VerdictOfLog
    GreenMeansPassed
PROPERTIES
    FreshInputs
    SessionEnds
