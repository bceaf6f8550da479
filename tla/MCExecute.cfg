SPECIFICATION Spec
CONSTANTS
    MaxDimensionRows = 3
    MaxNesting = 6
    Scenarios <- AllScenarios
    ScenarioOf <- ScenarioNamed
    MaxFaults = 1
CHECK_DEADLOCK FALSE
INVARIANTS TypeOK OwnSource AcceptedConfigRuns KeysReadBack RowsExact RowsSound FilesReadBack PathsRead LookupMeetsSpec PathCells
