SPECIFICATION Spec
CHECK_DEADLOCK FALSE
CONSTANTS
    Units <- MCUnits
    NodeOf <- MCNodeOf
    Limit <- MCLimit
    Ceiling = 2
    MaxSteps = 3
    Totals = {"triage"}
    NodeMax <- MCNodeMax
    ItemMax = 2
    InnerMax = 1
    Attempts = 2
INVARIANTS
    TypeOK
    StepsNeverOvershoot
    AtMostCeilingInFlight
    NothingIsForgotten
    EverythingIsGivenBack
PROPERTIES
    TotalBindsEveryItem
    EveryItemEnds
