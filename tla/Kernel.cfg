CONSTANTS
    Requests <- MCRequests
    Configs <- MCConfigs
    MaxCalls = 2
    MaxRefusals = 1
    MaxCeremonies = 1
SPECIFICATION Spec
INVARIANTS
    DecisionBeforeEffect
    OutcomeAtomic
    NoFalseSuccess
    FoundedBeforeGoverned
    WarrantBeforeEffect
PROPERTY CallsEnd
