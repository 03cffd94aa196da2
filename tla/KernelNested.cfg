CONSTANTS
    Requests <- MCRequests
    Configs <- MCConfigs
    MaxCalls = 2
    MaxRefusals = 1
    MaxCeremonies = 1
SPECIFICATION SpecNested
INVARIANT DecisionBeforeEffect
