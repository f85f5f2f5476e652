SPECIFICATION ScriptSpec
CONSTANTS
    NRuns = 2
    Blocks = 3
    MaxCampaigns = 1
    DeviceFails = TRUE
INVARIANTS
    EveryMeasureWritten
