SPECIFICATION ScriptSpec
CONSTANTS
    NRuns = 4
    Blocks = 3
    MaxCampaigns = 2
    DeviceFails = TRUE
INVARIANTS
    SuccessIsOneCampaign
    OnlyLastBufferLost
    StoppedBetween
