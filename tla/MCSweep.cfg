SPECIFICATION Spec
CONSTANTS
    Setups <- MCSetups
    Known = {"er", "rmat", "grid"}
INVARIANTS
    SilenceMeansEqual
    NoFalseAlarm
    EveryMeasureShown
    ScalingRight
    ComparisonsRight
