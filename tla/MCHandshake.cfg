SPECIFICATION Spec
CONSTANTS
    Configs <- MCConfigs
    MaxMessages = 2
INVARIANTS OnlyEntitled BothAgree TrafficSound
PROPERTY Completes
CHECK_DEADLOCK FALSE
