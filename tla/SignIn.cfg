CONSTANTS
    MaxSessions = 2
    DeviceFlow <- MCDeviceFlow
    NoToken <- MCNoToken
    MaxBeside = 1
SPECIFICATION SignInSpec
INVARIANTS
    OutcomeIsTrue
    CallerIsRight
PROPERTIES
    StatusIsFinal
    
CHECK_DEADLOCK FALSE
