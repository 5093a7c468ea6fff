CONSTANTS
    Recordings <- MCRecordings
    Restorations = {"none", "save", "scene", "clean"}
    Window = 1
    MaxHold = 2
    Settle = 1
    LoadSettle = 1
    Limit = 30
    Budget = 20
SPECIFICATION Spec
INVARIANT SettlesAfterLoad
CHECK_DEADLOCK FALSE
