CONSTANTS
    ours = ours
    theirs = theirs
    Requests = {ours, theirs}
    Rests = {ours}
    NoRequest = NoRequest
    NoName = NoName
    Name <- Self
SPECIFICATION MCSpec
PROPERTIES RestsEnd ScenarioEnds JoinsReturn RestorationsEnd
CHECK_DEADLOCK FALSE
