CONSTANTS
    SignLimit = 2
    Actual <- MCActual
    Expected <- MCExpected
    None = None
SPECIFICATION MCSpec
INVARIANTS TypesOK RestAccounted ShimKeepsItsGame PapyrusTrue ConsoleAccounted CapturesOwn RunsTrue ReplaysFaithful SequencesOwned CameraOwned ComparesTrue
PROPERTY PlayerKept
CHECK_DEADLOCK FALSE
