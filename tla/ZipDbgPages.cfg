SPECIFICATION Spec
CONSTANTS
    MAXERR = 1
    TRIES = 1
INVARIANTS EditsWhatIsShown
CHECK_DEADLOCK FALSE
