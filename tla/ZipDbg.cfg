SPECIFICATION Spec
CONSTANTS
    MAXERR = 1
    TRIES = 1
INVARIANTS ShownIsTrue StepsOne EditLands
PROPERTIES KeyAnswered
CHECK_DEADLOCK FALSE
