SPECIFICATION LiveSpec
CONSTANTS
    Data = {"word"}
    LongWord = 3
    MaxLine = 5
    IDLE = 1
    NewLine = NewLine
INVARIANTS CharsInOrder LineFits
PROPERTIES Drains InterruptTold
