CONSTANTS
    Limits = {0, 1}
    Opening = 2
    Every = 1
    MaxClock = 6
    MaxCalls = 2

SPECIFICATION Spec
CONSTRAINT Undisturbed
INVARIANT BooksRight
CHECK_DEADLOCK FALSE
