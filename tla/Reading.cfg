SPECIFICATION Spec
CONSTANTS
    RingSize = 16
    Kinds = {"ok", "prompt", "message", "calls", "accepted", "services", "report", "lines", "echo", "endless"}
    MaxMessages = 2
    Texts <- SomeTexts
    Phones <- SomePhones
INVARIANTS
    LinesRight
    
PROPERTIES
    BytesInOrder
CHECK_DEADLOCK FALSE
