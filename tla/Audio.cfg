SPECIFICATION Spec
CONSTANTS
    Size = 4
    Cell <- MCCell
    Stream = {c1, c2}
    Frames <- MCFrames
    Sum <- MCSum
    FrameSize = 2
    AudioOpen = TRUE
INVARIANTS TypeOK   
 
