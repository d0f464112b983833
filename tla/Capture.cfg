\* Three threads that wait for each other and for the reader, and a buffer
\* that fills up in the middle of a frame.
CONSTANTS
    Writers = {w1, w2, w3}
    NoWriter = NoWriter
    Lengths = {1, 31}
    Room = 3
    MaxFrames = 3
SPECIFICATION FairSpec
INVARIANT FramesAreWhole
PROPERTY CaptureEnds
\* The bound on captured packets ends the run.
CHECK_DEADLOCK FALSE
