\* Empty frames, a frame of one read, and one too long for the buffer.
SPECIFICATION FairSpec
CONSTANTS
  Header = 2
  Payloads = {0, 1, 3}
  Buffer = 4
  MaxBytes = 10
INVARIANTS TypeOK WholeFramesHandled NoByteTwice
PROPERTY ParsingEnds
\* a closed connection stays closed
CHECK_DEADLOCK FALSE
