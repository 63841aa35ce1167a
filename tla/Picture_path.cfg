SPECIFICATION PathSpec
CONSTANTS
  Bytes = {0, 2, 3, 4}
  MaxLen = 6
  MaxFrames = 260
  Jpeg <- MCJpeg
  TriesAllowed = 1
  Silent = 3
  Delay = 1
  LaterLen = 3
INVARIANTS PathTypeOK NoStartCode SizeBound RoundTrip Delimited PicturesInOrder
CONSTRAINT Followed
CHECK_DEADLOCK FALSE
