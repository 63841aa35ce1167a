SPECIFICATION FairFileSpec
CONSTANTS
  Texts <- MCTexts
  Behind = {"NUL", "e"}
  Most = 4
  MemoryEnds = TRUE
  RequestIds = {0, 1}
INVARIANTS FileTypeOK WritesFit  FailureFreesAll AnswersOfFile
PROPERTIES Ends
CHECK_DEADLOCK FALSE
