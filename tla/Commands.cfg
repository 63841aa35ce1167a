SPECIFICATION FairSpec
CONSTANTS
  Ids <- MCIds
  Zero <- MCZero
  Listed <- MCListed
  One <- MCOne
  Blank = FALSE
  SeqMod = 2
  Window = 2
  MaxRequests = 3
PROPERTIES AnswersRequests AllServed
CHECK_DEADLOCK FALSE
