SPECIFICATION FairStartSpec
CONSTANTS
  FirstFd = 3
  LastFd = 12
  MaxAccepts = 1
  Regions = {"na", "jp"}
  MissingExists = {TRUE, FALSE}
INVARIANTS WatchesConsole WatchesClients ReportsLast AnswersOfRegion
PROPERTIES ComesUp
CHECK_DEADLOCK FALSE
