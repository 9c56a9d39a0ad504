SPECIFICATION FairSpec
CONSTANTS
  read = read
  write = write
  bad = bad
  None = None
  Requests <- MCAccepted
  InRequests <- MCInRequests
  Malformed = {}
  SeqMod = 4
  FirstSeqnum = 2
  UnlinkedCap = 1
  LateReplies = FALSE
  ServerFaults = TRUE
INVARIANTS TypeOK TablesAgree OneHolder RightReply UnlinkedIsNotRun
PROPERTIES AnsweredOnce ImplementsTransfers CloseStopsTasks
CHECK_DEADLOCK FALSE
