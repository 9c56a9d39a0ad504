SPECIFICATION Spec
CONSTANTS
  read = read
  write = write
  bad = bad
  None = None
  Requests <- MCRequests
  InRequests <- MCInRequests
  Malformed <- MCMalformed
  SeqMod = 5
  FirstSeqnum = 3
  UnlinkedCap = 1
  LateReplies = TRUE
  ServerFaults = FALSE
INVARIANTS RightReply InFrame NoSpuriousClose
CHECK_DEADLOCK FALSE
