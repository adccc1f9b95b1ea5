\* Two testers' addresses on one connection, five messages long.
SPECIFICATION Spec
CONSTANTS
  Tester = {3584, 3585}
  Elsewhere = 8192
  Request <- MCRequest
  Vin <- MCVin
  Eid <- MCEid
  None = None
  MaxReplies = 5
INVARIANTS TypeOK TesterReads AnnouncementReads ReplyOrder AnswersToActivated ClearedStaysCleared
