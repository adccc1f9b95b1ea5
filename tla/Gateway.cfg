\* Three connections compete for two places in the channel.
SPECIFICATION FairSpec
CONSTANTS
  Conn = {c1, c2, c3}
  Tester = {t1}
  None = None
  Capacity = 2
  MaxBatch = 2
INVARIANTS TypeOK RequestersWait NoOrphan
PROPERTIES ServiceSpec AcknowledgedIsAnswered ResetHappens
\* the process may end: the acceptor failed and the last connection closed
CHECK_DEADLOCK FALSE
