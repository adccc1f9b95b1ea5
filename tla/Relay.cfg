\* Three identification requests, a datagram of another type, a request
\* from 127.0.0.1, and the relay's own replies.
SPECIFICATION FairSpec
CONSTANTS
  Datagram = {v1, v2, v3, other, local, echo}
  Ident = {v1, v2, v3, local}
  Ignored = {local, echo}
  Echo = echo
  Nobody = Nobody
INVARIANTS TypeOK OwnAnswer Backlog
PROPERTIES IdentificationSpec Settles
CHECK_DEADLOCK FALSE
