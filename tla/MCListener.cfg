SPECIFICATION FairSpec
CONSTANTS
  NoPeer = 0
  Segments <- MCSegments
  Hash <- MCHash
  Peers = {1, 2}
  Childs = {c1, c2}
  Backlogs = {0, 1}
  Somaxconn = 4
  MaxSynBacklog = 4
  MinEntries = 1
  MinLog = 2
  U16 = 2
  SynackRetries = 3
  MaxRetrans = 3
  DeferValues = {0, 2}
  Interval = 1
  Timeout = 2
  MaxRto = 2
  AbortOnOverflow = {TRUE, FALSE}
  SynCookies = {TRUE, FALSE}
INVARIANTS QueuesExact TimerArmed
PROPERTIES ImplementsPassiveOpen RequestResolved
