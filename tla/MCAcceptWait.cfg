SPECIFICATION FairSpec
CONSTANTS
  Tasks = {t1, t2}
  User = user
  NoTask = nobody
  MaxQueue = 3
  RcvBuf = 1
INVARIANTS NothingMissed
PROPERTIES ChildReachesSleeper LockReleased
