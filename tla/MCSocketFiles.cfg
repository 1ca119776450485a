CONSTANTS
  NoSock = NoSock
  NoFd = NoFd
  Threads = {t1, t2, t3}
  Socks = {s1, s2, s3}
  Fds = {f1, f2, f3}
SPECIFICATION Spec
SYMMETRY Names
INVARIANTS AllAccounted HeldIsAlive ModuleStays
