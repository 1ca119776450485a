CONSTANTS
  NoAddr = NoAddr
  Threads = {t1, t2}
  Ops = {"send", "recv"}
  Addrs = {a1, a2}
  Vlen = 3
  MaxQueue = 2
  OptmemMax = 3
  MaxOwed = 1
SPECIFICATION Spec
SYMMETRY Names
INVARIANTS  SecurityAsked
