CONSTANTS
  NoAddr = NoAddr
  NoKey = NoKey
  Socks = {s1, s2}
  Tws = {t1}
  Addrs = {a1, a2}
  Keys = {k1}
  Objs = {o1, o2, o3}
SPECIFICATION Spec
SYMMETRY Names
INVARIANTS OwnershipExact
PROPERTIES KeysAsMap
