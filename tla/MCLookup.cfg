CONSTANTS
  Socks = {a, b, c}
  Tws = {w}
  IdSets <- ConnsOrListeners
SPECIFICATION Spec
SYMMETRY Names
INVARIANTS HeldIsLive ConnectionFound ListenerFound
