SPECIFICATION Spec
CONSTANTS
  SysctlReordering = 1
  MaxReordering = 3
  MaxUndo = 2
  MaxBlocks = 1
  Confs <- AllConfs
INVARIANTS ScoreboardExact HintsExact CacheTruthful
PROPERTIES SackedStays EpisodeEnds
