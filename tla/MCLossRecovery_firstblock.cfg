SPECIFICATION Spec
CONSTANTS
  SysctlReordering = 1
  MaxReordering = 3
  MaxUndo = 2
  MaxBlocks = 1
  Confs <- DsackConfs
INVARIANTS FirstBlockTracked
