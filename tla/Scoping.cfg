SPECIFICATION ScopingSpec
CONSTANTS
  Vars = {x, y}
  MaxDepth = 2
  MaxNames = 2
  MaxAllocas = 5
INVARIANTS OwnBindings ScopeInv
PROPERTY ScopesEnd
CHECK_DEADLOCK FALSE
