SPECIFICATION Spec
CONSTANTS
    w1 = w1
    w2 = w2
    lua1 = lua1
    lua2 = lua2
    Workers = {w1, w2}
    lua_read_only <- MCContexts
    Inputs <- MCInputs
    Enabled = {{"wl", "bl"}}
    Changeable <- MCChangeable
    MaxRequests = 2
    MaxConsole = 1
SYMMETRY MCSymmetry
INVARIANT ContextsAreExclusive
  
CHECK_DEADLOCK FALSE
