SPECIFICATION Spec
CONSTANTS
    None = None
    Trees <- MCTrees
CHECK_DEADLOCK FALSE
INVARIANT CyclesExact
