\* The list ends with the bound on the stack, and its reader may stop anyway.
CONSTANT MaxStack = 40
SPECIFICATION VaSpec
CHECK_DEADLOCK FALSE
INVARIANTS VaInv ReadsInArea
PROPERTIES ReadsAsPlaced NoByteTwice
