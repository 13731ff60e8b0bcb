SPECIFICATION Spec
CONSTANTS
    Bodies = {10, 53, 265}
    MaxTransfer = 3
INVARIANT NeverSpliced
CHECK_DEADLOCK FALSE
