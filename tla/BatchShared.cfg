SPECIFICATION Spec
CONSTANTS
    i1 = i1
    i2 = i2
    i3 = i3
    Instances <- ThreeInstances
    PoolSizes = {1, 3}
    MaxRestarts = 1
INVARIANTS
    GoodIsPredicted
PROPERTIES
    BatchEnds
\* the batch is over once its summary is written
CHECK_DEADLOCK FALSE
