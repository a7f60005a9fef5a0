SPECIFICATION Spec
CONSTANTS
    i1 = i1
    i2 = i2
    i3 = i3
    Instances <- ThreeInstances
    PoolSizes = {2}
    MaxRestarts = 0
INVARIANTS
    PredictionsAdded
\* the batch is over once its summary is written
CHECK_DEADLOCK FALSE
