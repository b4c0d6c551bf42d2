CONSTANTS
    Workers = {w1, w2}
    Keys = {k1, k2}
    EnvKeys = {k1}
    Ids = {i1, i2, i3}
    LastSecret = 3
SPECIFICATION TableSpec
SYMMETRY Symmetry
INVARIANTS TableTypeOK KeysReadable RotatedBeforeServing SeedsAreFew
PROPERTIES RemovedStaysRemoved
