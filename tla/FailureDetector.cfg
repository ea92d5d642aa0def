CONSTANTS
    m1 = m1
    m2 = m2
    Meta          = {m1, m2}
    CheckInterval = 2
    BeaconTimeout = 1
    Lease         = 4
    Grace         = 5
    None          = None
    MaxTime       = 11
SYMMETRY MCSymmetry
SPECIFICATION Spec
INVARIANTS PerfectFD LeaseHonoured FDInv
