SPECIFICATION BucketSpec
CONSTANTS
    CapUnits = 5
    CostUnits = 2
    MaxTime = 7
INVARIANT WindowBound
PROPERTY PatientServed
