CONSTANTS
    T1 = T1
    v1 = v1
    d0 = d0
    Types <- MCTypes
    Vals <- MCVals
    Dflt = d0
    Absent = Absent
    NoData = NoData
    Bytes = {0, 1}
    MaxCert = 2
    MaxPayload = 3
    StableArgs <- MCStableArgs
    MaxBox = 3
INIT Init
NEXT Next
INVARIANT
    NoLostWrite
