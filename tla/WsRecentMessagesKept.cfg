CONSTANTS
    Conns = {1, 2}
    MaxBlockHeight = 2
    MaxMsgs = 2
    MaxBatch = 1
    TimePoints = {0, 3000000, 6000000}
INIT Init
NEXT Next
INVARIANT
    RecentMessagesKept
