\* A granted fetch should be answered.
CONSTANTS
    CounterMod = 2
    MaxOutstanding = 2
    w1 = w1
    zero = zero
    one = one
    Words = {w1}
    Vals = {zero, one}
    Ones = {one}
    NoReq = NoReq
    DataReqs <- MCLiveDataReqs
    FetchReqs <- MCCodeReqs
SPECIFICATION FetchFairSpec
PROPERTY FetchAnswered
