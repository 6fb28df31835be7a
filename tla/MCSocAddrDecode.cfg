\* Safety of the access-control core.
CONSTANTS
    CounterMod = 2
    MaxOutstanding = 2
    w1 = w1
    zero = zero
    one = one
    Words = {w1}
    Vals = {zero, one}
    Ones = {one}
    NoReq = NoReq
    DataReqs <- MCDataReqs
    FetchReqs <- MCFetchReqs
SPECIFICATION Spec
INVARIANTS
    TypeOK
    DataInOrder
    DataLoopSettles
    DataNeverStuck
    FetchInOrder
    OnlyVerifiedCode
    ImageSealed
PROPERTY SealedAfterBoot
VIEW SafetyView
