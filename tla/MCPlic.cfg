\* Claim, service, complete: safety and service of the preferred source.
CONSTANTS
    N_SOURCE = 2
    PrioMod = 4
    Edge = {2}
    Prios = {1, 3}
    Masks = {{1}, {1, 2}}
    BackToBack = FALSE
SPECIFICATION FairSpec
INVARIANTS
    TypeOK
    OneAtATime
    ClaimIsEligible
    ScanFindsWinner
PROPERTIES
    ClaimDropsSource
    TopIsServed
