\* Two claim reads in consecutive cycles.
CONSTANTS
    N_SOURCE = 2
    PrioMod = 4
    Edge = {2}
    Prios = {1, 3}
    Masks = {{1}, {1, 2}}
    BackToBack = TRUE
SPECIFICATION Spec
PROPERTY ClaimDropsSource
