\* A source of priority 0 under the highest threshold.
CONSTANTS
    N_SOURCE = 2
    PrioMod = 4
    Edge = {2}
    Prios = {1, 3}
    Masks = {{1}, {1, 2}}
    BackToBack = FALSE
SPECIFICATION Spec
INVARIANT PriorityZeroIsSilent
