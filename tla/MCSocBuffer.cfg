\* Fill, stream, wait and capture, with resets, aborts and reconfiguration.
CONSTANTS
    MaxBlk = 2
    OutWords = 2
    Words = {Zero, w1}
    Sizes = {0, 2}
    Flags = {f1}
    Lens = {Zero}
    Masks = {{"full", "done", "error"}}
    Zero = Zero
    X = X
SPECIFICATION FairSpec
INVARIANTS
    TypeOK
    BlockDelivered
    OutputsOfBlock
    DoneRemembered
PROPERTY BusAnswered
