\* Blocks of eight words, and the corner cases of the padding.
CONSTANTS
    Blk = 8
    Rounds = 4
    KeyWords = 2
    Lens = {4, 7, 8, 11, 12}
    MaxAttempts = 2
SPECIFICATION FairSpec
INVARIANTS
    TypeOK
    WordsLand
    DigestOfMessage
    VerdictOfAttempt
PROPERTIES
    NoWordOverwritten
    AttemptEnds
