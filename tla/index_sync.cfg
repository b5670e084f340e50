SPECIFICATION FairSpec
CONSTANTS
    Writers = {w1, w2, w3}
    NoWriter = NoWriter
CHECK_DEADLOCK FALSE
INVARIANTS
    TypeOK
    OnlyRivalsOverwrite
PROPERTIES
    LoneWritesAreIndexed
