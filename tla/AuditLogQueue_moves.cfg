SPECIFICATION FairSpec
CONSTANTS
    Entries = {e1, e2, e3}
    Callbacks = {w1, w2}
    BatchSize = 2
    InsertOutcomes = {TRUE, FALSE}
    MaxRestarts = 1
INVARIANT TypeOK
INVARIANT DuplicateOnlyIfUnsure
INVARIANT InsertedInOrder
PROPERTY ImplementsOutbox
PROPERTY Drained
