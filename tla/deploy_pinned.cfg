SPECIFICATION Spec
CONSTANTS
    Operators = {1}
    Resources <- Twelve
    Mishaps = 0
    Ids = {1, 2}
    Attempts = 2
    Ceiling = 4
    Histories <- NotPublished
INVARIANTS
    TeardownCanStart
