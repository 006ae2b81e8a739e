SPECIFICATION Spec
CONSTANTS
    NumKeys = 12
    Names <- MCNames
    Hash <- MCHash
    Values = {v1}
    v1 = v1
    Null = Null
INVARIANTS
    Balanced
    NothingLost
    ActsAsMap
