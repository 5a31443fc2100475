CONSTANTS
    Ids <- MC_Ids
    Likes <- MC_Likes
    Queries <- MC_Queries
    Others <- MC_Others
    Limit = 2
SPECIFICATION Spec
INVARIANT TypeOK
INVARIANT NeverAsserts
PROPERTY ImplementsIdStream
PROPERTY QueryReturns
