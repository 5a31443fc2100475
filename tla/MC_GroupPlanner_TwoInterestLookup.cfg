CONSTANTS
    Ids <- MC_Ids
    Emails <- MC_Emails
    EmailDomain <- MC_EmailDomain
    Countries <- MC_Countries
    Cities <- MC_Cities
    Interests <- MC_Interests
    Years <- MC_Years
    PremiumNow = 2
    Dataset <- MC_Dataset
    NoBody = NoBody
    NewBodies <- MC_NewBodies
    UpdateBodies <- MC_UpdateBodies
    LikesBodies <- MC_LikesBodies
    FreshCreatesOnly = TRUE
    MaxWrites = 4
    Queries <- MC_LookupMiscountQueries
    FilterQueries = {}
    FilterLimit = 2
    Limits = {1, 2}
    GroupLimits = {1, 2}
    Collation <- MC_Collation
    Locations <- MC_Locations
    NoLocation = NoLocation
    Scale = 12
SPECIFICATION Spec
INVARIANT LookupPlanAgreesWhenFresh
