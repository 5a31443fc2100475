CONSTANTS
    Ids <- MC_Ids
    Emails <- MC_Emails
    EmailDomain <- MC_EmailDomain
    Countries <- MC_Countries
    Cities <- MC_Cities
    Interests <- MC_Interests
    Years <- MC_Years
    PremiumNow = 2
    Dataset <- MC_Dataset
    NoBody = NoBody
    NewBodies <- MC_NewBodies
    UpdateBodies <- MC_UpdateBodies
    LikesBodies <- MC_LikesBodies
    FreshCreatesOnly = FALSE
    MaxWrites = 4
SPECIFICATION Spec
INVARIANT EmailRegistryExact
