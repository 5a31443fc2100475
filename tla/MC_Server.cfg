CONSTANTS
    t1 = t1
    t2 = t2
    Threads <- MC_Threads
    NumConcurrent = 1
    Accts <- MC_Accts
    InitEmail <- MC_InitEmail
    NewEmails <- MC_NewEmails
    NoEmail = NoEmail
    MaxPosts = 3
    MaxGets = 1
SPECIFICATION Spec
INVARIANT TypeOK
INVARIANT EmailsUnique
PROPERTY RebuildEventuallyQuiesces
