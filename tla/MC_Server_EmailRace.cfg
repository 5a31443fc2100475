CONSTANTS
    t1 = t1
    t2 = t2
    Threads <- MC_Threads
    NumConcurrent = 4
    Accts <- MC_Accts
    InitEmail <- MC_InitEmail
    NewEmails <- MC_NewEmails
    NoEmail = NoEmail
    MaxPosts = 2
    MaxGets = 0
SPECIFICATION Spec
INVARIANT EmailsUnique
