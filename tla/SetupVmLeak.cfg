SPECIFICATION Spec
CONSTANTS
    NULL = NULL
    Env <- TwoEnvs
    NPAGES = 7
    VA <- TwoPages
    PTX <- OwnTables
    KTABLES = 2
    BootPages <- FirstPage
    REFBITS = 3
    Perms <- MapPerms
INVARIANT NoFrameLost
CHECK_DEADLOCK TRUE
