SPECIFICATION Spec
CONSTANTS
    NULL = NULL
    Env <- TwoEnvs
    NPAGES = 7
    VA <- OnePage
    PTX <- OneEntry
    KTABLES = 1
    BootPages <- FirstPage
    REFBITS = 3
    Perms <- MapPerms
PROPERTY EnvFreeLosesNothing
PROPERTY ReadOnlyStaysReadOnly
CHECK_DEADLOCK TRUE
