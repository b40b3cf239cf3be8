SPECIFICATION TestSpec
CONSTANTS
    NULL = NULL
    Env <- Kernel
    NPAGES = 9
    VA <- TestPages
    PTX <- LeafTable
    Levels <- FourLevels
    KTABLES = 1
    BootPages <- TestPages
    REFBITS = 16
    Perms <- NoPerms
    Reserved <- ZeroAndHole
    Low <- BaseMem
    Mapped <- BelowPtsize
    Tests <- OnlyCheckPage
INVARIANT ChecksLeaveAllocatorSound
CHECK_DEADLOCK TRUE
