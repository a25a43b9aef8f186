\* The program ends after a deinit.
CHECK_DEADLOCK FALSE
SPECIFICATION Spec
CONSTANTS
    Disks <- MCDisks
    NumSectors = 16
    SectorSize = 2
    Word = 64
    ExtMax = 2
    Fstab <- MCFstab
    MaxInits = 2
    MaxOpenFiles = 3
INVARIANTS StInv RightVolume
PROPERTIES OnceBroken Settles
