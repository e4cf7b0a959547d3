CONSTANTS
    Roots <- RootPaths
    Requested <- RequestedPaths
    Kind <- KindOf
    Target <- TargetOf
    Top = "top"
    StagedDirs = {"top", "sub"}
    Staged = {"sub", "f", "g", "fifo", "toFile", "toDir"}
    Tree <- StartTree
    None = none
    Length <- StartLength
    MaxQuadlet = 1
    MaxArchive = 2
    MaxLength = 3
    MaxChanges = 2
SPECIFICATION FairSpec
INVARIANTS
    OnlyStagedFiles ReadIsWhole
PROPERTIES
    StagedPathsAgree ArchiveOpenReturns
