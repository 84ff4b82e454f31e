\* Two descriptors, used up one after the other.
SPECIFICATION Spec
CONSTANTS
    ClusterSize = 4
    SectorSize = 2
    DataStart = 6
    Cluster <- MCCluster
    fat <- MCfat
    Failing <- MCFailing
    Root <- MCRoot
    Sub <- MCSub
    Deleted = "deleted"
    Empty = "empty"
    Part <- MCPart
    Paths <- MCPaths
    Reads <- MCReads
    Offsets = {0, 3, 4}
    MaxPos = 9
    MaxDescriptors = 2
    NULL = NULL
INVARIANTS
    
    
    ReadIsLoop
PROPERTY OpenFileIsKept
