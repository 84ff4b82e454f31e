\* fat16.c:348 is violated: a read from the middle of a cluster runs into whatever
\* the disk has next.
SPECIFICATION Spec
CONSTANTS
    ClusterSize = 4
    SectorSize = 2
    DataStart = 6
    Cluster <- MCCluster
    fat <- MCfat
    Failing <- MCFailing
    Root <- MCRoot
    Sub <- MCSub
    Deleted = "deleted"
    Empty = "empty"
    Part <- MCPart
    Paths <- MCPaths
    Reads <- MCReads
    Offsets = {0, 3, 4}
    MaxPos = 9
    MaxDescriptors = 2
    NULL = NULL
INVARIANT OverlapUsesNextCluster
