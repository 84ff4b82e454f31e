\* Three processes on a heap of nineteen pages, which two of them can fill.
CONSTANTS
    Process = {p1, p2, p3}
    File <- MCFile
    LibrarySize = 5
    PAGE = 4
    ProgramPage = 4
    StackPage = 2
    StackSize = 8
    VideoPage = 1
    HeapFirst = 10
    HeapLast = 28
    MaxAllocations = 3
    Sizes = {1, 7}
    MaxArguments = 2
    ArgumentSize = 5
    PointerSize = 2
    NULL = NULL
SPECIFICATION Spec
SYMMETRY Blocks
INVARIANTS
    
    GivenIsMapped
    
