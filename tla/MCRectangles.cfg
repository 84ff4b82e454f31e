\* Three processes, three rectangles, a table of two: it can be full, and
\* point at freed and at used memory.
CONSTANTS
    Process = {p1, p2, p3}
    Rect = {r1, r2, r3}
    Name = {taskbar, other}
    Taskbar = taskbar
    NPublish = 2
    NULL = NULL
SPECIFICATION Spec
SYMMETRY Blocks
INVARIANTS
    SharedCountsUsers
    OwnRectangleLives
    NamesDiffer
PROPERTY ImplementsSharing
