\* idt.c:110 is violated: the program in the foreground is crashed.
CONSTANTS
    Block = {b1, b2, b3}
    NSlots = 2
    NULL = NULL
    Blank = Blank
SPECIFICATION Spec
INVARIANT FaultingProgramIsCrashed
