\* Three slots and four blocks: a full table, and failed loads that leak the
\* last block.
CONSTANTS
    Block = {b1, b2, b3, b4}
    NSlots = 3
    NULL = NULL
    Blank = Blank
SPECIFICATION Spec
SYMMETRY Blocks
INVARIANTS
    TableSound
    ScreenHasOneOwner
PROPERTY CarriesOn
