SPECIFICATION Spec
CONSTANTS
  Task = {t1, t2, t3, t4}
  NULL = NULL
SYMMETRY Blocks
INVARIANTS
  ListSound
PROPERTY OnlySuccessorGoesStale
