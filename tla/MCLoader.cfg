\* A program and three libraries; five files are opened, then none.
SPECIFICATION LoaderSpec
CONSTANTS
    app = app
    a = a
    b = b
    c = c
    x = x
    y = y
    long = long
    Relative = Relative
    Unsupported = Unsupported
    File <- MCFile
    Symbol <- MCSymbol
    Overlong = {long}
    Disk <- MCDisk
    MaxFiles = 5
INVARIANTS
    LoadedOnce
    
    SoundProgramLinked
PROPERTY LoadEnds
