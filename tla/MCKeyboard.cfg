\* A ring of 3 entries, and counters that overflow at 6.
CONSTANTS
    Key = {x, y}
    NoKey = NoKey
    Size = 3
    Width = 6
    Special = {caps, up, down}
    CapsLock = caps
    fkeylistener = fkeylistener
    scrollkeylistener = scrollkeylistener
    Null = Null
    Up = up
    Down = down
    MaxScroll = 1
SPECIFICATION LSpec
INVARIANTS SpecialIsDown EveryListenerHears
PROPERTIES ImplementsKeyQueue ScrollsOncePerPress WalkEnds
