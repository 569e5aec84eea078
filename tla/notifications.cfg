SPECIFICATION NoteSpec
CONSTANTS
    h1 = h1
    h2 = h2
    c1 = c1
    Nothing = Nothing
    Handlers = {h1, h2}
    ListLimit = 1
    CountIsText = TRUE
    Clicks = {c1}
    Callers <- CallersOf
    MaxDrops = 1
INVARIANTS
    OneConversation
    BellIsRight
PROPERTY
    ComesToBeListed
CHECK_DEADLOCK FALSE
