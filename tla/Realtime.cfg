\* Two events, two listens to any of two prefixes; the client may stall, send nonsense or leave at any time.
SPECIFICATION FairSpec
CONSTANTS
    Events = 2
    Prefix <- MCPrefix
    Match <- MCMatch
    Asked <- MCAsked
    MaxListens = 2
INVARIANTS
    TypeOK
    WrittenFaithfully
    PanicNeedsEvent
PROPERTIES
    ListenTaken
    LoopEnds
    SupersededEnds
    ConnectionSettles
