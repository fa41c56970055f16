\* Two writers, one reader, two payloads of two words, a counter of two bits.
SPECIFICATION ShmSpec
CONSTANTS
    Writer = {w1, w2}
    Reader = {r1}
    Content = {c1, c2}
    Zeros = zeros
    Words = 2
    HalfWidth = 2
    MaxSegments = 2
    MaxPublished = 3
INVARIANT ShmTypeOK
INVARIANT ReadyIsWhole
INVARIANT NameIsOwned
INVARIANT ViewIsDescribed
PROPERTY RaceIsFound
CHECK_DEADLOCK FALSE
