\* Two subscribers of any policies, room for two events, three events; fair publisher.
SPECIFICATION FairSpec
CONSTANTS
    Subscribers = 2
    Capacity = 2
    MaxAge = 0
    MaxEvents = 3
    MaxClock = 1
INVARIANT Counted
INVARIANT AtMostOnceInOrder
PROPERTY PublishReturns
