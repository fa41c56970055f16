\* One producer, four events, room for two, one crash; fairness of the consumer.
SPECIFICATION FairSpec
CONSTANTS
    Producer = {p1}
    MaxSeq = 4
    MaxPending = 2
    MaxCrashes = 1
    MaxFails = 1
INVARIANT TypeOK
INVARIANT ReceivedNotSkipped
INVARIANT GapsExact
PROPERTY ProcessedOnce
PROPERTY CheckpointInOrder
PROPERTY KeepsCheckpoint
PROPERTY BufferedSettles
