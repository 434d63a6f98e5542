\* A strand, one more thread of the application and the teardown; three packets.
\* Bit sets of the sizes in the code (5, 65, 130) and around multiples of seven;
\* texts whose length takes one byte and two.
CONSTANTS
    Strand = strand
    Teardown = teardown
    Apps = {a1}
    MaxPackets = 3
    MaxInbound = 1
    BitsetSizes = {1, 5, 7, 8, 14, 15, 65, 130}
    TextLengths = {0, 1, 2, 127, 128}
SPECIFICATION MCSpec
INVARIANTS PacketsConserved QueuedInOrder RemoteReadsAll ClosedHoldsNothing ClosedOnce
INVARIANTS StreamsReturn FactoryBuildsEveryId ReaderFollowsWriter WireHoldsMember
CHECK_DEADLOCK FALSE
