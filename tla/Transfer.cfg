\* One transfer of two blocks: every interleaving, and its cancellation.
SPECIFICATION FairSpec
CONSTANT Size = 2
INVARIANTS CompletedBothEnded VerifiedFileIsWhole
PROPERTIES ReturnedIsFinal CancelStops
