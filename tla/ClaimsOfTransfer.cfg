\* Three claims that the code does not keep (tlc -continue).
SPECIFICATION Spec
CONSTANT Size = 2
INVARIANTS CancelledIsNotCompleted CompletedShowsAll VerifiedIsWhole
