SPECIFICATION FairSpec
CONSTANTS
    Names = {1, 2, 3, 4, 5}
    Max = 3
    PageSizes <- MCPageSizes
    NoToken = NoToken
    Malformed = Malformed
    Tokens <- MCTokens
    MaxChanges = 2
INVARIANT DriftBounded
PROPERTY ListingEnds
