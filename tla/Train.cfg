SPECIFICATION FairSpec
CONSTANTS
    Corpora <- MCCorpora
    NumBytes = 2
    NumSpecial = 1
    VocabSize = 7
    TieRank <- MCTieRank
INVARIANTS CountsExact IndexCovers
PROPERTIES ImplementsNaive Terminates
