\* Every pair of the small patterns and of the rings: equal keys of different
\* shapes, and shapes only the search can match.
SPECIFICATION FairSpec
CONSTANTS
  Patterns <- MCPatterns
  None = None
INVARIANTS MatchIsIsomorphism NoneMissed DirectionsAgree
PROPERTIES OnlyExhaustionFails MatchEnds
