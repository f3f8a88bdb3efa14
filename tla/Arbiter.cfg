SPECIFICATION FairSpec
CONSTANTS
  N = 5
  MaxBurst = 2
  Prompt = FALSE
INVARIANTS AckIsMine
PROPERTIES GrantComes
