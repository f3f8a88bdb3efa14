CONSTANTS
    Depth = 8
SPECIFICATION FairSpec
INVARIANTS FlagsSafe ViewsOrdered
PROPERTIES FlagsCatchUp
