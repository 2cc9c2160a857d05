CONSTANTS
    Tools <- MCTools
    Roots <- MCRoots
    Reviewed <- MCReviewed
    External <- MCExternal
    Values <- MCValues
    Shadows <- MCShadows
    Patches <- MCPatches
    Facts <- MCFacts
    Initial <- MCInitial
    Minimum = 2
    MaxEdits = 1
    MaxCommits = 1
    MaxDetours = 1
SPECIFICATION Spec
INVARIANT TailConverges
CHECK_DEADLOCK FALSE
