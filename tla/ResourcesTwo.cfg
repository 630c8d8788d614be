\* A file edited within the second after its tag was made, and two handlers.
SPECIFICATION ResourcesSpec
CONSTANTS
    Handlers = {h1, h2}
    Paths = {"a"}
    Targets <- MCTargets
    Directories <- MCOnePath
    Large = {}
    MaxTime = 3
INVARIANTS NotModifiedIsTrue
