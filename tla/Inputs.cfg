\* Each part on its own instance.
SPECIFICATION Spec
CONSTANTS
    \* headers
    Requests <- MCRequests
    Errands <- MCErrands
    Bodies = {0, 2}
    Dotted <- MCDotted
    Numbers <- MCNumbers
    ThisNode <- MCNode
    \* files
    Handlers = {h1, h2}
    Paths = {"a"}
    Targets <- MCOneTarget
    Directories <- MCOnePath
    Large = {2}
    MaxTime = 3
    \* the text of the configuration, its elements, and the rules
    Documents <- MCDocuments
    Layouts <- MCLayouts
    Files <- MCFiles
    RouteRules <- MCRules
    Registrations <- MCRegistrations
    Messages <- MCMessages
\* A text is read to its end; a lost process stops.
CHECK_DEADLOCK FALSE
SYMMETRY Symmetry
INVARIANTS
    TypeOK AsWritten SentWhereMeant CheckedIsFresh ParsedAsWritten ReadAsWritten
PROPERTIES
    AnswerMatchesRequest AnswerIsCurrent
