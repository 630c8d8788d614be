\* Pages with tags of every kind.
SPECIFICATION PageSpec
CONSTANTS
    Pages <- MCPages
    TagSize <- MCTagSize
    ValueSize <- MCValueSize
    Mark = 5
    LongSize = 4
\* A page is done.
CHECK_DEADLOCK FALSE
PROPERTIES TagsProcessed
