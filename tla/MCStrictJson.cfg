SPECIFICATION Spec
CONSTANTS
    Strings = {"k", "m"}
    Others = {"1"}
    Misspelt = {"01"}
    MaxDepth = 3
    MaxNodes = 4
INVARIANT ReadsExactlyTheDocuments
\* The text has been read or refused.
CHECK_DEADLOCK FALSE
