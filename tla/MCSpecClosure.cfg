SPECIFICATION Spec
CONSTANTS
    Files = {"R", "A1", "A2", "B"}
    Dirs <- Paths
    Names <- Modules
    Absent = "absent"
    Dangling = "dangling"
    Unresolvable = "unresolvable"
    Worlds <- WorldsTried
    Texts <- TextsTried
    ImportsOf <- Names1
    Identifiers = {"EXTENDS", "INSTANCE", "R", "A", "B", "Naturals", "x"}
    BUILTINS = {"Naturals"}
INVARIANTS ClosureIsLeast ClosureIsBreadthFirst ImportsAreDeclared
PROPERTY ClosureEnds
\* The call has returned.
CHECK_DEADLOCK FALSE
