SPECIFICATION Spec
CONSTANTS
    None = None
    Blank = Blank
    Hosts = {"h1", "h2"}
    Certs = {"c1", "c2", "c3"}
    Names = {"h1", "h2", "mirror", "not a name"}
    ServerNames = {"h1", "h2", "mirror"}
    Anchored = {"c1", "c2"}
    NamesOf <- SubjectNames
    Flights = 2
    MaxPeerChanges = 1
    Replies <- Answers
    Configured <- Callers
    Overrides <- PinOverrides
INVARIANT ConnectionIsTheFirstUsable
PROPERTY ConnectReturns
\* The call has returned, or waits for a registry that is silent.
CHECK_DEADLOCK FALSE
