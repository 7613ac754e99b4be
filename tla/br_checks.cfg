SPECIFICATION BrowserSpec
CONSTANTS
    c1 = c1
    ip1 = ip1
    app = app
    bare = bare
    other = other
    example = example
    Clients = {c1}
    Addresses = {ip1}
    Origins = {app, bare, other}
    Domains = {example}
    EndsIn <- MCEndsIn
    BrowserAttempts <- MCBrowserAttempts
    BrowserRequests = {1, 2}
    MaxCount = 2
    MaxStuck = 1
    None = None
INVARIANTS
    BaselineBelowPeak
    StuckOnlyByFailure

    
CHECK_DEADLOCK FALSE
