\* Two handshakes, three versions of the files; three lines, two of them to
\* answer; two requests.  The agent stops.
SPECIFICATION Spec
CONSTANTS
    Handshakes = {h1, h2}
    Startup = startup
    MaxVersion = 3
    maxRequests = 2
    MaxLines = 3
    MaxInFlight = 2
CHECK_DEADLOCK FALSE
INVARIANTS
    OnlyTheStatRaceLosesARenewal
    AnswersFollowTheInput
PROPERTY SignalStopsTheAgent
