CONSTANTS
    Window = 1
    Lookback = 4
    Nodes <- MCNodes
    Answers <- MCAnswers
    Clusters <- MCClusters
    Texts <- MCTexts
    Recordings <- MCRecordings
    Requests <- MCRequests
    Triggers <- MCTriggers
    Pods <- MCPods
    Worlds <- MCWorlds
SPECIFICATION Spec
INVARIANTS
    HarmIsMonotone
    DangerIsReported
    SplitInvertsFraming
    AvailabilityIsReal
    ThrottlingReplays
    TimelineIsFaithful
    CausalityFollowsTime
    BlameIsSupported
    CleanOomIsTheCode
CHECK_DEADLOCK FALSE
