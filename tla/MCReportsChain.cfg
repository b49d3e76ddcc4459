CONSTANTS
    Window = 1
    Lookback = 4
    Nodes <- MCNodes
    Answers <- MCAnswers
    Clusters <- MCClusters
    Texts <- MCTexts
    Recordings <- MCRecordings
    Requests <- MCRequests
    Triggers <- MCTriggers
    Pods <- MCPods
    Worlds <- MCWorlds
SPECIFICATION Spec
INVARIANT CascadeIsAChain
CHECK_DEADLOCK FALSE
