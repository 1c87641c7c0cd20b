SPECIFICATION FairSpec
CONSTANTS
    PipeCap <- MCPipeCap
    MaxNoise <- MCMaxNoise
CHECK_DEADLOCK FALSE
INVARIANTS ProtocolTypeOK ResultIsReal EndingIsNamed NothingOutlivesCall
PROPERTY CallEnds
