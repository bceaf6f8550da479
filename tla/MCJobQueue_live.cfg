SPECIFICATION FairSpec
CONSTANTS
    j1 = j1
    j2 = j2
    j3 = j3
    p1 = p1
    Jobs = {j1, j2}
    Handlers = {h1, h2}
    Pipelines = {p1}
    PipelineOf <- OnePipeline
    MaxAttempts = 2
    Poison = {}
    BadPrefix = {}
    Webhook = {}
    FaultAt <- AllSteps
    MaxFaults = 0
    MaxCrashes = 1
    MaxStalls = 0
    MaxCopies = 2
    Trimming = FALSE
    None = None
CHECK_DEADLOCK FALSE
PROPERTIES EventuallySettled EventuallyDrained
