SPECIFICATION FairSpec
CONSTANTS
    j1 = j1
    j2 = j2
    j3 = j3
    p1 = p1
    Jobs = {j1}
    Handlers = {h1, h2}
    Pipelines = {p1}
    PipelineOf <- OnePipeline
    MaxAttempts = 2
    Poison = {}
    BadPrefix = {}
    Webhook = {}
    FaultAt <- AllSteps
    MaxFaults = 1
    MaxCrashes = 2
    MaxStalls = 0
    MaxCopies = 2
    Trimming = TRUE
    None = None
CHECK_DEADLOCK FALSE
PROPERTY EventuallySettled
