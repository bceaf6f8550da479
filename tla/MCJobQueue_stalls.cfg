SPECIFICATION Spec
CONSTANTS
    j1 = j1
    j2 = j2
    j3 = j3
    p1 = p1
    Jobs = {j1}
    Handlers = {h1, h2, h3}
    Pipelines = {p1}
    PipelineOf <- OnePipeline
    MaxAttempts = 2
    Poison = {}
    BadPrefix = {}
    Webhook = {}
    FaultAt <- AbsorbedFaults
    MaxFaults = 0
    MaxCrashes = 1
    MaxStalls = 2
    MaxCopies = 3
    Trimming = FALSE
    None = None
SYMMETRY HandlerSymmetry
CHECK_DEADLOCK FALSE
INVARIANTS NoJobDropped RunsBounded
