SPECIFICATION MCSpec
CONSTANTS
    Components = {"kinds"}
    tick = tick
    poll = poll
    once = once
    spare = spare
    late = late
    NoJob = NoJob
    Name <- AllNames
    Job <- AllJobs
    Def <- AllDef
    Declared = {tick, poll, once, late}
    CronPeriod = 3
    Operations = {"start", "stop", "remove", "update"}
    Updates = {}
    StartDelay = 0
    MaxRun = 2
    MaxDelay = 9
    MaxTimers = 3
INVARIANTS
    EnabledKeepsRunning
