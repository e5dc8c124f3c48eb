SPECIFICATION LiveSpec
CONSTANTS
    r1 = r1  r2 = r2
    Runs = {r1, r2}
    backup = backup
    Jobs = {backup}
    ScriptJobs = {backup}
    web = web  worker = worker
    Web = {web}
    Worker = worker
    Crashable = {worker}
    Lease = 2  Beat = 1  Grace = 1  Poll = 1
    Timely = FALSE
    Manual = {"ADMIN_UI"}
    None = None
INVARIANTS TypeOK OneRunningPerJob
PROPERTIES HistoryIsFinal NoRunStaysRunning
