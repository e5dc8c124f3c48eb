SPECIFICATION Spec
SYMMETRY RunSymmetry
CONSTANTS
    r1 = r1  r2 = r2
    Runs = {r1, r2}
    backup = backup  purge = purge
    Jobs = {backup, purge}
    ScriptJobs = {backup}
    web = web  worker = worker
    Web = {web}
    Worker = worker
    Crashable = {web}
    Lease = 12  Beat = 4  Grace = 1  Poll = 6
    Timely = TRUE
    Manual = {"ADMIN_UI"}
    None = None
INVARIANTS NoUnwarnedOverlap ScriptsNeverOverlap
