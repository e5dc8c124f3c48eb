SPECIFICATION LiveSpec
CONSTANTS
    f1 = f1  f2 = f2  Files = {f1, f2}
    t1 = t1  Texts = {t1}
    Text <- OneText
    r1 = r1  r2 = r2  q1 = q1  q2 = q2  s1 = s1  s2 = s2
    None = None
    Requests = {q1}
    Sweepers = {s1, s2}
    MaxAttempts = 1
    Slow = {}
    MayReupload = FALSE
    MaxUploads = 2
    MaxDeaths = 1
    MaxDeletes = 0
    MaxDbErrors = 0
    Rows = {r1, r2}
INVARIANTS TypeOK OneWorkerPerRow BytesWhilePending AttemptsBounded OnlyExtraAttemptsAreCut
PROPERTIES PendingUploadSettles StrandedReembedSettles
