SPECIFICATION Spec
CONSTANTS
    f1 = f1  f2 = f2  Files = {f1, f2}
    t1 = t1  Texts = {t1}
    Text <- OneText
    r1 = r1  r2 = r2  q1 = q1  q2 = q2  s1 = s1  s2 = s2
    None = None
    Requests = {q1}
    Sweepers = {s1}
    MaxAttempts = 1
    Slow = {"extract", "restore", "beat"}
    MayReupload = TRUE
    MaxUploads = 3
    MaxDeaths = 1
    MaxDeletes = 1
    MaxDbErrors = 1
    Rows = {r1, r2}
SYMMETRY RowSymmetry
INVARIANTS ReadyIsIndexed RestoredIsIndexed
