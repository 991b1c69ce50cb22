SPECIFICATION UploadSpec
CONSTANTS
    Gear <- MCGear
    MinChunk = 2
    AvgChunk = 3
    MaxChunk = 4
    MaskS = 4
    MaskL = 8
    Word = 16
    Uploads = {u1, u2}
    Files <- MCFiles
    MaxParallel = 2
    MaxRetries = 2
    MaxFaults = 1
    MaxEdits = 0
    NoSha = NoSha
INVARIANTS
    ResumeCommits
CHECK_DEADLOCK FALSE
