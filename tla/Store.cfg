\* Two writers of the same files, failures and a crash.
SPECIFICATION FairStoreSpec
CONSTANTS
    w1 = w1
    w2 = w2
    log = log
    summary = summary
    Free = Free
    Writers = {w1, w2}
    Files <- SharedFiles
    FilesOf <- SharedFilesOf
    MaxLines = 2
    MaxCrashes = 1
INVARIANTS
    LinesUnbroken
    AckedOnceInOrder
PROPERTY AppendReturns
