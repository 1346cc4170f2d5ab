\* Two targets of one host both number their samples from 1.
SPECIFICATION RunSpec
CONSTANTS
    log = log
    summary = summary
    Free = Free
    N = 2
    Writers <- SharedTargets
    Files <- SharedFiles
    FilesOf <- SharedFilesOf
    LogOf <- SharedLog
    SummaryOf <- SharedSummary
    Samples = 2
    MaxLines = 3
    MaxCrashes = 0
INVARIANT SampleIsPosition
