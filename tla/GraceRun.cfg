\* Two targets of one host, appends that fail, reports in order.
SPECIFICATION RunSpec
CONSTANTS
    log = log
    summary = summary
    Free = Free
    N = 2
    Writers <- SharedTargets
    Files <- SharedFiles
    FilesOf <- SharedFilesOf
    LogOf <- SharedLog
    SummaryOf <- SharedSummary
    Samples = 2
    MaxLines = 3
    MaxCrashes = 0
INVARIANTS
    ReportsInOrder
    SummariesAreReported
