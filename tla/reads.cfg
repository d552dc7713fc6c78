SPECIFICATION ReadSpec
CONSTANTS
    Files <- MCFiles
    Requests <- MCRequests
    ReadsOf <- MCReadsOf
    Revisions <- MCRevisions
    Entries <- MCEntries
    Classes = {1, 2}
    PointBytes = 100
INVARIANT ReadTypeOK
INVARIANT AcceptsWellFormed
INVARIANT PlanAccountsForFile
INVARIANT SameForest
INVARIANT DeliversSelection
 
INVARIANT CanonicalIsStable
CHECK_DEADLOCK FALSE
