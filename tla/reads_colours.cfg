SPECIFICATION ReadSpec
CONSTANTS
    Files <- MCFew
    Requests <- MCRequests
    ReadsOf <- MCReadsOf
    Revisions <- MCRevisions
    Entries <- MCEntries
    Classes = {1, 2}
    PointBytes = 100
INVARIANT ColoursAreNormalised
CHECK_DEADLOCK FALSE
