\* The period is 2 seconds; the last sample is taken when it is over.
CONSTANTS
    p1 = p1
    p2 = p2
    p3 = p3
    kafka = kafka
    tomcat = tomcat
    Pids = {p1, p2, p3}
    Names = {kafka, tomcat}
    NameOf <- MCNameOf
    Listed = {p1, p3}
    Matched = {p1, p2}
    Requests <- MCRequests
    CollectionTime = 2
    MaxElapsed = 2
    Absent = Absent
    Unresolved = Unresolved

SPECIFICATION FairSpec

INVARIANTS
    AtMostOneProfiler
    SpansPositive
    ProfilesSurvive

PROPERTY FinishEnds

