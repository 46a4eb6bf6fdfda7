\* jps and pgrep print the same JVMs, whenever they are asked at the same time.
CONSTANTS
    p1 = p1
    p2 = p2
    p3 = p3
    kafka = kafka
    tomcat = tomcat
    Pids = {p1, p2}
    Names = {kafka, tomcat}
    NameOf <- MCNameOf
    Listed = {p1, p2}
    Matched = {p1, p2}
    Requests <- MCRequests
    CollectionTime = 2
    MaxElapsed = 2
    Absent = Absent
    Unresolved = Unresolved

SPECIFICATION Spec

INVARIANT KnownIsProfiled
