SPECIFICATION FairSpec
CONSTANTS
    c1 = c1
    s1 = s1
    d1 = d1
    Clients = {c1}
    Subs = {s1}
    Dels = {d1}
    ClientOf <- MCClientOf
    ClientCap = 1
    ServerCap = 2
INVARIANTS TypeOK OneDecider AckedMeansQueued ResultIsTruth HandleMatchesSession EsmeFirst
PROPERTIES EndReported
CHECK_DEADLOCK FALSE
