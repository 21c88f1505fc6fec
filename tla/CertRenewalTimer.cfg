SPECIFICATION Spec
CONSTANTS
    c1 = c1
    c2 = c2
    c3 = c3
    Certs = {c1, c2, c3}
    Present = {c1, c2}
    Incomplete = {c1}
    InUse = {c1}
    Dns = {c2}
    Users = {u1}
    Timer = timer
    NoDir = NoDir
    Operations <- OperationsApart
    Overlap = FALSE
    MaxRequests = 1
    MaxAges = 1
    MaxEvents = 2
INVARIANT CertificateKept
CHECK_DEADLOCK FALSE
PROPERTY Served
PROPERTY Renewed
