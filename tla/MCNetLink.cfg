\* Two links with two descriptors, the worker of the client and a user that
\* writes to both.
SPECIFICATION FairSpec
CONSTANTS
    srv = srv
    cli = cli
    worker = worker
    other = other
    NoFd = NoFd
    NoLink = NoLink
    Links = {srv, cli}
    Users = {worker, other}
    Fds = {1, 2}
    Role <- MCRole
    WorkerOf <- MCWorkerOf
    SendsOn <- MCSendsOn
    MaxReq = 1
INVARIANTS TypeOK LiveFds NoLeak WriterSafe KillPerRequest
PROPERTIES ImplementsLinkSpec DisconnectHonoured SendReturns
