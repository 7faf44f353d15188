\* Two links with a socket each, under fairness, and no faults but timeouts.
SPECIFICATION FairSpec
CONSTANTS
    a = a
    b = b
    worker = worker
    sender = sender
    NoSock = NoSock
    NoLink = NoLink
    Links = {a, b}
    Workers = {}
    Senders = {}
    LinkOf <- MCLinkOf
    Socks = {0, 1}
    MaxFault = 0
    MaxOut = 1
PROPERTIES LossNoticed ModemShared
