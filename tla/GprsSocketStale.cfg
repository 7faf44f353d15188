\* One socket, two links and a sender of the first.
SPECIFICATION Spec
CONSTANTS
    a = a
    b = b
    worker = worker
    sender = sender
    NoSock = NoSock
    NoLink = NoLink
    Links = {a, b}
    Workers = {}
    Senders = {sender}
    LinkOf <- MCLinkOf
    Socks = {0}
    MaxFault = 0
    MaxOut = 1
INVARIANTS ClosedReturnsZero
