\* Both links with a socket each, the worker and the sender of the first.
SPECIFICATION Spec
CONSTANTS
    a = a
    b = b
    worker = worker
    sender = sender
    NoSock = NoSock
    NoLink = NoLink
    Links = {a, b}
    Workers = {worker}
    Senders = {sender}
    LinkOf <- MCLinkOf
    Socks = {0, 1}
    MaxFault = 1
    MaxOut = 1
INVARIANTS TypeOK SocketIsOwn NoSocketLost NoLiveClose DataToOwner
