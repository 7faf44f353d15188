------------------------------- MODULE LinkSpec -------------------------------
(***************************************************************************)
(* What the network layer of the gateway promises to the protocol threads  *)
(* that use it (net_helper.h: net_isconnect, net_send, net_disconnect):    *)
(* each link is either down or bound to one socket that no other link has, *)
(* and a thread that is writing on the socket of a link can rely on it:    *)
(* the socket is neither closed nor handed to another link before the      *)
(* write returns.  No mutex, task or listening socket is visible here.     *)
(***************************************************************************)

CONSTANTS
    Links,      \* the configured links, indexes of s_net_list
    Users,      \* the threads that call net_send
    Fds,        \* the descriptors lwIP can hand out
    NoFd        \* the value -1 of a descriptor variable

VARIABLES
    conn,       \* conn[l]: the socket of link l, NoFd while it is down
    using       \* using[u]: the socket thread u is writing on, or NoFd

vars == <<conn, using>>

Init == /\ conn = [l \in Links |-> NoFd]
        /\ using = [u \in Users |-> NoFd]

\* A link that is down comes up on a socket that no link and no writer has.
Up(l, f) == /\ conn[l] = NoFd
            /\ \A k \in Links : conn[k] # f
            /\ \A u \in Users : using[u] # f
            /\ conn' = [conn EXCEPT ![l] = f]
            /\ UNCHANGED using

\* A link goes down, never under a thread that is writing on its socket.
Down(l) == /\ conn[l] # NoFd
           /\ \A u \in Users : using[u] # conn[l]
           /\ conn' = [conn EXCEPT ![l] = NoFd]
           /\ UNCHANGED using

\* A thread starts a write on the socket of a link that is up, and ends it.
Begin(u, l) == /\ using[u] = NoFd
               /\ conn[l] # NoFd
               /\ using' = [using EXCEPT ![u] = conn[l]]
               /\ UNCHANGED conn

End(u) == /\ using[u] # NoFd
          /\ using' = [using EXCEPT ![u] = NoFd]
          /\ UNCHANGED conn

Next == \/ \E l \in Links : \/ \E f \in Fds : Up(l, f)
                            \/ Down(l)
        \/ \E u \in Users : \/ \E l \in Links : Begin(u, l)
                            \/ End(u)

Spec == Init /\ [][Next]_vars
===============================================================================
