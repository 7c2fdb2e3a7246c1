--------------------------- MODULE DescriptorTable ---------------------------
(***************************************************************************)
(* What the socket layer promises its callers about descriptors, with no   *)
(* table, lock or task in sight: a descriptor names at most one netconn, a *)
(* netconn has at most one descriptor, opening takes the lowest descriptor *)
(* that is free and disturbs no other one, closing frees exactly the       *)
(* descriptor it is given.  SocketTable implements this specification when *)
(* the application keeps its calls of close apart.                         *)
(***************************************************************************)
EXTENDS Naturals

CONSTANTS
    Conns,          \* netconns, named by their address
    Null,           \* no netconn: none of Conns
    Descriptors     \* the numbers that can become descriptors, from 0

VARIABLE sock       \* the netconn behind each descriptor, Null when free

Free == {d \in Descriptors : sock[d] = Null}

Init == sock = [d \in Descriptors |-> Null]

Open(c) ==
    /\ \A d \in Descriptors : sock[d] # c
    /\ \E fd \in Free :
        /\ \A d \in Free : fd <= d
        /\ sock' = [sock EXCEPT ![fd] = c]

Close(fd) ==
    /\ sock[fd] # Null
    /\ sock' = [sock EXCEPT ![fd] = Null]

Next == (\E c \in Conns : Open(c)) \/ (\E fd \in Descriptors : Close(fd))

Spec == Init /\ [][Next]_sock
=============================================================================
