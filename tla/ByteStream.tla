------------------------------ MODULE ByteStream ------------------------------
(***************************************************************************)
(* What a stream socket promises its reader: the bytes that arrived, each  *)
(* one once and in order, from the connection that is open now.  SocketIo  *)
(* implements this specification when one call at a time uses the socket.  *)
(***************************************************************************)
EXTENDS Naturals, Sequences

VARIABLES
    sent,           \* how many bytes have arrived on the connection
    read            \* the bytes given to the reader: the nth byte is n

Init == sent = 0 /\ read = <<>>

Arrive == sent' > sent /\ UNCHANGED read

Read ==
    /\ \E n \in 0 .. (sent - Len(read)) :
        read' = read \o [i \in 1 .. n |-> Len(read) + i]
    /\ UNCHANGED sent

\* The descriptor goes to another connection.
Renew == sent' = 0 /\ read' = <<>>

Next == Arrive \/ Read \/ Renew

Spec == Init /\ [][Next]_<<sent, read>>
=============================================================================
