---------------------------- MODULE MCSocketTable ----------------------------
(* SocketTable on small instances.  The tasks are alike and so are the     *)
(* addresses of netconns, which the safety runs use as symmetry.           *)
EXTENDS SocketTable, TLC

Symmetry == Permutations(Tasks) \cup Permutations(Conns)

\* The application keeps its first call of atu_socket apart, as one that
\* opens a socket before it starts its other tasks does.
FirstAlone == {"first"}

\* It also lets no other call overlap atu_close_r.
FirstAndCloseAlone == {"first", "close"}
=============================================================================
