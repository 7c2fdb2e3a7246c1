----------------------------- MODULE SocketGrowth -----------------------------
(***************************************************************************)
(* How the two halves of atu_sockets.c meet: a task is in atu_recv_r,      *)
(* FIONREAD of atu_ioctl_r or F_SETFL of atu_fcntl_r on its own            *)
(* descriptor, while another task opens a socket that finds the table full *)
(* and moves it (lines 63-80).  The call has looked its entry up once, at  *)
(* its start, and keeps the pointer nf, also while esp_netconn_receive     *)
(* waits; the growth copies the entry field by field and changes the       *)
(* table, and maps_lock is not held by the first, nor nf known to the      *)
(* second.                                                                 *)
(*                                                                         *)
(* Calls on the table are in SocketTable, timeouts and closing in SocketIo *)
(* and neither moves an entry that is in use by a read.                    *)
(***************************************************************************)
EXTENDS Integers

CONSTANTS
    MaxTables,      \* bound: tables the heap has room for
    MaxBytes,       \* bound: bytes that arrive
    MaxPbuf,        \* bound: bytes in one packet buffer
    MaxLen,         \* bound: the length a caller asks for
    GrowsApart      \* whether no socket is opened during a call of the reader

ASSUME BoundsAre == {MaxTables, MaxBytes, MaxPbuf, MaxLen} \subseteq Nat \ {0}
ASSUME CallersAre == GrowsApart \in BOOLEAN

Tables == 1 .. MaxTables
Fields == {"pbuf", "bytes_left", "file_flag"}

NoPbuf == [last |-> 0, len |-> 0]       \* nf->pbuf == NULL
Pbufs == [last : 0 .. MaxBytes, len : 0 .. MaxPbuf]

VARIABLES
    netconn_maps,   \* the table in use
    pbuf, bytes_left, file_flag,    \* the reader's entry in each table
    \* the task that opens a socket, in atu_conn2fd
    growing,        \* it has new_maps, the table after the one in use
    todo,           \* fields that memcpy has not copied yet
    \* the task that reads
    pc, call,
    nf,             \* the table that its pointer nf leads into
    len, val,       \* arguments: the length, the flags
    sz,             \* local sz
    \* what is known, for the properties
    sent,           \* bytes that arrived
    taken,          \* those that esp_netconn_receive gave out in buffers
    got,            \* those that atu_recv_r gave to its callers
    live,           \* buffers given out and not freed, by their last byte
    asked           \* the flags that were set last

entry == <<pbuf, bytes_left, file_flag>>
opener == <<netconn_maps, growing, todo>>
locals == <<call, nf, len, val, sz>>
known == <<sent, taken, got, live, asked>>
vars == <<entry, opener, pc, locals, known>>

Idle == pc = "idle"

Pcs == {"idle", "test", "receive", "left", "copy", "consume", "free", "null",
        "store"}

Init ==
    /\ netconn_maps = 1 /\ growing = FALSE /\ todo = {}
    /\ pbuf = [b \in Tables |-> NoPbuf]
    /\ bytes_left = [b \in Tables |-> 0]
    /\ file_flag = [b \in Tables |-> FALSE]
    /\ pc = "idle" /\ call = "none" /\ nf = 1 /\ len = 0 /\ val = FALSE /\ sz = 0
    /\ sent = 0 /\ taken = 0 /\ got = 0 /\ live = {} /\ asked = FALSE

Return == pc' = "idle" /\ call' = "none"

-----------------------------------------------------------------------------
(* The choices inside the actions, each after mistakes in it that a        *)
(* property of this module catches.                                        *)

\* What memcpy copies of an entry.
NotTheFlags == Fields \ {"file_flag"}
OnlyTheBuffer == {"pbuf"}
Copied == Fields

\* The entry has bytes of an earlier packet buffer.
HasBytes == pbuf[nf] # NoPbuf /\ bytes_left[nf] # 0

\* As much as the caller wants and the buffer has.
AllOfIt == len
Least == IF bytes_left[nf] < len THEN bytes_left[nf] ELSE len

\* The byte before the first one to copy.
Before == pbuf[nf].last - bytes_left[nf]

\* Where a call finds the entry: atu_fd2conn looks it up every time.
RecvRemembers(kind) == IF kind = "recv" THEN nf ELSE netconn_maps
LookedUp(kind) == netconn_maps

\* Whether a buffer that is used up is freed.
UsedUp == bytes_left[nf] = sz

-----------------------------------------------------------------------------
(* The library's thread, and the task that opens a socket.                 *)

Deliver ==
    /\ sent < MaxBytes
    /\ sent' = sent + 1
    /\ UNCHANGED <<entry, opener, pc, locals, taken, got, live, asked>>

\* calloc gives new_maps.
Grow ==
    /\ ~growing /\ netconn_maps < MaxTables
    /\ GrowsApart => Idle
    /\ growing' = TRUE /\ todo' = Copied
    /\ UNCHANGED <<entry, netconn_maps, pc, locals, known>>

\* memcpy of the reader's entry, a field at a time.
New == netconn_maps + 1
Moved(field) == [field EXCEPT ![New] = field[netconn_maps]]

CopyField ==
    /\ growing
    /\ \E f \in todo :
        /\ todo' = todo \ {f}
        /\ pbuf' = IF f = "pbuf" THEN Moved(pbuf) ELSE pbuf
        /\ bytes_left' = IF f = "bytes_left" THEN Moved(bytes_left) ELSE bytes_left
        /\ file_flag' = IF f = "file_flag" THEN Moved(file_flag) ELSE file_flag
    /\ UNCHANGED <<netconn_maps, growing, pc, locals, known>>

\* netconn_maps = new_maps; the old table is never freed.
Publish ==
    /\ growing /\ todo = {}
    /\ netconn_maps' = New /\ growing' = FALSE
    /\ UNCHANGED <<entry, todo, pc, locals, known>>

-----------------------------------------------------------------------------
(* The task that reads.                                                    *)

\* Every call begins with nf = atu_fd2conn(s).
Begin(kind, label) ==
    /\ Idle
    /\ GrowsApart => ~growing
    /\ call' = kind /\ pc' = label /\ nf' = LookedUp(kind)
    /\ UNCHANGED <<entry, opener, sz>>

RecvCall ==
    /\ Begin("recv", "test")
    /\ len' \in 0 .. MaxLen
    /\ UNCHANGED <<val, known>>

IoctlCall == Begin("ioctl", "test") /\ UNCHANGED <<len, val, known>>

FcntlCall ==
    /\ Begin("fcntl", "store")
    /\ val' \in BOOLEAN
    /\ asked' = val'
    /\ UNCHANGED <<len, sent, taken, got, live>>

StoreFlag ==
    /\ pc = "store"
    /\ file_flag' = [file_flag EXCEPT ![nf] = val]
    /\ Return
    /\ UNCHANGED <<pbuf, bytes_left, opener, nf, len, val, sz, known>>

\* What is in hand is read first, and FIONREAD tells it.
Test ==
    /\ pc = "test"
    /\ \/ ~HasBytes /\ pc' = "receive" /\ UNCHANGED call
       \/ HasBytes /\ call = "recv" /\ pc' = "copy" /\ UNCHANGED call
       \/ HasBytes /\ call = "ioctl" /\ Return
    /\ UNCHANGED <<entry, opener, nf, len, val, sz, known>>

\* esp_netconn_receive stores the next buffer through &nf->pbuf ...
Receive ==
    /\ pc = "receive"
    /\ \E n \in 1 .. MaxPbuf :
        /\ taken + n <= sent
        /\ pbuf' = [pbuf EXCEPT ![nf] = [last |-> taken + n, len |-> n]]
        /\ taken' = taken + n
        /\ live' = live \cup {taken + n}
    /\ pc' = "left"
    /\ UNCHANGED <<bytes_left, file_flag, opener, locals, sent, got, asked>>

\* ... or NULL, when the connection is closed or it may not wait longer:
\* atu_recv_r returns, and so does FIONREAD on a closed connection.
ReceiveFails ==
    /\ pc = "receive"
    /\ pbuf' = [pbuf EXCEPT ![nf] = NoPbuf]
    /\ \/ Return
       \/ call = "ioctl" /\ pc' = "left" /\ UNCHANGED call
    /\ UNCHANGED <<bytes_left, file_flag, opener, nf, len, val, sz, known>>

\* nf->bytes_left = plen, or 0 without a buffer.
SetLeft ==
    /\ pc = "left"
    /\ bytes_left' = [bytes_left EXCEPT ![nf] = pbuf[nf].len]
    /\ \/ call = "recv" /\ pc' = "copy" /\ UNCHANGED call
       \/ call = "ioctl" /\ Return
    /\ UNCHANGED <<pbuf, file_flag, opener, nf, len, val, sz, known>>

\* memcpy to the caller.
Copy ==
    /\ pc = "copy"
    /\ sz' = Least
    /\ got' = got + Least
    /\ pc' = "consume"
    /\ UNCHANGED <<entry, opener, call, nf, len, val, sent, taken, live, asked>>

\* nf->bytes_left -= sz.
Consume ==
    /\ pc = "consume"
    /\ bytes_left' = [bytes_left EXCEPT ![nf] = @ - sz]
    /\ IF UsedUp THEN pc' = "free" /\ UNCHANGED call ELSE Return
    /\ UNCHANGED <<pbuf, file_flag, opener, nf, len, val, sz, known>>

\* esp_pbuf_free(nf->pbuf) ...
Free ==
    /\ pc = "free"
    /\ live' = live \ {pbuf[nf].last}
    /\ pc' = "null"
    /\ UNCHANGED <<entry, opener, locals, sent, taken, got, asked>>

\* ... and nf->pbuf = NULL.
SetNull ==
    /\ pc = "null"
    /\ pbuf' = [pbuf EXCEPT ![nf] = NoPbuf]
    /\ Return
    /\ UNCHANGED <<bytes_left, file_flag, opener, nf, len, val, sz, known>>

-----------------------------------------------------------------------------
Opener == Grow \/ CopyField \/ Publish

Call == RecvCall \/ IoctlCall \/ FcntlCall

Work ==
    \/ StoreFlag \/ Test \/ Receive \/ ReceiveFails \/ SetLeft \/ Copy
    \/ Consume \/ Free \/ SetNull

Next == Deliver \/ Opener \/ Call \/ Work

Spec == Init /\ [][Next]_vars

-----------------------------------------------------------------------------
(* What makes a growth harmless.                                           *)

\* Every variable has its type: bytes_left, which is unsigned, counts down to
\* 0 and not past it, in each table.
TypeOK ==
    /\ netconn_maps \in Tables
    /\ growing \in BOOLEAN /\ todo \in SUBSET Fields
    /\ growing => netconn_maps < MaxTables
    /\ pbuf \in [Tables -> Pbufs]
    /\ bytes_left \in [Tables -> 0 .. MaxPbuf]
    /\ file_flag \in [Tables -> BOOLEAN]
    /\ pc \in Pcs /\ call \in {"none", "recv", "ioctl", "fcntl"}
    /\ nf \in Tables
    /\ len \in 0 .. MaxLen /\ val \in BOOLEAN /\ sz \in 0 .. MaxLen
    /\ {sent, taken, got} \subseteq 0 .. MaxBytes
    /\ live \in SUBSET (1 .. MaxBytes)
    /\ asked \in BOOLEAN

\* A call copies from, and frees, only a packet buffer that is allocated,
\* whichever table its pointer leads into: no buffer is read or freed a second
\* time because the copy of the entry in another table still has it.
NoUseAfterFree == pc \in {"copy", "free"} => pbuf[nf].last \in live

\* The reader of a connection gets every byte once and in order: what a call
\* copies goes on where the one before it stopped, whatever table that one
\* left its rest in.
InOrder == pc = "copy" => Before = got

\* Between calls, what esp_netconn_receive gave out and no caller has got is
\* in the entry of the table in use, and so are the flags that F_SETFL set
\* last: nothing is left behind in another table.
NothingLeftBehind ==
    Idle => /\ got + bytes_left[netconn_maps] = taken
            /\ live = IF pbuf[netconn_maps] = NoPbuf
                      THEN {} ELSE {pbuf[netconn_maps].last}
            /\ file_flag[netconn_maps] = asked
=============================================================================
