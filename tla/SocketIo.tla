------------------------------- MODULE SocketIo -------------------------------
(***************************************************************************)
(* One descriptor of atu_sockets.c: connecting it and sending (318-340,    *)
(* 440-491), atu_recv_r (360-433), atu_ioctl_r with FIONREAD (493-545),    *)
(* the options that change how these wait (SO_RCVTIMEO of atu_setsockopt_r *)
(* and F_SETFL of atu_fcntl_r), and what atu_close_r leaves behind         *)
(* (296-316).  Tasks make the calls, while the thread of the ESP library   *)
(* puts packet buffers into the mailbox of the netconn and marks the       *)
(* connection closed.                                                      *)
(*                                                                         *)
(* A call that must not wait changes the receive timeout that the netconn  *)
(* has for everybody, receives, and puts the timeout back (378-392): none  *)
(* of this is protected from a second call on the same descriptor.         *)
(***************************************************************************)
EXTENDS Integers, Sequences

CONSTANTS
    Tasks,          \* tasks that read from the descriptor
    MaxBytes,       \* bound: bytes that arrive on one connection
    MaxPbuf,        \* bound: bytes in one packet buffer
    MaxLen,         \* bound: the length a caller asks for
    SizeMod,        \* values of size_t: 2^32 in the code
    OneAtATime      \* whether callers make one call at a time, or connect

ASSUME BoundsNat == {MaxBytes, MaxPbuf, MaxLen} \subseteq Nat \ {0}
ASSUME SizeHolds == SizeMod \in Nat /\ SizeMod > MaxPbuf
ASSUME Caller == OneAtATime \in BOOLEAN

Forever == "forever"    \* receive timeout 0: wait until there is something
Poll == "poll"          \* receive timeout -1UL: do not wait
Finite == "finite"      \* any other receive timeout

NoPbuf == [last |-> 0, len |-> 0]       \* nf->pbuf == NULL

VARIABLES
    \* the descriptor: netconn_fd_t
    open,           \* nf->conn is not NULL
    pbuf,           \* the buffer being read: number of its last byte, length
    bytes_left,     \* its bytes that were not read yet
    nonblock,       \* file_flag has O_NONBLOCK
    nc_type,        \* "tcp" or "udp"
    \* the netconn, which the ESP library keeps
    rcv_timeout,    \* its receive timeout
    mbox,           \* its mailbox of packet buffers
    link,           \* the connection: "new", "up" or "closed"
    out,            \* bytes it was to send: "none", "held", or "excused"
    \* what tasks are doing
    pc, call, len, nowait,
    econ,           \* the connection it fetched: "null", "now" or "old"
    last_to,        \* locals last_to of atu_recv_r and timeout of atu_ioctl_r
    wait,           \* the timeout esp_netconn_receive found when it was called
    r,              \* what it returned
    sz,             \* local sz
    \* what callers and peer know, for the properties
    sent,           \* bytes that arrived
    read,           \* bytes that calls of atu_recv_r gave
    asked,          \* the last timeout set with SO_RCVTIMEO
    avail,          \* bytes FIONREAD told of that were not read since
    pbufs,          \* packet buffers that are allocated
    late,           \* something arrived after the task's receive gave up
    joined          \* the netconn was connected since the task's call began

fd == <<open, pbuf, bytes_left, nonblock, nc_type>>
netconn == <<rcv_timeout, mbox, link, out>>
locals == <<call, len, nowait, econ, last_to, wait, r, sz>>
seen == <<late, joined>>
known == <<sent, read, asked, avail, pbufs, seen>>
vars == <<fd, netconn, pc, locals, known>>

Pcs == {"idle", "save", "poll", "enter", "receive", "restore", "check",
        "copy", "consume", "write", "flush", "look", "sendto",
        "gone"}     \* its netconn was deleted in the middle of the call

Idle(t) == pc[t] = "idle"

MayStart(t) ==
    /\ open
    /\ Idle(t)
    /\ OneAtATime => \A u \in Tasks : Idle(u)

\* Calls that replace the netconn are made when no call uses it.
AllIdle == \A t \in Tasks : Idle(t)

Goto(t, label) == pc' = [pc EXCEPT ![t] = label]

active == link = "up"       \* the netconn has a connection, and it is up

\* The netconn is connected.  What a task fetched before is not its connection
\* any more, although the library may have put the new one in its place.
Connects ==
    /\ link' = "up"
    /\ econ' = [u \in Tasks |-> IF econ[u] = "now" THEN "old" ELSE econ[u]]
    /\ joined' = [u \in Tasks |-> joined[u] \/ ~Idle(u)]

\* What esp_conn_is_active may answer on a connection that was fetched: of
\* one that the library may have given to somebody else, anything.
esp_conn_is_active(e) ==
    CASE e = "null" -> {FALSE} [] e = "now" -> {active} [] e = "old" -> BOOLEAN

Init ==
    /\ open = FALSE /\ link = "closed" /\ out = "none"
    /\ pbuf = NoPbuf /\ bytes_left = 0
    /\ nonblock = FALSE
    /\ nc_type \in {"tcp", "udp"}
    /\ rcv_timeout = Forever /\ asked = Forever
    /\ mbox = <<>>
    /\ pc = [t \in Tasks |-> "idle"]
    /\ call = [t \in Tasks |-> "none"]
    /\ len = [t \in Tasks |-> 0]
    /\ nowait = [t \in Tasks |-> FALSE]
    /\ econ = [t \in Tasks |-> "null"]
    /\ last_to = [t \in Tasks |-> Forever]
    /\ wait = [t \in Tasks |-> Forever]
    /\ r = [t \in Tasks |-> "ok"]
    /\ sz = [t \in Tasks |-> 0]
    /\ sent = 0 /\ read = <<>> /\ avail = 0 /\ pbufs = 0
    /\ late = [t \in Tasks |-> FALSE]
    /\ joined = [t \in Tasks |-> FALSE]

\* A call returns: its locals are gone.
Return(t) ==
    /\ Goto(t, "idle")
    /\ call' = [call EXCEPT ![t] = "none"]
    /\ len' = [len EXCEPT ![t] = 0]
    /\ nowait' = [nowait EXCEPT ![t] = FALSE]
    /\ econ' = [econ EXCEPT ![t] = "null"]
    /\ last_to' = [last_to EXCEPT ![t] = Forever]
    /\ wait' = [wait EXCEPT ![t] = Forever]
    /\ r' = [r EXCEPT ![t] = "ok"]
    /\ sz' = [sz EXCEPT ![t] = 0]
    /\ late' = [late EXCEPT ![t] = FALSE]
    /\ joined' = [joined EXCEPT ![t] = FALSE]

-----------------------------------------------------------------------------
(* The choices inside the actions, each after mistakes in it that a        *)
(* property of this module catches.                                        *)

\* The timeout that makes a receive poll.
AsItWas == rcv_timeout
PollTimeout == Poll

\* The timeout that is put back after one.
IfReceived(t) == IF r[t] = "ok" THEN last_to[t] ELSE rcv_timeout
Restored(t) == last_to[t]

\* The connection that esp_netconn_get_conn gives, before the wait.
Fetched == IF link = "new" THEN "null" ELSE "now"

\* Whether atu_recv_r reports the end of the stream: by whether the connection
\* it fetched is active after the wait, which is neither what
\* esp_netconn_receive saw nor the connection that there is now.
AtEndIfClosed(t, on) == nc_type = "tcp" /\ ~on
AtEnd(t, on) == r[t] # "ok" /\ nc_type = "tcp" /\ ~on

\* Whether atu_ioctl_r reports that the connection is not active.
Inactive(t, on) == r[t] # "ok" /\ ~on

\* The descriptor has bytes of an earlier packet buffer.
HasTwoBytes == pbuf # NoPbuf /\ bytes_left > 1
HasBytes == pbuf # NoPbuf /\ bytes_left # 0

\* The byte before the first one to copy.
FromTheStart == pbuf.last - pbuf.len
Before == pbuf.last - bytes_left

\* What is left of the buffer after a read.
LessTheLength(t) == (bytes_left - len[t]) % SizeMod
NothingLeft(t) == 0
Left(t) == (bytes_left - sz[t]) % SizeMod

\* What the netconn holds after esp_netconn_flush.
NotFlushed == out
Flushed == "none"

\* The buffers in hand that atu_close_r frees.
NoneInHand == 0
InHand == IF pbuf = NoPbuf THEN 0 ELSE 1

-----------------------------------------------------------------------------
(* The thread of the ESP library, and the peer behind it.                  *)

Deliver(n) ==
    /\ open /\ active
    /\ sent + n <= MaxBytes
    /\ mbox' = Append(mbox, [last |-> sent + n, len |-> n])
    /\ sent' = sent + n
    /\ pbufs' = pbufs + 1
    /\ late' = [t \in Tasks |-> late[t] \/ pc[t] \in {"restore", "check"}]
    /\ UNCHANGED <<fd, rcv_timeout, link, out, pc, locals, read, asked, avail,
                   joined>>

PeerCloses ==
    /\ open /\ active
    /\ link' = "closed"
    /\ UNCHANGED <<fd, rcv_timeout, mbox, out, pc, locals, known>>

-----------------------------------------------------------------------------
(* atu_recv_r and atu_ioctl_r(FIONREAD), which receive in the same way.    *)

\* Entry of atu_recv_r: what it has is read first, and only when there is
\* nothing it asks the netconn, without waiting if a flag, a length of 0 or
\* O_NONBLOCK says so.
RecvCall(t) ==
    /\ MayStart(t)
    /\ \E n \in 0 .. MaxLen, dontwait \in BOOLEAN :
        LET poll == ~HasBytes /\ (dontwait \/ n = 0 \/ nonblock)
        IN  /\ len' = [len EXCEPT ![t] = n]
            /\ nowait' = [nowait EXCEPT ![t] = poll]
            /\ Goto(t, IF HasBytes THEN "copy"
                       ELSE IF poll THEN "save" ELSE "enter")
    /\ call' = [call EXCEPT ![t] = "recv"]
    /\ econ' = [econ EXCEPT ![t] = Fetched]
    /\ UNCHANGED <<fd, netconn, last_to, wait, r, sz, known>>

\* Entry of atu_ioctl_r(FIONREAD): it tells what is left, or polls.
IoctlCall(t) ==
    /\ MayStart(t)
    /\ IF HasBytes
       THEN avail' = bytes_left /\ UNCHANGED <<pc, call, nowait>>
       ELSE /\ call' = [call EXCEPT ![t] = "ioctl"]
            /\ nowait' = [nowait EXCEPT ![t] = TRUE]
            /\ Goto(t, "save")
            /\ UNCHANGED avail
    /\ UNCHANGED <<fd, netconn, len, econ, last_to, wait, r, sz, sent, read,
                   asked, pbufs, seen>>

\* The timeout to put back.  atu_ioctl_r fetches its connection here.
Save(t) ==
    /\ pc[t] = "save"
    /\ last_to' = [last_to EXCEPT ![t] = rcv_timeout]
    /\ econ' = IF call[t] = "ioctl" THEN [econ EXCEPT ![t] = Fetched] ELSE econ
    /\ Goto(t, "poll")
    /\ UNCHANGED <<fd, netconn, call, len, nowait, wait, r, sz, known>>

SetPoll(t) ==
    /\ pc[t] = "poll"
    /\ rcv_timeout' = PollTimeout
    /\ Goto(t, "enter")
    /\ UNCHANGED <<fd, mbox, link, out, locals, known>>

\* esp_netconn_receive is called, and finds the timeout to wait with.
Enter(t) ==
    /\ pc[t] = "enter"
    /\ wait' = [wait EXCEPT ![t] = rcv_timeout]
    /\ Goto(t, "receive")
    /\ UNCHANGED <<fd, netconn, call, len, nowait, econ, last_to, r, sz, known>>

\* esp_netconn_receive returns: with a buffer, because the connection is
\* closed and everything was received, or because it may not wait longer.  On
\* a netconn that was never connected it waits like on a quiet one.
Receive(t) ==
    /\ pc[t] = "receive"
    /\ \/ /\ mbox # <<>>
          /\ pbuf' = Head(mbox) /\ mbox' = Tail(mbox)
          /\ r' = [r EXCEPT ![t] = "ok"]
       \/ /\ mbox = <<>> /\ link = "closed"
          /\ pbuf' = NoPbuf /\ UNCHANGED mbox
          /\ r' = [r EXCEPT ![t] = "closed"]
       \/ /\ mbox = <<>> /\ link # "closed" /\ wait[t] # Forever
          /\ pbuf' = NoPbuf /\ UNCHANGED mbox
          /\ r' = [r EXCEPT ![t] = "timeout"]
    /\ Goto(t, IF nowait[t] THEN "restore" ELSE "check")
    /\ UNCHANGED <<open, bytes_left, nonblock, nc_type, rcv_timeout, link, out,
                   call, len, nowait, econ, last_to, wait, sz, known>>

Restore(t) ==
    /\ pc[t] = "restore"
    /\ rcv_timeout' = Restored(t)
    /\ Goto(t, "check")
    /\ UNCHANGED <<fd, mbox, link, out, locals, known>>

RecvFails(t, on) == AtEnd(t, on) \/ r[t] = "closed" \/ pbuf = NoPbuf

\* atu_recv_r after receiving: it returns 0 at the end of the stream, -1 when
\* there is nothing, and else goes on with the buffer.
CheckRecv(t) ==
    /\ pc[t] = "check" /\ call[t] = "recv"
    /\ \E on \in esp_conn_is_active(econ[t]) :
       \/ /\ RecvFails(t, on)
          /\ Return(t)
          /\ UNCHANGED bytes_left
       \/ /\ ~RecvFails(t, on)
          /\ bytes_left' = pbuf.len
          /\ Goto(t, "copy")
          /\ UNCHANGED <<locals, seen>>
    /\ UNCHANGED <<open, pbuf, nonblock, nc_type, netconn, sent, read, asked,
                   avail, pbufs>>

\* atu_ioctl_r after receiving: it fails if the connection it fetched is not
\* active, and else tells the length of the buffer or 0.
CheckIoctl(t) ==
    /\ pc[t] = "check" /\ call[t] = "ioctl"
    /\ \E on \in esp_conn_is_active(econ[t]) :
       \/ /\ Inactive(t, on) \/ r[t] = "closed"
          /\ UNCHANGED <<bytes_left, avail>>
       \/ /\ ~Inactive(t, on) /\ r[t] # "closed"
          /\ bytes_left' = pbuf.len
          /\ avail' = pbuf.len
    /\ Return(t)
    /\ UNCHANGED <<open, pbuf, nonblock, nc_type, netconn, sent, read, asked,
                   pbufs>>

\* memcpy of as much as the caller wants from where the last call stopped.
Copy(t) ==
    /\ pc[t] = "copy"
    /\ LET n == IF bytes_left < len[t] THEN bytes_left ELSE len[t]
       IN  /\ sz' = [sz EXCEPT ![t] = n]
           /\ read' = read \o [i \in 1 .. n |-> Before + i]
    /\ Goto(t, "consume")
    /\ UNCHANGED <<fd, netconn, call, len, nowait, econ, last_to, wait, r, sent,
                   asked, avail, pbufs, seen>>

\* nf->bytes_left -= sz, and the buffer is freed when it is used up.
Consume(t) ==
    /\ pc[t] = "consume"
    /\ bytes_left' = Left(t)
    /\ IF Left(t) = 0
       THEN pbuf' = NoPbuf /\ pbufs' = pbufs - 1
       ELSE UNCHANGED <<pbuf, pbufs>>
    /\ avail' = IF avail > sz[t] THEN avail - sz[t] ELSE 0
    /\ Return(t)
    /\ UNCHANGED <<open, nonblock, nc_type, netconn, sent, read, asked>>

-----------------------------------------------------------------------------
(* Connecting and sending.                                                 *)

\* atu_connect_r: esp_netconn_connect_ex waits until the connection is up.  It
\* uses nothing that the other calls use, and may come while they wait.
Connect(t) ==
    /\ open /\ Idle(t)
    /\ ~active
    /\ Connects
    /\ UNCHANGED <<fd, rcv_timeout, mbox, out, pc, call, len, nowait, last_to,
                   wait, r, sz, sent, read, asked, avail, pbufs, late>>

SendCall(t) ==
    /\ MayStart(t)
    /\ \/ call' = [call EXCEPT ![t] = "send"] /\ Goto(t, "write")
       \/ call' = [call EXCEPT ![t] = "sendto"] /\ Goto(t, "look")
    /\ UNCHANGED <<fd, netconn, len, nowait, econ, last_to, wait, r, sz, known>>

\* esp_netconn_write takes the bytes, of which it may hold some back to fill
\* a packet, or fails: atu_send_r returns -1.
Write(t) ==
    /\ pc[t] = "write"
    /\ \/ /\ active
          /\ \E hold \in BOOLEAN :
                out' = IF hold /\ out = "none" THEN "held" ELSE out
          /\ Goto(t, "flush")
          /\ UNCHANGED <<locals, seen>>
       \/ Return(t) /\ UNCHANGED out
    /\ UNCHANGED <<fd, rcv_timeout, mbox, link, sent, read, asked, avail, pbufs>>

\* esp_netconn_flush sends what is held, or fails; atu_send_r returns the
\* number of bytes that it was given in any case.
Flush(t) ==
    /\ pc[t] = "flush"
    /\ out' \in {Flushed, IF out = "held" THEN "excused" ELSE out}
    /\ Return(t)
    /\ UNCHANGED <<fd, rcv_timeout, mbox, link, sent, read, asked, avail, pbufs>>

\* atu_sendto_r connects first if the connection is not active; if that
\* fails, so does it.
Look(t) ==
    /\ pc[t] = "look"
    /\ \/ /\ active
          /\ Goto(t, "sendto")
          /\ UNCHANGED <<link, locals, seen>>
       \/ /\ ~active
          /\ Connects
          /\ Goto(t, "sendto")
          /\ UNCHANGED <<call, len, nowait, last_to, wait, r, sz, late>>
       \/ /\ ~active
          /\ Return(t)
          /\ UNCHANGED link
    /\ UNCHANGED <<fd, rcv_timeout, mbox, out, sent, read, asked, avail, pbufs>>

\* esp_netconn_sendto keeps nothing; it fails if the connection is not active
\* any more.
SendTo(t) ==
    /\ pc[t] = "sendto"
    /\ Return(t)
    /\ UNCHANGED <<fd, netconn, sent, read, asked, avail, pbufs>>

-----------------------------------------------------------------------------
(* Options, and the end of the descriptor.                                 *)

\* atu_setsockopt_r(SO_RCVTIMEO).  Its int form may be -1: always poll.
SetTimeout(t) ==
    /\ MayStart(t)
    /\ \E v \in {Forever, Finite, Poll} : rcv_timeout' = v /\ asked' = v
    /\ UNCHANGED <<fd, mbox, link, out, pc, locals, sent, read, avail, pbufs,
                   seen>>

\* atu_fcntl_r(F_SETFL).
SetFlags(t) ==
    /\ MayStart(t)
    /\ nonblock' \in BOOLEAN
    /\ UNCHANGED <<open, pbuf, bytes_left, nc_type, netconn, pc, locals, known>>

\* atu_close_r: the netconn goes with its mailbox, the buffer in hand is
\* freed.  file_flag and nc_type stay for the next user of the descriptor.  The
\* code does not look whether a call uses them, and nothing is said of what
\* such a call does next.
Close ==
    /\ open
    /\ OneAtATime => AllIdle
    /\ pc' = [t \in Tasks |-> IF Idle(t) THEN "idle" ELSE "gone"]
    /\ open' = FALSE /\ link' = "closed" /\ out' = "none"
    /\ pbuf' = NoPbuf /\ bytes_left' = 0
    /\ mbox' = <<>>
    /\ pbufs' = pbufs - Len(mbox) - InHand
    /\ avail' = 0
    /\ UNCHANGED <<nonblock, nc_type, rcv_timeout, locals, sent, read, asked,
                   seen>>

\* atu_conn2fd gives the free descriptor to another netconn.
Reopen ==
    /\ ~open
    /\ open' = TRUE
    /\ rcv_timeout' = Forever /\ asked' = Forever
    /\ sent' = 0 /\ read' = <<>>
    /\ UNCHANGED <<pbuf, bytes_left, nonblock, mbox, out, pc, locals, avail,
                   pbufs, seen>>

\* To a new one, whose type atu_socket sets ...
Socket == Reopen /\ link' = "new" /\ nc_type' \in {"tcp", "udp"}

\* ... or to one that a client is connected to, and atu_accept_r leaves the
\* type that is there.
Accept == Reopen /\ link' = "up" /\ UNCHANGED nc_type

-----------------------------------------------------------------------------
Step(t) ==
    \/ Save(t) \/ SetPoll(t) \/ Enter(t) \/ Receive(t) \/ Restore(t)
    \/ CheckRecv(t) \/ CheckIoctl(t) \/ Copy(t) \/ Consume(t)
    \/ Write(t) \/ Flush(t) \/ Look(t) \/ SendTo(t)

Start(t) ==
    \/ RecvCall(t) \/ IoctlCall(t) \/ SetTimeout(t) \/ SetFlags(t)
    \/ Connect(t) \/ SendCall(t)

Esp == PeerCloses \/ \E n \in 1 .. MaxPbuf : Deliver(n)

Next == Esp \/ Close \/ Socket \/ Accept \/ \E t \in Tasks : Start(t) \/ Step(t)

Spec == Init /\ [][Next]_vars

\* A task that is ready runs, and a timeout that was set expires.
FairSpec == Spec /\ \A t \in Tasks : WF_vars(Step(t))

-----------------------------------------------------------------------------
(* What makes reading correct.                                             *)

\* Every variable has its type; bytes_left never wraps below 0.
TypeOK ==
    /\ {open, nonblock} \subseteq BOOLEAN
    /\ link \in {"new", "up", "closed"}
    /\ out \in {"none", "held", "excused"}
    /\ pbuf \in [last : 0 .. MaxBytes, len : 0 .. MaxPbuf]
    /\ bytes_left \in 0 .. MaxPbuf
    /\ nc_type \in {"tcp", "udp"}
    /\ rcv_timeout \in {Forever, Poll, Finite}
    /\ asked \in {Forever, Poll, Finite}
    /\ mbox \in Seq([last : 1 .. MaxBytes, len : 1 .. MaxPbuf])
    /\ pc \in [Tasks -> Pcs]
    /\ call \in [Tasks -> {"none", "recv", "ioctl", "send", "sendto"}]
    /\ len \in [Tasks -> 0 .. MaxLen]
    /\ {nowait, late, joined} \subseteq [Tasks -> BOOLEAN]
    /\ econ \in [Tasks -> {"null", "now", "old"}]
    /\ {last_to, wait} \subseteq [Tasks -> {Forever, Poll, Finite}]
    /\ r \in [Tasks -> {"ok", "timeout", "closed"}]
    /\ sz \in [Tasks -> 0 .. MaxLen]
    /\ {sent, avail, pbufs} \subseteq 0 .. MaxBytes
    /\ read \in Seq(1 .. MaxBytes)

\* Bytes that the netconn still has.
Waiting == IF mbox = <<>> THEN 0 ELSE sent - (Head(mbox).last - Head(mbox).len)

\* Between calls no byte is lost: those not given to a caller yet are in the
\* buffer in hand or in the mailbox, whatever lengths callers asked for,
\* FIONREAD, failed calls and polls in between included.
NothingLost ==
    AllIdle /\ open => Len(read) + bytes_left + Waiting = sent

\* Between calls the packet buffers that are allocated are the ones in the
\* mailbox and the one in hand: atu_recv_r, atu_ioctl_r and atu_close_r free
\* every buffer once.
PbufsOwned ==
    AllIdle => pbufs = Len(mbox) + (IF pbuf = NoPbuf THEN 0 ELSE 1)

\* What FIONREAD told is still there for the next atu_recv_r, which gives it
\* without asking the netconn.
AvailableKept == AllIdle /\ avail > 0 => pbuf # NoPbuf /\ bytes_left >= avail

\* MSG_DONTWAIT is for its own operation only: esp_netconn_receive waits as
\* long as SO_RCVTIMEO says in the calls that may wait, and not at all in the
\* others.
DontWaitIsLocal ==
    [][\A t \in Tasks : pc[t] = "enter" /\ pc'[t] = "receive" =>
        wait'[t] = IF nowait[t] THEN Poll ELSE asked]_vars

\* What a call that returns may report: the end of the stream, or that there
\* is no connection.
MayEnd(t) == \E on \in esp_conn_is_active(econ[t]) : AtEnd(t, on)
MayFail(t) == \E on \in esp_conn_is_active(econ[t]) : Inactive(t, on)

\* atu_recv_r returns 0, for the end of the stream, and atu_ioctl_r fails with
\* EBADF on a connection that is up only if it was made while they waited: the
\* one they ask about was fetched before.  And at the end of the stream the
\* caller has every byte, unless one came between esp_netconn_receive and the
\* look at the connection.  Both windows are real: the first is open to a
\* netconn that is connected in it, the second to a connection that delivers
\* and closes in it.
EndOfStream ==
    [][\A t \in Tasks : pc[t] = "check" /\ pc'[t] = "idle" =>
        /\ call[t] = "recv" /\ MayEnd(t) =>
            (active => joined[t]) /\ (late[t] \/ Len(read) = sent)
        /\ call[t] = "ioctl" /\ MayFail(t) => (active => joined[t])]_vars

\* A call that may not wait returns, and so do calls that send; any call
\* returns once the connection is closed and nobody connects it again.
CallsEnd ==
    \A t \in Tasks :
        /\ ~Idle(t) /\ (nowait[t] \/ call[t] \in {"send", "sendto"}) ~> Idle(t)
        /\ ~Idle(t) /\ link = "closed" ~> Idle(t) \/ active

\* What atu_send_r reported as sent the netconn has sent, and does not hold
\* back until a later call, unless a flush failed, which it does not look at.
NothingHeld == AllIdle => out # "held"

Promise == INSTANCE ByteStream

\* The reader of a descriptor gets the stream of its connection.
KeepsPromise == Promise!Spec
=============================================================================
