---------------------------- MODULE SocketIoProofs ----------------------------
(***************************************************************************)
(* What holds of SocketIo for any number of tasks, bytes and lengths: that *)
(* atu_send_r leaves nothing held whatever calls overlap, and, when        *)
(* callers make one call at a time, that no byte and no packet buffer is   *)
(* lost, that a call which may not wait leaves the timeout of the others   *)
(* alone, and that the reader gets the stream of ByteStream.               *)
(***************************************************************************)
EXTENDS SocketIo, SequenceTheorems, TLAPS

Buffer == [last : 1 .. MaxBytes, len : 1 .. MaxPbuf]

\* How many of s bytes were taken from mailbox m: all before its first buffer.
Taken(m, s) == IF m = <<>> THEN s ELSE m[1].last - m[1].len

\* The buffers of m follow each other without a gap up to byte s, and each
\* has a byte at least, so that there are no more of them than bytes.
Chain(m, s) ==
    /\ \A i \in 1 .. Len(m) :
        /\ m[i].len <= m[i].last
        /\ m[i].last + (Len(m) - i) <= s
    /\ \A i \in 1 .. Len(m) - 1 : m[i + 1].last - m[i + 1].len = m[i].last
    /\ m # <<>> => m[Len(m)].last = s

Received == Taken(mbox, sent)

MboxInv == Chain(mbox, sent)

\* Where a call holds nothing of the descriptor, where it has no buffer yet,
\* and where it has what esp_netconn_receive gave it.
Aside == {"idle", "write", "flush", "look", "sendto", "gone"}
Asking == {"save", "poll", "enter", "receive"}
Looking == {"restore", "check"}

\* The descriptor has no buffer, and everything received was read, ...
Empty == pbuf = NoPbuf /\ bytes_left = 0 /\ Len(read) = Received

\* ... or the last buffer received, of which bytes_left were not read, ...
Partly ==
    /\ pbuf.last = Received /\ bytes_left \in 1 .. pbuf.len
    /\ Len(read) + bytes_left = Received

\* ... or one of which nothing was read, and bytes_left says nothing yet, ...
Fresh ==
    /\ pbuf.last = Received /\ pbuf.len >= 1 /\ bytes_left = 0
    /\ Len(read) + pbuf.len = Received

\* ... or one of which sz bytes were read that bytes_left still counts.
Copied(t) ==
    /\ pbuf.last = Received /\ bytes_left \in 1 .. pbuf.len
    /\ sz[t] <= bytes_left /\ sz[t] <= Len(read)
    /\ Len(read) + bytes_left = Received + sz[t]

\* One call at a time.
OneCall == \A t, u \in Tasks : Idle(t) \/ Idle(u) \/ t = u

\* A free descriptor has nothing, and nobody uses it.
Closed ==
    ~open => /\ AllIdle /\ pbuf = NoPbuf /\ bytes_left = 0
             /\ mbox = <<>> /\ avail = 0

\* What the descriptor has, by where the call is.
HandInv ==
    /\ open /\ (\A t \in Tasks : pc[t] \in Aside) => Empty \/ Partly
    /\ \A t \in Tasks :
        /\ pc[t] \in Asking => Empty
        /\ pc[t] \in Looking => IF r[t] = "ok" THEN Fresh ELSE Empty
        /\ pc[t] = "copy" => Partly
        /\ pc[t] = "consume" => Copied(t)

\* Every buffer is in the mailbox or in hand, at every step; FIONREAD told of
\* no more than is left.
CountInv ==
    /\ pbufs = Len(mbox) + (IF pbuf = NoPbuf THEN 0 ELSE 1)
    /\ avail <= bytes_left

\* The netconn polls only inside a call that may not wait, which knows the
\* timeout to put back.
Polling(t) == pc[t] \in {"enter", "receive", "restore"} /\ nowait[t]

TimeInv ==
    /\ (\A t \in Tasks : ~Polling(t)) => rcv_timeout = asked
    /\ \A t \in Tasks :
        /\ Polling(t) => rcv_timeout = Poll
        /\ Polling(t) \/ pc[t] = "poll" => last_to[t] = asked
        /\ pc[t] \in {"save", "poll", "restore"} => nowait[t]

\* After a receive that gave no buffer the mailbox is empty until something
\* arrives.
LateInv ==
    \A t \in Tasks :
        pc[t] \in Looking /\ r[t] # "ok" /\ ~late[t] => mbox = <<>>

IInv ==
    /\ TypeOK /\ MboxInv /\ OneCall /\ Closed /\ HandInv /\ CountInv /\ TimeInv
    /\ LateInv

-----------------------------------------------------------------------------
(* The mailbox.                                                            *)

\* Bytes are numbered, and a buffer has one at least.
LEMMA BufferNumbers ==
    ASSUME NEW b \in Buffer
    PROVE  b.last \in Nat \ {0} /\ b.len \in Nat \ {0}
BY BoundsNat DEF Buffer

\* What adding a buffer to a sequence gives.
LEMMA AddLast ==
    ASSUME NEW m \in Seq(Buffer), NEW e \in Buffer
    PROVE  /\ Append(m, e) \in Seq(Buffer) /\ Append(m, e) # <<>>
           /\ Len(Append(m, e)) = Len(m) + 1 /\ Len(m) \in Nat
           /\ \A i \in 1 .. Len(m) : Append(m, e)[i] = m[i] /\ m[i] \in Buffer
           /\ Append(m, e)[Len(m) + 1] = e
BY AppendProperties, LenProperties, ElementOfSeq

\* What taking the first buffer leaves.
LEMMA TakeFirst ==
    ASSUME NEW m \in Seq(Buffer), m # <<>>
    PROVE  /\ Head(m) \in Buffer /\ Head(m) = m[1]
           /\ Len(m) \in Nat \ {0} /\ Len(Tail(m)) = Len(m) - 1
           /\ Tail(m) \in Seq(Buffer)
           /\ Tail(m) = <<>> <=> Len(m) = 1
           /\ \A i \in 1 .. Len(m) - 1 :
                Tail(m)[i] = m[i + 1] /\ m[i + 1] \in Buffer
<1>1. /\ Head(m) \in Buffer /\ Tail(m) \in Seq(Buffer)
      /\ Len(Tail(m)) = Len(m) - 1
      /\ \A i \in 1 .. Len(Tail(m)) : Tail(m)[i] = m[i + 1]
    BY HeadTailProperties
<1>2. Len(m) \in Nat \ {0}
    BY EmptySeq, LenProperties
<1>3. Head(m) = m[1]
    BY SMT
<1>4. Tail(m) = <<>> <=> Len(m) = 1
  <2>1. Tail(m) = <<>> => Len(m) - 1 = 0
    BY <1>1, EmptySeq
  <2>2. Len(m) = 1 => ~ Len(Tail(m)) \in Nat \ {0}
    BY <1>1
  <2> QED
    BY <1>1, <1>2, <2>1, <2>2, EmptySeq
<1>5. \A i \in 1 .. Len(m) - 1 : m[i + 1] \in Buffer
  <2> SUFFICES ASSUME NEW i \in 1 .. Len(m) - 1 PROVE m[i + 1] \in Buffer
    OBVIOUS
  <2>1. i + 1 \in 1 .. Len(m)
    BY <1>2
  <2> QED
    BY <2>1, ElementOfSeq
<1> QED
    BY <1>1, <1>2, <1>3, <1>4, <1>5

\* A mailbox and what was taken from it make up the bytes that arrived, and
\* each buffer in it is one of the others at least.
LEMMA ChainBounds ==
    ASSUME NEW m \in Seq(Buffer), NEW s \in Nat, Chain(m, s)
    PROVE  /\ Taken(m, s) \in Nat
           /\ Len(m) \in Nat /\ Taken(m, s) + Len(m) <= s
<1>1. CASE m = <<>>
    BY <1>1, EmptySeq DEF Taken
<1>2. CASE m # <<>>
  <2>1. m[1] \in Buffer /\ 1 \in 1 .. Len(m) /\ Len(m) \in Nat \ {0}
    BY <1>2, TakeFirst
  <2>2. m[1].len <= m[1].last /\ m[1].last + (Len(m) - 1) <= s
    BY <2>1 DEF Chain
  <2>3. m[1].last \in Nat /\ m[1].len \in Nat \ {0}
    BY <2>1, BufferNumbers
  <2> QED
    BY <1>2, <2>1, <2>2, <2>3 DEF Taken
<1> QED
    BY <1>1, <1>2

\* A buffer that arrives continues the chain, and none is taken by it.
LEMMA ChainGrows ==
    ASSUME NEW m \in Seq(Buffer), NEW s \in Nat, Chain(m, s),
           NEW n \in 1 .. MaxPbuf, s + n <= MaxBytes
    PROVE  LET e == [last |-> s + n, len |-> n]
           IN  /\ Append(m, e) \in Seq(Buffer) /\ Append(m, e) # <<>>
               /\ Len(Append(m, e)) = Len(m) + 1
               /\ Chain(Append(m, e), s + n)
               /\ Taken(Append(m, e), s + n) = Taken(m, s)
<1> DEFINE e == [last |-> s + n, len |-> n]
           a == Append(m, e)
<1>1. e \in Buffer /\ e.last = s + n /\ e.len = n /\ n \in Nat \ {0}
    BY BoundsNat DEF Buffer
<1> HIDE DEF e
<1>2. /\ a \in Seq(Buffer) /\ a # <<>> /\ Len(a) = Len(m) + 1
      /\ Len(m) \in Nat
      /\ \A i \in 1 .. Len(m) : a[i] = m[i] /\ m[i] \in Buffer
      /\ a[Len(m) + 1] = e
    BY <1>1, AddLast
<1>3. m # <<>> => Len(m) >= 1
    BY EmptySeq
<1> HIDE DEF a
<1>4. \A i \in 1 .. Len(a) :
        a[i].len <= a[i].last /\ a[i].last + (Len(a) - i) <= s + n
  <2> SUFFICES ASSUME NEW i \in 1 .. Len(a)
               PROVE  a[i].len <= a[i].last /\ a[i].last + (Len(a) - i) <= s + n
    OBVIOUS
  <2>1. CASE i = Len(m) + 1
    BY <1>1, <1>2, <2>1
  <2>2. CASE i \in 1 .. Len(m)
    <3>1. a[i] = m[i] /\ m[i].last \in Nat
        BY <1>2, <2>2, BufferNumbers
    <3>2. m[i].len <= m[i].last /\ m[i].last + (Len(m) - i) <= s
        BY <2>2 DEF Chain
    <3> QED
        BY <1>1, <1>2, <2>2, <3>1, <3>2
  <2> QED
    BY <1>2, <2>1, <2>2
<1>5. \A i \in 1 .. Len(a) - 1 : a[i + 1].last - a[i + 1].len = a[i].last
  <2> SUFFICES ASSUME NEW i \in 1 .. Len(m)
               PROVE  a[i + 1].last - a[i + 1].len = a[i].last
    BY <1>2, SMTT(30)
  <2>1. CASE i = Len(m)
    <3>1. m # <<>> /\ a[i] = m[Len(m)] /\ a[i + 1] = e
        BY <1>2, <2>1, EmptySeq
    <3> QED
        BY <1>1, <3>1 DEF Chain
  <2>2. CASE i \in 1 .. Len(m) - 1
    <3>1. i + 1 \in 1 .. Len(m) /\ a[i] = m[i] /\ a[i + 1] = m[i + 1]
        BY <1>2, <2>2
    <3> QED
        BY <2>2, <3>1 DEF Chain
  <2> QED
    BY <1>2, <2>1, <2>2
<1>6. Chain(a, s + n)
    BY <1>1, <1>2, <1>4, <1>5 DEF Chain
<1>7. Taken(a, s + n) = Taken(m, s)
  <2>1. CASE m = <<>>
    <3>1. a[1] = e
        BY <1>2, <2>1, EmptySeq
    <3> QED
        BY <1>1, <1>2, <2>1, <3>1 DEF Taken
  <2>2. CASE m # <<>>
    BY <1>2, <1>3, <2>2 DEF Taken
  <2> QED
    BY <2>1, <2>2
<1> QED
    BY <1>1, <1>2, <1>6, <1>7 DEF e, a

\* Taking the first buffer leaves a chain, and it holds the bytes that follow
\* what was taken before.
LEMMA ChainShrinks ==
    ASSUME NEW m \in Seq(Buffer), NEW s \in Nat, Chain(m, s), m # <<>>
    PROVE  /\ Tail(m) \in Seq(Buffer) /\ Len(Tail(m)) = Len(m) - 1
           /\ Len(m) \in Nat \ {0} /\ Head(m) \in Buffer
           /\ Chain(Tail(m), s)
           /\ Taken(Tail(m), s) = Head(m).last
           /\ Taken(m, s) = Head(m).last - Head(m).len
<1> DEFINE q == Tail(m)
<1>1. /\ Head(m) \in Buffer /\ Head(m) = m[1] /\ Len(m) \in Nat \ {0}
      /\ Len(q) = Len(m) - 1 /\ q \in Seq(Buffer)
      /\ q = <<>> <=> Len(m) = 1
      /\ \A i \in 1 .. Len(m) - 1 : q[i] = m[i + 1] /\ m[i + 1] \in Buffer
    BY TakeFirst
<1> HIDE DEF q
<1>2. \A i \in 1 .. Len(q) :
        q[i].len <= q[i].last /\ q[i].last + (Len(q) - i) <= s
  <2> SUFFICES ASSUME NEW i \in 1 .. Len(m) - 1
               PROVE  q[i].len <= q[i].last /\ q[i].last + (Len(q) - i) <= s
    BY <1>1
  <2>1. i + 1 \in 1 .. Len(m) /\ q[i] = m[i + 1] /\ m[i + 1].last \in Nat
    BY <1>1, BufferNumbers
  <2>2. m[i + 1].len <= m[i + 1].last /\ m[i + 1].last + (Len(m) - (i + 1)) <= s
    BY <2>1 DEF Chain
  <2> QED
    BY <1>1, <2>1, <2>2
<1>3. \A i \in 1 .. Len(q) - 1 : q[i + 1].last - q[i + 1].len = q[i].last
  <2> SUFFICES ASSUME NEW i \in 1 .. Len(m) - 2
               PROVE  q[i + 1].last - q[i + 1].len = q[i].last
    BY <1>1
  <2>1. /\ i \in 1 .. Len(m) - 1 /\ i + 1 \in 1 .. Len(m) - 1
        /\ q[i] = m[i + 1] /\ q[i + 1] = m[(i + 1) + 1]
    BY <1>1
  <2> QED
    BY <2>1 DEF Chain
<1>4. q # <<>> => q[Len(q)].last = s
    BY <1>1 DEF Chain
<1>5. Chain(q, s)
    BY <1>2, <1>3, <1>4 DEF Chain
<1>6. Taken(q, s) = m[1].last
  <2>1. CASE q = <<>>
    BY <1>1, <2>1 DEF Taken, Chain
  <2>2. CASE q # <<>>
    <3>1. 1 \in 1 .. Len(m) - 1 /\ q[1] = m[1 + 1]
        BY <1>1, <2>2
    <3> QED
        BY <2>2, <3>1 DEF Taken, Chain
  <2> QED
    BY <2>1, <2>2
<1>7. Taken(m, s) = m[1].last - m[1].len
    BY DEF Taken
<1> QED
    BY <1>1, <1>5, <1>6, <1>7 DEF q
-----------------------------------------------------------------------------
(* The one call.                                                           *)

\* The task that makes a call is the only one.
LEMMA Alone ==
    ASSUME OneAtATime, OneCall, Closed, NEW t \in Tasks, MayStart(t) \/ ~Idle(t)
    PROVE  open /\ \A u \in Tasks : u # t => pc[u] = "idle"
BY DEF OneCall, Closed, MayStart, Idle, AllIdle

\* A step of that call leaves it the only one, and the descriptor open.
LEMMA StaysAlone ==
    ASSUME OneAtATime, TypeOK, OneCall, Closed, NEW t \in Tasks,
           MayStart(t) \/ ~Idle(t), NEW l \in Pcs, Goto(t, l), open' = open
    PROVE  /\ OneCall' /\ Closed' /\ open /\ open'
           /\ pc' \in [Tasks -> Pcs] /\ pc'[t] = l
           /\ \A u \in Tasks : u # t => pc[u] = "idle" /\ pc'[u] = "idle"
<1>1. open /\ \A u \in Tasks : u # t => pc[u] = "idle"
    BY Alone
<1>2. /\ pc' \in [Tasks -> Pcs] /\ pc'[t] = l
      /\ \A u \in Tasks : u # t => pc'[u] = "idle"
    BY <1>1 DEF Goto, TypeOK
<1> QED
    BY <1>1, <1>2 DEF OneCall, Closed, Idle

\* Keeping the timeout of the netconn in last_to.
LEMMA SaveKeeps ==
    ASSUME OneAtATime, IInv, NEW t \in Tasks, Save(t)
    PROVE  IInv'
<1>1. /\ OneCall' /\ Closed' /\ open /\ open'
      /\ pc' \in [Tasks -> Pcs] /\ pc'[t] = "poll"
      /\ \A u \in Tasks : u # t => pc[u] = "idle" /\ pc'[u] = "idle"
    BY StaysAlone DEF Save, IInv, Idle, Pcs, fd
<1>2. TypeOK'
  <2>1. econ' \in [Tasks -> {"null", "now", "old"}]
    BY DEF IInv, TypeOK, Save, Fetched
  <2>2. last_to' \in [Tasks -> {Forever, Poll, Finite}]
    BY DEF IInv, TypeOK, Save
  <2>3. /\ UNCHANGED <<open, pbuf, bytes_left, nonblock, nc_type>>
        /\ UNCHANGED <<rcv_timeout, mbox, link, out>>
        /\ UNCHANGED <<call, len, nowait, wait, r, sz>>
        /\ UNCHANGED <<sent, read, asked, avail, pbufs, late, joined>>
    BY DEF Save, fd, netconn, known, seen
  <2> QED
    BY <1>1, <2>1, <2>2, <2>3 DEF IInv, TypeOK
<1>3. MboxInv'
    BY DEF IInv, MboxInv, Save, netconn, known, seen
<1>4. HandInv'
    BY <1>1 DEF IInv, HandInv, Save, fd, netconn, known, seen, Empty, Partly, Fresh,
        Copied, Received, Aside, Asking, Looking
<1>5. CountInv'
    BY DEF IInv, CountInv, Save, fd, netconn, known, seen
<1>6. TimeInv'
    BY <1>1 DEF IInv, TimeInv, Save, fd, netconn, known, seen, Polling, TypeOK
<1>7. LateInv'
    BY <1>1 DEF IInv, LateInv, Save, fd, netconn, known, seen, Looking
<1> QED
    BY <1>1, <1>2, <1>3, <1>4, <1>5, <1>6, <1>7 DEF IInv

\* What esp_netconn_receive gives follows what was read, and what it does not
\* give is not there.
LEMMA ReceiveKeeps ==
    ASSUME OneAtATime, IInv, NEW t \in Tasks, Receive(t)
    PROVE  IInv'
<1> DEFINE l == IF nowait[t] THEN "restore" ELSE "check"
<1>1. /\ OneCall' /\ Closed' /\ open /\ open'
      /\ pc' \in [Tasks -> Pcs] /\ pc'[t] = l
      /\ \A u \in Tasks : u # t => pc[u] = "idle" /\ pc'[u] = "idle"
    BY StaysAlone DEF Receive, IInv, Idle, Pcs
<1>2. Empty
    BY DEF IInv, HandInv, Receive, Asking
<1>3. /\ UNCHANGED <<open, bytes_left, nonblock, nc_type, rcv_timeout, link, out>>
      /\ UNCHANGED <<call, len, nowait, econ, last_to, wait, sz>>
      /\ UNCHANGED <<sent, read, asked, avail, pbufs, late, joined>>
    BY DEF Receive, known, seen
<1>6. TimeInv'
    BY <1>1, ZenonT(40) DEF IInv, TimeInv, Receive, known, seen, Polling, TypeOK
<1>4. CASE mbox # <<>>
  <2>1. /\ mbox \in Seq(Buffer) /\ sent \in Nat /\ Chain(mbox, sent)
        /\ mbox' = Tail(mbox) /\ pbuf' = Head(mbox) /\ sent' = sent
        /\ r' = [r EXCEPT ![t] = "ok"]
    BY <1>4, SMTT(30) DEF IInv, TypeOK, MboxInv, Receive, Buffer, known, seen
  <2>2. /\ mbox' \in Seq(Buffer) /\ Len(mbox') = Len(mbox) - 1
        /\ Len(mbox) \in Nat \ {0} /\ pbuf' \in Buffer
        /\ Chain(mbox', sent')
        /\ Taken(mbox', sent') = pbuf'.last
        /\ Taken(mbox, sent) = pbuf'.last - pbuf'.len
    BY <1>4, <2>1, ChainShrinks
  <2>3. /\ pbuf'.last \in Nat \ {0} /\ pbuf'.len \in Nat \ {0}
    BY <2>2, BufferNumbers
  <2>4. pbuf' \in [last : 0 .. MaxBytes, len : 0 .. MaxPbuf]
    BY <2>2, BoundsNat DEF Buffer
  <2>5. r' \in [Tasks -> {"ok", "timeout", "closed"}] /\ r'[t] = "ok"
    BY <2>1 DEF IInv, TypeOK
  <2>6. TypeOK'
    BY <1>1, <1>3, <2>2, <2>4, <2>5 DEF IInv, TypeOK, Buffer
  <2>7. MboxInv'
    BY <2>2 DEF MboxInv
  <2>8. Fresh'
    BY <1>2, <1>3, <2>2, <2>3 DEF Empty, Fresh, Received
  <2>9. HandInv'
    BY <1>1, <2>5, <2>8 DEF HandInv, Aside, Asking, Looking
  <2>10. CountInv'
    BY <1>2, <2>2, <2>3 DEF IInv, CountInv, Receive, known, seen, Empty, NoPbuf
  <2>11. LateInv'
    BY <1>1, <2>5 DEF LateInv, Looking
  <2> QED
    BY <1>1, <1>6, <2>6, <2>7, <2>9, <2>10, <2>11 DEF IInv
<1>5. CASE mbox = <<>>
  <2>1. /\ mbox' = mbox /\ sent' = sent /\ read' = read /\ pbuf' = NoPbuf
        /\ r' \in [Tasks -> {"ok", "timeout", "closed"}] /\ r'[t] # "ok"
    BY <1>5 DEF IInv, TypeOK, Receive, known, seen
  <2>4. TypeOK'
    BY <1>1, <1>2, <2>1 DEF IInv, TypeOK, Receive, known, seen, Empty
  <2>5. MboxInv'
    BY <2>1 DEF IInv, MboxInv
  <2>6. HandInv'
    BY <1>1, <1>2, <2>1 DEF HandInv, Receive, Empty, Received, Aside, Asking,
        Looking
  <2>7. CountInv'
    BY <1>2, <2>1 DEF IInv, CountInv, Receive, known, seen, Empty, NoPbuf
  <2>8. LateInv'
    BY <1>1, <1>5, <2>1 DEF LateInv, Looking
  <2> QED
    BY <1>1, <1>6, <2>4, <2>5, <2>6, <2>7, <2>8 DEF IInv
<1> QED
    BY <1>4, <1>5
\* Calling esp_netconn_receive.
LEMMA EnterKeeps ==
    ASSUME OneAtATime, IInv, NEW t \in Tasks, Enter(t)
    PROVE  IInv'
<1>1. /\ OneCall' /\ Closed' /\ open /\ open'
      /\ pc' \in [Tasks -> Pcs] /\ pc'[t] = "receive"
      /\ \A u \in Tasks : u # t => pc[u] = "idle" /\ pc'[u] = "idle"
    BY StaysAlone DEF Enter, IInv, Idle, Pcs, fd
<1>2. /\ UNCHANGED <<open, pbuf, bytes_left, nonblock, nc_type>>
      /\ UNCHANGED <<rcv_timeout, mbox, link, out>>
      /\ UNCHANGED <<call, len, nowait, econ, last_to, r, sz>>
      /\ UNCHANGED <<sent, read, asked, avail, pbufs, late, joined>>
    BY DEF Enter, fd, netconn, known, seen
<1>3. wait' \in [Tasks -> {Forever, Poll, Finite}]
    BY DEF IInv, TypeOK, Enter
<1>4. TypeOK'
    BY <1>1, <1>2, <1>3 DEF IInv, TypeOK
<1>5. MboxInv'
    BY <1>2 DEF IInv, MboxInv
<1>6. HandInv'
    BY <1>1, <1>2 DEF IInv, HandInv, Enter, Empty, Received, Aside, Asking,
        Looking
<1>7. CountInv'
    BY <1>2 DEF IInv, CountInv
<1>8. TimeInv'
    BY <1>1, <1>2 DEF IInv, TimeInv, Enter, Polling
<1>9. LateInv'
    BY <1>1 DEF LateInv, Looking
<1> QED
    BY <1>1, <1>4, <1>5, <1>6, <1>7, <1>8, <1>9 DEF IInv

\* The timeout of the netconn is changed for the one call there is.
LEMMA SetPollKeeps ==
    ASSUME OneAtATime, IInv, NEW t \in Tasks, SetPoll(t)
    PROVE  IInv'
<1>1. /\ OneCall' /\ Closed' /\ open /\ open'
      /\ pc' \in [Tasks -> Pcs] /\ pc'[t] = "enter"
      /\ \A u \in Tasks : u # t => pc[u] = "idle" /\ pc'[u] = "idle"
    BY StaysAlone DEF SetPoll, IInv, Idle, Pcs, fd
<1>2. /\ UNCHANGED <<open, pbuf, bytes_left, nonblock, nc_type>>
      /\ UNCHANGED <<mbox, link, out>>
      /\ UNCHANGED <<call, len, nowait, econ, last_to, wait, r, sz>>
      /\ UNCHANGED <<sent, read, asked, avail, pbufs, late, joined>>
      /\ rcv_timeout' = Poll
    BY DEF SetPoll, fd, locals, known, seen, PollTimeout
<1>4. TypeOK'
    BY <1>1, <1>2 DEF IInv, TypeOK
<1>5. MboxInv'
    BY <1>2 DEF IInv, MboxInv
<1>6. HandInv'
    BY <1>1, <1>2 DEF IInv, HandInv, SetPoll, Empty, Received, Aside, Asking,
        Looking
<1>7. CountInv'
    BY <1>2 DEF IInv, CountInv
<1>8. TimeInv'
    BY <1>1, <1>2 DEF IInv, TimeInv, SetPoll, Polling
<1>9. LateInv'
    BY <1>1 DEF LateInv, Looking
<1> QED
    BY <1>1, <1>4, <1>5, <1>6, <1>7, <1>8, <1>9 DEF IInv

\* It is put back to what was asked for.
LEMMA RestoreKeeps ==
    ASSUME OneAtATime, IInv, NEW t \in Tasks, Restore(t)
    PROVE  IInv'
<1>1. /\ OneCall' /\ Closed' /\ open /\ open'
      /\ pc' \in [Tasks -> Pcs] /\ pc'[t] = "check"
      /\ \A u \in Tasks : u # t => pc[u] = "idle" /\ pc'[u] = "idle"
    BY StaysAlone DEF Restore, IInv, Idle, Pcs, fd
<1>2. /\ UNCHANGED <<open, pbuf, bytes_left, nonblock, nc_type>>
      /\ UNCHANGED <<mbox, link, out>>
      /\ UNCHANGED <<call, len, nowait, econ, last_to, wait, r, sz>>
      /\ UNCHANGED <<sent, read, asked, avail, pbufs, late, joined>>
    BY DEF Restore, fd, locals, known, seen
<1>3. rcv_timeout' = asked
    BY DEF IInv, TimeInv, Polling, Restore, Restored
<1>4. TypeOK'
    BY <1>1, <1>2, <1>3 DEF IInv, TypeOK
<1>5. MboxInv'
    BY <1>2 DEF IInv, MboxInv
<1>6. HandInv'
    BY <1>1, <1>2 DEF IInv, HandInv, Restore, Empty, Fresh, Received, Aside,
        Asking, Looking
<1>7. CountInv'
    BY <1>2 DEF IInv, CountInv
<1>8. TimeInv'
    BY <1>1, <1>2, <1>3 DEF TimeInv, Polling
<1>9. LateInv'
    BY <1>1, <1>2 DEF IInv, LateInv, Looking, Restore
<1> QED
    BY <1>1, <1>4, <1>5, <1>6, <1>7, <1>8, <1>9 DEF IInv

\* What the return of a call leaves of its locals.
LEMMA ReturnTypes ==
    ASSUME TypeOK, NEW t \in Tasks, Return(t)
    PROVE  /\ call' \in [Tasks -> {"none", "recv", "ioctl", "send", "sendto"}]
           /\ len' \in [Tasks -> 0 .. MaxLen]
           /\ {nowait', late', joined'} \subseteq [Tasks -> BOOLEAN]
           /\ econ' \in [Tasks -> {"null", "now", "old"}]
           /\ last_to' \in [Tasks -> {Forever, Poll, Finite}]
           /\ wait' \in [Tasks -> {Forever, Poll, Finite}]
           /\ r' \in [Tasks -> {"ok", "timeout", "closed"}]
           /\ sz' \in [Tasks -> 0 .. MaxLen]
<1>1. 0 \in 0 .. MaxLen
    BY BoundsNat
<1> QED
    BY <1>1 DEF TypeOK, Return

\* When the only call has returned, the descriptor is as it is between calls.
LEMMA ReturnKeeps ==
    ASSUME OneAtATime, IInv, NEW t \in Tasks, ~Idle(t), Return(t), open' = open,
           Empty' \/ Partly', rcv_timeout' = asked'
    PROVE  /\ OneCall' /\ Closed' /\ pc' \in [Tasks -> Pcs]
           /\ HandInv' /\ TimeInv' /\ LateInv'
<1>1. /\ OneCall' /\ Closed' /\ open /\ open'
      /\ pc' \in [Tasks -> Pcs] /\ pc'[t] = "idle"
      /\ \A u \in Tasks : u # t => pc[u] = "idle" /\ pc'[u] = "idle"
    BY StaysAlone DEF Return, IInv, Pcs
<1>2. \A u \in Tasks : pc'[u] = "idle"
    BY <1>1
<1>3. HandInv'
    BY <1>2 DEF HandInv, Aside, Asking, Looking
<1>4. TimeInv'
    BY <1>2 DEF TimeInv, Polling
<1>5. LateInv'
    BY <1>2 DEF LateInv, Looking
<1> QED
    BY <1>1, <1>3, <1>4, <1>5

\* A call that did not ask to poll, or has put the timeout back, sees the
\* timeout that was asked for.
LEMMA TimeoutIsAsked ==
    ASSUME OneAtATime, IInv, NEW t \in Tasks, MayStart(t) \/ ~Idle(t),
           ~Polling(t)
    PROVE  rcv_timeout = asked
<1>1. \A u \in Tasks : u # t => pc[u] = "idle"
    BY Alone DEF IInv
<1> QED
    BY <1>1 DEF IInv, TimeInv, Polling
\* In atu_recv_r a receive that gave a buffer goes on to read it, and another
\* ends the call with the descriptor empty.
LEMMA CheckRecvKeeps ==
    ASSUME OneAtATime, IInv, NEW t \in Tasks, CheckRecv(t)
    PROVE  IInv'
<1>1. /\ UNCHANGED <<open, pbuf, nonblock, nc_type>>
      /\ UNCHANGED <<rcv_timeout, mbox, link, out>>
      /\ UNCHANGED <<sent, read, asked, avail, pbufs>>
      /\ ~Idle(t) /\ pc[t] \in Looking
    BY DEF CheckRecv, netconn, Idle, Looking
<1>2. rcv_timeout = asked
    BY <1>1, TimeoutIsAsked DEF CheckRecv, Polling
<1>3. MboxInv'
    BY <1>1 DEF IInv, MboxInv
<1>4. CASE r[t] # "ok"
  <2>1. Empty
    BY <1>1, <1>4 DEF IInv, HandInv
  <2>2. Return(t) /\ bytes_left' = bytes_left
    BY <2>1 DEF CheckRecv, RecvFails, Empty
  <2>3. Empty'
    BY <1>1, <2>1, <2>2 DEF Empty, Received
  <2>4. OneCall' /\ Closed' /\ HandInv' /\ TimeInv' /\ LateInv'
        /\ pc' \in [Tasks -> Pcs]
    BY <1>1, <1>2, <2>2, <2>3, ReturnKeeps
  <2>5. TypeOK'
    BY <1>1, <2>2, <2>4, ReturnTypes DEF IInv, TypeOK
  <2>6. CountInv'
    BY <1>1, <2>2 DEF IInv, CountInv
  <2> QED
    BY <1>3, <2>4, <2>5, <2>6 DEF IInv
<1>5. CASE r[t] = "ok"
  <2>1. Fresh
    BY <1>1, <1>5 DEF IInv, HandInv
  <2>2. /\ bytes_left' = pbuf.len /\ Goto(t, "copy")
        /\ UNCHANGED <<call, len, nowait, econ, last_to, wait, r, sz, late, joined>>
    BY <1>5, <2>1 DEF CheckRecv, RecvFails, AtEnd, Fresh, NoPbuf, locals,
        seen
  <2>3. Partly'
    BY <1>1, <2>1, <2>2 DEF IInv, TypeOK, Fresh, Partly, Received
  <2>4. /\ OneCall' /\ Closed' /\ open /\ open'
        /\ pc' \in [Tasks -> Pcs] /\ pc'[t] = "copy"
        /\ \A u \in Tasks : u # t => pc[u] = "idle" /\ pc'[u] = "idle"
    BY <1>1, <2>2, StaysAlone DEF IInv, Pcs
  <2>5. TypeOK'
    BY <1>1, <2>2, <2>4 DEF IInv, TypeOK
  <2>6. HandInv'
    BY <2>3, <2>4 DEF HandInv, Aside, Asking, Looking
  <2>7. CountInv'
    BY <1>1, <2>1, <2>2 DEF IInv, TypeOK, CountInv, Fresh
  <2>8. TimeInv'
    BY <1>1, <1>2, <2>4 DEF TimeInv, Polling
  <2>9. LateInv'
    BY <2>4 DEF LateInv, Looking
  <2> QED
    BY <1>3, <2>4, <2>5, <2>6, <2>7, <2>8, <2>9 DEF IInv
<1> QED
    BY <1>4, <1>5

\* atu_ioctl_r(FIONREAD) leaves the buffer it received, of which it told.
LEMMA CheckIoctlKeeps ==
    ASSUME OneAtATime, IInv, NEW t \in Tasks, CheckIoctl(t)
    PROVE  IInv'
<1>1. /\ UNCHANGED <<open, pbuf, nonblock, nc_type>>
      /\ UNCHANGED <<rcv_timeout, mbox, link, out>>
      /\ UNCHANGED <<sent, read, asked, pbufs>>
      /\ ~Idle(t) /\ pc[t] \in Looking /\ Return(t)
    BY DEF CheckIoctl, netconn, Idle, Looking
<1>2. rcv_timeout = asked
    BY <1>1, TimeoutIsAsked DEF CheckIoctl, Polling
<1>3. MboxInv'
    BY <1>1 DEF IInv, MboxInv
<1>4. /\ Empty' \/ Partly'
      /\ avail' <= bytes_left'
      /\ bytes_left' \in 0 .. MaxPbuf /\ avail' \in 0 .. MaxBytes
  <2>1. CASE r[t] # "ok"
    <3>1. Empty
        BY <1>1, <2>1 DEF IInv, HandInv
    <3>2. /\ bytes_left' = 0
          /\ (avail' = avail \/ avail' = 0)
        BY <3>1 DEF CheckIoctl, Empty, NoPbuf
    <3> QED
        BY <1>1, <3>1, <3>2, BoundsNat DEF IInv, TypeOK, CountInv, Empty,
            Received
  <2>2. CASE r[t] = "ok"
    <3>1. Fresh
        BY <1>1, <2>2 DEF IInv, HandInv
    <3>2. bytes_left' = pbuf.len /\ avail' = pbuf.len
        BY <2>2 DEF CheckIoctl, Inactive
    <3>3. Partly'
        BY <1>1, <3>1, <3>2 DEF IInv, TypeOK, Fresh, Partly, Received
    <3>4. /\ pbuf.len \in 0 .. MaxPbuf /\ pbuf.last \in 0 .. MaxBytes
          /\ Len(read) \in Nat /\ Len(read) + pbuf.len = pbuf.last
        BY <3>1 DEF IInv, TypeOK, Fresh
    <3> QED
        BY <3>2, <3>3, <3>4, BoundsNat
  <2> QED
    BY <2>1, <2>2
<1>5. OneCall' /\ Closed' /\ HandInv' /\ TimeInv' /\ LateInv'
      /\ pc' \in [Tasks -> Pcs]
    BY <1>1, <1>2, <1>4, ReturnKeeps
<1>6. TypeOK'
    BY <1>1, <1>4, <1>5, ReturnTypes DEF IInv, TypeOK
<1>7. CountInv'
    BY <1>1, <1>4 DEF IInv, CountInv
<1> QED
    BY <1>3, <1>5, <1>6, <1>7 DEF IInv

\* The mailbox of the netconn and what was received from it.
LEMMA ReceivedBounds ==
    ASSUME TypeOK, MboxInv
    PROVE  /\ Received \in Nat /\ Len(mbox) \in Nat
           /\ Received + Len(mbox) <= sent /\ sent \in 0 .. MaxBytes
           /\ MaxBytes \in Nat
<1>1. /\ mbox \in Seq(Buffer) /\ sent \in 0 .. MaxBytes /\ MaxBytes \in Nat
    BY BoundsNat DEF TypeOK, Buffer
<1>2. Chain(mbox, sent) /\ sent \in Nat
    BY <1>1 DEF MboxInv
<1> QED
    BY <1>1, <1>2, ChainBounds DEF Received

\* What a call copies is next in the stream.
LEMMA CopyReads ==
    ASSUME IInv, NEW t \in Tasks, Copy(t)
    PROVE  /\ sz'[t] \in 0 .. MaxLen /\ sz'[t] <= bytes_left
           /\ sz' \in [Tasks -> 0 .. MaxLen]
           /\ Len(read) \in Nat /\ Received \in Nat
           /\ Len(read) + sz'[t] <= Received /\ Received <= sent
           /\ read' = read \o [i \in 1 .. sz'[t] |-> Len(read) + i]
           /\ read' \in Seq(1 .. MaxBytes) /\ Len(read') = Len(read) + sz'[t]
<1> DEFINE n == IF bytes_left < len[t] THEN bytes_left ELSE len[t]
<1>1. Partly
    BY DEF IInv, HandInv, Copy
<1>2. /\ Len(read) \in Nat /\ read \in Seq(1 .. MaxBytes)
      /\ bytes_left \in Nat /\ len[t] \in 0 .. MaxLen
      /\ MaxLen \in Nat /\ MaxBytes \in Nat /\ sent \in 0 .. MaxBytes
    BY BoundsNat DEF IInv, TypeOK
<1>3. Received \in Nat /\ Received <= sent
    BY <1>2, ReceivedBounds DEF IInv
<1>4. n \in 0 .. MaxLen /\ n <= bytes_left /\ n \in Nat
    BY <1>2
<1>5. sz' \in [Tasks -> 0 .. MaxLen] /\ sz'[t] = n
    BY <1>4 DEF IInv, TypeOK, Copy
<1>6. Len(read) + n <= Received /\ Before = Len(read)
    BY <1>1, <1>2, <1>3, <1>4 DEF Partly, Before
<1> HIDE DEF n
<1>7. read' = read \o [i \in 1 .. n |-> Len(read) + i]
    BY <1>6 DEF Copy, n
<1> DEFINE e(i) == Len(read) + i
           new == [i \in 1 .. n |-> e(i)]
<1>8. \A i \in 1 .. n : e(i) \in 1 .. MaxBytes
    BY <1>2, <1>3, <1>4, <1>6
<1>9. new \in Seq(1 .. MaxBytes) /\ Len(new) = n
  <2> HIDE DEF e
  <2> QED
    BY <1>4, <1>8
<1>10. read' \in Seq(1 .. MaxBytes) /\ Len(read') = Len(read) + n
  <2>1. read' = read \o new
    BY <1>7
  <2> HIDE DEF new
  <2> QED
    BY <1>2, <1>9, <2>1, ConcatProperties
<1> QED
    BY <1>2, <1>3, <1>4, <1>5, <1>6, <1>7, <1>10
\* atu_recv_r gives what the descriptor has.
LEMMA CopyKeeps ==
    ASSUME OneAtATime, IInv, NEW t \in Tasks, Copy(t)
    PROVE  IInv'
<1>1. /\ UNCHANGED <<open, pbuf, bytes_left, nonblock, nc_type>>
      /\ UNCHANGED <<rcv_timeout, mbox, link, out>>
      /\ UNCHANGED <<call, len, nowait, econ, last_to, wait, r>>
      /\ UNCHANGED <<sent, asked, avail, pbufs, late, joined>>
      /\ ~Idle(t) /\ Goto(t, "consume")
    BY DEF Copy, fd, netconn, seen, Idle
<1>2. rcv_timeout = asked
    BY <1>1, TimeoutIsAsked DEF Copy, Polling
<1>3. Partly
    BY DEF IInv, HandInv, Copy
<1>4. /\ sz'[t] \in 0 .. MaxLen /\ sz'[t] <= bytes_left
      /\ sz' \in [Tasks -> 0 .. MaxLen] /\ Len(read) \in Nat
      /\ read' \in Seq(1 .. MaxBytes) /\ Len(read') = Len(read) + sz'[t]
    BY CopyReads
<1>5. /\ OneCall' /\ Closed' /\ open /\ open'
      /\ pc' \in [Tasks -> Pcs] /\ pc'[t] = "consume"
      /\ \A u \in Tasks : u # t => pc[u] = "idle" /\ pc'[u] = "idle"
    BY <1>1, StaysAlone DEF IInv, Pcs
<1>6. TypeOK'
    BY <1>1, <1>4, <1>5 DEF IInv, TypeOK
<1>7. MboxInv'
    BY <1>1 DEF IInv, MboxInv
<1>8. Copied(t)'
    BY <1>1, <1>3, <1>4, BoundsNat, SMTT(30) DEF IInv, TypeOK, Partly, Copied, Received
<1>9. HandInv'
    BY <1>5, <1>8 DEF HandInv, Aside, Asking, Looking
<1>10. CountInv'
    BY <1>1 DEF IInv, CountInv
<1>11. TimeInv'
    BY <1>1, <1>2, <1>5 DEF TimeInv, Polling
<1>12. LateInv'
    BY <1>5 DEF LateInv, Looking
<1> QED
    BY <1>5, <1>6, <1>7, <1>9, <1>10, <1>11, <1>12 DEF IInv

\* A value that fits in a size_t is its own remainder.
LEMMA SmallRemainder ==
    ASSUME NEW m \in Nat, NEW x \in 0 .. m - 1
    PROVE  x % m = x
OBVIOUS

\* bytes_left is never less than what is taken from it, so it does not wrap.
LEMMA ConsumeKeeps ==
    ASSUME OneAtATime, IInv, NEW t \in Tasks, Consume(t)
    PROVE  IInv'
<1>1. /\ UNCHANGED <<open, nonblock, nc_type>>
      /\ UNCHANGED <<rcv_timeout, mbox, link, out>>
      /\ UNCHANGED <<sent, read, asked>>
      /\ ~Idle(t) /\ Return(t)
    BY DEF Consume, netconn, Idle
<1>2. rcv_timeout = asked
    BY <1>1, TimeoutIsAsked DEF Consume, Polling
<1>3. Copied(t)
    BY DEF IInv, HandInv, Consume
<1>4. /\ bytes_left \in 0 .. MaxPbuf /\ sz[t] \in Nat /\ MaxPbuf \in Nat
      /\ pbuf.len \in 0 .. MaxPbuf /\ avail \in Nat /\ avail <= bytes_left
      /\ Len(read) \in Nat /\ pbufs \in 0 .. MaxBytes
      /\ SizeMod \in Nat /\ SizeMod > MaxPbuf /\ MaxBytes \in Nat
    BY BoundsNat, SizeHolds DEF IInv, TypeOK, CountInv
<1>5. Left(t) = bytes_left - sz[t] /\ Left(t) \in 0 .. bytes_left
  <2>1. bytes_left - sz[t] \in 0 .. SizeMod - 1
    BY <1>3, <1>4 DEF Copied
  <2>2. (bytes_left - sz[t]) % SizeMod = bytes_left - sz[t]
    BY <1>4, <2>1, SmallRemainder
  <2> QED
    BY <1>3, <1>4, <2>2 DEF Left, Copied
<1>6. bytes_left' = bytes_left - sz[t] /\ bytes_left' \in 0 .. bytes_left
    BY <1>5 DEF Consume
<1>7. Received \in Nat /\ Len(mbox) \in Nat
    BY ReceivedBounds DEF IInv
<1>8. Empty' \/ Partly'
  <2>1. CASE bytes_left' = 0
    <3>1. pbuf' = NoPbuf
        BY <1>5, <1>6, <2>1 DEF Consume
    <3> QED
        BY <1>1, <1>3, <1>4, <1>6, <1>7, <2>1, <3>1 DEF Empty, Copied, Received
  <2>2. CASE bytes_left' # 0
    <3>1. pbuf' = pbuf
        BY <1>5, <1>6, <2>2 DEF Consume
    <3>2. Received' = Received
        BY <1>1 DEF Received
    <3>3. bytes_left' \in 1 .. pbuf.len
        BY <1>3, <1>4, <1>6, <2>2 DEF Copied
    <3>4. Len(read') + bytes_left' = Received
      <4>1. Len(read) + bytes_left = Received + sz[t] /\ read' = read
        BY <1>1, <1>3 DEF Copied
      <4>2. bytes_left' = bytes_left - sz[t]
        BY <1>6
      <4>3. /\ Len(read) \in Int /\ Received \in Int
            /\ bytes_left \in Int /\ sz[t] \in Int
        BY <1>4, <1>7
      <4> QED
        BY <4>1, <4>2, <4>3
    <3> QED
        BY <1>3, <3>1, <3>2, <3>3, <3>4 DEF Partly, Copied
  <2> QED
    BY <2>1, <2>2
<1>9. OneCall' /\ Closed' /\ HandInv' /\ TimeInv' /\ LateInv'
      /\ pc' \in [Tasks -> Pcs]
    BY <1>1, <1>2, <1>8, ReturnKeeps
<1>10. avail' \in 0 .. avail /\ avail' <= bytes_left'
    BY <1>4, <1>6, SMTT(30) DEF Consume
<1>11. pbuf # NoPbuf
    BY <1>3, <1>4 DEF Copied, NoPbuf
<1>12. /\ pbufs' = Len(mbox') + (IF pbuf' = NoPbuf THEN 0 ELSE 1)
       /\ pbufs' \in 0 .. pbufs
       /\ pbuf' = pbuf \/ pbuf' = NoPbuf
    BY <1>1, <1>4, <1>7, <1>11 DEF IInv, CountInv, Consume
<1>13. TypeOK'
  <2>1. pbuf' \in [last : 0 .. MaxBytes, len : 0 .. MaxPbuf]
    BY <1>12, BoundsNat, SMTT(30) DEF IInv, TypeOK, NoPbuf
  <2>2. /\ bytes_left' \in 0 .. MaxPbuf /\ avail' \in 0 .. MaxBytes
        /\ pbufs' \in 0 .. MaxBytes
    BY <1>4, <1>6, <1>10, <1>12, SMTT(30) DEF IInv, TypeOK
  <2> QED
    BY <1>1, <1>9, <2>1, <2>2, ReturnTypes DEF IInv, TypeOK
<1>14. MboxInv'
    BY <1>1 DEF IInv, MboxInv
<1>15. CountInv'
    BY <1>10, <1>12 DEF CountInv
<1> QED
    BY <1>9, <1>13, <1>14, <1>15 DEF IInv
-----------------------------------------------------------------------------
(* Calls that do not read, and the start of those that do.                 *)

\* Before a call, and in one that leaves the buffer alone, the descriptor is
\* as it is between calls.
LEMMA Standing ==
    ASSUME OneAtATime, IInv, NEW t \in Tasks, MayStart(t) \/ ~Idle(t),
           pc[t] \in Aside
    PROVE  open /\ (Empty \/ Partly) /\ rcv_timeout = asked
<1>1. open /\ \A u \in Tasks : u # t => pc[u] = "idle"
    BY Alone DEF IInv
<1>2. Empty \/ Partly
    BY <1>1 DEF IInv, HandInv, Aside
<1>3. rcv_timeout = asked
    BY <1>1 DEF IInv, TimeInv, Polling, Aside
<1> QED
    BY <1>1, <1>2, <1>3

\* Steps of such a call keep what is said of the buffer and the timeout.
LEMMA AsideKeeps ==
    ASSUME OneAtATime, IInv, NEW t \in Tasks, MayStart(t) \/ ~Idle(t),
           pc[t] \in Aside, NEW l \in Aside, Goto(t, l),
           UNCHANGED <<open, pbuf, bytes_left, rcv_timeout, mbox, sent, read>>,
           UNCHANGED <<asked, pbufs>>, avail' \in {avail, bytes_left}
    PROVE  /\ pc' \in [Tasks -> Pcs] /\ avail' \in 0 .. MaxBytes
           /\ MboxInv' /\ OneCall' /\ Closed' /\ HandInv' /\ CountInv'
           /\ TimeInv' /\ LateInv'
<1>1. /\ OneCall' /\ Closed' /\ open /\ open'
      /\ pc' \in [Tasks -> Pcs] /\ pc'[t] = l
      /\ \A u \in Tasks : u # t => pc[u] = "idle" /\ pc'[u] = "idle"
    BY StaysAlone DEF IInv, Pcs, Aside
<1>2. (Empty \/ Partly) /\ rcv_timeout = asked
    BY Standing
<1>3. MboxInv'
    BY DEF IInv, MboxInv
<1>4. Empty' \/ Partly'
    BY <1>2 DEF Empty, Partly, Received
<1>5. HandInv'
    BY <1>1, <1>4 DEF HandInv, Aside, Asking, Looking
<1>6. bytes_left \in 0 .. MaxBytes
    BY <1>2, BoundsNat DEF IInv, TypeOK, Empty, Partly
<1>7. CountInv' /\ avail' \in 0 .. MaxBytes
    BY <1>6 DEF IInv, CountInv, TypeOK
<1>8. TimeInv'
    BY <1>1, <1>2 DEF TimeInv, Polling, Aside
<1>9. LateInv'
    BY <1>1 DEF LateInv, Looking, Aside
<1> QED
    BY <1>1, <1>3, <1>5, <1>7, <1>8, <1>9

\* What a connection that is made leaves of the types.
LEMMA ConnectsTypes ==
    ASSUME TypeOK, Connects
    PROVE  /\ link' = "up"
           /\ econ' \in [Tasks -> {"null", "now", "old"}]
           /\ joined' \in [Tasks -> BOOLEAN]
<1>1. \A u \in Tasks :
        (IF econ[u] = "now" THEN "old" ELSE econ[u]) \in {"null", "now", "old"}
    BY DEF TypeOK
<1>2. \A u \in Tasks : (joined[u] \/ ~Idle(u)) \in BOOLEAN
    OBVIOUS
<1> QED
    BY <1>1, <1>2 DEF Connects

\* atu_send_r and atu_sendto_r leave what is read alone.
LEMMA SendingKeeps ==
    ASSUME OneAtATime, IInv, NEW t \in Tasks,
           SendCall(t) \/ Write(t) \/ Flush(t) \/ Look(t) \/ SendTo(t)
    PROVE  IInv'
<1>1. /\ UNCHANGED <<open, pbuf, bytes_left, nonblock, nc_type>>
      /\ UNCHANGED <<rcv_timeout, mbox>>
      /\ UNCHANGED <<sent, read, asked, avail, pbufs>>
      /\ MayStart(t) \/ ~Idle(t)
      /\ pc[t] \in Aside
    BY DEF SendCall, Write, Flush, Look, SendTo, fd, netconn, known, seen, MayStart,
        Idle, Aside
<1>2. link' \in {"new", "up", "closed"} /\ out' \in {"none", "held", "excused"}
    BY DEF IInv, TypeOK, SendCall, Write, Flush, Look, SendTo, netconn, Flushed,
        Connects
<1>3. CASE Return(t)
  <2>1. Goto(t, "idle") /\ "idle" \in Aside
    BY <1>3 DEF Return, Aside
  <2>2. /\ pc' \in [Tasks -> Pcs] /\ avail' \in 0 .. MaxBytes
        /\ MboxInv' /\ OneCall' /\ Closed' /\ HandInv' /\ CountInv'
        /\ TimeInv' /\ LateInv'
    BY <1>1, <2>1, AsideKeeps
  <2>3. TypeOK'
    BY <1>1, <1>2, <1>3, <2>2, ReturnTypes DEF IInv, TypeOK
  <2> QED
    BY <2>2, <2>3 DEF IInv
<1>4. CASE ~Return(t)
  <2>1. /\ \E l \in Aside : Goto(t, l)
        /\ UNCHANGED <<len, nowait, last_to, wait, r, sz, late>>
        /\ call' \in [Tasks -> {"none", "recv", "ioctl", "send", "sendto"}]
        /\ UNCHANGED <<econ, joined>> \/ Connects
    BY <1>4 DEF SendCall, Write, Flush, Look, SendTo, locals, known, seen, Aside,
        IInv, TypeOK
  <2>4. /\ econ' \in [Tasks -> {"null", "now", "old"}]
        /\ joined' \in [Tasks -> BOOLEAN]
    BY <2>1, ConnectsTypes DEF IInv, TypeOK
  <2>2. /\ pc' \in [Tasks -> Pcs] /\ avail' \in 0 .. MaxBytes
        /\ MboxInv' /\ OneCall' /\ Closed' /\ HandInv' /\ CountInv'
        /\ TimeInv' /\ LateInv'
    BY <1>1, <2>1, AsideKeeps
  <2>3. TypeOK'
    BY <1>1, <1>2, <2>1, <2>2, <2>4 DEF IInv, TypeOK
  <2> QED
    BY <2>2, <2>3 DEF IInv
<1> QED
    BY <1>3, <1>4

\* The entry of atu_recv_r reads on, or asks the netconn when the descriptor
\* has nothing.
LEMMA RecvCallKeeps ==
    ASSUME OneAtATime, IInv, NEW t \in Tasks, RecvCall(t)
    PROVE  IInv'
<1>1. /\ UNCHANGED <<open, pbuf, bytes_left, nonblock, nc_type>>
      /\ UNCHANGED <<rcv_timeout, mbox, link, out>>
      /\ UNCHANGED <<last_to, wait, r, sz>>
      /\ UNCHANGED <<sent, read, asked, avail, pbufs, late, joined>>
      /\ MayStart(t) /\ pc[t] = "idle"
    BY DEF RecvCall, fd, netconn, known, seen, MayStart, Idle
<1>2. (Empty \/ Partly) /\ rcv_timeout = asked
    BY <1>1, Standing DEF Aside
<1>3. HasBytes => Partly
    BY <1>2 DEF HasBytes, Empty
<1>4. ~HasBytes => Empty
  <2>1. Partly => pbuf # NoPbuf /\ bytes_left # 0
    BY DEF Partly, NoPbuf
  <2> QED
    BY <1>2, <2>1 DEF HasBytes
<1>5. PICK n \in 0 .. MaxLen, l \in {"copy", "save", "enter"} :
        /\ len' = [len EXCEPT ![t] = n]
        /\ Goto(t, l)
        /\ l = "copy" <=> HasBytes
        /\ nowait' = [nowait EXCEPT ![t] = (l = "save")]
        /\ call' = [call EXCEPT ![t] = "recv"]
  <2>1. PICK n \in 0 .. MaxLen, dontwait \in BOOLEAN :
        LET poll == ~HasBytes /\ (dontwait \/ n = 0 \/ nonblock)
        IN  /\ len' = [len EXCEPT ![t] = n]
            /\ nowait' = [nowait EXCEPT ![t] = poll]
            /\ Goto(t, IF HasBytes THEN "copy"
                       ELSE IF poll THEN "save" ELSE "enter")
    BY DEF RecvCall
  <2> DEFINE poll == ~HasBytes /\ (dontwait \/ n = 0 \/ nonblock)
             l == IF HasBytes THEN "copy" ELSE IF poll THEN "save" ELSE "enter"
  <2>2. /\ l \in {"copy", "save", "enter"} /\ poll = (l = "save")
        /\ l = "copy" <=> HasBytes
    OBVIOUS
  <2>3. nowait' = [nowait EXCEPT ![t] = poll] /\ Goto(t, l)
    BY <2>1
  <2> HIDE DEF poll, l
  <2>4. call' = [call EXCEPT ![t] = "recv"]
    BY DEF RecvCall
  <2> QED
    BY <2>1, <2>2, <2>3, <2>4
<1>6. /\ OneCall' /\ Closed' /\ open /\ open'
      /\ pc' \in [Tasks -> Pcs] /\ pc'[t] = l
      /\ \A u \in Tasks : u # t => pc[u] = "idle" /\ pc'[u] = "idle"
    BY <1>1, <1>5, StaysAlone DEF IInv, Pcs
<1>7. nowait' \in [Tasks -> BOOLEAN] /\ nowait'[t] = (l = "save")
    BY <1>5 DEF IInv, TypeOK
<1>8. TypeOK'
  <2>1. /\ len' \in [Tasks -> 0 .. MaxLen]
        /\ call' \in [Tasks -> {"none", "recv", "ioctl", "send", "sendto"}]
        /\ econ' \in [Tasks -> {"null", "now", "old"}]
    BY <1>5 DEF IInv, TypeOK, RecvCall, Fetched
  <2> QED
    BY <1>1, <1>6, <1>7, <2>1 DEF IInv, TypeOK
<1>9. MboxInv'
    BY <1>1 DEF IInv, MboxInv
<1>10. IF l = "copy" THEN Partly' ELSE Empty'
    BY <1>1, <1>3, <1>4, <1>5 DEF Partly, Empty, Received
<1>11. HandInv'
    BY <1>6, <1>10 DEF HandInv, Aside, Asking, Looking
<1>12. CountInv'
    BY <1>1 DEF IInv, CountInv
<1>13. TimeInv'
    BY <1>1, <1>2, <1>6, <1>7 DEF TimeInv, Polling
<1>14. LateInv'
    BY <1>6 DEF LateInv, Looking
<1> QED
    BY <1>6, <1>8, <1>9, <1>11, <1>12, <1>13, <1>14 DEF IInv
\* The entry of atu_ioctl_r tells what is left, or asks the netconn.
LEMMA IoctlCallKeeps ==
    ASSUME OneAtATime, IInv, NEW t \in Tasks, IoctlCall(t)
    PROVE  IInv'
<1>1. /\ UNCHANGED <<open, pbuf, bytes_left, nonblock, nc_type>>
      /\ UNCHANGED <<rcv_timeout, mbox, link, out>>
      /\ UNCHANGED <<len, econ, last_to, wait, r, sz>>
      /\ UNCHANGED <<sent, read, asked, pbufs, late, joined>>
      /\ MayStart(t) /\ pc[t] = "idle" /\ pc[t] \in Aside
    BY DEF IoctlCall, fd, netconn, seen, MayStart, Idle, Aside
<1>2. (Empty \/ Partly) /\ rcv_timeout = asked
    BY <1>1, Standing
<1>3. CASE HasBytes
  <2>1. UNCHANGED <<pc, call, nowait>> /\ avail' = bytes_left
    BY <1>3 DEF IoctlCall
  <2>2. Goto(t, "idle") /\ "idle" \in Aside
    BY <1>1, <2>1 DEF Goto, Aside, IInv, TypeOK
  <2>3. /\ pc' \in [Tasks -> Pcs] /\ avail' \in 0 .. MaxBytes
        /\ MboxInv' /\ OneCall' /\ Closed' /\ HandInv' /\ CountInv'
        /\ TimeInv' /\ LateInv'
    BY <1>1, <2>1, <2>2, AsideKeeps
  <2>4. TypeOK'
    BY <1>1, <2>1, <2>3 DEF IInv, TypeOK
  <2> QED
    BY <2>3, <2>4 DEF IInv
<1>4. CASE ~HasBytes
  <2>1. /\ call' = [call EXCEPT ![t] = "ioctl"]
        /\ nowait' = [nowait EXCEPT ![t] = TRUE]
        /\ Goto(t, "save") /\ avail' = avail
    BY <1>4 DEF IoctlCall
  <2>2. Empty
    <3>1. Partly => pbuf # NoPbuf /\ bytes_left # 0
        BY DEF Partly, NoPbuf
    <3> QED
        BY <1>2, <1>4, <3>1 DEF HasBytes
  <2>3. /\ OneCall' /\ Closed' /\ open /\ open'
        /\ pc' \in [Tasks -> Pcs] /\ pc'[t] = "save"
        /\ \A u \in Tasks : u # t => pc[u] = "idle" /\ pc'[u] = "idle"
    BY <1>1, <2>1, StaysAlone DEF IInv, Pcs
  <2>4. /\ nowait' \in [Tasks -> BOOLEAN] /\ nowait'[t]
        /\ call' \in [Tasks -> {"none", "recv", "ioctl", "send", "sendto"}]
    BY <2>1 DEF IInv, TypeOK
  <2>5. TypeOK'
    BY <1>1, <2>1, <2>3, <2>4 DEF IInv, TypeOK
  <2>6. MboxInv'
    BY <1>1 DEF IInv, MboxInv
  <2>7. Empty'
    BY <1>1, <2>2 DEF Empty, Received
  <2>8. HandInv'
    BY <2>3, <2>7 DEF HandInv, Aside, Asking, Looking
  <2>9. CountInv'
    BY <1>1, <2>1 DEF IInv, CountInv
  <2>10. TimeInv'
    BY <1>1, <1>2, <2>3, <2>4 DEF TimeInv, Polling
  <2>11. LateInv'
    BY <2>3 DEF LateInv, Looking
  <2> QED
    BY <2>3, <2>5, <2>6, <2>8, <2>9, <2>10, <2>11 DEF IInv
<1> QED
    BY <1>3, <1>4

\* Options are set when no call is under way.
LEMMA OptionKeeps ==
    ASSUME OneAtATime, IInv, NEW t \in Tasks, SetTimeout(t) \/ SetFlags(t)
    PROVE  IInv'
<1>1. /\ UNCHANGED <<open, pbuf, bytes_left, nc_type>>
      /\ UNCHANGED <<mbox, link, out, pc>>
      /\ UNCHANGED <<call, len, nowait, econ, last_to, wait, r, sz>>
      /\ UNCHANGED <<sent, read, avail, pbufs, late, joined>>
      /\ MayStart(t) /\ pc[t] = "idle" /\ pc[t] \in Aside
    BY DEF SetTimeout, SetFlags, fd, netconn, locals, known, seen, MayStart, Idle,
        Aside
<1>2. (Empty \/ Partly) /\ rcv_timeout = asked /\ open
    BY <1>1, Standing
<1>3. \A u \in Tasks : pc'[u] = "idle"
    BY <1>1, Alone DEF IInv
<1>4. rcv_timeout' = asked' /\ asked' \in {Forever, Poll, Finite} /\ nonblock' \in BOOLEAN
    BY <1>2 DEF SetTimeout, SetFlags, IInv, TypeOK, fd, netconn, known, seen
<1>5. TypeOK'
    BY <1>1, <1>4 DEF IInv, TypeOK
<1>6. MboxInv'
    BY <1>1 DEF IInv, MboxInv
<1>7. Empty' \/ Partly'
    BY <1>1, <1>2 DEF Empty, Partly, Received
<1>8. HandInv'
    BY <1>3, <1>7 DEF HandInv, Aside, Asking, Looking
<1>9. CountInv' /\ Closed' /\ OneCall'
    BY <1>1, <1>2 DEF IInv, CountInv, Closed, OneCall, Idle
<1>10. TimeInv'
    BY <1>3, <1>4 DEF TimeInv, Polling
<1>11. LateInv'
    BY <1>3 DEF LateInv, Looking
<1> QED
    BY <1>5, <1>6, <1>8, <1>9, <1>10, <1>11 DEF IInv

\* The state of the connection, and what calls know of it, are nothing the
\* invariant depends on.
LEMMA LinkKeeps ==
    ASSUME IInv, UNCHANGED <<fd, rcv_timeout, mbox, out, pc>>,
           UNCHANGED <<call, len, nowait, last_to, wait, r, sz>>,
           UNCHANGED <<sent, read, asked, avail, pbufs, late>>,
           link' \in {"new", "up", "closed"},
           econ' \in [Tasks -> {"null", "now", "old"}],
           joined' \in [Tasks -> BOOLEAN]
    PROVE  IInv'
<1>1. UNCHANGED <<open, pbuf, bytes_left, nonblock, nc_type>>
    BY DEF fd
<1>2. TypeOK'
    BY <1>1 DEF IInv, TypeOK
<1>3. MboxInv' /\ OneCall' /\ Closed' /\ CountInv' /\ TimeInv' /\ LateInv'
    BY <1>1 DEF IInv, MboxInv, OneCall, Closed, CountInv, TimeInv, LateInv,
        Idle, AllIdle, Polling
<1>4. HandInv'
    BY <1>1 DEF IInv, HandInv, Empty, Partly, Fresh, Copied, Received
<1> QED
    BY <1>2, <1>3, <1>4 DEF IInv

\* What arrives is not received yet, and there is room to count it.
LEMMA DeliverKeeps ==
    ASSUME IInv, NEW n \in 1 .. MaxPbuf, Deliver(n)
    PROVE  IInv'
<1>1. /\ UNCHANGED <<open, pbuf, bytes_left, nonblock, nc_type>>
      /\ UNCHANGED <<rcv_timeout, link, out, pc>>
      /\ UNCHANGED <<call, len, nowait, econ, last_to, wait, r, sz>>
      /\ UNCHANGED <<read, asked, avail, joined>>
      /\ open /\ sent + n <= MaxBytes /\ sent' = sent + n
      /\ mbox' = Append(mbox, [last |-> sent + n, len |-> n])
      /\ pbufs' = pbufs + 1
      /\ late' = [t \in Tasks |-> late[t] \/ pc[t] \in {"restore", "check"}]
    BY DEF Deliver, fd, locals
<1>2. /\ mbox \in Seq(Buffer) /\ sent \in Nat /\ Chain(mbox, sent)
      /\ MaxBytes \in Nat /\ n \in Nat \ {0} /\ late \in [Tasks -> BOOLEAN]
    BY BoundsNat DEF IInv, TypeOK, Buffer, MboxInv
<1>3. /\ mbox' \in Seq(Buffer) /\ Len(mbox') = Len(mbox) + 1
      /\ Chain(mbox', sent') /\ Taken(mbox', sent') = Taken(mbox, sent)
      /\ sent' \in 0 .. MaxBytes
    BY <1>1, <1>2, ChainGrows
<1>4. late' \in [Tasks -> BOOLEAN]
    BY <1>1, <1>2
<1>5. MboxInv' /\ Received' = Received
    BY <1>3 DEF MboxInv, Received
<1>6. pbufs' = Len(mbox') + (IF pbuf' = NoPbuf THEN 0 ELSE 1)
    BY <1>1, <1>3, ReceivedBounds DEF IInv, CountInv
<1>7. pbuf # NoPbuf => Received >= 1
  <2>1. /\ Len(read) \in Nat /\ pbuf.len \in Nat
        /\ \A t \in Tasks : sz[t] \in Nat
    BY BoundsNat DEF IInv, TypeOK
  <2>2. CASE \A t \in Tasks : pc[t] \in Aside
    <3>1. Empty \/ Partly
        BY <1>1, <2>2 DEF IInv, HandInv
    <3> QED
        BY <2>1, <3>1 DEF Empty, Partly
  <2>3. CASE \E t \in Tasks : pc[t] \notin Aside
    <3>1. PICK t \in Tasks : pc[t] \notin Aside
        BY <2>3
    <3>2. pc[t] \in Asking \cup Looking \cup {"copy", "consume"}
        BY <3>1 DEF IInv, TypeOK, Pcs, Aside, Asking, Looking
    <3>3. Empty \/ Fresh \/ Partly \/ Copied(t)
        BY <3>2 DEF IInv, HandInv
    <3>4. Copied(t) => Received >= 1
      <4>1. pbuf.last \in Nat
        BY DEF IInv, TypeOK
      <4>2. Copied(t) => Len(read) + bytes_left = Received + sz[t]
        BY DEF Copied
      <4> QED
        BY <2>1, <4>1, <4>2 DEF Copied
    <3> QED
        BY <2>1, <3>3, <3>4 DEF Empty, Fresh, Partly
  <2> QED
    BY <2>2, <2>3
<1>8. pbufs' \in 0 .. MaxBytes
  <2>1. Received + Len(mbox) <= sent /\ Received \in Nat /\ Len(mbox) \in Nat
    BY ReceivedBounds DEF IInv
  <2>2. Received + Len(mbox') <= sent' /\ Len(mbox') \in Nat
    BY <1>1, <1>2, <1>3, <2>1
  <2> QED
    BY <1>1, <1>2, <1>3, <1>6, <1>7, <2>1, <2>2
<1>9. TypeOK'
    BY <1>1, <1>3, <1>4, <1>8 DEF IInv, TypeOK, Buffer
<1>10. OneCall' /\ Closed' /\ TimeInv'
    BY <1>1 DEF IInv, OneCall, Closed, TimeInv, Idle, AllIdle, Polling
<1>11. HandInv'
    BY <1>1, <1>5 DEF IInv, HandInv, Empty, Partly, Fresh, Copied
<1>12. CountInv'
    BY <1>1, <1>6 DEF IInv, CountInv
<1>13. LateInv'
    BY <1>1 DEF LateInv, Looking
<1> QED
    BY <1>5, <1>9, <1>10, <1>11, <1>12, <1>13 DEF IInv
\* The end of a descriptor frees its buffer and those of its netconn.
LEMMA CloseKeeps ==
    ASSUME OneAtATime, IInv, Close
    PROVE  IInv'
<1>1. /\ UNCHANGED <<nonblock, nc_type, rcv_timeout, pc>>
      /\ UNCHANGED <<call, len, nowait, econ, last_to, wait, r, sz>>
      /\ UNCHANGED <<sent, read, asked, late, joined>>
      /\ \A t \in Tasks : pc[t] = "idle"
      /\ ~open' /\ open' \in BOOLEAN /\ link' = "closed" /\ out' = "none"
      /\ pbuf' = NoPbuf /\ bytes_left' = 0 /\ mbox' = <<>> /\ avail' = 0
    BY DEF Close, locals, seen, AllIdle, Idle, IInv, TypeOK
<1>2. pbufs' = 0
    BY ReceivedBounds DEF IInv, CountInv, Close, InHand
<1>3. /\ mbox' \in Seq(Buffer) /\ Len(mbox') = 0
      /\ pbuf' \in [last : 0 .. MaxBytes, len : 0 .. MaxPbuf]
      /\ 0 \in 0 .. MaxPbuf /\ 0 \in 0 .. MaxBytes
    BY <1>1, BoundsNat, EmptySeq DEF NoPbuf
<1>4. TypeOK'
    BY <1>1, <1>2, <1>3 DEF IInv, TypeOK, Buffer
<1>5. MboxInv'
    BY <1>1, <1>3 DEF MboxInv, Chain
<1>6. OneCall' /\ Closed' /\ HandInv' /\ TimeInv' /\ LateInv'
    BY <1>1 DEF IInv, OneCall, Closed, HandInv, TimeInv, LateInv, Idle, AllIdle,
        Polling, Asking, Looking
<1>7. CountInv'
    BY <1>1, <1>2, <1>3 DEF CountInv
<1> QED
    BY <1>4, <1>5, <1>6, <1>7 DEF IInv

\* A descriptor starts with nothing of its last netconn.
LEMMA ReopenKeeps ==
    ASSUME IInv, Socket \/ Accept
    PROVE  IInv'
<1>1. /\ UNCHANGED <<pbuf, bytes_left, nonblock, mbox, out, pc>>
      /\ UNCHANGED <<call, len, nowait, econ, last_to, wait, r, sz>>
      /\ UNCHANGED <<avail, pbufs, late, joined>>
      /\ ~open /\ open' /\ open' \in BOOLEAN /\ link' \in {"new", "up", "closed"}
      /\ nc_type' \in {"tcp", "udp"}
      /\ rcv_timeout' = Forever /\ asked' = Forever
      /\ sent' = 0 /\ read' = <<>>
    BY DEF Socket, Accept, Reopen, locals, seen, IInv, TypeOK
<1>2. /\ \A t \in Tasks : pc[t] = "idle"
      /\ pbuf = NoPbuf /\ bytes_left = 0 /\ mbox = <<>> /\ avail = 0
    BY <1>1 DEF IInv, Closed, AllIdle, Idle
<1>3. /\ sent' \in 0 .. MaxBytes /\ read' \in Seq(1 .. MaxBytes)
      /\ Len(read') = 0 /\ Len(mbox') = 0
    BY <1>1, <1>2, BoundsNat, EmptySeq
<1>4. TypeOK'
    BY <1>1, <1>3 DEF IInv, TypeOK
<1>5. MboxInv'
    BY <1>1, <1>2, <1>3 DEF MboxInv, Chain
<1>6. Empty'
    BY <1>1, <1>2, <1>3 DEF Empty, Received, Taken
<1>7. HandInv'
    BY <1>1, <1>2, <1>6 DEF HandInv, Asking, Looking
<1>8. OneCall' /\ Closed' /\ TimeInv' /\ LateInv'
    BY <1>1, <1>2 DEF OneCall, Closed, TimeInv, LateInv, Idle, AllIdle, Polling,
        Looking
<1>9. CountInv'
    BY <1>1 DEF IInv, CountInv
<1> QED
    BY <1>4, <1>5, <1>7, <1>8, <1>9 DEF IInv

\* A descriptor that nobody has opened yet.
LEMMA InitGivesIInv ==
    ASSUME Init
    PROVE  IInv
<1>1. 0 \in 0 .. MaxBytes /\ 0 \in 0 .. MaxPbuf /\ 0 \in 0 .. MaxLen
    BY BoundsNat
<1>2. /\ mbox = <<>> /\ read = <<>> /\ Len(mbox) = 0 /\ Len(read) = 0
      /\ mbox \in Seq(Buffer) /\ read \in Seq(1 .. MaxBytes)
    BY EmptySeq DEF Init
<1>3. pbuf \in [last : 0 .. MaxBytes, len : 0 .. MaxPbuf]
    BY <1>1 DEF Init, NoPbuf
<1>4. TypeOK
    BY <1>1, <1>2, <1>3 DEF Init, TypeOK, Buffer, Pcs
<1>5. MboxInv
    BY <1>2 DEF MboxInv, Chain
<1>6. OneCall /\ Closed /\ HandInv /\ TimeInv /\ LateInv
    BY DEF Init, OneCall, Closed, HandInv, TimeInv, LateInv, Idle, AllIdle,
        Polling, Asking, Looking
<1>7. CountInv
    BY <1>2 DEF Init, CountInv
<1> QED
    BY <1>4, <1>5, <1>6, <1>7 DEF IInv

-----------------------------------------------------------------------------
(* The theorems.                                                           *)

\* Every step keeps the invariant.
LEMMA NextKeeps ==
    ASSUME OneAtATime, IInv, [Next]_vars
    PROVE  IInv'
<1>1. CASE UNCHANGED vars
  <2>1. UNCHANGED <<fd, rcv_timeout, mbox, link, out, pc, locals, known>>
    BY <1>1 DEF vars, netconn
  <2> QED
    BY <2>1, LinkKeeps DEF IInv, TypeOK, locals, known, seen
<1>2. CASE PeerCloses
    BY <1>2, LinkKeeps DEF IInv, TypeOK, PeerCloses, locals, known, seen
<1>3. CASE \E n \in 1 .. MaxPbuf : Deliver(n)
    BY <1>3, DeliverKeeps
<1>4. CASE Close
    BY <1>4, CloseKeeps
<1>5. CASE Socket \/ Accept
    BY <1>5, ReopenKeeps
<1>6. CASE \E t \in Tasks : Start(t)
  <2> SUFFICES ASSUME NEW t \in Tasks, Start(t) PROVE IInv'
    BY <1>6
  <2>1. CASE Connect(t)
    BY <2>1, LinkKeeps, ConnectsTypes DEF IInv, Connect
  <2> QED
    BY <2>1, RecvCallKeeps, IoctlCallKeeps, OptionKeeps, SendingKeeps DEF Start
<1>7. CASE \E t \in Tasks : Step(t)
    BY <1>7, SaveKeeps, SetPollKeeps, EnterKeeps, ReceiveKeeps, RestoreKeeps,
        CheckRecvKeeps, CheckIoctlKeeps, CopyKeeps, ConsumeKeeps, SendingKeeps
        DEF Step
<1> QED
    BY <1>1, <1>2, <1>3, <1>4, <1>5, <1>6, <1>7 DEF Next, Esp
\* The invariant is inductive.
LEMMA IInvAlways ==
    ASSUME OneAtATime
    PROVE  Spec => []IInv
<1>1. Init => IInv
    BY InitGivesIInv
<1>2. IInv /\ [Next]_vars => IInv'
    BY NextKeeps
<1> QED
    BY <1>1, <1>2, PTL DEF Spec

\* Every variable has its type, and bytes_left never wraps below 0, for any
\* number of tasks, if callers make one call at a time.
THEOREM TypeCorrect ==
    ASSUME OneAtATime
    PROVE  Spec => []TypeOK
<1>1. IInv => TypeOK
    BY DEF IInv
<1> QED
    BY <1>1, IInvAlways, PTL

\* Between calls atu_recv_r, atu_ioctl_r and failed receives have lost no byte.
THEOREM NoByteLost ==
    ASSUME OneAtATime
    PROVE  Spec => []NothingLost
<1>1. IInv => NothingLost
  <2> SUFFICES ASSUME IInv, AllIdle, open
               PROVE  Len(read) + bytes_left + Waiting = sent
    BY DEF NothingLost
  <2>1. Empty \/ Partly
    BY DEF IInv, HandInv, AllIdle, Idle, Aside
  <2>2. /\ Received \in Nat /\ sent \in Nat /\ Len(read) \in Nat
        /\ bytes_left \in Nat
    BY ReceivedBounds DEF IInv, TypeOK
  <2>3. Len(read) + bytes_left = Received
    BY <2>1, <2>2 DEF Empty, Partly
  <2>4. Waiting = sent - Received
    <3>1. mbox \in Seq(Buffer)
        BY DEF IInv, TypeOK, Buffer
    <3>2. mbox # <<>> => Head(mbox) = mbox[1]
        BY <3>1, TakeFirst
    <3> QED
        BY <2>2, <3>2 DEF Waiting, Received, Taken
  <2> QED
    BY <2>2, <2>3, <2>4
<1> QED
    BY <1>1, IInvAlways, PTL

\* Every packet buffer is freed once.
THEOREM BuffersOwned ==
    ASSUME OneAtATime
    PROVE  Spec => []PbufsOwned
<1>1. IInv => PbufsOwned
    BY DEF IInv, CountInv, PbufsOwned
<1> QED
    BY <1>1, IInvAlways, PTL

\* What FIONREAD told of is there for the next atu_recv_r.
THEOREM ToldIsThere ==
    ASSUME OneAtATime
    PROVE  Spec => []AvailableKept
<1>1. IInv => AvailableKept
  <2> SUFFICES ASSUME IInv, AllIdle, avail > 0
               PROVE  pbuf # NoPbuf /\ bytes_left >= avail
    BY DEF AvailableKept
  <2>1. avail <= bytes_left /\ avail \in Nat /\ bytes_left \in Nat
    BY DEF IInv, CountInv, TypeOK
  <2>2. open /\ (Empty \/ Partly)
    BY <2>1 DEF IInv, HandInv, Closed, AllIdle, Idle, Aside
  <2> QED
    BY <2>1, <2>2 DEF Empty, Partly, NoPbuf
<1> QED
    BY <1>1, IInvAlways, PTL

\* A call goes on by steps of its own task only.
LEMMA MovesItself ==
    ASSUME OneAtATime, TypeOK, Next, NEW t \in Tasks, pc'[t] # pc[t]
    PROVE  Start(t) \/ Step(t)
<1>1. pc \in [Tasks -> Pcs]
    BY DEF TypeOK
<1>2. ASSUME NEW u \in Tasks, u # t PROVE ~Start(u) /\ ~Step(u)
    BY <1>1, <1>2 DEF Start, Step, RecvCall, IoctlCall, SetTimeout, SetFlags,
        Connect, SendCall, Save, SetPoll, Enter, Receive, Restore, CheckRecv,
        CheckIoctl, Copy, Consume, Write, Flush, Look, SendTo, Return, Goto
<1>3. ~(Esp \/ Close \/ Socket \/ Accept)
    BY DEF Esp, PeerCloses, Deliver, Close, Socket, Accept, Reopen, AllIdle, Idle
<1> QED
    BY <1>2, <1>3 DEF Next

\* MSG_DONTWAIT is for its own operation only.
THEOREM DontWaitStaysLocal ==
    ASSUME OneAtATime
    PROVE  Spec => DontWaitIsLocal
<1>1. ASSUME IInv, Next, NEW t \in Tasks, pc[t] = "enter", pc'[t] = "receive"
      PROVE  wait'[t] = IF nowait[t] THEN Poll ELSE asked
  <2>1. pc \in [Tasks -> Pcs] /\ wait \in [Tasks -> {Forever, Poll, Finite}]
    BY <1>1 DEF IInv, TypeOK
  <2>2. Step(t)
    <3>1. Start(t) \/ Step(t)
        BY <1>1, MovesItself DEF IInv
    <3>2. ~Start(t)
        BY <1>1 DEF Start, RecvCall, IoctlCall, SetTimeout, SetFlags, Connect,
            SendCall, MayStart, Idle
    <3> QED
        BY <3>1, <3>2
  <2>7. Enter(t)
    BY <1>1, <2>2 DEF Step, Save, SetPoll, Receive, Restore, CheckRecv,
        CheckIoctl, Copy, Consume, Write, Flush, Look, SendTo
  <2>8. wait'[t] = rcv_timeout
    BY <2>1, <2>7 DEF Enter
  <2>9. nowait[t] => rcv_timeout = Poll
    BY <1>1 DEF IInv, TimeInv, Polling
  <2>10. ~nowait[t] => rcv_timeout = asked
    BY <1>1, TimeoutIsAsked DEF Polling, Idle
  <2> QED
    BY <2>8, <2>9, <2>10
<1>2. IInv /\ [Next]_vars =>
        [\A t \in Tasks : pc[t] = "enter" /\ pc'[t] = "receive" =>
            wait'[t] = IF nowait[t] THEN Poll ELSE asked]_vars
    BY <1>1
<1> QED
    BY <1>2, IInvAlways, PTL DEF Spec, DontWaitIsLocal

\* A call that has fetched its connection and waits for it.
Waits(t) ==
    \/ pc[t] \in {"poll", "enter", "receive", "restore", "check"}
    \/ pc[t] = "save" /\ call[t] # "ioctl"

\* A connection that is up and not the one it fetched was made since.
JoinInv ==
    \A t \in Tasks :
        /\ Waits(t)
        /\ econ[t] = "old" \/ (econ[t] = "null" /\ active)
        => joined[t]

\* What a call fetches is the connection that there is, if it is up.
LEMMA FetchedIsNow ==
    Fetched \in {"null", "now"} /\ (Fetched = "null" => ~active)
BY DEF Fetched, active

\* A connection that is made is new to every call that waits.
LEMMA ConnectsJoins ==
    ASSUME TypeOK, JoinInv, Connects,
           \A u \in Tasks : Waits(u)' => Waits(u)
    PROVE  JoinInv'
<1>1. \A u \in Tasks : Waits(u) => ~Idle(u)
    BY DEF Waits, Idle
<1>2. \A u \in Tasks : joined'[u] = (joined[u] \/ ~Idle(u))
    BY DEF Connects
<1>3. \A u \in Tasks : Waits(u)' => joined'[u]
    BY <1>1, <1>2
<1> QED
    BY <1>3 DEF JoinInv

\* JoinInv is kept by every step.
LEMMA JoinKeeps ==
    ASSUME OneAtATime, IInv, JoinInv, [Next]_vars
    PROVE  JoinInv'
<1>1. /\ pc \in [Tasks -> Pcs] /\ econ \in [Tasks -> {"null", "now", "old"}]
      /\ joined \in [Tasks -> BOOLEAN]
      /\ call \in [Tasks -> {"none", "recv", "ioctl", "send", "sendto"}]
    BY DEF IInv, TypeOK
<1>2. CASE UNCHANGED <<pc, call, econ, joined>> /\ (active' => active)
    BY <1>2 DEF JoinInv, Waits
<1>3. CASE UNCHANGED vars \/ PeerCloses \/ \E n \in 1 .. MaxPbuf : Deliver(n)
    BY <1>2, <1>3 DEF vars, netconn, locals, known, seen, PeerCloses, Deliver,
        active
<1>4. CASE Close \/ Socket \/ Accept
  <2>1. \A t \in Tasks : pc'[t] = "idle"
    BY <1>4 DEF Close, Socket, Accept, Reopen, IInv, Closed, AllIdle, Idle
  <2> QED
    BY <2>1 DEF JoinInv, Waits
<1>5. ASSUME NEW t \in Tasks, Start(t) \/ Step(t) PROVE JoinInv'
  <2>1. CASE Connect(t)
    BY <2>1, ConnectsJoins DEF IInv, Connect, Waits
  <2>2. CASE Look(t) /\ Connects
    <3>1. \A u \in Tasks : Waits(u)' => Waits(u)
        BY <1>1, <2>2 DEF Look, Connects, Waits, Goto, active, locals
    <3> QED
        BY <2>2, <3>1, ConnectsJoins DEF IInv
  <2>3. CASE ~Connect(t) /\ ~(Look(t) /\ Connects)
    <3>1. UNCHANGED link
        BY <1>5, <2>3 DEF Start, Step, RecvCall, IoctlCall, SetTimeout,
            SetFlags, SendCall, Save, SetPoll, Enter, Receive, Restore,
            CheckRecv, CheckIoctl, Copy, Consume, Write, Flush, Look, SendTo,
            netconn
    <3>2. \A u \in Tasks : u # t =>
            /\ pc'[u] = pc[u] /\ call'[u] = call[u]
            /\ econ'[u] = econ[u] /\ joined'[u] = joined[u]
        BY <1>1, <1>5, <2>3 DEF Start, Step, RecvCall, IoctlCall, SetTimeout,
            SetFlags, SendCall, Save, SetPoll, Enter, Receive, Restore,
            CheckRecv, CheckIoctl, Copy, Consume, Write, Flush, Look, SendTo,
            Return, Goto, locals, known, seen
    <3>3. \/ ~Waits(t)'
          \/ econ'[t] = Fetched
          \/ Waits(t) /\ econ'[t] = econ[t] /\ joined'[t] = joined[t]
        <4>1. CASE RecvCall(t)
            BY <1>1, <4>1 DEF RecvCall
        <4>2. CASE Save(t)
            BY <1>1, <4>2 DEF Save, Waits, known, seen
        <4>3. CASE SetPoll(t) \/ Enter(t) \/ Receive(t) \/ Restore(t)
            BY <4>3 DEF SetPoll, Enter, Receive, Restore, Waits, locals,
                known, seen
        <4>4. CASE SetTimeout(t) \/ SetFlags(t)
            BY <1>1, <4>4 DEF SetTimeout, SetFlags, MayStart, Idle, Waits
        <4>5. CASE IoctlCall(t)
            BY <1>1, <4>5 DEF IoctlCall, MayStart, Idle, Waits, Goto
        <4>6. CASE \/ SendCall(t) \/ CheckRecv(t) \/ CheckIoctl(t) \/ Copy(t)
                   \/ Consume(t) \/ Write(t) \/ Flush(t) \/ Look(t) \/ SendTo(t)
            BY <1>1, <4>6 DEF SendCall, CheckRecv, CheckIoctl, Copy, Consume,
                Write, Flush, Look, SendTo, Return, Goto, Waits
        <4> QED
            BY <1>5, <2>3, <4>1, <4>2, <4>3, <4>4, <4>5, <4>6 DEF Start, Step
    <3>4. /\ Waits(t)'
          /\ econ'[t] = "old" \/ (econ'[t] = "null" /\ active)
          => joined'[t]
        BY <3>3, FetchedIsNow DEF JoinInv
    <3>5. active' = active
        BY <3>1 DEF active
    <3> QED
        BY <3>2, <3>4, <3>5 DEF JoinInv, Waits
  <2> QED
    BY <2>1, <2>2, <2>3
<1> QED
    BY <1>3, <1>4, <1>5 DEF Next, Esp

\* A call is told of the end of the stream, or of no connection, while one is
\* up only if that one was made since the call began; and a reader that is told
\* of the end has every byte that had arrived when its receive gave up.
THEOREM EndIsTheEnd ==
    ASSUME OneAtATime
    PROVE  Spec => EndOfStream
<1>1. Init => JoinInv
    BY DEF Init, JoinInv, Waits
<1>2. IInv /\ JoinInv /\ [Next]_vars => JoinInv'
    BY JoinKeeps
<1>3. ASSUME JoinInv, NEW t \in Tasks, pc[t] = "check", active,
             NEW on \in esp_conn_is_active(econ[t]), ~on,
             econ[t] \in {"null", "now", "old"}
      PROVE  joined[t]
    BY <1>3 DEF JoinInv, Waits, esp_conn_is_active
<1>4. ASSUME IInv, NEW t \in Tasks, pc[t] = "check", r[t] # "ok", ~late[t]
      PROVE  Len(read) = sent
  <2>1. Empty /\ mbox = <<>>
    BY <1>4 DEF IInv, HandInv, LateInv, Looking
  <2> QED
    BY <2>1 DEF Empty, Received, Taken
<1> DEFINE Told(t) ==
        /\ call[t] = "recv" /\ MayEnd(t) =>
            (active => joined[t]) /\ (late[t] \/ Len(read) = sent)
        /\ call[t] = "ioctl" /\ MayFail(t) => (active => joined[t])
<1>5. ASSUME IInv, JoinInv, NEW t \in Tasks, pc[t] = "check"
      PROVE  Told(t)
  <2>1. econ[t] \in {"null", "now", "old"} /\ late[t] \in BOOLEAN
    BY <1>5 DEF IInv, TypeOK
  <2>2. MayEnd(t) => (active => joined[t]) /\ (late[t] \/ Len(read) = sent)
    BY <1>3, <1>4, <1>5, <2>1 DEF MayEnd, AtEnd
  <2>3. MayFail(t) => (active => joined[t])
    BY <1>3, <1>5, <2>1 DEF MayFail, Inactive
  <2> QED
    BY <2>2, <2>3
<1>6. IInv /\ JoinInv =>
        [\A t \in Tasks : pc[t] = "check" /\ pc'[t] = "idle" => Told(t)]_vars
    BY <1>5
<1>7. Spec => []JoinInv
    BY <1>1, <1>2, IInvAlways, PTL DEF Spec
<1> QED
    BY <1>6, <1>7, IInvAlways, PTL DEF EndOfStream

\* The netconn holds bytes back only while a call is about to flush it.
HeldInv ==
    /\ pc \in [Tasks -> Pcs]
    /\ out = "held" => \E t \in Tasks : pc[t] = "flush"

\* atu_send_r leaves nothing held, whether or not calls overlap: the call that
\* wrote last flushes after it.
THEOREM NothingStaysHeld == Spec => []NothingHeld
<1>1. Init => HeldInv
    BY DEF Init, HeldInv, Pcs
<1>2. ASSUME HeldInv, Next PROVE HeldInv'
  <2>1. CASE Esp \/ Close \/ Socket \/ Accept
    BY <1>2, <2>1 DEF HeldInv, Esp, PeerCloses, Deliver, Close, Socket, Accept,
        Reopen, Idle, Pcs
  <2>2. ASSUME NEW u \in Tasks, Start(u) \/ Step(u) PROVE HeldInv'
    <3>1. PICK l \in Pcs : Goto(u, l)
      <4>1. pc' = pc => Goto(u, pc[u]) /\ pc[u] \in Pcs
        BY <1>2 DEF HeldInv, Goto
      <4> QED
        BY <2>2, <4>1 DEF Start, Step, RecvCall, IoctlCall, SetTimeout,
            SetFlags, Connect, SendCall, Save, SetPoll, Enter, Receive, Restore,
            CheckRecv, CheckIoctl, Copy, Consume, Write, Flush, Look, SendTo,
            Return, Pcs
    <3>2. /\ pc' \in [Tasks -> Pcs] /\ pc'[u] = l
          /\ \A t \in Tasks : t # u => pc'[t] = pc[t]
        BY <1>2, <3>1 DEF HeldInv, Goto
    <3>3. \/ UNCHANGED out /\ pc[u] # "flush"
          \/ UNCHANGED <<out, pc>>
          \/ pc'[u] = "flush"
          \/ out' # "held"
        BY <1>2, <2>2 DEF HeldInv, Start, Step, RecvCall, IoctlCall, SetTimeout,
            SetFlags, Connect, SendCall, Save, SetPoll, Enter, Receive, Restore,
            CheckRecv, CheckIoctl, Copy, Consume, Write, Flush, Look, SendTo,
            Return, Goto, netconn, Flushed, MayStart, Idle
    <3> QED
        BY <1>2, <3>2, <3>3 DEF HeldInv
  <2> QED
    BY <1>2, <2>1, <2>2 DEF Next
<1>3. HeldInv /\ UNCHANGED vars => HeldInv'
    BY DEF HeldInv, vars, netconn
<1>4. HeldInv => NothingHeld
    BY DEF HeldInv, NothingHeld, AllIdle, Idle
<1> QED
    BY <1>1, <1>2, <1>3, <1>4, PTL DEF Spec

\* A reader gets the bytes of the connection that is open, each once and in
\* order: SocketIo implements ByteStream.
THEOREM Refinement ==
    ASSUME OneAtATime
    PROVE  Spec => KeepsPromise
<1>1. Init => Promise!Init
    BY DEF Init, Promise!Init
<1>2. ASSUME IInv, Next PROVE [Promise!Next]_<<sent, read>>
  <2>1. CASE \E n \in 1 .. MaxPbuf : Deliver(n)
    BY <1>2, <2>1, BoundsNat DEF Deliver, Promise!Next, Promise!Arrive, IInv,
        TypeOK
  <2>2. CASE Socket \/ Accept
    BY <2>2 DEF Socket, Accept, Reopen, Promise!Next, Promise!Renew
  <2>3. CASE \E t \in Tasks : Copy(t)
    <3>1. PICK t \in Tasks : Copy(t)
        BY <2>3
    <3>2. /\ sz'[t] \in 0 .. MaxLen
          /\ Len(read) \in Nat /\ Received \in Nat
          /\ Len(read) + sz'[t] <= Received /\ Received <= sent
          /\ read' = read \o [i \in 1 .. sz'[t] |-> Len(read) + i]
        BY <1>2, <3>1, CopyReads
    <3>3. sz'[t] \in 0 .. sent - Len(read)
        BY <1>2, <3>2, BoundsNat, SMTT(30) DEF IInv, TypeOK
    <3>4. UNCHANGED sent
        BY <3>1 DEF Copy
    <3> QED
        BY <3>2, <3>3, <3>4 DEF Promise!Next, Promise!Read
  <2>4. ASSUME NEW t \in Tasks, Start(t) \/ Step(t), ~Copy(t)
        PROVE  UNCHANGED <<sent, read>>
    BY <2>4 DEF Start, Step, RecvCall, IoctlCall, SetTimeout, SetFlags, Connect,
        SendCall, Save, SetPoll, Enter, Receive, Restore, CheckRecv, CheckIoctl,
        Consume, Write, Flush, Look, SendTo, known, seen
  <2>5. ASSUME PeerCloses \/ Close PROVE UNCHANGED <<sent, read>>
    BY <2>5 DEF PeerCloses, Close, known, seen
  <2> QED
    BY <1>2, <2>1, <2>2, <2>3, <2>4, <2>5 DEF Next, Esp
<1>3. UNCHANGED vars => UNCHANGED <<sent, read>>
    BY DEF vars, known, seen
<1>4. IInv /\ [Next]_vars => [Promise!Next]_<<sent, read>>
    BY <1>2, <1>3
<1> QED
    BY <1>1, <1>4, IInvAlways, PTL DEF Spec, KeepsPromise, Promise!Spec
=============================================================================
