-------------------------- MODULE SocketGrowthProofs --------------------------
(***************************************************************************)
(* Proofs about SocketGrowth: when no socket is opened while the reader is *)
(* in a call, a growth of the table is harmless to it, for any number of   *)
(* growths, bytes and lengths.                                             *)
(*                                                                         *)
(* The inductive invariant says who is at work (Turns), what the new table *)
(* has of the old one (CopyInv), what the entry in use and the counts of   *)
(* bytes have to do with each other at each step of a call (Hand), and the *)
(* same of the flags (Flags) and of the bytes on their way (Counts).       *)
(***************************************************************************)
EXTENDS SocketGrowth, TLAPS

\* The entry of the table in use.
P == pbuf[netconn_maps]
L == bytes_left[netconn_maps]

\* The growth and the call never overlap, so nf leads into the table in use.
Turns ==
    /\ growing => Idle
    /\ ~growing => todo = {}
    /\ ~Idle => nf = netconn_maps
    /\ pc \in {"test", "receive", "left"} => call \in {"recv", "ioctl"}

\* What memcpy has done, it has done right.
CopyInv ==
    growing =>
        /\ "pbuf" \notin todo => pbuf[New] = P
        /\ "bytes_left" \notin todo => bytes_left[New] = L
        /\ "file_flag" \notin todo => file_flag[New] = file_flag[netconn_maps]

\* There is no buffer, and callers have all bytes.
Empty == P = NoPbuf /\ L = 0 /\ live = {} /\ got = taken

\* There is the buffer received last, with L bytes that callers have not got.
Full ==
    /\ P.last = taken /\ live = {taken}
    /\ L \in 1 .. P.len /\ got + L = taken

Hand ==
    /\ pc \in {"idle", "test", "store"} => Empty \/ Full
    /\ pc = "receive" => Empty
    /\ pc = "left" =>
        \/ Empty /\ call = "ioctl"
        \/ /\ P.last = taken /\ live = {taken} /\ L = 0
           /\ P.len > 0 /\ got + P.len = taken
    /\ pc = "copy" => Full
    /\ pc = "consume" =>
        /\ P.last = taken /\ live = {taken}
        /\ L \in 1 .. P.len /\ sz <= L /\ got + L = taken + sz
    /\ pc = "free" => P.last = taken /\ live = {taken} /\ L = 0 /\ got = taken
    /\ pc = "null" => L = 0 /\ live = {} /\ got = taken

Flags ==
    IF pc = "store" THEN asked = val ELSE file_flag[netconn_maps] = asked

Counts == got <= taken /\ taken <= sent

IInv == TypeOK /\ Turns /\ CopyInv /\ Hand /\ Flags /\ Counts

-----------------------------------------------------------------------------
(* Types, and where the call is.                                           *)

EntryType ==
    /\ pbuf \in [Tables -> Pbufs]
    /\ bytes_left \in [Tables -> 0 .. MaxPbuf]
    /\ file_flag \in [Tables -> BOOLEAN]

WorkType ==
    /\ netconn_maps \in Tables /\ growing \in BOOLEAN /\ todo \in SUBSET Fields
    /\ growing => netconn_maps < MaxTables
    /\ pc \in Pcs /\ call \in {"none", "recv", "ioctl", "fcntl"}
    /\ nf \in Tables
    /\ len \in 0 .. MaxLen /\ val \in BOOLEAN /\ sz \in 0 .. MaxLen

BytesType ==
    /\ sent \in 0 .. MaxBytes /\ taken \in 0 .. MaxBytes /\ got \in 0 .. MaxBytes
    /\ live \in SUBSET (1 .. MaxBytes) /\ asked \in BOOLEAN

\* The type invariant in three parts, so that a step need only prove those it
\* disturbs.
LEMMA Types == TypeOK <=> EntryType /\ WorkType /\ BytesType
BY DEF TypeOK, EntryType, WorkType, BytesType

\* The same after a step.
LEMMA TypesNext == TypeOK' <=> EntryType' /\ WorkType' /\ BytesType'
BY DEF TypeOK, EntryType, WorkType, BytesType

\* What the bounds say.
LEMMA Constants ==
    /\ MaxTables \in Nat \ {0} /\ MaxBytes \in Nat \ {0}
    /\ MaxPbuf \in Nat \ {0} /\ MaxLen \in Nat \ {0}
    /\ 1 \in Tables /\ NoPbuf \in Pbufs /\ NoPbuf.last = 0 /\ NoPbuf.len = 0
    /\ Tables \subseteq Nat
BY BoundsAre DEF Tables, NoPbuf, Pbufs

\* The entry in use has its type.
LEMMA InUse ==
    ASSUME EntryType, WorkType
    PROVE  /\ P \in Pbufs /\ P.last \in 0 .. MaxBytes /\ P.len \in 0 .. MaxPbuf
           /\ L \in 0 .. MaxPbuf
BY DEF EntryType, WorkType, P, L, Pbufs

\* A call runs alone and works on the table in use.
LEMMA Alone ==
    ASSUME IInv, ~Idle
    PROVE  /\ ~growing /\ todo = {} /\ nf = netconn_maps /\ nf \in Tables
           /\ pbuf[nf] = P /\ bytes_left[nf] = L
           /\ EntryType /\ WorkType /\ BytesType
BY Types DEF IInv, Turns, WorkType, P, L

-----------------------------------------------------------------------------
(* The invariant holds at the start, and every action keeps it.            *)

\* The table is empty, and so is the entry.
LEMMA Starts == Init => IInv
<1> SUFFICES ASSUME Init PROVE IInv
    OBVIOUS
<1>1. EntryType
    BY Constants DEF Init, EntryType
<1>2. WorkType
    <2>1. 0 \in 0 .. MaxLen
        BY Constants
    <2> QED
        BY <2>1, Constants, Zenon DEF Init, WorkType, Pcs
<1>3. BytesType
    <2>1. 0 \in 0 .. MaxBytes
        BY Constants
    <2> QED
        BY <2>1, Zenon DEF Init, BytesType
<1>4. P = NoPbuf /\ L = 0 /\ file_flag[netconn_maps] = FALSE
    BY Constants DEF Init, P, L
<1>5. Turns /\ CopyInv /\ Flags
    BY <1>4, Zenon DEF Init, Turns, CopyInv, Flags, Idle
<1>6. Counts
    BY DEF Init, Counts
<1>7. Empty
    BY <1>4 DEF Init, Empty
<1>8. Hand
    BY <1>7 DEF Init, Hand
<1> QED
    BY <1>1, <1>5, <1>2, <1>3, <1>8, <1>6, Types DEF IInv

\* Bytes that arrive wait in the mailbox.
LEMMA DeliverStep ==
    ASSUME IInv, Deliver
    PROVE  IInv'
<1>1. EntryType /\ WorkType /\ BytesType
    BY Types DEF IInv
<1>2. EntryType' /\ WorkType' /\ BytesType' /\ Counts'
    BY <1>1, Constants DEF IInv, Counts, Deliver, EntryType, WorkType,
        BytesType, entry, opener, locals
<1>3. Turns' /\ CopyInv' /\ Hand' /\ Flags'
    BY DEF IInv, Turns, CopyInv, Hand, Flags, Empty, Full, P, L, New, Idle,
        Deliver, entry, opener, locals
<1> QED
    BY <1>2, <1>3, TypesNext DEF IInv

\* A growth begins between calls, with nothing copied.
LEMMA GrowStep ==
    ASSUME GrowsApart, IInv, Grow
    PROVE  IInv'
<1>1. EntryType /\ WorkType /\ BytesType
    BY Types DEF IInv
<1>2. EntryType' /\ WorkType' /\ BytesType' /\ Counts'
    BY <1>1 DEF IInv, Counts, Grow, Copied, EntryType, WorkType, BytesType,
        entry, locals, known
<1>3. Turns' /\ CopyInv' /\ Hand' /\ Flags'
    BY DEF IInv, Turns, CopyInv, Hand, Flags, Empty, Full, P, L, New, Idle,
        Grow, Copied, Fields, entry, locals, known
<1> QED
    BY <1>2, <1>3, TypesNext DEF IInv

\* memcpy writes to the new table only.
LEMMA CopyStep ==
    ASSUME IInv, CopyField
    PROVE  IInv'
<1>1. EntryType /\ WorkType /\ BytesType /\ Turns /\ CopyInv
    BY Types DEF IInv
<1>2. New \in Tables /\ New # netconn_maps /\ New' = New
    BY <1>1, Constants DEF CopyField, WorkType, New, Tables
<1>3. /\ P' = P /\ L' = L /\ file_flag'[netconn_maps] = file_flag[netconn_maps]
      /\ netconn_maps' = netconn_maps
    BY <1>1, <1>2 DEF CopyField, EntryType, WorkType, Moved, P, L
<1>4. PICK f \in todo :
        /\ todo' = todo \ {f}
        /\ pbuf' = IF f = "pbuf" THEN Moved(pbuf) ELSE pbuf
        /\ bytes_left' = IF f = "bytes_left" THEN Moved(bytes_left) ELSE bytes_left
        /\ file_flag' = IF f = "file_flag" THEN Moved(file_flag) ELSE file_flag
    BY DEF CopyField
<1>5. EntryType'
    BY <1>1, <1>2, <1>4 DEF EntryType, WorkType, Moved
<1>6. WorkType' /\ BytesType' /\ Counts' /\ Turns'
    BY <1>1, <1>4 DEF IInv, Counts, CopyField, WorkType, BytesType, Turns, Idle,
        locals, known
<1>7. CopyInv'
    <2>1. f = "pbuf" => pbuf'[New] = P
        BY <1>1, <1>2, <1>4 DEF Moved, EntryType, P
    <2>2. f = "bytes_left" => bytes_left'[New] = L
        BY <1>1, <1>2, <1>4 DEF Moved, EntryType, L
    <2>3. f = "file_flag" => file_flag'[New] = file_flag[netconn_maps]
        BY <1>1, <1>2, <1>4 DEF Moved, EntryType
    <2> QED
        BY <1>1, <1>2, <1>3, <1>4, <2>1, <2>2, <2>3 DEF CopyInv, CopyField
<1>8. Hand' /\ Flags'
    BY <1>3 DEF IInv, Hand, Flags, Empty, Full, CopyField, locals, known
<1> QED
    BY <1>5, <1>6, <1>7, <1>8, TypesNext DEF IInv

\* The new table has the entry as the old one did.
LEMMA PublishStep ==
    ASSUME IInv, Publish
    PROVE  IInv'
<1>1. EntryType /\ WorkType /\ BytesType /\ Idle
    BY Types DEF IInv, Turns, Publish
<1>2. New \in Tables
    BY <1>1, Constants DEF Publish, WorkType, New, Tables
<1>3. P' = P /\ L' = L /\ file_flag'[netconn_maps'] = file_flag[netconn_maps]
    BY DEF IInv, CopyInv, Publish, P, L, entry
<1>4. EntryType' /\ WorkType' /\ BytesType' /\ Counts'
    BY <1>1, <1>2 DEF IInv, Counts, Publish, EntryType, WorkType, BytesType,
        entry, locals, known
<1>5. Turns' /\ CopyInv'
    BY <1>1 DEF Turns, CopyInv, Publish, Idle
<1>6. Hand' /\ Flags'
    BY <1>1, <1>3 DEF IInv, Hand, Flags, Empty, Full, Publish, Idle, locals,
        known
<1> QED
    BY <1>4, <1>5, <1>6, TypesNext DEF IInv

\* A call begins where the last one left off.
LEMMA BeginStep ==
    ASSUME GrowsApart, IInv, Call
    PROVE  IInv'
<1>1. EntryType /\ WorkType /\ BytesType /\ Idle /\ ~growing /\ todo = {}
    BY Types DEF IInv, Turns, Call, RecvCall, IoctlCall, FcntlCall, Begin,
        LookedUp
<1>2. UNCHANGED <<entry, opener, sz, sent, taken, got, live>>
    BY DEF Call, RecvCall, IoctlCall, FcntlCall, Begin, LookedUp, known
<1>3. /\ pc' \in {"test", "store"} /\ nf' = netconn_maps
      /\ pc' = "test" => call' \in {"recv", "ioctl"} /\ asked' = asked
      /\ pc' = "store" => call' = "fcntl" /\ asked' = val'
      /\ len' \in 0 .. MaxLen /\ val' \in BOOLEAN /\ asked' \in BOOLEAN
    BY <1>1 DEF Call, RecvCall, IoctlCall, FcntlCall, Begin, LookedUp, known,
        WorkType, BytesType
<1>4. EntryType' /\ WorkType' /\ BytesType' /\ Counts'
    BY <1>1, <1>2, <1>3 DEF IInv, Counts, EntryType, WorkType, BytesType, entry,
        opener, Pcs
<1>5. Turns' /\ CopyInv'
    BY <1>1, <1>2, <1>3 DEF Turns, CopyInv, opener
<1>6. P' = P /\ L' = L /\ UNCHANGED file_flag /\ UNCHANGED netconn_maps
    BY <1>2 DEF entry, opener, P, L
<1>7. Hand' /\ Flags'
    BY <1>1, <1>2, <1>3, <1>6 DEF IInv, Hand, Flags, Empty, Full, Idle
<1> QED
    BY <1>4, <1>5, <1>7, TypesNext DEF IInv

\* F_SETFL stores what was asked, in the table in use.
LEMMA FlagStep ==
    ASSUME IInv, StoreFlag
    PROVE  IInv'
<1>1. /\ ~growing /\ todo = {} /\ nf = netconn_maps /\ nf \in Tables
      /\ pbuf[nf] = P /\ bytes_left[nf] = L
      /\ EntryType /\ WorkType /\ BytesType
    BY Alone DEF StoreFlag, Idle
<1>2. P \in Pbufs /\ P.last \in 0 .. MaxBytes /\ P.len \in 0 .. MaxPbuf /\ L \in 0 .. MaxPbuf
    BY <1>1, InUse
<1>3. Turns /\ Hand /\ Flags /\ Counts
    BY DEF IInv
<1>4. P' = P /\ L' = L /\ netconn_maps' = netconn_maps
    BY <1>1 DEF EntryType, P, L, StoreFlag, opener
<1>5. EntryType'
    BY <1>1 DEF EntryType, WorkType, StoreFlag
<1>6. WorkType' /\ BytesType' /\ Counts'
    BY <1>1, <1>2, <1>3, Constants DEF WorkType, BytesType, Counts, Hand, Empty,
        Full, Pcs, StoreFlag, Return, opener, known
<1>7. Turns' /\ CopyInv' /\ Flags'
    BY <1>1, <1>3 DEF EntryType, Turns, CopyInv, Flags, Idle, StoreFlag, Return,
        opener, known
<1>8. Hand'
    BY <1>1, <1>2, <1>3, <1>4, Constants DEF Hand, Empty, Full, BytesType,
        StoreFlag, Return, known
<1> QED
    BY <1>5, <1>6, <1>7, <1>8, TypesNext DEF IInv

\* Full has bytes, Empty has none.
LEMMA TestStep ==
    ASSUME IInv, Test
    PROVE  IInv'
<1>1. /\ ~growing /\ todo = {} /\ nf = netconn_maps /\ nf \in Tables
      /\ pbuf[nf] = P /\ bytes_left[nf] = L
      /\ EntryType /\ WorkType /\ BytesType
    BY Alone DEF Test, Idle
<1>2. P \in Pbufs /\ P.last \in 0 .. MaxBytes /\ P.len \in 0 .. MaxPbuf /\ L \in 0 .. MaxPbuf
    BY <1>1, InUse
<1>3. Turns /\ Hand /\ Flags /\ Counts
    BY DEF IInv
<1>4. P' = P /\ L' = L /\ netconn_maps' = netconn_maps
    BY <1>1 DEF EntryType, P, L, Test, HasBytes, entry, opener
<1>5. EntryType'
    BY <1>1, <1>2, Constants DEF EntryType, Test, HasBytes, entry
<1>6. WorkType' /\ BytesType' /\ Counts'
    BY <1>1, <1>2, <1>3, Constants DEF WorkType, BytesType, Counts, Hand, Empty,
        Full, Pcs, Test, HasBytes, Return, opener, known
<1>7. Turns' /\ CopyInv' /\ Flags'
    BY <1>1, <1>3 DEF EntryType, Turns, CopyInv, Flags, Idle, Test, HasBytes,
        Return, entry, opener, known
<1>8. Hand'
    BY <1>1, <1>2, <1>3, <1>4, Constants DEF Hand, Empty, Full, BytesType, Test,
        HasBytes, Return, known
<1> QED
    BY <1>5, <1>6, <1>7, <1>8, TypesNext DEF IInv

\* A new buffer is the next bytes of the connection.
LEMMA ReceiveStep ==
    ASSUME IInv, Receive
    PROVE  IInv'
<1>1. /\ ~growing /\ todo = {} /\ nf = netconn_maps /\ nf \in Tables
      /\ pbuf[nf] = P /\ bytes_left[nf] = L
      /\ EntryType /\ WorkType /\ BytesType
    BY Alone DEF Receive, Idle
<1>2. P \in Pbufs /\ P.last \in 0 .. MaxBytes /\ P.len \in 0 .. MaxPbuf /\ L \in 0 .. MaxPbuf
    BY <1>1, InUse
<1>3. Turns /\ Hand /\ Flags /\ Counts
    BY DEF IInv
<1>4. PICK n \in 1 .. MaxPbuf :
        /\ taken + n <= sent
        /\ pbuf' = [pbuf EXCEPT ![nf] = [last |-> taken + n, len |-> n]]
        /\ taken' = taken + n
        /\ live' = live \cup {taken + n}
    BY DEF Receive
<1>5. /\ n \in 0 .. MaxPbuf /\ n > 0 /\ taken + n \in 1 .. MaxBytes
      /\ taken \in Nat /\ got \in Nat
    BY <1>1, <1>4, Constants DEF BytesType
<1>6. [last |-> taken + n, len |-> n] \in Pbufs
    BY <1>5 DEF Pbufs
<1>7. EntryType'
    BY <1>1, <1>4, <1>6 DEF EntryType, Receive
<1>8. /\ P' = [last |-> taken', len |-> n] /\ L' = L
      /\ netconn_maps' = netconn_maps
    BY <1>1, <1>4 DEF EntryType, P, L, Receive, opener
<1>9. WorkType' /\ BytesType' /\ Counts'
    BY <1>1, <1>3, <1>4, <1>5, Constants DEF WorkType, BytesType, Counts, Pcs,
        Receive, opener, locals
<1>10. Turns' /\ CopyInv' /\ Flags'
    BY <1>1, <1>3 DEF EntryType, Turns, CopyInv, Flags, Idle, Receive, opener,
        locals
<1>11. Empty /\ got' = got /\ pc' = "left" /\ call' = call
    BY <1>3 DEF Hand, Receive, locals
<1>12. P'.last = taken' /\ P'.len = n /\ live' = {taken'} /\ L' = 0 /\ got' + n = taken'
    BY <1>4, <1>8, <1>11 DEF Empty
<1>13. Hand'
    BY <1>5, <1>11, <1>12 DEF Hand
<1> QED
    BY <1>7, <1>9, <1>10, <1>13, TypesNext DEF IInv

\* A receive that fails leaves the entry empty, as it was.
LEMMA FailStep ==
    ASSUME IInv, ReceiveFails
    PROVE  IInv'
<1>1. /\ ~growing /\ todo = {} /\ nf = netconn_maps /\ nf \in Tables
      /\ pbuf[nf] = P /\ bytes_left[nf] = L
      /\ EntryType /\ WorkType /\ BytesType
    BY Alone DEF ReceiveFails, Idle
<1>2. P \in Pbufs /\ P.last \in 0 .. MaxBytes /\ P.len \in 0 .. MaxPbuf /\ L \in 0 .. MaxPbuf
    BY <1>1, InUse
<1>3. Turns /\ Hand /\ Flags /\ Counts
    BY DEF IInv
<1>4. P' = NoPbuf /\ L' = L /\ netconn_maps' = netconn_maps
    BY <1>1 DEF EntryType, P, L, ReceiveFails, opener
<1>5. EntryType'
    BY <1>1, <1>2, Constants DEF EntryType, ReceiveFails
<1>6. WorkType' /\ BytesType' /\ Counts'
    BY <1>1, <1>2, <1>3, Constants DEF WorkType, BytesType, Counts, Hand, Empty,
        Full, Pcs, ReceiveFails, Return, opener, known
<1>7. Turns' /\ CopyInv' /\ Flags'
    BY <1>1, <1>3 DEF EntryType, Turns, CopyInv, Flags, Idle, ReceiveFails,
        Return, opener, known
<1>8. Hand'
    BY <1>1, <1>2, <1>3, <1>4, Constants DEF Hand, Empty, Full, BytesType,
        ReceiveFails, Return, known
<1> QED
    BY <1>5, <1>6, <1>7, <1>8, TypesNext DEF IInv

\* bytes_left is the whole of a new buffer, or 0 without one.
LEMMA LeftStep ==
    ASSUME IInv, SetLeft
    PROVE  IInv'
<1>1. /\ ~growing /\ todo = {} /\ nf = netconn_maps /\ nf \in Tables
      /\ pbuf[nf] = P /\ bytes_left[nf] = L
      /\ EntryType /\ WorkType /\ BytesType
    BY Alone DEF SetLeft, Idle
<1>2. P \in Pbufs /\ P.last \in 0 .. MaxBytes /\ P.len \in 0 .. MaxPbuf /\ L \in 0 .. MaxPbuf
    BY <1>1, InUse
<1>3. Turns /\ Hand /\ Flags /\ Counts
    BY DEF IInv
<1>4. P' = P /\ L' = P.len /\ netconn_maps' = netconn_maps
    BY <1>1 DEF EntryType, P, L, SetLeft, opener
<1>5. EntryType'
    BY <1>1, <1>2, Constants DEF EntryType, SetLeft
<1>6. WorkType' /\ BytesType' /\ Counts'
    BY <1>1, <1>2, <1>3, Constants DEF WorkType, BytesType, Counts, Hand, Empty,
        Full, Pcs, SetLeft, Return, opener, known
<1>7. Turns' /\ CopyInv' /\ Flags'
    BY <1>1, <1>3 DEF EntryType, Turns, CopyInv, Flags, Idle, SetLeft, Return,
        opener, known
<1>8. Hand'
    BY <1>1, <1>2, <1>3, <1>4, Constants DEF Hand, Empty, Full, BytesType,
        SetLeft, Return, known
<1> QED
    BY <1>5, <1>6, <1>7, <1>8, TypesNext DEF IInv

\* A copy takes at most what the buffer has.
LEMMA CopyOutStep ==
    ASSUME IInv, Copy
    PROVE  IInv'
<1>1. /\ ~growing /\ todo = {} /\ nf = netconn_maps /\ nf \in Tables
      /\ pbuf[nf] = P /\ bytes_left[nf] = L
      /\ EntryType /\ WorkType /\ BytesType
    BY Alone DEF Copy, Idle
<1>2. P \in Pbufs /\ P.last \in 0 .. MaxBytes /\ P.len \in 0 .. MaxPbuf /\ L \in 0 .. MaxPbuf
    BY <1>1, InUse
<1>3. Turns /\ Hand /\ Flags /\ Counts
    BY DEF IInv
<1>4. P' = P /\ L' = L /\ netconn_maps' = netconn_maps
    BY <1>1 DEF EntryType, P, L, Copy, Least, entry, opener
<1>5. EntryType'
    BY <1>1, <1>2, Constants DEF EntryType, Copy, Least, entry
<1>6. WorkType' /\ BytesType' /\ Counts'
    BY <1>1, <1>2, <1>3, Constants DEF WorkType, BytesType, Counts, Hand, Empty,
        Full, Pcs, Copy, Least, opener
<1>7. Turns' /\ CopyInv' /\ Flags'
    BY <1>1, <1>3 DEF EntryType, Turns, CopyInv, Flags, Idle, Copy, Least,
        entry, opener
<1>8. Full /\ sz' \in Nat /\ sz' <= L /\ got' = got + sz'
    BY <1>1, <1>2, <1>3 DEF Hand, WorkType, Copy, Least
<1>9. /\ P'.last = taken' /\ live' = {taken'}
      /\ L' \in 1 .. P'.len /\ sz' <= L' /\ got' + L' = taken' + sz'
    BY <1>1, <1>2, <1>4, <1>8 DEF Full, Copy, BytesType
<1>10. Hand'
    BY <1>9 DEF Hand, Copy
<1> QED
    BY <1>5, <1>6, <1>7, <1>10, TypesNext DEF IInv

\* bytes_left counts down what was copied, and is 0 when all of it was.
LEMMA ConsumeStep ==
    ASSUME IInv, Consume
    PROVE  IInv'
<1>1. /\ ~growing /\ todo = {} /\ nf = netconn_maps /\ nf \in Tables
      /\ pbuf[nf] = P /\ bytes_left[nf] = L
      /\ EntryType /\ WorkType /\ BytesType
    BY Alone DEF Consume, Idle
<1>2. P \in Pbufs /\ P.last \in 0 .. MaxBytes /\ P.len \in 0 .. MaxPbuf /\ L \in 0 .. MaxPbuf
    BY <1>1, InUse
<1>3. Turns /\ Hand /\ Flags /\ Counts
    BY DEF IInv
<1>4. P' = P /\ L' = L - sz /\ netconn_maps' = netconn_maps
    BY <1>1 DEF EntryType, P, L, Consume, UsedUp, opener
<1>5. /\ P.last = taken /\ live = {taken} /\ L \in 1 .. P.len
      /\ sz \in Nat /\ sz <= L /\ got + L = taken + sz
    BY <1>1, <1>3 DEF Hand, WorkType, Consume
<1>6. L - sz \in 0 .. MaxPbuf /\ L - sz \in 0 .. P.len /\ (UsedUp <=> L - sz = 0)
    <2>1. L \in Nat /\ P.len \in Nat /\ P.len <= MaxPbuf /\ bytes_left[nf] = L
        BY <1>1, <1>2
    <2> QED
        BY <1>5, <2>1, Constants DEF UsedUp
<1>7. EntryType'
    BY <1>1, <1>6 DEF EntryType, Consume
<1>8. WorkType' /\ BytesType' /\ Counts'
    BY <1>1, <1>2, <1>3, Constants DEF WorkType, BytesType, Counts, Hand, Empty,
        Full, Pcs, Consume, UsedUp, Return, opener, known
<1>9. Turns' /\ CopyInv' /\ Flags'
    BY <1>1, <1>3 DEF EntryType, Turns, CopyInv, Flags, Idle, Consume, UsedUp,
        Return, opener, known
<1>10. UNCHANGED <<taken, live, got>> /\ got \in Nat /\ taken \in Nat
    BY <1>1 DEF Consume, known, BytesType
<1>11. L - sz = 0 => pc' = "free"
    BY <1>6 DEF Consume
<1>12. L - sz # 0 => pc' = "idle"
    BY <1>6 DEF Consume, Return
<1>13. Hand'
    <2>1. CASE L - sz = 0
        BY <1>4, <1>5, <1>10, <1>11, <2>1 DEF Hand
    <2>2. CASE L - sz # 0
        <3>1. Full'
            BY <1>4, <1>5, <1>6, <1>10, <2>2 DEF Full
        <3> QED
            BY <1>12, <2>2, <3>1 DEF Hand
    <2> QED
        BY <2>1, <2>2
<1> QED
    BY <1>8, <1>9, <1>7, <1>13, TypesNext DEF IInv

\* The buffer that is freed is the one that is allocated.
LEMMA FreeStep ==
    ASSUME IInv, Free
    PROVE  IInv'
<1>1. /\ ~growing /\ todo = {} /\ nf = netconn_maps /\ nf \in Tables
      /\ pbuf[nf] = P /\ bytes_left[nf] = L
      /\ EntryType /\ WorkType /\ BytesType
    BY Alone DEF Free, Idle
<1>2. P \in Pbufs /\ P.last \in 0 .. MaxBytes /\ P.len \in 0 .. MaxPbuf /\ L \in 0 .. MaxPbuf
    BY <1>1, InUse
<1>3. Turns /\ Hand /\ Flags /\ Counts
    BY DEF IInv
<1>4. P' = P /\ L' = L /\ netconn_maps' = netconn_maps
    BY <1>1 DEF EntryType, P, L, Free, entry, opener
<1>5. EntryType'
    BY <1>1, <1>2, Constants DEF EntryType, Free, entry
<1>6. WorkType' /\ BytesType' /\ Counts'
    BY <1>1, <1>2, <1>3, Constants DEF WorkType, BytesType, Counts, Hand, Empty,
        Full, Pcs, Free, opener, locals
<1>7. Turns' /\ CopyInv' /\ Flags'
    BY <1>1, <1>3 DEF EntryType, Turns, CopyInv, Flags, Idle, Free, entry,
        opener, locals
<1>8. Hand'
    BY <1>1, <1>2, <1>3, <1>4, Constants DEF Hand, Empty, Full, BytesType, Free,
        locals
<1> QED
    BY <1>5, <1>6, <1>7, <1>8, TypesNext DEF IInv

\* After a free the entry is empty.
LEMMA NullStep ==
    ASSUME IInv, SetNull
    PROVE  IInv'
<1>1. /\ ~growing /\ todo = {} /\ nf = netconn_maps /\ nf \in Tables
      /\ pbuf[nf] = P /\ bytes_left[nf] = L
      /\ EntryType /\ WorkType /\ BytesType
    BY Alone DEF SetNull, Idle
<1>2. P \in Pbufs /\ P.last \in 0 .. MaxBytes /\ P.len \in 0 .. MaxPbuf /\ L \in 0 .. MaxPbuf
    BY <1>1, InUse
<1>3. Turns /\ Hand /\ Flags /\ Counts
    BY DEF IInv
<1>4. P' = NoPbuf /\ L' = L /\ netconn_maps' = netconn_maps
    BY <1>1 DEF EntryType, P, L, SetNull, opener
<1>5. EntryType'
    BY <1>1, <1>2, Constants DEF EntryType, SetNull
<1>6. WorkType' /\ BytesType' /\ Counts'
    BY <1>1, <1>2, <1>3, Constants DEF WorkType, BytesType, Counts, Hand, Empty,
        Full, Pcs, SetNull, Return, opener, known
<1>7. Turns' /\ CopyInv' /\ Flags'
    BY <1>1, <1>3 DEF EntryType, Turns, CopyInv, Flags, Idle, SetNull, Return,
        opener, known
<1>8. Hand'
    BY <1>1, <1>2, <1>3, <1>4, Constants DEF Hand, Empty, Full, BytesType,
        SetNull, Return, known
<1> QED
    BY <1>5, <1>6, <1>7, <1>8, TypesNext DEF IInv

\* Every step keeps the invariant.
LEMMA Keeps ==
    ASSUME GrowsApart, IInv, [Next]_vars
    PROVE  IInv'
<1>1. CASE UNCHANGED vars
    BY <1>1 DEF IInv, TypeOK, Turns, CopyInv, Hand, Flags, Counts, Empty, Full,
        P, L, New, Idle, vars, entry, opener, locals, known
<1>2. CASE Next
    BY <1>2, DeliverStep, GrowStep, CopyStep, PublishStep, BeginStep, FlagStep,
        TestStep, ReceiveStep, FailStep, LeftStep, CopyOutStep, ConsumeStep,
        FreeStep, NullStep DEF Next, Opener, Work
<1> QED
    BY <1>1, <1>2

\* The inductive invariant, if no socket is opened during a call of the reader.
LEMMA Always ==
    ASSUME GrowsApart
    PROVE  Spec => []IInv
<1>1. IInv /\ [Next]_vars => IInv'
    BY Keeps
<1> QED
    BY <1>1, Starts, PTL DEF Spec

-----------------------------------------------------------------------------
(* What follows for the reader.                                            *)

\* The table, the locals and the counts keep their types; bytes_left of every
\* table stays between 0 and the length of a buffer.
THEOREM TypeCorrect ==
    ASSUME GrowsApart
    PROVE  Spec => []TypeOK
<1>1. IInv => TypeOK
    BY DEF IInv
<1> QED
    BY <1>1, Always, PTL

\* A receive copies from and frees only packet buffers that are allocated, if
\* no socket is opened during a call of the reader.
THEOREM BuffersAreLive ==
    ASSUME GrowsApart
    PROVE  Spec => []NoUseAfterFree
<1>1. IInv => NoUseAfterFree
    BY Alone, InUse DEF IInv, Hand, Full, NoUseAfterFree, Idle
<1> QED
    BY <1>1, Always, PTL

\* Every copy to a caller goes on where the last one stopped, over any number
\* of growths.
THEOREM BytesInOrder ==
    ASSUME GrowsApart
    PROVE  Spec => []InOrder
<1>1. ASSUME IInv, pc = "copy"
      PROVE  Before = got
    <2>1. nf = netconn_maps /\ pbuf[nf] = P /\ bytes_left[nf] = L /\ BytesType
        BY <1>1, Alone DEF Idle
    <2>2. Full
        BY <1>1 DEF IInv, Hand
    <2>3. L \in Int /\ got \in Int
        BY <1>1, <2>1, Alone, InUse, Constants DEF Idle, BytesType
    <2> QED
        BY <2>1, <2>2, <2>3 DEF Full, Before
<1>2. IInv => InOrder
    BY <1>1 DEF InOrder
<1> QED
    BY <1>2, Always, PTL

\* Between calls the entry in use has all that callers have not got, the
\* one buffer that is allocated, and the flags that were set last.
THEOREM GrowthKeepsEntry ==
    ASSUME GrowsApart
    PROVE  Spec => []NothingLeftBehind
<1>1. ASSUME IInv, Idle
      PROVE  /\ got + L = taken
             /\ live = IF P = NoPbuf THEN {} ELSE {P.last}
    <2>1. EntryType /\ WorkType /\ BytesType
        BY <1>1, Types DEF IInv
    <2>2. Empty \/ Full
        BY <1>1 DEF IInv, Hand, Idle
    <2> QED
        BY <2>1, <2>2, InUse, Constants DEF Empty, Full, BytesType
<1>2. ASSUME IInv, Idle
      PROVE  file_flag[netconn_maps] = asked
    BY <1>2 DEF IInv, Flags, Idle
<1>3. IInv => NothingLeftBehind
    BY <1>1, <1>2 DEF NothingLeftBehind, P, L
<1> QED
    BY <1>3, Always, PTL
=============================================================================
