----------------------------- MODULE Conversions -----------------------------
(***************************************************************************)
(* The pure functions of the socket API: byte order, ports in atu_bind_r,  *)
(* atu_connect_r, atu_sendto_r and atu_getpeername_r, the receive timeout  *)
(* of atu_setsockopt_r, and atu_select, which looks at its arguments only. *)
(* There is no behaviour here, and the theorems are about all arguments.   *)
(***************************************************************************)
EXTENDS Integers, TLAPS

Two16 == 256 * 256
Two32 == Two16 * Two16
U16 == {x \in Nat : x < Two16}

\* (x << 8) | (x >> 8), whose two halves share no bit, cut off to 16 bits.
atu_htons(x) == ((x * 256) % Two16) + (x \div 256)

\* A word of four bytes, lowest first, and the bytes of a word ...
Bytes == 0 .. 255
Word(b0, b1, b2, b3) == b0 + 256 * (b1 + 256 * (b2 + 256 * b3))
Byte0(x) == x % 256
Byte1(x) == (x \div 256) % 256
Byte2(x) == ((x \div 256) \div 256) % 256
Byte3(x) == (((x \div 256) \div 256) \div 256) % 256

\* ... whose order atu_htonl turns around.
atu_htonl(x) == Word(Byte3(x), Byte2(x), Byte1(x), Byte0(x))

\* The port that the library is told to connect to, for the sin_port of the
\* caller's address; bind and sendto do the same.
ConnectPort(sin_port) == atu_htons(sin_port)

\* The sin_port that atu_getpeername_r reports of a connection to a port of
\* the library's.
PeerPort(remote) == remote

\* The receive timeout for a timeval of SO_RCVTIMEO: 0 waits for ever, and -1
\* of 32 bits does not wait.
ReceiveTimeout(sec, usec) == (sec * 1000 + (usec \div 1000)) % Two32

\* Seconds whose milliseconds fit in the type of tv_sec, 32 bits and signed at
\* its smallest, and the microseconds of a timeval.
Seconds == {s \in Nat : 2 * (s * 1000 + 1000) <= Two32}
Microseconds == {u \in Nat : u < 1000 * 1000}

\* A set of descriptors that is not given.
Null == CHOOSE x : x \notin SUBSET Nat

\* atu_select: one set is looked at, the first that there is, and the answer
\* is 1 if a descriptor below nfds is in it, ready or not.
atu_select(nfds, readfds, writefds, errorfds) ==
    LET fds == IF readfds # Null THEN readfds
               ELSE IF writefds # Null THEN writefds ELSE errorfds
    IN  IF fds # Null /\ \E i \in 0 .. nfds - 1 : i \in fds THEN 1 ELSE 0

-----------------------------------------------------------------------------
LEMMA Halves ==
    ASSUME NEW x \in U16
    PROVE  /\ x \div 256 \in 0 .. 255 /\ x % 256 \in 0 .. 255 /\ x \in Nat
           /\ x = 256 * (x \div 256) + (x % 256)
           /\ atu_htons(x) = 256 * (x % 256) + (x \div 256)
<1> DEFINE hi == x \div 256
<1> DEFINE lo == x % 256
<1>1. hi \in 0 .. 255 /\ lo \in 0 .. 255 /\ x \in Nat /\ x = 256 * hi + lo
    BY SMT DEF U16, Two16
<1>2. (x * 256) % Two16 = 256 * lo
    <2> HIDE DEF hi, lo
    <2>1. x * 256 = Two16 * hi + 256 * lo
        BY <1>1, SMT DEF Two16
    <2>2. 256 * lo \in Nat /\ 256 * lo < Two16
        BY <1>1, SMT DEF Two16
    <2> QED
        BY <1>1, <2>1, <2>2, SMT DEF Two16
<1> QED
    BY <1>1, <1>2 DEF atu_htons

\* ntohs is htons: a port that is converted twice, by the caller and by
\* atu_connect_r, is the port that the caller meant.
THEOREM PortsRoundTrip == \A x \in U16 : atu_htons(x) \in U16 /\ atu_htons(atu_htons(x)) = x
<1> TAKE x \in U16
<1> DEFINE hi == x \div 256
<1> DEFINE lo == x % 256
<1>1. hi \in 0 .. 255 /\ lo \in 0 .. 255 /\ x = 256 * hi + lo /\ atu_htons(x) = 256 * lo + hi
    BY Halves
<1>2. atu_htons(x) \in U16
    BY <1>1, SMT DEF U16, Two16
<1>3. atu_htons(x) \div 256 = lo /\ atu_htons(x) % 256 = hi
    <2> HIDE DEF hi, lo
    <2> QED BY <1>1, SMT
<1>4. atu_htons(atu_htons(x)) = 256 * hi + lo
    BY <1>2, <1>3, Halves
<1> QED
    BY <1>1, <1>2, <1>4

\* ntohl is htonl: an address that is converted twice is the same.
THEOREM AddressesRoundTrip ==
    \A a, b, c, d \in Bytes :
        /\ atu_htonl(Word(a, b, c, d)) = Word(d, c, b, a)
        /\ atu_htonl(atu_htonl(Word(a, b, c, d))) = Word(a, b, c, d)
<1>1. ASSUME NEW r \in Bytes, NEW q \in Nat
      PROVE  (r + 256 * q) % 256 = r /\ (r + 256 * q) \div 256 = q
    BY SMT DEF Bytes
<1>2. ASSUME NEW a \in Bytes, NEW b \in Bytes, NEW c \in Bytes, NEW d \in Bytes
      PROVE  atu_htonl(Word(a, b, c, d)) = Word(d, c, b, a)
    <2> DEFINE x1 == b + 256 * (c + 256 * d)
    <2> DEFINE x2 == c + 256 * d
    <2>1. /\ d \in Nat /\ x2 \in Nat /\ x1 \in Nat /\ d % 256 = d
        BY SMT DEF Bytes
    <2>2. /\ Word(a, b, c, d) % 256 = a /\ Word(a, b, c, d) \div 256 = x1
        BY <1>1, <2>1 DEF Word
    <2>3. x1 % 256 = b /\ x1 \div 256 = x2
        BY <1>1, <2>1
    <2>4. x2 % 256 = c /\ x2 \div 256 = d
        BY <1>1, <2>1
    <2> HIDE DEF x1, x2
    <2> DEFINE w == Word(a, b, c, d)
    <2>5. Byte0(w) = a /\ Byte1(w) = b
        BY <2>2, <2>3 DEF Byte0, Byte1
    <2>6. Byte2(w) = c /\ Byte3(w) = d
        BY <2>1, <2>2, <2>3, <2>4 DEF Byte2, Byte3
    <2> QED
        BY <2>5, <2>6 DEF atu_htonl
<1> QED
    BY <1>2

\* What atu_select does with its sets: a descriptor that the caller waits for
\* in its first set is never missed, but beside a read set the sets of
\* descriptors to write to and of errors are not looked at.
THEOREM SelectSeesOneSet ==
    \A nfds \in Nat, r, w, e \in SUBSET Nat :
        /\ atu_select(nfds, r, w, e) = atu_select(nfds, r, Null, Null)
        /\ atu_select(nfds, Null, w, e) = atu_select(nfds, Null, w, Null)
        /\ \A i \in r : i < nfds => atu_select(nfds, r, w, e) = 1
<1>1. Null \notin SUBSET Nat
    BY NoSetContainsEverything DEF Null
<1>2. ASSUME NEW nfds \in Nat, NEW r \in SUBSET Nat, NEW i \in r, i < nfds
      PROVE  i \in 0 .. nfds - 1
    BY <1>2
<1> TAKE nfds \in Nat, r, w, e \in SUBSET Nat
<1>3. r # Null /\ w # Null
    BY <1>1
<1>4. /\ atu_select(nfds, r, w, e) = atu_select(nfds, r, Null, Null)
      /\ atu_select(nfds, Null, w, e) = atu_select(nfds, Null, w, Null)
    BY <1>3 DEF atu_select
<1>5. \A i \in r : i < nfds => atu_select(nfds, r, w, e) = 1
    BY <1>2, <1>3 DEF atu_select
<1> QED
    BY <1>4, <1>5

\* atu_getpeername_r (line 193) does not convert the port back: the address it
\* gives for a connection is the one that atu_connect_r was given only if both
\* bytes of the port are the same.
THEOREM PeerPortSwapped ==
    \A sin_port \in U16 :
        PeerPort(ConnectPort(sin_port)) = sin_port
            <=> sin_port \div 256 = sin_port % 256
<1> TAKE p \in U16
<1> DEFINE hi == p \div 256
<1> DEFINE lo == p % 256
<1>1. hi \in 0 .. 255 /\ lo \in 0 .. 255 /\ p = 256 * hi + lo /\ atu_htons(p) = 256 * lo + hi
    BY Halves
<1>2. (256 * lo + hi = 256 * hi + lo) <=> hi = lo
    <2> HIDE DEF hi, lo
    <2> QED BY <1>1, SMT
<1> QED
    BY <1>1, <1>2 DEF PeerPort, ConnectPort

\* A timeval of SO_RCVTIMEO is never taken for a poll, and means no timeout at
\* all exactly below a millisecond: that is 0, which asks for it, and 1 to 999
\* microseconds, which do not.
THEOREM ShortTimeoutIsForever ==
    \A sec \in Seconds, usec \in Microseconds :
        /\ ReceiveTimeout(sec, usec) # Two32 - 1
        /\ ReceiveTimeout(sec, usec) = 0 <=> sec = 0 /\ usec < 1000
<1> TAKE sec \in Seconds, usec \in Microseconds
<1>1. usec \in Nat /\ usec \div 1000 \in 0 .. 999 /\ (usec \div 1000 = 0 <=> usec < 1000)
    BY SMT DEF Microseconds
<1>2. sec \in Nat /\ 2 * (sec * 1000 + 1000) <= Two32
    BY SMT DEF Seconds
<1>3. sec * 1000 + usec \div 1000 \in Nat /\ sec * 1000 + usec \div 1000 < Two32 - 1
    BY <1>1, <1>2, SMT DEF Two16, Two32
<1>4. ReceiveTimeout(sec, usec) = sec * 1000 + usec \div 1000
    BY <1>3, SMT DEF ReceiveTimeout, Two16, Two32
<1> QED
    BY <1>1, <1>2, <1>3, <1>4, SMT
=============================================================================
