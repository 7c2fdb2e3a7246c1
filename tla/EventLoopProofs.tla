--------------------------- MODULE EventLoopProofs ---------------------------
(***************************************************************************)
(* What holds of EventLoop for any number of callbacks, reports and        *)
(* addresses: the types; that no thread of the library calls through NULL  *)
(* when the application sets NULL only while no event is handled; and that *)
(* the application was told the link and the address of the module, once   *)
(* nothing is on its way.                                                  *)
(***************************************************************************)
EXTENDS EventLoop, SequenceTheorems, TLAPS

Message == [kind : Told \cup Untold \cup {"wifi_got_ip", "answer"},
            ip : 0 .. MaxLeases]

\* A report of an address carries one.  The library waits for the answer to
\* the command that is out, and the line has no answer but that one.
LineInv ==
    /\ \A i \in 1 .. Len(line) :
        /\ line[i].kind = "wifi_got_ip" => line[i].ip # 0
        /\ line[i].kind = "answer" => asking
    /\ \A i, j \in 1 .. Len(line) :
        line[i].kind = "answer" /\ line[j].kind = "answer" => i = j
    /\ asking => reads # <<>>

\* Before esp_event_loop_init has registered at_unified_cb, the library
\* handles nothing and was given no command.
InitInv == app # "run" => ~registered /\ Quiet /\ reads = <<>>

\* A thread between the two looks at the callback finds it.
CallInv ==
    /\ Running
    /\ \A th \in Threads : pc[th] = "call" => sys_evt_callback # NULL

\* BaseInv needs nothing of the application, CallInv needs QuietNull.
BaseInv == TypeOK /\ LineInv /\ InitInv
IInv == BaseInv /\ CallInv

-----------------------------------------------------------------------------
(* The line and the commands, as sequences.                                *)

\* What taking the first element leaves.
LEMMA TakeFirst ==
    ASSUME NEW S, NEW s \in Seq(S), s # <<>>
    PROVE  /\ Head(s) \in S /\ Head(s) = s[1] /\ 1 \in 1 .. Len(s)
           /\ Tail(s) \in Seq(S)
           /\ \A i \in 1 .. Len(Tail(s)) :
                i + 1 \in 1 .. Len(s) /\ Tail(s)[i] = s[i + 1]
<1>1. /\ Head(s) \in S /\ Tail(s) \in Seq(S) /\ Len(Tail(s)) = Len(s) - 1
      /\ \A i \in 1 .. Len(Tail(s)) : Tail(s)[i] = s[i + 1]
    BY HeadTailProperties
<1>2. Len(s) \in Nat \ {0}
    BY EmptySeq, LenProperties
<1>3. Head(s) = s[1]
    BY SMT
<1> QED
    BY <1>1, <1>2, <1>3

\* What adding an element gives.
LEMMA AddLast ==
    ASSUME NEW S, NEW s \in Seq(S), NEW e \in S
    PROVE  /\ Append(s, e) \in Seq(S) /\ Append(s, e) # <<>>
           /\ Len(Append(s, e)) = Len(s) + 1 /\ Len(s) \in Nat
           /\ \A i \in 1 .. Len(s) : Append(s, e)[i] = s[i]
           /\ Append(s, e)[Len(s) + 1] = e
BY AppendProperties, LenProperties

-----------------------------------------------------------------------------
(* The line under the steps of the chip and of the library.                *)

\* A report at the end of the line that is no answer keeps what LineInv says
\* of the line.
LEMMA ReportKept ==
    ASSUME TypeOK, LineInv, NEW kind, Report(kind), asking' = asking,
           reads' = reads,
           kind \in Told \cup Untold \cup {"wifi_got_ip"},
           lease' \in 0 .. MaxLeases,
           kind = "wifi_got_ip" => lease' # 0
    PROVE  line' \in Seq(Message) /\ LineInv'
<1> DEFINE e == [kind |-> kind, ip |-> lease']
<1>1. line \in Seq(Message) /\ e \in Message
    BY DEF TypeOK, Message
<1>2. line' = Append(line, e)
    BY DEF Report
<1>3. kind # "answer"
    BY DEF Told, Untold
<1>4. /\ line' \in Seq(Message) /\ Len(line') = Len(line) + 1 /\ Len(line) \in Nat
      /\ \A i \in 1 .. Len(line) : line'[i] = line[i]
      /\ line'[Len(line) + 1] = e
    BY <1>1, <1>2, AddLast
<1>5. e.kind = kind /\ e.ip = lease'
    OBVIOUS
<1>6. \A i \in 1 .. Len(line') : i \in 1 .. Len(line) \/ i = Len(line) + 1
    BY <1>4
<1> HIDE DEF e
<1>7. \A i \in 1 .. Len(line') :
        /\ line'[i].kind = "wifi_got_ip" => line'[i].ip # 0
        /\ line'[i].kind = "answer" => i \in 1 .. Len(line) /\ asking
    BY <1>3, <1>4, <1>5, <1>6 DEF LineInv
<1>8. \A i, j \in 1 .. Len(line') :
        line'[i].kind = "answer" /\ line'[j].kind = "answer" => i = j
    BY <1>4, <1>7 DEF LineInv
<1> QED
    BY <1>4, <1>7, <1>8 DEF LineInv

\* The answer at the end of the line is the only one: none was awaited.
LEMMA AnswerKept ==
    ASSUME TypeOK, LineInv, Answers
    PROVE  line' \in Seq(Message) /\ LineInv'
<1> DEFINE e == [kind |-> "answer", ip |-> IF link = "ip" THEN lease ELSE 0]
<1>1. line \in Seq(Message) /\ e \in Message
    <2>1. lease \in 0 .. MaxLeases /\ 0 \in 0 .. MaxLeases
        BY Bounds DEF TypeOK
    <2> QED
        BY <2>1 DEF TypeOK, Message
<1>2. line' = Append(line, e) /\ asking' /\ ~asking /\ reads' = reads /\ reads # <<>>
    BY DEF Answers
<1>4. /\ line' \in Seq(Message) /\ Len(line') = Len(line) + 1 /\ Len(line) \in Nat
      /\ \A i \in 1 .. Len(line) : line'[i] = line[i]
      /\ line'[Len(line) + 1] = e
    BY <1>1, <1>2, AddLast
<1>5. e.kind = "answer"
    OBVIOUS
<1>6. \A i \in 1 .. Len(line') : i \in 1 .. Len(line) \/ i = Len(line) + 1
    BY <1>4
<1> HIDE DEF e
<1>7. \A i \in 1 .. Len(line') :
        /\ line'[i].kind = "wifi_got_ip" => line'[i].ip # 0
        /\ line'[i].kind = "answer" => i = Len(line) + 1
    BY <1>2, <1>4, <1>5, <1>6 DEF LineInv
<1> QED
    BY <1>2, <1>4, <1>7 DEF LineInv

\* What is left of the line once its first element is read.
LEMMA RestKept ==
    ASSUME TypeOK, LineInv, line # <<>>, line' = Tail(line)
    PROVE  /\ line' \in Seq(Message) /\ Head(line) \in Message
           /\ Head(line).kind = "wifi_got_ip" => Head(line).ip # 0
           /\ Head(line).kind = "answer" => asking
           /\ \A i \in 1 .. Len(line') :
                /\ line'[i].kind = "wifi_got_ip" => line'[i].ip # 0
                /\ line'[i].kind = "answer" =>
                    asking /\ Head(line).kind # "answer"
           /\ \A i, j \in 1 .. Len(line') :
                line'[i].kind = "answer" /\ line'[j].kind = "answer" => i = j
<1>1. line \in Seq(Message)
    BY DEF TypeOK, Message
<1>2. /\ Head(line) \in Message /\ Head(line) = line[1] /\ 1 \in 1 .. Len(line)
      /\ line' \in Seq(Message)
      /\ \A i \in 1 .. Len(line') :
            i + 1 \in 1 .. Len(line) /\ line'[i] = line[i + 1]
    BY <1>1, TakeFirst
<1>3. \A i \in 1 .. Len(line') : i \in Nat /\ i >= 1 /\ i + 1 # 1
    BY <1>2, LenProperties
<1>4. \A i, j \in 1 .. Len(line') :
        line'[i].kind = "answer" /\ line'[j].kind = "answer" => i = j
    BY <1>2, <1>3 DEF LineInv
<1>5. \A i \in 1 .. Len(line') :
        /\ line'[i].kind = "wifi_got_ip" => line'[i].ip # 0
        /\ line'[i].kind = "answer" => asking /\ Head(line).kind # "answer"
    BY <1>2, <1>3 DEF LineInv
<1> QED
    BY <1>2, <1>4, <1>5 DEF LineInv

-----------------------------------------------------------------------------
(* Every step keeps the invariant.                                         *)

\* The first state satisfies the invariant.
LEMMA BaseStart == Init => BaseInv
<1> SUFFICES ASSUME Init PROVE BaseInv
    OBVIOUS
<1>1. MaxReports \in Nat /\ MaxLeases \in Nat
    BY Bounds
<1>2. <<>> \in Seq(Message) /\ Len(<<>>) = 0 /\ <<>> \in Seq(1 .. MaxLeases)
    BY EmptySeq
<1>3. TypeOK
    <2>1. /\ sys_evt \in [Threads -> [id : Told \cup {"none", "got_ip"},
                                      ip : 0 .. MaxLeases]]
          /\ pc \in [Threads -> {"idle", "test", "call", "callback", "fault"}]
        BY <1>1 DEF Init, NoEvent
    <2>2. reads \in Seq(1 .. MaxLeases) /\ line \in Seq(Message)
        BY <1>2 DEF Init
    <2>3. 0 \in 0 .. MaxLeases /\ 0 \in 0 .. MaxReports
        BY <1>1
    <2> QED
        BY <2>1, <2>2, <2>3 DEF Init, TypeOK, Message
<1>4. LineInv /\ InitInv
    BY <1>2 DEF Init, LineInv, InitInv, Quiet
<1> QED
    BY <1>3, <1>4 DEF BaseInv

\* What the module reports keeps it.
LEMMA ChipStep ==
    ASSUME BaseInv, Chip
    PROVE  BaseInv'
<1>1. TypeOK /\ LineInv /\ InitInv
    BY DEF BaseInv
<1>2. MaxReports \in Nat /\ MaxLeases \in Nat
    BY Bounds
<1>3. UNCHANGED <<sys_evt_callback, registered, app, pc, sys_evt, known>>
    BY DEF Chip
<1>4. ASSUME Connects \/ GetsAddress \/ Disconnects \/ ReportsOther,
             UNCHANGED reading
      PROVE  /\ line' \in Seq(Message) /\ LineInv' /\ reads' = reads
             /\ link' \in {"down", "up", "ip"} /\ lease' \in 0 .. MaxLeases
             /\ reports' \in 0 .. MaxReports
             /\ ip_info' = ip_info /\ asking' = asking
    <2>1. reads' = reads /\ asking' = asking /\ ip_info' = ip_info
        BY <1>4 DEF reading
    <2>2. PICK kind : /\ Report(kind)
                      /\ kind \in Told \cup Untold \cup {"wifi_got_ip"}
                      /\ lease' \in 0 .. MaxLeases
                      /\ kind = "wifi_got_ip" => lease' # 0
                      /\ link' \in {"down", "up", "ip"}
        <3>1. CASE Connects
            BY <3>1, <1>1 DEF Connects, TypeOK, Told
        <3>2. CASE GetsAddress
            BY <3>2, <1>1, <1>2 DEF GetsAddress, TypeOK
        <3>3. CASE Disconnects
            BY <3>3, <1>1 DEF Disconnects, TypeOK, Told
        <3>4. CASE ReportsOther
            BY <3>4, <1>1, OthersAreReports DEF ReportsOther, TypeOK, Station
        <3> QED
            BY <1>4, <3>1, <3>2, <3>3, <3>4
    <2>3. line' \in Seq(Message) /\ LineInv'
        BY <1>1, <2>1, <2>2, ReportKept
    <2>4. reports' \in 0 .. MaxReports
        BY <1>1, <1>2, <2>2 DEF Report, TypeOK
    <2> QED
        BY <2>1, <2>2, <2>3, <2>4
<1>5. ASSUME Answers
      PROVE  /\ line' \in Seq(Message) /\ LineInv' /\ reads' = reads
             /\ link' \in {"down", "up", "ip"} /\ lease' \in 0 .. MaxLeases
             /\ reports' \in 0 .. MaxReports
             /\ ip_info' = ip_info /\ asking' \in BOOLEAN
    <2>1. line' \in Seq(Message) /\ LineInv'
        BY <1>1, <1>5, AnswerKept
    <2> QED
        BY <1>1, <1>5, <2>1 DEF Answers, chip, TypeOK
<1>6. /\ line' \in Seq(Message) /\ LineInv' /\ reads' = reads
      /\ link' \in {"down", "up", "ip"} /\ lease' \in 0 .. MaxLeases
      /\ reports' \in 0 .. MaxReports
      /\ ip_info' = ip_info /\ asking' \in BOOLEAN
    <2>1. asking \in BOOLEAN
        BY <1>1 DEF TypeOK
    <2> QED
        BY <1>4, <1>5, <2>1 DEF Chip
<1>7. TypeOK'
    BY <1>1, <1>3, <1>6 DEF TypeOK, Message, known
<1>8. InitInv'
    BY <1>1, <1>3, <1>6 DEF InitInv, Quiet
<1> QED
    BY <1>6, <1>7, <1>8 DEF BaseInv

\* What the ESP thread takes from the line keeps it.
LEMMA EventStep ==
    ASSUME BaseInv, Event
    PROVE  BaseInv'
<1>1. TypeOK /\ LineInv /\ InitInv
    BY DEF BaseInv
<1>2. MaxReports \in Nat /\ MaxLeases \in Nat
    BY Bounds
<1> DEFINE h == Head(line)
<1>3. /\ line # <<>> /\ line' = Tail(line) /\ h.kind # "answer"
      /\ UNCHANGED <<sys_evt_callback, registered, app, ip_info, asking, chip,
                     told, last>>
    BY DEF Event
<1>4. /\ line' \in Seq(Message) /\ h \in Message
      /\ h.kind = "wifi_got_ip" => h.ip # 0
      /\ \A i \in 1 .. Len(line') :
            /\ line'[i].kind = "wifi_got_ip" => line'[i].ip # 0
            /\ line'[i].kind = "answer" => asking
      /\ \A i, j \in 1 .. Len(line') :
            line'[i].kind = "answer" /\ line'[j].kind = "answer" => i = j
    BY <1>1, <1>3, RestKept
<1>5. h.ip \in 0 .. MaxLeases
    BY <1>4 DEF Message
<1>6. /\ reads' \in Seq(1 .. MaxLeases)
      /\ reads' = reads \/ (registered /\ reads' # <<>>)
      /\ heard' \in 0 .. MaxLeases /\ missed' \subseteq 0 .. MaxLeases
      /\ sys_evt' \in [Threads -> [id : Told \cup {"none", "got_ip"},
                                   ip : 0 .. MaxLeases]]
      /\ pc' \in [Threads -> {"idle", "test", "call", "callback", "fault"}]
      /\ pc' = pc \/ registered
    <2>1. CASE registered /\ h.kind \in Passed
               /\ sys_evt' = [sys_evt EXCEPT !["evt"] = [id |-> h.kind, ip |-> 0]]
               /\ Goto("evt", "test") /\ UNCHANGED <<reads, heard, missed>>
        BY <1>1, <1>2, <2>1 DEF TypeOK, Passed, Goto, Threads
    <2>2. CASE registered /\ h.kind = "wifi_got_ip" /\ heard' = h.ip
               /\ \/ reads' = OneMore(h.ip) /\ UNCHANGED missed
                  \/ missed' = missed \cup {h.ip} /\ UNCHANGED reads
               /\ UNCHANGED <<sys_evt, pc>>
        <3>1. h.ip \in 1 .. MaxLeases
            BY <1>2, <1>4, <1>5, <2>2
        <3>2. reads \in Seq(1 .. MaxLeases) /\ missed \subseteq 0 .. MaxLeases
            BY <1>1 DEF TypeOK
        <3>3. OneMore(h.ip) \in Seq(1 .. MaxLeases) /\ OneMore(h.ip) # <<>>
            BY <3>1, <3>2, AddLast DEF OneMore
        <3> QED
            BY <1>1, <1>5, <2>2, <3>2, <3>3 DEF TypeOK
    <2>3. CASE UNCHANGED <<sys_evt, pc, reads, heard, missed>>
        BY <1>1, <2>3 DEF TypeOK
    <2> QED
        BY <2>1, <2>2, <2>3 DEF Event
<1>7. TypeOK'
    BY <1>1, <1>3, <1>4, <1>6 DEF TypeOK, Message, chip
<1>8. LineInv'
    BY <1>1, <1>3, <1>4, <1>6 DEF LineInv
<1>9. InitInv'
    BY <1>1, <1>3, <1>6 DEF InitInv, Quiet
<1> QED
    BY <1>7, <1>8, <1>9 DEF BaseInv

\* The answer to the command that is out keeps it.
LEMMA CompleteStep ==
    ASSUME BaseInv, Complete \/ CompleteFailed
    PROVE  BaseInv'
<1>1. TypeOK /\ LineInv /\ InitInv
    BY DEF BaseInv
<1>2. reads # <<>>
    <2>1. CASE Complete
        <3>1. line # <<>> /\ line' = Tail(line) /\ Head(line).kind = "answer"
            BY <2>1 DEF Complete
        <3> QED
            BY <1>1, <3>1, RestKept DEF LineInv
    <2> QED
        BY <2>1 DEF CompleteFailed
<1>3. /\ reads \in Seq(1 .. MaxLeases) /\ Head(reads) \in 1 .. MaxLeases
      /\ Tail(reads) \in Seq(1 .. MaxLeases)
    BY <1>1, <1>2, TakeFirst DEF TypeOK
<1>4. app = "run"
    BY <1>1, <1>2 DEF InitInv
<1>5. CASE Complete
    <2>1. line # <<>> /\ line' = Tail(line) /\ Head(line).kind = "answer"
        BY <1>5 DEF Complete
    <2>2. /\ line' \in Seq(Message) /\ Head(line) \in Message
          /\ \A i \in 1 .. Len(line') :
                /\ line'[i].kind = "wifi_got_ip" => line'[i].ip # 0
                /\ line'[i].kind # "answer"
        BY <1>1, <2>1, RestKept
    <2>3. Head(line).ip \in 0 .. MaxLeases
        BY <2>2 DEF Message
    <2>4. LineInv'
        BY <1>5, <2>2 DEF Complete, LineInv
    <2>5. TypeOK'
        BY <1>1, <1>3, <1>5, <2>2, <2>3 DEF Complete, TypeOK, Message, Goto,
            Threads, Copied, chip, known
    <2>6. InitInv'
        BY <1>4, <1>5 DEF Complete, InitInv
    <2> QED
        BY <2>4, <2>5, <2>6 DEF BaseInv
<1>6. CASE CompleteFailed
    <2>1. MaxLeases \in Nat
        BY Bounds
    <2>2. LineInv'
        BY <1>1, <1>6 DEF CompleteFailed, LineInv
    <2>3. TypeOK'
        <3>1. /\ reads' \in Seq(1 .. MaxLeases)
              /\ missed' \subseteq 0 .. MaxLeases
            <4>1. reads' = Tail(reads) /\ missed' = missed \cup {Head(reads)}
                BY <1>6 DEF CompleteFailed
            <4>2. missed \subseteq 0 .. MaxLeases
                BY <1>1 DEF TypeOK
            <4>3. Head(reads) \in 0 .. MaxLeases
                BY <1>3, <2>1
            <4> QED
                BY <1>3, <4>1, <4>2, <4>3
        <3>2. /\ sys_evt' \in [Threads -> [id : Told \cup {"none", "got_ip"},
                                           ip : 0 .. MaxLeases]]
              /\ pc' \in [Threads ->
                            {"idle", "test", "call", "callback", "fault"}]
            BY <1>1, <1>6 DEF CompleteFailed, TypeOK, Goto, Threads
        <3> QED
            BY <1>1, <1>6, <3>1, <3>2 DEF CompleteFailed, TypeOK, chip
    <2>4. InitInv'
        BY <1>4, <1>6 DEF CompleteFailed, InitInv
    <2> QED
        BY <2>2, <2>3, <2>4 DEF BaseInv
<1> QED
    BY <1>5, <1>6

\* What the threads of the library do with an event keeps it.
LEMMA ThreadStep ==
    ASSUME BaseInv, NEW th \in Threads, Test(th) \/ Call(th) \/ Returns(th)
    PROVE  BaseInv'
<1>1. TypeOK /\ LineInv /\ InitInv
    BY DEF BaseInv
<1>2. /\ UNCHANGED <<sys_evt_callback, registered, app, reading, chip, line,
                     heard>>
      /\ \E label \in {"idle", "call", "callback", "fault"} : Goto(th, label)
      /\ pc[th] # "idle"
    BY DEF Test, Call, Returns, known
<1>3. /\ pc' \in [Threads -> {"idle", "test", "call", "callback", "fault"}]
      /\ app = "run"
    BY <1>1, <1>2 DEF TypeOK, Goto, InitInv, Quiet
<1>4. sys_evt[th].ip \in 0 .. MaxLeases /\ NoEvent \in
            [id : Told \cup {"none", "got_ip"}, ip : 0 .. MaxLeases]
    <2>1. 0 \in 0 .. MaxLeases
        BY Bounds
    <2> QED
        BY <1>1, <2>1 DEF TypeOK, NoEvent
<1>5. /\ sys_evt' \in [Threads -> [id : Told \cup {"none", "got_ip"},
                                   ip : 0 .. MaxLeases]]
      /\ missed' \subseteq 0 .. MaxLeases
      /\ told' \in 0 .. MaxLeases
      /\ last' \in {Nobody, "wifi_connected", "wifi_disconnected", "got_ip"}
    <2>1. CASE Test(th)
        BY <1>1, <1>4, <2>1 DEF Test, TypeOK
    <2>2. CASE Call(th)
        BY <1>1, <1>4, <2>2 DEF Call, TypeOK
    <2>3. CASE Returns(th)
        BY <1>1, <1>4, <2>3 DEF Returns, TypeOK, known
    <2> QED
        BY <2>1, <2>2, <2>3
<1>6. TypeOK'
    BY <1>1, <1>2, <1>3, <1>5 DEF TypeOK, reading, chip
<1>7. LineInv' /\ InitInv'
    BY <1>1, <1>2, <1>3 DEF LineInv, InitInv, reading
<1> QED
    BY <1>6, <1>7 DEF BaseInv

\* What the application does keeps it.
LEMMA AppStep ==
    ASSUME BaseInv, LoopInit \/ Register \/ SetCb
    PROVE  BaseInv'
<1>1. TypeOK /\ LineInv /\ InitInv
    BY DEF BaseInv
<1>2. /\ UNCHANGED <<pc, sys_evt, reading, chip, line, known>>
      /\ sys_evt_callback' \in Callbacks \cup {NULL}
      /\ app' \in {"register", "run"} /\ registered' \in BOOLEAN
      /\ app' # "run" => app # "run" /\ registered' = registered
    BY <1>1 DEF LoopInit, Register, SetCb, TypeOK
<1>3. TypeOK'
    BY <1>1, <1>2 DEF TypeOK, reading, chip, known
<1>4. LineInv' /\ InitInv'
    BY <1>1, <1>2 DEF LineInv, InitInv, Quiet, reading
<1> QED
    BY <1>3, <1>4 DEF BaseInv

\* Every step keeps it.
LEMMA BaseStep == BaseInv /\ [Next]_vars => BaseInv'
<1> SUFFICES ASSUME BaseInv, [Next]_vars PROVE BaseInv'
    OBVIOUS
<1>1. CASE UNCHANGED vars
    BY <1>1 DEF BaseInv, TypeOK, LineInv, InitInv, Quiet, vars, reading, chip,
        known
<1>2. CASE Next
    BY <1>2, ChipStep, EventStep, CompleteStep, ThreadStep, AppStep DEF Next,
        Library
<1> QED
    BY <1>1, <1>2

\* A thread is between its two looks only with a callback to call: NULL is set
\* by esp_event_loop_init, before anything is handled, or when all is quiet.
LEMMA CallStep ==
    ASSUME QuietNull, IInv, [Next]_vars
    PROVE  CallInv'
<1>1. TypeOK /\ InitInv /\ CallInv
    BY DEF IInv, BaseInv
<1>2. CASE UNCHANGED vars
    BY <1>1, <1>2 DEF CallInv, Running, vars
<1>3. CASE Chip
    BY <1>1, <1>3 DEF Chip, CallInv, Running
<1>4. CASE Event \/ Complete \/ CompleteFailed
    <2>1. /\ sys_evt_callback' = sys_evt_callback
          /\ pc' = pc \/ (\E th \in Threads : Goto(th, "test"))
        BY <1>4 DEF Event, Complete, CompleteFailed, Threads
    <2> QED
        BY <1>1, <2>1 DEF CallInv, Running, Goto, TypeOK
<1>5. ASSUME NEW th \in Threads, Test(th) \/ Call(th) \/ Returns(th)
      PROVE  CallInv'
    <2>1. sys_evt_callback' = sys_evt_callback
        BY <1>5 DEF Test, Call, Returns
    <2>2. \/ Goto(th, "idle") \/ Goto(th, "callback")
          \/ Goto(th, "call") /\ sys_evt_callback # NULL
        BY <1>1, <1>5 DEF Test, Call, Returns, HasCallback, CallInv
    <2> QED
        BY <1>1, <2>1, <2>2 DEF CallInv, Running, Goto, TypeOK
<1>6. CASE LoopInit \/ Register \/ SetCb
    <2>1. pc' = pc
        BY <1>6 DEF LoopInit, Register, SetCb
    <2>2. sys_evt_callback' # NULL \/ sys_evt_callback' = sys_evt_callback \/ Quiet
        BY <1>1, <1>6 DEF LoopInit, Register, SetCb, MaySet, InitInv
    <2> QED
        BY <1>1, <2>1, <2>2 DEF CallInv, Running, Quiet
<1> QED
    BY <1>2, <1>3, <1>4, <1>5, <1>6 DEF Next, Library

-----------------------------------------------------------------------------
(* The theorems.                                                           *)

\* The callback, the commands for the address, the line and the events keep
\* their types, whatever the application registers and when; in particular
\* every completed command was one that at_unified_cb had given (line 63).
THEOREM TypeCorrect == Spec => []TypeOK
<1>1. BaseInv => TypeOK
    BY DEF BaseInv
<1> QED
    BY BaseStart, BaseStep, <1>1, PTL DEF Spec

\* No thread calls through NULL between its look at sys_evt_callback and its
\* call (lines 103 and 108, 21 and 22), if the application sets NULL only
\* while no event is being handled.
THEOREM NullSafe ==
    ASSUME QuietNull
    PROVE  Spec => []NullNeverCalled
<1>1. Init => IInv
    <2>1. Init => CallInv
        BY DEF Init, CallInv, Running
    <2> QED
        BY <2>1, BaseStart DEF IInv
<1>2. IInv /\ [Next]_vars => IInv'
    BY BaseStep, CallStep DEF IInv
<1>3. IInv => NullNeverCalled
    BY DEF IInv, CallInv, NullNeverCalled
<1> QED
    BY <1>1, <1>2, <1>3, PTL DEF Spec
-----------------------------------------------------------------------------
(* The address that the station has, on its way to the application.        *)

\* Reports of addresses are on the line in the order of the leases, and
\* nothing of the link follows the one of the address that the station has.
OrderInv ==
    /\ heard <= lease
    /\ link = "ip" => lease # 0
    /\ \A i \in 1 .. Len(line) :
        line[i].kind = "wifi_got_ip" => line[i].ip <= lease
    /\ link = "ip" =>
        \A i, j \in 1 .. Len(line) :
            i < j /\ line[i].kind = "wifi_got_ip" /\ line[i].ip = lease
                => line[j].kind \notin Station

\* at_unified_cb heard of that address, and nothing has gone wrong with it.
Current == Running /\ link = "ip" /\ heard = lease /\ lease \notin missed

\* No older event of the link is left that could be told after it.
LinkTold ==
    /\ \A i \in 1 .. Len(line) : line[i].kind \notin Station
    /\ pc["evt"] \in {"test", "call"} => sys_evt["evt"].id \notin Station

\* The chip is asked for it last, and if it was asked for nothing else the
\* answer has it, ...
Asked ==
    /\ reads # <<>> /\ reads[Len(reads)] = lease
    /\ \A i \in 1 .. Len(line) :
        line[i].kind = "answer" /\ Len(reads) = 1 => line[i].ip = lease

\* ... or esp_sta_getip_cb is about to tell it, ...
Telling ==
    /\ reads = <<>> /\ pc["api"] \in {"test", "call"}
    /\ sys_evt["api"] = [id |-> "got_ip", ip |-> lease]

\* ... or has told it.
WasTold ==
    /\ reads = <<>> /\ pc["api"] \notin {"test", "call"}
    /\ told = lease /\ last = "got_ip"

AddressInv == Current => LinkTold /\ (Asked \/ Telling \/ WasTold)
\* What is at the end of the line changes neither.
LEMMA LongerLine ==
    ASSUME TypeOK, NEW e \in Message, line' = Append(line, e)
    PROVE  /\ Len(line) \in Nat /\ line'[Len(line) + 1] = e
           /\ \A i \in 1 .. Len(line) : line'[i] = line[i]
           /\ \A i \in 1 .. Len(line') :
                i \in 1 .. Len(line) \/ i = Len(line) + 1
<1>1. line \in Seq(Message)
    BY DEF TypeOK, Message
<1>2. /\ Len(line') = Len(line) + 1 /\ Len(line) \in Nat
      /\ \A i \in 1 .. Len(line) : line'[i] = line[i]
      /\ line'[Len(line) + 1] = e
    BY <1>1, AddLast
<1> QED
    BY <1>2

\* The chip reports in the order in which things happen to the link, and it
\* answers with the address that it has.
LEMMA ChipOrder ==
    ASSUME BaseInv, OrderInv, AddressInv, Chip
    PROVE  OrderInv' /\ AddressInv'
<1>1. /\ TypeOK /\ LineInv /\ lease \in 0 .. MaxLeases /\ MaxLeases \in Nat
      /\ heard \in 0 .. MaxLeases
    BY Bounds DEF BaseInv, TypeOK
<1>2. /\ UNCHANGED <<sys_evt_callback, registered, app, pc, sys_evt>>
      /\ UNCHANGED <<heard, told, last, missed>>
    BY DEF Chip, known
<1>3. ASSUME NEW kind, kind \in Told \cup Untold \cup {"wifi_got_ip"},
             Report(kind), UNCHANGED reading, lease' \in lease .. MaxLeases,
             kind = "wifi_got_ip" => lease' > lease /\ lease' # 0,
             link' = "ip" =>
                \/ kind = "wifi_got_ip"
                \/ link = "ip" /\ lease' = lease /\ kind \notin Station
      PROVE  OrderInv' /\ AddressInv'
  <2> DEFINE e == [kind |-> kind, ip |-> lease']
             n == Len(line)
  <2>1. e \in Message /\ line' = Append(line, e) /\ kind # "answer"
    BY <1>1, <1>3 DEF Report, Message, Told, Untold
  <2>2. e.kind = kind /\ e.ip = lease'
    OBVIOUS
  <2> HIDE DEF e
  <2>3. /\ n \in Nat /\ line'[n + 1] = e
        /\ \A i \in 1 .. n : line'[i] = line[i]
        /\ \A i \in 1 .. Len(line') : i \in 1 .. n \/ i = n + 1
    BY <1>1, <2>1, LongerLine
  <2> HIDE DEF n
  <2>4. \A i \in 1 .. n : line[i] \in Message /\ line[i].ip \in Nat
    <3>1. \A i \in 1 .. n : line[i] \in Message
        BY <1>1, ElementOfSeq DEF TypeOK, Message, n
    <3> QED
        BY <1>1, <3>1 DEF Message
  <2>5. \A i \in 1 .. Len(line') :
            line'[i].kind = "wifi_got_ip" => line'[i].ip <= lease'
    BY <1>1, <1>3, <2>2, <2>3, <2>4 DEF OrderInv, n
  <2>6. heard' <= lease' /\ (link' = "ip" => lease' # 0)
    <3>1. heard <= lease /\ lease <= lease' /\ lease' \in Nat /\ heard' = heard
        BY <1>1, <1>2, <1>3 DEF OrderInv
    <3>2. link' = "ip" => lease' # 0
        BY <1>3 DEF OrderInv
    <3> QED
        BY <1>1, <3>1, <3>2
  <2>7. ASSUME link' = "ip", NEW i \in 1 .. Len(line'), NEW j \in 1 .. Len(line'),
               i < j, line'[i].kind = "wifi_got_ip", line'[i].ip = lease'
        PROVE  line'[j].kind \notin Station
    <3>1. i \in 1 .. n
        BY <2>3, <2>7
    <3>2. line[i].ip <= lease /\ line[i].kind = "wifi_got_ip"
        BY <2>3, <2>7, <3>1 DEF OrderInv, n
    <3>3. lease' = lease /\ link = "ip" /\ kind \notin Station
        BY <1>1, <1>3, <2>3, <2>4, <2>7, <3>1, <3>2
    <3>4. CASE j = n + 1
        BY <2>2, <2>3, <3>3, <3>4
    <3>5. CASE j \in 1 .. n
        BY <2>3, <2>7, <3>1, <3>3, <3>5 DEF OrderInv, n
    <3> QED
        BY <2>3, <3>4, <3>5
  <2>8. OrderInv'
    BY <2>5, <2>6, <2>7 DEF OrderInv
  <2>9. ASSUME Current' PROVE Current /\ lease' = lease /\ kind \notin Station
    <3>1. link' = "ip" /\ heard = lease' /\ heard <= lease
        BY <1>2, <2>9 DEF Current, OrderInv
    <3>2. ~(lease' > lease)
        BY <1>1, <1>3, <3>1
    <3>3. link = "ip" /\ lease' = lease /\ kind \notin Station
        BY <1>3, <3>1, <3>2 DEF Station
    <3> QED
        BY <1>2, <2>9, <3>3 DEF Current, Running
  <2>10. ASSUME Current' PROVE LinkTold' /\ (Asked' \/ Telling' \/ WasTold')
    <3>1. UNCHANGED <<lease, reads, pc, sys_evt, told, last>>
        BY <1>2, <1>3, <2>9, <2>10 DEF reading
    <3>2. LinkTold'
        BY <2>2, <2>3, <2>9, <2>10, <3>1 DEF AddressInv, LinkTold, n
    <3>3. Asked => Asked'
        BY <2>1, <2>2, <2>3, <3>1 DEF Asked, n
    <3> QED
        BY <2>9, <2>10, <3>1, <3>2, <3>3 DEF AddressInv, Telling, WasTold
  <2> QED
    BY <2>8, <2>10 DEF AddressInv
<1>4. CASE (Connects \/ GetsAddress \/ Disconnects \/ ReportsOther)
            /\ UNCHANGED reading
  <2>1. CASE Connects
    BY <1>1, <1>3, <1>4, <2>1 DEF Connects, Told
  <2>2. CASE GetsAddress
    BY <1>1, <1>3, <1>4, <2>2 DEF GetsAddress
  <2>3. CASE Disconnects
    BY <1>1, <1>3, <1>4, <2>3 DEF Disconnects, Told
  <2>4. CASE ReportsOther
    BY <1>1, <1>3, <1>4, <2>4, OthersAreReports DEF ReportsOther, Station
  <2> QED
    BY <1>4, <2>1, <2>2, <2>3, <2>4
<1>5. CASE Answers
  <2> DEFINE e == [kind |-> "answer", ip |-> IF link = "ip" THEN lease ELSE 0]
             n == Len(line)
  <2>1. /\ e \in Message /\ line' = Append(line, e)
        /\ UNCHANGED <<ip_info, reads, link, lease, reports>>
    BY <1>1, <1>5 DEF Answers, Message, chip
  <2>2. e.kind = "answer" /\ (link = "ip" => e.ip = lease)
    OBVIOUS
  <2> HIDE DEF e
  <2>3. /\ n \in Nat /\ line'[n + 1] = e
        /\ \A i \in 1 .. n : line'[i] = line[i]
        /\ \A i \in 1 .. Len(line') : i \in 1 .. n \/ i = n + 1
    BY <1>1, <2>1, LongerLine
  <2> HIDE DEF n
  <2>4. \A i \in 1 .. Len(line') :
            line'[i].kind = "wifi_got_ip" => line'[i].ip <= lease'
    BY <2>1, <2>2, <2>3 DEF OrderInv, n
  <2>5. ASSUME link' = "ip", NEW i \in 1 .. Len(line'), NEW j \in 1 .. Len(line'),
               i < j, line'[i].kind = "wifi_got_ip", line'[i].ip = lease'
        PROVE  line'[j].kind \notin Station
    BY <2>1, <2>2, <2>3, <2>5 DEF OrderInv, Station, n
  <2>6. OrderInv'
    BY <1>2, <2>1, <2>4, <2>5 DEF OrderInv
  <2>7. ASSUME Current' PROVE LinkTold' /\ (Asked' \/ Telling' \/ WasTold')
    <3>1. Current
        BY <1>2, <2>1, <2>7 DEF Current, Running
    <3>2. LinkTold'
        BY <1>2, <2>2, <2>3, <3>1 DEF AddressInv, LinkTold, Station, n
    <3>3. Asked => Asked'
        BY <2>1, <2>2, <2>3, <3>1 DEF Asked, Current, n
    <3> QED
        BY <1>2, <2>1, <3>1, <3>2, <3>3 DEF AddressInv, Telling, WasTold
  <2> QED
    BY <2>6, <2>7 DEF AddressInv
<1> QED
    BY <1>4, <1>5 DEF Chip
\* What follows the first element of the line keeps its order.
LEMMA RestOrdered ==
    ASSUME BaseInv, OrderInv, line # <<>>, line' = Tail(line),
           UNCHANGED <<link, lease>>, heard' \in {heard, Head(line).ip},
           heard' # heard => Head(line).kind = "wifi_got_ip"
    PROVE  /\ OrderInv'
           /\ \A i \in 1 .. Len(line') : \E j \in 2 .. Len(line) :
                line'[i] = line[j]
           /\ Head(line) = line[1] /\ 1 \in 1 .. Len(line) /\ Len(line) \in Nat
<1>1. line \in Seq(Message)
    BY DEF BaseInv, TypeOK, Message
<1>2. /\ Head(line) = line[1] /\ 1 \in 1 .. Len(line) /\ Len(line) \in Nat
      /\ \A i \in 1 .. Len(line') :
            i + 1 \in 1 .. Len(line) /\ line'[i] = line[i + 1]
    BY <1>1, TakeFirst, LenProperties
<1>3. \A i \in 1 .. Len(line') : i + 1 \in 2 .. Len(line)
    BY <1>2
<1>4. heard' <= lease
    BY <1>2 DEF OrderInv
<1>5. \A i \in 1 .. Len(line') :
        line'[i].kind = "wifi_got_ip" => line'[i].ip <= lease
    BY <1>2 DEF OrderInv
<1>6. ASSUME link = "ip", NEW i \in 1 .. Len(line'), NEW j \in 1 .. Len(line'),
             i < j, line'[i].kind = "wifi_got_ip", line'[i].ip = lease
      PROVE  line'[j].kind \notin Station
    <2>1. i + 1 \in 1 .. Len(line) /\ j + 1 \in 1 .. Len(line) /\ i + 1 < j + 1
        BY <1>2, <1>6
    <2> QED
        BY <1>2, <1>6, <2>1 DEF OrderInv
<1>7. OrderInv'
    BY <1>4, <1>5, <1>6 DEF OrderInv
<1> QED
    BY <1>2, <1>3, <1>7

\* When at_unified_cb hears of the address that the station has, the events of
\* the link before it were told, and the chip is asked for it after all others.
LEMMA EventOrder ==
    ASSUME BaseInv, OrderInv, AddressInv, Event
    PROVE  OrderInv' /\ AddressInv'
<1> DEFINE h == Head(line)
<1>1. /\ line # <<>> /\ line' = Tail(line) /\ h.kind # "answer"
      /\ UNCHANGED <<ip_info, asking, link, lease, told, last>>
      /\ Running /\ pc["evt"] = "idle"
    BY DEF Event, chip
<1>2. /\ TypeOK /\ LineInv
      /\ reads \in Seq(1 .. MaxLeases) /\ Len(reads) \in Nat
      /\ pc \in [Threads -> {"idle", "test", "call", "callback", "fault"}]
    BY LenProperties DEF BaseInv, TypeOK
<1>3. \/ heard' = heard
      \/ heard' = h.ip /\ h.kind = "wifi_got_ip"
    BY DEF Event
<1>4. /\ OrderInv' /\ h = line[1] /\ 1 \in 1 .. Len(line) /\ Len(line) \in Nat
      /\ \A i \in 1 .. Len(line') : \E j \in 2 .. Len(line) :
            line'[i] = line[j]
    BY <1>1, <1>3, RestOrdered
<1>5. \A j \in 2 .. Len(line) : j \in 1 .. Len(line) /\ 1 < j
    BY <1>4
<1>6. ASSUME Current', h.kind = "wifi_got_ip", registered
      PROVE  LinkTold' /\ Asked'
    <2>1. /\ h.ip = lease /\ lease' = lease /\ link = "ip" /\ reads' = OneMore(h.ip)
          /\ UNCHANGED <<sys_evt, pc>>
        BY <1>1, <1>6 DEF Event, Current, Passed, Told
    <2>2. \A j \in 2 .. Len(line) : line[j].kind \notin Station
        BY <1>4, <1>5, <1>6, <2>1 DEF OrderInv
    <2>3. LinkTold'
        BY <1>1, <1>4, <2>1, <2>2 DEF LinkTold
    <2>4. h.ip \in 1 .. MaxLeases
        <3>1. h \in Message /\ h.ip # 0
            BY <1>1, <1>2, <1>6, RestKept
        <3> QED
            BY <3>1, Bounds DEF Message
    <2>5. /\ reads' # <<>> /\ Len(reads') = Len(reads) + 1
          /\ reads'[Len(reads')] = lease'
        BY <1>2, <2>1, <2>4, AddLast DEF OneMore
    <2>6. \A i \in 1 .. Len(line') : line'[i].kind = "answer" => Len(reads') # 1
        <3> SUFFICES ASSUME NEW i \in 1 .. Len(line'), line'[i].kind = "answer"
                     PROVE  Len(reads') # 1
            OBVIOUS
        <3>1. asking
            BY <1>1, <1>2, RestKept
        <3>2. Len(reads) # 0
            BY <1>2, <3>1, EmptySeq DEF LineInv
        <3> QED
            BY <1>2, <2>5, <3>2
    <2> QED
        BY <2>3, <2>5, <2>6 DEF Asked
<1>7. ASSUME Current', h.kind # "wifi_got_ip" \/ ~registered
      PROVE  LinkTold' /\ (Asked' \/ Telling' \/ WasTold')
    <2>1. UNCHANGED <<heard, missed, reads>>
        BY <1>7 DEF Event, Passed, Told
    <2>2. Current
        BY <1>1, <1>7, <2>1 DEF Current
    <2>3. LinkTold /\ (Asked \/ Telling \/ WasTold)
        BY <2>2 DEF AddressInv
    <2>4. h.kind \notin Station
        BY <1>4, <2>3 DEF LinkTold
    <2>5. /\ pc'["evt"] \in {"test", "call"} => sys_evt'["evt"].id \notin Station
          /\ pc'["api"] = pc["api"] /\ sys_evt'["api"] = sys_evt["api"]
        BY <1>1, <1>2, <1>7, <2>4 DEF Event, Goto, Threads, TypeOK, Passed,
            Told, Station
    <2>6. LinkTold'
        BY <1>4, <1>5, <2>3, <2>5 DEF LinkTold
    <2>7. Asked => Asked'
        BY <1>1, <1>4, <1>5, <2>1 DEF Asked
    <2> QED
        BY <1>1, <2>1, <2>3, <2>5, <2>6, <2>7 DEF Telling, WasTold
<1> QED
    BY <1>4, <1>6, <1>7 DEF AddressInv

\* An answer with that address is told, and one that failed is missed.
LEMMA CompleteOrder ==
    ASSUME BaseInv, OrderInv, AddressInv, Complete \/ CompleteFailed
    PROVE  OrderInv' /\ AddressInv'
<1>1. /\ UNCHANGED <<link, lease, heard, told, last>> /\ Running
      /\ reads' = Tail(reads) /\ asking' = FALSE /\ pc["api"] = "idle"
      /\ Goto("api", "test")
    BY DEF Complete, CompleteFailed, chip, known, BaseInv, TypeOK
<1>2. /\ TypeOK /\ LineInv
      /\ pc \in [Threads -> {"idle", "test", "call", "callback", "fault"}]
      /\ reads \in Seq(1 .. MaxLeases)
    BY DEF BaseInv, TypeOK
<1>3. reads # <<>>
    <2>1. CASE Complete
        <3>1. line # <<>> /\ line' = Tail(line) /\ Head(line).kind = "answer"
            BY <2>1 DEF Complete
        <3> QED
            BY <1>2, <3>1, RestKept DEF LineInv
    <2> QED
        BY <2>1 DEF CompleteFailed
<1>4. /\ Head(reads) = reads[1] /\ Len(reads) \in Nat /\ 1 \in 1 .. Len(reads)
      /\ Len(reads') = Len(reads) - 1 /\ reads' \in Seq(1 .. MaxLeases)
      /\ \A i \in 1 .. Len(reads') : reads'[i] = reads[i + 1]
    BY <1>1, <1>2, <1>3, TakeFirst, HeadTailProperties, LenProperties
<1>5. Len(reads) > 1 => reads' # <<>> /\ reads'[Len(reads')] = reads[Len(reads)]
    BY <1>4, EmptySeq
<1>6. /\ pc'["api"] = "test" /\ pc'["evt"] = pc["evt"]
      /\ sys_evt'["evt"] = sys_evt["evt"]
    BY <1>1, <1>2 DEF Complete, CompleteFailed, Goto, Threads, TypeOK
<1>7. OrderInv' /\ (LinkTold => LinkTold')
    <2>1. CASE Complete
        <3>1. line # <<>> /\ line' = Tail(line)
            BY <2>1 DEF Complete
        <3>2. /\ OrderInv' /\ Len(line) \in Nat
              /\ \A i \in 1 .. Len(line') : \E j \in 2 .. Len(line) :
                    line'[i] = line[j]
            BY <1>1, <3>1, RestOrdered
        <3>3. \A j \in 2 .. Len(line) : j \in 1 .. Len(line)
            BY <3>2
        <3> QED
            BY <1>6, <3>2, <3>3 DEF LinkTold
    <2>2. CASE CompleteFailed
        <3>1. line' = line
            BY <2>2 DEF CompleteFailed
        <3> QED
            BY <1>1, <1>6, <3>1 DEF OrderInv, LinkTold
    <2> QED
        BY <2>1, <2>2
<1>8. ASSUME Current' PROVE Current /\ LinkTold' /\ Asked
    <2>1. missed \subseteq missed'
        BY DEF Complete, CompleteFailed, known
    <2>2. Current
        BY <1>1, <1>8, <2>1 DEF Current
    <2> QED
        BY <1>3, <1>7, <2>2 DEF AddressInv, Telling, WasTold
<1>9. ASSUME Current', Len(reads) > 1 PROVE Asked'
    <2>1. \A i \in 1 .. Len(line') : line'[i].kind # "answer"
        <3>1. LineInv'
            BY CompleteStep DEF BaseInv
        <3> QED
            BY <1>1, <3>1 DEF LineInv
    <2> QED
        BY <1>1, <1>5, <1>8, <1>9, <2>1 DEF Asked
<1>10. ASSUME Current', ~(Len(reads) > 1) PROVE Telling'
    <2>1. Len(reads) = 1 /\ reads[1] = lease
        BY <1>4, <1>8, <1>10 DEF Asked
    <2>2. reads' = <<>>
        BY <1>4, <2>1, EmptySeq
    <2>3. ~CompleteFailed
        BY <1>1, <1>4, <1>10, <2>1 DEF CompleteFailed, Current
    <2>4. /\ line # <<>> /\ Head(line).kind = "answer"
          /\ sys_evt' = [sys_evt EXCEPT !["api"] =
                            [id |-> "got_ip", ip |-> Head(line).ip]]
        BY <2>3 DEF Complete, Copied
    <2>5. Head(line) = line[1] /\ 1 \in 1 .. Len(line)
        <3>1. line \in Seq(Message)
            BY <1>2 DEF TypeOK, Message
        <3> QED
            BY <2>4, <3>1, TakeFirst
    <2>6. Head(line).ip = lease
        BY <1>8, <1>10, <2>1, <2>4, <2>5 DEF Asked
    <2>7. sys_evt'["api"] = [id |-> "got_ip", ip |-> lease']
        BY <1>1, <1>2, <2>4, <2>6 DEF TypeOK, Threads
    <2> QED
        BY <1>6, <2>2, <2>7 DEF Telling
<1> QED
    BY <1>7, <1>8, <1>9, <1>10 DEF AddressInv

\* The two looks of the threads and the callback itself.
LEMMA ThreadOrder ==
    ASSUME BaseInv, OrderInv, AddressInv, NEW th \in Threads,
           Test(th) \/ Call(th) \/ Returns(th)
    PROVE  OrderInv' /\ AddressInv'
<1>1. /\ UNCHANGED <<link, lease, heard, line, reads>>
      /\ missed \subseteq missed' /\ Running
    BY DEF Test, Call, Returns, chip, reading, known
<1>2. OrderInv'
    BY <1>1 DEF OrderInv
<1>3. /\ pc \in [Threads -> {"idle", "test", "call", "callback", "fault"}]
      /\ sys_evt \in [Threads -> [id : Told \cup {"none", "got_ip"},
                                  ip : 0 .. MaxLeases]]
    BY DEF BaseInv, TypeOK
<1>4. ASSUME Current'
      PROVE  LinkTold' /\ (Asked' \/ Telling' \/ WasTold')
    <2>1. LinkTold /\ (Asked \/ Telling \/ WasTold)
        BY <1>1, <1>4 DEF AddressInv, Current
    <2>2. \A u \in Threads : u # th => pc'[u] = pc[u] /\ sys_evt'[u] = sys_evt[u]
        BY <1>3 DEF Test, Call, Returns, Goto
    <2>3. /\ pc'[th] \in {"test", "call"} => sys_evt'[th] = sys_evt[th]
          /\ pc'[th] \in {"test", "call"} => pc[th] \in {"test", "call"}
        BY <1>3 DEF Test, Call, Returns, Goto
    <2>4. LinkTold'
        BY <1>1, <2>1, <2>2, <2>3 DEF LinkTold, Threads
    <2>5. Asked => Asked'
        BY <1>1 DEF Asked
    <2>6. CASE th = "api"
        <3>1. Telling => Telling' \/ WasTold'
            <4>1. CASE Test(th)
                <5>1. CASE HasCallback
                    BY <1>1, <1>3, <2>6, <4>1, <5>1 DEF Telling, Test, Goto
                <5>2. CASE ~HasCallback
                    <6>1. missed' = missed \cup {sys_evt["api"].ip}
                        BY <2>6, <4>1, <5>2 DEF Test
                    <6> QED
                        BY <1>1, <1>4, <6>1 DEF Telling, Current
                <5> QED
                    BY <5>1, <5>2
            <4>2. CASE Call(th)
                <5>1. sys_evt_callback # NULL
                    BY <1>3, <1>4, <4>2 DEF Call, Goto, Current, Running
                <5> QED
                    BY <1>1, <1>3, <2>6, <4>2, <5>1 DEF Telling, WasTold, Call,
                        Goto
            <4>3. CASE Returns(th)
                BY <2>6, <4>3 DEF Telling, Returns
            <4> QED
                BY <4>1, <4>2, <4>3
        <3>2. WasTold => WasTold'
            BY <1>1, <1>3, <2>6 DEF WasTold, Test, Call, Returns, Goto, known
        <3> QED
            BY <2>1, <2>4, <2>5, <3>1, <3>2
    <2>7. CASE th = "evt"
        <3>1. Telling => Telling'
            BY <1>1, <2>2, <2>7 DEF Telling, Threads
        <3>2. WasTold => WasTold'
            <4>1. told' = told
                BY <2>7 DEF Test, Call, Returns, known
            <4>2. ASSUME WasTold PROVE last' = last \/ last' = "got_ip"
                BY <2>1, <2>7, <4>2 DEF LinkTold, Station, Test, Call, Returns,
                    known
            <4> QED
                BY <1>1, <2>2, <2>7, <4>1, <4>2 DEF WasTold, Threads
        <3> QED
            BY <2>1, <2>4, <2>5, <3>1, <3>2
    <2> QED
        BY <2>6, <2>7 DEF Threads
<1> QED
    BY <1>2, <1>4 DEF AddressInv

\* The order of events and the way of the address, in every behaviour.
LEMMA OrderAlways == Spec => [](OrderInv /\ AddressInv)
<1>1. Init => OrderInv /\ AddressInv
    <2>1. Init => OrderInv
        BY EmptySeq DEF Init, OrderInv
    <2> QED
        BY <2>1 DEF Init, AddressInv, Current
<1>2. ASSUME BaseInv, OrderInv, AddressInv, [Next]_vars
      PROVE  OrderInv' /\ AddressInv'
    <2>1. CASE UNCHANGED vars \/ LoopInit \/ Register \/ SetCb
        <3>1. /\ UNCHANGED <<link, lease, heard, line, reads, missed, pc, sys_evt>>
              /\ UNCHANGED <<told, last>>
            BY <2>1 DEF vars, LoopInit, Register, SetCb, reading, chip, known
        <3>2. OrderInv'
            BY <1>2, <3>1 DEF OrderInv
        <3>3. AddressInv'
            BY <1>2, <3>1 DEF AddressInv, Current, LinkTold, Asked, Telling,
                WasTold, Running
        <3> QED
            BY <3>2, <3>3
    <2> QED
        BY <1>2, <2>1, ChipOrder, EventOrder, CompleteOrder, ThreadOrder
            DEF Next, Library
<1> QED
    BY <1>1, <1>2, BaseStart, BaseStep, PTL DEF Spec

\* When everything has settled the application knows the address of the
\* station, for any number of reports, leases and changes of the callback, and
\* whether or not reads of the address fail.
THEOREM ToldWhatIs == Spec => []AppUpToDate
<1>1. OrderInv /\ AddressInv => AppUpToDate
    <2> SUFFICES ASSUME OrderInv, AddressInv, Settled, link = "ip", heard = lease,
                        lease \notin missed
                 PROVE  told = lease /\ last = "got_ip"
        BY DEF AppUpToDate
    <2>1. Current
        BY DEF Settled, Quiet, Current, Running
    <2>2. ~Asked /\ ~Telling
        BY DEF Settled, Quiet, Asked, Telling, Threads
    <2> QED
        BY <2>1, <2>2 DEF AddressInv, WasTold
<1> QED
    BY <1>1, OrderAlways, PTL
=============================================================================
