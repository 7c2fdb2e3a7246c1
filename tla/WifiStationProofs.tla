--------------------------- MODULE WifiStationProofs ---------------------------
(***************************************************************************)
(* What holds of WifiStation for any number of tasks, configurations,      *)
(* access points, scans and commands that the library holds: the types,    *)
(* the bounds of aps, that a join is of one configuration, that records    *)
(* are of the last scan, and that a scan that is waited for is done.  Each *)
(* theorem names the obligations of callers that it needs.                 *)
(***************************************************************************)
EXTENDS WifiStation, TLAPS

-----------------------------------------------------------------------------
(* Types.                                                                  *)

StaticsType ==
    /\ sta_config \in [Parts -> Configs \cup {Unset}]
    /\ sta_to_connect \in BOOLEAN
    /\ aps \in [Entries -> Scans] /\ apf \in 0 .. ApsSize

QueueType ==
    /\ queue \in Seq(Commands)
    /\ doing \in {"nothing", "reading", "scanning"}
    /\ heard \in 0 .. MaxFound

TakenType == \E P \in SUBSET Parts : taken \in [P -> Configs \cup {Unset}]

PcType == pc \in [Tasks -> Pcs]

LocalsType ==
    /\ conf \in [Tasks -> Configs \cup {Unset}]
    /\ todo \in [Tasks -> SUBSET (Parts \cup {"pointer"})]
    /\ mac \in [Tasks -> BOOLEAN]
    /\ number \in [Tasks -> Nat]
    /\ i \in [Tasks -> Nat]
    /\ got \in [Tasks -> SUBSET Scans]
    /\ answer \in [Tasks -> {"none", "ok", "fail"}]

KnownType ==
    /\ latest \in Configs \cup {Unset}
    /\ scans \in Scans /\ told \in Scans
    /\ mine \in [Tasks -> Scans]
    /\ numof \in [Tasks -> Scans]
    /\ done \in [scan : Scans, found : 0 .. ApsSize]

LEMMA TypeParts ==
    TypeOK <=> StaticsType /\ QueueType /\ TakenType /\ PcType /\ LocalsType /\ KnownType
BY DEF TypeOK, StaticsType, QueueType, TakenType, PcType, LocalsType, KnownType

\* There is a configuration once one is being set, esp_wifi_connect goes on
\* only with one, and the library works on the first command of its queue.
LinkInv ==
    /\ sta_to_connect => latest \in Configs
    /\ \A t \in Tasks :
        /\ pc[t] = "set" => latest \in Configs
        /\ pc[t] \in {"mac", "join"} => sta_to_connect
    /\ doing # "nothing" => queue # <<>>
    /\ doing = "reading" => queue[1].kind = "join"
    /\ doing = "scanning" => queue[1].kind = "scan"

TypeInv == TypeOK /\ LinkInv

LEMMA Parts6 ==
    ASSUME TypeInv
    PROVE  /\ StaticsType /\ QueueType /\ TakenType /\ PcType /\ LocalsType
           /\ KnownType /\ LinkInv
BY TypeParts DEF TypeInv

\* What a command of either kind consists of.
LEMMA CommandFields ==
    ASSUME NEW c \in Commands
    PROVE  /\ c.kind \in {"join", "scan"}
           /\ c.kind = "join" => c.mac \in BOOLEAN /\ c.wanted \in Configs
           /\ c.kind = "scan" => c.n \in 1 .. MaxScans /\ c.by \in Tasks /\ c.block \in BOOLEAN
BY DEF Commands

\* A queue of commands that one is added to.
LEMMA Longer ==
    ASSUME NEW q \in Seq(Commands), NEW c \in Commands
    PROVE  /\ Append(q, c) \in Seq(Commands) /\ Len(Append(q, c)) = Len(q) + 1
           /\ \A k \in 1 .. Len(q) : Append(q, c)[k] = q[k] /\ q[k] \in Commands
           /\ Append(q, c)[Len(q) + 1] = c
           /\ Append(q, c) # <<>>
           /\ q # <<>> => Append(q, c)[1] = q[1]
OBVIOUS

\* A queue of commands that loses its first.
LEMMA Shorter ==
    ASSUME NEW q \in Seq(Commands), q # <<>>
    PROVE  /\ Tail(q) \in Seq(Commands) /\ Len(Tail(q)) = Len(q) - 1
           /\ Len(q) \in Nat /\ Len(q) >= 1 /\ Head(q) = q[1] /\ q[1] \in Commands
           /\ \A k \in 1 .. Len(Tail(q)) : Tail(q)[k] = q[k + 1] /\ k + 1 \in 1 .. Len(q)
OBVIOUS

\* The command that the library works on.
LEMMA First ==
    ASSUME TypeInv, doing # "nothing"
    PROVE  /\ queue # <<>> /\ Head(queue) = queue[1] /\ queue[1] \in Commands
           /\ doing = "reading" => queue[1].kind = "join"
           /\ doing = "scanning" => queue[1].kind = "scan" /\ queue[1].n \in 1 .. MaxScans
BY Parts6, Shorter, CommandFields DEF QueueType, LinkInv

LEMMA StaticsStep ==
    ASSUME TypeInv, [Next]_vars
    PROVE  StaticsType'
<1>0. StaticsType /\ LocalsType /\ ApsSize \in Nat
    BY Parts6, Bounds
<1>1. CASE \E t \in Tasks : Store(t)
    BY <1>0, <1>1 DEF Store, StaticsType, LocalsType
<1>2. CASE \E t \in Tasks : ScanStart(t)
    BY <1>0, <1>2 DEF ScanStart, StaticsType
<1>3. CASE \E t \in Tasks : ScanRefused(t)
    BY <1>0, <1>3 DEF ScanRefused, StaticsType
<1>4. CASE Hear
    <2>1. heard \in 0 .. MaxFound /\ MaxFound \in Nat
        BY Parts6, Bounds DEF QueueType
    <2>2. Head(queue).n \in Scans
        BY <1>4, First, Bounds DEF Hear, Scans
    <2> QED
        BY <1>0, <1>4, <2>1, <2>2 DEF Hear, StaticsType, Room
<1>5. ASSUME ~(\E t \in Tasks : Store(t)),
             ~(\E t \in Tasks : ScanStart(t)),
             ~(\E t \in Tasks : ScanRefused(t)),
             ~(Hear)
      PROVE  UNCHANGED statics
    BY <1>5 DEF Next, Library, Start, Work, vars, statics, SetConfig, Connect,
        GetApNum, GetApRecords, ConfigSet, Load, ChooseMac, Join, ScanReturns,
        CopyBssid, CopyRest, RecordsReturn, Take, ReadPart, Joined, ScanEnds
<1> QED
    BY <1>1, <1>2, <1>3, <1>4, <1>5, <1>0 DEF statics, StaticsType

LEMMA QueueStep ==
    ASSUME TypeInv, [Next]_vars
    PROVE  QueueType'
<1>0. QueueType /\ MaxFound \in Nat
    BY Parts6, Bounds
<1>1. CASE \E t \in Tasks : Join(t)
    <2>1. PICK t \in Tasks : Join(t)
        BY <1>1
    <2>2. mac[t] \in BOOLEAN /\ latest \in Configs
        BY <2>1, Parts6 DEF Join, LocalsType, LinkInv
    <2>3. [kind |-> "join", mac |-> mac[t], wanted |-> latest] \in Commands
        BY <2>2 DEF Commands
    <2> QED
        BY <1>0, <2>1, <2>3, Longer DEF Join, QueueType
<1>2. CASE \E t \in Tasks : ScanStart(t)
    <2>1. PICK t \in Tasks : ScanStart(t)
        BY <1>2
    <2>2. PICK block \in BOOLEAN :
            queue' = Append(queue, [kind |-> "scan", n |-> scans + 1,
                                    by |-> t, block |-> Waits(block)])
        BY <2>1 DEF ScanStart
    <2>3. scans + 1 \in 1 .. MaxScans
        BY <2>1, Parts6, Bounds, SMTT(30) DEF ScanStart, KnownType, Scans
    <2>4. [kind |-> "scan", n |-> scans + 1, by |-> t, block |-> Waits(block)] \in Commands
        BY <2>3 DEF Commands, Waits
    <2> QED
        BY <1>0, <2>1, <2>2, <2>4, Longer DEF ScanStart, QueueType
<1>3. CASE Take
    BY <1>0, <1>3 DEF Take, QueueType
<1>4. CASE Joined
    BY <1>0, <1>4, First, Shorter DEF Joined, QueueType
<1>5. CASE Hear
    BY <1>0, <1>5 DEF Hear, QueueType
<1>6. CASE \E ok \in BOOLEAN : ScanEnds(ok)
    BY <1>0, <1>6, First, Shorter DEF ScanEnds, QueueType
<1>7. ASSUME ~(\E t \in Tasks : Join(t)),
             ~(\E t \in Tasks : ScanStart(t)),
             ~(Take),
             ~(Joined),
             ~(Hear),
             ~(\E ok \in BOOLEAN : ScanEnds(ok))
      PROVE  UNCHANGED <<queue, doing, heard>>
    BY <1>7 DEF Next, Library, Start, Work, vars, library, SetConfig, Connect,
        ScanRefused, GetApNum, GetApRecords, Store, ConfigSet, Load, ChooseMac,
        ScanReturns, CopyBssid, CopyRest, RecordsReturn, ReadPart
<1> QED
    BY <1>1, <1>2, <1>3, <1>4, <1>5, <1>6, <1>7, <1>0 DEF QueueType

LEMMA TakenStep ==
    ASSUME TypeInv, [Next]_vars
    PROVE  TakenType'
<1>0. TakenType /\ StaticsType
    BY Parts6
<1>1. CASE ReadPart
    <2>1. PICK P \in SUBSET Parts : taken \in [P -> Configs \cup {Unset}]
        BY <1>0 DEF TakenType
    <2>2. PICK p \in ToRead :
            taken' = [q \in P \cup {p} |-> IF q = p THEN sta_config[p] ELSE taken[q]]
        BY <1>1, <2>1 DEF ReadPart
    <2>3. ToRead \subseteq Parts
        BY DEF ToRead, Parts
    <2>4. P \cup {p} \in SUBSET Parts /\ taken' \in [P \cup {p} -> Configs \cup {Unset}]
        BY <1>0, <2>1, <2>2, <2>3 DEF StaticsType
    <2> QED
        BY <2>4 DEF TakenType
<1>2. CASE Joined
    <2>1. taken' \in [{} -> Configs \cup {Unset}] /\ {} \in SUBSET Parts
        BY <1>2 DEF Joined
    <2> QED
        BY <2>1 DEF TakenType
<1>3. ASSUME ~(ReadPart),
             ~(Joined)
      PROVE  UNCHANGED taken
    BY <1>3, ZenonT(40) DEF Next, Library, Start, Work, vars, library,
        SetConfig, Connect, ScanStart, ScanRefused, GetApNum, GetApRecords,
        Store, ConfigSet, Load, ChooseMac, Join, ScanReturns, CopyBssid,
        CopyRest, RecordsReturn, Take, Hear, ScanEnds
<1> QED
    BY <1>1, <1>2, <1>3, <1>0 DEF TakenType

LEMMA PcStep ==
    ASSUME TypeInv, [Next]_vars
    PROVE  PcType'
<1>1. PcType
    BY Parts6
<1>2. UNCHANGED pc \/ \E t \in Tasks, p \in Pcs : Goto(t, p)
    BY ZenonT(40) DEF Next, Library, Start, Work, vars, Pcs, SetConfig, Connect,
        ScanStart, ScanRefused, GetApNum, GetApRecords, Store, ConfigSet, Load,
        ChooseMac, Join, ScanReturns, CopyBssid, CopyRest, RecordsReturn, Take,
        ReadPart, Joined, Hear, ScanEnds
<1> QED
    BY <1>1, <1>2 DEF PcType, Goto

LEMMA LocalsStep ==
    ASSUME TypeInv, [Next]_vars
    PROVE  LocalsType'
<1>0. LocalsType /\ StaticsType /\ ApsSize \in Nat /\ MaxNumber \in Nat
    BY Parts6, Bounds
<1>1. CASE \E t \in Tasks : SetConfig(t)
    BY <1>0, <1>1 DEF SetConfig, LocalsType
<1>2. CASE \E t \in Tasks : Store(t)
    BY <1>0, <1>2 DEF Store, LocalsType
<1>3. CASE \E t \in Tasks : ConfigSet(t)
    BY <1>0, <1>3 DEF ConfigSet, LocalsType
<1>4. CASE \E t \in Tasks : ChooseMac(t)
    BY <1>0, <1>4 DEF ChooseMac, LocalsType, BssidSet
<1>5. CASE \E t \in Tasks : Join(t)
    BY <1>0, <1>5 DEF Join, LocalsType
<1>6. CASE \E t \in Tasks : ScanStart(t)
    BY <1>0, <1>6 DEF ScanStart, LocalsType
<1>7. CASE \E t \in Tasks : ScanReturns(t)
    BY <1>0, <1>7 DEF ScanReturns, LocalsType
<1>8. CASE \E t \in Tasks : GetApNum(t)
    BY <1>0, <1>8 DEF GetApNum, LocalsType, StaticsType
<1>9. CASE \E t \in Tasks : GetApRecords(t)
    BY <1>0, <1>9 DEF GetApRecords, LocalsType
<1>10. CASE \E t \in Tasks : CopyBssid(t)
    <2>1. MaxScans \in Nat /\ 0 \in Scans
        BY Bounds DEF Scans
    <2> QED
        BY <1>0, <1>10, <2>1 DEF CopyBssid, LocalsType, StaticsType
<1>11. CASE \E t \in Tasks : CopyRest(t)
    <2>1. MaxScans \in Nat /\ 0 \in Scans
        BY Bounds DEF Scans
    <2> QED
        BY <1>0, <1>11, <2>1 DEF CopyRest, LocalsType, StaticsType
<1>12. CASE \E t \in Tasks : RecordsReturn(t)
    BY <1>0, <1>12 DEF RecordsReturn, LocalsType
<1>13. CASE \E ok \in BOOLEAN : ScanEnds(ok)
    BY <1>0, <1>13 DEF ScanEnds, LocalsType
<1>14. ASSUME ~(\E t \in Tasks : SetConfig(t)),
             ~(\E t \in Tasks : Store(t)),
             ~(\E t \in Tasks : ConfigSet(t)),
             ~(\E t \in Tasks : ChooseMac(t)),
             ~(\E t \in Tasks : Join(t)),
             ~(\E t \in Tasks : ScanStart(t)),
             ~(\E t \in Tasks : ScanReturns(t)),
             ~(\E t \in Tasks : GetApNum(t)),
             ~(\E t \in Tasks : GetApRecords(t)),
             ~(\E t \in Tasks : CopyBssid(t)),
             ~(\E t \in Tasks : CopyRest(t)),
             ~(\E t \in Tasks : RecordsReturn(t)),
             ~(\E ok \in BOOLEAN : ScanEnds(ok))
      PROVE  UNCHANGED locals
    BY <1>14 DEF Next, Library, Start, Work, vars, locals, Connect, ScanRefused,
        Load, Take, ReadPart, Joined, Hear
<1> QED
    BY <1>1, <1>2, <1>3, <1>4, <1>5, <1>6, <1>7, <1>8, <1>9, <1>10, <1>11,
        <1>12, <1>13, <1>14, <1>0 DEF locals, LocalsType

LEMMA KnownStep ==
    ASSUME TypeInv, [Next]_vars
    PROVE  KnownType'
<1>0. KnownType /\ StaticsType /\ MaxScans \in Nat /\ 0 \in Scans
    BY Parts6, Bounds DEF Scans
<1>1. CASE \E t \in Tasks : SetConfig(t)
    BY <1>0, <1>1 DEF SetConfig, KnownType
<1>2. CASE \E t \in Tasks : ScanStart(t)
    <2>1. scans + 1 \in Scans
        BY <1>0, <1>2 DEF ScanStart, KnownType, Scans
    <2> QED
        BY <1>0, <1>2, <2>1 DEF ScanStart, KnownType
<1>3. CASE \E t \in Tasks : ScanReturns(t)
    BY <1>0, <1>3 DEF ScanReturns, KnownType
<1>4. CASE \E t \in Tasks : GetApNum(t)
    BY <1>0, <1>4 DEF GetApNum, KnownType
<1>5. CASE \E t \in Tasks : RecordsReturn(t)
    BY <1>0, <1>5 DEF RecordsReturn, KnownType
<1>6. CASE \E ok \in BOOLEAN : ScanEnds(ok)
    <2>1. Head(queue).n \in Scans
        BY <1>6, First, Bounds DEF ScanEnds, Scans
    <2> QED
        BY <1>0, <1>6, <2>1 DEF ScanEnds, KnownType, StaticsType, Tells
<1>7. ASSUME ~(\E t \in Tasks : SetConfig(t)),
             ~(\E t \in Tasks : ScanStart(t)),
             ~(\E t \in Tasks : ScanReturns(t)),
             ~(\E t \in Tasks : GetApNum(t)),
             ~(\E t \in Tasks : RecordsReturn(t)),
             ~(\E ok \in BOOLEAN : ScanEnds(ok))
      PROVE  UNCHANGED known
    BY <1>7 DEF Next, Library, Start, Work, vars, known, Connect, ScanRefused,
        GetApRecords, Store, ConfigSet, Load, ChooseMac, Join, CopyBssid,
        CopyRest, Take, ReadPart, Joined, Hear
<1> QED
    BY <1>1, <1>2, <1>3, <1>4, <1>5, <1>6, <1>7, <1>0 DEF known, KnownType

LEMMA LinkStep ==
    ASSUME TypeInv, [Next]_vars
    PROVE  LinkInv'
<1>0. LinkInv /\ PcType /\ QueueType
    BY Parts6
<1>1. CASE \E t \in Tasks : SetConfig(t)
    BY <1>0, <1>1 DEF SetConfig, LinkInv, PcType, Goto, statics, library
<1>2. CASE \E t \in Tasks : Store(t)
    BY <1>0, <1>2 DEF Store, LinkInv, PcType, Goto, library, locals, known
<1>3. CASE \E t \in Tasks : Load(t)
    BY <1>0, <1>3 DEF Load, LinkInv, PcType, Goto, statics, library, locals,
        known
<1>4. CASE \E t \in Tasks : Join(t)
    <2>1. PICK t \in Tasks : Join(t)
        BY <1>4
    <2>2. queue' = queue \/ \E c \in Commands : queue' = Append(queue, c)
        <3>1. mac[t] \in BOOLEAN /\ latest \in Configs
            BY <2>1, Parts6 DEF Join, LocalsType, LinkInv
        <3>2. [kind |-> "join", mac |-> mac[t], wanted |-> latest] \in Commands
            BY <3>1 DEF Commands
        <3> QED
            BY <2>1, <3>2 DEF Join
    <2>3. queue # <<>> => queue' # <<>> /\ queue'[1] = queue[1]
        BY <1>0, <2>2, Longer DEF QueueType
    <2> QED
        BY <1>0, <2>1, <2>3 DEF Join, LinkInv, PcType, Goto, statics, known
<1>5. CASE \E t \in Tasks : ScanStart(t)
    <2>1. PICK t \in Tasks : ScanStart(t)
        BY <1>5
    <2>2. \E c \in Commands : queue' = Append(queue, c)
        <3>1. scans + 1 \in 1 .. MaxScans
            BY <2>1, Parts6, Bounds DEF ScanStart, KnownType, Scans
        <3>2. PICK block \in BOOLEAN :
                queue' = Append(queue, [kind |-> "scan", n |-> scans + 1,
                                        by |-> t, block |-> Waits(block)])
            BY <2>1 DEF ScanStart
        <3>3. [kind |-> "scan", n |-> scans + 1, by |-> t, block |-> Waits(block)] \in Commands
            BY <3>1 DEF Commands, Waits
        <3> QED
            BY <3>2, <3>3
    <2>3. queue' # <<>> /\ (queue # <<>> => queue'[1] = queue[1])
        BY <1>0, <2>2, Longer DEF QueueType
    <2>4. pc'[t] \in {"wait", "idle"} /\ \A u \in Tasks \ {t} : pc'[u] = pc[u]
        BY <1>0, <2>1 DEF ScanStart, PcType, Goto
    <2> QED
        BY <1>0, <2>1, <2>3, <2>4 DEF ScanStart, LinkInv
<1>6. CASE Take
    <2>1. queue # <<>> /\ Head(queue) = queue[1] /\ queue[1].kind \in {"join", "scan"}
        BY <1>0, <1>6, Shorter, CommandFields DEF Take, QueueType
    <2> QED
        BY <1>0, <1>6, <2>1 DEF Take, LinkInv, statics, known
<1>7. CASE Joined
    BY <1>0, <1>7 DEF Joined, LinkInv, statics, known
<1>8. CASE \E ok \in BOOLEAN : ScanEnds(ok)
    BY <1>0, <1>8 DEF ScanEnds, LinkInv, statics
<1>9. ASSUME ~(\E t \in Tasks : SetConfig(t)),
             ~(\E t \in Tasks : Store(t)),
             ~(\E t \in Tasks : Load(t)),
             ~(\E t \in Tasks : Join(t)),
             ~(\E t \in Tasks : ScanStart(t)),
             ~(Take),
             ~(Joined),
             ~(\E ok \in BOOLEAN : ScanEnds(ok))
      PROVE  /\ UNCHANGED <<sta_to_connect, latest, queue, doing>>
             /\ \/ UNCHANGED pc
                \/ \E t \in Tasks, p \in {"idle", "load", "bssid", "rest"} : Goto(t, p)
                \/ \E t \in Tasks : pc[t] = "mac" /\ Goto(t, "join")
    BY <1>9 DEF Next, Library, Start, Work, vars, statics, library, known,
        Connect, ScanRefused, GetApNum, GetApRecords, ConfigSet, ChooseMac,
        ScanReturns, CopyBssid, CopyRest, RecordsReturn, ReadPart, Hear
<1>10. ASSUME ~(\E t \in Tasks : SetConfig(t)),
             ~(\E t \in Tasks : Store(t)),
             ~(\E t \in Tasks : Load(t)),
             ~(\E t \in Tasks : Join(t)),
             ~(\E t \in Tasks : ScanStart(t)),
             ~(Take),
             ~(Joined),
             ~(\E ok \in BOOLEAN : ScanEnds(ok))
      PROVE  LinkInv'
    BY <1>0, <1>9, <1>10 DEF LinkInv, PcType, Goto
<1> QED
    BY <1>1, <1>2, <1>3, <1>4, <1>5, <1>6, <1>7, <1>8, <1>10

LEMMA InitType == Init => TypeInv
<1> SUFFICES ASSUME Init PROVE TypeInv
    OBVIOUS
<1>1. 0 \in Scans /\ 0 \in 0 .. ApsSize /\ 0 \in 0 .. MaxFound
    BY Bounds DEF Scans
<1>2. StaticsType /\ KnownType
    BY <1>1 DEF Init, StaticsType, KnownType
<1>3. QueueType
    BY <1>1 DEF Init, QueueType
<1>4. TakenType
    <2>1. {} \in SUBSET Parts /\ taken \in [{} -> Configs \cup {Unset}]
        BY DEF Init
    <2> QED
        BY <2>1 DEF TakenType
<1>5. PcType /\ LocalsType
    BY DEF Init, PcType, Pcs, LocalsType
<1>6. LinkInv
    BY DEF Init, LinkInv
<1> QED
    BY <1>2, <1>3, <1>4, <1>5, <1>6, TypeParts DEF TypeInv

LEMMA TypeAlways == Spec => []TypeInv
<1>1. TypeInv /\ [Next]_vars => TypeInv'
    <2> SUFFICES ASSUME TypeInv, [Next]_vars PROVE TypeInv'
        OBVIOUS
    <2>1. /\ StaticsType' /\ QueueType' /\ TakenType' /\ PcType'
          /\ LocalsType' /\ KnownType' /\ LinkInv'
        BY StaticsStep, QueueStep, TakenStep, PcStep, LocalsStep, KnownStep,
           LinkStep
    <2> QED
        BY <2>1 DEF TypeInv, TypeOK, StaticsType, QueueType, TakenType, PcType,
            LocalsType, KnownType
<1> QED
    BY InitType, <1>1, PTL DEF Spec

\* The type invariant of WifiStation, with no obligation on callers: the
\* library counts in apf what fits in aps.
THEOREM TypeCorrect == Spec => []TypeOK
<1>1. TypeInv => TypeOK
    BY DEF TypeInv
<1> QED
    BY TypeAlways, <1>1, PTL

-----------------------------------------------------------------------------
(* The bounds of aps.                                                      *)

\* A caller that asks for as many records as it was told there are asks for
\* no more than there is room for.
NumberInv ==
    \A t \in Tasks :
        /\ number[t] <= ApsSize
        /\ pc[t] = "rest" => i[t] < number[t]

LEMMA NumberStep ==
    ASSUME "number" \in Contract, TypeInv, NumberInv, [Next]_vars
    PROVE  NumberInv'
<1>0. StaticsType /\ LocalsType /\ PcType /\ ApsSize \in Nat
    BY Parts6, Bounds
<1>1. CASE \E t \in Tasks : GetApNum(t)
    BY <1>0, <1>1 DEF GetApNum, NumberInv, LocalsType, PcType, statics,
        StaticsType
<1>2. CASE \E t \in Tasks : GetApRecords(t)
    BY <1>0, <1>2 DEF GetApRecords, NumberInv, LocalsType, PcType, Goto,
        statics, MayAsk
<1>3. CASE \E t \in Tasks : CopyBssid(t)
    BY <1>0, <1>3 DEF CopyBssid, NumberInv, LocalsType, PcType, Goto, statics,
        More
<1>4. CASE \E t \in Tasks : CopyRest(t)
    BY <1>0, <1>4 DEF CopyRest, NumberInv, LocalsType, PcType, Goto, statics
<1>5. CASE \E t \in Tasks : RecordsReturn(t)
    BY <1>0, <1>5 DEF RecordsReturn, NumberInv, LocalsType, PcType, Goto,
        statics, More
<1>6. ASSUME ~(\E t \in Tasks : GetApNum(t)),
             ~(\E t \in Tasks : GetApRecords(t)),
             ~(\E t \in Tasks : CopyBssid(t)),
             ~(\E t \in Tasks : CopyRest(t)),
             ~(\E t \in Tasks : RecordsReturn(t))
      PROVE  /\ UNCHANGED <<number, i>>
             /\ UNCHANGED pc \/ \E t \in Tasks, p \in Pcs \ {"rest"} : Goto(t, p)
    BY <1>6 DEF Next, Library, Start, Work, vars, locals, Pcs, SetConfig,
        Connect, ScanStart, ScanRefused, Store, ConfigSet, Load, ChooseMac,
        Join, ScanReturns, Take, ReadPart, Joined, Hear, ScanEnds
<1>7. ASSUME ~(\E t \in Tasks : GetApNum(t)),
             ~(\E t \in Tasks : GetApRecords(t)),
             ~(\E t \in Tasks : CopyBssid(t)),
             ~(\E t \in Tasks : CopyRest(t)),
             ~(\E t \in Tasks : RecordsReturn(t))
      PROVE  NumberInv'
    BY <1>0, <1>6, <1>7 DEF NumberInv, PcType, Goto
<1> QED
    BY <1>1, <1>2, <1>3, <1>4, <1>5, <1>7

LEMMA NumberAlways ==
    ASSUME "number" \in Contract
    PROVE  Spec => []NumberInv
<1>1. Init => NumberInv
    <2>1. ApsSize \in Nat
        BY Bounds
    <2> SUFFICES ASSUME Init, NEW t \in Tasks
                 PROVE  number[t] <= ApsSize /\ (pc[t] = "rest" => i[t] < number[t])
        BY DEF NumberInv
    <2>2. number[t] = 0 /\ pc[t] = "idle"
        BY DEF Init
    <2> QED
        BY <2>1, <2>2
<1>2. TypeInv /\ NumberInv /\ [Next]_vars => NumberInv'
    BY NumberStep
<1> QED
    BY <1>1, <1>2, TypeAlways, PTL DEF Spec

\* esp_wifi_scan_get_ap_records reads only entries that aps has, for any size
\* of aps and any number of scans, if its callers ask for as many records as
\* esp_wifi_scan_get_ap_num gave.
THEOREM RecordsInside ==
    ASSUME "number" \in Contract
    PROVE  Spec => []ApsInBounds
<1>1. TypeInv /\ NumberInv => ApsInBounds
    <2> SUFFICES ASSUME TypeInv, NumberInv, NEW t \in Tasks, pc[t] = "rest"
                 PROVE  i[t] < ApsSize
        BY DEF ApsInBounds, At
    <2>1. i[t] \in Nat /\ number[t] \in Nat /\ ApsSize \in Nat
        BY Parts6, Bounds DEF LocalsType
    <2> QED
        BY <2>1 DEF NumberInv
<1> QED
    BY <1>1, NumberAlways, TypeAlways, PTL

-----------------------------------------------------------------------------
(* Joining.                                                                *)

UsesConfig == {"set", "load", "mac", "join"}

\* Nobody uses the configuration while it is set, and when it is not, and
\* there is one, all its parts are of the one that was set last.
ConfigInv ==
    /\ \A t, u \in Tasks : pc[t] = "set" /\ u # t => pc[u] \notin UsesConfig
    /\ \A t \in Tasks : pc[t] = "set" =>
        /\ \A k \in 1 .. Len(queue) : queue[k].kind # "join"
        /\ conf[t] = latest
        /\ \A p \in Parts \ todo[t] : sta_config[p] = latest
    /\ sta_to_connect /\ (\A t \in Tasks : pc[t] # "set") =>
        \A p \in Parts : sta_config[p] = latest

\* What is on its way to the chip is of that configuration too.
JoinInv ==
    /\ \A t \in Tasks : pc[t] = "join" => (mac[t] <=> latest \in WithBssid)
    /\ \A k \in 1 .. Len(queue) : queue[k].kind = "join" =>
        /\ sta_to_connect
        /\ queue[k].wanted = latest
        /\ queue[k].mac <=> latest \in WithBssid
    /\ doing # "reading" => DOMAIN taken = {}
    /\ \A p \in DOMAIN taken : taken[p] = latest

\* How a step changes the queue.
LEMMA QueueChanges ==
    ASSUME TypeInv, [Next]_vars
    PROVE  \/ queue' = queue
           \/ /\ queue # <<>> /\ queue' = Tail(queue)
              /\ Joined \/ \E ok \in BOOLEAN : ScanEnds(ok)
           \/ \E t \in Tasks : \E c \in Commands :
                /\ queue' = Append(queue, c)
                /\ \/ /\ Join(t)
                      /\ c = [kind |-> "join", mac |-> mac[t], wanted |-> latest]
                   \/ /\ ScanStart(t)
                      /\ c.kind = "scan" /\ c.n = scans + 1 /\ c.by = t
                      /\ pc'[t] = (IF c.block THEN "wait" ELSE "idle")
                      /\ mine'[t] = (IF c.block THEN scans + 1 ELSE 0)
<1>1. ASSUME NEW t \in Tasks, Join(t)
      PROVE  \/ queue' = queue
             \/ \E c \in Commands :
                    /\ queue' = Append(queue, c)
                    /\ c = [kind |-> "join", mac |-> mac[t], wanted |-> latest]
    <2>1. mac[t] \in BOOLEAN /\ latest \in Configs
        BY <1>1, Parts6 DEF Join, LocalsType, LinkInv
    <2>2. [kind |-> "join", mac |-> mac[t], wanted |-> latest] \in Commands
        BY <2>1 DEF Commands
    <2> QED
        BY <1>1, <2>2 DEF Join
<1>2. ASSUME NEW t \in Tasks, ScanStart(t)
      PROVE  \E c \in Commands :
                /\ queue' = Append(queue, c)
                /\ c.kind = "scan" /\ c.n = scans + 1 /\ c.by = t
                /\ pc'[t] = (IF c.block THEN "wait" ELSE "idle")
                /\ mine'[t] = (IF c.block THEN scans + 1 ELSE 0)
    <2>1. scans + 1 \in 1 .. MaxScans
        BY <1>2, Parts6, Bounds DEF ScanStart, KnownType, Scans
    <2>2. PICK block \in BOOLEAN :
            /\ queue' = Append(queue, [kind |-> "scan", n |-> scans + 1,
                                       by |-> t, block |-> block])
            /\ Goto(t, IF block THEN "wait" ELSE "idle")
            /\ mine' = [mine EXCEPT ![t] = IF block THEN scans + 1 ELSE 0]
        BY <1>2 DEF ScanStart, Waits
    <2>3. [kind |-> "scan", n |-> scans + 1, by |-> t, block |-> block] \in Commands
        BY <2>1 DEF Commands
    <2>4. /\ pc'[t] = (IF block THEN "wait" ELSE "idle")
          /\ mine'[t] = (IF block THEN scans + 1 ELSE 0)
        BY <2>2, Parts6 DEF PcType, KnownType, Goto
    <2> QED
        BY <2>2, <2>3, <2>4
<1>3. ASSUME Joined \/ \E ok \in BOOLEAN : ScanEnds(ok)
      PROVE  queue # <<>> /\ queue' = Tail(queue)
    BY <1>3, First DEF Joined, ScanEnds
<1>4. ASSUME ~Joined, ~\E ok \in BOOLEAN : ScanEnds(ok),
             ~\E t \in Tasks : Join(t) \/ ScanStart(t)
      PROVE  queue' = queue
    BY <1>4 DEF Next, Library, Start, Work, vars, library, SetConfig, Connect,
        ScanRefused, GetApNum, GetApRecords, Store, ConfigSet, Load, ChooseMac,
        ScanReturns, CopyBssid, CopyRest, RecordsReturn, Take, ReadPart, Hear
<1> QED
    BY <1>1, <1>2, <1>3, <1>4

\* Only esp_wifi_connect adds joins to the queue.
LEMMA QueuedJoins ==
    ASSUME TypeInv, [Next]_vars, NEW k \in 1 .. Len(queue'), queue'[k].kind = "join"
    PROVE  \/ \E l \in 1 .. Len(queue) : queue[l] = queue'[k]
           \/ \E t \in Tasks :
                /\ Join(t)
                /\ queue'[k] = [kind |-> "join", mac |-> mac[t], wanted |-> latest]
<1>0. queue \in Seq(Commands)
    BY Parts6 DEF QueueType
<1>1. CASE queue' = queue
    BY <1>1
<1>2. CASE queue # <<>> /\ queue' = Tail(queue)
    BY <1>0, <1>2, Shorter
<1>3. ASSUME NEW t \in Tasks, NEW c \in Commands, queue' = Append(queue, c),
             \/ /\ Join(t)
                /\ c = [kind |-> "join", mac |-> mac[t], wanted |-> latest]
             \/ c.kind = "scan"
      PROVE  \/ \E l \in 1 .. Len(queue) : queue[l] = queue'[k]
             \/ Join(t) /\ queue'[k] = [kind |-> "join", mac |-> mac[t], wanted |-> latest]
    <2>1. k \in 1 .. Len(queue) \/ k = Len(queue) + 1
        BY <1>0, <1>3, Longer
    <2>2. CASE k \in 1 .. Len(queue)
        BY <1>0, <1>3, <2>2, Longer
    <2>3. CASE k = Len(queue) + 1
        BY <1>0, <1>3, <2>3, Longer
    <2> QED
        BY <2>1, <2>2, <2>3
<1> QED
    BY <1>1, <1>2, <1>3, QueueChanges

\* Everything that ConfigInv is about stays as it is, except for these.
LEMMA ConfigUntouched ==
    ASSUME TypeInv, [Next]_vars,
           ~\E t \in Tasks : SetConfig(t) \/ Store(t) \/ ConfigSet(t) \/ Connect(t)
    PROVE  /\ UNCHANGED <<sta_config, sta_to_connect, conf, todo, latest>>
           /\ \A t \in Tasks :
                /\ pc'[t] = "set" <=> pc[t] = "set"
                /\ pc'[t] \in UsesConfig => pc[t] \in UsesConfig
<1>1. PcType
    BY Parts6
<1>2. UNCHANGED <<sta_config, sta_to_connect, conf, todo, latest>>
    BY DEF Next, Library, Start, Work, vars, statics, locals, known, ScanStart,
        ScanRefused, GetApNum, GetApRecords, Load, ChooseMac, Join, ScanReturns,
        CopyBssid, CopyRest, RecordsReturn, Take, ReadPart, Joined, Hear,
        ScanEnds
<1>3. \/ UNCHANGED pc
      \/ \E t \in Tasks :
            /\ pc[t] # "set"
            /\ \/ \E p \in {"idle", "wait", "bssid", "rest"} : Goto(t, p)
               \/ pc[t] \in UsesConfig /\ (Goto(t, "mac") \/ Goto(t, "join"))
    BY ZenonT(40) DEF Next, Library, Start, Work, vars, UsesConfig, ScanStart,
        ScanRefused, GetApNum, GetApRecords, Load, ChooseMac, Join, ScanReturns,
        CopyBssid, CopyRest, RecordsReturn, Take, ReadPart, Joined, Hear,
        ScanEnds
<1> QED
    BY <1>1, <1>2, <1>3 DEF PcType, Goto, UsesConfig

LEMMA ConfigStep ==
    ASSUME "config" \in Contract, TypeInv, ConfigInv, [Next]_vars
    PROVE  ConfigInv'
<1>0. PcType /\ LocalsType /\ StaticsType
    BY Parts6
<1>1. ASSUME NEW t \in Tasks, SetConfig(t)
      PROVE  ConfigInv'
    <2>1. \A u \in Tasks : pc[u] \notin UsesConfig
        BY <1>1 DEF SetConfig, MaySetConfig, At, UsesConfig
    <2>2. \A k \in 1 .. Len(queue) : queue[k].kind # "join"
        BY <1>1 DEF SetConfig, MaySetConfig, Queued
    <2>3. pc'[t] = "set" /\ \A u \in Tasks \ {t} : pc'[u] = pc[u]
        BY <1>0, <1>1 DEF SetConfig, PcType, Goto
    <2>4. conf'[t] = latest' /\ todo'[t] = Parts \cup {"pointer"} /\ queue' = queue
        BY <1>0, <1>1 DEF SetConfig, LocalsType, library
    <2> QED
        BY <2>1, <2>2, <2>3, <2>4 DEF ConfigInv, UsesConfig
<1>2. ASSUME NEW t \in Tasks, Store(t)
      PROVE  ConfigInv'
    <2>1. pc[t] = "set" /\ pc' = pc /\ conf' = conf /\ latest' = latest /\ queue' = queue
        BY <1>2 DEF Store, known, library
    <2>2. \A u \in Tasks : pc[u] = "set" => u = t
        BY <2>1 DEF ConfigInv, UsesConfig
    <2>3. \A p \in Parts \ todo'[t] : sta_config'[p] = latest
        <3>1. PICK p \in todo[t] :
                /\ todo' = [todo EXCEPT ![t] = @ \ {p}]
                /\ \/ p = "pointer" /\ UNCHANGED sta_config
                   \/ p \in Parts /\ sta_config' = [sta_config EXCEPT ![p] = conf[t]]
            BY <1>2 DEF Store
        <3>2. "pointer" \notin Parts /\ todo'[t] = todo[t] \ {p}
            BY <1>0, <3>1 DEF Parts, LocalsType
        <3> QED
            BY <1>0, <2>1, <3>1, <3>2 DEF ConfigInv, StaticsType
    <2> QED
        BY <2>1, <2>2, <2>3 DEF ConfigInv
<1>3. ASSUME NEW t \in Tasks, ConfigSet(t)
      PROVE  ConfigInv'
    <2>1. \A u \in Tasks \ {t} : pc[u] \notin UsesConfig /\ pc'[u] = pc[u]
        BY <1>0, <1>3 DEF ConfigSet, ConfigInv, PcType, Goto
    <2>2. pc'[t] = "idle"
        BY <1>0, <1>3 DEF ConfigSet, PcType, Goto
    <2>3. \A p \in Parts : sta_config'[p] = latest'
        BY <1>3 DEF ConfigSet, ConfigInv, statics, known
    <2> QED
        BY <2>1, <2>2, <2>3 DEF ConfigInv, UsesConfig
<1>4. ASSUME NEW t \in Tasks, Connect(t)
      PROVE  ConfigInv'
    <2>1. \A u \in Tasks : pc[u] # "set"
        BY <1>4 DEF Connect, MayConnect, At
    <2>2. pc'[t] = "load" /\ \A u \in Tasks \ {t} : pc'[u] = pc[u]
        BY <1>0, <1>4 DEF Connect, PcType, Goto
    <2> QED
        BY <1>4, <2>1, <2>2 DEF Connect, ConfigInv, statics, known
<1>5. ASSUME ~\E t \in Tasks : SetConfig(t) \/ Store(t) \/ ConfigSet(t) \/ Connect(t)
      PROVE  ConfigInv'
    <2>1. ASSUME NEW t \in Tasks, pc'[t] = "set", NEW k \in 1 .. Len(queue')
          PROVE  queue'[k].kind # "join"
        <3>1. pc[t] = "set"
            BY <1>5, <2>1, ConfigUntouched
        <3>2. \A u \in Tasks : ~Join(u)
            BY <3>1 DEF ConfigInv, UsesConfig, Join
        <3> QED
            BY <3>1, <3>2, QueuedJoins DEF ConfigInv
    <2>2. \A t, u \in Tasks : pc'[t] = "set" /\ u # t => pc'[u] \notin UsesConfig
        BY <1>5, ConfigUntouched DEF ConfigInv
    <2>3. \A t \in Tasks : pc'[t] = "set" =>
            conf'[t] = latest' /\ \A p \in Parts \ todo'[t] : sta_config'[p] = latest'
        BY <1>5, ConfigUntouched DEF ConfigInv
    <2>4. sta_to_connect' /\ (\A t \in Tasks : pc'[t] # "set") =>
            \A p \in Parts : sta_config'[p] = latest'
        BY <1>5, ConfigUntouched DEF ConfigInv
    <2> QED
        BY <2>1, <2>2, <2>3, <2>4 DEF ConfigInv
<1> QED
    BY <1>1, <1>2, <1>3, <1>4, <1>5

\* A configuration is set only when nothing of another is under way.
LEMMA SetWhenQuiet ==
    ASSUME "config" \in Contract, TypeInv, JoinInv, NEW t \in Tasks, SetConfig(t)
    PROVE  /\ \A u \in Tasks : pc'[u] # "join"
           /\ \A k \in 1 .. Len(queue) : queue[k].kind # "join"
           /\ DOMAIN taken = {}
<1>1. \A u \in Tasks : pc[u] \notin UsesConfig
    BY DEF SetConfig, MaySetConfig, At, UsesConfig
<1>2. \A u \in Tasks : pc'[u] # "join"
    BY <1>1, Parts6 DEF SetConfig, PcType, Goto, UsesConfig
<1>3. \A k \in 1 .. Len(queue) : queue[k].kind # "join"
    BY DEF SetConfig, MaySetConfig, Queued
<1>4. doing # "reading"
    <2>1. ASSUME doing = "reading"
          PROVE  queue[1].kind = "join" /\ 1 \in 1 .. Len(queue)
        BY <2>1, Parts6, Shorter DEF LinkInv, QueueType
    <2> QED
        BY <1>3, <2>1
<1> QED
    BY <1>2, <1>3, <1>4 DEF JoinInv

LEMMA SameConfig ==
    ASSUME [Next]_vars, ~\E t \in Tasks : SetConfig(t)
    PROVE  latest' = latest /\ (sta_to_connect => sta_to_connect')
<1>1. CASE \E t \in Tasks : Store(t)
    BY <1>1 DEF Store, known
<1>2. ASSUME ~\E t \in Tasks : Store(t)
      PROVE  latest' = latest /\ sta_to_connect' = sta_to_connect
    BY <1>2 DEF Next, Library, Start, Work, vars, statics, known, Connect,
        ScanStart, ScanRefused, GetApNum, GetApRecords, ConfigSet, Load,
        ChooseMac, Join, ScanReturns, CopyBssid, CopyRest, RecordsReturn, Take,
        ReadPart, Joined, Hear, ScanEnds
<1> QED
    BY <1>1, <1>2

LEMMA MacStep ==
    ASSUME "config" \in Contract, TypeInv, ConfigInv, JoinInv, [Next]_vars,
           NEW t \in Tasks, pc'[t] = "join"
    PROVE  mac'[t] <=> latest' \in WithBssid
<1>0. PcType /\ LocalsType /\ LinkInv
    BY Parts6
<1>1. ~\E u \in Tasks : SetConfig(u)
    BY SetWhenQuiet
<1>2. CASE ChooseMac(t)
    <2>1. sta_to_connect /\ pc[t] = "mac"
        BY <1>0, <1>2 DEF ChooseMac, LinkInv
    <2>2. \A u \in Tasks : pc[u] # "set"
        BY <2>1 DEF ConfigInv, UsesConfig
    <2>3. sta_config["bssid"] = latest
        BY <2>1, <2>2 DEF ConfigInv, Parts
    <2>4. mac'[t] = (sta_config["bssid"] \in WithBssid)
        BY <1>0, <1>2 DEF ChooseMac, BssidSet, LocalsType
    <2> QED
        BY <1>1, <2>3, <2>4, SameConfig
<1>3. ASSUME ~ChooseMac(t)
      PROVE  pc[t] = "join" /\ mac'[t] = mac[t]
    <2>1. ASSUME NEW u \in Tasks, Join(u)
          PROVE  u # t
        BY <1>0, <2>1 DEF Join, PcType, Goto
    <2>2. CASE \E u \in Tasks : Join(u)
        BY <1>0, <2>1, <2>2 DEF Join, PcType, LocalsType, Goto
    <2>3. CASE \E u \in Tasks : ChooseMac(u)
        BY <1>0, <1>3, <2>3 DEF ChooseMac, PcType, LocalsType, Goto
    <2>4. ASSUME ~\E u \in Tasks : Join(u) \/ ChooseMac(u)
          PROVE  /\ mac' = mac
                 /\ UNCHANGED pc \/ \E u \in Tasks, p \in Pcs \ {"join"} : Goto(u, p)
        BY <2>4, ZenonT(40) DEF Next, Library, Start, Work, vars, locals, Pcs,
            SetConfig, Connect, ScanStart, ScanRefused, GetApNum, GetApRecords,
            Store, ConfigSet, Load, ScanReturns, CopyBssid, CopyRest,
            RecordsReturn, Take, ReadPart, Joined, Hear, ScanEnds
    <2>5. CASE ~\E u \in Tasks : Join(u) \/ ChooseMac(u)
        BY <1>0, <2>4, <2>5 DEF PcType, Goto
    <2> QED
        BY <2>2, <2>3, <2>5
<1> QED
    BY <1>1, <1>2, <1>3, SameConfig DEF JoinInv

LEMMA QueuedJoinStep ==
    ASSUME "config" \in Contract, TypeInv, ConfigInv, JoinInv, [Next]_vars,
           NEW k \in 1 .. Len(queue'), queue'[k].kind = "join"
    PROVE  /\ sta_to_connect'
           /\ queue'[k].wanted = latest'
           /\ queue'[k].mac <=> latest' \in WithBssid
<1>1. ~\E t \in Tasks : SetConfig(t)
    <2> SUFFICES ASSUME NEW t \in Tasks, SetConfig(t) PROVE FALSE
        OBVIOUS
    <2>1. queue' = queue
        BY DEF SetConfig, library
    <2> QED
        BY <2>1, SetWhenQuiet
<1>2. CASE \E l \in 1 .. Len(queue) : queue[l] = queue'[k]
    BY <1>1, <1>2, SameConfig DEF JoinInv
<1>3. ASSUME NEW t \in Tasks, Join(t),
             queue'[k] = [kind |-> "join", mac |-> mac[t], wanted |-> latest]
      PROVE  /\ sta_to_connect'
             /\ queue'[k].wanted = latest'
             /\ queue'[k].mac <=> latest' \in WithBssid
    <2>1. sta_to_connect /\ (mac[t] <=> latest \in WithBssid)
        BY <1>3, Parts6 DEF Join, LinkInv, JoinInv
    <2>2. queue'[k].wanted = latest /\ queue'[k].mac = mac[t]
        BY <1>3
    <2> QED
        BY <1>1, <2>1, <2>2, SameConfig
<1> QED
    BY <1>2, <1>3, QueuedJoins

LEMMA TakenJoinStep ==
    ASSUME "config" \in Contract, TypeInv, ConfigInv, JoinInv, [Next]_vars
    PROVE  /\ doing' # "reading" => DOMAIN taken' = {}
           /\ \A p \in DOMAIN taken' : taken'[p] = latest'
<1>1. CASE ReadPart
    <2>1. queue # <<>> /\ queue[1].kind = "join" /\ 1 \in 1 .. Len(queue)
        BY <1>1, First, Parts6, Shorter DEF ReadPart, QueueType
    <2>2. sta_to_connect /\ \A t \in Tasks : pc[t] # "set"
        BY <2>1 DEF JoinInv, ConfigInv
    <2>3. \A p \in Parts : sta_config[p] = latest
        BY <2>2 DEF ConfigInv
    <2>4. PICK p \in ToRead : taken' = [q \in DOMAIN taken \cup {p} |->
                                            IF q = p THEN sta_config[p] ELSE taken[q]]
        BY <1>1 DEF ReadPart
    <2>5. p \in Parts
        BY DEF ToRead, Parts
    <2>6. latest' = latest /\ doing' = "reading"
        BY <1>1 DEF ReadPart, known
    <2> QED
        BY <2>3, <2>4, <2>5, <2>6 DEF JoinInv
<1>2. CASE Joined
    BY <1>2 DEF Joined
<1>3. CASE \E t \in Tasks : SetConfig(t)
    <2>1. DOMAIN taken = {} /\ taken' = taken
        BY <1>3, SetWhenQuiet DEF SetConfig, library
    <2> QED
        BY <2>1
<1>4. CASE Take \/ \E ok \in BOOLEAN : ScanEnds(ok)
    <2>1. doing # "reading" /\ taken' = taken
        BY <1>4 DEF Take, ScanEnds
    <2> QED
        BY <2>1 DEF JoinInv
<1>5. ASSUME ~ReadPart, ~Joined, ~Take, ~\E t \in Tasks : SetConfig(t),
             ~\E ok \in BOOLEAN : ScanEnds(ok)
      PROVE  taken' = taken /\ doing' = doing
    BY <1>5 DEF Next, Library, Start, Work, vars, library, Connect, ScanStart,
        ScanRefused, GetApNum, GetApRecords, Store, ConfigSet, Load, ChooseMac,
        Join, ScanReturns, CopyBssid, CopyRest, RecordsReturn, Hear
<1>6. ASSUME ~ReadPart, ~Joined, ~Take, ~\E t \in Tasks : SetConfig(t),
             ~\E ok \in BOOLEAN : ScanEnds(ok)
      PROVE  /\ doing' # "reading" => DOMAIN taken' = {}
             /\ \A p \in DOMAIN taken' : taken'[p] = latest'
    BY <1>5, <1>6, SameConfig DEF JoinInv
<1> QED
    BY <1>1, <1>2, <1>3, <1>4, <1>6

LEMMA JoinsAlways ==
    ASSUME "config" \in Contract
    PROVE  Spec => [](ConfigInv /\ JoinInv)
<1>1. Init => ConfigInv /\ JoinInv
    BY DEF Init, ConfigInv, JoinInv
<1>2. TypeInv /\ ConfigInv /\ JoinInv /\ [Next]_vars => ConfigInv' /\ JoinInv'
    <2> SUFFICES ASSUME TypeInv, ConfigInv, JoinInv, [Next]_vars
                 PROVE  ConfigInv' /\ JoinInv'
        OBVIOUS
    <2> QED
        BY ConfigStep, MacStep, QueuedJoinStep, TakenJoinStep DEF JoinInv
<1> QED
    BY <1>1, <1>2, TypeAlways, PTL DEF Spec

\* A join that reaches the chip is of one configuration, the last one, when
\* the application sets configurations while neither a call nor a join that
\* was not sent uses one; without that the parts may be of two.
THEOREM JoinsAreWhole ==
    ASSUME "config" \in Contract
    PROVE  Spec => JoinIsWhole
<1>1. ASSUME TypeInv, JoinInv, Joined
      PROVE  LET c == Head(queue).wanted
             IN  /\ \A p \in DOMAIN taken : taken[p] = c
                 /\ "bssid" \in DOMAIN taken <=> c \in WithBssid
    <2>1. doing = "reading" /\ DOMAIN taken = ToRead
        BY <1>1 DEF Joined
    <2>2. Head(queue) = queue[1] /\ queue[1].kind = "join" /\ 1 \in 1 .. Len(queue)
        BY <1>1, <2>1, First, Parts6, Shorter DEF QueueType
    <2>3. Head(queue).wanted = latest /\ (Head(queue).mac <=> latest \in WithBssid)
        BY <1>1, <2>2 DEF JoinInv
    <2>4. "bssid" \in DOMAIN taken <=> Head(queue).mac
        BY <2>1 DEF ToRead
    <2> QED
        BY <1>1, <2>3, <2>4 DEF JoinInv
<1>2. TypeInv /\ JoinInv /\ [Next]_vars =>
        [Joined =>
            LET c == Head(queue).wanted
            IN  /\ \A p \in DOMAIN taken : taken[p] = c
                /\ "bssid" \in DOMAIN taken <=> c \in WithBssid]_vars
    BY <1>1
<1> QED
    BY <1>2, TypeAlways, JoinsAlways, PTL DEF Spec, JoinIsWhole

-----------------------------------------------------------------------------
(* Scanning.                                                               *)

IsScan(k) == queue[k].kind = "scan"

\* There is one scan at a time, and it is the last that was started.
OneScanInv ==
    /\ \A k, l \in 1 .. Len(queue) : IsScan(k) /\ IsScan(l) => k = l
    /\ \A k \in 1 .. Len(queue) : IsScan(k) => queue[k].n = scans /\ done.scan < scans
    /\ done.scan <= scans

LEMMA ScanningIs == Scanning <=> \E k \in 1 .. Len(queue) : IsScan(k)
BY DEF Scanning, Queued, IsScan

LEMMA OneIsScanning ==
    ASSUME TypeInv, doing = "scanning"
    PROVE  Scanning /\ IsScan(1) /\ 1 \in 1 .. Len(queue)
<1>1. 1 \in 1 .. Len(queue) /\ IsScan(1)
    BY First, Parts6, Shorter DEF QueueType, IsScan
<1> QED
    BY <1>1, ScanningIs

\* Other steps than these change nothing that scans are known by.
LEMMA ScansUntouched ==
    ASSUME [Next]_vars, ~\E t \in Tasks : ScanStart(t),
           ~\E ok \in BOOLEAN : ScanEnds(ok)
    PROVE  scans' = scans /\ done' = done
BY DEF Next, Library, Start, Work, vars, known, SetConfig, Connect, ScanRefused,
    GetApNum, GetApRecords, Store, ConfigSet, Load, ChooseMac, Join,
    ScanReturns, CopyBssid, CopyRest, RecordsReturn, Take, ReadPart, Joined,
    Hear

LEMMA SameScans ==
    ASSUME TypeInv, OneScanInv, [Next]_vars, ~\E t \in Tasks : ScanStart(t),
           ~\E ok \in BOOLEAN : ScanEnds(ok)
    PROVE  /\ OneScanInv'
           /\ Scanning' <=> Scanning
           /\ \A k \in 1 .. Len(queue') : IsScan(k)' =>
                \E l \in 1 .. Len(queue) : IsScan(l) /\ queue'[k] = queue[l]
           /\ \A k \in 1 .. Len(queue) : IsScan(k) =>
                \E l \in 1 .. Len(queue') : IsScan(l)' /\ queue'[l] = queue[k]
<1>0. queue \in Seq(Commands)
    BY Parts6 DEF QueueType
<1>1. scans' = scans /\ done' = done
    BY ScansUntouched
<1>2. \E d \in {0, 1} :
        /\ \A k \in 1 .. Len(queue') : IsScan(k)' =>
                k + d \in 1 .. Len(queue) /\ queue'[k] = queue[k + d]
        /\ \A k \in 1 .. Len(queue) : IsScan(k) =>
                k - d \in 1 .. Len(queue') /\ queue'[k - d] = queue[k]
    <2>1. CASE queue' = queue
        <3>1. /\ \A k \in 1 .. Len(queue') : IsScan(k)' =>
                    k + 0 \in 1 .. Len(queue) /\ queue'[k] = queue[k + 0]
              /\ \A k \in 1 .. Len(queue) : IsScan(k) =>
                    k - 0 \in 1 .. Len(queue') /\ queue'[k - 0] = queue[k]
            BY <1>0, <2>1
        <3> QED
            BY <3>1
    <2>2. CASE Joined /\ queue # <<>> /\ queue' = Tail(queue)
        <3>1. ~IsScan(1)
            BY <2>2, First, CommandFields DEF Joined, IsScan
        <3>2. /\ \A k \in 1 .. Len(queue') :
                    k + 1 \in 1 .. Len(queue) /\ queue'[k] = queue[k + 1]
              /\ \A k \in 2 .. Len(queue) :
                    k - 1 \in 1 .. Len(queue') /\ queue'[k - 1] = queue[k]
            BY <1>0, <2>2, Shorter
        <3>3. \A k \in 1 .. Len(queue) : IsScan(k) => k \in 2 .. Len(queue)
            BY <1>0, <3>1
        <3> QED
            BY <3>2, <3>3
    <2>3. ASSUME NEW t \in Tasks, NEW c \in Commands, queue' = Append(queue, c),
                 c = [kind |-> "join", mac |-> mac[t], wanted |-> latest]
          PROVE  /\ \A k \in 1 .. Len(queue') : IsScan(k)' =>
                        k + 0 \in 1 .. Len(queue) /\ queue'[k] = queue[k + 0]
                 /\ \A k \in 1 .. Len(queue) : IsScan(k) =>
                        k - 0 \in 1 .. Len(queue') /\ queue'[k - 0] = queue[k]
        <3>1. /\ queue'[Len(queue) + 1].kind # "scan"
              /\ Len(queue') = Len(queue) + 1 /\ Len(queue) \in Nat
            BY <1>0, <2>3, Longer
        <3> QED
            BY <1>0, <2>3, <3>1, Longer DEF IsScan
    <2> QED
        BY <2>1, <2>2, <2>3, QueueChanges
<1>3. PICK d \in {0, 1} :
        /\ \A k \in 1 .. Len(queue') : IsScan(k)' =>
                k + d \in 1 .. Len(queue) /\ queue'[k] = queue[k + d]
        /\ \A k \in 1 .. Len(queue) : IsScan(k) =>
                k - d \in 1 .. Len(queue') /\ queue'[k - d] = queue[k]
    BY <1>2
<1>4. \A k \in 1 .. Len(queue') : IsScan(k)' => IsScan(k + d)
    BY <1>3 DEF IsScan
<1>5. \A k \in 1 .. Len(queue) : IsScan(k) => IsScan(k - d)'
    BY <1>3 DEF IsScan
<1>6. OneScanInv'
    <2>1. \A k, l \in 1 .. Len(queue') : IsScan(k)' /\ IsScan(l)' => k = l
        <3> SUFFICES ASSUME NEW k \in 1 .. Len(queue'), NEW l \in 1 .. Len(queue'),
                            IsScan(k)', IsScan(l)'
                     PROVE  k = l
            OBVIOUS
        <3>1. k + d = l + d
            BY <1>3, <1>4 DEF OneScanInv
        <3> QED
            BY <3>1
    <2>2. \A k \in 1 .. Len(queue') : IsScan(k)' =>
            queue'[k].n = scans' /\ (done').scan < scans'
        BY <1>1, <1>3, <1>4 DEF OneScanInv
    <2> QED
        BY <1>1, <2>1, <2>2 DEF OneScanInv, IsScan
<1>7. Scanning' <=> \E k \in 1 .. Len(queue') : IsScan(k)'
    BY DEF Scanning, Queued, IsScan
<1> QED
    BY <1>3, <1>4, <1>5, <1>6, <1>7, ScanningIs

LEMMA ScanStarts ==
    ASSUME "scan" \in Contract, TypeInv, OneScanInv, [Next]_vars,
           NEW t \in Tasks, ScanStart(t)
    PROVE  /\ OneScanInv' /\ ~Scanning /\ Scanning'
           /\ \A u \in Tasks : pc[u] \notin {"wait", "bssid", "rest"}
           /\ doing # "scanning"
<1>0. queue \in Seq(Commands) /\ KnownType /\ MaxScans \in Nat
    BY Parts6, Bounds DEF QueueType
<1>1. ~Scanning /\ \A u \in Tasks : pc[u] \notin {"wait", "bssid", "rest"}
    BY DEF ScanStart, MayScan, At
<1>2. \A k \in 1 .. Len(queue) : ~IsScan(k)
    BY <1>1, ScanningIs
<1>3. PICK c \in Commands : queue' = Append(queue, c) /\ c.kind = "scan" /\ c.n = scans + 1
    <2>1. PICK block \in BOOLEAN :
            queue' = Append(queue, [kind |-> "scan", n |-> scans + 1, by |-> t, block |-> block])
        BY DEF ScanStart, Waits
    <2>2. scans + 1 \in 1 .. MaxScans
        BY <1>0 DEF ScanStart, KnownType, Scans
    <2>3. [kind |-> "scan", n |-> scans + 1, by |-> t, block |-> block] \in Commands
        BY <2>2 DEF Commands
    <2> QED
        BY <2>1, <2>3
<1>4. Len(queue') = Len(queue) + 1 /\ Len(queue) \in Nat /\ queue'[Len(queue) + 1] = c
    BY <1>0, <1>3, Longer
<1>5. \A k \in 1 .. Len(queue') : IsScan(k)' => k = Len(queue) + 1
    BY <1>0, <1>2, <1>3, <1>4, Longer DEF IsScan
<1>6. scans' = scans + 1 /\ done' = done /\ scans \in Nat /\ done.scan \in Nat
    BY <1>0 DEF ScanStart, KnownType, Scans
<1>7. OneScanInv'
    <2>1. \A k, l \in 1 .. Len(queue') : IsScan(k)' /\ IsScan(l)' => k = l
        BY <1>5
    <2>2. \A k \in 1 .. Len(queue') : IsScan(k)' =>
            queue'[k].n = scans' /\ (done').scan < scans'
        BY <1>0, <1>3, <1>4, <1>5, <1>6 DEF OneScanInv
    <2>3. (done').scan <= scans'
        BY <1>6 DEF OneScanInv
    <2> QED
        BY <2>1, <2>2, <2>3 DEF OneScanInv, IsScan
<1>8. Scanning'
    <2>1. Len(queue) + 1 \in 1 .. Len(queue') /\ queue'[Len(queue) + 1].kind = "scan"
        BY <1>3, <1>4
    <2> QED
        BY <2>1 DEF Scanning, Queued
<1> QED
    BY <1>1, <1>7, <1>8, OneIsScanning

LEMMA ScanStops ==
    ASSUME TypeInv, OneScanInv, NEW ok \in BOOLEAN, ScanEnds(ok)
    PROVE  /\ OneScanInv' /\ Scanning /\ ~Scanning'
           /\ queue[1].n = scans /\ done.scan < scans /\ scans \in Nat
           /\ done' = [scan |-> scans, found |-> apf]
           /\ Head(queue) = queue[1] /\ doing = "scanning"
<1>0. queue \in Seq(Commands) /\ KnownType /\ MaxScans \in Nat
    BY Parts6, Bounds DEF QueueType
<1>1. doing = "scanning" /\ queue' = Tail(queue) /\ scans' = scans
    BY DEF ScanEnds
<1>2. Scanning /\ IsScan(1) /\ 1 \in 1 .. Len(queue) /\ queue # <<>> /\ Head(queue) = queue[1]
    BY <1>1, OneIsScanning, First
<1>3. queue[1].n = scans /\ done.scan < scans /\ scans \in Nat
    BY <1>0, <1>2 DEF OneScanInv, KnownType, Scans
<1>4. done' = [scan |-> scans, found |-> apf]
    BY <1>2, <1>3 DEF ScanEnds
<1>5. \A k \in 1 .. Len(queue') : ~IsScan(k)'
    <2> SUFFICES ASSUME NEW k \in 1 .. Len(queue'), IsScan(k)'
                 PROVE  FALSE
        OBVIOUS
    <2>1. queue'[k] = queue[k + 1] /\ k + 1 \in 1 .. Len(queue)
        BY <1>0, <1>1, <1>2, Shorter
    <2>2. IsScan(k + 1)
        BY <2>1 DEF IsScan
    <2>3. k + 1 = 1
        BY <1>2, <2>1, <2>2 DEF OneScanInv
    <2> QED
        BY <2>3
<1>6. ~Scanning'
    BY <1>5 DEF Scanning, Queued, IsScan
<1>7. OneScanInv'
    <2>1. (done').scan <= scans'
        BY <1>1, <1>3, <1>4
    <2> QED
        BY <1>5, <2>1 DEF OneScanInv, IsScan
<1> QED
    BY <1>1, <1>2, <1>3, <1>4, <1>6, <1>7

Reading == {"bssid", "rest"}

\* Records are read between scans.  Then apf entries of aps are of the last
\* scan; before the chip hears of a new one there are none, and after that
\* those it heard are of the new one.
ApsInv ==
    /\ Scanning => \A t \in Tasks : pc[t] \notin Reading
    /\ ~Scanning => \A k \in Entries : k < apf => aps[k] = done.scan
    /\ Scanning /\ doing # "scanning" => apf = 0
    /\ doing # "scanning" => heard = 0
    /\ doing = "scanning" =>
        apf <= heard /\ \A k \in Entries : k < heard => aps[k] = scans

\* As many entries as a task was told of that scan are still of it, and so
\* are the records it has copied.
GotInv ==
    \A t \in Tasks :
        /\ numof[t] <= done.scan
        /\ ~Scanning /\ numof[t] = done.scan =>
            \A k \in Entries : k < number[t] => aps[k] = done.scan
        /\ pc[t] \in Reading => numof[t] = done.scan
        /\ got[t] \subseteq (IF pc[t] \in Reading THEN {done.scan} ELSE {})

\* A task that waits has its scan in the queue, or its answer, and then that
\* scan is the one that ended last.
WaitInv ==
    \A t \in Tasks :
        /\ pc[t] = "wait" <=> mine[t] # 0
        /\ pc[t] = "wait" /\ answer[t] = "none" =>
            /\ mine[t] = scans
            /\ \E k \in 1 .. Len(queue) :
                IsScan(k) /\ queue[k].by = t /\ queue[k].block
        /\ pc[t] = "wait" /\ answer[t] # "none" =>
            ~Scanning /\ done.scan = mine[t] /\ done.found = apf

\* What ScanStart and ScanEnds alone change.
LEMMA BetweenScans ==
    ASSUME TypeInv, OneScanInv, [Next]_vars, ~\E t \in Tasks : ScanStart(t),
           ~\E ok \in BOOLEAN : ScanEnds(ok)
    PROVE  (Scanning' <=> Scanning) /\ scans' = scans /\ done' = done
BY ScansUntouched, SameScans

LEMMA OneScanStep ==
    ASSUME "scan" \in Contract, TypeInv, OneScanInv, [Next]_vars
    PROVE  OneScanInv'
BY ScanStarts, ScanStops, SameScans

\* Who comes to read records, and who comes to wait.
LEMMA WhereTasksGo ==
    ASSUME TypeInv, [Next]_vars, NEW t \in Tasks
    PROVE  /\ pc'[t] \in Reading => pc[t] \in Reading \/ GetApRecords(t)
           /\ pc'[t] = "wait" => pc[t] = "wait" \/ ScanStart(t)
           /\ pc[t] = "wait" => pc'[t] = "wait" \/ ScanReturns(t)
<1>1. PcType
    BY Parts6
<1>2. \/ UNCHANGED pc
      \/ \E u \in Tasks :
            \/ pc[u] # "wait" /\ \E p \in Pcs \ {"wait", "bssid", "rest"} : Goto(u, p)
            \/ pc[u] \in Reading /\ (Goto(u, "bssid") \/ Goto(u, "rest"))
            \/ ScanReturns(u) /\ pc[u] = "wait" /\ Goto(u, "idle")
            \/ GetApRecords(u) /\ pc[u] = "idle" /\ Goto(u, "bssid")
            \/ ScanStart(u) /\ pc[u] = "idle" /\ (Goto(u, "wait") \/ Goto(u, "idle"))
    <2>1. CASE Library \/ UNCHANGED vars
        BY <2>1 DEF Library, vars, Take, ReadPart, Joined, Hear, ScanEnds
    <2>2. ASSUME NEW u \in Tasks, Start(u)
          PROVE  \/ UNCHANGED pc
                 \/ pc[u] # "wait" /\ \E p \in Pcs \ {"wait", "bssid", "rest"} : Goto(u, p)
                 \/ GetApRecords(u) /\ pc[u] = "idle" /\ Goto(u, "bssid")
                 \/ ScanStart(u) /\ pc[u] = "idle" /\ (Goto(u, "wait") \/ Goto(u, "idle"))
        <3>1. SetConfig(u) => pc[u] # "wait" /\ Goto(u, "set")
            BY DEF SetConfig
        <3>2. Connect(u) => pc[u] # "wait" /\ Goto(u, "load")
            BY DEF Connect
        <3>3. ScanStart(u) => pc[u] = "idle" /\ (Goto(u, "wait") \/ Goto(u, "idle"))
            BY DEF ScanStart
        <3>4. GetApRecords(u) => pc[u] = "idle" /\ Goto(u, "bssid")
            BY DEF GetApRecords
        <3>5. ScanRefused(u) \/ GetApNum(u) => UNCHANGED pc
            BY DEF ScanRefused, GetApNum, vars
        <3> QED
            BY <2>2, <3>1, <3>2, <3>3, <3>4, <3>5 DEF Start, Pcs
    <2>3. ASSUME NEW u \in Tasks, Work(u)
          PROVE  \/ UNCHANGED pc
                 \/ pc[u] # "wait" /\ \E p \in Pcs \ {"wait", "bssid", "rest"} : Goto(u, p)
                 \/ pc[u] \in Reading /\ (Goto(u, "bssid") \/ Goto(u, "rest"))
                 \/ ScanReturns(u) /\ pc[u] = "wait" /\ Goto(u, "idle")
        <3>1. Store(u) \/ ConfigSet(u) =>
                UNCHANGED pc \/ (pc[u] # "wait" /\ Goto(u, "idle"))
            BY DEF Store, ConfigSet
        <3>2. Load(u) => pc[u] # "wait" /\ (Goto(u, "mac") \/ Goto(u, "idle"))
            BY DEF Load
        <3>3. ChooseMac(u) => pc[u] # "wait" /\ Goto(u, "join")
            BY DEF ChooseMac
        <3>4. Join(u) \/ RecordsReturn(u) => pc[u] # "wait" /\ Goto(u, "idle")
            BY DEF Join, RecordsReturn
        <3>5. CopyBssid(u) \/ CopyRest(u) =>
                pc[u] \in Reading /\ (Goto(u, "bssid") \/ Goto(u, "rest"))
            BY DEF CopyBssid, CopyRest, Reading
        <3>6. ScanReturns(u) => pc[u] = "wait" /\ Goto(u, "idle")
            BY DEF ScanReturns
        <3> QED
            BY <2>3, <3>1, <3>2, <3>3, <3>4, <3>5, <3>6 DEF Work, Pcs
    <2> QED
        BY <2>1, <2>2, <2>3 DEF Next
<1> QED
    BY <1>1, <1>2 DEF PcType, Goto, Reading

LEMMA ApsStep ==
    ASSUME "scan" \in Contract, TypeInv, OneScanInv, ApsInv, [Next]_vars
    PROVE  ApsInv'
<1>0. /\ StaticsType /\ QueueType /\ KnownType /\ ApsSize \in Nat /\ MaxFound \in Nat
      /\ apf \in Nat /\ heard \in Nat
    BY Parts6, Bounds DEF StaticsType, QueueType
<1>1. ASSUME NEW t \in Tasks, ScanStart(t)
      PROVE  ApsInv'
    <2>1. ~Scanning /\ Scanning' /\ doing # "scanning" /\ \A u \in Tasks : pc[u] \notin Reading
        BY <1>1, ScanStarts DEF Reading
    <2>2. \A u \in Tasks : pc'[u] \notin Reading
        <3>1. \A u \in Tasks : ~GetApRecords(u)
            BY <1>1, <1>0, Longer DEF GetApRecords, ScanStart, library,
                KnownType, Scans, known
        <3> QED
            BY <2>1, <3>1, WhereTasksGo
    <2>3. apf' = 0 /\ doing' = doing /\ heard' = heard
        BY <1>1 DEF ScanStart
    <2> QED
        BY <2>1, <2>2, <2>3 DEF ApsInv
<1>2. ASSUME NEW ok \in BOOLEAN, ScanEnds(ok)
      PROVE  ApsInv'
    <2>1. doing = "scanning" /\ ~Scanning' /\ (done').scan = scans
        BY <1>2, ScanStops
    <2>2. doing' = "nothing" /\ heard' = 0 /\ aps' = aps /\ apf' = apf
        BY <1>2 DEF ScanEnds, statics
    <2>3. \A k \in Entries : k < apf => aps[k] = scans
        BY <1>0, <2>1 DEF ApsInv, Entries
    <2> QED
        BY <2>1, <2>2, <2>3 DEF ApsInv
<1>3. ASSUME ~\E t \in Tasks : ScanStart(t), ~\E ok \in BOOLEAN : ScanEnds(ok)
      PROVE  ApsInv'
    <2>0. (Scanning' <=> Scanning) /\ scans' = scans /\ done' = done
        BY <1>3, BetweenScans
    <2>1. Scanning' => \A t \in Tasks : pc'[t] \notin Reading
        <3> SUFFICES ASSUME Scanning, NEW t \in Tasks, pc'[t] \in Reading
                     PROVE  FALSE
            BY <2>0
        <3>1. GetApRecords(t)
            BY WhereTasksGo DEF ApsInv
        <3> QED
            BY <3>1 DEF GetApRecords, MayRead
    <2>2. CASE Hear
        <3>1. Scanning /\ Head(queue).n = scans
            BY <2>2, OneIsScanning, First DEF Hear, OneScanInv
        <3>2. doing = "scanning" /\ doing' = doing /\ heard' = heard + 1
            BY <2>2 DEF Hear
        <3>3. CASE heard < ApsSize
            <4>1. apf' = heard + 1 /\ aps' = [k \in Entries |-> IF k = heard THEN scans ELSE aps[k]]
                BY <2>2, <3>1, <3>3 DEF Hear, Room
            <4> QED
                BY <1>0, <2>0, <2>1, <3>1, <3>2, <4>1 DEF ApsInv, Entries
        <3>4. CASE ~(heard < ApsSize)
            <4>1. apf' = apf /\ aps' = aps
                BY <2>2, <3>4 DEF Hear, Room
            <4>2. \A k \in Entries : k < heard
                BY <1>0, <3>4 DEF Entries
            <4> QED
                BY <1>0, <2>0, <2>1, <3>1, <3>2, <4>1, <4>2 DEF ApsInv
        <3> QED
            BY <3>3, <3>4
    <2>3. CASE Take
        <3>1. apf' = apf /\ aps' = aps /\ heard' = heard /\ doing = "nothing"
            BY <2>3 DEF Take, statics
        <3>2. doing' = "scanning" => Scanning
            <4>1. /\ queue # <<>> /\ Head(queue) = queue[1] /\ 1 \in 1 .. Len(queue)
                  /\ queue[1].kind \in {"join", "scan"}
                BY <1>0, <2>3, Shorter, CommandFields DEF Take, QueueType
            <4> QED
                BY <2>3, <4>1, ScanningIs DEF Take, IsScan
        <3> QED
            BY <1>0, <2>0, <2>1, <3>1, <3>2 DEF ApsInv, Entries
    <2>4. CASE Joined
        <3>1. /\ apf' = apf /\ aps' = aps /\ heard' = heard
              /\ doing = "reading" /\ doing' = "nothing"
            BY <2>4 DEF Joined, statics
        <3> QED
            BY <2>0, <2>1, <3>1 DEF ApsInv
    <2>5. CASE \E t \in Tasks : ScanRefused(t)
        <3>1. ~Scanning /\ apf' \in {0, apf} /\ aps' = aps /\ heard' = heard /\ doing' = doing
            BY <2>5 DEF ScanRefused, MayScan, library
        <3>2. \A k \in Entries : ~(k < 0)
            BY <1>0 DEF Entries
        <3>3. doing # "scanning"
            BY <3>1, OneIsScanning
        <3> QED
            BY <2>0, <3>1, <3>2, <3>3 DEF ApsInv
    <2>6. ASSUME ~Hear, ~Take, ~Joined, ~\E t \in Tasks : ScanRefused(t)
          PROVE  UNCHANGED <<aps, apf, heard, doing>>
        BY <1>3, <2>6 DEF Next, Library, Start, Work, vars, statics, library,
            SetConfig, Connect, GetApNum, GetApRecords, Store, ConfigSet, Load,
            ChooseMac, Join, ScanReturns, CopyBssid, CopyRest, RecordsReturn,
            ReadPart
    <2>7. CASE ~Hear /\ ~Take /\ ~Joined /\ ~\E t \in Tasks : ScanRefused(t)
        BY <2>0, <2>1, <2>6, <2>7 DEF ApsInv
    <2> QED
        BY <2>2, <2>3, <2>4, <2>5, <2>7
<1> QED
    BY <1>1, <1>2, <1>3

LEMMA GotStep ==
    ASSUME {"scan", "number"} \subseteq Contract, TypeInv, NumberInv, OneScanInv,
           ApsInv, GotInv, [Next]_vars
    PROVE  GotInv'
<1>0. /\ StaticsType /\ LocalsType /\ PcType /\ KnownType
      /\ ApsSize \in Nat /\ MaxScans \in Nat
    BY Parts6, Bounds
<1>1. ASSUME NEW t \in Tasks, ScanStart(t)
      PROVE  GotInv'
    <2>1. Scanning' /\ \A u \in Tasks : pc[u] \notin Reading
        BY <1>1, ScanStarts DEF Reading
    <2>2. ApsInv'
        BY ApsStep
    <2>3. \A u \in Tasks : pc'[u] \notin Reading
        BY <2>1, <2>2 DEF ApsInv
    <2>4. numof' = numof /\ number' = number /\ got' = got /\ done' = done
        BY <1>1 DEF ScanStart
    <2> QED
        BY <2>1, <2>3, <2>4 DEF GotInv
<1>2. ASSUME NEW ok \in BOOLEAN, ScanEnds(ok)
      PROVE  GotInv'
    <2>1. /\ Scanning /\ done.scan < scans /\ scans \in Nat
          /\ (done').scan = scans
        BY <1>2, ScanStops
    <2>2. numof' = numof /\ number' = number /\ got' = got /\ pc' = pc
        BY <1>2 DEF ScanEnds
    <2>3. \A u \in Tasks : pc[u] \notin Reading
        BY <2>1 DEF ApsInv
    <2>4. \A u \in Tasks : numof[u] < scans
        BY <1>0, <2>1 DEF GotInv, KnownType, Scans
    <2> QED
        BY <1>0, <2>1, <2>2, <2>3, <2>4 DEF GotInv, KnownType, Scans
<1>3. ASSUME ~\E t \in Tasks : ScanStart(t), ~\E ok \in BOOLEAN : ScanEnds(ok)
      PROVE  GotInv'
    <2>0. (Scanning' <=> Scanning) /\ done' = done
        BY <1>3, BetweenScans
    <2>1. \A k \in Entries : ~Scanning => aps'[k] = aps[k]
        <3>1. CASE Hear
            BY <3>1, OneIsScanning DEF Hear
        <3>2. ASSUME ~Hear
              PROVE  aps' = aps
            BY <1>3, <3>2 DEF Next, Library, Start, Work, vars, statics,
                SetConfig, Connect, ScanRefused, GetApNum, GetApRecords, Store,
                ConfigSet, Load, ChooseMac, Join, ScanReturns, CopyBssid,
                CopyRest, RecordsReturn, Take, ReadPart, Joined
        <3> QED
            BY <3>1, <3>2
    <2>2. ASSUME NEW t \in Tasks, GetApNum(t)
          PROVE  GotInv'
        <3>1. ~Scanning /\ aps' = aps /\ pc' = pc /\ got' = got /\ pc[t] = "idle"
            BY <2>2 DEF GetApNum, MayRead, statics
        <3>2. /\ number'[t] = apf /\ numof'[t] = done.scan
              /\ \A u \in Tasks \ {t} : number'[u] = number[u] /\ numof'[u] = numof[u]
            BY <1>0, <2>2 DEF GetApNum, LocalsType, KnownType
        <3>3. done.scan <= done.scan
            BY <1>0 DEF KnownType, Scans
        <3> QED
            BY <2>0, <3>1, <3>2, <3>3 DEF GotInv, ApsInv, Reading
    <2>3. ASSUME NEW t \in Tasks, GetApRecords(t)
          PROVE  GotInv'
        <3>1. /\ numof[t] = done.scan /\ aps' = aps /\ got' = got /\ numof' = numof
              /\ pc[t] = "idle"
            BY <2>3 DEF GetApRecords, MayAsk, statics, known
        <3>2. number' = number
            BY <1>0, <2>3 DEF GetApRecords, MayAsk, LocalsType
        <3>3. pc'[t] = "bssid" /\ \A u \in Tasks \ {t} : pc'[u] = pc[u]
            BY <1>0, <2>3 DEF GetApRecords, PcType, Goto
        <3>4. got[t] \subseteq {done.scan}
            BY <3>1 DEF GotInv, Reading
        <3> QED
            BY <2>0, <3>1, <3>2, <3>3, <3>4 DEF GotInv, Reading
    <2>4. ASSUME NEW t \in Tasks, CopyBssid(t) \/ CopyRest(t)
          PROVE  GotInv'
        <3>1. /\ pc[t] \in Reading /\ number' = number /\ numof' = numof
              /\ aps' = aps
            BY <2>4 DEF CopyBssid, CopyRest, Reading, statics, known
        <3>2. i[t] < number[t] /\ number[t] <= ApsSize
            BY <2>4 DEF CopyBssid, CopyRest, More, NumberInv
        <3>3. i[t] \in Entries
            BY <1>0, <3>2 DEF LocalsType, Entries
        <3>4. aps[i[t]] = done.scan
            BY <3>1, <3>2, <3>3 DEF GotInv, ApsInv
        <3>5. got'[t] = got[t] \cup {done.scan} /\ \A u \in Tasks \ {t} : got'[u] = got[u]
            BY <1>0, <2>4, <3>3, <3>4 DEF CopyBssid, CopyRest, LocalsType
        <3>6. pc'[t] \in Reading /\ \A u \in Tasks \ {t} : pc'[u] = pc[u]
            BY <1>0, <2>4 DEF CopyBssid, CopyRest, PcType, Goto, Reading
        <3> QED
            BY <2>0, <3>1, <3>5, <3>6 DEF GotInv
    <2>5. ASSUME NEW t \in Tasks, RecordsReturn(t)
          PROVE  GotInv'
        <3>1. pc'[t] = "idle" /\ got'[t] = {} /\ number'[t] = 0 /\ numof'[t] = 0 /\ aps' = aps
            BY <1>0, <2>5 DEF RecordsReturn, PcType, LocalsType, KnownType,
                Goto, statics
        <3>2. \A u \in Tasks \ {t} :
                /\ pc'[u] = pc[u] /\ got'[u] = got[u]
                /\ number'[u] = number[u] /\ numof'[u] = numof[u]
            BY <1>0, <2>5 DEF RecordsReturn, PcType, LocalsType, KnownType, Goto
        <3>3. 0 <= done.scan /\ \A k \in Entries : ~(k < 0)
            BY <1>0 DEF KnownType, Scans, Entries
        <3> QED
            BY <2>0, <3>1, <3>2, <3>3 DEF GotInv, Reading
    <2>6. ASSUME ~\E t \in Tasks : \/ GetApNum(t) \/ GetApRecords(t)
                                   \/ CopyBssid(t) \/ CopyRest(t) \/ RecordsReturn(t)
          PROVE  GotInv'
        <3>1. UNCHANGED <<number, numof, got>>
            BY <1>3, <2>6 DEF Next, Library, Start, Work, vars, locals, known,
                SetConfig, Connect, ScanRefused, Store, ConfigSet, Load,
                ChooseMac, Join, ScanReturns, Take, ReadPart, Joined, Hear
        <3>2. \A t \in Tasks : pc'[t] \in Reading <=> pc[t] \in Reading
            <4>1. UNCHANGED pc \/ \E t \in Tasks, p \in Pcs \ {"bssid", "rest"} :
                                    pc[t] \notin Reading /\ Goto(t, p)
                BY <1>3, <2>6 DEF Next, Library, Start, Work, vars, Pcs,
                    Reading, SetConfig, Connect, ScanRefused, Store, ConfigSet,
                    Load, ChooseMac, Join, ScanReturns, Take, ReadPart, Joined,
                    Hear
            <4> QED
                BY <1>0, <4>1 DEF PcType, Goto, Reading
        <3> QED
            BY <2>0, <2>1, <3>1, <3>2 DEF GotInv
    <2> QED
        BY <2>2, <2>3, <2>4, <2>5, <2>6
<1> QED
    BY <1>1, <1>2, <1>3

LEMMA RecordsAlways ==
    ASSUME {"scan", "number"} \subseteq Contract
    PROVE  Spec => [](OneScanInv /\ ApsInv /\ GotInv)
<1>1. Init => OneScanInv /\ ApsInv /\ GotInv
    <2> SUFFICES ASSUME Init PROVE OneScanInv /\ ApsInv /\ GotInv
        OBVIOUS
    <2>1. ApsSize \in Nat /\ Len(queue) = 0 /\ ~Scanning
        BY Bounds DEF Init, Scanning, Queued
    <2>2. OneScanInv
        BY <2>1 DEF Init, OneScanInv
    <2>3. ApsInv
        BY <2>1 DEF Init, ApsInv, Reading
    <2>4. GotInv
        <3>1. \A t \in Tasks : /\ numof[t] = 0 /\ number[t] = 0
                               /\ pc[t] = "idle" /\ got[t] = {}
            BY DEF Init
        <3>2. done.scan = 0 /\ \A k \in Entries : ~(k < 0)
            BY <2>1 DEF Init, Entries
        <3>3. \A t \in Tasks : pc[t] \notin Reading
            BY <3>1 DEF Reading
        <3>4. \A t \in Tasks :
                got[t] \subseteq (IF pc[t] \in Reading THEN {done.scan} ELSE {})
            BY <3>1
        <3>5. \A t \in Tasks : numof[t] <= done.scan
            <4>1. 0 <= 0
                OBVIOUS
            <4> QED
                BY <3>1, <3>2, <4>1, Zenon
        <3>6. \A t \in Tasks : \A k \in Entries : ~(k < number[t])
            BY <3>1, <3>2, Zenon
        <3> QED
            BY <3>3, <3>4, <3>5, <3>6 DEF GotInv
    <2> QED
        BY <2>2, <2>3, <2>4
<1>2. TypeInv /\ NumberInv /\ (OneScanInv /\ ApsInv /\ GotInv) /\ [Next]_vars
        => OneScanInv' /\ ApsInv' /\ GotInv'
    BY OneScanStep, ApsStep, GotStep
<1>3. Spec => []NumberInv
    BY NumberAlways
<1> QED
    BY <1>1, <1>2, <1>3, TypeAlways, PTL DEF Spec

\* The records that esp_wifi_scan_get_ap_records returns are of the scan that
\* ended last, for any number of tasks and scans, if a scan starts only when
\* none is under way or being read, its results are read when it has ended,
\* and as many are asked for as it found.
THEOREM RecordsAreOfLastScan ==
    ASSUME {"scan", "number"} \subseteq Contract
    PROVE  Spec => RecordsOfLastScan
<1>1. TypeInv /\ OneScanInv /\ GotInv /\ [Next]_vars =>
        [\A t \in Tasks : pc[t] = "bssid" /\ pc'[t] = "idle" =>
            got[t] \subseteq {done.scan}]_vars
    BY DEF GotInv, Reading
<1> QED
    BY <1>1, TypeAlways, RecordsAlways, PTL DEF Spec, RecordsOfLastScan

LEMMA WaitStep ==
    ASSUME "scan" \in Contract, TypeInv, OneScanInv, WaitInv, [Next]_vars
    PROVE  WaitInv'
<1>0. LocalsType /\ PcType /\ KnownType /\ QueueType /\ MaxScans \in Nat
    BY Parts6, Bounds
<1>1. ASSUME NEW t \in Tasks, ScanStart(t)
      PROVE  WaitInv'
    <2>1. \A u \in Tasks : pc[u] # "wait"
        BY <1>1, ScanStarts
    <2>2. /\ scans' = scans + 1 /\ scans \in Nat /\ answer'[t] = "none"
          /\ \A u \in Tasks \ {t} : pc'[u] = pc[u] /\ mine'[u] = mine[u]
        BY <1>0, <1>1 DEF ScanStart, PcType, KnownType, LocalsType, Goto, Scans
    <2>3. PICK c \in Commands :
            /\ queue' = Append(queue, c)
            /\ c.kind = "scan" /\ c.n = scans + 1 /\ c.by = t
            /\ pc'[t] = (IF c.block THEN "wait" ELSE "idle")
            /\ mine'[t] = (IF c.block THEN scans + 1 ELSE 0)
        <3>1. PICK block \in BOOLEAN :
                /\ queue' = Append(queue, [kind |-> "scan", n |-> scans + 1,
                                           by |-> t, block |-> block])
                /\ Goto(t, IF block THEN "wait" ELSE "idle")
                /\ mine' = [mine EXCEPT ![t] = IF block THEN scans + 1 ELSE 0]
            BY <1>1 DEF ScanStart, Waits
        <3>2. scans + 1 \in 1 .. MaxScans
            BY <1>0, <1>1 DEF ScanStart, KnownType, Scans
        <3>3. [kind |-> "scan", n |-> scans + 1, by |-> t, block |-> block] \in Commands
            BY <3>2 DEF Commands
        <3>4. /\ pc'[t] = (IF block THEN "wait" ELSE "idle")
              /\ mine'[t] = (IF block THEN scans + 1 ELSE 0)
            BY <1>0, <3>1 DEF PcType, KnownType, Goto
        <3> QED
            BY <3>1, <3>3, <3>4
    <2>4. /\ Len(queue) + 1 \in 1 .. Len(queue')
          /\ queue'[Len(queue) + 1] = c
        BY <1>0, <2>3, Longer DEF QueueType
    <2>5. pc'[t] = "wait" =>
            \E k \in 1 .. Len(queue') :
                queue'[k].kind = "scan" /\ queue'[k].by = t /\ queue'[k].block
        BY <2>3, <2>4
    <2>6. /\ pc'[t] = "wait" <=> mine'[t] # 0
          /\ pc'[t] = "wait" => mine'[t] = scans'
        BY <2>2, <2>3
    <2>7. \A u \in Tasks \ {t} : pc'[u] # "wait" /\ mine'[u] = 0
        BY <2>1, <2>2 DEF WaitInv
    <2> QED
        BY <2>2, <2>5, <2>6, <2>7 DEF WaitInv, IsScan
<1>2. ASSUME NEW ok \in BOOLEAN, ScanEnds(ok)
      PROVE  WaitInv'
    <2>1. /\ Scanning /\ ~Scanning' /\ Head(queue) = queue[1]
          /\ done' = [scan |-> scans, found |-> apf]
          /\ IsScan(1) /\ 1 \in 1 .. Len(queue)
        BY <1>2, ScanStops, OneIsScanning
    <2>2. pc' = pc /\ mine' = mine /\ apf' = apf
        BY <1>2 DEF ScanEnds, statics
    <2>3. ASSUME NEW t \in Tasks, pc[t] = "wait"
          PROVE  answer'[t] # "none" /\ mine[t] = scans
        <3>1. answer[t] = "none"
            BY <2>1, <2>3 DEF WaitInv
        <3>2. mine[t] = scans /\ queue[1].by = t /\ queue[1].block
            BY <2>1, <2>3, <3>1 DEF WaitInv, OneScanInv
        <3> QED
            BY <1>2, <2>1, <3>2 DEF ScanEnds
    <2> QED
        BY <2>1, <2>2, <2>3 DEF WaitInv
<1>3. ASSUME ~\E t \in Tasks : ScanStart(t), ~\E ok \in BOOLEAN : ScanEnds(ok)
      PROVE  WaitInv'
    <2>0. /\ (Scanning' <=> Scanning) /\ scans' = scans /\ done' = done
          /\ \A k \in 1 .. Len(queue) : IsScan(k) =>
                \E l \in 1 .. Len(queue') : IsScan(l)' /\ queue'[l] = queue[k]
        BY <1>3, ScansUntouched, SameScans
    <2>1. ASSUME NEW t \in Tasks, ScanReturns(t)
          PROVE  WaitInv'
        <3>1. /\ pc'[t] = "idle" /\ mine'[t] = 0 /\ queue' = queue /\ apf' = apf
              /\ \A u \in Tasks \ {t} : /\ pc'[u] = pc[u] /\ mine'[u] = mine[u]
                                        /\ answer'[u] = answer[u]
            BY <1>0, <2>1 DEF ScanReturns, PcType, KnownType, LocalsType, Goto,
                library, statics
        <3>2. ASSUME NEW u \in Tasks, pc'[u] = "wait"
              PROVE  pc[u] = "wait" /\ mine'[u] = mine[u] /\ answer'[u] = answer[u]
            BY <3>1, <3>2
        <3>3. \A u \in Tasks : pc'[u] = "wait" <=> mine'[u] # 0
            BY <3>1 DEF WaitInv
        <3>4. ASSUME NEW u \in Tasks, pc'[u] = "wait", answer'[u] = "none"
              PROVE  /\ mine'[u] = scans'
                     /\ \E k \in 1 .. Len(queue') :
                        queue'[k].kind = "scan" /\ queue'[k].by = u /\ queue'[k].block
            BY <2>0, <3>1, <3>2, <3>4 DEF WaitInv, IsScan
        <3>5. ASSUME NEW u \in Tasks, pc'[u] = "wait", answer'[u] # "none"
              PROVE  ~Scanning' /\ (done').scan = mine'[u] /\ (done').found = apf'
            BY <2>0, <3>1, <3>2, <3>5 DEF WaitInv
        <3> QED
            BY <3>3, <3>4, <3>5 DEF WaitInv, IsScan
    <2>2. ASSUME ~\E t \in Tasks : ScanReturns(t)
          PROVE  WaitInv'
        <3>1. UNCHANGED <<mine, answer>>
            BY <1>3, <2>2 DEF Next, Library, Start, Work, vars, locals, known,
                SetConfig, Connect, ScanRefused, GetApNum, GetApRecords, Store,
                ConfigSet, Load, ChooseMac, Join, CopyBssid, CopyRest,
                RecordsReturn, Take, ReadPart, Joined, Hear
        <3>2. \A t \in Tasks : pc'[t] = "wait" <=> pc[t] = "wait"
            BY <1>3, <2>2, WhereTasksGo
        <3>3. ASSUME NEW t \in Tasks, pc[t] = "wait", ~Scanning
              PROVE  apf' = apf
            <4>1. ~Hear /\ ~\E u \in Tasks : ScanRefused(u)
                BY <1>3, <3>3, OneIsScanning DEF Hear, ScanRefused, MayScan, At
            <4> QED
                BY <1>3, <4>1 DEF Next, Library, Start, Work, vars, statics,
                    SetConfig, Connect, GetApNum, GetApRecords, Store,
                    ConfigSet, Load, ChooseMac, Join, ScanReturns, CopyBssid,
                    CopyRest, RecordsReturn, Take, ReadPart, Joined
        <3>4. ASSUME NEW t \in Tasks, pc[t] = "wait", answer[t] = "none"
              PROVE  \E k \in 1 .. Len(queue') :
                        queue'[k].kind = "scan" /\ queue'[k].by = t /\ queue'[k].block
            BY <2>0, <3>4 DEF WaitInv, IsScan
        <3> QED
            BY <2>0, <3>1, <3>2, <3>3, <3>4 DEF WaitInv, IsScan
    <2> QED
        BY <2>1, <2>2
<1> QED
    BY <1>1, <1>2, <1>3

\* When esp_wifi_scan_start returns to a caller that asked it to wait, its
\* scan is the one that ended last, aps and apf are what that scan left, and
\* no scan is under way, for any number of tasks and scans, if a scan starts
\* only when none is under way, waited for or being read.
THEOREM WaitsUntilDone ==
    ASSUME "scan" \in Contract
    PROVE  Spec => BlockingScanIsDone
<1>1. Init => OneScanInv /\ ApsInv /\ WaitInv
    <2> SUFFICES ASSUME Init PROVE OneScanInv /\ ApsInv /\ WaitInv
        OBVIOUS
    <2>1. ApsSize \in Nat /\ Len(queue) = 0 /\ ~Scanning
        BY Bounds DEF Init, Scanning, Queued
    <2>2. OneScanInv
        BY <2>1 DEF Init, OneScanInv
    <2>3. ApsInv
        BY <2>1 DEF Init, ApsInv, Reading
    <2>4. WaitInv
        BY DEF Init, WaitInv
    <2> QED
        BY <2>2, <2>3, <2>4
<1>2. TypeInv /\ (OneScanInv /\ ApsInv /\ WaitInv) /\ [Next]_vars
        => OneScanInv' /\ ApsInv' /\ WaitInv'
    BY OneScanStep, ApsStep, WaitStep
<1>3. ASSUME TypeInv, OneScanInv, ApsInv, WaitInv, [Next]_vars,
             NEW t \in Tasks, mine'[t] # mine[t], pc'[t] = "idle"
      PROVE  LET n == IF mine[t] # 0 THEN mine[t] ELSE mine'[t]
             IN  /\ done.scan = n /\ done.found = apf
                 /\ \A k \in Entries : k < apf => aps[k] = n
    <2>1. ScanReturns(t)
        <3>1. ASSUME NEW u \in Tasks, ScanStart(u)
              PROVE  FALSE
            <4>1. u = t
                BY <1>3, <3>1, Parts6 DEF ScanStart, KnownType
            <4>2. mine[t] = 0
                BY <1>3, <3>1, <4>1 DEF ScanStart, WaitInv
            <4> QED
                BY <1>3, <3>1, <4>1, <4>2, Parts6 DEF ScanStart, Waits,
                    KnownType, PcType, Goto
        <3>2. \E u \in Tasks : ScanReturns(u)
            BY <1>3, <3>1 DEF Next, Library, Start, Work, vars, known,
                SetConfig, Connect, ScanRefused, GetApNum, GetApRecords, Store,
                ConfigSet, Load, ChooseMac, Join, CopyBssid, CopyRest,
                RecordsReturn, Take, ReadPart, Joined, Hear, ScanEnds
        <3> QED
            BY <1>3, <3>2, Parts6 DEF ScanReturns, KnownType
    <2>2. mine[t] # 0 /\ ~Scanning /\ done.scan = mine[t] /\ done.found = apf
        BY <1>3, <2>1 DEF ScanReturns, WaitInv
    <2> QED
        BY <1>3, <2>2 DEF ApsInv
<1>4. TypeInv /\ (OneScanInv /\ ApsInv /\ WaitInv) /\ [Next]_vars =>
        [\A t \in Tasks : mine'[t] # mine[t] /\ pc'[t] = "idle" =>
            LET n == IF mine[t] # 0 THEN mine[t] ELSE mine'[t]
            IN  /\ done.scan = n /\ done.found = apf
                /\ \A k \in Entries : k < apf => aps[k] = n]_vars
    BY <1>3
<1> QED
    BY <1>1, <1>2, <1>4, TypeAlways, PTL DEF Spec, BlockingScanIsDone
=============================================================================
