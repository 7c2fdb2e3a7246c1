----------------------------- MODULE WifiStation -----------------------------
(***************************************************************************)
(* The station of esp_wifi.c: its configuration and joining an access      *)
(* point (lines 201-216, 808-814), and scanning (263-374).  Both hand the  *)
(* ESP library pointers to static memory, sta_config, aps and apf, and do  *)
(* not wait for it: esp_wifi_connect never, esp_wifi_scan_start unless it  *)
(* is asked to.  The library's thread reads the one and writes the other   *)
(* later, when it gets to the command, while tasks go on using both.       *)
(*                                                                         *)
(* Contract says what the application keeps apart on its own: with {} the  *)
(* model is the code alone, and each member is an obligation on callers.   *)
(***************************************************************************)
EXTENDS Integers, Sequences

CONSTANTS
    Tasks,          \* tasks that call the WiFi API
    Configs,        \* station configurations they set
    WithBssid,      \* those of Configs with bssid_set
    Unset,          \* static memory nobody wrote
    ApsSize,        \* entries of aps: 100 in the code
    MaxFound,       \* bound: access points that a scan hears
    MaxScans,       \* bound: scans that are started
    MaxQueue,       \* bound: commands the library holds
    MaxNumber,      \* bound: records that a caller asks for
    CallbackSet,    \* whether sys_evt_callback is set (module EventLoop)
    Contract        \* obligations of callers

ASSUME SomeHaveBssid == WithBssid \subseteq Configs
ASSUME UnsetIsNone == Unset \notin Configs
ASSUME Bounds == {ApsSize, MaxFound, MaxScans, MaxQueue, MaxNumber} \subseteq Nat
ASSUME CallbackIs == CallbackSet \in BOOLEAN
ASSUME Obligations == Contract \subseteq {"config", "scan", "number"}

Parts == {"ssid", "password", "bssid"}  \* of a configuration; bssid with its flag
Entries == 0 .. (ApsSize - 1)
Scans == 0 .. MaxScans                                  \* 0: no scan

VARIABLES
    \* static memory of esp_wifi.c
    sta_config,     \* the configuration each of its parts was copied from
    sta_to_connect, \* whether it points to sta_config, and not to NULL
    aps,            \* the scan that each access point in it was heard in
    apf,            \* number of valid entries in aps
    \* the library and the chip behind it
    queue,          \* commands; the first is the one the library is at
    doing,          \* what it does for that command
    taken,          \* the parts it read for the join it sends, as it read them
    heard,          \* access points heard in the scan under way
    \* the tasks
    pc,
    conf, todo,     \* set_config: local sta, and the stores left to do
    mac,            \* connect: local mac is not NULL
    number, i,      \* *number and local i of get_ap_records
    got,            \* scans that the records copied so far are of
    answer,         \* what a blocking command returned
    \* what is known, for the properties
    latest,         \* the configuration set last
    scans,          \* scans started
    mine,           \* the scan that a task waits for
    done,           \* the scan that ended last, and what it left in aps
    told,           \* the scan that SCAN_DONE was told of last
    numof           \* the scan that a task was told the number of

statics == <<sta_config, sta_to_connect, aps, apf>>
library == <<queue, doing, taken, heard>>
locals == <<conf, todo, mac, number, i, got, answer>>
known == <<latest, scans, mine, done, told, numof>>
vars == <<statics, library, pc, locals, known>>

Pcs == {"idle", "set", "load", "mac", "join", "wait", "bssid", "rest"}

Goto(t, label) == pc' = [pc EXCEPT ![t] = label]

At(label) == {t \in Tasks : pc[t] \in label}

Queued(kind) == {k \in 1 .. Len(queue) : queue[k].kind = kind}

Scanning == Queued("scan") # {}

\* "config": the configuration is set when no call uses it, and neither does
\* a join the library has not sent.
MaySetConfig ==
    "config" \in Contract =>
        At({"set", "load", "mac", "join"}) = {} /\ Queued("join") = {}

MayConnect == "config" \in Contract => At({"set"}) = {}

\* "scan": no scan starts while there is one, or one that a task waits for or
\* reads the results of.
MayScan ==
    "scan" \in Contract => ~Scanning /\ At({"wait", "bssid", "rest"}) = {}

\* The results are read when the scan has ended ...
MayRead == "scan" \in Contract => ~Scanning

\* "number": ... and as many as esp_wifi_scan_get_ap_num said there are.
MayAsk(t, n) ==
    "number" \in Contract => n = number[t] /\ numof[t] = done.scan

Init ==
    /\ sta_config = [p \in Parts |-> Unset] /\ sta_to_connect = FALSE
    /\ aps = [k \in Entries |-> 0] /\ apf = 0
    /\ queue = <<>> /\ doing = "nothing"
    /\ taken = [p \in {} |-> Unset] /\ heard = 0
    /\ pc = [t \in Tasks |-> "idle"]
    /\ conf = [t \in Tasks |-> Unset]
    /\ todo = [t \in Tasks |-> {}]
    /\ mac = [t \in Tasks |-> FALSE]
    /\ number = [t \in Tasks |-> 0]
    /\ i = [t \in Tasks |-> 0]
    /\ got = [t \in Tasks |-> {}]
    /\ answer = [t \in Tasks |-> "none"]
    /\ latest = Unset /\ scans = 0
    /\ mine = [t \in Tasks |-> 0]
    /\ done = [scan |-> 0, found |-> 0] /\ told = 0
    /\ numof = [t \in Tasks |-> 0]

-----------------------------------------------------------------------------
(* The choices inside the actions, each after mistakes in it that a        *)
(* property of this module catches.                                        *)

\* Whether esp_wifi_connect gives the library the address in the
\* configuration, or NULL.
Always(t) == TRUE
BssidSet(t) == sta_config["bssid"] \in WithBssid

\* The entries that esp_sta_list_ap is told aps has.
SizeOf == 2 * ApsSize
Room == ApsSize

\* Whether esp_wifi_scan_start waits.
Never(block) == FALSE
Waits(block) == block

\* esp_wifi_scan_get_ap_records goes on with record i.
OneMore(t) == i[t] <= number[t]
More(t) == i[t] < number[t]

\* at_unified_cb makes SCAN_DONE of the end of a scan, however it ended, if
\* there is a callback to tell.
IfOk(ok) == CallbackSet /\ ok
Tells(ok) == CallbackSet

-----------------------------------------------------------------------------
(* esp_wifi_set_config for the station.                                    *)

\* *(sta_to_connect = sta_config) = *sta: the pointer and the parts are
\* stored in the order the compiler and the copy like.
SetConfig(t) ==
    /\ pc[t] = "idle" /\ MaySetConfig
    /\ \E c \in Configs :
        conf' = [conf EXCEPT ![t] = c] /\ latest' = c
    /\ todo' = [todo EXCEPT ![t] = Parts \cup {"pointer"}]
    /\ Goto(t, "set")
    /\ UNCHANGED <<statics, library, mac, number, i, got, answer, scans, mine,
                   done, told, numof>>

Store(t) ==
    /\ pc[t] = "set"
    /\ \E p \in todo[t] :
        /\ todo' = [todo EXCEPT ![t] = @ \ {p}]
        /\ \/ p = "pointer" /\ sta_to_connect' = TRUE /\ UNCHANGED sta_config
           \/ /\ p \in Parts
              /\ sta_config' = [sta_config EXCEPT ![p] = conf[t]]
              /\ UNCHANGED sta_to_connect
    /\ UNCHANGED <<aps, apf, library, pc, conf, mac, number, i, got, answer,
                   known>>

ConfigSet(t) ==
    /\ pc[t] = "set" /\ todo[t] = {}
    /\ conf' = [conf EXCEPT ![t] = Unset]
    /\ Goto(t, "idle")
    /\ UNCHANGED <<statics, library, todo, mac, number, i, got, answer, known>>

-----------------------------------------------------------------------------
(* esp_wifi_connect.                                                       *)

Connect(t) ==
    /\ pc[t] = "idle" /\ MayConnect
    /\ Goto(t, "load")
    /\ UNCHANGED <<statics, library, locals, known>>

\* sta = sta_to_connect; without a configuration it is ESP_ERR_WIFI_CONN.
Load(t) ==
    /\ pc[t] = "load"
    /\ Goto(t, IF sta_to_connect THEN "mac" ELSE "idle")
    /\ UNCHANGED <<statics, library, locals, known>>

ChooseMac(t) ==
    /\ pc[t] = "mac"
    /\ mac' = [mac EXCEPT ![t] = BssidSet(t)]
    /\ Goto(t, "join")
    /\ UNCHANGED <<statics, library, conf, todo, number, i, got, answer, known>>

\* esp_sta_join takes the pointers, or has no room for them; esp_wifi_connect
\* returns.
Join(t) ==
    /\ pc[t] = "join"
    /\ \/ /\ Len(queue) < MaxQueue
          /\ queue' = Append(queue, [kind |-> "join", mac |-> mac[t],
                                     wanted |-> latest])
       \/ UNCHANGED queue
    /\ mac' = [mac EXCEPT ![t] = FALSE]
    /\ Goto(t, "idle")
    /\ UNCHANGED <<statics, doing, taken, heard, conf, todo, number, i, got,
                   answer, known>>

-----------------------------------------------------------------------------
(* esp_wifi_scan_start, esp_wifi_scan_get_ap_num and                       *)
(* esp_wifi_scan_get_ap_records.                                           *)

\* esp_sta_list_ap sets apf to 0 and takes the pointers to aps and apf.
ScanStart(t) ==
    /\ pc[t] = "idle" /\ MayScan
    /\ scans < MaxScans /\ Len(queue) < MaxQueue
    /\ scans' = scans + 1
    /\ apf' = 0
    /\ \E block \in BOOLEAN :
        /\ queue' = Append(queue, [kind |-> "scan", n |-> scans + 1,
                                   by |-> t, block |-> Waits(block)])
        /\ Goto(t, IF Waits(block) THEN "wait" ELSE "idle")
        /\ mine' = [mine EXCEPT ![t] = IF block THEN scans + 1 ELSE 0]
    /\ answer' = [answer EXCEPT ![t] = "none"]
    /\ UNCHANGED <<sta_config, sta_to_connect, aps, doing, taken, heard, conf,
                   todo, mac, number, i, got, latest, done, told, numof>>

\* It has no room for the command: ESP_FAIL.
ScanRefused(t) ==
    /\ pc[t] = "idle" /\ MayScan
    /\ apf' \in {0, apf}
    /\ UNCHANGED <<sta_config, sta_to_connect, aps, library, pc, locals, known>>

ScanReturns(t) ==
    /\ pc[t] = "wait" /\ answer[t] # "none"
    /\ Goto(t, "idle")
    /\ answer' = [answer EXCEPT ![t] = "none"]
    /\ mine' = [mine EXCEPT ![t] = 0]
    /\ UNCHANGED <<statics, library, conf, todo, mac, number, i, got, latest,
                   scans, done, told, numof>>

GetApNum(t) ==
    /\ pc[t] = "idle" /\ MayRead
    /\ number' = [number EXCEPT ![t] = apf]
    /\ numof' = [numof EXCEPT ![t] = done.scan]
    /\ UNCHANGED <<statics, library, pc, conf, todo, mac, i, got, answer,
                   latest, scans, mine, done, told>>

GetApRecords(t) ==
    /\ pc[t] = "idle" /\ MayRead
    /\ \E n \in 0 .. MaxNumber :
        MayAsk(t, n) /\ number' = [number EXCEPT ![t] = n]
    /\ Goto(t, "bssid")
    /\ UNCHANGED <<statics, library, conf, todo, mac, i, got, answer, known>>

\* One turn of the loop: first the address of the access point ...
CopyBssid(t) ==
    /\ pc[t] = "bssid" /\ More(t)
    /\ got' = [got EXCEPT ![t] = @ \cup {IF i[t] \in Entries THEN aps[i[t]] ELSE 0}]
    /\ Goto(t, "rest")
    /\ UNCHANGED <<statics, library, conf, todo, mac, number, i, answer, known>>

\* ... then its name and the rest.
CopyRest(t) ==
    /\ pc[t] = "rest"
    /\ got' = [got EXCEPT ![t] = @ \cup {IF i[t] \in Entries THEN aps[i[t]] ELSE 0}]
    /\ i' = [i EXCEPT ![t] = @ + 1]
    /\ Goto(t, "bssid")
    /\ UNCHANGED <<statics, library, conf, todo, mac, number, answer, known>>

\* It returns ESP_OK, and *number is what the caller put there, who is then
\* done with it.
RecordsReturn(t) ==
    /\ pc[t] = "bssid" /\ ~More(t)
    /\ i' = [i EXCEPT ![t] = 0]
    /\ got' = [got EXCEPT ![t] = {}]
    /\ number' = [number EXCEPT ![t] = 0]
    /\ numof' = [numof EXCEPT ![t] = 0]
    /\ Goto(t, "idle")
    /\ UNCHANGED <<statics, library, conf, todo, mac, answer, latest, scans,
                   mine, done, told>>

-----------------------------------------------------------------------------
(* The library's thread, and the chip.                                     *)

\* The next command: a join is written on the line from the strings the
\* pointers lead to, a scan has nothing to read.
Take ==
    /\ queue # <<>> /\ doing = "nothing"
    /\ doing' = IF Head(queue).kind = "join" THEN "reading" ELSE "scanning"
    /\ UNCHANGED <<statics, queue, taken, heard, pc, locals, known>>

ToRead == {"ssid", "password"} \cup (IF Head(queue).mac THEN {"bssid"} ELSE {})

ReadPart ==
    /\ doing = "reading"
    /\ \E p \in ToRead \ DOMAIN taken :
        taken' = [q \in DOMAIN taken \cup {p} |->
                    IF q = p THEN sta_config[p] ELSE taken[q]]
    /\ UNCHANGED <<statics, queue, doing, heard, pc, locals, known>>

\* The chip gets the join, and answers: the library is done with it.
Joined ==
    /\ doing = "reading" /\ DOMAIN taken = ToRead
    /\ queue' = Tail(queue) /\ doing' = "nothing"
    /\ taken' = [p \in {} |-> Unset]
    /\ UNCHANGED <<statics, heard, pc, locals, known>>

\* The chip hears an access point: it goes into aps if there is room.
Hear ==
    /\ doing = "scanning" /\ heard < MaxFound
    /\ heard' = heard + 1
    /\ IF heard < Room
       THEN /\ aps' = [k \in Entries |->
                            IF k = heard THEN Head(queue).n ELSE aps[k]]
            /\ apf' = heard + 1
       ELSE UNCHANGED <<aps, apf>>
    /\ UNCHANGED <<sta_config, sta_to_connect, queue, doing, taken, pc, locals,
                   known>>

\* The scan ends, well or not: whoever waits for it gets the answer, and
\* at_unified_cb the event.
ScanEnds(ok) ==
    /\ doing = "scanning"
    /\ LET c == Head(queue)
       IN  /\ answer' = [t \in Tasks |-> IF c.block /\ t = c.by
                                         THEN (IF ok THEN "ok" ELSE "fail")
                                         ELSE answer[t]]
           /\ done' = [scan |-> c.n, found |-> apf]
           /\ told' = IF Tells(ok) THEN c.n ELSE told
    /\ queue' = Tail(queue) /\ doing' = "nothing" /\ heard' = 0
    /\ UNCHANGED <<statics, taken, pc, conf, todo, mac, number, i, got,
                   latest, scans, mine, numof>>

-----------------------------------------------------------------------------
Library == Take \/ ReadPart \/ Joined \/ Hear \/ \E ok \in BOOLEAN : ScanEnds(ok)

Start(t) ==
    \/ SetConfig(t) \/ Connect(t) \/ ScanStart(t) \/ ScanRefused(t)
    \/ GetApNum(t) \/ GetApRecords(t)

Work(t) ==
    \/ Store(t) \/ ConfigSet(t) \/ Load(t) \/ ChooseMac(t) \/ Join(t)
    \/ ScanReturns(t) \/ CopyBssid(t) \/ CopyRest(t) \/ RecordsReturn(t)

Next == Library \/ \E t \in Tasks : Start(t) \/ Work(t)

Spec == Init /\ [][Next]_vars

\* The scheduler runs every ready task and the library's thread, and the chip
\* ends a scan.
FairSpec == Spec /\ WF_vars(Library) /\ \A t \in Tasks : WF_vars(Work(t))

-----------------------------------------------------------------------------
(* What makes the station correct.                                         *)

Commands == [kind : {"join"}, mac : BOOLEAN, wanted : Configs]
                \cup [kind : {"scan"}, n : 1 .. MaxScans, by : Tasks,
                      block : BOOLEAN]

\* Every variable has its type.
TypeOK ==
    /\ sta_config \in [Parts -> Configs \cup {Unset}]
    /\ sta_to_connect \in BOOLEAN
    /\ aps \in [Entries -> Scans] /\ apf \in 0 .. ApsSize
    /\ queue \in Seq(Commands)
    /\ doing \in {"nothing", "reading", "scanning"}
    /\ \E P \in SUBSET Parts : taken \in [P -> Configs \cup {Unset}]
    /\ heard \in 0 .. MaxFound
    /\ pc \in [Tasks -> Pcs]
    /\ conf \in [Tasks -> Configs \cup {Unset}]
    /\ todo \in [Tasks -> SUBSET (Parts \cup {"pointer"})]
    /\ mac \in [Tasks -> BOOLEAN]
    /\ {number, i} \subseteq [Tasks -> Nat]
    /\ got \in [Tasks -> SUBSET Scans]
    /\ answer \in [Tasks -> {"none", "ok", "fail"}]
    /\ latest \in Configs \cup {Unset}
    /\ {scans, told} \subseteq Scans
    /\ {mine, numof} \subseteq [Tasks -> Scans]
    /\ done \in [scan : Scans, found : 0 .. ApsSize]

\* esp_wifi_scan_get_ap_records reads nothing past the end of aps, however
\* many access points the scans before it heard.
ApsInBounds == \A t \in At({"rest"}) : i[t] < ApsSize

\* The join that the chip gets has the name, the password and, exactly if its
\* configuration says so, the address of one configuration, the one that was
\* set last when esp_wifi_connect was called, although the library reads them
\* one after another and long after the call.
JoinIsWhole ==
    [][Joined =>
        LET c == Head(queue).wanted
        IN  /\ \A p \in DOMAIN taken : taken[p] = c
            /\ "bssid" \in DOMAIN taken <=> c \in WithBssid]_vars

\* esp_wifi_scan_get_ap_records returns "AP list found in last scan": each
\* record is of that scan, and not a part of it of another.
RecordsOfLastScan ==
    [][\A t \in Tasks : pc[t] = "bssid" /\ pc'[t] = "idle" =>
        got[t] \subseteq {done.scan}]_vars

\* "if block is true, this API will block the caller until the scan is done":
\* when esp_wifi_scan_start returns to a caller that asked for it, the scan
\* that it started has ended, and aps and apf are as that scan left them.
BlockingScanIsDone ==
    [][\A t \in Tasks : mine'[t] # mine[t] /\ pc'[t] = "idle" =>
        LET n == IF mine[t] # 0 THEN mine[t] ELSE mine'[t]
        IN  /\ done.scan = n /\ done.found = apf
            /\ \A k \in Entries : k < apf => aps[k] = n]_vars

\* The application is told that a scan it started is done, that scan or one
\* it started later, when it set a callback.
ScanTold == \A n \in 1 .. MaxScans : scans = n ~> told >= n
=============================================================================
