------------------------------ MODULE EventLoop ------------------------------
(***************************************************************************)
(* Events on their way from the WiFi chip to the application, through      *)
(* esp_event_loop.c.  The ESP library calls at_unified_cb for what the     *)
(* chip reports; most events go on to the application's callback at once,  *)
(* but that of a new address first asks the chip for the address, and the  *)
(* application hears of it when the answer has come.  The application may  *)
(* change its callback at any time, from any task.                         *)
(*                                                                         *)
(* External: the chip sends reports and answers on one line in the order   *)
(* they happen, the library reads them in that order, has one command out  *)
(* at a time, and completes a command on a thread of its own.              *)
(***************************************************************************)
EXTENDS Integers, Sequences

CONSTANTS
    Callbacks,      \* functions the application can register
    NULL,           \* no callback
    Others,         \* reports, besides those of the station's link, that come
    MaxReports,     \* bound: reports the chip sends
    MaxLeases,      \* bound: addresses the station gets, one after another
    ReadMayFail,    \* whether reading the address may fail
    QuietNull       \* whether NULL is set only while no event is handled

ASSUME NullIsNoCallback == NULL \notin Callbacks
ASSUME Bounds == {MaxReports, MaxLeases} \subseteq Nat
ASSUME Choices == {ReadMayFail, QuietNull} \subseteq BOOLEAN

Threads == {"evt", "api"}   \* where at_unified_cb and esp_sta_getip_cb run
Nobody == "nobody"

\* What the chip reports, and the events that at_unified_cb makes of them.
Told == {"list_ap", "wifi_connected", "wifi_disconnected",
         "ap_connected_sta", "ap_disconnected_sta", "ap_ip_sta"}
Untold == {"join_ap", "info_ap", "ip_acquired", "server", "dns", "other"}
Station == {"wifi_connected", "wifi_got_ip", "wifi_disconnected"}

ASSUME OthersAreReports == Others \subseteq (Told \cup Untold) \ Station

VARIABLES
    sys_evt_callback,   \* the application's callback
    registered,         \* esp_evt_register has at_unified_cb
    app,                \* where the application is in esp_event_loop_init
    pc,                 \* where each thread of the library is
    sys_evt,            \* the event that each thread is to tell
    ip_info,            \* the static buffer for the address: a lease, 0 for none
    reads,              \* commands esp_sta_getip queued: the lease of each
    asking,             \* the first of them was answered, the answer not read
    \* the chip, and the line from it
    link, lease,        \* the station: down, up or with the address of a lease
    line,               \* reports and answers that the library has not read
    reports,            \* reports sent so far
    \* what happened, for the properties
    heard,              \* the last lease at_unified_cb heard of
    told,               \* the last lease the application was told of
    last,               \* the last event of the station the application got
    missed              \* leases not told: no callback, or not read

chip == <<link, lease, reports>>
reading == <<ip_info, reads, asking>>
known == <<heard, told, last, missed>>
vars == <<sys_evt_callback, registered, app, pc, sys_evt, reading, chip, line,
          known>>

NoEvent == [id |-> "none", ip |-> 0]

Goto(th, label) == pc' = [pc EXCEPT ![th] = label]

\* A call through a NULL pointer stops the microcontroller.
Running == \A th \in Threads : pc[th] # "fault"

Quiet == \A th \in Threads : pc[th] = "idle"

Init ==
    /\ sys_evt_callback = NULL /\ registered = FALSE /\ app = "start"
    /\ pc = [th \in Threads |-> "idle"]
    /\ sys_evt = [th \in Threads |-> NoEvent]
    /\ ip_info = 0 /\ reads = <<>> /\ asking = FALSE
    /\ link = "down" /\ lease = 0 /\ reports = 0 /\ line = <<>>
    /\ heard = 0 /\ told = 0 /\ last = Nobody /\ missed = {}

-----------------------------------------------------------------------------
(* The chip.                                                               *)

Report(kind) ==
    /\ reports < MaxReports
    /\ reports' = reports + 1
    /\ line' = Append(line, [kind |-> kind, ip |-> lease'])

Connects ==
    /\ link = "down" /\ link' = "up"
    /\ UNCHANGED lease
    /\ Report("wifi_connected")

GetsAddress ==
    /\ link = "up" /\ link' = "ip"
    /\ lease < MaxLeases /\ lease' = lease + 1
    /\ Report("wifi_got_ip")

Disconnects ==
    /\ link # "down" /\ link' = "down"
    /\ UNCHANGED lease
    /\ Report("wifi_disconnected")

\* Reports that do not concern the station's link.
ReportsOther ==
    /\ UNCHANGED <<link, lease>>
    /\ \E kind \in Others : Report(kind)

\* The chip answers the command that is out, with the address it has now.
Answers ==
    /\ reads # <<>> /\ ~asking
    /\ asking' = TRUE
    /\ line' = Append(line, [kind |-> "answer",
                             ip |-> IF link = "ip" THEN lease ELSE 0])
    /\ UNCHANGED <<ip_info, reads, chip>>

Chip ==
    /\ \/ (Connects \/ GetsAddress \/ Disconnects \/ ReportsOther)
            /\ UNCHANGED reading
       \/ Answers
    /\ UNCHANGED <<sys_evt_callback, registered, app, pc, sys_evt, known>>

-----------------------------------------------------------------------------
(* The choices inside the actions, each after mistakes in it that a        *)
(* property of this module catches.                                        *)

\* Whether a thread goes on to the callback after looking at it.
Always == TRUE
HasCallback == sys_evt_callback # NULL

\* The commands that are queued after a new address.
NoMore(ip) == reads
OneMore(ip) == Append(reads, ip)

\* The address that goes into the event, when the chip answered with ip.
Before(ip) == ip_info
Copied(ip) == ip

\* The reports that have an event for the application.
AllReports == Told \cup Untold
Passed == Told

-----------------------------------------------------------------------------
(* at_unified_cb and esp_sta_getip_cb.                                     *)

\* at_unified_cb is called with the next report: it is told to the
\* application, or it is a new address and the chip is asked for it, or it
\* is of no interest.  Nothing looks at what esp_sta_getip returns.
Event ==
    /\ Running
    /\ line # <<>> /\ Head(line).kind # "answer"
    /\ pc["evt"] = "idle"
    /\ line' = Tail(line)
    /\ LET kind == Head(line).kind
       IN  \/ /\ registered /\ kind \in Passed
              /\ sys_evt' = [sys_evt EXCEPT !["evt"] = [id |-> kind, ip |-> 0]]
              /\ Goto("evt", "test")
              /\ UNCHANGED <<reads, heard, missed>>
           \/ /\ registered /\ kind = "wifi_got_ip"
              /\ heard' = Head(line).ip
              /\ \/ reads' = OneMore(Head(line).ip)
                    /\ UNCHANGED missed
                 \/ /\ ReadMayFail
                    /\ missed' = missed \cup {Head(line).ip}
                    /\ UNCHANGED reads
              /\ UNCHANGED <<sys_evt, pc>>
           \/ /\ ~registered \/ kind \notin Passed \cup {"wifi_got_ip"}
              /\ UNCHANGED <<sys_evt, pc, reads, heard, missed>>
    /\ UNCHANGED <<sys_evt_callback, registered, app, ip_info, asking, chip,
                   told, last>>

\* The library has the answer in ip_info, and completes the command with
\* esp_sta_getip_cb, which copies the address into the event.
Complete ==
    /\ Running
    /\ line # <<>> /\ Head(line).kind = "answer"
    /\ pc["api"] = "idle"
    /\ line' = Tail(line)
    /\ ip_info' = Head(line).ip
    /\ reads' = Tail(reads) /\ asking' = FALSE
    /\ sys_evt' = [sys_evt EXCEPT !["api"] =
                    [id |-> "got_ip", ip |-> Copied(Head(line).ip)]]
    /\ Goto("api", "test")
    /\ UNCHANGED <<sys_evt_callback, registered, app, chip, known>>

\* The command fails.  esp_sta_getip_cb has no look at the result: it tells
\* what is in ip_info from before.
CompleteFailed ==
    /\ Running /\ ReadMayFail
    /\ reads # <<>> /\ ~asking
    /\ pc["api"] = "idle"
    /\ reads' = Tail(reads)
    /\ missed' = missed \cup {Head(reads)}
    /\ sys_evt' = [sys_evt EXCEPT !["api"] = [id |-> "got_ip", ip |-> ip_info]]
    /\ Goto("api", "test")
    /\ UNCHANGED <<sys_evt_callback, registered, app, ip_info, asking, chip,
                   line, heard, told, last>>

\* The first look at the callback.
Test(th) ==
    /\ Running
    /\ pc[th] = "test"
    /\ IF HasCallback
       THEN Goto(th, "call") /\ UNCHANGED <<sys_evt, missed>>
       ELSE /\ Goto(th, "idle")
            /\ missed' = missed \cup {sys_evt[th].ip}
            /\ sys_evt' = [sys_evt EXCEPT ![th] = NoEvent]
    /\ UNCHANGED <<sys_evt_callback, registered, app, reading, chip, line,
                   heard, told, last>>

\* The second look, to call it.
Call(th) ==
    /\ Running
    /\ pc[th] = "call"
    /\ IF sys_evt_callback = NULL
       THEN Goto(th, "fault") /\ UNCHANGED <<told, last>>
       ELSE /\ Goto(th, "callback")
            /\ told' = IF th = "api" THEN sys_evt[th].ip ELSE told
            /\ last' = IF sys_evt[th].id \in {"wifi_connected", "got_ip",
                                              "wifi_disconnected"}
                       THEN sys_evt[th].id ELSE last
    /\ UNCHANGED <<sys_evt_callback, registered, app, sys_evt, reading, chip,
                   line, heard, missed>>

\* The callback returns, and so does the function that called it.
Returns(th) ==
    /\ Running
    /\ pc[th] = "callback"
    /\ Goto(th, "idle")
    /\ sys_evt' = [sys_evt EXCEPT ![th] = NoEvent]
    /\ UNCHANGED <<sys_evt_callback, registered, app, reading, chip, line,
                   known>>

-----------------------------------------------------------------------------
(* The application.                                                        *)

\* NULL ends the events; QuietNull says when the application may set it.
MaySet(cb) == cb # NULL \/ ~QuietNull \/ Quiet

\* esp_event_loop_init, up to the registration.
LoopInit ==
    /\ Running
    /\ app = "start"
    /\ sys_evt_callback' \in Callbacks \cup {NULL}
    /\ app' = "register"
    /\ UNCHANGED <<registered, pc, sys_evt, reading, chip, line, known>>

Register ==
    /\ Running
    /\ app = "register"
    /\ registered' = TRUE
    /\ app' = "run"
    /\ UNCHANGED <<sys_evt_callback, pc, sys_evt, reading, chip, line, known>>

\* esp_event_loop_set_cb.
SetCb ==
    /\ Running
    /\ app = "run"
    /\ \E cb \in Callbacks \cup {NULL} :
        MaySet(cb) /\ sys_evt_callback' = cb
    /\ UNCHANGED <<registered, app, pc, sys_evt, reading, chip, line, known>>

-----------------------------------------------------------------------------
Library ==
    \/ Event \/ Complete \/ CompleteFailed
    \/ \E th \in Threads : Test(th) \/ Call(th) \/ Returns(th)

Next == Chip \/ Library \/ LoopInit \/ Register \/ SetCb

Spec == Init /\ [][Next]_vars

\* The chip answers, and the threads of the library run when they have work.
FairSpec ==
    /\ Spec
    /\ WF_vars(Answers /\ Chip)
    /\ WF_vars(Event) /\ WF_vars(Complete)
    /\ \A th \in Threads : WF_vars(Test(th) \/ Call(th) \/ Returns(th))

-----------------------------------------------------------------------------
(* What makes the event loop correct.                                      *)

\* Every variable has its type.
TypeOK ==
    /\ sys_evt_callback \in Callbacks \cup {NULL}
    /\ registered \in BOOLEAN /\ app \in {"start", "register", "run"}
    /\ pc \in [Threads -> {"idle", "test", "call", "callback", "fault"}]
    /\ sys_evt \in [Threads -> [id : Told \cup {"none", "got_ip"},
                                ip : 0 .. MaxLeases]]
    /\ ip_info \in 0 .. MaxLeases
    /\ reads \in Seq(1 .. MaxLeases) /\ asking \in BOOLEAN
    /\ link \in {"down", "up", "ip"} /\ lease \in 0 .. MaxLeases
    /\ line \in Seq([kind : Told \cup Untold \cup {"wifi_got_ip", "answer"},
                     ip : 0 .. MaxLeases])
    /\ reports \in 0 .. MaxReports
    /\ {heard, told} \subseteq 0 .. MaxLeases
    /\ last \in {Nobody, "wifi_connected", "wifi_disconnected", "got_ip"}
    /\ missed \subseteq 0 .. MaxLeases

\* esp_event_loop.h: "If cb is NULL, means application don't need to handle".
\* No thread calls through the pointer when it is NULL, whenever the
\* application sets it between the two looks of lines 103 and 108, or 21
\* and 22.
NullNeverCalled == Running

\* Nothing is on its way any more.
Settled == Quiet /\ line = <<>> /\ reads = <<>> /\ app = "run"

\* When everything has settled, the application knows the address the station
\* has and that it has one, however connections and reads of the address
\* followed each other, if at_unified_cb heard of it, the chip could be asked
\* and the callback was not NULL when it answered.
AppUpToDate ==
    Settled /\ link = "ip" /\ heard = lease /\ lease \notin missed
        => told = lease /\ last = "got_ip"

\* A new address that at_unified_cb hears of is told to the application, that
\* address or a later one, unless the station has lost it by then, the chip
\* could not be asked, or the callback was NULL.
AddressTold ==
    \A n \in 1 .. MaxLeases :
        heard = n ~> told >= n \/ n \in missed \/ lease # n \/ link # "ip"

\* esp_event_legacy.h: GOT_IP means "station got IP from connected AP".  The
\* application, told that the station is disconnected, is not told of an
\* address before the next connection.
AddressWhileConnected ==
    [][last = "wifi_disconnected" => last' # "got_ip"]_vars
=============================================================================
