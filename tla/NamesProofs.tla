------------------------------ MODULE NamesProofs ------------------------------
(***************************************************************************)
(* What holds of Names and ChipSettings for any number of tasks, values,   *)
(* hosts and blocks of the heap and whichever functions are called: the    *)
(* types, that the chip keeps its promise (Registers), and that names and  *)
(* answers are those that callers asked for.                               *)
(***************************************************************************)
EXTENDS Names, TLAPS

\* What the callers have to keep apart, and what must not fail, for each.
ServersApart == {"setserver", "restore"} \subseteq Apart /\ "get_dns" \notin MayFail
NtpApart == {"ntp", "restore"} \subseteq Apart
HostnameApart == {"hostname", "nomem"} \subseteq Apart
AnswerApart == "answer" \in Apart

-----------------------------------------------------------------------------
(* The inductive invariant.                                                *)

\* Which calls are where.
PcsOf(kind) ==
    CASE kind = "none" -> {"idle"}
      [] kind \in {"setting", "restore"} -> {"tell"}
      [] kind = "setserver" -> {"dns_get", "tell"}
      [] kind = "ntp" -> {"ntp_conf", "ntp_get", "ntp_clock"}
      [] kind = "host" -> {"lookup", "answer", "use"}
      [] kind = "hostname" -> {"free", "malloc", "copy", "publish", "configure", "fault"}
      [] kind = "service" -> {"configure", "fault"}

PcInv == \A t \in Tasks : pc[t] \in PcsOf(call[t])

\* Calls of several commands know what they are to set, and who asks for a
\* host gets an address of one.
LocalsInv ==
    \A t \in Tasks :
        /\ pc[t] = "dns_get" => wish[t] \in Servers \X Values
        /\ call[t] = "ntp" => wish[t] \in {"zone"} \X Values
        /\ pc[t] = "lookup" => asked[t] \in Hosts
        /\ pc[t] = "answer" => addr[t] \in Hosts

TypeInv == TypeOK /\ PcInv /\ LocalsInv

\* Callers keep the kinds of calls in Apart apart.
ApartInv ==
    \A t, u \in Tasks : t # u =>
        /\ call[t] = call[u] /\ call[t] # "none" => call[t] \notin Apart
        /\ call[t] = "restore" /\ "restore" \in Apart => call[u] = "none"
        /\ call[t] = "hostname" /\ "hostname" \in Apart => call[u] # "service"

\* A command tells the chip what its call is for, and the other server what
\* that server is already.
TellInv ==
    \A t \in Tasks : pc[t] = "tell" =>
        /\ call[t] = "restore" =>
            wish[t] = <<"all", Zero>> /\ tells[t] = esp_wifi_restore
        /\ call[t] = "setting" =>
            /\ wish[t] \in (Settings \ (Servers \cup {"zone"})) \X Contents
            /\ tells[t] = Tell(wish[t][1], wish[t][2])
        /\ call[t] = "setserver" =>
            wish[t] \in Servers \X Values /\ DOMAIN tells[t] = Servers

ServersInv ==
    \A t \in Tasks : pc[t] = "tell" /\ call[t] = "setserver" =>
        tells[t] = [s \in Servers |-> IF s = wish[t][1] THEN wish[t][2]
                                      ELSE regs[s]]

\* The zone that was set stays until the time was read, and the time read is
\* of that zone.
ZoneInv ==
    \A t \in Tasks :
        /\ pc[t] = "ntp_get" => regs["zone"] = wish[t][2]
        /\ pc[t] = "ntp_clock" => time[t] = wish[t][2]

\* mdns_hostname_set is the only call that changes the heap, and between its
\* free and its store of the new pointer the old one is dangling: for ever if
\* the call ends before it.
Dangling == \E t \in Tasks : pc[t] \in {"malloc", "copy", "publish"}

HeapInv ==
    /\ \A t \in Tasks :
        /\ pc[t] # "fault"
        /\ pc[t] \in {"free", "malloc", "copy", "publish"} => ~lost
        /\ pc[t] = "free" => name[t] = mdns_hostname /\ mdns_hostname # Null
        /\ pc[t] = "malloc" => allocated = {} /\ name[t] = mdns_hostname
        /\ pc[t] \in {"copy", "publish"} =>
            name[t] \in Blocks /\ allocated = {name[t]}
        /\ pc[t] = "publish" => text[name[t]] = new[t]
        /\ pc[t] = "configure" => name[t] \in allocated \cup {Null}
        /\ pc[t] \notin {"free", "malloc", "copy", "publish", "configure"} =>
            name[t] = Null
    /\ ~Dangling =>
        IF lost
        THEN allocated = {}
        ELSE /\ allocated = {mdns_hostname} \ {Null}
             /\ mdns_hostname # Null => text[mdns_hostname] = set

\* One task at a time has asked and not used its answer.
AskedInv ==
    /\ \A t, u \in Tasks : asked[t] # "none" /\ asked[u] # "none" => t = u
    /\ \A t \in Tasks :
        /\ asked[t] # "none" <=> pc[t] \in {"lookup", "answer", "use"}
        /\ pc[t] = "answer" => addr[t] = asked[t]
        /\ pc[t] = "use" => h = asked[t]

-----------------------------------------------------------------------------
(* What the functions tell the chip.                                       *)

LEMMA Values3 ==
    /\ "nothing" \notin Contents /\ Values \subseteq Contents
    /\ Zero \in Contents /\ "on" \in Contents
BY ValuesAre, ZeroIs DEF Contents

\* A function that has something to tell tells the chip the one setting that it
\* concerns, which is no server and no zone, and esp_wifi_restore all of them.
LEMMA OneSetting ==
    ASSUME NEW f, NEW ifx \in Interfaces, NEW v \in Values,
           Told(f, ifx, v) # Silence
    PROVE  /\ Aim(f, v) \in Contents
           /\ f = "esp_wifi_restore" =>
                /\ Told(f, ifx, v) = esp_wifi_restore
                /\ Concerns(f, ifx) = "all" /\ Aim(f, v) = Zero
           /\ f # "esp_wifi_restore" =>
                /\ Concerns(f, ifx) \in Settings \ (Servers \cup {"zone"})
                /\ Told(f, ifx, v) = Tell(Concerns(f, ifx), Aim(f, v))
<1>1. f # "esp_wifi_restore" =>
        Concerns(f, ifx) \in Settings \ (Servers \cup {"zone"})
    BY DEF Concerns, Settings, Servers
<1>2. Aim(f, v) \in Contents
    BY Values3 DEF Aim
<1>3. f = "esp_wifi_restore" =>
        /\ Told(f, ifx, v) = esp_wifi_restore
        /\ Concerns(f, ifx) = "all" /\ Aim(f, v) = Zero
    BY DEF Told, Concerns, Aim, Starting, Stopping
<1>4. ASSUME f # "esp_wifi_restore"
      PROVE  Told(f, ifx, v) = Tell(Concerns(f, ifx), Aim(f, v))
    <2>1. CASE f \in {"esp_wifi_set_mode", "esp_wifi_set_country", "esp_wifi_set_config"}
        BY <2>1 DEF Told, Concerns, Aim, Starting, Stopping, Silence,
            esp_wifi_set_mode, esp_wifi_set_country, esp_wifi_set_config
    <2>2. CASE f \in {"esp_smartconfig_start", "esp_smartconfig_stop",
                      "esp_wifi_wps_enable", "esp_wifi_wps_disable"}
        BY <2>2 DEF Told, Concerns, Aim, Starting, Stopping,
            esp_smartconfig_start, esp_smartconfig_stop, esp_wifi_wps_enable,
            esp_wifi_wps_disable
    <2>3. CASE f = "tcpip_adapter_set_ip_info"
        BY <2>3 DEF Told, Concerns, Aim, Starting, Stopping,
            tcpip_adapter_set_ip_info
    <2>4. CASE f \in {"tcpip_adapter_dhcps_start", "tcpip_adapter_dhcps_stop"}
        BY <2>4 DEF Told, Concerns, Aim, Starting, Stopping, Tell,
            tcpip_adapter_dhcps_start, tcpip_adapter_dhcps_stop,
            esp_dhcp_configure
    <2>5. CASE f \in {"tcpip_adapter_dhcpc_start", "tcpip_adapter_dhcpc_stop"}
        BY <2>5 DEF Told, Concerns, Aim, Starting, Stopping, Tell,
            tcpip_adapter_dhcpc_start, tcpip_adapter_dhcpc_stop,
            esp_dhcp_configure
    <2> QED
        BY <1>4, <2>1, <2>2, <2>3, <2>4, <2>5 DEF Told
<1> QED
    BY <1>1, <1>2, <1>3, <1>4

-----------------------------------------------------------------------------
(* Type correctness.                                                       *)

\* Where a task is tells which call it is in, and the other way round.
LEMMA CallOf ==
    ASSUME TypeInv, NEW t \in Tasks
    PROVE  /\ call[t] = "none" <=> pc[t] = "idle"
           /\ pc[t] = "tell" => call[t] \in {"setting", "restore", "setserver"}
           /\ call[t] \in {"setting", "restore"} => pc[t] = "tell"
           /\ pc[t] = "dns_get" => call[t] = "setserver"
           /\ call[t] = "setserver" => pc[t] \in {"dns_get", "tell"}
           /\ call[t] = "ntp" <=> pc[t] \in {"ntp_conf", "ntp_get", "ntp_clock"}
           /\ call[t] = "host" <=> pc[t] \in {"lookup", "answer", "use"}
           /\ pc[t] \in {"free", "malloc", "copy", "publish"} => call[t] = "hostname"
           /\ pc[t] \in {"configure", "fault"} => call[t] \in {"hostname", "service"}
           /\ call[t] = "hostname" =>
                pc[t] \in {"free", "malloc", "copy", "publish", "configure", "fault"}
           /\ call[t] = "service" => pc[t] \in {"configure", "fault"}
<1>1. pc[t] \in PcsOf(call[t]) /\ call[t] \in {"none", "setting", "restore", "setserver",
        "ntp", "host", "hostname", "service"}
    BY DEF TypeInv, TypeOK, PcInv
<1> QED
    BY <1>1 DEF PcsOf

\* What a call tells the chip has a type that the settings can take.
LEMMA TellsType ==
    ASSUME ChipTypeOK, NEW t \in Tasks
    PROVE  \A r \in DOMAIN tells[t] : tells[t][r] \in Contents
BY DEF ChipTypeOK

\* A call that returns leaves well-typed locals behind.
LEMMA ReturnType ==
    ASSUME ChipTypeOK, NEW t \in Tasks, ChipReturn(t)
    PROVE  /\ wish' \in [Tasks -> Aims \X (Contents \cup {"nothing"})]
           /\ DOMAIN tells' = Tasks
           /\ \A u \in Tasks : \E R \in SUBSET Settings : tells'[u] \in [R -> Contents]
           /\ time' \in [Tasks -> Contents \cup {"unset"}]
<1>1. Silence \in [{} -> Contents] /\ {} \in SUBSET Settings
    BY DEF Silence
<1>2. NoWish \in Aims \X (Contents \cup {"nothing"})
    BY DEF NoWish, Aims, Settings
<1>3. \A u \in Tasks : tells'[u] = tells[u] \/ tells'[u] = Silence
    BY DEF ChipReturn, ChipTypeOK
<1> QED
    BY <1>1, <1>2, <1>3 DEF ChipReturn, ChipTypeOK

\* ntp_conf_time sets the zone and goes on, or fails and returns.
LEMMA NtpOutcomes ==
    ASSUME NEW t \in Tasks, NtpConfigure(t)
    PROVE  \/ /\ regs' = [regs EXCEPT !["zone"] = wish[t][2]]
              /\ Goto(t, "ntp_get")
              /\ UNCHANGED <<call, wish, tells, time>>
           \/ UNCHANGED regs /\ ChipReturn(t)
<1>1. PICK ok \in {TRUE, "command" \notin MayFail} :
        /\ regs' = IF ok THEN [regs EXCEPT !["zone"] = wish[t][2]] ELSE regs
        /\ IF ok THEN Goto(t, "ntp_get") /\ UNCHANGED <<call, wish, tells, time>>
                 ELSE ChipReturn(t)
    BY Zenon DEF NtpConfigure, IfOk
<1>2. CASE ok
    BY <1>1, <1>2
<1>3. CASE ~ok
    BY <1>1, <1>3
<1> QED
    BY <1>2, <1>3

LEMMA ChipTypeStep ==
    ASSUME TypeInv, NEW t \in Tasks, ChipStart(t) \/ ChipWork(t)
    PROVE  ChipTypeOK'
<1>1. ChipTypeOK /\ LocalsInv /\ PcInv
    BY DEF TypeInv, TypeOK
<1>2. CASE SettingCall(t)
    <2>1. PICK f \in Functions \ {"dns_setserver", "ntp_conf_time"},
               ifx \in Interfaces, v \in Values :
                /\ Told(f, ifx, v) # Silence
                /\ wish' = [wish EXCEPT ![t] = <<Concerns(f, ifx), Aim(f, v)>>]
                /\ tells' = [tells EXCEPT ![t] = Told(f, ifx, v)]
        BY <1>2 DEF SettingCall
    <2>2. Concerns(f, ifx) \in Aims /\ Aim(f, v) \in Contents
        BY <2>1, OneSetting DEF Aims
    <2>3. \/ Told(f, ifx, v) = esp_wifi_restore
          \/ /\ Concerns(f, ifx) \in Settings
             /\ Told(f, ifx, v) = Tell(Concerns(f, ifx), Aim(f, v))
        BY <2>1, OneSetting
    <2>4. \E R \in SUBSET Settings : Told(f, ifx, v) \in [R -> Contents]
        <3>1. esp_wifi_restore \in [Settings -> Contents]
            BY Values3 DEF esp_wifi_restore
        <3>2. Tell(Concerns(f, ifx), Aim(f, v)) \in [{Concerns(f, ifx)} -> Contents]
            BY <2>2 DEF Tell
        <3>3. Settings \in SUBSET Settings
            OBVIOUS
        <3>4. Concerns(f, ifx) \in Settings => {Concerns(f, ifx)} \in SUBSET Settings
            OBVIOUS
        <3> QED
            BY <2>3, <3>1, <3>2, <3>3, <3>4
    <2>5. \A u \in Tasks : \E R \in SUBSET Settings : tells'[u] \in [R -> Contents]
        BY <1>1, <2>1, <2>4 DEF ChipTypeOK
    <2>6. wish' \in [Tasks -> Aims \X (Contents \cup {"nothing"})]
        BY <1>1, <2>1, <2>2 DEF ChipTypeOK
    <2> QED
        BY <1>1, <1>2, <2>5, <2>6 DEF ChipTypeOK, SettingCall
<1>3. CASE DnsSetServer(t)
    <2>1. \A r \in Servers, v \in Values : <<r, v>> \in Aims \X (Contents \cup {"nothing"})
        BY Values3 DEF Servers, Aims, Settings
    <2>2. wish' \in [Tasks -> Aims \X (Contents \cup {"nothing"})]
        BY <1>1, <1>3, <2>1 DEF DnsSetServer, ChipTypeOK
    <2> QED
        BY <1>1, <1>3, <2>2 DEF DnsSetServer, ChipTypeOK
<1>4. CASE NtpConfTime(t)
    <2>1. \A v \in Values : <<"zone", v>> \in Aims \X (Contents \cup {"nothing"})
        BY Values3 DEF Aims, Settings
    <2>2. wish' \in [Tasks -> Aims \X (Contents \cup {"nothing"})]
        BY <1>1, <1>4, <2>1 DEF NtpConfTime, ChipTypeOK
    <2> QED
        BY <1>1, <1>4, <2>2 DEF NtpConfTime, ChipTypeOK
<1>5. CASE Execute(t)
    <2>1. regs' \in [Settings -> Contents]
        BY <1>1, <1>5, TellsType DEF Execute, ChipTypeOK
    <2> QED
        BY <1>1, <1>5, <2>1, ReturnType DEF Execute, ChipTypeOK
<1>6. CASE ExecuteFails(t)
    BY <1>1, <1>6, ReturnType DEF ExecuteFails, ChipTypeOK
<1>7. CASE DnsGetServer(t)
    <2>1. wish[t] \in Servers \X Values
        BY <1>1, <1>7 DEF DnsGetServer, LocalsInv
    <2>2. PICK ip \in {regs[Other(wish[t][1])]} \cup {Zero} :
            tells' = [tells EXCEPT ![t] =
                [s \in Servers |-> IF s = wish[t][1] THEN wish[t][2] ELSE ip]]
        BY <1>7 DEF DnsGetServer
    <2>3. Other(wish[t][1]) \in Settings
        BY DEF Other, Settings, Servers
    <2>4. ip \in Contents /\ wish[t][2] \in Contents
        BY <1>1, <2>1, <2>2, <2>3, Values3 DEF ChipTypeOK
    <2>5. [s \in Servers |-> IF s = wish[t][1] THEN wish[t][2] ELSE ip] \in [Servers -> Contents]
        BY <2>4
    <2>6. Servers \in SUBSET Settings
        BY DEF Settings
    <2>7. \A u \in Tasks : \E R \in SUBSET Settings : tells'[u] \in [R -> Contents]
        BY <1>1, <2>2, <2>5, <2>6 DEF ChipTypeOK
    <2> QED
        BY <1>1, <1>7, <2>7 DEF DnsGetServer, ChipTypeOK
<1>8. CASE NtpConfigure(t)
    <2>1. wish[t] \in {"zone"} \X Values
        BY <1>1, <1>8, CallOf DEF NtpConfigure, LocalsInv
    <2>2. regs' \in [Settings -> Contents]
        BY <1>1, <1>8, <2>1, NtpOutcomes, Values3 DEF ChipTypeOK
    <2>3. ChipReturn(t) \/ UNCHANGED <<wish, tells, time>>
        BY <1>8, NtpOutcomes
    <2> QED
        BY <1>1, <1>8, <2>2, <2>3, ReturnType DEF NtpConfigure, ChipTypeOK
<1>9. CASE NtpGetTime(t)
    <2>1. ChipReturn(t) \/ (UNCHANGED <<wish, tells>> /\ time' = [time EXCEPT ![t] = regs["zone"]])
        BY <1>9 DEF NtpGetTime
    <2>2. regs["zone"] \in Contents
        BY <1>1 DEF ChipTypeOK, Settings
    <2> QED
        BY <1>1, <1>9, <2>1, <2>2, ReturnType DEF NtpGetTime, ChipTypeOK
<1>10. CASE SetTimeOfDay(t)
    BY <1>1, <1>10, ReturnType DEF SetTimeOfDay, ChipTypeOK
<1> QED
    BY <1>2, <1>3, <1>4, <1>5, <1>6, <1>7, <1>8, <1>9, <1>10 DEF ChipStart,
        ChipWork

\* Calls that use names leave the chip and its calls alone.
LEMMA ChipUntouched ==
    ASSUME NEW t \in Tasks, NameStart(t) \/ NameWork(t)
    PROVE  UNCHANGED chipVars
BY DEF NameStart, NameWork, GetHostByName, HostnameSet, ServiceAdd, LookupHost,
    Answer, UseAnswer, Free, Malloc, MallocFails, CopyName, Publish, Configure

\* The types of what ChipSettings leaves to this module.
NamesType ==
    /\ h \in Hosts \cup {"none"}
    /\ asked \in [Tasks -> Hosts \cup {"none"}]
    /\ addr \in [Tasks -> Hosts \cup {"none"}]
    /\ new \in [Tasks -> Hosts \cup {"none"}]
    /\ mdns_hostname \in Blocks \cup {Null}
    /\ allocated \in SUBSET Blocks
    /\ text \in [Blocks -> Hosts \cup {"none"}]
    /\ name \in [Tasks -> Blocks \cup {Null}]
    /\ set \in Hosts \cup {"none"}
    /\ lost \in BOOLEAN

CallKinds == {"none", "setting", "restore", "setserver", "ntp", "host",
              "hostname", "service"}

CallsType == pc \in [Tasks -> Pcs] /\ call \in [Tasks -> CallKinds]

LEMMA TypeParts ==
    TypeOK <=> /\ ChipTypeOK /\ CallsType /\ NamesType
               /\ \A t \in Tasks : pc[t] = "use" => h \in Hosts
BY DEF TypeOK, CallsType, NamesType, CallKinds

LEMMA NamesTypeStep ==
    ASSUME TypeInv, NEW t \in Tasks, NameStart(t) \/ NameWork(t)
    PROVE  NamesType'
<1>0. NamesType
    BY TypeParts DEF TypeInv
<1>1. CASE GetHostByName(t)
    BY <1>0, <1>1 DEF NamesType, GetHostByName, host, mdns
<1>2. CASE HostnameSet(t)
    BY <1>0, <1>2 DEF NamesType, HostnameSet, host
<1>3. CASE ServiceAdd(t)
    BY <1>0, <1>3 DEF NamesType, ServiceAdd, host, Hostname
<1>4. CASE LookupHost(t)
    BY <1>0, <1>4 DEF NamesType, LookupHost, mdns
<1>5. CASE Answer(t)
    BY <1>0, <1>5 DEF NamesType, Answer, mdns, NewAnswer
<1>6. CASE UseAnswer(t)
    BY <1>0, <1>6 DEF NamesType, UseAnswer, mdns
<1>7. CASE Free(t)
    BY <1>0, <1>7 DEF NamesType, Free, host, Freed
<1>8. CASE Malloc(t)
    BY <1>0, <1>8 DEF NamesType, Malloc, host
<1>9. CASE MallocFails(t)
    BY <1>0, <1>9 DEF NamesType, MallocFails, host
<1>10. CASE CopyName(t)
    BY <1>0, <1>10 DEF NamesType, CopyName, host
<1>11. CASE Publish(t)
    BY <1>0, <1>11 DEF NamesType, Publish, host, NewName
<1>12. CASE Configure(t)
    BY <1>0, <1>12 DEF NamesType, Configure, host
<1> QED
    BY <1>1, <1>2, <1>3, <1>4, <1>5, <1>6, <1>7, <1>8, <1>9, <1>10, <1>11, <1>12
        DEF NameStart, NameWork

\* A step moves one task only, and takes it from one place of a call to
\* another of the same call, into a call or out of it.
LEMMA CallsStep ==
    ASSUME TypeInv, NEW t \in Tasks,
           ChipStart(t) \/ ChipWork(t) \/ NameStart(t) \/ NameWork(t)
    PROVE  /\ CallsType'
           /\ pc'[t] \in PcsOf(call'[t])
           /\ \A u \in Tasks \ {t} : pc'[u] = pc[u] /\ call'[u] = call[u]
<1>0. CallsType /\ pc[t] \in PcsOf(call[t])
    BY TypeParts DEF TypeInv, PcInv
<1>1. CASE SettingCall(t)
    BY <1>0, <1>1, CallOf DEF SettingCall, CallsType, CallKinds, Pcs, PcsOf,
        Goto, Begin, MayStart
<1>2. CASE DnsSetServer(t)
    BY <1>0, <1>2, CallOf DEF DnsSetServer, CallsType, CallKinds, Pcs, PcsOf,
        Goto, Begin, MayStart
<1>3. CASE NtpConfTime(t)
    BY <1>0, <1>3, CallOf DEF NtpConfTime, CallsType, CallKinds, Pcs, PcsOf,
        Goto, Begin, MayStart
<1>4. CASE Execute(t)
    BY <1>0, <1>4, CallOf DEF Execute, CallsType, CallKinds, Pcs, PcsOf, Goto,
        ChipReturn
<1>5. CASE ExecuteFails(t)
    BY <1>0, <1>5, CallOf DEF ExecuteFails, CallsType, CallKinds, Pcs, PcsOf,
        Goto, ChipReturn
<1>6. CASE DnsGetServer(t)
    BY <1>0, <1>6, CallOf DEF DnsGetServer, CallsType, CallKinds, Pcs, PcsOf,
        Goto
<1>7. CASE NtpConfigure(t)
    BY <1>0, <1>7, NtpOutcomes, CallOf DEF NtpConfigure, CallsType, CallKinds,
        Pcs, PcsOf, Goto, ChipReturn
<1>8. CASE NtpGetTime(t)
    BY <1>0, <1>8, CallOf DEF NtpGetTime, CallsType, CallKinds, Pcs, PcsOf,
        Goto, ChipReturn
<1>9. CASE SetTimeOfDay(t)
    BY <1>0, <1>9, CallOf DEF SetTimeOfDay, CallsType, CallKinds, Pcs, PcsOf,
        Goto, ChipReturn
<1>10. CASE GetHostByName(t)
    BY <1>0, <1>10, CallOf DEF GetHostByName, CallsType, CallKinds, Pcs, PcsOf,
        Goto, Begin, MayStart
<1>11. CASE HostnameSet(t)
    BY <1>0, <1>11, CallOf DEF HostnameSet, CallsType, CallKinds, Pcs, PcsOf,
        Goto, Begin, MayStart
<1>12. CASE ServiceAdd(t)
    BY <1>0, <1>12, CallOf DEF ServiceAdd, CallsType, CallKinds, Pcs, PcsOf,
        Goto, Begin, MayStart
<1>13. CASE LookupHost(t)
    BY <1>0, <1>13, CallOf DEF LookupHost, CallsType, CallKinds, Pcs, PcsOf,
        Goto, End
<1>14. CASE Answer(t)
    BY <1>0, <1>14, CallOf DEF Answer, CallsType, CallKinds, Pcs, PcsOf, Goto
<1>15. CASE UseAnswer(t)
    BY <1>0, <1>15, CallOf DEF UseAnswer, CallsType, CallKinds, Pcs, PcsOf,
        Goto, End
<1>16. CASE Free(t)
    BY <1>0, <1>16, CallOf DEF Free, CallsType, CallKinds, Pcs, PcsOf, Goto
<1>17. CASE Malloc(t)
    BY <1>0, <1>17, CallOf DEF Malloc, CallsType, CallKinds, Pcs, PcsOf, Goto
<1>18. CASE MallocFails(t)
    BY <1>0, <1>18, CallOf DEF MallocFails, CallsType, CallKinds, Pcs, PcsOf,
        Goto, End
<1>19. CASE CopyName(t)
    BY <1>0, <1>19, CallOf DEF CopyName, CallsType, CallKinds, Pcs, PcsOf, Goto
<1>20. CASE Publish(t)
    BY <1>0, <1>20, CallOf DEF Publish, CallsType, CallKinds, Pcs, PcsOf, Goto
<1>21. CASE Configure(t)
    BY <1>0, <1>21, CallOf DEF Configure, CallsType, CallKinds, Pcs, PcsOf,
        Goto, End
<1> QED
    BY <1>1, <1>2, <1>3, <1>4, <1>5, <1>6, <1>7, <1>8, <1>9, <1>10, <1>11,
        <1>12, <1>13, <1>14, <1>15, <1>16, <1>17, <1>18, <1>19, <1>20, <1>21
        DEF ChipStart, ChipWork, NameStart, NameWork

\* A call that begins is one that its task may start.
LEMMA Begins ==
    ASSUME TypeInv, NEW t \in Tasks,
           ChipStart(t) \/ ChipWork(t) \/ NameStart(t) \/ NameWork(t)
    PROVE  \/ call'[t] = call[t] \/ call'[t] = "none"
           \/ /\ MayStart(t, call'[t])
              /\ call'[t] = "hostname" /\ "hostname" \in Apart => ~InProgress("service")
              /\ call'[t] = "service" /\ "hostname" \in Apart => ~InProgress("hostname")
<1>0. CallsType
    BY TypeParts DEF TypeInv
<1>1. CASE SettingCall(t)
    BY <1>0, <1>1 DEF SettingCall, CallsType, Goto, Begin
<1>2. CASE DnsSetServer(t)
    BY <1>0, <1>2 DEF DnsSetServer, CallsType, Goto, Begin
<1>3. CASE NtpConfTime(t)
    BY <1>0, <1>3 DEF NtpConfTime, CallsType, Goto, Begin
<1>4. CASE Execute(t)
    BY <1>0, <1>4 DEF Execute, CallsType, Goto, ChipReturn
<1>5. CASE ExecuteFails(t)
    BY <1>0, <1>5 DEF ExecuteFails, CallsType, Goto, ChipReturn
<1>6. CASE DnsGetServer(t)
    BY <1>0, <1>6 DEF DnsGetServer, CallsType, Goto
<1>7. CASE NtpConfigure(t)
    BY <1>0, <1>7, NtpOutcomes DEF CallsType, Goto, ChipReturn
<1>8. CASE NtpGetTime(t)
    BY <1>0, <1>8 DEF NtpGetTime, CallsType, Goto, ChipReturn
<1>9. CASE SetTimeOfDay(t)
    BY <1>0, <1>9 DEF SetTimeOfDay, CallsType, Goto, ChipReturn
<1>10. CASE GetHostByName(t)
    BY <1>0, <1>10 DEF GetHostByName, CallsType, Goto, Begin
<1>11. CASE HostnameSet(t)
    BY <1>0, <1>11 DEF HostnameSet, CallsType, Goto, Begin
<1>12. CASE ServiceAdd(t)
    BY <1>0, <1>12 DEF ServiceAdd, CallsType, Goto, Begin
<1>13. CASE LookupHost(t)
    BY <1>0, <1>13 DEF LookupHost, CallsType, Goto, End
<1>14. CASE Answer(t)
    BY <1>0, <1>14 DEF Answer, CallsType, Goto
<1>15. CASE UseAnswer(t)
    BY <1>0, <1>15 DEF UseAnswer, CallsType, Goto, End
<1>16. CASE Free(t)
    BY <1>0, <1>16 DEF Free, CallsType, Goto
<1>17. CASE Malloc(t)
    BY <1>0, <1>17 DEF Malloc, CallsType, Goto
<1>18. CASE MallocFails(t)
    BY <1>0, <1>18 DEF MallocFails, CallsType, Goto, End
<1>19. CASE CopyName(t)
    BY <1>0, <1>19 DEF CopyName, CallsType, Goto
<1>20. CASE Publish(t)
    BY <1>0, <1>20 DEF Publish, CallsType, Goto
<1>21. CASE Configure(t)
    BY <1>0, <1>21 DEF Configure, CallsType, Goto, End
<1> QED
    BY <1>1, <1>2, <1>3, <1>4, <1>5, <1>6, <1>7, <1>8, <1>9, <1>10, <1>11,
        <1>12, <1>13, <1>14, <1>15, <1>16, <1>17, <1>18, <1>19, <1>20, <1>21
        DEF ChipStart, ChipWork, NameStart, NameWork

LEMMA ApartStep ==
    ASSUME TypeInv, ApartInv, NEW t \in Tasks,
           ChipStart(t) \/ ChipWork(t) \/ NameStart(t) \/ NameWork(t)
    PROVE  ApartInv'
<1>1. \A u \in Tasks \ {t} : call'[u] = call[u] /\ pc'[u] = pc[u]
    BY CallsStep
<1>2. CASE call'[t] = call[t] \/ call'[t] = "none"
    BY <1>1, <1>2 DEF ApartInv
<1>3. CASE /\ MayStart(t, call'[t])
           /\ call'[t] = "hostname" /\ "hostname" \in Apart => ~InProgress("service")
           /\ call'[t] = "service" /\ "hostname" \in Apart => ~InProgress("hostname")
    <2>1. call'[t] \in Apart => \A u \in Tasks \ {t} : call[u] # call'[t]
        BY <1>3 DEF MayStart, InProgress
    <2>2. "restore" \in Apart => \A u \in Tasks \ {t} : call[u] # "restore"
        BY <1>3 DEF MayStart, InProgress
    <2>3. "restore" \in Apart /\ call'[t] = "restore" => \A u \in Tasks : pc[u] = "idle"
        BY <1>3 DEF MayStart
    <2>4. \A u \in Tasks : pc[u] = "idle" => call[u] = "none"
        BY CallOf
    <2>5. "hostname" \in Apart /\ call'[t] = "hostname" => \A u \in Tasks : call[u] # "service"
        BY <1>3 DEF InProgress
    <2>6. "hostname" \in Apart /\ call'[t] = "service" => \A u \in Tasks : call[u] # "hostname"
        BY <1>3 DEF InProgress
    <2> QED
        BY <1>1, <2>1, <2>2, <2>3, <2>4, <2>5, <2>6 DEF ApartInv
<1> QED
    BY <1>2, <1>3, Begins


LEMMA LocalsStep ==
    ASSUME TypeInv, NEW t \in Tasks,
           ((ChipStart(t) \/ ChipWork(t)) /\ UNCHANGED <<host, mdns>>)
               \/ NameStart(t) \/ NameWork(t)
    PROVE  LocalsInv'
<1>0. LocalsInv /\ ChipTypeOK /\ CallsType /\ NamesType
    BY TypeParts DEF TypeInv
<1>1. CASE SettingCall(t) /\ UNCHANGED host
    BY <1>0, <1>1, CallOf, NoHostIs DEF LocalsInv, SettingCall, MayStart,
        ChipTypeOK, CallsType, NamesType, Goto, Begin, host
<1>2. CASE DnsSetServer(t) /\ UNCHANGED host
    BY <1>0, <1>2, CallOf, NoHostIs DEF LocalsInv, DnsSetServer, MayStart,
        ChipTypeOK, CallsType, NamesType, Goto, Begin, host
<1>3. CASE NtpConfTime(t) /\ UNCHANGED host
    BY <1>0, <1>3, CallOf, NoHostIs DEF LocalsInv, NtpConfTime, MayStart,
        ChipTypeOK, CallsType, NamesType, Goto, Begin, host
<1>4. CASE Execute(t) /\ UNCHANGED host
    BY <1>0, <1>4, CallOf, NoHostIs DEF LocalsInv, Execute, ChipTypeOK,
        CallsType, NamesType, Goto, ChipReturn, host
<1>5. CASE ExecuteFails(t) /\ UNCHANGED host
    BY <1>0, <1>5, CallOf, NoHostIs DEF LocalsInv, ExecuteFails, ChipTypeOK,
        CallsType, NamesType, Goto, ChipReturn, host
<1>6. CASE DnsGetServer(t) /\ UNCHANGED host
    BY <1>0, <1>6, CallOf, NoHostIs DEF LocalsInv, DnsGetServer, ChipTypeOK,
        CallsType, NamesType, Goto, host
<1>7. CASE NtpConfigure(t) /\ UNCHANGED host
    BY <1>0, <1>7, CallOf, NoHostIs, NtpOutcomes DEF LocalsInv, NtpConfigure,
        ChipTypeOK, CallsType, NamesType, Goto, ChipReturn, host
<1>8. CASE NtpGetTime(t) /\ UNCHANGED host
    BY <1>0, <1>8, CallOf, NoHostIs DEF LocalsInv, NtpGetTime, ChipTypeOK,
        CallsType, NamesType, Goto, ChipReturn, host
<1>9. CASE SetTimeOfDay(t) /\ UNCHANGED host
    BY <1>0, <1>9, CallOf, NoHostIs DEF LocalsInv, SetTimeOfDay, ChipTypeOK,
        CallsType, NamesType, Goto, ChipReturn, host
<1>10. CASE GetHostByName(t)
    BY <1>0, <1>10, CallOf, NoHostIs DEF LocalsInv, GetHostByName, MayStart,
        ChipTypeOK, CallsType, NamesType, Goto, Begin, chipVars, host
<1>11. CASE HostnameSet(t)
    BY <1>0, <1>11, CallOf, NoHostIs DEF LocalsInv, HostnameSet, MayStart,
        ChipTypeOK, CallsType, NamesType, Goto, Begin, chipVars, host
<1>12. CASE ServiceAdd(t)
    BY <1>0, <1>12, CallOf, NoHostIs DEF LocalsInv, ServiceAdd, MayStart,
        ChipTypeOK, CallsType, NamesType, Goto, Begin, chipVars, host
<1>13. CASE LookupHost(t)
    BY <1>0, <1>13, CallOf, NoHostIs DEF LocalsInv, LookupHost, ChipTypeOK,
        CallsType, NamesType, Goto, End, chipVars, host
<1>14. CASE Answer(t)
    BY <1>0, <1>14, CallOf, NoHostIs DEF LocalsInv, Answer, ChipTypeOK,
        CallsType, NamesType, Goto, chipVars, host, NewAnswer
<1>15. CASE UseAnswer(t)
    BY <1>0, <1>15, CallOf, NoHostIs DEF LocalsInv, UseAnswer, ChipTypeOK,
        CallsType, NamesType, Goto, End, chipVars, host
<1>16. CASE Free(t)
    BY <1>0, <1>16, CallOf, NoHostIs DEF LocalsInv, Free, ChipTypeOK, CallsType,
        NamesType, Goto, chipVars, host
<1>17. CASE Malloc(t)
    BY <1>0, <1>17, CallOf, NoHostIs DEF LocalsInv, Malloc, ChipTypeOK,
        CallsType, NamesType, Goto, chipVars, host
<1>18. CASE MallocFails(t)
    BY <1>0, <1>18, CallOf, NoHostIs DEF LocalsInv, MallocFails, ChipTypeOK,
        CallsType, NamesType, Goto, End, chipVars, host
<1>19. CASE CopyName(t)
    BY <1>0, <1>19, CallOf, NoHostIs DEF LocalsInv, CopyName, ChipTypeOK,
        CallsType, NamesType, Goto, chipVars, host
<1>20. CASE Publish(t)
    BY <1>0, <1>20, CallOf, NoHostIs DEF LocalsInv, Publish, ChipTypeOK,
        CallsType, NamesType, Goto, chipVars, host
<1>21. CASE Configure(t)
    BY <1>0, <1>21, CallOf, NoHostIs DEF LocalsInv, Configure, ChipTypeOK,
        CallsType, NamesType, Goto, End, chipVars, host
<1> QED
    BY <1>1, <1>2, <1>3, <1>4, <1>5, <1>6, <1>7, <1>8, <1>9, <1>10, <1>11,
        <1>12, <1>13, <1>14, <1>15, <1>16, <1>17, <1>18, <1>19, <1>20, <1>21
        DEF ChipStart, ChipWork, NameStart, NameWork

\* A step of task t.
Step(t) ==
    \/ (ChipStart(t) \/ ChipWork(t)) /\ UNCHANGED <<host, mdns>>
    \/ NameStart(t)
    \/ NameWork(t)

LEMMA NextIsStep ==
    ASSUME Next
    PROVE  \E t \in Tasks : Step(t)
BY DEF Next, Step, ChipStep

\* Only Answer makes a caller read the static answer, and it fills it first.
LEMMA UseStep ==
    ASSUME TypeInv, NEW t \in Tasks, Step(t)
    PROVE  \A u \in Tasks : pc'[u] = "use" => h' \in Hosts
<1>0. CallsType /\ LocalsInv /\ \A u \in Tasks : pc[u] = "use" => h \in Hosts
    BY TypeParts DEF TypeInv
<1>1. CASE Answer(t)
    BY <1>0, <1>1 DEF Answer, NewAnswer, LocalsInv
<1>2. CASE h' = h /\ pc'[t] # "use"
    <2>1. \A u \in Tasks \ {t} : pc'[u] = pc[u]
        BY CallsStep DEF Step
    <2> QED
        BY <1>0, <1>2, <2>1
<1>3. ASSUME ~Answer(t)
      PROVE  h' = h /\ pc'[t] # "use"
    <2>1. CASE SettingCall(t) /\ UNCHANGED host
        BY <1>0, <2>1 DEF SettingCall, host, CallsType, Goto, Begin
    <2>2. CASE DnsSetServer(t) /\ UNCHANGED host
        BY <1>0, <2>2 DEF DnsSetServer, host, CallsType, Goto, Begin
    <2>3. CASE NtpConfTime(t) /\ UNCHANGED host
        BY <1>0, <2>3 DEF NtpConfTime, host, CallsType, Goto, Begin
    <2>4. CASE Execute(t) /\ UNCHANGED host
        BY <1>0, <2>4 DEF Execute, host, CallsType, Goto, ChipReturn
    <2>5. CASE ExecuteFails(t) /\ UNCHANGED host
        BY <1>0, <2>5 DEF ExecuteFails, host, CallsType, Goto, ChipReturn
    <2>6. CASE DnsGetServer(t) /\ UNCHANGED host
        BY <1>0, <2>6 DEF DnsGetServer, host, CallsType, Goto
    <2>7. CASE NtpConfigure(t) /\ UNCHANGED host
        BY <1>0, <2>7, NtpOutcomes DEF NtpConfigure, host, CallsType, Goto,
            ChipReturn
    <2>8. CASE NtpGetTime(t) /\ UNCHANGED host
        BY <1>0, <2>8 DEF NtpGetTime, host, CallsType, Goto, ChipReturn
    <2>9. CASE SetTimeOfDay(t) /\ UNCHANGED host
        BY <1>0, <2>9 DEF SetTimeOfDay, host, CallsType, Goto, ChipReturn
    <2>10. CASE GetHostByName(t)
        BY <1>0, <2>10 DEF GetHostByName, host, CallsType, Goto, Begin
    <2>11. CASE HostnameSet(t)
        BY <1>0, <2>11 DEF HostnameSet, host, CallsType, Goto, Begin
    <2>12. CASE ServiceAdd(t)
        BY <1>0, <2>12 DEF ServiceAdd, host, CallsType, Goto, Begin
    <2>13. CASE LookupHost(t)
        BY <1>0, <2>13 DEF LookupHost, CallsType, Goto, End
    <2>14. CASE UseAnswer(t)
        BY <1>0, <2>14 DEF UseAnswer, CallsType, Goto, End
    <2>15. CASE Free(t)
        BY <1>0, <2>15 DEF Free, host, CallsType, Goto
    <2>16. CASE Malloc(t)
        BY <1>0, <2>16 DEF Malloc, host, CallsType, Goto
    <2>17. CASE MallocFails(t)
        BY <1>0, <2>17 DEF MallocFails, host, CallsType, Goto, End
    <2>18. CASE CopyName(t)
        BY <1>0, <2>18 DEF CopyName, host, CallsType, Goto
    <2>19. CASE Publish(t)
        BY <1>0, <2>19 DEF Publish, host, CallsType, Goto
    <2>20. CASE Configure(t)
        BY <1>0, <2>20 DEF Configure, host, CallsType, Goto, End
    <2> QED
        BY <1>3, <2>1, <2>2, <2>3, <2>4, <2>5, <2>6, <2>7, <2>8, <2>9, <2>10,
            <2>11, <2>12, <2>13, <2>14, <2>15, <2>16, <2>17, <2>18, <2>19, <2>20
            DEF Step, ChipStart, ChipWork, NameStart, NameWork
<1> QED
    BY <1>1, <1>2, <1>3

LEMMA TypeStep ==
    ASSUME TypeInv, NEW t \in Tasks, Step(t)
    PROVE  TypeInv'
<1>1. ChipTypeOK'
    <2>1. CASE ChipStart(t) \/ ChipWork(t)
        BY <2>1, ChipTypeStep
    <2>2. CASE NameStart(t) \/ NameWork(t)
        BY <2>2, ChipUntouched, TypeParts DEF TypeInv, ChipTypeOK, chipVars
    <2> QED
        BY <2>1, <2>2 DEF Step
<1>2. NamesType'
    <2>1. CASE UNCHANGED <<host, mdns>>
        BY <2>1, TypeParts DEF TypeInv, NamesType, host, mdns
    <2>2. CASE NameStart(t) \/ NameWork(t)
        BY <2>2, NamesTypeStep
    <2> QED
        BY <2>1, <2>2 DEF Step
<1>3. CallsType' /\ PcInv'
    BY CallsStep DEF Step, TypeInv, PcInv
<1>4. LocalsInv'
    BY LocalsStep DEF Step
<1>5. TypeOK'
    BY <1>1, <1>2, <1>3, UseStep, TypeParts DEF ChipTypeOK, CallsType,
        NamesType, CallKinds, TypeOK
<1> QED
    BY <1>3, <1>4, <1>5 DEF TypeInv

LEMMA InitCalls == Init => TypeInv /\ ApartInv
<1> SUFFICES ASSUME Init PROVE TypeInv /\ ApartInv
    OBVIOUS
<1>1. ChipTypeOK
    <2>1. Silence \in [{} -> Contents] /\ {} \in SUBSET Settings
        BY DEF Silence
    <2>2. \A t \in Tasks : tells[t] = Silence
        BY DEF Init, ChipInit
    <2>3. NoWish \in Aims \X (Contents \cup {"nothing"})
        BY DEF NoWish, Aims, Settings
    <2> QED
        BY <2>1, <2>2, <2>3, Values3 DEF Init, ChipInit, ChipTypeOK
<1>2. TypeOK
    BY <1>1 DEF Init, TypeOK, Pcs
<1>3. PcInv /\ LocalsInv
    BY DEF Init, PcInv, PcsOf, LocalsInv
<1>4. ApartInv
    BY DEF Init, ApartInv
<1> QED
    BY <1>2, <1>3, <1>4 DEF TypeInv

LEMMA CallsStutter ==
    ASSUME TypeInv, ApartInv, UNCHANGED vars
    PROVE  TypeInv' /\ ApartInv'
BY DEF vars, chipVars, host, mdns, TypeInv, TypeOK, ChipTypeOK, PcInv,
    LocalsInv, ApartInv

LEMMA CallsAlways == Spec => [](TypeInv /\ ApartInv)
<1>1. TypeInv /\ ApartInv /\ [Next]_vars => TypeInv' /\ ApartInv'
    BY NextIsStep, TypeStep, ApartStep, CallsStutter DEF Step
<1> QED
    BY InitCalls, <1>1, PTL DEF Spec

\* The type invariant of Names, with that of ChipSettings, whatever callers
\* keep apart and whichever commands fail.
THEOREM TypesAlways == Spec => []TypeOK
<1>1. TypeInv => TypeOK
    BY DEF TypeInv
<1> QED
    BY CallsAlways, <1>1, PTL

-----------------------------------------------------------------------------
(* The chip's settings.                                                    *)

\* What other calls have for the chip does not change.
LEMMA OthersKeep ==
    ASSUME TypeInv, NEW t \in Tasks, Step(t), NEW u \in Tasks, u # t
    PROVE  /\ wish'[u] = wish[u] /\ tells'[u] = tells[u] /\ time'[u] = time[u]
           /\ pc'[u] = pc[u] /\ call'[u] = call[u]
<1>1. ASSUME ChipStart(t) \/ ChipWork(t)
      PROVE  wish'[u] = wish[u] /\ tells'[u] = tells[u] /\ time'[u] = time[u]
    <2>0. ChipTypeOK
        BY TypeParts DEF TypeInv
    <2>1. CASE SettingCall(t)
        BY <2>0, <2>1 DEF SettingCall, ChipTypeOK
    <2>2. CASE DnsSetServer(t)
        BY <2>0, <2>2 DEF DnsSetServer, ChipTypeOK
    <2>3. CASE NtpConfTime(t)
        BY <2>0, <2>3 DEF NtpConfTime, ChipTypeOK
    <2>4. CASE Execute(t)
        BY <2>0, <2>4 DEF Execute, ChipTypeOK, ChipReturn
    <2>5. CASE ExecuteFails(t)
        BY <2>0, <2>5 DEF ExecuteFails, ChipTypeOK, ChipReturn
    <2>6. CASE DnsGetServer(t)
        BY <2>0, <2>6 DEF DnsGetServer, ChipTypeOK
    <2>7. CASE NtpConfigure(t)
        BY <2>0, <2>7, NtpOutcomes DEF ChipTypeOK, ChipReturn
    <2>8. CASE NtpGetTime(t)
        BY <2>0, <2>8 DEF NtpGetTime, ChipTypeOK, ChipReturn
    <2>9. CASE SetTimeOfDay(t)
        BY <2>0, <2>9 DEF SetTimeOfDay, ChipTypeOK, ChipReturn
    <2> QED
        BY <1>1, <2>1, <2>2, <2>3, <2>4, <2>5, <2>6, <2>7, <2>8, <2>9
            DEF ChipStart, ChipWork
<1>2. CASE NameStart(t) \/ NameWork(t)
    BY <1>2, ChipUntouched, CallsStep DEF chipVars
<1> QED
    BY <1>1, <1>2, CallsStep DEF Step

\* A command for the chip comes from a call that has begun, or from
\* dns_setserver when it knows the other server.
LEMMA ToTell ==
    ASSUME TypeInv, NEW t \in Tasks, Step(t), pc'[t] = "tell"
    PROVE  SettingCall(t) \/ DnsGetServer(t)
<1>0. CallsType
    BY TypeParts DEF TypeInv
<1>1. CASE DnsSetServer(t)
    BY <1>0, <1>1 DEF DnsSetServer, CallsType, Goto, Begin
<1>2. CASE NtpConfTime(t)
    BY <1>0, <1>2 DEF NtpConfTime, CallsType, Goto, Begin
<1>3. CASE Execute(t)
    BY <1>0, <1>3 DEF Execute, CallsType, Goto, ChipReturn
<1>4. CASE ExecuteFails(t)
    BY <1>0, <1>4 DEF ExecuteFails, CallsType, Goto, ChipReturn
<1>5. CASE NtpConfigure(t)
    BY <1>0, <1>5, NtpOutcomes DEF CallsType, Goto, ChipReturn
<1>6. CASE NtpGetTime(t)
    BY <1>0, <1>6 DEF NtpGetTime, CallsType, Goto, ChipReturn
<1>7. CASE SetTimeOfDay(t)
    BY <1>0, <1>7 DEF SetTimeOfDay, CallsType, Goto, ChipReturn
<1>8. CASE GetHostByName(t)
    BY <1>0, <1>8 DEF GetHostByName, CallsType, Goto, Begin
<1>9. CASE HostnameSet(t)
    BY <1>0, <1>9 DEF HostnameSet, CallsType, Goto, Begin
<1>10. CASE ServiceAdd(t)
    BY <1>0, <1>10 DEF ServiceAdd, CallsType, Goto, Begin
<1>11. CASE LookupHost(t)
    BY <1>0, <1>11 DEF LookupHost, CallsType, Goto, End
<1>12. CASE Answer(t)
    BY <1>0, <1>12 DEF Answer, CallsType, Goto
<1>13. CASE UseAnswer(t)
    BY <1>0, <1>13 DEF UseAnswer, CallsType, Goto, End
<1>14. CASE Free(t)
    BY <1>0, <1>14 DEF Free, CallsType, Goto
<1>15. CASE Malloc(t)
    BY <1>0, <1>15 DEF Malloc, CallsType, Goto
<1>16. CASE MallocFails(t)
    BY <1>0, <1>16 DEF MallocFails, CallsType, Goto, End
<1>17. CASE CopyName(t)
    BY <1>0, <1>17 DEF CopyName, CallsType, Goto
<1>18. CASE Publish(t)
    BY <1>0, <1>18 DEF Publish, CallsType, Goto
<1>19. CASE Configure(t)
    BY <1>0, <1>19 DEF Configure, CallsType, Goto, End
<1> QED
    BY <1>1, <1>2, <1>3, <1>4, <1>5, <1>6, <1>7, <1>8, <1>9, <1>10, <1>11,
        <1>12, <1>13, <1>14, <1>15, <1>16, <1>17, <1>18, <1>19 DEF Step,
        ChipStart, ChipWork, NameStart, NameWork

LEMMA TellStep ==
    ASSUME TypeInv, TellInv, NEW t \in Tasks, Step(t)
    PROVE  TellInv'
<1>0. ChipTypeOK /\ CallsType /\ LocalsInv
    BY TypeParts DEF TypeInv
<1> SUFFICES ASSUME NEW u \in Tasks, pc'[u] = "tell"
             PROVE  /\ call'[u] = "restore" =>
                        wish'[u] = <<"all", Zero>> /\ tells'[u] = esp_wifi_restore
                    /\ call'[u] = "setting" =>
                        /\ wish'[u] \in (Settings \ (Servers \cup {"zone"})) \X Contents
                        /\ tells'[u] = Tell(wish'[u][1], wish'[u][2])
                    /\ call'[u] = "setserver" =>
                        wish'[u] \in Servers \X Values /\ DOMAIN tells'[u] = Servers
    BY DEF TellInv, esp_wifi_restore, Tell
<1>1. CASE u # t
    BY <1>1, OthersKeep DEF TellInv
<1>2. CASE u = t /\ SettingCall(t)
    <2>1. PICK f \in Functions \ {"dns_setserver", "ntp_conf_time"},
               ifx \in Interfaces, v \in Values :
                /\ Told(f, ifx, v) # Silence
                /\ Begin(t, IF f = "esp_wifi_restore" THEN "restore" ELSE "setting")
                /\ wish' = [wish EXCEPT ![t] = <<Concerns(f, ifx), Aim(f, v)>>]
                /\ tells' = [tells EXCEPT ![t] = Told(f, ifx, v)]
        BY <1>2 DEF SettingCall
    <2>2. /\ call'[t] = IF f = "esp_wifi_restore" THEN "restore" ELSE "setting"
          /\ wish'[t] = <<Concerns(f, ifx), Aim(f, v)>>
          /\ tells'[t] = Told(f, ifx, v)
        BY <1>0, <2>1 DEF ChipTypeOK, CallsType, Begin
    <2> QED
        BY <1>2, <2>1, <2>2, OneSetting
<1>3. CASE u = t /\ DnsGetServer(t)
    <2>1. wish[t] \in Servers \X Values /\ call[t] = "setserver"
        BY <1>0, <1>3, CallOf DEF DnsGetServer, LocalsInv
    <2>2. DOMAIN tells'[t] = Servers
        BY <1>0, <1>3 DEF DnsGetServer, ChipTypeOK
    <2> QED
        BY <1>3, <2>1, <2>2 DEF DnsGetServer
<1> QED
    BY <1>1, <1>2, <1>3, ToTell

\* A step changes the settings as esp_wifi_restore does, or those that its
\* call is about: one, or both servers at once.
LEMMA RegsStep ==
    ASSUME TypeInv, TellInv, NEW t \in Tasks, Step(t)
    PROVE  \/ regs' = regs
           \/ /\ call[t] = "restore" /\ wish[t] = <<"all", Zero>>
              /\ regs' = esp_wifi_restore
           \/ /\ call[t] = "setting"
              /\ wish[t] \in (Settings \ (Servers \cup {"zone"})) \X Contents
              /\ regs' = [regs EXCEPT ![wish[t][1]] = wish[t][2]]
           \/ /\ pc[t] = "tell" /\ call[t] = "setserver"
              /\ wish[t] \in Servers \X Values
              /\ regs' = [r \in Settings |-> IF r \in Servers THEN tells[t][r] ELSE regs[r]]
           \/ /\ call[t] = "ntp" /\ wish[t] \in {"zone"} \X Values
              /\ regs' = [regs EXCEPT !["zone"] = wish[t][2]]
<1>0. ChipTypeOK /\ LocalsInv
    BY TypeParts DEF TypeInv
<1>1. CASE Execute(t)
    <2>1. pc[t] = "tell" /\ call[t] \in {"setting", "restore", "setserver"}
        BY <1>1, CallOf DEF Execute
    <2>2. regs' = [r \in Settings |-> IF r \in DOMAIN tells[t] THEN tells[t][r] ELSE regs[r]]
        BY <1>1 DEF Execute
    <2>3. CASE call[t] = "setting"
        <3>1. /\ wish[t] \in (Settings \ (Servers \cup {"zone"})) \X Contents
              /\ tells[t] = [s \in {wish[t][1]} |-> wish[t][2]]
            BY <2>1, <2>3 DEF TellInv, Tell
        <3>2. regs' = [regs EXCEPT ![wish[t][1]] = wish[t][2]]
            BY <1>0, <2>2, <3>1 DEF ChipTypeOK
        <3> QED
            BY <2>3, <3>1, <3>2
    <2>4. CASE call[t] = "restore"
        BY <2>1, <2>2, <2>4 DEF TellInv, esp_wifi_restore
    <2>5. CASE call[t] = "setserver"
        BY <2>1, <2>2, <2>5 DEF TellInv
    <2> QED
        BY <2>1, <2>3, <2>4, <2>5
<1>2. CASE NtpConfigure(t)
    <2>1. call[t] = "ntp" /\ wish[t] \in {"zone"} \X Values
        BY <1>0, <1>2, CallOf DEF NtpConfigure, LocalsInv
    <2> QED
        BY <1>2, <2>1, NtpOutcomes
<1>3. CASE NameStart(t) \/ NameWork(t)
    BY <1>3, ChipUntouched DEF chipVars
<1> QED
    BY <1>1, <1>2, <1>3 DEF Step, ChipStart, ChipWork, SettingCall,
        DnsSetServer, NtpConfTime, ExecuteFails, DnsGetServer, NtpGetTime,
        SetTimeOfDay

LEMMA ServersStep ==
    ASSUME ServersApart, TypeInv, ApartInv, TellInv, ServersInv,
           NEW t \in Tasks, Step(t)
    PROVE  ServersInv'
<1>0. ChipTypeOK /\ CallsType /\ LocalsInv
    BY TypeParts DEF TypeInv
<1> SUFFICES ASSUME NEW u \in Tasks, pc'[u] = "tell", call'[u] = "setserver"
             PROVE  tells'[u] = [s \in Servers |-> IF s = wish'[u][1] THEN wish'[u][2]
                                                   ELSE regs'[s]]
    BY DEF ServersInv
<1>1. CASE u # t
    <2>1. /\ pc[u] = "tell" /\ call[u] = "setserver"
          /\ tells[u] = [s \in Servers |-> IF s = wish[u][1] THEN wish[u][2] ELSE regs[s]]
          /\ wish'[u] = wish[u] /\ tells'[u] = tells[u]
        BY <1>1, OthersKeep DEF ServersInv
    <2>2. call[t] # "setserver" /\ call[t] # "restore"
        BY <1>1, <2>1 DEF ApartInv, ServersApart
    <2>3. \A s \in Servers : regs'[s] = regs[s]
        <3>1. Servers \subseteq Settings /\ "zone" \notin Servers
            BY DEF Settings, Servers
        <3> QED
            BY <1>0, <2>2, <3>1, RegsStep DEF ChipTypeOK
    <2> QED
        BY <2>1, <2>3
<1>2. CASE u = t /\ DnsGetServer(t)
    <2>1. wish[t] \in Servers \X Values
        BY <1>0, <1>2 DEF DnsGetServer, LocalsInv
    <2>2. tells'[t] = [s \in Servers |-> IF s = wish[t][1] THEN wish[t][2]
                                          ELSE regs[Other(wish[t][1])]]
        BY <1>0, <1>2 DEF DnsGetServer, ServersApart, ChipTypeOK
    <2>3. \A s \in Servers : s # wish[t][1] => s = Other(wish[t][1])
        BY <2>1 DEF Other, Servers
    <2>4. wish' = wish /\ regs' = regs
        BY <1>2 DEF DnsGetServer
    <2> QED
        BY <1>2, <2>2, <2>3, <2>4
<1>3. CASE u = t /\ SettingCall(t)
    <2>1. call'[t] \in {"setting", "restore"}
        BY <1>0, <1>3 DEF SettingCall, Begin, CallsType
    <2> QED
        BY <1>3, <2>1
<1> QED
    BY <1>1, <1>2, <1>3, ToTell

LEMMA ZoneStep ==
    ASSUME NtpApart, TypeInv, ApartInv, TellInv, ZoneInv, NEW t \in Tasks, Step(t)
    PROVE  ZoneInv'
<1>0. ChipTypeOK /\ CallsType /\ LocalsInv
    BY TypeParts DEF TypeInv
<1>1. ASSUME NEW u \in Tasks \ {t}
      PROVE  /\ pc'[u] = "ntp_get" => regs'["zone"] = wish'[u][2]
             /\ pc'[u] = "ntp_clock" => time'[u] = wish'[u][2]
    <2>1. pc'[u] = pc[u] /\ wish'[u] = wish[u] /\ time'[u] = time[u]
        BY OthersKeep
    <2>2. ASSUME pc[u] = "ntp_get"
          PROVE  regs'["zone"] = regs["zone"]
        <3>1. call[t] # "ntp" /\ call[t] # "restore"
            BY <2>2, CallOf DEF ApartInv, NtpApart
        <3>2. "zone" \in Settings /\ "zone" \notin Servers
            BY DEF Settings, Servers
        <3> QED
            BY <1>0, <3>1, <3>2, RegsStep DEF ChipTypeOK
    <2> QED
        BY <2>1, <2>2 DEF ZoneInv
<1>2. /\ pc'[t] = "ntp_get" => regs'["zone"] = wish'[t][2]
      /\ pc'[t] = "ntp_clock" => time'[t] = wish'[t][2]
    <2>1. CASE NtpConfigure(t)
        <3>1. "zone" \in Settings
            BY DEF Settings
        <3> QED
            BY <1>0, <2>1, <3>1, NtpOutcomes DEF ChipTypeOK, CallsType, Goto,
                ChipReturn
    <2>2. CASE NtpGetTime(t)
        BY <1>0, <2>2 DEF NtpGetTime, ZoneInv, ChipTypeOK, CallsType, Goto,
            ChipReturn
    <2>3. ASSUME ~NtpConfigure(t), ~NtpGetTime(t)
          PROVE  pc'[t] \notin {"ntp_get", "ntp_clock"}
        <3>1. CASE SettingCall(t)
            BY <1>0, <3>1 DEF SettingCall, CallsType, Goto, Begin
        <3>2. CASE DnsSetServer(t)
            BY <1>0, <3>2 DEF DnsSetServer, CallsType, Goto, Begin
        <3>3. CASE NtpConfTime(t)
            BY <1>0, <3>3 DEF NtpConfTime, CallsType, Goto, Begin
        <3>4. CASE Execute(t)
            BY <1>0, <3>4 DEF Execute, CallsType, Goto, ChipReturn
        <3>5. CASE ExecuteFails(t)
            BY <1>0, <3>5 DEF ExecuteFails, CallsType, Goto, ChipReturn
        <3>6. CASE DnsGetServer(t)
            BY <1>0, <3>6 DEF DnsGetServer, CallsType, Goto
        <3>7. CASE SetTimeOfDay(t)
            BY <1>0, <3>7 DEF SetTimeOfDay, CallsType, Goto, ChipReturn
        <3>8. CASE GetHostByName(t)
            BY <1>0, <3>8 DEF GetHostByName, CallsType, Goto, Begin
        <3>9. CASE HostnameSet(t)
            BY <1>0, <3>9 DEF HostnameSet, CallsType, Goto, Begin
        <3>10. CASE ServiceAdd(t)
            BY <1>0, <3>10 DEF ServiceAdd, CallsType, Goto, Begin
        <3>11. CASE LookupHost(t)
            BY <1>0, <3>11 DEF LookupHost, CallsType, Goto, End
        <3>12. CASE Answer(t)
            BY <1>0, <3>12 DEF Answer, CallsType, Goto
        <3>13. CASE UseAnswer(t)
            BY <1>0, <3>13 DEF UseAnswer, CallsType, Goto, End
        <3>14. CASE Free(t)
            BY <1>0, <3>14 DEF Free, CallsType, Goto
        <3>15. CASE Malloc(t)
            BY <1>0, <3>15 DEF Malloc, CallsType, Goto
        <3>16. CASE MallocFails(t)
            BY <1>0, <3>16 DEF MallocFails, CallsType, Goto, End
        <3>17. CASE CopyName(t)
            BY <1>0, <3>17 DEF CopyName, CallsType, Goto
        <3>18. CASE Publish(t)
            BY <1>0, <3>18 DEF Publish, CallsType, Goto
        <3>19. CASE Configure(t)
            BY <1>0, <3>19 DEF Configure, CallsType, Goto, End
        <3> QED
            BY <2>3, <3>1, <3>2, <3>3, <3>4, <3>5, <3>6, <3>7, <3>8, <3>9,
                <3>10, <3>11, <3>12, <3>13, <3>14, <3>15, <3>16, <3>17, <3>18,
                <3>19 DEF Step, ChipStart, ChipWork, NameStart, NameWork
    <2> QED
        BY <2>1, <2>2, <2>3
<1> QED
    BY <1>1, <1>2 DEF ZoneInv

LEMMA InitTells == Init => TellInv /\ ServersInv /\ ZoneInv
BY DEF Init, TellInv, ServersInv, ZoneInv

LEMMA TellsStutter ==
    ASSUME UNCHANGED vars
    PROVE  /\ TellInv => TellInv'
           /\ ServersInv => ServersInv'
           /\ ZoneInv => ZoneInv'
BY DEF vars, chipVars, TellInv, ServersInv, ZoneInv, esp_wifi_restore, Tell

LEMMA TellsAlways == Spec => []TellInv
<1>1. TypeInv /\ TellInv /\ [Next]_vars => TellInv'
    BY NextIsStep, TellStep, TellsStutter
<1> QED
    BY InitTells, CallsAlways, <1>1, PTL DEF Spec

LEMMA ServersAlways ==
    ASSUME ServersApart
    PROVE  Spec => []ServersInv
<1>1. TypeInv /\ ApartInv /\ TellInv /\ ServersInv /\ [Next]_vars => ServersInv'
    BY NextIsStep, ServersStep, TellsStutter
<1> QED
    BY InitTells, CallsAlways, TellsAlways, <1>1, PTL DEF Spec

LEMMA ZoneAlways ==
    ASSUME NtpApart
    PROVE  Spec => []ZoneInv
<1>1. TypeInv /\ ApartInv /\ TellInv /\ ZoneInv /\ [Next]_vars => ZoneInv'
    BY NextIsStep, ZoneStep, TellsStutter
<1> QED
    BY InitTells, CallsAlways, TellsAlways, <1>1, PTL DEF Spec

\* A call that knows what it sets has a wish that the others can see.
LEMMA WishSeen ==
    ASSUME NEW t \in Tasks, NEW r, NEW v \in Contents, wish[t] = <<r, v>>
    PROVE  wish[t] \in Wishes /\ wish[t][1] = r /\ wish[t][2] = v
BY Values3 DEF Wishes, NoWish

\* A step of a call is a step of the settings that they promise.
LEMMA PromiseStep ==
    ASSUME TypeInv, TellInv, ServersInv, NEW t \in Tasks, Step(t)
    PROVE  Promise!Next
<1>0. ChipTypeOK
    BY TypeParts DEF TypeInv
<1>1. CASE regs' = regs
    BY <1>1 DEF Promise!Next, Promise!Wish
<1>2. CASE wish[t] = <<"all", Zero>> /\ regs' = esp_wifi_restore
    <2>1. wish[t] \in Wishes /\ wish[t][1] = "all"
        BY <1>2, WishSeen, Values3
    <2> QED
        BY <1>2, <2>1 DEF Promise!Next, Promise!Restore, Promise!Restored,
            esp_wifi_restore
<1>3. ASSUME wish[t] \in Settings \X Contents,
             regs' = [regs EXCEPT ![wish[t][1]] = wish[t][2]]
      PROVE  Promise!Next
    <2>1. wish[t] \in Wishes /\ wish[t][1] \in Settings
        BY <1>3, WishSeen
    <2> QED
        BY <1>3, <2>1 DEF Promise!Next, Promise!Grant
<1>4. CASE /\ pc[t] = "tell" /\ call[t] = "setserver"
           /\ wish[t] \in Servers \X Values
           /\ regs' = [r \in Settings |-> IF r \in Servers THEN tells[t][r] ELSE regs[r]]
    <2>1. tells[t] = [s \in Servers |-> IF s = wish[t][1] THEN wish[t][2] ELSE regs[s]]
        BY <1>4 DEF ServersInv
    <2>2. regs' = [regs EXCEPT ![wish[t][1]] = wish[t][2]]
        BY <1>0, <1>4, <2>1 DEF ChipTypeOK
    <2>3. wish[t] \in Settings \X Contents
        BY <1>4, Values3 DEF Settings
    <2> QED
        BY <2>2, <2>3, <1>3
<1>5. CASE /\ wish[t] \in {"zone"} \X Values
           /\ regs' = [regs EXCEPT !["zone"] = wish[t][2]]
    <2>1. wish[t] \in Settings \X Contents /\ wish[t][1] = "zone"
        BY <1>5, Values3 DEF Settings
    <2> QED
        BY <1>5, <2>1, <1>3
<1> QED
    BY <1>1, <1>2, <1>3, <1>4, <1>5, RegsStep

\* The settings of the chip implement Registers: whatever tasks do at once,
\* each setting changes as one of their calls asks for it, when calls of
\* dns_setserver overlap neither each other nor esp_wifi_restore and
\* dns_getserver does not fail.
THEOREM ChipKeepsRegisters ==
    ASSUME ServersApart
    PROVE  Spec => KeepsRegisters
<1>1. Init => Promise!Init
    BY DEF Init, ChipInit, Wishes, Promise!Init, Promise!Restored
<1>2. UNCHANGED vars => Promise!Next
    BY DEF vars, chipVars, Promise!Next, Promise!Wish
<1>3. TypeInv /\ TellInv /\ ServersInv /\ [Next]_vars => [Promise!Next]_<<regs, Wishes>>
    BY <1>2, NextIsStep, PromiseStep
<1> QED
    BY CallsAlways, TellsAlways, ServersAlways, <1>1, <1>3, PTL DEF Spec,
        KeepsRegisters, Promise!Spec

\* ntp_conf_time sets the clock to the zone that its own caller asked for,
\* though the zone is the chip's and the time is read in a second command,
\* when such calls overlap neither each other nor esp_wifi_restore.
THEOREM ClockIsOfOwnZone ==
    ASSUME NtpApart
    PROVE  Spec => ClockOfOwnZone
<1>1. ASSUME TypeInv, ZoneInv, NEW u \in Tasks, Step(u),
             NEW t \in Tasks, pc[t] = "ntp_clock", pc'[t] = "idle"
      PROVE  clock' = wish[t][2]
    <2>1. u = t
        BY <1>1, OthersKeep
    <2>2. SetTimeOfDay(t)
        BY <1>1, <2>1 DEF Step, ChipStart, ChipWork, NameStart, NameWork,
            MayStart, SettingCall, DnsSetServer, NtpConfTime, Execute,
            ExecuteFails, DnsGetServer, NtpConfigure, NtpGetTime, GetHostByName,
            HostnameSet, ServiceAdd, LookupHost, Answer, UseAnswer, Free,
            Malloc, MallocFails, CopyName, Publish, Configure
    <2> QED
        BY <1>1, <2>2 DEF SetTimeOfDay, ZoneInv
<1>2. UNCHANGED vars => UNCHANGED <<pc, chipVars>>
    BY DEF vars
<1>3. TypeInv /\ ZoneInv /\ [Next]_vars =>
        [\A t \in Tasks : pc[t] = "ntp_clock" /\ pc'[t] = "idle" =>
            clock' = wish[t][2]]_<<pc, chipVars>>
    BY <1>1, <1>2, NextIsStep
<1> QED
    BY CallsAlways, ZoneAlways, <1>3, PTL DEF Spec, ClockOfOwnZone

-----------------------------------------------------------------------------
(* The heap.                                                               *)

\* Steps of other calls leave the heap alone and go nowhere near it.
LEMMA HeapUntouched ==
    ASSUME TypeInv, NEW t \in Tasks, Step(t),
           ~(\/ HostnameSet(t) \/ ServiceAdd(t) \/ Free(t) \/ Malloc(t)
             \/ MallocFails(t) \/ CopyName(t) \/ Publish(t) \/ Configure(t))
    PROVE  /\ UNCHANGED mdns
           /\ pc[t] \notin {"free", "malloc", "copy", "publish", "configure", "fault"}
           /\ pc'[t] \notin {"free", "malloc", "copy", "publish", "configure", "fault"}
<1>0. CallsType
    BY TypeParts DEF TypeInv
<1>1. CASE SettingCall(t) /\ UNCHANGED mdns
    BY <1>0, <1>1 DEF SettingCall, CallsType, MayStart, Goto, Begin
<1>2. CASE DnsSetServer(t) /\ UNCHANGED mdns
    BY <1>0, <1>2 DEF DnsSetServer, CallsType, MayStart, Goto, Begin
<1>3. CASE NtpConfTime(t) /\ UNCHANGED mdns
    BY <1>0, <1>3 DEF NtpConfTime, CallsType, MayStart, Goto, Begin
<1>4. CASE Execute(t) /\ UNCHANGED mdns
    BY <1>0, <1>4 DEF Execute, CallsType, Goto, ChipReturn
<1>5. CASE ExecuteFails(t) /\ UNCHANGED mdns
    BY <1>0, <1>5 DEF ExecuteFails, CallsType, Goto, ChipReturn
<1>6. CASE DnsGetServer(t) /\ UNCHANGED mdns
    BY <1>0, <1>6 DEF DnsGetServer, CallsType, Goto
<1>7. CASE NtpConfigure(t) /\ UNCHANGED mdns
    BY <1>0, <1>7, NtpOutcomes DEF NtpConfigure, CallsType, Goto, ChipReturn
<1>8. CASE NtpGetTime(t) /\ UNCHANGED mdns
    BY <1>0, <1>8 DEF NtpGetTime, CallsType, Goto, ChipReturn
<1>9. CASE SetTimeOfDay(t) /\ UNCHANGED mdns
    BY <1>0, <1>9 DEF SetTimeOfDay, CallsType, Goto, ChipReturn
<1>10. CASE GetHostByName(t)
    BY <1>0, <1>10 DEF GetHostByName, CallsType, MayStart, Goto, Begin
<1>11. CASE LookupHost(t)
    BY <1>0, <1>11 DEF LookupHost, CallsType, Goto, End
<1>12. CASE Answer(t)
    BY <1>0, <1>12 DEF Answer, CallsType, Goto
<1>13. CASE UseAnswer(t)
    BY <1>0, <1>13 DEF UseAnswer, CallsType, Goto, End
<1> QED
    BY <1>1, <1>2, <1>3, <1>4, <1>5, <1>6, <1>7, <1>8, <1>9, <1>10, <1>11,
        <1>12, <1>13 DEF Step, ChipStart, ChipWork, NameStart, NameWork

InHeap == {"malloc", "copy", "publish"}

\* A step of the only call of mdns_hostname_set that there is.
LEMMA HostnameSetAlone ==
    ASSUME HostnameApart, TypeInv, ApartInv, NEW t \in Tasks, call[t] = "hostname"
    PROVE  /\ \A u \in Tasks \ {t} :
                pc[u] \notin {"free", "malloc", "copy", "publish", "configure", "fault"}
           /\ Dangling <=> pc[t] \in InHeap
<1>1. \A u \in Tasks \ {t} : call[u] # "hostname" /\ call[u] # "service"
    BY DEF ApartInv, HostnameApart
<1>2. \A u \in Tasks \ {t} :
        pc[u] \notin {"free", "malloc", "copy", "publish", "configure", "fault"}
    BY <1>1, CallOf
<1> QED
    BY <1>2 DEF Dangling, InHeap

LEMMA HeapStep ==
    ASSUME HostnameApart, TypeInv, ApartInv, HeapInv, NEW t \in Tasks, Step(t)
    PROVE  HeapInv'
<1>0. CallsType /\ NamesType
    BY TypeParts DEF TypeInv
<1>1. \A u \in Tasks \ {t} : pc'[u] = pc[u]
    BY OthersKeep
<1>2. CASE ~(\/ HostnameSet(t) \/ ServiceAdd(t) \/ Free(t) \/ Malloc(t)
             \/ MallocFails(t) \/ CopyName(t) \/ Publish(t) \/ Configure(t))
    <2>1. UNCHANGED mdns
        BY <1>2, HeapUntouched
    <2>2. /\ pc[t] \notin {"free", "malloc", "copy", "publish", "configure", "fault"}
          /\ pc'[t] \notin {"free", "malloc", "copy", "publish", "configure", "fault"}
        BY <1>2, HeapUntouched
    <2>3. Dangling' => Dangling
        BY <1>1, <2>2 DEF Dangling
    <2>4. Dangling => Dangling'
        BY <1>1, <2>2 DEF Dangling
    <2> QED
        BY <1>1, <2>1, <2>2, <2>3, <2>4 DEF HeapInv, mdns
<1>3. CASE HostnameSet(t)
    <2>1. \A u \in Tasks : call[u] # "hostname" /\ call[u] # "service"
        BY <1>3 DEF HostnameSet, MayStart, InProgress, HostnameApart
    <2>2. \A u \in Tasks :
            pc[u] \notin {"free", "malloc", "copy", "publish", "configure", "fault"}
        BY <2>1, CallOf
    <2>3. ~Dangling
        BY <2>2 DEF Dangling
    <2>4. /\ ~lost /\ lost' = lost
          /\ allocated = {mdns_hostname} \ {Null}
          /\ mdns_hostname # Null => text[mdns_hostname] = set
        BY <1>3, <2>3 DEF HeapInv, HostnameSet, MayUseHostname, HostnameApart
    <2>5. CASE mdns_hostname # Null
        <3>1. pc'[t] = "free" /\ name'[t] = mdns_hostname
            BY <1>0, <1>3, <2>5 DEF HostnameSet, Goto, CallsType, NamesType
        <3> QED
            BY <1>0, <1>1, <1>3, <2>2, <2>4, <2>5, <3>1 DEF HeapInv,
                HostnameSet, NamesType
    <2>6. CASE mdns_hostname = Null
        <3>1. pc'[t] = "malloc" /\ name'[t] = mdns_hostname
            BY <1>0, <1>3, <2>6 DEF HostnameSet, Goto, CallsType, NamesType
        <3>2. Dangling' /\ allocated' = {}
            BY <1>3, <2>4, <2>6, <3>1 DEF HostnameSet, Dangling
        <3> QED
            BY <1>0, <1>1, <1>3, <2>2, <2>4, <3>1, <3>2 DEF HeapInv, HostnameSet,
                NamesType
    <2> QED
        BY <2>5, <2>6
<1>4. CASE ServiceAdd(t)
    <2>1. \A u \in Tasks : call[u] # "hostname"
        BY <1>4 DEF ServiceAdd, InProgress, HostnameApart
    <2>2. \A u \in Tasks : pc[u] \notin {"free", "malloc", "copy", "publish"}
        BY <2>1, CallOf
    <2>3. IF lost THEN allocated = {}
          ELSE /\ allocated = {mdns_hostname} \ {Null}
               /\ mdns_hostname # Null => text[mdns_hostname] = set
        BY <2>2 DEF HeapInv, Dangling
    <2>4. pc[t] = "idle" /\ pc'[t] = "configure"
        BY <1>0, <1>4 DEF ServiceAdd, MayStart, Goto, CallsType
    <2>5. /\ name'[t] = Null \/ (name'[t] = mdns_hostname /\ ~lost)
          /\ \A u \in Tasks \ {t} : name'[u] = name[u]
        BY <1>0, <1>4, <2>4 DEF ServiceAdd, Hostname, NamesType, HeapInv,
            MayUseHostname, HostnameApart
    <2> QED
        BY <1>0, <1>1, <1>4, <2>2, <2>3, <2>4, <2>5 DEF HeapInv, ServiceAdd,
            NamesType, Dangling
<1>5. CASE Free(t)
    <2>1. call[t] = "hostname" /\ pc[t] = "free"
        BY <1>5, CallOf DEF Free
    <2>2. /\ \A u \in Tasks \ {t} :
                pc[u] \notin {"free", "malloc", "copy", "publish", "configure", "fault"}
          /\ ~Dangling
        BY <2>1, HostnameSetAlone DEF InHeap
    <2>3. allocated = {mdns_hostname} /\ name[t] = mdns_hostname /\ ~lost
        BY <2>1, <2>2 DEF HeapInv
    <2>4. pc'[t] = "malloc" /\ allocated' = {}
        BY <1>0, <1>5, <2>3 DEF Free, Freed, Goto, CallsType
    <2>5. Dangling' /\ UNCHANGED <<name, mdns_hostname, lost>>
        BY <1>5, <2>4 DEF Dangling, Free
    <2> QED
        BY <1>1, <2>2, <2>3, <2>4, <2>5 DEF HeapInv
<1>6. CASE Malloc(t)
    <2>1. call[t] = "hostname" /\ pc[t] = "malloc" /\ allocated = {} /\ ~lost
        BY <1>6, CallOf DEF Malloc, HeapInv
    <2>2. \A u \in Tasks \ {t} :
            pc[u] \notin {"free", "malloc", "copy", "publish", "configure", "fault"}
        BY <2>1, HostnameSetAlone
    <2>3. PICK b \in Blocks : allocated' = allocated \cup {b} /\ name' = [name EXCEPT ![t] = b]
        BY <1>6 DEF Malloc
    <2>4. pc'[t] = "copy" /\ name'[t] = b /\ allocated' = {b}
        BY <1>0, <1>6, <2>1, <2>3 DEF Malloc, Goto, CallsType, NamesType
    <2>5. \A u \in Tasks \ {t} : name'[u] = name[u]
        BY <1>0, <2>3 DEF NamesType
    <2>6. Dangling' /\ lost' = lost
        BY <1>6, <2>4 DEF Dangling, Malloc
    <2> QED
        BY <1>1, <2>1, <2>2, <2>4, <2>5, <2>6 DEF HeapInv
<1>7. CASE MallocFails(t)
    <2>1. /\ call[t] = "hostname" /\ pc[t] = "malloc"
          /\ allocated = {} /\ name[t] = mdns_hostname
        BY <1>7, CallOf DEF MallocFails, HeapInv
    <2>2. \A u \in Tasks \ {t} :
            pc[u] \notin {"free", "malloc", "copy", "publish", "configure", "fault"}
        BY <2>1, HostnameSetAlone
    <2>3. pc'[t] = "idle" /\ name'[t] = Null /\ \A u \in Tasks \ {t} : name'[u] = name[u]
        BY <1>0, <1>7 DEF MallocFails, End, Goto, CallsType, NamesType
    <2>4. /\ UNCHANGED <<mdns_hostname, allocated, text, set>>
          /\ ~lost' => mdns_hostname = Null
        BY <1>7, <2>1 DEF MallocFails
    <2> QED
        BY <1>1, <2>1, <2>2, <2>3, <2>4 DEF HeapInv
<1>8. CASE CopyName(t)
    <2>1. /\ call[t] = "hostname" /\ pc[t] = "copy" /\ ~lost
          /\ name[t] \in Blocks /\ allocated = {name[t]}
        BY <1>8, CallOf DEF CopyName, HeapInv
    <2>2. \A u \in Tasks \ {t} :
            pc[u] \notin {"free", "malloc", "copy", "publish", "configure", "fault"}
        BY <2>1, HostnameSetAlone
    <2>3. pc'[t] = "publish" /\ text'[name[t]] = new[t]
        BY <1>0, <1>8, <2>1 DEF CopyName, Goto, CallsType, NamesType
    <2>4. Dangling' /\ UNCHANGED <<name, allocated, new, lost>>
        BY <1>8, <2>3 DEF CopyName, Dangling
    <2> QED
        BY <1>1, <2>1, <2>2, <2>3, <2>4 DEF HeapInv
<1>9. CASE Publish(t)
    <2>1. /\ call[t] = "hostname" /\ pc[t] = "publish"
          /\ name[t] \in Blocks /\ allocated = {name[t]} /\ text[name[t]] = new[t]
        BY <1>9, CallOf DEF Publish, HeapInv
    <2>2. \A u \in Tasks \ {t} :
            pc[u] \notin {"free", "malloc", "copy", "publish", "configure", "fault"}
        BY <2>1, HostnameSetAlone
    <2>3. pc'[t] = "configure" /\ mdns_hostname' = name[t] /\ set' = new[t]
        BY <1>0, <1>9 DEF Publish, NewName, Goto, CallsType
    <2>4. UNCHANGED <<allocated, text, name>> /\ lost' = FALSE
        BY <1>9 DEF Publish
    <2> QED
        BY <1>1, <2>1, <2>2, <2>3, <2>4, NullIsNoBlock DEF HeapInv
<1>10. CASE Configure(t)
    <2>1. pc[t] = "configure" /\ name[t] \in allocated \cup {Null}
        BY <1>10 DEF Configure, HeapInv
    <2>2. pc'[t] = "idle" /\ name'[t] = Null /\ \A u \in Tasks \ {t} : name'[u] = name[u]
        BY <1>0, <1>10, <2>1 DEF Configure, End, Goto, CallsType, NamesType
    <2>3. /\ UNCHANGED <<mdns_hostname, allocated, text, set, lost>>
          /\ \A u \in Tasks \ {t} : new'[u] = new[u]
        BY <1>0, <1>10 DEF Configure, NamesType
    <2>4. Dangling => Dangling'
        BY <1>1, <2>1 DEF Dangling
    <2> QED
        BY <1>1, <2>2, <2>3, <2>4 DEF HeapInv
<1> QED
    BY <1>2, <1>3, <1>4, <1>5, <1>6, <1>7, <1>8, <1>9, <1>10

LEMMA HeapAlways ==
    ASSUME HostnameApart
    PROVE  Spec => []HeapInv
<1>1. Init => HeapInv
    BY DEF Init, HeapInv
<1>2. UNCHANGED vars /\ HeapInv => HeapInv'
    BY DEF vars, mdns, HeapInv, Dangling
<1>3. TypeInv /\ ApartInv /\ HeapInv /\ [Next]_vars => HeapInv'
    BY <1>2, NextIsStep, HeapStep
<1> QED
    BY <1>1, <1>3, CallsAlways, PTL DEF Spec

\* No call frees or reads a hostname that is not there, whichever malloc fails,
\* when the calls that use it are kept apart and an application that was told
\* ESP_ERR_NO_MEM when it replaced the hostname makes no more of them: the old
\* name is freed before the new one is allocated, so such a failure leaves
\* mdns_hostname dangling.
THEOREM NoHeapFault ==
    ASSUME HostnameApart
    PROVE  Spec => []HeapSafe
<1>1. HeapInv => HeapSafe
    BY DEF HeapInv, HeapSafe, Running
<1> QED
    BY <1>1, HeapAlways, PTL

\* Under the same obligations nothing of this library's stays allocated but
\* the hostname, and it is the one that was set last; nothing at all after a
\* replacement that had no memory.
THEOREM HostnameIsKept ==
    ASSUME HostnameApart
    PROVE  Spec => []HostnameKept
<1>1. HeapInv => HostnameKept
    BY DEF HeapInv, HostnameKept, Idle, Dangling
<1> QED
    BY <1>1, HeapAlways, PTL

-----------------------------------------------------------------------------
(* The answer.                                                             *)

\* Steps of other calls leave hosts and answers alone.
LEMMA HostUntouched ==
    ASSUME TypeInv, NEW t \in Tasks, Step(t),
           ~(GetHostByName(t) \/ LookupHost(t) \/ Answer(t) \/ UseAnswer(t))
    PROVE  /\ UNCHANGED host
           /\ pc[t] \notin {"lookup", "answer", "use"}
           /\ pc'[t] \notin {"lookup", "answer", "use"}
<1>0. CallsType
    BY TypeParts DEF TypeInv
<1>1. CASE SettingCall(t) /\ UNCHANGED host
    BY <1>0, <1>1 DEF SettingCall, CallsType, MayStart, Goto, Begin
<1>2. CASE DnsSetServer(t) /\ UNCHANGED host
    BY <1>0, <1>2 DEF DnsSetServer, CallsType, MayStart, Goto, Begin
<1>3. CASE NtpConfTime(t) /\ UNCHANGED host
    BY <1>0, <1>3 DEF NtpConfTime, CallsType, MayStart, Goto, Begin
<1>4. CASE Execute(t) /\ UNCHANGED host
    BY <1>0, <1>4 DEF Execute, CallsType, Goto, ChipReturn
<1>5. CASE ExecuteFails(t) /\ UNCHANGED host
    BY <1>0, <1>5 DEF ExecuteFails, CallsType, Goto, ChipReturn
<1>6. CASE DnsGetServer(t) /\ UNCHANGED host
    BY <1>0, <1>6 DEF DnsGetServer, CallsType, Goto
<1>7. CASE NtpConfigure(t) /\ UNCHANGED host
    BY <1>0, <1>7, NtpOutcomes DEF NtpConfigure, CallsType, Goto, ChipReturn
<1>8. CASE NtpGetTime(t) /\ UNCHANGED host
    BY <1>0, <1>8 DEF NtpGetTime, CallsType, Goto, ChipReturn
<1>9. CASE SetTimeOfDay(t) /\ UNCHANGED host
    BY <1>0, <1>9 DEF SetTimeOfDay, CallsType, Goto, ChipReturn
<1>10. CASE HostnameSet(t)
    BY <1>0, <1>10 DEF HostnameSet, CallsType, MayStart, Goto, Begin
<1>11. CASE ServiceAdd(t)
    BY <1>0, <1>11 DEF ServiceAdd, CallsType, MayStart, Goto, Begin
<1>12. CASE Free(t)
    BY <1>0, <1>12 DEF Free, CallsType, Goto
<1>13. CASE Malloc(t)
    BY <1>0, <1>13 DEF Malloc, CallsType, Goto
<1>14. CASE MallocFails(t)
    BY <1>0, <1>14 DEF MallocFails, CallsType, Goto, End
<1>15. CASE CopyName(t)
    BY <1>0, <1>15 DEF CopyName, CallsType, Goto
<1>16. CASE Publish(t)
    BY <1>0, <1>16 DEF Publish, CallsType, Goto
<1>17. CASE Configure(t)
    BY <1>0, <1>17 DEF Configure, CallsType, Goto, End
<1> QED
    BY <1>1, <1>2, <1>3, <1>4, <1>5, <1>6, <1>7, <1>8, <1>9, <1>10, <1>11,
        <1>12, <1>13, <1>14, <1>15, <1>16, <1>17 DEF Step, ChipStart, ChipWork,
        NameStart, NameWork

LEMMA AskedStep ==
    ASSUME AnswerApart, TypeInv, AskedInv, NEW t \in Tasks, Step(t)
    PROVE  AskedInv'
<1>0. CallsType /\ NamesType
    BY TypeParts DEF TypeInv
<1>1. \A u \in Tasks \ {t} : pc'[u] = pc[u]
    BY OthersKeep
<1>2. CASE ~(GetHostByName(t) \/ LookupHost(t) \/ Answer(t) \/ UseAnswer(t))
    BY <1>1, <1>2, HostUntouched DEF AskedInv, host
<1>3. CASE GetHostByName(t)
    <2>1. \A u \in Tasks : asked[u] = "none"
        BY <1>3 DEF GetHostByName, AnswerApart
    <2>2. pc'[t] = "lookup" /\ asked'[t] \in Hosts /\ \A u \in Tasks \ {t} : asked'[u] = asked[u]
        BY <1>0, <1>3 DEF GetHostByName, Goto, CallsType, NamesType
    <2> QED
        BY <1>1, <2>1, <2>2, NoHostIs DEF AskedInv
<1>4. CASE LookupHost(t)
    <2>1. \A u \in Tasks \ {t} : asked[u] = "none"
        BY <1>4 DEF LookupHost, AskedInv
    <2>2. CASE addr' = [addr EXCEPT ![t] = asked[t]] /\ Goto(t, "answer") /\ UNCHANGED asked
        <3>1. pc'[t] = "answer" /\ addr'[t] = asked[t]
            BY <1>0, <2>2 DEF Goto, CallsType, NamesType
        <3> QED
            BY <1>1, <1>4, <2>1, <2>2, <3>1 DEF AskedInv, LookupHost
    <2>3. CASE asked' = [asked EXCEPT ![t] = "none"] /\ End(t)
        <3>1. pc'[t] = "idle" /\ \A u \in Tasks : asked'[u] = "none"
            BY <1>0, <2>1, <2>3 DEF End, Goto, CallsType, NamesType
        <3> QED
            BY <1>1, <2>1, <3>1 DEF AskedInv
    <2> QED
        BY <1>4, <2>2, <2>3 DEF LookupHost
<1>5. CASE Answer(t)
    <2>1. \A u \in Tasks \ {t} : asked[u] = "none"
        BY <1>5 DEF Answer, AskedInv
    <2>2. pc'[t] = "use" /\ h' = asked[t] /\ asked' = asked
        BY <1>0, <1>5 DEF Answer, NewAnswer, Goto, CallsType, AskedInv
    <2> QED
        BY <1>1, <1>5, <2>1, <2>2 DEF AskedInv, Answer
<1>6. CASE UseAnswer(t)
    <2>1. \A u \in Tasks \ {t} : asked[u] = "none"
        BY <1>6 DEF UseAnswer, AskedInv
    <2>2. pc'[t] = "idle" /\ \A u \in Tasks : asked'[u] = "none"
        BY <1>0, <1>6, <2>1 DEF UseAnswer, End, Goto, CallsType, NamesType
    <2> QED
        BY <1>1, <2>1, <2>2 DEF AskedInv
<1> QED
    BY <1>2, <1>3, <1>4, <1>5, <1>6

\* A caller of atu_gethostbyname reads the address of the host that it asked
\* for, when nobody asks while another has an answer that it did not use.
THEOREM AnswerIsForTheHostAsked ==
    ASSUME AnswerApart
    PROVE  Spec => HostIsTheOneAsked
<1>1. Init => AskedInv
    BY DEF Init, AskedInv
<1>2. UNCHANGED vars /\ AskedInv => AskedInv'
    BY DEF vars, host, AskedInv
<1>3. TypeInv /\ AskedInv /\ [Next]_vars => AskedInv'
    BY <1>2, NextIsStep, AskedStep
<1>4. AskedInv /\ [Next]_vars =>
        [\A t \in Tasks : pc[t] = "use" => h = asked[t] \/ pc'[t] = "use"]_vars
    BY DEF AskedInv
<1> QED
    BY <1>1, <1>3, <1>4, CallsAlways, PTL DEF Spec, HostIsTheOneAsked
=============================================================================
