---------------------------- MODULE ChipSettings ----------------------------
(***************************************************************************)
(* The settings that live in the WiFi chip, and the calls that change them *)
(* with blocking commands of the ESP library: mode, country, soft-AP and   *)
(* SmartConfig of esp_wifi.c, addresses and DHCP of tcpip_adapter.c,       *)
(* esp_wps.c, the servers of dns_setserver (atu_netdb.c 48-84) and the     *)
(* time of ntp_conf_time (esp_hal_log.c 32-64).  Tasks share nothing here  *)
(* but the chip, which executes one command at a time; what makes the last *)
(* two hard is that they take more than one.                               *)
(*                                                                         *)
(* Names extends this module with the calls that use names, and has the    *)
(* specification.                                                          *)
(***************************************************************************)
EXTENDS Naturals

CONSTANTS
    Tasks,          \* tasks that call the API
    Functions,      \* the functions that they call, of those below
    Values,         \* modes, addresses, time zones and so on
    Zero,           \* the address 0.0.0.0, and any setting after a restore
    MayFail,        \* what may fail: "command", "get_dns", "malloc"
    Apart           \* calls the application keeps apart, see MayStart, and
                    \* "nomem", for a rule of its own in Names

ASSUME ValuesAre == Values \cap {Zero, "on", "nothing"} = {}
ASSUME ZeroIs == Zero \notin {"on", "nothing"}

Interfaces == {"sta", "ap", "other"}        \* arguments of type interface
Servers == {"server0", "server1"}
Settings == {"mode", "country", "softap", "smartconfig", "wps",
             "sta_ip", "ap_ip", "sta_dhcp", "ap_dhcp", "zone"} \cup Servers
Contents == Values \cup {Zero, "on"}
Aims == Settings \cup {"all"}               \* what a call may be about

VARIABLES
    regs,           \* the chip's settings
    clock,          \* the time zone of the microcontroller's clock
    pc, call,       \* where each task is, and in which call
    wish,           \* what its call is to set: a setting and a value
    tells,          \* the command it has for the chip: settings and values
    time            \* locals et, tm and tv: the zone that the time read is of

chipVars == <<regs, clock, wish, tells, time>>

Goto(t, label) == pc' = [pc EXCEPT ![t] = label]

\* A fault of the heap stops the microcontroller (module Names).
Running == \A t \in Tasks : pc[t] # "fault"

InProgress(kind) == \E t \in Tasks : call[t] = kind

\* The callers' obligation: a kind of call in Apart overlaps none of its own
\* kind, and "restore" there overlaps no call at all.
MayStart(t, kind) ==
    /\ Running
    /\ pc[t] = "idle"
    /\ kind \in Apart => ~InProgress(kind)
    /\ "restore" \in Apart =>
        /\ ~InProgress("restore")
        /\ kind = "restore" => \A u \in Tasks : pc[u] = "idle"

Begin(t, kind) == call' = [call EXCEPT ![t] = kind]

\* A wish for what every setting is: no wish at all.
NoWish == <<"mode", "nothing">>
Silence == [r \in {} |-> Zero]

ChipInit ==
    /\ regs = [r \in Settings |-> Zero] /\ clock = "unset"
    /\ wish = [t \in Tasks |-> NoWish]
    /\ tells = [t \in Tasks |-> Silence]
    /\ time = [t \in Tasks |-> "unset"]

\* A call returns to its caller.
ChipReturn(t) ==
    /\ Goto(t, "idle")
    /\ call' = [call EXCEPT ![t] = "none"]
    /\ wish' = [wish EXCEPT ![t] = NoWish]
    /\ tells' = [tells EXCEPT ![t] = Silence]
    /\ time' = [time EXCEPT ![t] = "unset"]

-----------------------------------------------------------------------------
(* What each function tells the chip, by its interface and its argument.   *)

Tell(r, v) == [s \in {r} |-> v]

\* The library's function: which of the two get DHCP, or lose it.
esp_dhcp_configure(sta, ap, en) ==
    [r \in {IF sta THEN "sta_dhcp" ELSE "ap_dhcp",
            IF ap THEN "ap_dhcp" ELSE "sta_dhcp"} |-> en]

esp_wifi_set_mode(v) == Tell("mode", v)

esp_wifi_set_country(v) == Tell("country", v)

\* The station's configuration stays in the microcontroller (WifiStation).
esp_wifi_set_config(ifx, v) ==
    IF ifx = "ap" THEN Tell("softap", v) ELSE Silence

esp_smartconfig_start == Tell("smartconfig", "on")
esp_smartconfig_stop == Tell("smartconfig", Zero)

esp_wifi_wps_enable == Tell("wps", "on")
esp_wifi_wps_disable == Tell("wps", Zero)

\* An interface that is neither is ESP_ERR_INVALID_ARG.
tcpip_adapter_set_ip_info(ifx, v) ==
    CASE ifx = "sta" -> Tell("sta_ip", v)
      [] ifx = "ap" -> Tell("ap_ip", v)
      [] OTHER -> Silence

\* The server is the soft-AP's, the client the station's.
tcpip_adapter_dhcps_start(ifx) ==
    IF ifx = "ap" THEN esp_dhcp_configure(FALSE, TRUE, "on") ELSE Silence

tcpip_adapter_dhcps_stop(ifx) ==
    IF ifx = "ap" THEN esp_dhcp_configure(FALSE, TRUE, Zero) ELSE Silence

tcpip_adapter_dhcpc_start(ifx) ==
    IF ifx = "sta" THEN esp_dhcp_configure(TRUE, FALSE, "on") ELSE Silence

tcpip_adapter_dhcpc_stop(ifx) ==
    IF ifx = "sta" THEN esp_dhcp_configure(TRUE, FALSE, Zero) ELSE Silence

\* esp_wifi_restore: the chip forgets everything it was told.
esp_wifi_restore == [r \in Settings |-> Zero]

\* What function f tells the chip ...
Told(f, ifx, v) ==
    CASE f = "esp_wifi_set_mode" -> esp_wifi_set_mode(v)
      [] f = "esp_wifi_set_country" -> esp_wifi_set_country(v)
      [] f = "esp_wifi_set_config" -> esp_wifi_set_config(ifx, v)
      [] f = "esp_smartconfig_start" -> esp_smartconfig_start
      [] f = "esp_smartconfig_stop" -> esp_smartconfig_stop
      [] f = "esp_wifi_wps_enable" -> esp_wifi_wps_enable
      [] f = "esp_wifi_wps_disable" -> esp_wifi_wps_disable
      [] f = "tcpip_adapter_set_ip_info" -> tcpip_adapter_set_ip_info(ifx, v)
      [] f = "tcpip_adapter_dhcps_start" -> tcpip_adapter_dhcps_start(ifx)
      [] f = "tcpip_adapter_dhcps_stop" -> tcpip_adapter_dhcps_stop(ifx)
      [] f = "tcpip_adapter_dhcpc_start" -> tcpip_adapter_dhcpc_start(ifx)
      [] f = "tcpip_adapter_dhcpc_stop" -> tcpip_adapter_dhcpc_stop(ifx)
      [] f = "esp_wifi_restore" -> esp_wifi_restore
      [] OTHER -> Silence

\* ... and what the documentation of f says it is for: a setting of one
\* interface, or all settings, and what becomes of it.
Concerns(f, ifx) ==
    CASE f = "esp_wifi_set_mode" -> "mode"
      [] f = "esp_wifi_set_country" -> "country"
      [] f = "esp_wifi_set_config" -> "softap"
      [] f \in {"esp_smartconfig_start", "esp_smartconfig_stop"} -> "smartconfig"
      [] f \in {"esp_wifi_wps_enable", "esp_wifi_wps_disable"} -> "wps"
      [] f = "tcpip_adapter_set_ip_info" ->
            IF ifx = "sta" THEN "sta_ip" ELSE "ap_ip"
      [] f \in {"tcpip_adapter_dhcps_start", "tcpip_adapter_dhcps_stop"} ->
            "ap_dhcp"
      [] f = "esp_wifi_restore" -> "all"
      [] OTHER -> "sta_dhcp"

Starting == {"esp_smartconfig_start", "esp_wifi_wps_enable",
             "tcpip_adapter_dhcps_start", "tcpip_adapter_dhcpc_start"}
Stopping == {"esp_smartconfig_stop", "esp_wifi_wps_disable",
             "tcpip_adapter_dhcps_stop", "tcpip_adapter_dhcpc_stop",
             "esp_wifi_restore"}

Aim(f, v) ==
    IF f \in Starting THEN "on" ELSE IF f \in Stopping THEN Zero ELSE v

-----------------------------------------------------------------------------
(* The choices inside the actions, each after mistakes in it that a        *)
(* property of this module catches.                                        *)

\* The server that dns_setserver is not about.
Same(numdns) == numdns
Other(numdns) == IF numdns = "server0" THEN "server1" ELSE "server0"

\* ntp_conf_time goes on after a failed command.
Anyway(ok) == TRUE
IfOk(ok) == ok

-----------------------------------------------------------------------------
(* Functions that make one command.                                        *)

\* A call that tells the chip nothing has returned an error at once.
SettingCall(t) ==
    /\ \E f \in Functions \ {"dns_setserver", "ntp_conf_time"},
          ifx \in Interfaces, v \in Values :
        /\ Told(f, ifx, v) # Silence
        /\ LET kind == IF f = "esp_wifi_restore" THEN "restore" ELSE "setting"
           IN  MayStart(t, kind) /\ Begin(t, kind)
        /\ wish' = [wish EXCEPT ![t] = <<Concerns(f, ifx), Aim(f, v)>>]
        /\ tells' = [tells EXCEPT ![t] = Told(f, ifx, v)]
    /\ Goto(t, "tell")
    /\ UNCHANGED <<regs, clock, time>>

\* The chip executes the command of a blocking call, which returns.
Execute(t) ==
    /\ pc[t] = "tell"
    /\ regs' = [r \in Settings |->
                    IF r \in DOMAIN tells[t] THEN tells[t][r] ELSE regs[r]]
    /\ ChipReturn(t)
    /\ UNCHANGED clock

\* The command fails and changes nothing: ESP_FAIL, or nothing at all from
\* dns_setserver, which returns void.
ExecuteFails(t) ==
    /\ pc[t] = "tell" /\ "command" \in MayFail
    /\ ChipReturn(t)
    /\ UNCHANGED <<regs, clock>>

-----------------------------------------------------------------------------
(* dns_setserver: the chip takes both servers in one command, so the other *)
(* one is read first.                                                      *)

DnsSetServer(t) ==
    /\ "dns_setserver" \in Functions
    /\ MayStart(t, "setserver")
    /\ \E numdns \in Servers, v \in Values :
        wish' = [wish EXCEPT ![t] = <<numdns, v>>]
    /\ Begin(t, "setserver")
    /\ Goto(t, "dns_get")
    /\ UNCHANGED <<regs, clock, tells, time>>

\* dns_getserver(other), whose failure is the address 0.0.0.0.
DnsGetServer(t) ==
    /\ pc[t] = "dns_get"
    /\ LET numdns == wish[t][1]
       IN  \E ip \in {regs[Other(numdns)]}
                        \cup (IF "get_dns" \in MayFail THEN {Zero} ELSE {}) :
            tells' = [tells EXCEPT ![t] =
                [s \in Servers |-> IF s = numdns THEN wish[t][2] ELSE ip]]
    /\ Goto(t, "tell")
    /\ UNCHANGED <<regs, clock, call, wish, time>>

-----------------------------------------------------------------------------
(* ntp_conf_time: the zone, the time, the clock.                           *)

NtpConfTime(t) ==
    /\ "ntp_conf_time" \in Functions
    /\ MayStart(t, "ntp")
    /\ \E v \in Values : wish' = [wish EXCEPT ![t] = <<"zone", v>>]
    /\ Begin(t, "ntp")
    /\ Goto(t, "ntp_conf")
    /\ UNCHANGED <<regs, clock, tells, time>>

NtpConfigure(t) ==
    /\ pc[t] = "ntp_conf"
    /\ \E ok \in {TRUE, "command" \notin MayFail} :
        /\ regs' = IF ok THEN [regs EXCEPT !["zone"] = wish[t][2]] ELSE regs
        /\ IF IfOk(ok) THEN Goto(t, "ntp_get") /\ UNCHANGED <<call, wish, tells, time>>
                       ELSE ChipReturn(t)
    /\ UNCHANGED clock

NtpGetTime(t) ==
    /\ pc[t] = "ntp_get"
    /\ \/ /\ time' = [time EXCEPT ![t] = regs["zone"]]
          /\ Goto(t, "ntp_clock")
          /\ UNCHANGED <<call, wish, tells>>
       \/ "command" \in MayFail /\ ChipReturn(t)
    /\ UNCHANGED <<regs, clock>>

SetTimeOfDay(t) ==
    /\ pc[t] = "ntp_clock"
    /\ clock' = time[t]
    /\ ChipReturn(t)
    /\ UNCHANGED regs

-----------------------------------------------------------------------------
ChipStart(t) == SettingCall(t) \/ DnsSetServer(t) \/ NtpConfTime(t)

ChipWork(t) ==
    \/ Execute(t) \/ ExecuteFails(t) \/ DnsGetServer(t)
    \/ NtpConfigure(t) \/ NtpGetTime(t) \/ SetTimeOfDay(t)

ChipStep(t) == Running /\ (ChipStart(t) \/ ChipWork(t))

-----------------------------------------------------------------------------
(* What makes the settings correct.                                        *)

ChipTypeOK ==
    /\ regs \in [Settings -> Contents]
    /\ clock \in Contents \cup {"unset"}
    /\ wish \in [Tasks -> Aims \X (Contents \cup {"nothing"})]
    /\ DOMAIN tells = Tasks
    /\ \A t \in Tasks : \E R \in SUBSET Settings : tells[t] \in [R -> Contents]
    /\ time \in [Tasks -> Contents \cup {"unset"}]

\* ntp_conf_time sets the clock to the time in the zone that its caller asked
\* for.
ClockOfOwnZone ==
    [][\A t \in Tasks : pc[t] = "ntp_clock" /\ pc'[t] = "idle" =>
        clock' = wish[t][2]]_<<pc, chipVars>>

Wishes == {wish[t] : t \in Tasks} \ {NoWish}

Promise == INSTANCE Registers WITH Names <- Settings, Default <- Zero,
                                   All <- "all", wishes <- Wishes

\* Each setting of the chip changes only as a call asks for it, whatever
\* other calls are in progress: DHCP of one interface with that of the
\* other, one server with the other; and all change only for esp_wifi_restore.
KeepsRegisters == Promise!Spec
=============================================================================
