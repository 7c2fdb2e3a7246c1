----------------------------- MODULE StationLink -----------------------------
(***************************************************************************)
(* What esp_wifi.c does with a station configuration that an application   *)
(* reads back: esp_wifi_set_config (808-814), esp_wifi_get_config          *)
(* (840-855), esp_wifi_connect (201-216), esp_wifi_disconnect (227-229)    *)
(* and esp_wifi_sta_get_ap_info (390-402), called one after the other by   *)
(* one task, while access points come and go.  esp_wifi_get_config does    *)
(* not read sta_config, but asks the chip which access point it is         *)
(* connected to, and fills in a part of the caller's structure.            *)
(*                                                                         *)
(* That the library reads sta_config later, on its own thread, is in       *)
(* WifiStation; here it does so when it gets the answer.                   *)
(***************************************************************************)
EXTENDS Naturals

CONSTANTS
    Points,         \* access points, by their MAC address
    Networks,       \* their names; the password of each is called like it
    None,           \* no name, no address, NULL
    Contract        \* what the application keeps to: see below

\* "config": no configuration is set during a join.  "read": a configuration is
\* read back only while the station is connected with the one set last.
ASSUME NoneIsNot == None \notin Points \cup Networks \cup {"any", "bssid"}
ASSUME ObligationsAre == Contract \subseteq {"config", "read"}

Names == Networks \cup {None}
Addresses == Points \cup {None}

\* wifi_sta_config_t, as far as it is used, and a zeroed one.
StaConfigs == [ssid : Names, password : Names, bssid_set : BOOLEAN,
               bssid : Addresses]
Zeroed == [ssid |-> None, password |-> None, bssid_set |-> FALSE,
           bssid |-> None]

VARIABLES
    \* the application's structures
    sta,            \* its wifi_config_t
    record,         \* its wifi_ap_record_t: name and address
    \* static memory of esp_wifi.c
    sta_config, sta_to_connect,
    \* the library, the chip, and the air
    joining,        \* a join is under way: None, "any" or "bssid"
    link,           \* the access point the station is connected to
    air,            \* the network of each access point, None when it is off
    \* what is known, for the properties
    want,           \* the access point that the application asks for in sta
    setwant,        \* the one it asked for in what it set last, None for any
    current         \* the station is connected with what was set last

app == <<sta, record>>
static == <<sta_config, sta_to_connect>>
chip == <<joining, link>>
known == <<want, setwant, current>>
vars == <<app, static, chip, air, known>>

Init ==
    /\ sta = Zeroed /\ record = [ssid |-> None, bssid |-> None]
    /\ sta_config = Zeroed /\ sta_to_connect = FALSE
    /\ joining = None /\ link = None
    /\ air \in [Points -> Networks]
    /\ want = None /\ setwant = None /\ current = FALSE

-----------------------------------------------------------------------------
(* The choices inside the actions, each after mistakes in it that a        *)
(* property of this module catches.                                        *)

\* Whether esp_wifi_connect has a configuration.
Unchecked == TRUE
HasConfig == sta_to_connect

\* What it gives esp_sta_join for the address.
Mac == IF sta_config.bssid_set THEN "bssid" ELSE "any"

\* What esp_wifi_get_config fills in, of the access point it is told of.
WithoutBssid(p) == [sta EXCEPT !.ssid = air[p], !.bssid_set = TRUE]
Filled(p) == [sta EXCEPT !.ssid = air[p], !.bssid_set = TRUE, !.bssid = p]

-----------------------------------------------------------------------------
(* The application fills in its structures.                                *)

\* For a network, or for one access point of it.
FillSta ==
    /\ \E n \in Networks, p \in Addresses :
        /\ sta' = [ssid |-> n, password |-> n, bssid_set |-> p # None,
                   bssid |-> p]
        /\ want' = p
    /\ UNCHANGED <<record, static, chip, air, setwant, current>>

\* For the access point that it was told of.
FillFromRecord ==
    /\ record.ssid # None
    /\ sta' = [ssid |-> record.ssid, password |-> record.ssid,
               bssid_set |-> TRUE, bssid |-> record.bssid]
    /\ want' = record.bssid
    /\ UNCHANGED <<record, static, chip, air, setwant, current>>

-----------------------------------------------------------------------------
(* Its calls.  One that the library refuses changes nothing.               *)

SetConfigSta ==
    /\ "config" \in Contract => joining = None
    /\ sta_config' = sta /\ sta_to_connect' = TRUE
    /\ setwant' = want /\ current' = FALSE
    /\ UNCHANGED <<app, chip, air, want>>

\* The command waits for its turn, so that a join under way ends before it.
\* To the application it is the configuration of the interface, which asks for
\* what was set.
GetConfigSta ==
    /\ joining = None /\ link # None
    /\ "read" \in Contract => current
    /\ sta' = Filled(link)
    /\ want' = setwant
    /\ UNCHANGED <<record, static, chip, air, setwant, current>>

GetApInfo ==
    /\ joining = None /\ link # None
    /\ record' = [ssid |-> air[link], bssid |-> link]
    /\ UNCHANGED <<sta, static, chip, air, known>>

\* Without a configuration it is ESP_ERR_WIFI_CONN.
Connect ==
    /\ HasConfig /\ joining = None
    /\ joining' = Mac
    /\ UNCHANGED <<app, static, link, air, known>>

Disconnect ==
    /\ joining = None
    /\ link' = None
    /\ UNCHANGED <<app, static, joining, air, known>>

-----------------------------------------------------------------------------
(* The chip, and the air.                                                  *)

\* It connects to an access point that is as it was told, or to none.
Fits(p) ==
    /\ air[p] # None
    /\ air[p] = sta_config.ssid /\ sta_config.password = sta_config.ssid
    /\ joining = "bssid" => p = sta_config.bssid

Joined ==
    /\ joining # None
    /\ joining' = None
    /\ link' \in {p \in Points : Fits(p)} \cup {None}
    /\ current' = (link' # None)
    /\ UNCHANGED <<app, static, air, want, setwant>>

\* An access point goes, or comes back with the same name or another one.
Change ==
    /\ \E p \in Points, n \in Names :
        /\ air' = [air EXCEPT ![p] = n]
        /\ link' = IF link = p THEN None ELSE link
    /\ UNCHANGED <<app, static, joining, known>>

-----------------------------------------------------------------------------
Application ==
    \/ FillSta \/ FillFromRecord \/ SetConfigSta \/ GetConfigSta
    \/ GetApInfo \/ Connect \/ Disconnect

Next == Application \/ Joined \/ Change

Spec == Init /\ [][Next]_vars

-----------------------------------------------------------------------------
(* What makes connecting correct.                                          *)

\* Every variable has its type, the station is connected to an access point
\* that is there, and a join is of a configuration that was set.
TypeOK ==
    /\ sta \in StaConfigs
    /\ record \in [ssid : Names, bssid : Addresses]
    /\ sta_config \in StaConfigs /\ sta_to_connect \in BOOLEAN
    /\ joining \in {None, "any", "bssid"} /\ (joining # None => sta_to_connect)
    /\ link \in Addresses /\ (link # None => air[link] # None)
    /\ air \in [Points -> Names]
    /\ {want, setwant} \subseteq Addresses /\ current \in BOOLEAN

\* The access point that an application asked for, itself or with what
\* esp_wifi_sta_get_ap_info told it, is the one it gets, or none: also after the
\* configuration was read back with esp_wifi_get_config and set again, any
\* number of times, and not another access point of the same name, whatever the
\* structure held before.
AskedIsKept ==
    [][joining # None /\ joining' = None /\ link' # None /\ setwant # None =>
        link' = setwant]_vars

\* And an application that asked for none is not bound to one: a join checks
\* the address only if it was asked to.
AnyStaysAny ==
    [][joining = None /\ joining' = "bssid" => setwant # None]_vars
=============================================================================
