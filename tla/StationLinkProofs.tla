-------------------------- MODULE StationLinkProofs --------------------------
(***************************************************************************)
(* Proofs about StationLink, for any access points, networks and orders of *)
(* calls.  The invariant says what the structures, the command that is out *)
(* and the connection have to do with what the application asked for: a    *)
(* structure names the access point it was asked for (ReadInv), a join     *)
(* that is under way was told to look at the address exactly if the        *)
(* configuration says so (JoinInv), and a station that is connected with   *)
(* what was set is where it was asked to be (LinkInv).                     *)
(***************************************************************************)
EXTENDS StationLink, TLAPS

ReadInv ==
    /\ want # None => sta.bssid_set = TRUE /\ sta.bssid = want
    /\ setwant # None =>
        sta_config.bssid_set = TRUE /\ sta_config.bssid = setwant

JoinInv == joining # None => joining = Mac

LinkInv == current /\ link # None /\ setwant # None => link = setwant

IInv == TypeOK /\ ReadInv /\ JoinInv /\ LinkInv

-----------------------------------------------------------------------------
(* Types.                                                                  *)

\* Zeroed structures have their types.
LEMMA Zeros == Zeroed \in StaConfigs
BY DEF Zeroed, StaConfigs, Names, Addresses

\* What esp_wifi_get_config fills in is a configuration of that access point.
LEMMA FilledIs ==
    ASSUME TypeOK, NEW p \in Points
    PROVE  /\ Filled(p) \in StaConfigs
           /\ Filled(p).bssid_set = TRUE /\ Filled(p).bssid = p
<1>1. sta \in StaConfigs /\ air[p] \in Names /\ p \in Addresses
    BY DEF TypeOK, Addresses
<1>2. Filled(p) \in StaConfigs
    BY <1>1 DEF Filled, StaConfigs
<1>3. Filled(p).bssid_set = TRUE /\ Filled(p).bssid = p
    BY <1>1 DEF Filled, StaConfigs
<1> QED
    BY <1>2, <1>3

\* The types hold at the start.
LEMMA TypeStarts == Init => TypeOK
<1> SUFFICES ASSUME Init PROVE TypeOK
    OBVIOUS
<1>1. air \in [Points -> Names] /\ None \in Names /\ None \in Addresses
    BY DEF Init, Names, Addresses
<1>2. record \in [ssid : Names, bssid : Addresses]
    BY <1>1 DEF Init
<1> QED
    BY <1>1, <1>2, Zeros DEF Init, TypeOK

\* Every step keeps the types, whatever the application does.
LEMMA TypeStep ==
    ASSUME TypeOK, [Next]_vars
    PROVE  TypeOK'
<1> USE DEF TypeOK, app, static, chip, known, Names, Addresses
<1>1. CASE FillSta
    BY <1>1 DEF FillSta, StaConfigs
<1>2. CASE FillFromRecord
    BY <1>2 DEF FillFromRecord, StaConfigs
<1>3. CASE SetConfigSta
    BY <1>3 DEF SetConfigSta
<1>4. CASE GetConfigSta
    <2>1. link \in Points
        BY <1>4 DEF GetConfigSta
    <2>2. Filled(link) \in StaConfigs
        BY <2>1, FilledIs
    <2> QED
        BY <1>4, <2>1, <2>2 DEF GetConfigSta
<1>5. CASE GetApInfo
    BY <1>5 DEF GetApInfo
<1>6. CASE Connect
    BY <1>6 DEF Connect, HasConfig, Mac
<1>7. CASE Disconnect
    BY <1>7 DEF Disconnect
<1>8. CASE Joined
    BY <1>8 DEF Joined, Fits
<1>9. CASE Change
    BY <1>9 DEF Change
<1>10. CASE UNCHANGED vars
    BY <1>10 DEF vars
<1> QED
    BY <1>1, <1>2, <1>3, <1>4, <1>5, <1>6, <1>7, <1>8, <1>9, <1>10 DEF Next,
        Application

-----------------------------------------------------------------------------
(* The rest of the invariant.                                              *)

\* A structure names the access point that was asked for until it is filled in
\* anew, and so does its copy in sta_config; the obligation on reading is what
\* makes this true of a structure that was read back.
LEMMA ReadStep ==
    ASSUME "read" \in Contract, IInv, [Next]_vars
    PROVE  ReadInv'
<1> USE DEF IInv, ReadInv, app, static, chip, known
<1>1. CASE FillSta
    <2>1. PICK n \in Networks, p \in Addresses :
            /\ sta' = [ssid |-> n, password |-> n, bssid_set |-> p # None,
                       bssid |-> p]
            /\ want' = p
        BY <1>1 DEF FillSta
    <2>2. sta'.bssid_set = (p # None) /\ sta'.bssid = p
        BY <2>1, Zenon
    <2>3. UNCHANGED <<sta_config, setwant>>
        BY <1>1 DEF FillSta
    <2> QED
        BY <2>1, <2>2, <2>3
<1>2. CASE FillFromRecord
    BY <1>2 DEF FillFromRecord
<1>3. CASE SetConfigSta
    BY <1>3 DEF SetConfigSta
<1>4. CASE GetConfigSta
    <2>1. link \in Points
        BY <1>4 DEF GetConfigSta, TypeOK, Addresses
    <2>2. /\ sta' = Filled(link) /\ want' = setwant
          /\ UNCHANGED <<sta_config, setwant>>
        BY <1>4 DEF GetConfigSta
    <2>3. sta'.bssid_set = TRUE /\ sta'.bssid = link
        BY <2>1, <2>2, FilledIs
    <2>4. setwant # None => link = setwant
        BY <1>4 DEF GetConfigSta, LinkInv
    <2> QED
        BY <2>2, <2>3, <2>4
<1>5. CASE GetApInfo \/ Connect \/ Disconnect
    BY <1>5 DEF GetApInfo, Connect, Disconnect
<1>6. CASE Joined \/ Change \/ UNCHANGED vars
    BY <1>6 DEF Joined, Change, vars
<1> QED
    BY <1>1, <1>2, <1>3, <1>4, <1>5, <1>6 DEF Next, Application

\* A join leads to the access point that was asked for, or to none.
LEMMA JoinedIsAsked ==
    ASSUME IInv, Joined, link' # None, setwant # None
    PROVE  link' = setwant
<1>1. joining = Mac
    BY DEF IInv, JoinInv, Joined
<1>2. sta_config.bssid_set = TRUE /\ sta_config.bssid = setwant
    BY DEF IInv, ReadInv
<1>3. joining = "bssid"
    BY <1>1, <1>2 DEF Mac
<1>4. Fits(link')
    BY DEF Joined
<1> QED
    BY <1>2, <1>3, <1>4 DEF Fits

\* So the station is where it was asked to be until something else is set.
LEMMA LinkStep ==
    ASSUME IInv, [Next]_vars
    PROVE  LinkInv'
<1> USE DEF IInv, LinkInv, app, static, chip, known
<1>1. CASE FillSta \/ FillFromRecord
    BY <1>1 DEF FillSta, FillFromRecord
<1>2. CASE SetConfigSta \/ GetConfigSta
    BY <1>2 DEF SetConfigSta, GetConfigSta
<1>3. CASE GetApInfo \/ Connect \/ Disconnect
    BY <1>3 DEF GetApInfo, Connect, Disconnect
<1>4. CASE Joined
    BY <1>4, JoinedIsAsked DEF Joined
<1>5. CASE Change \/ UNCHANGED vars
    BY <1>5 DEF Change, vars
<1> QED
    BY <1>1, <1>2, <1>3, <1>4, <1>5 DEF Next, Application

\* The obligation on configurations counts here: they stay while a join is under
\* way.
LEMMA JoinStep ==
    ASSUME "config" \in Contract, JoinInv, [Next]_vars
    PROVE  JoinInv'
<1> USE DEF JoinInv, Mac, app, static, chip, known
<1>1. CASE FillSta \/ FillFromRecord
    BY <1>1 DEF FillSta, FillFromRecord
<1>2. CASE SetConfigSta \/ GetConfigSta
    BY <1>2 DEF SetConfigSta, GetConfigSta
<1>3. CASE GetApInfo \/ Connect \/ Disconnect
    BY <1>3 DEF GetApInfo, Connect, Disconnect
<1>4. CASE Joined \/ Change \/ UNCHANGED vars
    BY <1>4 DEF Joined, Change, vars
<1> QED
    BY <1>1, <1>2, <1>3, <1>4 DEF Next, Application

\* Nothing was read or set yet.
LEMMA Starts == Init => IInv
BY TypeStarts DEF Init, IInv, ReadInv, JoinInv, LinkInv

\* The inductive invariant, under the two obligations.
LEMMA Always ==
    ASSUME {"config", "read"} \subseteq Contract
    PROVE  Spec => []IInv
<1>1. IInv /\ [Next]_vars => IInv'
    BY TypeStep, ReadStep, JoinStep, LinkStep DEF IInv
<1> QED
    BY <1>1, Starts, PTL DEF Spec

\* Only the chip's answer to a join makes a connection.
LEMMA OnlyJoined ==
    ASSUME TypeOK, [Next]_vars, joining # None, joining' = None
    PROVE  Joined
BY NoneIsNot DEF Next, Application, FillSta, FillFromRecord, SetConfigSta,
    GetConfigSta, GetApInfo, Connect, Disconnect, Change, vars, app, static,
    chip, known

-----------------------------------------------------------------------------
(* What follows for the application.                                       *)

\* The structures and the chip's settings keep their types, and the station
\* is connected only to an access point that is there; no obligation needed.
THEOREM TypeCorrect == Spec => []TypeOK
<1>1. TypeOK /\ [Next]_vars => TypeOK'
    BY TypeStep
<1> QED
    BY <1>1, TypeStarts, PTL DEF Spec

\* The access point that was asked for is the one the station gets, or none,
\* whatever was read back and set again before.
THEOREM AskedIsReached ==
    ASSUME {"config", "read"} \subseteq Contract
    PROVE  Spec => AskedIsKept
<1>1. ASSUME IInv, [Next]_vars, joining # None, joining' = None, link' # None,
             setwant # None
      PROVE  link' = setwant
    BY <1>1, OnlyJoined, JoinedIsAsked DEF IInv
<1>2. IInv /\ [Next]_vars =>
        [joining # None /\ joining' = None /\ link' # None /\ setwant # None =>
            link' = setwant]_vars
    BY <1>1
<1> QED
    BY <1>2, Always, PTL DEF Spec, AskedIsKept
=============================================================================
