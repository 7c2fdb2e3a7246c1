-------------------------------- MODULE Names --------------------------------
(***************************************************************************)
(* The calls of the library that deal in names: atu_gethostbyname          *)
(* (atu_netdb.c 13-46) with its one static answer, and the hostname of     *)
(* mDNS (mdns.c 54-118), a string on the heap that mdns_hostname_set       *)
(* replaces and mdns_service_add hands to the chip.  They share the tasks  *)
(* and the chip with the calls of ChipSettings, which this module extends. *)
(*                                                                         *)
(* The heap is its blocks: which are allocated, and what string each has.  *)
(***************************************************************************)
EXTENDS ChipSettings

CONSTANTS
    Hosts,          \* names of hosts and services; a host's address is its name
    Blocks,         \* blocks of the heap that malloc can give
    Null            \* a NULL pointer

ASSUME NullIsNoBlock == Null \notin Blocks
ASSUME NoHostIs == "none" \notin Hosts

VARIABLES
    h,              \* the static hostent: the host that its address is of
    asked,          \* the host that each task asked for and did not use yet
    addr,           \* local addr of atu_gethostbyname
    mdns_hostname,  \* the pointer
    allocated,      \* blocks of the heap that are in use
    text,           \* the string in each block
    name,           \* local name of the mDNS calls, a pointer
    new,            \* argument hostname
    set,            \* the hostname set last, for the properties
    lost            \* that a replacement failed: mdns_hostname was freed

host == <<h, asked, addr>>
mdns == <<mdns_hostname, allocated, text, name, new, set, lost>>
vars == <<pc, call, chipVars, host, mdns>>

Idle(t) == pc[t] = "idle"

Init ==
    /\ ChipInit
    /\ pc = [t \in Tasks |-> "idle"]
    /\ call = [t \in Tasks |-> "none"]
    /\ h = "none"
    /\ asked = [t \in Tasks |-> "none"]
    /\ addr = [t \in Tasks |-> "none"]
    /\ mdns_hostname = Null /\ allocated = {}
    /\ text = [b \in Blocks |-> "none"]
    /\ name = [t \in Tasks |-> Null]
    /\ new = [t \in Tasks |-> "none"]
    /\ set = "none" /\ lost = FALSE

End(t) == Goto(t, "idle") /\ call' = [call EXCEPT ![t] = "none"]

-----------------------------------------------------------------------------
(* The choices inside the actions, each after mistakes in it that a        *)
(* property of this module catches.                                        *)

\* What is freed before a new name is allocated: the old one.
Kept(t) == {}
Freed(t) == {name[t]}

\* The pointer that mdns_hostname_set leaves behind.
KeepFirst(t) == IF mdns_hostname = Null THEN name[t] ELSE mdns_hostname
NewName(t) == name[t]

\* The name that mdns_service_add advertises when it is given none.
Hostname == mdns_hostname

\* The address that atu_gethostbyname leaves in the static answer.
OldAnswer(t) == h
NewAnswer(t) == addr[t]

-----------------------------------------------------------------------------
(* atu_gethostbyname.                                                      *)

\* "answer": no task asks while another has an answer that it did not use.
GetHostByName(t) ==
    /\ MayStart(t, "host")
    /\ "answer" \in Apart => \A u \in Tasks : asked[u] = "none"
    /\ \E n \in Hosts : asked' = [asked EXCEPT ![t] = n]
    /\ Begin(t, "host")
    /\ Goto(t, "lookup")
    /\ UNCHANGED <<chipVars, h, addr, mdns>>

\* dns_gethostbyname waits for the chip, which asks a server; without an
\* answer it is -1 and the caller gets NULL.
LookupHost(t) ==
    /\ pc[t] = "lookup"
    /\ \/ /\ addr' = [addr EXCEPT ![t] = asked[t]]
          /\ Goto(t, "answer")
          /\ UNCHANGED <<call, asked>>
       \/ /\ "command" \in MayFail
          /\ asked' = [asked EXCEPT ![t] = "none"]
          /\ End(t)
          /\ UNCHANGED addr
    /\ UNCHANGED <<chipVars, h, mdns>>

\* h.addr[0] = the address, and h is what the caller gets.
Answer(t) ==
    /\ pc[t] = "answer"
    /\ h' = NewAnswer(t)
    /\ addr' = [addr EXCEPT ![t] = "none"]
    /\ Goto(t, "use")
    /\ UNCHANGED <<call, chipVars, asked, mdns>>

\* The caller reads the address it was given a pointer to.
UseAnswer(t) ==
    /\ pc[t] = "use"
    /\ asked' = [asked EXCEPT ![t] = "none"]
    /\ End(t)
    /\ UNCHANGED <<chipVars, h, addr, mdns>>

-----------------------------------------------------------------------------
(* mdns_hostname_set.                                                      *)

\* "nomem": the application that was told ESP_ERR_NO_MEM when it replaced the
\* hostname makes no more calls that use it.
MayUseHostname == "nomem" \in Apart => ~lost

\* "hostname": it overlaps no other call that uses the hostname.
HostnameSet(t) ==
    /\ MayStart(t, "hostname")
    /\ MayUseHostname
    /\ "hostname" \in Apart => ~InProgress("service")
    /\ \E n \in Hosts : new' = [new EXCEPT ![t] = n]
    /\ name' = [name EXCEPT ![t] = mdns_hostname]
    /\ Begin(t, "hostname")
    /\ Goto(t, IF mdns_hostname # Null THEN "free" ELSE "malloc")
    /\ UNCHANGED <<chipVars, host, mdns_hostname, allocated, text, set, lost>>

\* free(name): freeing what is free already destroys the heap.
Free(t) ==
    /\ pc[t] = "free"
    /\ IF name[t] \in allocated
       THEN /\ Goto(t, "malloc")
            /\ allocated' = allocated \ Freed(t)
            /\ text' = [b \in Blocks |-> IF b \in Freed(t) THEN "none"
                                         ELSE text[b]]
       ELSE Goto(t, "fault") /\ UNCHANGED <<allocated, text>>
    /\ UNCHANGED <<call, chipVars, host, mdns_hostname, name, new, set, lost>>

Malloc(t) ==
    /\ pc[t] = "malloc"
    /\ \E b \in Blocks \ allocated :
        /\ allocated' = allocated \cup {b}
        /\ name' = [name EXCEPT ![t] = b]
    /\ Goto(t, "copy")
    /\ UNCHANGED <<call, chipVars, host, mdns_hostname, text, new, set, lost>>

\* malloc has no memory: ESP_ERR_NO_MEM, and mdns_hostname still points to
\* the old name, if there was one, that Free gave back.
MallocFails(t) ==
    /\ pc[t] = "malloc"
    /\ "malloc" \in MayFail \/ allocated = Blocks
    /\ name' = [name EXCEPT ![t] = Null]
    /\ new' = [new EXCEPT ![t] = "none"]
    /\ lost' = (lost \/ name[t] # Null)
    /\ End(t)
    /\ UNCHANGED <<chipVars, host, mdns_hostname, allocated, text, set>>

CopyName(t) ==
    /\ pc[t] = "copy"
    /\ text' = [text EXCEPT ![name[t]] = new[t]]
    /\ Goto(t, "publish")
    /\ UNCHANGED <<call, chipVars, host, mdns_hostname, allocated, name, new,
                   set, lost>>

Publish(t) ==
    /\ pc[t] = "publish"
    /\ mdns_hostname' = NewName(t)
    /\ set' = new[t]
    /\ Goto(t, "configure")
    /\ lost' = FALSE
    /\ UNCHANGED <<call, chipVars, host, allocated, text, name, new>>

-----------------------------------------------------------------------------
(* mdns_service_add.                                                       *)

\* The instance name if there is one, and else the hostname, set or not.
ServiceAdd(t) ==
    /\ MayStart(t, "service")
    /\ "hostname" \in Apart => ~InProgress("hostname")
    /\ \/ \E n \in Hosts :
            new' = [new EXCEPT ![t] = n] /\ UNCHANGED name
       \/ /\ MayUseHostname
          /\ name' = [name EXCEPT ![t] = Hostname]
          /\ UNCHANGED new
    /\ Begin(t, "service")
    /\ Goto(t, "configure")
    /\ UNCHANGED <<chipVars, host, mdns_hostname, allocated, text, set, lost>>

-----------------------------------------------------------------------------
(* esp_mdns_configure of both: the library reads the string, and both      *)
(* return; whether the chip then advertises it is nothing they keep.       *)

Configure(t) ==
    /\ pc[t] = "configure"
    /\ IF name[t] \in allocated \cup {Null}
       THEN End(t)
       ELSE Goto(t, "fault") /\ UNCHANGED call
    /\ name' = [name EXCEPT ![t] = Null]
    /\ new' = [new EXCEPT ![t] = "none"]
    /\ UNCHANGED <<chipVars, host, mdns_hostname, allocated, text, set, lost>>

-----------------------------------------------------------------------------
NameStart(t) == GetHostByName(t) \/ HostnameSet(t) \/ ServiceAdd(t)

NameWork(t) ==
    /\ Running
    /\ \/ LookupHost(t) \/ Answer(t) \/ UseAnswer(t)
       \/ Free(t) \/ Malloc(t) \/ MallocFails(t) \/ CopyName(t)
       \/ Publish(t) \/ Configure(t)

Next ==
    \E t \in Tasks :
        \/ ChipStep(t) /\ UNCHANGED <<host, mdns>>
        \/ NameStart(t)
        \/ NameWork(t)

Spec == Init /\ [][Next]_vars

-----------------------------------------------------------------------------
(* What makes names correct.                                               *)

Pcs == {"idle", "tell", "dns_get", "ntp_conf", "ntp_get", "ntp_clock",
        "lookup", "answer", "use", "free", "malloc", "copy", "publish",
        "configure", "fault"}

\* Every variable has its type, and the answer that a caller got a pointer to
\* has an address.
TypeOK ==
    /\ ChipTypeOK
    /\ pc \in [Tasks -> Pcs]
    /\ call \in [Tasks -> {"none", "setting", "restore", "setserver", "ntp",
                           "host", "hostname", "service"}]
    /\ h \in Hosts \cup {"none"}
    /\ \A t \in Tasks : pc[t] = "use" => h \in Hosts
    /\ {asked, addr, new} \subseteq [Tasks -> Hosts \cup {"none"}]
    /\ mdns_hostname \in Blocks \cup {Null}
    /\ allocated \in SUBSET Blocks
    /\ text \in [Blocks -> Hosts \cup {"none"}]
    /\ name \in [Tasks -> Blocks \cup {Null}]
    /\ set \in Hosts \cup {"none"}
    /\ lost \in BOOLEAN

\* The address that a caller of atu_gethostbyname reads is of the host that
\* it asked for, although every call returns the same static memory.
HostIsTheOneAsked ==
    [][\A t \in Tasks : pc[t] = "use" => h = asked[t] \/ pc'[t] = "use"]_vars

\* No block is freed twice or read after it was freed: the pointers that calls
\* free or read are to strings that are there, whichever malloc fails.
HeapSafe == Running

\* Between calls the heap has one string of this library at most: the
\* hostname, the one that was set last; and none, nothing half made left
\* behind, once a call that replaced it had no memory.
HostnameKept ==
    (\A t \in Tasks : Idle(t)) =>
        IF lost
        THEN allocated = {}
        ELSE /\ allocated = {mdns_hostname} \ {Null}
             /\ mdns_hostname # Null => text[mdns_hostname] = set
=============================================================================
