------------------------------- MODULE MCNames -------------------------------
(* Names, and with it ChipSettings, on small instances.  Tasks, values,    *)
(* hosts and blocks of the heap are each alike.                            *)
EXTENDS Names, TLC

Symmetry ==
    Permutations(Tasks) \cup Permutations(Values) \cup Permutations(Hosts)
        \cup Permutations(Blocks)

\* One function that sets, one that ends and one that concerns the other
\* interface: they and the three of several commands change four settings
\* that can be mistaken for each other.
SomeFunctions ==
    {"dns_setserver", "ntp_conf_time", "esp_wifi_restore",
     "tcpip_adapter_dhcps_start", "tcpip_adapter_dhcpc_start",
     "tcpip_adapter_dhcpc_stop"}

\* What the application keeps apart for everything here to hold.
AllApart == {"setserver", "ntp", "restore", "answer", "hostname", "nomem"}
=============================================================================
