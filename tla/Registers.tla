------------------------------ MODULE Registers ------------------------------
(***************************************************************************)
(* What the settings of the WiFi chip promise the tasks that use them: a   *)
(* setting changes only because a call in progress asks for it, to the     *)
(* value it asks for, and no other setting changes with it, unless a call  *)
(* asks for all of them to be as in a chip that is new.  ChipSettings      *)
(* implements this specification when calls of dns_setserver do not        *)
(* overlap and the chip can tell its servers.                              *)
(***************************************************************************)
CONSTANTS
    Names,          \* the settings
    Default,        \* what each of them is in a chip that was restored
    All             \* what a call asks for that restores the chip

VARIABLES
    regs,           \* the setting of each name
    wishes          \* pairs of a name, or All, and a value that calls ask for

Restored == [r \in Names |-> Default]

Init == regs = Restored /\ wishes = {}

\* Calls begin, give up or end.
Wish == UNCHANGED regs

\* The chip does what one of them asks for, which may end that call.
Grant ==
    \E w \in wishes : w[1] \in Names /\ regs' = [regs EXCEPT ![w[1]] = w[2]]

Restore == \E w \in wishes : w[1] = All /\ regs' = Restored

Next == Wish \/ Grant \/ Restore

Spec == Init /\ [][Next]_<<regs, wishes>>
=============================================================================
