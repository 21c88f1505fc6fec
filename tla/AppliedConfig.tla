---------------------------- MODULE AppliedConfig ----------------------------
(***************************************************************************)
(* What a gateway promises about its WireGuard configuration: the hub       *)
(* wants one, the gateway runs one (or, while it changes, none as a whole), *)
(* records one only while it runs it as a whole, and reports what it        *)
(* recorded.                                                               *)
(***************************************************************************)
CONSTANTS Configs, None

VARIABLES
    wanted,    \* the configuration the hub has stored
    running,   \* the configuration that is live in all its parts, or None
    recorded,  \* the one the gateway remembers as applied
    reported   \* the one the hub shows

vars == <<wanted, running, recorded, reported>>
Maybe == Configs \cup {None}

Init ==
    /\ wanted \in Maybe
    /\ running \in Maybe
    /\ recorded = None
    /\ reported = None

Want ==
    /\ wanted' \in Configs
    /\ UNCHANGED <<running, recorded, reported>>

\* a step of an apply, a failure or a reboot changes what runs
Run ==
    /\ running' \in Maybe
    /\ UNCHANGED <<wanted, recorded, reported>>

Record ==
    /\ running # None
    /\ recorded' = running
    /\ UNCHANGED <<wanted, running, reported>>

\* a failing write leaves nothing recorded
Forget ==
    /\ recorded' = None
    /\ UNCHANGED <<wanted, running, reported>>

Report ==
    /\ reported' = recorded
    /\ UNCHANGED <<wanted, running, recorded>>

Next == Want \/ Run \/ Record \/ Forget \/ Report
Spec == Init /\ [][Next]_vars
=============================================================================
