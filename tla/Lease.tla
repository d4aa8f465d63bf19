-------------------------------- MODULE Lease --------------------------------
(***************************************************************************)
(* What InstanceHandoff promises to the rest of the bot, without files,    *)
(* locks or polls: a lease with at most one holder. A client asks for it   *)
(* once, holds it or gives up, and is gone after that; the lease changes   *)
(* hands only by way of being free.                                        *)
(***************************************************************************)
CONSTANTS Clients, None

VARIABLES holder, waiting, gone

vars == <<holder, waiting, gone>>

Init == holder = None /\ waiting = {} /\ gone = {}

Ask(c) ==
    /\ c \notin waiting \cup gone \cup {holder}
    /\ waiting' = waiting \cup {c}
    /\ UNCHANGED <<holder, gone>>

Acquire(c) ==
    /\ holder = None /\ c \in waiting
    /\ holder' = c
    /\ waiting' = waiting \ {c}
    /\ UNCHANGED gone

GiveUp(c) ==
    /\ c \in waiting
    /\ waiting' = waiting \ {c}
    /\ gone' = gone \cup {c}
    /\ UNCHANGED holder

Free(c) ==
    /\ holder = c
    /\ holder' = None
    /\ gone' = gone \cup {c}
    /\ UNCHANGED waiting

Next == \E c \in Clients : Ask(c) \/ Acquire(c) \/ GiveUp(c) \/ Free(c)

\* A free lease somebody waits for does not stay free.
Spec == Init /\ [][Next]_vars /\ WF_vars(\E c \in Clients : Acquire(c))
==============================================================================
