----------------------------- MODULE Connection -----------------------------
(***************************************************************************)
(* What the ThingsBoard client promises about its connection, without      *)
(* threads, locks, request blocks or the provisioning exchange: the phase  *)
(* the application sees, whether the device observes its shared attributes *)
(* and whether it has a link (an open socket) to the server.               *)
(*                                                                         *)
(* The promises are in the guards: the client is CONNECTED only after a    *)
(* link and an observation exist, it drops a link only when no observation *)
(* depends on it, and a DISCONNECTED client has neither, except for a link *)
(* it may lose with a failed attempt to connect.  ThingsboardClient        *)
(* implements this module (ThingsboardClientProofs); it loses links only   *)
(* when it provisions itself.                                              *)
(***************************************************************************)

CONSTANT MayLoseLink  \* a failed attempt to connect may leave its link open

VARIABLES
    phase,       \* thingsboard_client.state
    subscribed,  \* the server holds an observation for this device
    link         \* the socket the client uses is open

vars == <<phase, subscribed, link>>

Phase == {"INIT", "DISCONNECTED", "CONNECTING", "CONNECTED", "SUSPENDED"}

TypeOK ==
    /\ phase \in Phase
    /\ subscribed \in BOOLEAN
    /\ link \in BOOLEAN

Init ==
    /\ phase = "INIT"
    /\ ~subscribed
    /\ ~link

\* The library is initialised: it starts out disconnected.
Initialise ==
    /\ phase = "INIT"
    /\ phase' = "DISCONNECTED"
    /\ UNCHANGED <<subscribed, link>>

\* A connection attempt starts with a fresh link.
Open ==
    /\ phase = "DISCONNECTED"
    /\ phase' = "CONNECTING"
    /\ link' = TRUE
    /\ UNCHANGED subscribed

\* The client observes its attributes over the link it has, once.
Subscribe ==
    /\ phase \in {"CONNECTING", "SUSPENDED"}
    /\ link
    /\ ~subscribed
    /\ subscribed' = TRUE
    /\ UNCHANGED <<phase, link>>

\* The attempt has succeeded: link and observation are there.
Establish ==
    /\ phase = "CONNECTING"
    /\ link
    /\ subscribed
    /\ phase' = "CONNECTED"
    /\ UNCHANGED <<subscribed, link>>

\* The observation ends: cancelled by the client or lost on the way.
Unsubscribe ==
    /\ phase \in {"CONNECTED", "SUSPENDED"}
    /\ subscribed
    /\ subscribed' = FALSE
    /\ UNCHANGED <<phase, link>>

\* A link is given up only when no observation depends on it.
Unlink ==
    /\ phase # "INIT"
    /\ link
    /\ ~subscribed
    /\ link' = FALSE
    /\ UNCHANGED <<phase, subscribed>>

\* A suspended client that gave its link up gets a new one.
Relink ==
    /\ phase = "SUSPENDED"
    /\ ~link
    /\ ~subscribed
    /\ link' = TRUE
    /\ UNCHANGED <<phase, subscribed>>

Suspend ==
    /\ phase = "CONNECTED"
    /\ phase' = "SUSPENDED"
    /\ UNCHANGED <<subscribed, link>>

\* Resuming needs a link; the observation may have been lost meanwhile.
Resume ==
    /\ phase = "SUSPENDED"
    /\ link
    /\ phase' = "CONNECTED"
    /\ UNCHANGED <<subscribed, link>>

\* The connection is over: nothing of it is left.
Close ==
    /\ phase \in {"CONNECTING", "CONNECTED", "SUSPENDED"}
    /\ ~subscribed
    /\ ~link
    /\ phase' = "DISCONNECTED"
    /\ UNCHANGED <<subscribed, link>>

\* The attempt to connect fails and its link is forgotten.
Abandon ==
    /\ MayLoseLink
    /\ phase = "CONNECTING"
    /\ link
    /\ ~subscribed
    /\ phase' = "DISCONNECTED"
    /\ UNCHANGED <<subscribed, link>>

Next ==
    \/ Initialise
    \/ Open
    \/ Subscribe
    \/ Establish
    \/ Unsubscribe
    \/ Unlink
    \/ Relink
    \/ Suspend
    \/ Resume
    \/ Close
    \/ Abandon

Spec == Init /\ [][Next]_vars
=============================================================================
