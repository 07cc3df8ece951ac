----------------------------- MODULE Provisioning -----------------------------
(***************************************************************************)
(* The access token of a device that provisions itself (provision.c and    *)
(* start_client).  The device asks for a token only once in its life: the  *)
(* server accepts a device it does not know and refuses it from then on,   *)
(* until somebody deletes it there.  The token therefore has to get from   *)
(* the answer into flash, over steps between which the device may restart. *)
(*                                                                         *)
(* The settings subsystem, the CoAP exchange and the server are external.  *)
(* Threads and request blocks are in ThingsboardClient.                    *)
(***************************************************************************)
EXTENDS Naturals

CONSTANTS
    Token,        \* the tokens the server may issue
    NoToken,      \* an empty buffer, an unknown device, a refusal
    MaxRestarts   \* bound: restarts of the device

ASSUME ProvisioningAssumption ==
    /\ NoToken \notin Token
    /\ MaxRestarts \in Nat

VARIABLES
    state,         \* thingsboard_client.state
    access_token,  \* the buffer of provision.c
    client_token,  \* thingsboard_client.access_token points to the buffer
    settings,      \* "thingsboard/token" in flash
    pc,            \* the step of the provisioning callback or start_client
    exchange,      \* the provisioning request, its answer, or none
    answer,        \* the token in the answer
    server,        \* the token of the device at the server
    issued,        \* the tokens issued so far
    lost,          \* the token at the server never reached the settings
    unread,        \* reading the settings failed since the device booted
    restarts

vars == <<state, access_token, client_token, settings, pc, exchange, answer,
          server, issued, lost, unread, restarts>>

remote == <<server, issued>>

OptionalToken == Token \cup {NoToken}

TypeOK ==
    /\ state \in {"DISCONNECTED", "CONNECTING", "CONNECTED"}
    /\ access_token \in OptionalToken
    /\ client_token \in BOOLEAN
    /\ settings \in OptionalToken
    /\ pc \in {"idle", "save", "prov_cb", "start_client"}
    /\ exchange \in {"none", "request", "answer"}
    /\ answer \in OptionalToken
    /\ server \in OptionalToken
    /\ issued \subseteq Token
    /\ lost \in BOOLEAN
    /\ unread \in BOOLEAN
    /\ restarts \in 0 .. MaxRestarts

Booted ==
    /\ state = "DISCONNECTED"
    /\ access_token = NoToken
    /\ client_token = FALSE
    /\ pc = "idle"
    /\ exchange = "none"
    /\ answer = NoToken
    /\ unread = FALSE

Init ==
    /\ Booted
    /\ settings = NoToken
    /\ server = NoToken
    /\ issued = {}
    /\ lost = FALSE
    /\ restarts = 0

-----------------------------------------------------------------------------
(* Connecting: thingsboard_connect runs start_client, which needs a token.  *)
(* An attempt that fails at the socket, the settings subsystem, the request *)
(* block or the CoAP client leaves the device DISCONNECTED, as it was.      *)

Connectable == state = "DISCONNECTED"

\* The token is there, from an earlier connection.
connect_with_token ==
    /\ Connectable
    /\ client_token
    /\ state' = "CONNECTING"
    /\ pc' = "start_client"
    /\ UNCHANGED <<access_token, client_token, settings, exchange, answer,
                   remote, lost, unread, restarts>>

\* token_settings_set: thingsboard_provision_device finds it in flash.
\* Mutated, the settings are not asked.
MutantLoad == access_token
Load == settings

connect_with_settings ==
    /\ Connectable
    /\ ~client_token
    /\ Load # NoToken
    /\ state' = "CONNECTING"
    /\ access_token' = Load
    /\ pc' = "prov_cb"
    /\ UNCHANGED <<client_token, settings, exchange, answer, remote, lost,
                   unread, restarts>>

\* make_provisioning_request.  Settings that cannot be read look like
\* settings without a token.
connect_by_provisioning ==
    /\ Connectable
    /\ ~client_token
    /\ \/ Load = NoToken /\ UNCHANGED unread
       \/ settings # NoToken /\ unread' = TRUE
    /\ state' = "CONNECTING"
    /\ exchange' = "request"
    /\ UNCHANGED <<access_token, client_token, settings, pc, answer, remote,
                   lost, restarts>>

\* prov_callback, then start_client again.
prov_callback ==
    /\ pc = "prov_cb"
    /\ client_token' = TRUE
    /\ pc' = "start_client"
    /\ UNCHANGED <<state, access_token, settings, exchange, answer, remote,
                   lost, unread, restarts>>

Subscribe(result) ==
    /\ pc = "start_client"
    /\ pc' = "idle"
    /\ state' = result
    /\ UNCHANGED <<access_token, client_token, settings, exchange, answer,
                   remote, lost, unread, restarts>>

start_client == Subscribe("CONNECTED")

start_client_failed == Subscribe("DISCONNECTED")

thingsboard_disconnect ==
    /\ state = "CONNECTED"
    /\ state' = "DISCONNECTED"
    /\ UNCHANGED <<access_token, client_token, settings, pc, exchange,
                   answer, remote, lost, unread, restarts>>

-----------------------------------------------------------------------------
(* The server *)

ServerAccepts ==
    /\ exchange = "request"
    /\ server = NoToken
    /\ \E token \in Token \ issued :
           /\ server' = token
           /\ issued' = issued \cup {token}
           /\ answer' = token
    /\ exchange' = "answer"
    /\ lost' = FALSE
    /\ UNCHANGED <<state, access_token, client_token, settings, pc, unread,
                   restarts>>

ServerRefuses ==
    /\ exchange = "request"
    /\ server # NoToken
    /\ exchange' = "answer"
    /\ answer' = NoToken
    /\ UNCHANGED <<state, access_token, client_token, settings, pc, remote,
                   lost, unread, restarts>>

\* Somebody deletes the device at the server.
ServerDeletes ==
    /\ server # NoToken
    /\ server' = NoToken
    /\ UNCHANGED <<state, access_token, client_token, settings, pc, exchange,
                   answer, issued, lost, unread, restarts>>

-----------------------------------------------------------------------------
(* client_handle_prov_resp *)

\* What the server has issued is about to be lost.
AnswerLost == lost \/ (exchange = "answer" /\ answer # NoToken)

\* No answer in time, one that cannot be parsed, a token that is too long,
\* or a refusal: the exchange is over, and so is the attempt to connect.
client_handle_prov_resp_failed ==
    /\ exchange # "none"
    /\ exchange' = "none"
    /\ answer' = NoToken
    /\ lost' = AnswerLost
    /\ UNCHANGED <<state, access_token, client_token, settings, pc, remote,
                   unread, restarts>>

client_handle_prov_resp ==
    /\ exchange = "answer"
    /\ answer # NoToken
    /\ exchange' = "none"
    /\ answer' = NoToken
    /\ access_token' = answer
    /\ pc' = "save"
    /\ UNCHANGED <<state, client_token, settings, remote, lost, unread,
                   restarts>>

\* settings_save_one, whose failure is logged, no more.  Mutated, the buffer
\* is saved only if nothing is there.
MutantSave == settings' = IF settings = NoToken THEN access_token ELSE settings
Save == settings' = access_token

settings_save_one ==
    /\ pc = "save"
    /\ \/ Save /\ UNCHANGED lost
       \/ lost' = TRUE /\ UNCHANGED settings
    /\ pc' = "prov_cb"
    /\ UNCHANGED <<state, access_token, client_token, exchange, answer,
                   remote, unread, restarts>>

-----------------------------------------------------------------------------
(* Restarting *)

\* RAM is lost, with a token that was not saved yet; the settings may be
\* erased meanwhile.
Restart ==
    /\ restarts < MaxRestarts
    /\ restarts' = restarts + 1
    /\ state' = "DISCONNECTED"
    /\ access_token' = NoToken
    /\ client_token' = FALSE
    /\ pc' = "idle"
    /\ exchange' = "none"
    /\ answer' = NoToken
    /\ unread' = FALSE
    /\ \/ lost' = (AnswerLost \/ pc = "save") /\ UNCHANGED settings
       \/ lost' = TRUE /\ settings' = NoToken
    /\ UNCHANGED remote

Next ==
    \/ connect_with_token
    \/ connect_with_settings
    \/ connect_by_provisioning
    \/ prov_callback
    \/ start_client
    \/ start_client_failed
    \/ thingsboard_disconnect
    \/ ServerAccepts
    \/ ServerRefuses
    \/ ServerDeletes
    \/ client_handle_prov_resp_failed
    \/ client_handle_prov_resp
    \/ settings_save_one
    \/ Restart

Spec == Init /\ [][Next]_vars

\* The application calls thingsboard_connect whenever it is DISCONNECTED, and
\* neither reading the settings nor subscribing fails for ever.
FairSpec ==
    /\ Spec
    /\ WF_vars(connect_with_token)
    /\ SF_vars(connect_with_settings)
    /\ WF_vars(prov_callback)
    /\ SF_vars(start_client)
    /\ WF_vars(client_handle_prov_resp_failed \/ client_handle_prov_resp)
    /\ WF_vars(settings_save_one)

-----------------------------------------------------------------------------
(* Properties *)

\* The token of a device the server knows is always on its way or in flash,
\* unless it was lost: with an answer that never came or was of no use, in a
\* restart before it was saved, by a save that failed, or by erasing flash.
\* In particular it is never replaced by another one.
TokenAccounted ==
    server # NoToken /\ ~lost =>
        \/ exchange = "answer" /\ answer = server
        \/ pc = "save" /\ access_token = server
        \/ settings = server

\* What the client uses is what the next boot will find, unless saving
\* failed: the token is saved before prov_callback starts the client.
UsesSavedToken ==
    client_token /\ ~lost => access_token = settings

\* A device that has a token in flash connects without being provisioned
\* again, whatever is lost, refused or deleted, unless flash cannot be read.
SavedTokenConnects ==
    settings # NoToken ~> state = "CONNECTED" \/ settings = NoToken \/ unread
=============================================================================
