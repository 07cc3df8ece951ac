-------------------------- MODULE ThingsboardClient --------------------------
(***************************************************************************)
(* The connection life cycle of the ThingsBoard client (thingsboard.c) and *)
(* everything that shares its state: the application threads that call the *)
(* API, the system work queue that asks for the time, and the receive      *)
(* thread of Zephyr's CoAP client, which runs every response callback.     *)
(*                                                                         *)
(* They share the client structure, its mutex and the slab of request      *)
(* blocks.  A block is lent to the CoAP client together with a request and *)
(* comes back in the callback that ends it.  Zephyr's CoAP client is       *)
(* external: it is the function "ongoing" (which block it works on, and    *)
(* for what), it may end any request at any time, and it lets              *)
(* coap_client_cancel_request return only once no callback of that request *)
(* is running.                                                             *)
(*                                                                         *)
(* A call that the code refuses at its head (-EINVAL, -EALREADY, -EAGAIN)  *)
(* changes nothing and is a stuttering step.  The contents of requests,    *)
(* firmware images and time values are the business of other modules.      *)
(***************************************************************************)
EXTENDS FiniteSets, Naturals

CONSTANTS
    AppThread,        \* application threads
    WorkQueue,        \* the system work queue (time synchronisation)
    CoapThread,       \* the CoAP client's receive thread
    Request,          \* the blocks of request_slab
    Socket,           \* the socket numbers the network stack hands out
    NULL,             \* no request, no thread, no socket (-1)
    UseProvisioning,  \* CONFIG_THINGSBOARD_USE_PROVISIONING
    SuspendDisconnect,\* CONFIG_THINGSBOARD_SOCKET_SUSPEND_DISCONNECT
    ConnectOnInit     \* CONFIG_THINGSBOARD_CONNECT_ON_INIT

Thread == AppThread \cup {WorkQueue, CoapThread}

ASSUME ThreadAssumption ==
    /\ WorkQueue \notin AppThread
    /\ CoapThread \notin AppThread
    /\ WorkQueue # CoapThread

ASSUME NullAssumption == NULL \notin Thread \cup Request \cup Socket

ASSUME ConfigAssumption ==
    /\ UseProvisioning \in BOOLEAN
    /\ SuspendDisconnect \in BOOLEAN
    /\ ConnectOnInit \in BOOLEAN

VARIABLES
    state,                   \* thingsboard_client.state
    server_socket,           \* thingsboard_client.server_socket
    attributes_observation,  \* thingsboard_client.attributes_observation
    access_token,            \* thingsboard_client.access_token # NULL
    stored_token,            \* a token is in the settings on flash
    lock,                    \* the thread that holds thingsboard_client.lock
    slab,                    \* the allocated blocks of request_slab
    ongoing,                 \* what the CoAP client uses each block for
    open_sockets,            \* the client's sockets the network stack has open
    pc,                      \* where each thread is
    req                      \* the block a thread works on

vars == <<state, server_socket, attributes_observation, access_token,
          stored_token, lock, slab, ongoing, open_sockets, pc, req>>

connection == <<state, server_socket, attributes_observation>>
tokens     == <<access_token, stored_token>>
blocks     == <<slab, ongoing>>

State == {"INIT", "CONNECTING", "CONNECTED", "SUSPENDED", "DISCONNECTED"}

\* What a request is for, by its callback: thingsboard_handle_response and
\* thingsboard_handle_rpc_response do the same here ("message").
Purpose == {"none", "message", "observe", "provision", "firmware"}

\* Where a thread is: outside the library, or before the named call.
ConnectPC    == {"start_client", "subscribe", "set_connected",
                 "set_disconnected"}
DisconnectPC == {"disconnect_unsubscribe", "disconnect_close",
                 "set_disconnected"}
SuspendPC    == {"suspend_unsubscribe", "suspend_close", "set_suspended"}
ResumePC     == {"resume_subscribe", "set_connected"}
AttributePC  == {"attributes_update", "attributes_ended"}
MutatorPC    == ConnectPC \cup DisconnectPC \cup SuspendPC \cup ResumePC
PC           == MutatorPC \cup AttributePC
                  \cup {"idle", "connect", "locked", "send"}

-----------------------------------------------------------------------------
(* Helpers *)

thingsboard_is_active == state \in {"CONNECTED", "CONNECTING"}

Goto(t, place) == pc' = [pc EXCEPT ![t] = place]

Free == Request \ slab

\* thingsboard_request_alloc: any free block, or none when all are taken.
thingsboard_request_alloc(r) ==
    /\ r \in Free
    /\ slab' = slab \cup {r}

thingsboard_request_free(r) == slab' = slab \ {r}

\* coap_client_req: it needs a socket it can send on.
CanSubmit == server_socket \in open_sockets

\* Mutant: a semaphore in place of the recursive mutex.
MutantCanLock(t) == lock = NULL

\* The caller may take the mutex; the owner may take it again.
CanLock(t) == lock \in {NULL, t}

\* Mutant: a block that is lent already is used again.
MutantMessages(n) ==
    {m \in SUBSET {r \in Request : \A t \in Thread : req[t] # r} :
        /\ Cardinality(m) <= n
        /\ m # {} => thingsboard_is_active /\ CanSubmit}

\* Up to n telemetry messages prepared and handed to the CoAP client, all of
\* them, some or none: every send may fail on its own and the callers of
\* this ignore it.
Messages(n) ==
    {m \in SUBSET Free : /\ Cardinality(m) <= n
                         /\ m # {} => thingsboard_is_active /\ CanSubmit}

\* The callback of request r returns with the block given back.
EndRequest(r) ==
    /\ slab' = slab \ {r}
    /\ ongoing' = [ongoing EXCEPT ![r] = "none"]

-----------------------------------------------------------------------------
(* Initialisation and connecting *)

Init ==
    /\ state = "INIT"
    /\ server_socket = NULL
    /\ attributes_observation = NULL
    /\ access_token = FALSE
    /\ stored_token \in {FALSE, UseProvisioning}
    /\ lock = NULL
    /\ slab = {}
    /\ ongoing = [r \in Request |-> "none"]
    /\ open_sockets = {}
    /\ pc = [t \in Thread |-> "idle"]
    /\ req = [t \in Thread |-> NULL]

thingsboard_init(t) ==
    /\ pc[t] = "idle"
    /\ state = "INIT"
    /\ server_socket = NULL
    /\ state' = "DISCONNECTED"
    /\ Goto(t, IF ConnectOnInit THEN "connect" ELSE "idle")
    /\ UNCHANGED <<server_socket, attributes_observation, tokens, lock,
                   blocks, open_sockets, req>>

\* thingsboard_socket_connect: a socket the network stack had not open.
MutantConnectable == {"DISCONNECTED", "CONNECTING"}  \* a second attempt
Connectable == {"DISCONNECTED"}

thingsboard_socket_connect ==
    \E s \in Socket \ open_sockets :
        /\ open_sockets' = open_sockets \cup {s}
        /\ server_socket' = s

\* The mutex stays taken through thingsboard_set_state(CONNECTING), which
\* runs start_client.
thingsboard_connect(t) ==
    /\ pc[t] \in {"idle", "connect"}
    /\ lock = NULL
    /\ state \in Connectable
    /\ thingsboard_socket_connect
    /\ state' = "CONNECTING"
    /\ lock' = t
    /\ Goto(t, "start_client")
    /\ UNCHANGED <<attributes_observation, tokens, blocks, req>>

\* CONNECT_ON_INIT only: the attempt is refused or gets no socket, and
\* thingsboard_init returns.
thingsboard_connect_failed(t) ==
    /\ pc[t] = "connect"
    /\ lock = NULL
    /\ Goto(t, "idle")
    /\ UNCHANGED <<connection, tokens, lock, blocks, open_sockets, req>>

\* The part of start_client behind the token: thingsboard_fota_init and
\* thingsboard_fota_confirm_update report the running firmware.
AnnounceFirmware(t) ==
    /\ \E m \in Messages(2) :
          /\ slab' = slab \cup m
          /\ ongoing' = [r \in Request |->
                            IF r \in m THEN "message" ELSE ongoing[r]]
    /\ Goto(t, "subscribe")
    /\ UNCHANGED <<connection, lock, open_sockets, req>>

\* make_provisioning_request succeeds: connecting goes on in the callback.
make_provisioning_request(t) ==
    /\ CanSubmit
    /\ \E r \in Request :
          /\ thingsboard_request_alloc(r)
          /\ ongoing' = [ongoing EXCEPT ![r] = "provision"]
    /\ lock' = NULL
    /\ Goto(t, "idle")
    /\ UNCHANGED <<connection, tokens, open_sockets, req>>

\* thingsboard_provision_device: the settings hold a token (prov_callback
\* runs start_client again), or the server is asked, also when the token
\* could not be read (settings_load does not report it), or a step fails.
thingsboard_provision_device(t) ==
    \/ /\ stored_token
       /\ access_token' = TRUE
       /\ UNCHANGED <<connection, stored_token, lock, blocks, open_sockets,
                      pc, req>>
    \/ make_provisioning_request(t)
    \/ /\ Goto(t, "set_disconnected")
       /\ UNCHANGED <<connection, tokens, lock, blocks, open_sockets, req>>

start_client(t) ==
    /\ pc[t] = "start_client"
    /\ \/ /\ ~access_token
          /\ UseProvisioning
          /\ thingsboard_provision_device(t)
       \/ /\ access_token \/ ~UseProvisioning
          /\ access_token' = TRUE
          /\ UNCHANGED stored_token
          /\ AnnounceFirmware(t)

\* thingsboard_client_subscribe_attributes with block r; it fails without a
\* trace when there is no block or the CoAP client refuses.
thingsboard_client_subscribe_attributes(r) ==
    /\ CanSubmit
    /\ thingsboard_request_alloc(r)
    /\ attributes_observation' = r
    /\ ongoing' = [ongoing EXCEPT ![r] = "observe"]

thingsboard_socket_close == open_sockets' = open_sockets \ {server_socket}

Subscribed(t) ==
    /\ \E r \in Request : thingsboard_client_subscribe_attributes(r)
    /\ Goto(t, "set_connected")
    /\ UNCHANGED <<server_socket, lock, open_sockets>>

\* start_client's error path; mutated, it returns without
\* thingsboard_set_state(DISCONNECTED).
MutantKeepsState(t) ==
    /\ thingsboard_socket_close
    /\ lock' = NULL
    /\ Goto(t, "idle")
    /\ UNCHANGED <<server_socket, attributes_observation, blocks>>

\* It waits for a free block as long as none is there (K_FOREVER).
MutantWaitsForBlock(t) ==
    /\ Free # {}
    /\ thingsboard_socket_close
    /\ Goto(t, "set_disconnected")
    /\ UNCHANGED <<server_socket, attributes_observation, lock, blocks>>

SubscribeFailed(t) ==
    /\ thingsboard_socket_close
    /\ Goto(t, "set_disconnected")
    /\ UNCHANGED <<server_socket, attributes_observation, lock, blocks>>

start_client_subscribe(t) ==
    /\ pc[t] = "subscribe"
    /\ Subscribed(t) \/ SubscribeFailed(t)
    /\ UNCHANGED <<state, tokens, req>>

\* thingsboard_set_state(new), the event it raises, and the way back out of
\* every function that called it: the mutex is free again, and in the CoAP
\* thread client_handle_prov_resp gives its block back.
thingsboard_set_state(t, new) ==
    /\ CanLock(t)
    /\ state' = new
    /\ lock' = NULL
    /\ thingsboard_request_free(req[t])
    /\ req' = [req EXCEPT ![t] = NULL]
    /\ Goto(t, "idle")
    /\ UNCHANGED <<server_socket, attributes_observation, tokens, ongoing,
                   open_sockets>>

set_connected(t) ==
    pc[t] = "set_connected" /\ thingsboard_set_state(t, "CONNECTED")

set_suspended(t) ==
    pc[t] = "set_suspended" /\ thingsboard_set_state(t, "SUSPENDED")

set_disconnected(t) ==
    pc[t] = "set_disconnected" /\ thingsboard_set_state(t, "DISCONNECTED")

-----------------------------------------------------------------------------
(* Disconnecting, suspending, resuming *)

MutantDisconnectable == State \ {"INIT", "DISCONNECTED"}  \* CONNECTING too
Disconnectable == {"CONNECTED", "SUSPENDED"}

thingsboard_disconnect(t) ==
    /\ pc[t] = "idle"
    /\ lock = NULL
    /\ state \in Disconnectable
    /\ lock' = t
    /\ Goto(t, "disconnect_unsubscribe")
    /\ UNCHANGED <<connection, tokens, blocks, open_sockets, req>>

\* The observation is over: its callback, run with -ECANCELED inside
\* coap_client_cancel_request, forgets it and frees the block.
CancelObservation ==
    /\ pc[CoapThread] \notin AttributePC
    /\ attributes_observation' = NULL
    /\ EndRequest(attributes_observation)

MutantKeepsObservation == UNCHANGED <<attributes_observation, blocks>>

thingsboard_client_unsubscribe_attributes ==
    IF attributes_observation = NULL
    THEN UNCHANGED <<attributes_observation, blocks>>
    ELSE CancelObservation

disconnect_unsubscribe(t) ==
    /\ pc[t] = "disconnect_unsubscribe"
    /\ thingsboard_client_unsubscribe_attributes
    /\ Goto(t, "disconnect_close")
    /\ UNCHANGED <<state, server_socket, tokens, lock, open_sockets, req>>

disconnect_close(t) ==
    /\ pc[t] = "disconnect_close"
    /\ thingsboard_socket_close
    /\ Goto(t, "set_disconnected")
    /\ UNCHANGED <<connection, tokens, lock, blocks, req>>

\* thingsboard_socket_suspend does nothing to the socket (or sets a socket
\* option), so that the call is one critical section.
suspend_keeping_socket(t) ==
    /\ ~SuspendDisconnect
    /\ state' = "SUSPENDED"
    /\ UNCHANGED <<lock, pc>>

suspend_closing_socket(t) ==
    /\ SuspendDisconnect
    /\ lock' = t
    /\ Goto(t, "suspend_unsubscribe")
    /\ UNCHANGED state

thingsboard_suspend(t) ==
    /\ pc[t] = "idle"
    /\ lock = NULL
    /\ state = "CONNECTED"
    /\ suspend_keeping_socket(t) \/ suspend_closing_socket(t)
    /\ UNCHANGED <<server_socket, attributes_observation, tokens, blocks,
                   open_sockets, req>>

suspend_unsubscribe(t) ==
    /\ pc[t] = "suspend_unsubscribe"
    /\ thingsboard_client_unsubscribe_attributes
    /\ Goto(t, "suspend_close")
    /\ UNCHANGED <<state, server_socket, tokens, lock, open_sockets, req>>

suspend_close(t) ==
    /\ pc[t] = "suspend_close"
    /\ thingsboard_socket_close
    /\ server_socket' = NULL
    /\ Goto(t, "set_suspended")
    /\ UNCHANGED <<state, attributes_observation, tokens, lock, blocks, req>>

resume_keeping_socket(t) ==
    /\ ~SuspendDisconnect
    /\ state' = "CONNECTED"
    /\ UNCHANGED <<server_socket, lock, open_sockets, pc>>

resume_with_new_socket(t) ==
    /\ SuspendDisconnect
    /\ thingsboard_socket_connect
    /\ lock' = t
    /\ Goto(t, "resume_subscribe")
    /\ UNCHANGED state

thingsboard_resume(t) ==
    /\ pc[t] = "idle"
    /\ lock = NULL
    /\ state = "SUSPENDED"
    /\ resume_keeping_socket(t) \/ resume_with_new_socket(t)
    /\ UNCHANGED <<attributes_observation, tokens, blocks, req>>

\* The socket is closed again and thingsboard_resume returns -EIO; mutated,
\* the socket stays open, or the call goes on regardless.
MutantResumeKeepsSocket(t) ==
    /\ server_socket' = NULL
    /\ lock' = NULL
    /\ Goto(t, "idle")
    /\ UNCHANGED <<attributes_observation, blocks, open_sockets>>

MutantResumesAnyway(t) ==
    /\ thingsboard_socket_close
    /\ server_socket' = NULL
    /\ Goto(t, "set_connected")
    /\ UNCHANGED <<attributes_observation, lock, blocks>>

ResubscribeFailed(t) ==
    /\ thingsboard_socket_close
    /\ server_socket' = NULL
    /\ lock' = NULL
    /\ Goto(t, "idle")
    /\ UNCHANGED <<attributes_observation, blocks>>

resume_subscribe(t) ==
    /\ pc[t] = "resume_subscribe"
    /\ Subscribed(t) \/ ResubscribeFailed(t)
    /\ UNCHANGED <<state, tokens, req>>

-----------------------------------------------------------------------------
(* Sending, and reading the attributes *)

\* The thread takes a block; mutated, it does not look whether it got one.
MutantTakeUnchecked(t) ==
    \E r \in Request \cup {NULL} :
        /\ r \in Free \/ (r = NULL /\ Free = {})
        /\ slab' = slab \cup ({r} \ {NULL})
        /\ req' = [req EXCEPT ![t] = r]

TakeBlock(t) ==
    \E r \in Request :
        /\ thingsboard_request_alloc(r)
        /\ req' = [req EXCEPT ![t] = r]

\* thingsboard_send_telemetry and thingsboard_send_telemetry_buf in an
\* application thread, client_request_time in the work queue: the client is
\* active and a block is taken, both without the mutex.
thingsboard_send_telemetry(t) ==
    /\ pc[t] = "idle"
    /\ thingsboard_is_active
    /\ TakeBlock(t)
    /\ Goto(t, "send")
    /\ UNCHANGED <<connection, tokens, lock, ongoing, open_sockets>>

\* Encoding, building the path or coap_client_req failed.
MutantLeaksBlock(t) == UNCHANGED blocks
SendFailed(t) ==
    /\ thingsboard_request_free(req[t])
    /\ UNCHANGED ongoing

\* The message is handed over, or the block is given back.
thingsboard_send_telemetry_request(t) ==
    /\ pc[t] = "send"
    /\ \/ /\ CanSubmit
          /\ ongoing' = [ongoing EXCEPT ![req[t]] = "message"]
          /\ UNCHANGED slab
       \/ SendFailed(t)
    /\ req' = [req EXCEPT ![t] = NULL]
    /\ Goto(t, "idle")
    /\ UNCHANGED <<connection, tokens, lock, open_sockets>>

\* The application holds the mutex to read the shared attributes, as
\* thingsboard_get_attributes asks it to.
thingsboard_lock(t) ==
    /\ pc[t] = "idle"
    /\ state # "INIT"
    /\ lock = NULL
    /\ lock' = t
    /\ Goto(t, "locked")
    /\ UNCHANGED <<connection, tokens, blocks, open_sockets, req>>

thingsboard_unlock(t) ==
    /\ pc[t] = "locked"
    /\ lock' = NULL
    /\ Goto(t, "idle")
    /\ UNCHANGED <<connection, tokens, blocks, open_sockets, req>>

-----------------------------------------------------------------------------
(* Callbacks, one at a time in the CoAP thread *)

CallbackMayRun == pc[CoapThread] = "idle"

\* Mutant: answers are dropped unless the client is active.
MutantResponseWhenActive(r) ==
    /\ CallbackMayRun
    /\ thingsboard_is_active
    /\ ongoing[r] = "message"
    /\ EndRequest(r)
    /\ UNCHANGED <<connection, tokens, lock, open_sockets, pc, req>>

\* thingsboard_handle_response, thingsboard_handle_rpc_response: an answer,
\* an error or a timeout ends the request.
thingsboard_handle_response(r) ==
    /\ CallbackMayRun
    /\ ongoing[r] = "message"
    /\ EndRequest(r)
    /\ UNCHANGED <<connection, tokens, lock, open_sockets, pc, req>>

\* A block of the image: the new firmware state may be reported, and the
\* last block ends the request.
client_handle_fw_chunk(r) ==
    /\ CallbackMayRun
    /\ ongoing[r] = "firmware"
    /\ \E m \in Messages(1), last \in BOOLEAN :
          /\ slab' = (slab \cup m) \ (IF last THEN {r} ELSE {})
          /\ ongoing' = [b \in Request |->
                            IF b \in m THEN "message"
                            ELSE IF b = r /\ last THEN "none" ELSE ongoing[b]]
    /\ UNCHANGED <<connection, tokens, lock, open_sockets, pc, req>>

\* The provisioning request failed, timed out or was turned down.
client_handle_prov_resp_failed(r) ==
    /\ CallbackMayRun
    /\ ongoing[r] = "provision"
    /\ EndRequest(r)
    /\ UNCHANGED <<connection, tokens, lock, open_sockets, pc, req>>

\* The server sent a token.  It is saved, if the settings let it, and
\* prov_callback runs start_client in this thread, without the mutex.
client_handle_prov_resp(r) ==
    /\ CallbackMayRun
    /\ ongoing[r] = "provision"
    /\ access_token' = TRUE
    /\ stored_token' \in {stored_token, TRUE}
    /\ ongoing' = [ongoing EXCEPT ![r] = "none"]
    /\ req' = [req EXCEPT ![CoapThread] = r]
    /\ Goto(CoapThread, "start_client")
    /\ UNCHANGED <<connection, lock, slab, open_sockets>>

client_handle_prov_resp_any(r) ==
    client_handle_prov_resp_failed(r) \/ client_handle_prov_resp(r)

\* The observation delivers a notification, or ends (timeout, reset, error):
\* either way the callback starts by taking the mutex.
attributes_callback(r) ==
    /\ CallbackMayRun
    /\ ongoing[r] = "observe"
    /\ \/ /\ Goto(CoapThread, "attributes_update")
          /\ UNCHANGED <<ongoing, req>>
       \/ /\ Goto(CoapThread, "attributes_ended")
          /\ ongoing' = [ongoing EXCEPT ![r] = "none"]
          /\ req' = [req EXCEPT ![CoapThread] = r]
    /\ UNCHANGED <<connection, tokens, lock, slab, open_sockets>>

\* thingsboard_fota_on_attributes may report DOWNLOADING and then ask for
\* the image (client_fw_request_image), whatever state the client is in.
attributes_update ==
    /\ pc[CoapThread] = "attributes_update"
    /\ CanLock(CoapThread)
    /\ \E m \in Messages(1), f \in SUBSET Free :
          /\ Cardinality(f) <= 1
          /\ f # {} => CanSubmit
          /\ m \cap f = {}
          /\ slab' = slab \cup m \cup f
          /\ ongoing' = [r \in Request |->
                            IF r \in m THEN "message"
                            ELSE IF r \in f THEN "firmware" ELSE ongoing[r]]
    /\ Goto(CoapThread, "idle")
    /\ UNCHANGED <<connection, tokens, lock, open_sockets, req>>

\* The observation is forgotten; mutated, it is not.
MutantForgetNothing == UNCHANGED attributes_observation
ForgetObservation == attributes_observation' = NULL

attributes_ended ==
    /\ pc[CoapThread] = "attributes_ended"
    /\ CanLock(CoapThread)
    /\ ForgetObservation
    /\ thingsboard_request_free(req[CoapThread])
    /\ req' = [req EXCEPT ![CoapThread] = NULL]
    /\ Goto(CoapThread, "idle")
    /\ UNCHANGED <<state, server_socket, tokens, lock, ongoing, open_sockets>>

client_handle_attribute_notification == attributes_update \/ attributes_ended

-----------------------------------------------------------------------------
(* The system *)

\* What an application may ask for at any time.
Call(t) ==
    \/ thingsboard_init(t)
    \/ thingsboard_connect(t)
    \/ thingsboard_disconnect(t)
    \/ thingsboard_suspend(t)
    \/ thingsboard_resume(t)
    \/ thingsboard_lock(t)

\* The steps a thread inside the library still has to make.
Continue(t) ==
    \/ thingsboard_connect_failed(t)
    \/ start_client(t)
    \/ start_client_subscribe(t)
    \/ set_connected(t)
    \/ set_suspended(t)
    \/ set_disconnected(t)
    \/ disconnect_unsubscribe(t)
    \/ disconnect_close(t)
    \/ suspend_unsubscribe(t)
    \/ suspend_close(t)
    \/ resume_subscribe(t)
    \/ thingsboard_send_telemetry_request(t)
    \/ thingsboard_unlock(t)

Callback(r) ==
    \/ thingsboard_handle_response(r)
    \/ client_handle_fw_chunk(r)
    \/ client_handle_prov_resp_failed(r)
    \/ client_handle_prov_resp(r)
    \/ attributes_callback(r)

Next ==
    \/ \E t \in AppThread : Call(t)
    \/ \E t \in AppThread \cup {WorkQueue} : thingsboard_send_telemetry(t)
    \/ \E t \in Thread : Continue(t)
    \/ \E r \in Request : Callback(r)
    \/ client_handle_attribute_notification

Spec == Init /\ [][Next]_vars

\* A thread that runs makes its next step, and a thread that waits for the
\* mutex gets it once it is free again and again (k_mutex queues its
\* waiters).  The CoAP client ends every confirmable request: with its
\* answer, or with a timeout after the last retransmission.  Nothing makes
\* an application call the API, a server accept the device or send
\* notifications, or a download complete.
Fairness ==
    /\ \A t \in Thread : SF_vars(Continue(t))
    /\ SF_vars(client_handle_attribute_notification)
    /\ \A r \in Request :
          /\ SF_vars(thingsboard_handle_response(r))
          /\ SF_vars(client_handle_prov_resp_any(r))

FairSpec == Spec /\ Fairness

\* What the next step of a thread inside the library waits for: the mutex, or
\* the callback of the observation it cancels; a callback waits for the
\* mutex, or for the callback before it.
MayContinue(t) ==
    \/ pc[t] \in {"start_client", "subscribe", "resume_subscribe", "send",
                  "disconnect_close", "suspend_close", "locked"}
    \/ pc[t] = "connect" /\ lock = NULL
    \/ pc[t] \in {"set_connected", "set_suspended", "set_disconnected"}
          /\ CanLock(t)
    \/ pc[t] \in {"disconnect_unsubscribe", "suspend_unsubscribe"}
          /\ (attributes_observation = NULL
                \/ pc[CoapThread] \notin AttributePC)

MayNotify == pc[CoapThread] \in AttributePC /\ CanLock(CoapThread)

MayEnd(r, purpose) == CallbackMayRun /\ ongoing[r] = purpose

-----------------------------------------------------------------------------
(* Safety *)

\* The variables keep their types, and a thread that is about to send has a
\* block to send (thingsboard_request_alloc's NULL never gets that far).
TypeOK ==
    /\ state \in State
    /\ server_socket \in Socket \cup {NULL}
    /\ attributes_observation \in Request \cup {NULL}
    /\ access_token \in BOOLEAN
    /\ stored_token \in BOOLEAN
    /\ lock \in Thread \cup {NULL}
    /\ slab \in SUBSET Request
    /\ ongoing \in [Request -> Purpose]
    /\ open_sockets \in SUBSET Socket
    /\ pc \in [Thread -> PC]
    /\ req \in [Thread -> Request \cup {NULL}]
    /\ \A t \in Thread :
          pc[t] \in {"send", "attributes_ended"} => req[t] # NULL

Holders(r) == {t \in Thread : req[t] = r}

\* Every allocated block has exactly one owner: the CoAP client, for the
\* request it works on, or one thread.  So no block is leaked, freed twice
\* or handed out while a request still uses it, across all the early
\* returns and callbacks that free blocks.
SlabAccounting ==
    \A r \in Request :
        /\ r \in slab <=> (ongoing[r] # "none" \/ Holders(r) # {})
        /\ ongoing[r] # "none" => Holders(r) = {}
        /\ \A t, u \in Holders(r) : t = u

\* The client remembers an observation exactly as long as the CoAP client
\* has one, up to the callback that reports its end; so there is never a
\* second one, and client_handle_attribute_notification's assertion
\* "attributes_observation == request" (thingsboard.c:370) holds.
ObservationTracked ==
    /\ \A r \in Request :
          ongoing[r] = "observe" => attributes_observation = r
    /\ pc[CoapThread] = "attributes_ended" =>
          attributes_observation = req[CoapThread]
    /\ attributes_observation # NULL =>
          \/ ongoing[attributes_observation] = "observe"
          \/ /\ pc[CoapThread] = "attributes_ended"
             /\ req[CoapThread] = attributes_observation

\* Whoever is about to subscribe finds no observation: the assertion in
\* thingsboard_client_subscribe_attributes (thingsboard.c:382), over all
\* ways in which the last one may have ended.
SubscribesOnce ==
    \A t \in Thread :
        pc[t] \in {"start_client", "subscribe", "resume_subscribe"} =>
            attributes_observation = NULL

\* The observation lives on the socket the client uses, and that is open:
\* the client never closes or replaces the socket under it.
ObservationHasSocket ==
    attributes_observation # NULL =>
        \/ server_socket \in open_sockets
        \/ pc[CoapThread] = "attributes_ended"

\* One thread at a time changes the connection, although start_client runs
\* without the mutex when prov_callback calls it: the states the API calls
\* refuse keep everybody else away.
SingleMutator ==
    \A t, u \in Thread :
        pc[t] \in MutatorPC /\ pc[u] \in MutatorPC => t = u

\* With a static token no socket is lost: only server_socket is open, and
\* nothing is open once the client is disconnected.
SocketOwned ==
    /\ open_sockets \subseteq {server_socket}
    /\ state \in {"INIT", "DISCONNECTED"} => open_sockets = {}

\* The device asks for a token only while it connects and has none, once at
\* a time, and no thread goes on connecting meanwhile.
ProvisioningExclusive ==
    \A r \in Request :
        ongoing[r] = "provision" =>
            /\ state = "CONNECTING"
            /\ ~access_token
            /\ \A b \in Request \ {r} : ongoing[b] # "provision"
            /\ \A t \in Thread : pc[t] \notin MutatorPC

-----------------------------------------------------------------------------
(* What the client promises as a connection *)

Abstract == INSTANCE Connection WITH
    phase       <- state,
    subscribed  <- attributes_observation # NULL,
    link        <- server_socket \in open_sockets,
    MayLoseLink <- UseProvisioning

\* The client is a connection as Connection.tla describes it, step by step,
\* whatever the threads and callbacks do; with a static token it is one that
\* loses no link.
ImplementsConnection == Abstract!Spec

-----------------------------------------------------------------------------
(* How the client shares the request blocks *)

InHand(r) == \E t \in Thread : req[t] = r

\* Where block r is; allocated without a user, it is lost.
PlaceOf(r) ==
    IF ongoing[r] # "none" THEN "lent"
    ELSE IF req[CoapThread] = r THEN "ended"
    ELSE IF InHand(r) THEN "prepared"
    ELSE IF r \in slab THEN "lost"
    ELSE "free"

UserOf(r) ==
    CASE PlaceOf(r) = "lent"     -> ongoing[r]
      [] PlaceOf(r) = "prepared" -> CHOOSE t \in Thread : req[t] = r
      [] OTHER                   -> NULL

Slab == INSTANCE RequestSlab WITH
    Sender  <- Thread,
    Purpose <- Purpose \ {"none"},
    Nobody  <- NULL,
    place   <- [r \in Request |-> PlaceOf(r)],
    user    <- [r \in Request |-> UserOf(r)]

\* Every block goes from hand to hand as RequestSlab.tla says: no thread
\* touches what another one prepares or what is lent, and no block is used
\* again before the callback of its request has given it back.
ImplementsSlab == Slab!Spec

-----------------------------------------------------------------------------
(* Liveness *)

\* A thread holds the mutex and waits in coap_client_cancel_request for the
\* attribute callback, which waits for the mutex.
LockCycle ==
    /\ pc[CoapThread] \in AttributePC
    /\ attributes_observation # NULL
    /\ \E t \in AppThread :
          /\ lock = t
          /\ pc[t] \in {"disconnect_unsubscribe", "suspend_unsubscribe"}

\* Nothing inside the library ever waits for a block, a socket or an answer:
\* whatever has failed before, the next step is possible as soon as the mutex
\* is free, and the callback that is waited for has run.
WaitsForNothingElse ==
    /\ \A t \in Thread : MayContinue(t) <=> ENABLED <<Continue(t)>>_vars
    /\ MayNotify <=> ENABLED <<client_handle_attribute_notification>>_vars
    /\ \A r \in Request :
          /\ MayEnd(r, "message")
                <=> ENABLED <<thingsboard_handle_response(r)>>_vars
          /\ MayEnd(r, "provision")
                <=> ENABLED <<client_handle_prov_resp_any(r)>>_vars

\* Every call of the API and every callback returns, unless the threads are
\* in the lock cycle: that is the only way to block for ever.
EveryCallReturns ==
    \A t \in Thread : pc[t] # "idle" ~> (pc[t] = "idle" \/ LockCycle)

\* Every message handed to the CoAP client gives its block back.
EveryMessageEnds ==
    \A r \in Request :
        ongoing[r] = "message" ~> (ongoing[r] # "message" \/ LockCycle)

\* An attempt to connect comes to an end, one way or the other.
ConnectingResolves == state = "CONNECTING" ~> state # "CONNECTING"

-----------------------------------------------------------------------------
(* What the documentation says and the code does not do *)

\* thingsboard_disconnect returns (thingsboard.h:259 gives its results).
DisconnectReturns ==
    \A t \in AppThread : pc[t] = "disconnect_unsubscribe" ~> pc[t] = "idle"
=============================================================================
