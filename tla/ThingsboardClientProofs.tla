----------------------- MODULE ThingsboardClientProofs -----------------------
(***************************************************************************)
(* Proofs about ThingsboardClient, for any number of application threads,  *)
(* request blocks and sockets and every configuration.                     *)
(*                                                                         *)
(* ControlInv says where the threads may be: who holds the mutex, in which *)
(* state of the client each step of a call is made, and that connecting,   *)
(* disconnecting, suspending and resuming exclude each other although the  *)
(* CoAP thread connects without the mutex.  BlockInv builds on it and says *)
(* who owns the request blocks and the observation.  SocketInv says during *)
(* which steps the client has an open socket, and yields the refinement of *)
(* Connection.                                                             *)
(***************************************************************************)
EXTENDS ThingsboardClient, TLAPS

\* Which steps the threads other than an application's ever make.
Places ==
    /\ pc[WorkQueue] \in {"idle", "send"}
    /\ pc[CoapThread] \in {"idle"} \cup AttributePC \cup ConnectPC
    /\ \A t \in AppThread : pc[t] \notin AttributePC

\* Only application threads hold the mutex, throughout the calls that change
\* the connection and while they read the attributes.
LockOwner ==
    /\ lock \in AppThread \cup {NULL}
    /\ \A t \in AppThread :
          lock = t <=> pc[t] \in MutatorPC \cup {"locked"}

\* The CoAP thread connects, without the mutex, only after provisioning.
CoapThreadConnects ==
    pc[CoapThread] \in ConnectPC => access_token /\ state = "CONNECTING"

\* The state of the client during the calls that change it.
StateOfPlace ==
    \A t \in Thread :
        /\ pc[t] \in {"start_client", "subscribe"} => state = "CONNECTING"
        /\ pc[t] \in SuspendPC => state = "CONNECTED" /\ SuspendDisconnect
        /\ pc[t] = "resume_subscribe" =>
              state = "SUSPENDED" /\ SuspendDisconnect
        /\ pc[t] = "set_connected" =>
              \/ state = "CONNECTING"
              \/ state = "SUSPENDED" /\ SuspendDisconnect
        /\ pc[t] \in {"disconnect_unsubscribe", "disconnect_close"} =>
              state \in {"CONNECTED", "SUSPENDED"}
        /\ pc[t] = "set_disconnected" =>
              state \in {"CONNECTING", "CONNECTED", "SUSPENDED"}

ControlInv ==
    /\ TypeOK
    /\ Places
    /\ LockOwner
    /\ CoapThreadConnects
    /\ StateOfPlace
    /\ SingleMutator
    /\ ProvisioningExclusive

\* A thread has a block in hand exactly while it is about to send, or while
\* it runs a callback that ends the block's request.
BlockInHand ==
    \A t \in Thread :
        req[t] # NULL <=>
            IF t = CoapThread
            THEN pc[t] \in ConnectPC \cup {"attributes_ended"}
            ELSE pc[t] = "send"

\* Where there is no observation.
ObservationOfPlace ==
    /\ state \in {"INIT", "DISCONNECTED"} => attributes_observation = NULL
    /\ state = "CONNECTING" \/ (state = "SUSPENDED" /\ SuspendDisconnect) =>
          attributes_observation = NULL
            \/ \E t \in Thread : pc[t] = "set_connected"
    /\ \A t \in Thread :
          pc[t] \in {"start_client", "subscribe", "resume_subscribe",
                     "disconnect_close", "set_disconnected",
                     "suspend_close", "set_suspended"} =>
              attributes_observation = NULL

BlockInv ==
    /\ BlockInHand
    /\ SlabAccounting
    /\ ObservationTracked
    /\ ObservationOfPlace
-----------------------------------------------------------------------------
(* Types *)

LEMMA TypeStep == TypeOK /\ [Next]_vars => TypeOK'
<1> SUFFICES ASSUME TypeOK, [Next]_vars PROVE TypeOK'
  OBVIOUS
<1> USE ThreadAssumption, NullAssumption, ConfigAssumption
      DEF TypeOK, Thread, State, Purpose, PC, MutatorPC, ConnectPC,
          DisconnectPC, SuspendPC, ResumePC, AttributePC, Goto, connection,
          tokens, blocks
<1>1. ASSUME NEW t \in AppThread, thingsboard_init(t) PROVE TypeOK'
  BY <1>1 DEF thingsboard_init
<1>2. ASSUME NEW t \in AppThread, thingsboard_connect(t) PROVE TypeOK'
  BY <1>2 DEF thingsboard_connect, thingsboard_socket_connect, Connectable
<1>3. ASSUME NEW t \in AppThread, thingsboard_disconnect(t) PROVE TypeOK'
  BY <1>3 DEF thingsboard_disconnect, Disconnectable
<1>4. ASSUME NEW t \in AppThread, thingsboard_suspend(t) PROVE TypeOK'
  BY <1>4 DEF thingsboard_suspend, suspend_keeping_socket,
         suspend_closing_socket
<1>5. ASSUME NEW t \in AppThread, thingsboard_resume(t) PROVE TypeOK'
  BY <1>5 DEF thingsboard_resume, resume_keeping_socket,
         resume_with_new_socket, thingsboard_socket_connect
<1>6. ASSUME NEW t \in AppThread, thingsboard_lock(t) PROVE TypeOK'
  BY <1>6 DEF thingsboard_lock
<1>7. ASSUME NEW t \in AppThread \cup {WorkQueue},
             thingsboard_send_telemetry(t)
      PROVE TypeOK'
  BY <1>7 DEF thingsboard_send_telemetry, TakeBlock,
         thingsboard_request_alloc, Free
<1>8. ASSUME NEW t \in Thread, thingsboard_connect_failed(t) PROVE TypeOK'
  BY <1>8 DEF thingsboard_connect_failed
<1>9. ASSUME NEW t \in Thread, start_client(t) PROVE TypeOK'
  <2>1. CASE AnnounceFirmware(t) /\ access_token' = TRUE
             /\ UNCHANGED stored_token
    BY <2>1 DEF AnnounceFirmware, Messages, Free
  <2>2. CASE make_provisioning_request(t)
    BY <2>2 DEF make_provisioning_request, thingsboard_request_alloc, Free
  <2>3. CASE thingsboard_provision_device(t) /\ ~make_provisioning_request(t)
    BY <2>3 DEF thingsboard_provision_device
  <2>. QED BY <1>9, <2>1, <2>2, <2>3 DEF start_client
<1>10. ASSUME NEW t \in Thread, start_client_subscribe(t) PROVE TypeOK'
  BY <1>10 DEF start_client_subscribe, Subscribed, SubscribeFailed,
         thingsboard_client_subscribe_attributes, thingsboard_request_alloc,
         Free, thingsboard_socket_close
<1>11. ASSUME NEW t \in Thread, set_connected(t) PROVE TypeOK'
  BY <1>11 DEF set_connected, thingsboard_set_state, thingsboard_request_free
<1>12. ASSUME NEW t \in Thread, set_suspended(t) PROVE TypeOK'
  BY <1>12 DEF set_suspended, thingsboard_set_state, thingsboard_request_free
<1>13. ASSUME NEW t \in Thread, set_disconnected(t) PROVE TypeOK'
  BY <1>13 DEF set_disconnected, thingsboard_set_state,
         thingsboard_request_free
<1>14. ASSUME NEW t \in Thread, disconnect_unsubscribe(t) PROVE TypeOK'
  BY <1>14 DEF disconnect_unsubscribe,
         thingsboard_client_unsubscribe_attributes, CancelObservation,
         EndRequest
<1>15. ASSUME NEW t \in Thread, disconnect_close(t) PROVE TypeOK'
  BY <1>15 DEF disconnect_close, thingsboard_socket_close
<1>16. ASSUME NEW t \in Thread, suspend_unsubscribe(t) PROVE TypeOK'
  BY <1>16 DEF suspend_unsubscribe,
         thingsboard_client_unsubscribe_attributes, CancelObservation,
         EndRequest
<1>17. ASSUME NEW t \in Thread, suspend_close(t) PROVE TypeOK'
  BY <1>17 DEF suspend_close, thingsboard_socket_close
<1>18. ASSUME NEW t \in Thread, resume_subscribe(t) PROVE TypeOK'
  BY <1>18 DEF resume_subscribe, Subscribed, ResubscribeFailed,
         thingsboard_client_subscribe_attributes, thingsboard_request_alloc,
         Free, thingsboard_socket_close
<1>19. ASSUME NEW t \in Thread, thingsboard_send_telemetry_request(t)
      PROVE  TypeOK'
  BY <1>19 DEF thingsboard_send_telemetry_request, SendFailed,
         thingsboard_request_free
<1>20. ASSUME NEW t \in Thread, thingsboard_unlock(t) PROVE TypeOK'
  BY <1>20 DEF thingsboard_unlock
<1>21. ASSUME NEW r \in Request, thingsboard_handle_response(r) PROVE TypeOK'
  BY <1>21 DEF thingsboard_handle_response, EndRequest
<1>22. ASSUME NEW r \in Request, client_handle_fw_chunk(r) PROVE TypeOK'
  BY <1>22 DEF client_handle_fw_chunk, Messages, Free
<1>23. ASSUME NEW r \in Request, client_handle_prov_resp_failed(r)
      PROVE  TypeOK'
  BY <1>23 DEF client_handle_prov_resp_failed, EndRequest
<1>24. ASSUME NEW r \in Request, client_handle_prov_resp(r) PROVE TypeOK'
  BY <1>24 DEF client_handle_prov_resp
<1>25. ASSUME NEW r \in Request, attributes_callback(r) PROVE TypeOK'
  BY <1>25 DEF attributes_callback
<1>26. ASSUME attributes_update PROVE TypeOK'
  BY <1>26 DEF attributes_update, Messages, Free
<1>27. ASSUME attributes_ended PROVE TypeOK'
  BY <1>27 DEF attributes_ended, ForgetObservation, thingsboard_request_free
<1>28. CASE UNCHANGED vars
  BY <1>28 DEF vars
<1>. QED BY <1>1, <1>2, <1>3, <1>4, <1>5, <1>6, <1>7, <1>8, <1>9, <1>10,
       <1>11, <1>12, <1>13, <1>14, <1>15, <1>16, <1>17, <1>18, <1>19, <1>20,
       <1>21, <1>22, <1>23, <1>24, <1>25, <1>26, <1>27, <1>28 DEF Next, Call,
       Continue, Callback, client_handle_attribute_notification

\* The variables keep their types, and a thread that is about to send, or to
\* report the end of the observation, has a block in hand.
THEOREM TypeCorrect == Spec => []TypeOK
<1>1. Init => TypeOK
  BY NullAssumption, ConfigAssumption
     DEF Init, TypeOK, State, Purpose, PC, MutatorPC, ConnectPC, Thread
<1>2. TypeOK /\ [Next]_vars => TypeOK'
  BY TypeStep
<1>. QED BY <1>1, <1>2, PTL DEF Spec

-----------------------------------------------------------------------------
(* Where the threads may be *)

\* The steps that matter: thingsboard_connect, _disconnect, _suspend and
\* _resume start with the mutex free, so that no application thread is inside
\* any of them, and in a state in which the CoAP thread does not connect;
\* client_handle_prov_resp starts while nobody is (ProvisioningExclusive);
\* thingsboard_set_state leaves nobody behind.

LEMMA ControlStep == ControlInv /\ TypeOK' /\ [Next]_vars => ControlInv'
<1> SUFFICES ASSUME ControlInv, TypeOK', [Next]_vars PROVE ControlInv'
  OBVIOUS
<1> USE ThreadAssumption, NullAssumption, ConfigAssumption
      DEF ControlInv, TypeOK, Thread, State, Purpose, PC, MutatorPC,
          ConnectPC, DisconnectPC, SuspendPC, ResumePC, AttributePC, Goto,
          connection, tokens, blocks, Places, LockOwner, CoapThreadConnects,
          StateOfPlace, SingleMutator, ProvisioningExclusive
<1>1. ASSUME NEW t \in AppThread, thingsboard_init(t) PROVE ControlInv'
  BY <1>1 DEF thingsboard_init
<1>2. ASSUME NEW t \in AppThread, thingsboard_connect(t) PROVE ControlInv'
  BY <1>2 DEF thingsboard_connect, thingsboard_socket_connect, Connectable
<1>3. ASSUME NEW t \in AppThread, thingsboard_disconnect(t) PROVE ControlInv'
  BY <1>3 DEF thingsboard_disconnect, Disconnectable
<1>4. ASSUME NEW t \in AppThread, thingsboard_suspend(t) PROVE ControlInv'
  BY <1>4 DEF thingsboard_suspend, suspend_keeping_socket,
           suspend_closing_socket
<1>5. ASSUME NEW t \in AppThread, thingsboard_resume(t) PROVE ControlInv'
  BY <1>5 DEF thingsboard_resume, resume_keeping_socket,
           resume_with_new_socket, thingsboard_socket_connect
<1>6. ASSUME NEW t \in AppThread, thingsboard_lock(t) PROVE ControlInv'
  BY <1>6 DEF thingsboard_lock
<1>7. ASSUME NEW t \in AppThread \cup {WorkQueue},
             thingsboard_send_telemetry(t) PROVE ControlInv'
  BY <1>7 DEF thingsboard_send_telemetry, TakeBlock,
           thingsboard_request_alloc, Free
<1>8. ASSUME NEW t \in Thread, thingsboard_connect_failed(t)
      PROVE  ControlInv'
  BY <1>8 DEF thingsboard_connect_failed
<1>9. ASSUME NEW t \in Thread, start_client(t) PROVE ControlInv'
  BY <1>9 DEF start_client, thingsboard_provision_device,
           make_provisioning_request, AnnounceFirmware
<1>10. ASSUME NEW t \in Thread, start_client_subscribe(t) PROVE ControlInv'
  BY <1>10 DEF start_client_subscribe, Subscribed, SubscribeFailed,
           thingsboard_client_subscribe_attributes,
           thingsboard_request_alloc, Free, thingsboard_socket_close
<1>11. ASSUME NEW t \in Thread, set_connected(t) PROVE ControlInv'
  BY <1>11 DEF set_connected, thingsboard_set_state,
           thingsboard_request_free, CanLock
<1>12. ASSUME NEW t \in Thread, set_suspended(t) PROVE ControlInv'
  BY <1>12 DEF set_suspended, thingsboard_set_state,
           thingsboard_request_free, CanLock
<1>13. ASSUME NEW t \in Thread, set_disconnected(t) PROVE ControlInv'
  BY <1>13 DEF set_disconnected, thingsboard_set_state,
           thingsboard_request_free, CanLock
<1>14. ASSUME NEW t \in Thread, disconnect_unsubscribe(t) PROVE ControlInv'
  BY <1>14 DEF disconnect_unsubscribe,
           thingsboard_client_unsubscribe_attributes, CancelObservation,
           EndRequest
<1>15. ASSUME NEW t \in Thread, disconnect_close(t) PROVE ControlInv'
  BY <1>15 DEF disconnect_close, thingsboard_socket_close
<1>16. ASSUME NEW t \in Thread, suspend_unsubscribe(t) PROVE ControlInv'
  BY <1>16 DEF suspend_unsubscribe,
           thingsboard_client_unsubscribe_attributes, CancelObservation,
           EndRequest
<1>17. ASSUME NEW t \in Thread, suspend_close(t) PROVE ControlInv'
  BY <1>17 DEF suspend_close, thingsboard_socket_close
<1>18. ASSUME NEW t \in Thread, resume_subscribe(t) PROVE ControlInv'
  BY <1>18 DEF resume_subscribe, Subscribed, ResubscribeFailed,
           thingsboard_client_subscribe_attributes,
           thingsboard_request_alloc, Free, thingsboard_socket_close
<1>19. ASSUME NEW t \in Thread, thingsboard_send_telemetry_request(t)
      PROVE  ControlInv'
  BY <1>19 DEF thingsboard_send_telemetry_request, SendFailed,
           thingsboard_request_free
<1>20. ASSUME NEW t \in Thread, thingsboard_unlock(t) PROVE ControlInv'
  BY <1>20 DEF thingsboard_unlock
<1>21. ASSUME NEW r \in Request, thingsboard_handle_response(r)
      PROVE  ControlInv'
  BY <1>21 DEF thingsboard_handle_response, EndRequest, CallbackMayRun
<1>22. ASSUME NEW r \in Request, client_handle_fw_chunk(r) PROVE ControlInv'
  BY <1>22 DEF client_handle_fw_chunk, Messages, Free, CallbackMayRun
<1>23. ASSUME NEW r \in Request, client_handle_prov_resp_failed(r)
      PROVE  ControlInv'
  BY <1>23 DEF client_handle_prov_resp_failed, EndRequest, CallbackMayRun
<1>24. ASSUME NEW r \in Request, client_handle_prov_resp(r) PROVE ControlInv'
  BY <1>24 DEF client_handle_prov_resp, CallbackMayRun
<1>25. ASSUME NEW r \in Request, attributes_callback(r) PROVE ControlInv'
  BY <1>25 DEF attributes_callback, CallbackMayRun
<1>26. ASSUME attributes_update PROVE ControlInv'
  BY <1>26 DEF attributes_update, Messages, Free, CanLock
<1>27. ASSUME attributes_ended PROVE ControlInv'
  BY <1>27 DEF attributes_ended, ForgetObservation, thingsboard_request_free,
           CanLock
<1>28. CASE UNCHANGED vars
  BY <1>28 DEF vars
<1>. QED BY <1>1, <1>2, <1>3, <1>4, <1>5, <1>6, <1>7, <1>8, <1>9, <1>10,
         <1>11, <1>12, <1>13, <1>14, <1>15, <1>16, <1>17, <1>18, <1>19,
         <1>20, <1>21, <1>22, <1>23, <1>24, <1>25, <1>26, <1>27, <1>28 DEF
         Next, Call, Continue, Callback, client_handle_attribute_notification

-----------------------------------------------------------------------------
(* Who owns the blocks and the observation *)

\* The steps that matter: the callback that ends a request finds its block
\* with the CoAP client only, and gives it back; a thread that takes a block
\* has none in hand, so that it forgets none (BlockInHand); start_client in
\* the CoAP thread, which has one, never asks for a token again
\* (CoapThreadConnects); whoever subscribes finds no observation, because
\* nobody reaches that place with one (ObservationOfPlace).

LEMMA BlockStep ==
  ControlInv /\ ControlInv' /\ BlockInv /\ [Next]_vars => BlockInv'
<1> SUFFICES ASSUME ControlInv, ControlInv', BlockInv, [Next]_vars
             PROVE  BlockInv'
  OBVIOUS
<1> USE ThreadAssumption, NullAssumption, ConfigAssumption
      DEF ControlInv, TypeOK, Thread, State, Purpose, PC, MutatorPC,
          ConnectPC, DisconnectPC, SuspendPC, ResumePC, AttributePC, Goto,
          connection, tokens, blocks, Places, LockOwner, CoapThreadConnects,
          StateOfPlace, SingleMutator, ProvisioningExclusive,
          BlockInv, BlockInHand, SlabAccounting, Holders, ObservationTracked,
          ObservationOfPlace
<1>1. ASSUME NEW t \in AppThread, thingsboard_init(t) PROVE BlockInv'
  BY <1>1 DEF thingsboard_init
<1>2. ASSUME NEW t \in AppThread, thingsboard_connect(t) PROVE BlockInv'
  BY <1>2 DEF thingsboard_connect, thingsboard_socket_connect, Connectable
<1>3. ASSUME NEW t \in AppThread, thingsboard_disconnect(t) PROVE BlockInv'
  BY <1>3 DEF thingsboard_disconnect, Disconnectable
<1>4. ASSUME NEW t \in AppThread, thingsboard_suspend(t) PROVE BlockInv'
  BY <1>4 DEF thingsboard_suspend, suspend_keeping_socket,
           suspend_closing_socket
<1>5. ASSUME NEW t \in AppThread, thingsboard_resume(t) PROVE BlockInv'
  BY <1>5 DEF thingsboard_resume, resume_keeping_socket,
           resume_with_new_socket, thingsboard_socket_connect
<1>6. ASSUME NEW t \in AppThread, thingsboard_lock(t) PROVE BlockInv'
  BY <1>6 DEF thingsboard_lock
<1>7. ASSUME NEW t \in AppThread \cup {WorkQueue},
             thingsboard_send_telemetry(t) PROVE BlockInv'
  BY <1>7 DEF thingsboard_send_telemetry, TakeBlock,
           thingsboard_request_alloc, Free
<1>8. ASSUME NEW t \in Thread, thingsboard_connect_failed(t) PROVE BlockInv'
  BY <1>8 DEF thingsboard_connect_failed
<1>9. ASSUME NEW t \in Thread, start_client(t) PROVE BlockInv'
  BY <1>9 DEF start_client, thingsboard_provision_device,
           make_provisioning_request, AnnounceFirmware, Messages, Free,
           thingsboard_request_alloc
<1>10. ASSUME NEW t \in Thread, start_client_subscribe(t) PROVE BlockInv'
  BY <1>10 DEF start_client_subscribe, Subscribed, SubscribeFailed,
           thingsboard_client_subscribe_attributes,
           thingsboard_request_alloc, Free, thingsboard_socket_close
<1>11. ASSUME NEW t \in Thread, set_connected(t) PROVE BlockInv'
  BY <1>11 DEF set_connected, thingsboard_set_state,
           thingsboard_request_free, CanLock
<1>12. ASSUME NEW t \in Thread, set_suspended(t) PROVE BlockInv'
  BY <1>12 DEF set_suspended, thingsboard_set_state,
           thingsboard_request_free, CanLock
<1>13. ASSUME NEW t \in Thread, set_disconnected(t) PROVE BlockInv'
  BY <1>13 DEF set_disconnected, thingsboard_set_state,
           thingsboard_request_free, CanLock
<1>14. ASSUME NEW t \in Thread, disconnect_unsubscribe(t) PROVE BlockInv'
  BY <1>14 DEF disconnect_unsubscribe,
           thingsboard_client_unsubscribe_attributes, CancelObservation,
           EndRequest
<1>15. ASSUME NEW t \in Thread, disconnect_close(t) PROVE BlockInv'
  BY <1>15 DEF disconnect_close, thingsboard_socket_close
<1>16. ASSUME NEW t \in Thread, suspend_unsubscribe(t) PROVE BlockInv'
  BY <1>16 DEF suspend_unsubscribe,
           thingsboard_client_unsubscribe_attributes, CancelObservation,
           EndRequest
<1>17. ASSUME NEW t \in Thread, suspend_close(t) PROVE BlockInv'
  BY <1>17 DEF suspend_close, thingsboard_socket_close
<1>18. ASSUME NEW t \in Thread, resume_subscribe(t) PROVE BlockInv'
  BY <1>18 DEF resume_subscribe, Subscribed, ResubscribeFailed,
           thingsboard_client_subscribe_attributes,
           thingsboard_request_alloc, Free, thingsboard_socket_close
<1>19. ASSUME NEW t \in Thread, thingsboard_send_telemetry_request(t)
      PROVE  BlockInv'
  BY <1>19 DEF thingsboard_send_telemetry_request, SendFailed,
           thingsboard_request_free
<1>20. ASSUME NEW t \in Thread, thingsboard_unlock(t) PROVE BlockInv'
  BY <1>20 DEF thingsboard_unlock
<1>21. ASSUME NEW r \in Request, thingsboard_handle_response(r)
      PROVE  BlockInv'
  BY <1>21 DEF thingsboard_handle_response, EndRequest, CallbackMayRun
<1>22. ASSUME NEW r \in Request, client_handle_fw_chunk(r) PROVE BlockInv'
  BY <1>22 DEF client_handle_fw_chunk, Messages, Free, CallbackMayRun
<1>23. ASSUME NEW r \in Request, client_handle_prov_resp_failed(r)
      PROVE  BlockInv'
  BY <1>23 DEF client_handle_prov_resp_failed, EndRequest, CallbackMayRun
<1>24. ASSUME NEW r \in Request, client_handle_prov_resp(r) PROVE BlockInv'
  BY <1>24 DEF client_handle_prov_resp, CallbackMayRun
<1>25. ASSUME NEW r \in Request, attributes_callback(r) PROVE BlockInv'
  BY <1>25 DEF attributes_callback, CallbackMayRun
<1>26. ASSUME attributes_update PROVE BlockInv'
  BY <1>26 DEF attributes_update, Messages, Free, CanLock
<1>27. ASSUME attributes_ended PROVE BlockInv'
  BY <1>27 DEF attributes_ended, ForgetObservation, thingsboard_request_free,
           CanLock
<1>28. CASE UNCHANGED vars
  BY <1>28 DEF vars
<1>. QED BY <1>1, <1>2, <1>3, <1>4, <1>5, <1>6, <1>7, <1>8, <1>9, <1>10,
         <1>11, <1>12, <1>13, <1>14, <1>15, <1>16, <1>17, <1>18, <1>19,
         <1>20, <1>21, <1>22, <1>23, <1>24, <1>25, <1>26, <1>27, <1>28 DEF
         Next, Call, Continue, Callback, client_handle_attribute_notification

-----------------------------------------------------------------------------
(* The theorems *)

\* At the start every thread is outside the library, and nothing is lent.
LEMMA InitialInv == Init => ControlInv /\ BlockInv
BY ThreadAssumption, NullAssumption, ConfigAssumption
   DEF Init, ControlInv, TypeOK, State, Purpose, PC, MutatorPC, ConnectPC,
       DisconnectPC, SuspendPC, ResumePC, AttributePC, Thread, Places,
       LockOwner, CoapThreadConnects, StateOfPlace, SingleMutator,
       ProvisioningExclusive, BlockInv, BlockInHand, SlabAccounting, Holders,
       ObservationTracked, ObservationOfPlace

\* The inductive invariant.
LEMMA Invariant == Spec => [](ControlInv /\ BlockInv)
<1>1. Init => ControlInv /\ BlockInv
  BY InitialInv
<1>2. ControlInv /\ BlockInv /\ [Next]_vars => (ControlInv /\ BlockInv)'
  BY TypeStep, ControlStep, BlockStep DEF ControlInv
<1>. QED BY <1>1, <1>2, PTL DEF Spec

\* One thread at a time changes the connection: neither the CoAP thread that
\* connects without the mutex nor any API call ever meets another one.
THEOREM OneMutator == Spec => []SingleMutator
<1>1. ControlInv => SingleMutator
  BY DEF ControlInv
<1>. QED BY Invariant, <1>1, PTL

\* A token is asked for at most once at a time, while nobody goes on
\* connecting, and the answer finds the client still CONNECTING.
THEOREM ProvisionsAlone == Spec => []ProvisioningExclusive
<1>1. ControlInv => ProvisioningExclusive
  BY DEF ControlInv
<1>. QED BY Invariant, <1>1, PTL

\* No request block is leaked, freed twice or used by two: each allocated
\* block has one owner, whatever the size of the slab, the number of
\* threads and the order in which callbacks and calls end.
THEOREM BlocksAccounted == Spec => []SlabAccounting
<1>1. BlockInv => SlabAccounting
  BY DEF BlockInv
<1>. QED BY Invariant, <1>1, PTL

\* The client's attributes_observation is the CoAP client's observation.
THEOREM TracksObservation == Spec => []ObservationTracked
<1>1. BlockInv => ObservationTracked
  BY DEF BlockInv
<1>. QED BY Invariant, <1>1, PTL

\* The assertion of thingsboard_client_subscribe_attributes never fails.
THEOREM NeverSubscribedTwice == Spec => []SubscribesOnce
<1>1. BlockInv => SubscribesOnce
  BY DEF BlockInv, ObservationOfPlace, SubscribesOnce
<1>. QED BY Invariant, <1>1, PTL

-----------------------------------------------------------------------------
(* The socket *)

Link == server_socket \in open_sockets

\* Where the client has an open socket, with provisioning or without.
SocketOfPlace ==
    /\ \A t \in Thread :
          pc[t] \in {"start_client", "subscribe", "resume_subscribe",
                     "set_connected"} => Link
    /\ state = "CONNECTING" =>
          Link \/ \E t \in Thread : pc[t] = "set_disconnected"
    /\ state = "CONNECTED" \/ (state = "SUSPENDED" /\ ~SuspendDisconnect) =>
          \/ Link
          \/ \E t \in Thread : pc[t] \in {"set_disconnected", "set_suspended"}

\* Where the socket the client used is closed, with provisioning or without.
ClosedOfPlace ==
    /\ \A t \in Thread :
          \/ pc[t] = "set_disconnected" /\ state # "CONNECTING"
          \/ pc[t] = "set_suspended"
          => ~Link
    /\ state = "SUSPENDED" /\ SuspendDisconnect =>
          \/ ~Link
          \/ \E t \in Thread : pc[t] \in {"resume_subscribe", "set_connected"}

\* Where no socket is open at all, which provisioning may break.
NoSocketOfPlace ==
    /\ SocketOwned
    /\ \A t \in Thread :
          pc[t] \in {"set_disconnected", "set_suspended"} => open_sockets = {}
    /\ state = "SUSPENDED" /\ SuspendDisconnect =>
          \/ open_sockets = {}
          \/ \E t \in Thread : pc[t] \in {"resume_subscribe", "set_connected"}

\* Nobody can lose the observation of a client that is about to be CONNECTED:
\* the mutex or the CoAP thread itself keeps its end from being reported.
Established ==
    \A t \in Thread :
        pc[t] = "set_connected" => attributes_observation # NULL

SocketInv ==
    /\ SocketOfPlace
    /\ ClosedOfPlace
    /\ Established
    /\ ~UseProvisioning => NoSocketOfPlace

\* The steps that matter: every way to "set_disconnected" with a static token
\* leads through thingsboard_socket_close; the end of the observation cannot
\* be reported between Subscribed and set_connected (Established).

LEMMA SocketStep ==
  ControlInv /\ BlockInv /\ SocketInv /\ ControlInv' /\ [Next]_vars
    => SocketInv'
<1> SUFFICES ASSUME ControlInv, BlockInv, SocketInv, ControlInv', [Next]_vars
             PROVE  SocketInv'
  OBVIOUS
<1> USE ThreadAssumption, NullAssumption, ConfigAssumption
      DEF ControlInv, TypeOK, Thread, State, PC, MutatorPC, ConnectPC,
          DisconnectPC, SuspendPC, ResumePC, AttributePC, Goto, connection,
          tokens, blocks, Places, LockOwner, CoapThreadConnects,
          StateOfPlace, SingleMutator, ProvisioningExclusive, BlockInv,
          ObservationOfPlace, SocketInv, SocketOfPlace, ClosedOfPlace,
          NoSocketOfPlace, SocketOwned, Established, Link
<1>1. ASSUME NEW t \in AppThread, thingsboard_init(t) PROVE SocketInv'
  BY <1>1 DEF thingsboard_init
<1>2. ASSUME NEW t \in AppThread, thingsboard_connect(t) PROVE SocketInv'
  BY <1>2 DEF thingsboard_connect, thingsboard_socket_connect, Connectable
<1>3. ASSUME NEW t \in AppThread, thingsboard_disconnect(t) PROVE SocketInv'
  BY <1>3 DEF thingsboard_disconnect, Disconnectable
<1>4. ASSUME NEW t \in AppThread, thingsboard_suspend(t) PROVE SocketInv'
  BY <1>4 DEF thingsboard_suspend, suspend_keeping_socket,
           suspend_closing_socket
<1>5. ASSUME NEW t \in AppThread, thingsboard_resume(t) PROVE SocketInv'
  BY <1>5 DEF thingsboard_resume, resume_keeping_socket,
           resume_with_new_socket, thingsboard_socket_connect
<1>6. ASSUME NEW t \in AppThread, thingsboard_lock(t) PROVE SocketInv'
  BY <1>6 DEF thingsboard_lock
<1>7. ASSUME NEW t \in AppThread \cup {WorkQueue},
             thingsboard_send_telemetry(t) PROVE SocketInv'
  BY <1>7 DEF thingsboard_send_telemetry, TakeBlock,
           thingsboard_request_alloc, Free
<1>8. ASSUME NEW t \in Thread, thingsboard_connect_failed(t)
      PROVE  SocketInv'
  BY <1>8 DEF thingsboard_connect_failed
<1>9. ASSUME NEW t \in Thread, start_client(t) PROVE SocketInv'
  BY <1>9 DEF start_client, thingsboard_provision_device,
           make_provisioning_request, AnnounceFirmware
<1>10. ASSUME NEW t \in Thread, start_client_subscribe(t) PROVE SocketInv'
  BY <1>10 DEF start_client_subscribe, Subscribed, SubscribeFailed,
           thingsboard_client_subscribe_attributes,
           thingsboard_request_alloc, Free, thingsboard_socket_close
<1>11. ASSUME NEW t \in Thread, set_connected(t) PROVE SocketInv'
  BY <1>11 DEF set_connected, thingsboard_set_state,
           thingsboard_request_free, CanLock
<1>12. ASSUME NEW t \in Thread, set_suspended(t) PROVE SocketInv'
  BY <1>12 DEF set_suspended, thingsboard_set_state,
           thingsboard_request_free, CanLock
<1>13. ASSUME NEW t \in Thread, set_disconnected(t) PROVE SocketInv'
  BY <1>13 DEF set_disconnected, thingsboard_set_state,
           thingsboard_request_free, CanLock
<1>14. ASSUME NEW t \in Thread, disconnect_unsubscribe(t) PROVE SocketInv'
  BY <1>14 DEF disconnect_unsubscribe,
           thingsboard_client_unsubscribe_attributes, CancelObservation,
           EndRequest
<1>15. ASSUME NEW t \in Thread, disconnect_close(t) PROVE SocketInv'
  BY <1>15 DEF disconnect_close, thingsboard_socket_close
<1>16. ASSUME NEW t \in Thread, suspend_unsubscribe(t) PROVE SocketInv'
  BY <1>16 DEF suspend_unsubscribe,
           thingsboard_client_unsubscribe_attributes, CancelObservation,
           EndRequest
<1>17. ASSUME NEW t \in Thread, suspend_close(t) PROVE SocketInv'
  BY <1>17 DEF suspend_close, thingsboard_socket_close
<1>18. ASSUME NEW t \in Thread, resume_subscribe(t) PROVE SocketInv'
  BY <1>18 DEF resume_subscribe, Subscribed, ResubscribeFailed,
           thingsboard_client_subscribe_attributes,
           thingsboard_request_alloc, Free, thingsboard_socket_close
<1>19. ASSUME NEW t \in Thread, thingsboard_send_telemetry_request(t)
      PROVE  SocketInv'
  BY <1>19 DEF thingsboard_send_telemetry_request, SendFailed,
           thingsboard_request_free
<1>20. ASSUME NEW t \in Thread, thingsboard_unlock(t) PROVE SocketInv'
  BY <1>20 DEF thingsboard_unlock
<1>21. ASSUME NEW r \in Request, thingsboard_handle_response(r)
      PROVE  SocketInv'
  BY <1>21 DEF thingsboard_handle_response, EndRequest, CallbackMayRun
<1>22. ASSUME NEW r \in Request, client_handle_fw_chunk(r) PROVE SocketInv'
  BY <1>22 DEF client_handle_fw_chunk, Messages, Free, CallbackMayRun
<1>23. ASSUME NEW r \in Request, client_handle_prov_resp_failed(r)
      PROVE  SocketInv'
  BY <1>23 DEF client_handle_prov_resp_failed, EndRequest, CallbackMayRun
<1>24. ASSUME NEW r \in Request, client_handle_prov_resp(r) PROVE SocketInv'
  BY <1>24 DEF client_handle_prov_resp, CallbackMayRun
<1>25. ASSUME NEW r \in Request, attributes_callback(r) PROVE SocketInv'
  BY <1>25 DEF attributes_callback, CallbackMayRun
<1>26. ASSUME attributes_update PROVE SocketInv'
  BY <1>26 DEF attributes_update, Messages, Free, CanLock
<1>27. ASSUME attributes_ended PROVE SocketInv'
  BY <1>27 DEF attributes_ended, ForgetObservation, thingsboard_request_free,
           CanLock
<1>28. CASE UNCHANGED vars
  BY <1>28 DEF vars
<1>. QED BY <1>1, <1>2, <1>3, <1>4, <1>5, <1>6, <1>7, <1>8, <1>9, <1>10,
         <1>11, <1>12, <1>13, <1>14, <1>15, <1>16, <1>17, <1>18, <1>19,
         <1>20, <1>21, <1>22, <1>23, <1>24, <1>25, <1>26, <1>27, <1>28 DEF
         Next, Call, Continue, Callback, client_handle_attribute_notification

LEMMA SocketInvariant == Spec => []SocketInv
<1>1. Init => SocketInv
  BY NullAssumption
     DEF Init, SocketInv, SocketOfPlace, ClosedOfPlace, NoSocketOfPlace,
         SocketOwned, Established, Link
<1>2. SocketInv /\ (ControlInv /\ BlockInv) /\ (ControlInv /\ BlockInv)'
        /\ [Next]_vars => SocketInv'
  BY SocketStep
<1>. QED BY <1>1, <1>2, Invariant, PTL DEF Spec

\* The observation always has the open socket of the client under it.
THEOREM ObservationIsConnected == Spec => []ObservationHasSocket
<1>1. ControlInv /\ BlockInv /\ SocketInv => ObservationHasSocket
  BY DEF ControlInv, TypeOK, State, BlockInv, ObservationOfPlace, SocketInv,
         SocketOfPlace, Link, ObservationHasSocket
<1>. QED BY Invariant, SocketInvariant, <1>1, PTL

\* With a static token no socket is ever lost.
THEOREM SocketsOwned == ASSUME ~UseProvisioning PROVE Spec => []SocketOwned
<1>1. SocketInv => SocketOwned
  BY DEF SocketInv, NoSocketOfPlace
<1>. QED BY SocketInvariant, <1>1, PTL

-----------------------------------------------------------------------------
(* The refinement *)

LEMMA RefinementStep ==
  ASSUME ControlInv, BlockInv, SocketInv, [Next]_vars
  PROVE  [Abstract!Next]_(Abstract!vars)
<1> USE ThreadAssumption, NullAssumption, ConfigAssumption
      DEF ControlInv, TypeOK, Thread, State, PC, MutatorPC, ConnectPC,
          DisconnectPC, SuspendPC, ResumePC, AttributePC, Goto, connection,
          tokens, blocks, Places, LockOwner, CoapThreadConnects,
          StateOfPlace, SingleMutator, BlockInv, ObservationTracked,
          ObservationOfPlace, SocketInv, SocketOfPlace, ClosedOfPlace,
          NoSocketOfPlace, SocketOwned, Established, Link, Abstract!vars
<1>1. ASSUME NEW t \in AppThread, thingsboard_init(t)
      PROVE  [Abstract!Next]_(Abstract!vars)
  BY <1>1 DEF thingsboard_init, Abstract!Next, Abstract!Initialise
<1>2. ASSUME NEW t \in AppThread, thingsboard_connect(t)
      PROVE  [Abstract!Next]_(Abstract!vars)
  BY <1>2 DEF thingsboard_connect, thingsboard_socket_connect, Connectable,
           Abstract!Next, Abstract!Open
<1>3. ASSUME NEW t \in AppThread, thingsboard_disconnect(t)
      PROVE  [Abstract!Next]_(Abstract!vars)
  BY <1>3 DEF thingsboard_disconnect, Disconnectable
<1>4. ASSUME NEW t \in AppThread, thingsboard_suspend(t)
      PROVE  [Abstract!Next]_(Abstract!vars)
  BY <1>4 DEF thingsboard_suspend, suspend_keeping_socket,
           suspend_closing_socket, Abstract!Next, Abstract!Suspend
<1>5. ASSUME NEW t \in AppThread, thingsboard_resume(t)
      PROVE  [Abstract!Next]_(Abstract!vars)
  BY <1>5 DEF thingsboard_resume, resume_keeping_socket,
           resume_with_new_socket, thingsboard_socket_connect, Abstract!Next,
           Abstract!Resume, Abstract!Relink
<1>6. ASSUME NEW t \in AppThread, thingsboard_lock(t)
      PROVE  [Abstract!Next]_(Abstract!vars)
  BY <1>6 DEF thingsboard_lock
<1>7. ASSUME NEW t \in AppThread \cup {WorkQueue},
             thingsboard_send_telemetry(t)
      PROVE  [Abstract!Next]_(Abstract!vars)
  BY <1>7 DEF thingsboard_send_telemetry, TakeBlock,
           thingsboard_request_alloc, Free
<1>8. ASSUME NEW t \in Thread, thingsboard_connect_failed(t)
      PROVE  [Abstract!Next]_(Abstract!vars)
  BY <1>8 DEF thingsboard_connect_failed
<1>9. ASSUME NEW t \in Thread, start_client(t)
      PROVE  [Abstract!Next]_(Abstract!vars)
  BY <1>9 DEF start_client, thingsboard_provision_device,
           make_provisioning_request, AnnounceFirmware
<1>10. ASSUME NEW t \in Thread, start_client_subscribe(t)
      PROVE  [Abstract!Next]_(Abstract!vars)
  BY <1>10 DEF start_client_subscribe, Subscribed, SubscribeFailed,
           thingsboard_client_subscribe_attributes,
           thingsboard_request_alloc, Free, thingsboard_socket_close,
           Abstract!Next, Abstract!Subscribe, Abstract!Unlink
<1>11. ASSUME NEW t \in Thread, set_connected(t)
      PROVE  [Abstract!Next]_(Abstract!vars)
  BY <1>11 DEF set_connected, thingsboard_set_state,
           thingsboard_request_free, CanLock, Abstract!Next,
           Abstract!Establish, Abstract!Resume
<1>12. ASSUME NEW t \in Thread, set_suspended(t)
      PROVE  [Abstract!Next]_(Abstract!vars)
  BY <1>12 DEF set_suspended, thingsboard_set_state,
           thingsboard_request_free, CanLock, Abstract!Next, Abstract!Suspend
<1>13. ASSUME NEW t \in Thread, set_disconnected(t)
      PROVE  [Abstract!Next]_(Abstract!vars)
  BY <1>13 DEF set_disconnected, thingsboard_set_state,
           thingsboard_request_free, CanLock, Abstract!Next, Abstract!Close,
           Abstract!Abandon
<1>14. ASSUME NEW t \in Thread, disconnect_unsubscribe(t)
      PROVE  [Abstract!Next]_(Abstract!vars)
  BY <1>14 DEF disconnect_unsubscribe,
           thingsboard_client_unsubscribe_attributes, CancelObservation,
           EndRequest, Abstract!Next, Abstract!Unsubscribe
<1>15. ASSUME NEW t \in Thread, disconnect_close(t)
      PROVE  [Abstract!Next]_(Abstract!vars)
  BY <1>15 DEF disconnect_close, thingsboard_socket_close, Abstract!Next,
           Abstract!Unlink
<1>16. ASSUME NEW t \in Thread, suspend_unsubscribe(t)
      PROVE  [Abstract!Next]_(Abstract!vars)
  BY <1>16 DEF suspend_unsubscribe,
           thingsboard_client_unsubscribe_attributes, CancelObservation,
           EndRequest, Abstract!Next, Abstract!Unsubscribe
<1>17. ASSUME NEW t \in Thread, suspend_close(t)
      PROVE  [Abstract!Next]_(Abstract!vars)
  BY <1>17 DEF suspend_close, thingsboard_socket_close, Abstract!Next,
           Abstract!Unlink
<1>18. ASSUME NEW t \in Thread, resume_subscribe(t)
      PROVE  [Abstract!Next]_(Abstract!vars)
  BY <1>18 DEF resume_subscribe, Subscribed, ResubscribeFailed,
           thingsboard_client_subscribe_attributes,
           thingsboard_request_alloc, Free, thingsboard_socket_close,
           Abstract!Next, Abstract!Subscribe, Abstract!Unlink
<1>19. ASSUME NEW t \in Thread, thingsboard_send_telemetry_request(t)
      PROVE  [Abstract!Next]_(Abstract!vars)
  BY <1>19 DEF thingsboard_send_telemetry_request, SendFailed,
           thingsboard_request_free
<1>20. ASSUME NEW t \in Thread, thingsboard_unlock(t)
      PROVE  [Abstract!Next]_(Abstract!vars)
  BY <1>20 DEF thingsboard_unlock
<1>21. ASSUME NEW r \in Request, thingsboard_handle_response(r)
      PROVE  [Abstract!Next]_(Abstract!vars)
  BY <1>21 DEF thingsboard_handle_response, EndRequest, CallbackMayRun
<1>22. ASSUME NEW r \in Request, client_handle_fw_chunk(r)
      PROVE  [Abstract!Next]_(Abstract!vars)
  BY <1>22 DEF client_handle_fw_chunk, Messages, Free, CallbackMayRun
<1>23. ASSUME NEW r \in Request, client_handle_prov_resp_failed(r)
      PROVE  [Abstract!Next]_(Abstract!vars)
  BY <1>23 DEF client_handle_prov_resp_failed, EndRequest, CallbackMayRun
<1>24. ASSUME NEW r \in Request, client_handle_prov_resp(r)
      PROVE  [Abstract!Next]_(Abstract!vars)
  BY <1>24 DEF client_handle_prov_resp, CallbackMayRun
<1>25. ASSUME NEW r \in Request, attributes_callback(r)
      PROVE  [Abstract!Next]_(Abstract!vars)
  BY <1>25 DEF attributes_callback, CallbackMayRun
<1>26. ASSUME attributes_update PROVE [Abstract!Next]_(Abstract!vars)
  BY <1>26 DEF attributes_update, Messages, Free, CanLock
<1>27. ASSUME attributes_ended PROVE [Abstract!Next]_(Abstract!vars)
  BY <1>27 DEF attributes_ended, ForgetObservation, thingsboard_request_free,
           CanLock, Abstract!Next, Abstract!Unsubscribe
<1>28. CASE UNCHANGED vars
  BY <1>28 DEF vars
<1>. QED BY <1>1, <1>2, <1>3, <1>4, <1>5, <1>6, <1>7, <1>8, <1>9, <1>10,
         <1>11, <1>12, <1>13, <1>14, <1>15, <1>16, <1>17, <1>18, <1>19,
         <1>20, <1>21, <1>22, <1>23, <1>24, <1>25, <1>26, <1>27, <1>28 DEF
         Next, Call, Continue, Callback, client_handle_attribute_notification

\* The client is a connection as Connection.tla describes it: CONNECTED only
\* with an observation over an open socket, and nothing left of either when
\* DISCONNECTED, however the threads and callbacks interleave; with
\* provisioning except for the link that start_client may lose.
THEOREM Refinement == Spec => ImplementsConnection
<1>1. Init => Abstract!Init
  BY NullAssumption DEF Init, Abstract!Init
<1>2. ControlInv /\ BlockInv /\ SocketInv /\ [Next]_vars
        => [Abstract!Next]_(Abstract!vars)
  BY RefinementStep
<1>. QED
  BY <1>1, <1>2, Invariant, SocketInvariant, PTL
     DEF Spec, ImplementsConnection, Abstract!Spec

-----------------------------------------------------------------------------
(* The request slab as its users share it *)

\* Where block r is and who has it, by the variables of the client.
BlockUser(r) ==
    /\ PlaceOf(r) \in Slab!Place
    /\ UserOf(r) \in Thread \cup (Purpose \ {"none"}) \cup {NULL}
    /\ PlaceOf(r) = "free" <=> r \notin slab
    /\ PlaceOf(r) \in {"free", "ended"} => UserOf(r) = NULL
    /\ PlaceOf(r) = "lent" <=> ongoing[r] # "none"
    /\ PlaceOf(r) = "lent" => UserOf(r) = ongoing[r]
    /\ PlaceOf(r) = "ended" <=> req[CoapThread] = r
    /\ PlaceOf(r) = "prepared" <=>
          \E t \in Thread \ {CoapThread} : req[t] = r
    /\ \A t \in Thread \ {CoapThread} : req[t] = r => UserOf(r) = t

BlockUsers == \A r \in Request : BlockUser(r)

LEMMA UsersOfBlocks == ControlInv /\ BlockInv => BlockUsers
<1> SUFFICES ASSUME ControlInv, BlockInv, NEW r \in Request
             PROVE  BlockUser(r)
  BY DEF BlockUsers
<1> USE DEF ControlInv, TypeOK, BlockInv, SlabAccounting, Holders, Slab!Place
<1>1. CoapThread \in Thread
  BY DEF Thread
<1>2. r \in slab <=> ongoing[r] # "none" \/ InHand(r)
  BY DEF InHand
<1>3. ASSUME NEW t \in Thread, req[t] = r PROVE InHand(r) /\ ongoing[r] = "none"
  BY <1>3 DEF InHand
<1>4. PlaceOf(r) \in Slab!Place
  BY <1>2 DEF PlaceOf
<1>5. /\ PlaceOf(r) = "free" <=> r \notin slab
      /\ PlaceOf(r) = "lent" <=> ongoing[r] # "none"
      /\ PlaceOf(r) = "ended" <=> req[CoapThread] = r
  BY <1>1, <1>2, <1>3 DEF PlaceOf
<1>6. /\ PlaceOf(r) \in {"free", "ended"} => UserOf(r) = NULL
      /\ PlaceOf(r) = "lent" => UserOf(r) = ongoing[r]
  BY DEF UserOf
<1>7. ASSUME PlaceOf(r) = "prepared"
      PROVE  \E t \in Thread : req[t] = r /\ UserOf(r) = t
  <2>1. UserOf(r) = CHOOSE t \in Thread : req[t] = r
    BY <1>7 DEF UserOf
  <2>2. \E t \in Thread : req[t] = r
    BY <1>7 DEF PlaceOf, InHand
  <2>. QED BY <2>1, <2>2
<1>8. UserOf(r) \in Thread \cup (Purpose \ {"none"}) \cup {NULL}
  BY <1>4, <1>5, <1>6, <1>7
<1>9. ASSUME NEW t \in Thread \ {CoapThread}, req[t] = r
      PROVE  PlaceOf(r) = "prepared" /\ UserOf(r) = t
  <2>1. PlaceOf(r) = "prepared"
    <3>1. req[CoapThread] # r
      BY <1>1, <1>9
    <3>. QED BY <3>1, <1>3, <1>9 DEF PlaceOf
  <2>2. PICK u \in Thread : req[u] = r /\ UserOf(r) = u
    BY <2>1, <1>7
  <2>3. u = t
    BY <2>2, <1>9
  <2>. QED BY <2>1, <2>2, <2>3
<1>10. ASSUME PlaceOf(r) = "prepared"
       PROVE  \E t \in Thread \ {CoapThread} : req[t] = r
  BY <1>5, <1>7, <1>10
<1>. QED BY <1>4, <1>5, <1>6, <1>8, <1>9, <1>10 DEF BlockUser

\* A block that nobody touches stays where it is.
BlockStays(r) ==
    /\ ongoing'[r] = ongoing[r]
    /\ r \in slab' <=> r \in slab
    /\ \A t \in Thread : req'[t] = r <=> req[t] = r

\* What becomes of one block, by what becomes of the variables.
LEMMA BlockMoves ==
  ASSUME ControlInv, ControlInv', NEW r \in Request, BlockUser(r), BlockUser(r)'
  PROVE  /\ BlockStays(r) => Slab!Stays(r)
         /\ r \notin slab /\ ongoing'[r] # "none" => Slab!PrepareAndSubmit(r)
         /\ \A t \in Thread \ {CoapThread} :
               /\ r \notin slab /\ req'[t] = r => Slab!Prepare(r, t)
               /\ req[t] = r /\ ongoing'[r] # "none" => Slab!Submit(r, t)
               /\ req[t] = r /\ r \notin slab' => Slab!GiveUp(r, t)
         /\ ongoing[r] # "none" /\ (r \notin slab' \/ req'[CoapThread] = r)
               => Slab!End(r)
         /\ req[CoapThread] = r /\ r \notin slab' => Slab!ReleaseEnded(r)
<1> USE DEF BlockUser, Slab!Place, Slab!Becomes, Slab!Is, Slab!Free, Slab!Lend,
        Slab!Release, Slab!Lent
<1>1. BlockStays(r) => Slab!Stays(r)
  BY DEF BlockStays, Slab!Stays
<1>2. r \notin slab /\ ongoing'[r] # "none" => Slab!PrepareAndSubmit(r)
  BY DEF Slab!PrepareAndSubmit, ControlInv, TypeOK
<1>3. ASSUME NEW t \in Thread \ {CoapThread}
      PROVE  /\ r \notin slab /\ req'[t] = r => Slab!Prepare(r, t)
             /\ req[t] = r /\ ongoing'[r] # "none" => Slab!Submit(r, t)
             /\ req[t] = r /\ r \notin slab' => Slab!GiveUp(r, t)
  BY DEF Slab!Prepare, Slab!Submit, Slab!GiveUp, ControlInv, TypeOK
<1>4. ongoing[r] # "none" /\ (r \notin slab' \/ req'[CoapThread] = r)
        => Slab!End(r)
  BY DEF Slab!End, ControlInv, TypeOK
<1>5. req[CoapThread] = r /\ r \notin slab' => Slab!ReleaseEnded(r)
  BY DEF Slab!ReleaseEnded
<1>. QED BY <1>1, <1>2, <1>3, <1>4, <1>5

\* A step of thread t, block by block.
LEMMA ThreadMoves ==
  ASSUME BlockUsers', NEW t \in Thread,
         \A r \in Request :
            \/ Slab!Stays(r)
            \/ Slab!Prepare(r, t)
            \/ Slab!Submit(r, t)
            \/ Slab!GiveUp(r, t)
            \/ Slab!PrepareAndSubmit(r)
  PROVE  Slab!Next
BY DEF BlockUsers, BlockUser, Slab!Next, Slab!ThreadStep

\* A callback that ends block r, or gives it back, and sends others.
LEMMA CallbackMoves ==
  ASSUME BlockUsers', NEW r \in Request,
         Slab!End(r) \/ Slab!ReleaseEnded(r),
         \A b \in Request \ {r} :
            /\ PlaceOf(b) # "ended"
            /\ Slab!Stays(b) \/ Slab!PrepareAndSubmit(b)
  PROVE  Slab!Next
BY DEF BlockUsers, BlockUser, Slab!Next, Slab!CallbackStep

\* Nothing happens to the blocks.
LEMMA NoBlockMoves ==
  ASSUME UNCHANGED <<slab, ongoing, req>> PROVE UNCHANGED Slab!vars
BY DEF Slab!vars, PlaceOf, UserOf, InHand

\* First the ways in which steps move blocks (<1>c to <1>o), then the steps.
LEMMA SlabStep ==
  ASSUME ControlInv, BlockInv, ControlInv', BlockInv', [Next]_vars
  PROVE  [Slab!Next]_(Slab!vars)
<1> DEFINE Goal == [Slab!Next]_(Slab!vars)
<1>a. BlockUsers
  BY UsersOfBlocks
<1>b. BlockUsers'
  BY UsersOfBlocks, PTL
<1>c. ASSUME UNCHANGED <<slab, ongoing, req>> PROVE Goal
  BY <1>c, NoBlockMoves
<1>d. ASSUME NEW r \in Request PROVE BlockUser(r) /\ BlockUser(r)'
  BY <1>a, <1>b DEF BlockUsers
<1>e. ASSUME NEW r \in Request, BlockStays(r) PROVE Slab!Stays(r)
  BY <1>d, <1>e, BlockMoves
<1>f. ASSUME NEW r \in Request, r \notin slab, ongoing'[r] # "none"
      PROVE  Slab!PrepareAndSubmit(r)
  BY <1>d, <1>f, BlockMoves
<1>g. ASSUME NEW r \in Request, req[CoapThread] # r PROVE PlaceOf(r) # "ended"
  BY <1>d, <1>g DEF BlockUser
<1>h. ASSUME NEW m \in SUBSET Request, m \cap slab = {},
             \A r \in m : ongoing'[r] # "none",
             \A r \in Request \ m : BlockStays(r),
             NEW t \in Thread
      PROVE  Goal
  <2>1. ASSUME NEW r \in Request
        PROVE  Slab!Stays(r) \/ Slab!PrepareAndSubmit(r)
    BY <1>e, <1>f, <1>h
  <2>. QED BY <2>1, <1>b, ThreadMoves
<1>i. ASSUME NEW r \in Request, ongoing[r] # "none",
             r \notin slab' \/ req'[CoapThread] = r,
             \A b \in Request \ {r} : req[CoapThread] # b,
             \A b \in Request \ {r} :
                BlockStays(b) \/ (b \notin slab /\ ongoing'[b] # "none")
      PROVE  Goal
  <2>1. Slab!End(r)
    BY <1>d, <1>i, BlockMoves
  <2>2. ASSUME NEW b \in Request \ {r}
        PROVE  /\ PlaceOf(b) # "ended"
               /\ Slab!Stays(b) \/ Slab!PrepareAndSubmit(b)
    BY <1>e, <1>f, <1>g, <1>i
  <2>. QED BY <2>1, <2>2, <1>b, CallbackMoves
<1>j. ASSUME req[CoapThread] \in Request, req[CoapThread] \notin slab',
             \A b \in Request \ {req[CoapThread]} : BlockStays(b)
      PROVE  Goal
  <2>1. Slab!ReleaseEnded(req[CoapThread])
    BY <1>d, <1>j, BlockMoves
  <2>2. ASSUME NEW b \in Request \ {req[CoapThread]}
        PROVE  /\ PlaceOf(b) # "ended"
               /\ Slab!Stays(b) \/ Slab!PrepareAndSubmit(b)
    BY <1>e, <1>g, <1>j
  <2>. QED BY <2>1, <2>2, <1>b, <1>j, CallbackMoves
<1>k. ASSUME NEW t \in Thread, thingsboard_set_state(t, state'),
             pc[t] \in {"set_connected", "set_suspended", "set_disconnected"}
      PROVE  Goal
  <2> USE ThreadAssumption, NullAssumption, <1>k
        DEF thingsboard_set_state, thingsboard_request_free
  <2>1. CASE t = CoapThread /\ req[t] # NULL
    <3>1. req[CoapThread] \in Request
      BY <2>1 DEF ControlInv, TypeOK
    <3>2. req[CoapThread] \notin slab'
      BY <2>1
    <3>3. ASSUME NEW b \in Request \ {req[CoapThread]} PROVE BlockStays(b)
      BY <2>1 DEF BlockStays, ControlInv, TypeOK
    <3>. QED BY <3>1, <3>2, <3>3, <1>j
  <2>2. CASE ~(t = CoapThread /\ req[t] # NULL)
    <3>1. req[t] = NULL
      BY <2>2 DEF BlockInv, BlockInHand
    <3>. QED BY <3>1, <1>c DEF ControlInv, TypeOK
  <2>. QED BY <2>1, <2>2
<1>l. ASSUME attributes_observation # NULL, CancelObservation, req' = req,
             NEW t \in Thread,
             pc[t] \in {"disconnect_unsubscribe", "suspend_unsubscribe"}
      PROVE  Goal
  <2> USE ThreadAssumption, NullAssumption, <1>l
  <2>1. attributes_observation \in Request
    BY DEF ControlInv, TypeOK
  <2>2. ongoing[attributes_observation] = "observe"
    BY DEF CancelObservation, AttributePC, BlockInv, ObservationTracked
  <2>3. req[CoapThread] = NULL
    BY DEF CancelObservation, BlockInv, BlockInHand, ControlInv, SingleMutator,
           Thread, MutatorPC, ConnectPC, DisconnectPC, SuspendPC, AttributePC,
           Places
  <2>4. attributes_observation \notin slab'
    BY DEF CancelObservation, EndRequest
  <2>5. ASSUME NEW b \in Request \ {attributes_observation}
        PROVE  BlockStays(b)
    BY DEF CancelObservation, EndRequest, BlockStays, ControlInv, TypeOK
  <2>. QED BY <2>1, <2>2, <2>3, <2>4, <2>5, <1>i
<1>m. ASSUME NEW r \in Request, thingsboard_client_subscribe_attributes(r),
             req' = req, NEW t \in Thread
      PROVE  Goal
  <2>1. {r} \cap slab = {} /\ ongoing'[r] # "none"
    BY <1>m DEF thingsboard_client_subscribe_attributes,
           thingsboard_request_alloc, Free, ControlInv, TypeOK
  <2>2. ASSUME NEW b \in Request \ {r} PROVE BlockStays(b)
    BY <1>m DEF thingsboard_client_subscribe_attributes,
           thingsboard_request_alloc, BlockStays, ControlInv, TypeOK
  <2>. QED BY <2>1, <2>2, <1>h
<1>n. ASSUME NEW r \in Request, ongoing[r] # "none", CallbackMayRun,
             EndRequest(r), req' = req
      PROVE  Goal
  <2>1. \A b \in Request : req[CoapThread] # b
    BY <1>n, NullAssumption DEF CallbackMayRun, Thread, BlockInv, BlockInHand,
           ConnectPC
  <2>2. r \notin slab'
    BY <1>n DEF EndRequest
  <2>3. ASSUME NEW b \in Request \ {r} PROVE BlockStays(b)
    BY <1>n DEF EndRequest, BlockStays, ControlInv, TypeOK
  <2>. QED BY <2>1, <2>2, <2>3, <1>i, <1>n
<1>o. ASSUME NEW r \in Request, ongoing[r] # "none", CallbackMayRun,
             ongoing' = [ongoing EXCEPT ![r] = "none"],
             req' = [req EXCEPT ![CoapThread] = r], slab' = slab
      PROVE  Goal
  <2>1. CoapThread \in Thread /\ req[CoapThread] = NULL
    BY <1>o DEF CallbackMayRun, Thread, BlockInv, BlockInHand, ConnectPC
  <2>2. req'[CoapThread] = r
    BY <1>o, <2>1 DEF ControlInv, TypeOK
  <2>3. ASSUME NEW b \in Request \ {r} PROVE BlockStays(b)
    BY <1>o, <2>1, NullAssumption DEF BlockStays, ControlInv, TypeOK
  <2>. QED BY <2>1, <2>2, <2>3, <1>i, <1>o, NullAssumption
<1> HIDE DEF Goal
<1>1. ASSUME NEW t \in AppThread, thingsboard_init(t) PROVE Goal
  BY <1>1, <1>c DEF thingsboard_init, blocks
<1>2. ASSUME NEW t \in AppThread, thingsboard_connect(t) PROVE Goal
  BY <1>2, <1>c DEF thingsboard_connect, blocks
<1>3. ASSUME NEW t \in AppThread, thingsboard_disconnect(t) PROVE Goal
  BY <1>3, <1>c DEF thingsboard_disconnect, blocks
<1>4. ASSUME NEW t \in AppThread, thingsboard_suspend(t) PROVE Goal
  BY <1>4, <1>c DEF thingsboard_suspend, blocks
<1>5. ASSUME NEW t \in AppThread, thingsboard_resume(t) PROVE Goal
  BY <1>5, <1>c DEF thingsboard_resume, blocks
<1>6. ASSUME NEW t \in AppThread, thingsboard_lock(t) PROVE Goal
  BY <1>6, <1>c DEF thingsboard_lock, blocks
<1>7. ASSUME NEW t \in AppThread \cup {WorkQueue},
             thingsboard_send_telemetry(t)
      PROVE  Goal
  <2>1. PICK r \in Request : /\ r \notin slab
                            /\ slab' = slab \cup {r}
                            /\ req' = [req EXCEPT ![t] = r]
    BY <1>7 DEF thingsboard_send_telemetry, TakeBlock,
           thingsboard_request_alloc, Free
  <2>2. t \in Thread \ {CoapThread} /\ req[t] = NULL /\ ongoing' = ongoing
    BY <1>7, ThreadAssumption DEF thingsboard_send_telemetry, Thread, BlockInv,
           BlockInHand
  <2>3. Slab!Prepare(r, t)
    BY <2>1, <2>2, <1>d, BlockMoves DEF ControlInv, TypeOK
  <2>4. ASSUME NEW b \in Request \ {r} PROVE Slab!Stays(b)
    BY <2>1, <2>2, <1>e, NullAssumption DEF BlockStays, ControlInv, TypeOK
  <2>. QED BY <2>2, <2>3, <2>4, <1>b, ThreadMoves DEF Goal
<1>8. ASSUME NEW t \in Thread, thingsboard_connect_failed(t) PROVE Goal
  BY <1>8, <1>c DEF thingsboard_connect_failed, blocks
<1>9. ASSUME NEW t \in Thread, start_client(t) PROVE Goal
  <2>1. CASE AnnounceFirmware(t)
    <3>1. PICK m \in SUBSET Free :
             /\ slab' = slab \cup m
             /\ ongoing' = [r \in Request |->
                               IF r \in m THEN "message" ELSE ongoing[r]]
             /\ req' = req
      BY <2>1 DEF AnnounceFirmware, Messages
    <3>2. ASSUME NEW b \in Request \ m PROVE BlockStays(b)
      BY <3>1 DEF BlockStays
    <3>. QED BY <3>1, <3>2, <1>h DEF Free
  <2>2. CASE make_provisioning_request(t)
    <3>1. PICK r \in Request : /\ r \notin slab
                              /\ slab' = slab \cup {r}
                              /\ ongoing' = [ongoing EXCEPT
                                                ![r] = "provision"]
                              /\ req' = req
      BY <2>2 DEF make_provisioning_request, thingsboard_request_alloc, Free
    <3>2. ASSUME NEW b \in Request \ {r} PROVE BlockStays(b)
      BY <3>1 DEF BlockStays, ControlInv, TypeOK
    <3>3. ongoing'[r] # "none"
      BY <3>1 DEF ControlInv, TypeOK
    <3>4. {r} \in SUBSET Request /\ {r} \cap slab = {}
      BY <3>1
    <3>5. \A q \in {r} : ongoing'[q] # "none"
      BY <3>3
    <3>6. \A b \in Request \ {r} : BlockStays(b)
      BY <3>2
    <3>. QED BY <3>4, <3>5, <3>6, <1>h
  <2>3. CASE UNCHANGED <<slab, ongoing, req>>
    BY <2>3, <1>c
  <2>. QED BY <1>9, <2>1, <2>2, <2>3
           DEF start_client, thingsboard_provision_device, blocks
<1>10. ASSUME NEW t \in Thread, start_client_subscribe(t) PROVE Goal
  BY <1>10, <1>c, <1>m DEF start_client_subscribe, Subscribed,
         SubscribeFailed, blocks
<1>11. ASSUME NEW t \in Thread, set_connected(t) PROVE Goal
  <2>1. thingsboard_set_state(t, state')
    BY <1>11 DEF set_connected, thingsboard_set_state
  <2>. QED BY <1>11, <2>1, <1>k DEF set_connected
<1>12. ASSUME NEW t \in Thread, set_suspended(t) PROVE Goal
  <2>1. thingsboard_set_state(t, state')
    BY <1>12 DEF set_suspended, thingsboard_set_state
  <2>. QED BY <1>12, <2>1, <1>k DEF set_suspended
<1>13. ASSUME NEW t \in Thread, set_disconnected(t) PROVE Goal
  <2>1. thingsboard_set_state(t, state')
    BY <1>13 DEF set_disconnected, thingsboard_set_state
  <2>. QED BY <1>13, <2>1, <1>k DEF set_disconnected
<1>14. ASSUME NEW t \in Thread, disconnect_unsubscribe(t) PROVE Goal
  BY <1>14, <1>c, <1>l DEF disconnect_unsubscribe,
         thingsboard_client_unsubscribe_attributes, blocks
<1>15. ASSUME NEW t \in Thread, disconnect_close(t) PROVE Goal
  BY <1>15, <1>c DEF disconnect_close, blocks
<1>16. ASSUME NEW t \in Thread, suspend_unsubscribe(t) PROVE Goal
  BY <1>16, <1>c, <1>l DEF suspend_unsubscribe,
         thingsboard_client_unsubscribe_attributes, blocks
<1>17. ASSUME NEW t \in Thread, suspend_close(t) PROVE Goal
  BY <1>17, <1>c DEF suspend_close, blocks
<1>18. ASSUME NEW t \in Thread, resume_subscribe(t) PROVE Goal
  BY <1>18, <1>c, <1>m DEF resume_subscribe, Subscribed, ResubscribeFailed,
         blocks
<1>19. ASSUME NEW t \in Thread, thingsboard_send_telemetry_request(t)
       PROVE  Goal
  <2>1. t \in Thread \ {CoapThread} /\ req[t] \in Request
    BY <1>19 DEF thingsboard_send_telemetry_request, ControlInv, TypeOK,
           Places, AttributePC, ConnectPC
  <2>2. req' = [req EXCEPT ![t] = NULL]
    BY <1>19 DEF thingsboard_send_telemetry_request
  <2>3. \/ slab' = slab /\ ongoing' = [ongoing EXCEPT ![req[t]] = "message"]
        \/ slab' = slab \ {req[t]} /\ ongoing' = ongoing
    BY <1>19 DEF thingsboard_send_telemetry_request, SendFailed,
           thingsboard_request_free
  <2>4. Slab!Submit(req[t], t) \/ Slab!GiveUp(req[t], t)
    <3>1. ongoing'[req[t]] # "none" \/ req[t] \notin slab'
      BY <2>1, <2>3 DEF ControlInv, TypeOK
    <3>. QED BY <2>1, <3>1, <1>d, BlockMoves
  <2>5. ASSUME NEW b \in Request \ {req[t]} PROVE Slab!Stays(b)
    <3>1. BlockStays(b)
      BY <2>1, <2>2, <2>3, NullAssumption DEF BlockStays, ControlInv, TypeOK
    <3>. QED BY <3>1, <1>e
  <2>. QED BY <2>1, <2>4, <2>5, <1>b, ThreadMoves DEF Goal
<1>20. ASSUME NEW t \in Thread, thingsboard_unlock(t) PROVE Goal
  BY <1>20, <1>c DEF thingsboard_unlock, blocks
<1>21. ASSUME NEW r \in Request, thingsboard_handle_response(r) PROVE Goal
  BY <1>21, <1>n DEF thingsboard_handle_response
<1>22. ASSUME NEW r \in Request, client_handle_fw_chunk(r) PROVE Goal
  <2>1. PICK m \in SUBSET Free, last \in BOOLEAN :
           /\ slab' = (slab \cup m) \ (IF last THEN {r} ELSE {})
           /\ ongoing' = [b \in Request |->
                             IF b \in m THEN "message"
                             ELSE IF b = r /\ last THEN "none"
                                  ELSE ongoing[b]]
           /\ req' = req
    BY <1>22 DEF client_handle_fw_chunk, Messages
  <2>2. r \in slab /\ ongoing[r] # "none" /\ req[CoapThread] = NULL
    BY <1>22 DEF client_handle_fw_chunk, CallbackMayRun, BlockInv,
           SlabAccounting, BlockInHand, Thread, ConnectPC
  <2>3. ASSUME NEW b \in m, b # r PROVE b \notin slab /\ ongoing'[b] # "none"
    BY <2>1, <2>3 DEF Free
  <2>4. ASSUME NEW b \in Request \ m, b # r PROVE BlockStays(b)
    BY <2>1, <2>4 DEF BlockStays
  <2>5. CASE last
    <3>1. r \notin slab'
      BY <2>1, <2>5
    <3>. QED BY <2>2, <2>3, <2>4, <3>1, <1>i, NullAssumption
  <2>6. CASE ~last
    <3>1. r \notin m /\ BlockStays(r)
      BY <2>1, <2>2, <2>6 DEF Free, BlockStays
    <3>. QED BY <2>1, <2>3, <2>4, <3>1, <1>h DEF Free, Thread
  <2>. QED BY <2>5, <2>6
<1>23. ASSUME NEW r \in Request, client_handle_prov_resp_failed(r) PROVE Goal
  BY <1>23, <1>n DEF client_handle_prov_resp_failed
<1>24. ASSUME NEW r \in Request, client_handle_prov_resp(r) PROVE Goal
  BY <1>24, <1>o DEF client_handle_prov_resp
<1>25. ASSUME NEW r \in Request, attributes_callback(r) PROVE Goal
  BY <1>25, <1>c, <1>o DEF attributes_callback
<1>26. ASSUME attributes_update PROVE Goal
  <2>1. PICK m \in SUBSET Free, f \in SUBSET Free :
           /\ slab' = slab \cup m \cup f
           /\ ongoing' = [r \in Request |->
                             IF r \in m THEN "message"
                             ELSE IF r \in f THEN "firmware" ELSE ongoing[r]]
           /\ req' = req
    BY <1>26 DEF attributes_update, Messages
  <2>2. (m \cup f) \cap slab = {} /\ m \cup f \subseteq Request
    BY DEF Free
  <2>3. ASSUME NEW b \in m \cup f PROVE ongoing'[b] # "none"
    BY <2>1, <2>2
  <2>4. ASSUME NEW b \in Request \ (m \cup f) PROVE BlockStays(b)
    BY <2>1 DEF BlockStays
  <2>. QED BY <2>2, <2>3, <2>4, <1>h DEF Thread
<1>27. ASSUME attributes_ended PROVE Goal
  <2>1. CoapThread \in Thread /\ req[CoapThread] \in Request
    BY <1>27 DEF attributes_ended, ControlInv, TypeOK, Thread
  <2>2. req[CoapThread] \notin slab'
    BY <1>27 DEF attributes_ended, thingsboard_request_free
  <2>3. ASSUME NEW b \in Request \ {req[CoapThread]} PROVE BlockStays(b)
    BY <1>27, <2>1, NullAssumption DEF attributes_ended,
           thingsboard_request_free, BlockStays, ControlInv, TypeOK
  <2>. QED BY <2>1, <2>2, <2>3, <1>j
<1>28. ASSUME UNCHANGED vars PROVE Goal
  BY <1>28, <1>c DEF vars
<1>. QED BY <1>1, <1>2, <1>3, <1>4, <1>5, <1>6, <1>7, <1>8, <1>9, <1>10,
         <1>11, <1>12, <1>13, <1>14, <1>15, <1>16, <1>17, <1>18, <1>19,
         <1>20, <1>21, <1>22, <1>23, <1>24, <1>25, <1>26, <1>27, <1>28 DEF
         Goal, Next, Call, Continue, Callback,
         client_handle_attribute_notification

\* The client uses the slab as RequestSlab.tla says, with any number of
\* threads and blocks and in every configuration: whatever a block was used
\* for, it is free in between.
THEOREM SlabIsShared == Spec => ImplementsSlab
<1>1. Init => Slab!Init
  BY NullAssumption DEF Init, Slab!Init, Slab!Free, Slab!Is, Slab!Place,
         PlaceOf, UserOf, InHand, Thread
<1>2. /\ ControlInv /\ BlockInv /\ (ControlInv /\ BlockInv)'
      /\ [Next]_vars
      => [Slab!Next]_(Slab!vars)
  BY SlabStep
<1>. QED
  BY <1>1, <1>2, Invariant, PTL DEF Spec, ImplementsSlab, Slab!Spec

-----------------------------------------------------------------------------
(* A lost observation *)

\* The attributes are subscribed to on the way to a connection, or out of a
\* suspension that has closed the socket, and at no other time.
SubscribedToConnect ==
    attributes_observation = NULL /\ attributes_observation' # NULL =>
        state = "CONNECTING" \/ (state = "SUSPENDED" /\ SuspendDisconnect)

\* A client whose observation has ended with a timeout or a reset
\* (thingsboard.c:329) stays CONNECTED and gets no attributes for as long as
\* it does: nothing but connecting again, or resuming with a new socket,
\* subscribes.
THEOREM SubscribesToConnect == Spec => [][SubscribedToConnect]_vars
<1>1. ControlInv /\ [Next]_vars => [SubscribedToConnect]_vars
  <2> SUFFICES ASSUME ControlInv, Next, attributes_observation = NULL
               PROVE  \/ attributes_observation' = NULL
                      \/ state = "CONNECTING"
                      \/ state = "SUSPENDED" /\ SuspendDisconnect
    BY DEF SubscribedToConnect
  <2>1. ASSUME NEW t \in AppThread, Call(t)
        PROVE  attributes_observation' = NULL
    BY <2>1 DEF Call, connection, thingsboard_init, thingsboard_connect,
           thingsboard_disconnect, thingsboard_suspend, thingsboard_resume,
           thingsboard_lock
  <2>2. ASSUME NEW t \in AppThread \cup {WorkQueue},
               thingsboard_send_telemetry(t)
        PROVE  attributes_observation' = NULL
    BY <2>2 DEF thingsboard_send_telemetry, connection
  <2>3. ASSUME NEW t \in Thread, Continue(t)
        PROVE  \/ attributes_observation' = NULL
               \/ pc[t] \in {"subscribe", "resume_subscribe"}
    BY <2>3 DEF Continue, connection, thingsboard_connect_failed,
           start_client, thingsboard_provision_device, AnnounceFirmware,
           make_provisioning_request, start_client_subscribe,
           set_connected, set_suspended, set_disconnected,
           thingsboard_set_state, disconnect_unsubscribe,
           suspend_unsubscribe, thingsboard_client_unsubscribe_attributes,
           disconnect_close, suspend_close, resume_subscribe,
           thingsboard_send_telemetry_request, thingsboard_unlock
  <2>4. ASSUME NEW r \in Request, Callback(r)
        PROVE  attributes_observation' = NULL
    BY <2>4 DEF Callback, connection, thingsboard_handle_response,
           client_handle_fw_chunk, client_handle_prov_resp_failed,
           client_handle_prov_resp, attributes_callback
  <2>5. ASSUME client_handle_attribute_notification
        PROVE  attributes_observation' = NULL
    BY <2>5 DEF client_handle_attribute_notification, attributes_update,
           attributes_ended, ForgetObservation, connection
  <2>. QED BY <2>1, <2>2, <2>3, <2>4, <2>5 DEF Next, ControlInv, StateOfPlace
<1>. QED BY <1>1, Invariant, PTL DEF Spec
=============================================================================
