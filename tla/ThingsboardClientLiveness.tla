---------------------- MODULE ThingsboardClientLiveness ----------------------
(***************************************************************************)
(* Liveness of ThingsboardClient, for any number of threads, blocks and    *)
(* sockets and every configuration: calls and callbacks return, messages   *)
(* end, attempts to connect end, up to the two ways to be stuck that the   *)
(* model names.                                                            *)
(*                                                                         *)
(* The fairness is that of FairSpec with ENABLED spelled out: a step is    *)
(* possible when its guard (MayContinue, MayNotify, MayEnd) holds, which   *)
(* the invariant WaitsForNothingElse says and the last section proves, as  *)
(* far as it can be said without ENABLED.                                  *)
(***************************************************************************)
EXTENDS ThingsboardClientProofs, FiniteSetTheorems

Continues(t) == <>[]~MayContinue(t) \/ []<><<Continue(t)>>_vars

Notifies ==
    <>[]~MayNotify \/ []<><<client_handle_attribute_notification>>_vars

Responds(r) ==
    <>[]~MayEnd(r, "message") \/ []<><<thingsboard_handle_response(r)>>_vars

Answers(r) ==
    <>[]~MayEnd(r, "provision") \/ []<><<client_handle_prov_resp_any(r)>>_vars

GuardedFairness ==
    /\ \A t \in Thread : Continues(t)
    /\ Notifies
    /\ \A r \in Request : Responds(r)
    /\ \A r \in Request : Answers(r)

GuardedSpec == Spec /\ GuardedFairness

-----------------------------------------------------------------------------
(* Every step brings a call nearer to its end *)

\* How many steps a thread has ahead of it in the library, at most.
Ahead(t) ==
    CASE pc[t] = "idle" -> 0
      [] pc[t] \in {"set_connected", "set_suspended", "set_disconnected",
                    "locked", "send"} \cup AttributePC -> 1
      [] pc[t] \in {"subscribe", "resume_subscribe", "disconnect_close",
                    "suspend_close"} -> 2
      [] pc[t] \in {"disconnect_unsubscribe", "suspend_unsubscribe"} -> 3
      [] pc[t] = "start_client" /\ access_token -> 3
      [] pc[t] = "start_client" /\ ~access_token -> 4
      [] pc[t] = "connect" -> 5

LEMMA AheadType ==
  ASSUME TypeOK, NEW t \in Thread
  PROVE  /\ Ahead(t) \in 0 .. 5
         /\ Ahead(t) = 0 <=> pc[t] = "idle"
BY DEF TypeOK, PC, MutatorPC, ConnectPC, DisconnectPC, SuspendPC, ResumePC,
       AttributePC, Ahead

LEMMA AheadTypeNext ==
  ASSUME TypeOK', NEW t \in Thread
  PROVE  /\ Ahead(t)' \in 0 .. 5
         /\ Ahead(t)' = 0 <=> pc'[t] = "idle"
BY DEF TypeOK, PC, MutatorPC, ConnectPC, DisconnectPC, SuspendPC, ResumePC,
       AttributePC, Ahead

\* The steps of a thread shorten its way.
LEMMA ContinueIsNearer ==
  ASSUME ControlInv, NEW t \in Thread, Continue(t)
  PROVE  Ahead(t)' < Ahead(t)
<1> USE DEF ControlInv, TypeOK, Goto, Ahead, AttributePC, connection, tokens,
            blocks
<1>1. CASE thingsboard_connect_failed(t)
  BY <1>1 DEF thingsboard_connect_failed
<1>2. CASE start_client(t)
  BY <1>2 DEF start_client, thingsboard_provision_device,
         make_provisioning_request, AnnounceFirmware
<1>3. CASE start_client_subscribe(t)
  BY <1>3 DEF start_client_subscribe, Subscribed, SubscribeFailed
<1>4. CASE set_connected(t) \/ set_suspended(t) \/ set_disconnected(t)
  BY <1>4 DEF set_connected, set_suspended, set_disconnected,
         thingsboard_set_state
<1>5. CASE disconnect_unsubscribe(t) \/ disconnect_close(t)
  BY <1>5 DEF disconnect_unsubscribe, disconnect_close
<1>6. CASE suspend_unsubscribe(t) \/ suspend_close(t)
  BY <1>6 DEF suspend_unsubscribe, suspend_close
<1>7. CASE resume_subscribe(t)
  BY <1>7 DEF resume_subscribe, Subscribed, ResubscribeFailed
<1>8. CASE thingsboard_send_telemetry_request(t) \/ thingsboard_unlock(t)
  BY <1>8 DEF thingsboard_send_telemetry_request, thingsboard_unlock
<1>. QED BY <1>1, <1>2, <1>3, <1>4, <1>5, <1>6, <1>7, <1>8 DEF Continue

\* A token in RAM stays there: nothing makes start_client's way longer.
LEMMA TokenStays == ASSUME TypeOK, [Next]_vars PROVE access_token => access_token'
BY DEF TypeOK, Next, vars, tokens, Call, Continue, Callback,
       client_handle_attribute_notification, thingsboard_init,
       thingsboard_connect, thingsboard_disconnect, thingsboard_suspend,
       thingsboard_resume, thingsboard_lock, thingsboard_send_telemetry,
       thingsboard_connect_failed, start_client,
       thingsboard_provision_device, make_provisioning_request,
       start_client_subscribe, set_connected, set_suspended,
       set_disconnected, thingsboard_set_state, disconnect_unsubscribe,
       disconnect_close, suspend_unsubscribe, suspend_close,
       resume_subscribe, thingsboard_send_telemetry_request,
       thingsboard_unlock, thingsboard_handle_response,
       client_handle_fw_chunk, client_handle_prov_resp_failed,
       client_handle_prov_resp, attributes_callback, attributes_update,
       attributes_ended

\* A thread inside the library goes on by its own steps only.
LEMMA OwnSteps ==
  ASSUME ControlInv, [Next]_vars, NEW t \in Thread, pc[t] # "idle"
  PROVE  \/ pc'[t] = pc[t]
         \/ Continue(t)
         \/ pc[t] = "connect" /\ thingsboard_connect(t)
         \/ t = CoapThread /\ client_handle_attribute_notification
<1> USE DEF ControlInv, TypeOK, Goto
<1>1. ASSUME NEW u \in AppThread, Call(u)
      PROVE  \/ pc'[t] = pc[t]
             \/ pc[t] = "connect" /\ thingsboard_connect(t)
  BY <1>1 DEF Call, thingsboard_init, thingsboard_connect,
         thingsboard_disconnect, thingsboard_suspend, suspend_keeping_socket,
         suspend_closing_socket, thingsboard_resume, resume_keeping_socket,
         resume_with_new_socket, thingsboard_lock
<1>2. ASSUME NEW u \in AppThread \cup {WorkQueue},
             thingsboard_send_telemetry(u)
      PROVE  pc'[t] = pc[t]
  BY <1>2 DEF thingsboard_send_telemetry
<1>3. ASSUME NEW u \in Thread, Continue(u), u # t PROVE pc'[t] = pc[t]
  BY <1>3 DEF Continue, thingsboard_connect_failed, start_client,
         thingsboard_provision_device, make_provisioning_request,
         AnnounceFirmware, start_client_subscribe, Subscribed,
         SubscribeFailed, set_connected, set_suspended, set_disconnected,
         thingsboard_set_state, disconnect_unsubscribe, disconnect_close,
         suspend_unsubscribe, suspend_close, resume_subscribe,
         ResubscribeFailed, thingsboard_send_telemetry_request,
         thingsboard_unlock
<1>4. ASSUME NEW r \in Request, Callback(r) PROVE pc'[t] = pc[t]
  BY <1>4 DEF Callback, CallbackMayRun, thingsboard_handle_response,
         client_handle_fw_chunk, client_handle_prov_resp_failed,
         client_handle_prov_resp, attributes_callback
<1>5. ASSUME client_handle_attribute_notification, t # CoapThread
      PROVE  pc'[t] = pc[t]
  BY <1>5 DEF client_handle_attribute_notification, attributes_update,
         attributes_ended
<1>6. CASE UNCHANGED vars
  BY <1>6 DEF vars
<1>. QED BY <1>1, <1>2, <1>3, <1>4, <1>5, <1>6 DEF Next

LEMMA NotificationIsNearer ==
  ASSUME ControlInv, client_handle_attribute_notification
  PROVE  Ahead(CoapThread)' < Ahead(CoapThread)
BY DEF ControlInv, TypeOK, Thread, Goto, AttributePC, Ahead,
       client_handle_attribute_notification, attributes_update,
       attributes_ended

\* No step of anybody takes a thread away from its return.
LEMMA NobodyGoesBack ==
  ASSUME ControlInv, [Next]_vars, NEW t \in Thread, pc[t] # "idle"
  PROVE  Ahead(t)' <= Ahead(t)
<1>1. CASE pc'[t] = pc[t]
  <2>1. pc[t] \in PC /\ access_token \in BOOLEAN /\ access_token' \in BOOLEAN
    BY TypeStep DEF ControlInv, TypeOK
  <2>2. access_token => access_token'
    BY TokenStays DEF ControlInv
  <2>. QED
    BY <1>1, <2>1, <2>2
       DEF PC, MutatorPC, ConnectPC, DisconnectPC, SuspendPC, ResumePC,
           AttributePC, Ahead
<1>. Ahead(t) \in 0 .. 5 /\ Ahead(t)' \in 0 .. 5
  BY TypeStep, AheadType, AheadTypeNext DEF ControlInv
<1>2. CASE Continue(t)
  BY <1>2, ContinueIsNearer
<1>3. CASE pc[t] = "connect" /\ thingsboard_connect(t)
  BY <1>3 DEF ControlInv, TypeOK, thingsboard_connect, Goto, tokens,
         AttributePC, Ahead
<1>4. CASE t = CoapThread /\ client_handle_attribute_notification
  BY <1>4, NotificationIsNearer
<1>. QED BY <1>1, <1>2, <1>3, <1>4, OwnSteps

-----------------------------------------------------------------------------
(* The mutex is free again and again *)

\* Whoever has the mutex keeps it until it is free.
LEMMA LockStays ==
  ASSUME [Next]_vars, lock # NULL
  PROVE  lock' \in {lock, NULL}
BY DEF Next, vars, Call, Continue, Callback,
       client_handle_attribute_notification, thingsboard_init,
       thingsboard_connect, thingsboard_disconnect, thingsboard_suspend,
       suspend_keeping_socket, suspend_closing_socket, thingsboard_resume,
       resume_keeping_socket, resume_with_new_socket, thingsboard_lock,
       thingsboard_send_telemetry, thingsboard_connect_failed, start_client,
       thingsboard_provision_device, make_provisioning_request,
       AnnounceFirmware, start_client_subscribe, Subscribed, SubscribeFailed,
       set_connected, set_suspended, set_disconnected, thingsboard_set_state,
       disconnect_unsubscribe, disconnect_close, suspend_unsubscribe,
       suspend_close, resume_subscribe, ResubscribeFailed,
       thingsboard_send_telemetry_request, thingsboard_unlock,
       thingsboard_handle_response, client_handle_fw_chunk,
       client_handle_prov_resp_failed, client_handle_prov_resp,
       attributes_callback, attributes_update, attributes_ended

Free_or_stuck == lock = NULL \/ LockCycle

HolderAt(t, n) == lock = t /\ Ahead(t) = n

HolderBelow(t, n) == lock = t /\ Ahead(t) < n

HolderMoves(t, n) == HolderAt(t, n) ~> Free_or_stuck \/ HolderBelow(t, n)

\* The thread that has the mutex waits for nothing but the callback of the
\* observation it cancels; if that callback waits too, this is the lock
\* cycle.
LEMMA HolderMayContinue ==
  ASSUME ControlInv, NEW t \in AppThread, lock = t
  PROVE  MayContinue(t) \/ LockCycle
BY NullAssumption
   DEF ControlInv, TypeOK, Thread, PC, LockOwner, MutatorPC, ConnectPC,
       DisconnectPC, SuspendPC, ResumePC, MayContinue, CanLock, LockCycle

LEMMA HolderStep ==
  ASSUME NEW t \in AppThread, NEW n \in 1 .. 4
  PROVE  GuardedSpec => HolderMoves(t, n)
<1> DEFINE P == HolderAt(t, n)
           Q == Free_or_stuck \/ HolderBelow(t, n)
<1>0. t \in Thread /\ t # NULL
  BY NullAssumption DEF Thread
<1>1. ControlInv /\ P /\ [Next]_vars => P' \/ Q'
  <2> SUFFICES ASSUME ControlInv, P, [Next]_vars PROVE P' \/ Q'
    OBVIOUS
  <2>1. lock' = t \/ lock' = NULL
    BY <1>0, LockStays DEF HolderAt
  <2>2. Ahead(t)' <= n /\ Ahead(t)' \in 0 .. 5
    <3>1. pc[t] # "idle"
      BY <1>0, AheadType DEF ControlInv, HolderAt
    <3>. QED
      BY <1>0, <3>1, NobodyGoesBack, TypeStep, AheadTypeNext
         DEF ControlInv, HolderAt
  <2>. QED BY <2>1, <2>2 DEF HolderAt, HolderBelow, Free_or_stuck
<1>2. ControlInv /\ P /\ [Next]_vars /\ <<Continue(t)>>_vars => Q'
  <2> SUFFICES ASSUME ControlInv, P, [Next]_vars, Continue(t) PROVE Q'
    OBVIOUS
  <2>1. lock' = t \/ lock' = NULL
    BY <1>0, LockStays DEF HolderAt
  <2>2. Ahead(t)' < n
    BY <1>0, ContinueIsNearer DEF HolderAt
  <2>. QED BY <2>1, <2>2 DEF HolderBelow, Free_or_stuck
<1>3. ControlInv /\ P => MayContinue(t) \/ Q
  BY HolderMayContinue DEF HolderAt, Free_or_stuck
<1>4. GuardedSpec => Spec /\ Continues(t)
  BY <1>0 DEF GuardedSpec, GuardedFairness
<1> HIDE DEF P, Q
<1>5. GuardedSpec => (P ~> Q)
  BY <1>1, <1>2, <1>3, <1>4, Invariant, PTL DEF Spec, Continues
<1>. QED BY <1>5 DEF P, Q, HolderMoves

Releases(t) == lock = t => <>Free_or_stuck

LEMMA HolderEnds ==
  ASSUME NEW t \in AppThread PROVE GuardedSpec => []Releases(t)
<1>0. t \in Thread
  BY DEF Thread
<1>1. /\ GuardedSpec => HolderMoves(t, 1)
      /\ GuardedSpec => HolderMoves(t, 2)
      /\ GuardedSpec => HolderMoves(t, 3)
      /\ GuardedSpec => HolderMoves(t, 4)
  BY HolderStep
<1>2. ControlInv /\ lock = t =>
          \/ HolderAt(t, 1) \/ HolderAt(t, 2) \/ HolderAt(t, 3)
          \/ HolderAt(t, 4)
  BY <1>0
     DEF ControlInv, TypeOK, LockOwner, MutatorPC, ConnectPC, DisconnectPC,
         SuspendPC, ResumePC, HolderAt, Ahead, AttributePC
<1>3. /\ ControlInv => ~HolderBelow(t, 1)
      /\ ControlInv /\ HolderBelow(t, 2) => HolderAt(t, 1)
      /\ ControlInv /\ HolderBelow(t, 3) => HolderAt(t, 1) \/ HolderAt(t, 2)
      /\ ControlInv /\ HolderBelow(t, 4)
            => HolderAt(t, 1) \/ HolderAt(t, 2) \/ HolderAt(t, 3)
  BY <1>2 DEF HolderAt, HolderBelow
<1>. QED
  BY <1>1, <1>2, <1>3, Invariant, PTL
     DEF GuardedSpec, HolderMoves, Releases

LEMMA SomebodyReleases ==
  ControlInv /\ (\A t \in AppThread : Releases(t)) => <>Free_or_stuck
<1>1. ControlInv => Free_or_stuck \/ \E t \in AppThread : lock = t
  BY DEF ControlInv, LockOwner, Free_or_stuck
<1>2. Free_or_stuck => <>Free_or_stuck
  BY PTL
<1>. QED BY <1>1, <1>2 DEF Releases

\* The mutex is free again and again, unless the threads are in the lock
\* cycle.
LEMMA LockIsReleased == GuardedSpec => []<>Free_or_stuck
<1>1. GuardedSpec => \A t \in AppThread : []Releases(t)
  BY HolderEnds
<1>2. (\A t \in AppThread : []Releases(t))
        => [](\A t \in AppThread : Releases(t))
  OBVIOUS
<1>. QED BY <1>1, <1>2, SomebodyReleases, Invariant, PTL DEF GuardedSpec

-----------------------------------------------------------------------------
(* Calls and callbacks return *)

WayIs(t, n) == Ahead(t) = n

WayBelow(t, n) == Ahead(t) < n

WayEnds(t, n) == WayIs(t, n) ~> WayBelow(t, n) \/ LockCycle

\* Whoever waits for the mutex may go on when it is free.
LEMMA WaiterMayGo ==
  ASSUME ControlInv, NEW t \in Thread, pc[t] # "idle", lock = NULL
  PROVE  MayContinue(t) \/ (t = CoapThread /\ MayNotify)
BY ThreadAssumption, NullAssumption
   DEF ControlInv, TypeOK, Thread, PC, Places, LockOwner, MutatorPC,
       ConnectPC, DisconnectPC, SuspendPC, ResumePC, AttributePC,
       MayContinue, MayNotify, CanLock

LEMMA WayStep ==
  ASSUME NEW t \in Thread, NEW n \in 1 .. 5
  PROVE  GuardedSpec => WayEnds(t, n)
<1> DEFINE P == WayIs(t, n)
           Q == WayBelow(t, n)
           Coap == t = CoapThread
<1>1. ControlInv /\ P /\ [Next]_vars => P' \/ Q'
  <2> SUFFICES ASSUME ControlInv, P, [Next]_vars PROVE P' \/ Q'
    OBVIOUS
  <2>1. pc[t] # "idle"
    BY AheadType DEF ControlInv, WayIs
  <2>2. Ahead(t)' <= n /\ Ahead(t)' \in 0 .. 5
    BY <2>1, NobodyGoesBack, TypeStep, AheadTypeNext DEF ControlInv, WayIs
  <2>. QED BY <2>2 DEF WayIs, WayBelow
<1>2. ControlInv /\ P /\ <<Continue(t)>>_vars => Q'
  BY ContinueIsNearer DEF WayIs, WayBelow
<1>3. ControlInv /\ P /\ Coap
        /\ <<client_handle_attribute_notification>>_vars => Q'
  BY NotificationIsNearer DEF WayIs, WayBelow
<1>4. ControlInv /\ P /\ lock = NULL => MayContinue(t) \/ (Coap /\ MayNotify)
  BY WaiterMayGo, AheadType DEF ControlInv, WayIs
<1>5. GuardedSpec => Spec /\ Continues(t) /\ Notifies
  BY DEF GuardedSpec, GuardedFairness
<1>6. Coap => [](t = CoapThread)
  OBVIOUS
<1>7. ~Coap => [](~(t = CoapThread))
  OBVIOUS
<1> HIDE DEF P, Q
<1>8. GuardedSpec => (P ~> Q \/ LockCycle)
  BY <1>1, <1>2, <1>3, <1>4, <1>5, <1>6, <1>7, Invariant, LockIsReleased, PTL
     DEF Spec, Continues, Notifies, Free_or_stuck
<1>. QED BY <1>8 DEF P, Q, WayEnds

Returns(t) == pc[t] # "idle" ~> (pc[t] = "idle" \/ LockCycle)

LEMMA CallReturns == ASSUME NEW t \in Thread PROVE GuardedSpec => Returns(t)
<1>1. /\ GuardedSpec => WayEnds(t, 1)
      /\ GuardedSpec => WayEnds(t, 2)
      /\ GuardedSpec => WayEnds(t, 3)
      /\ GuardedSpec => WayEnds(t, 4)
      /\ GuardedSpec => WayEnds(t, 5)
  BY WayStep
<1>2. ControlInv =>
          /\ Ahead(t) \in 0 .. 5
          /\ Ahead(t) = 0 <=> pc[t] = "idle"
  BY AheadType DEF ControlInv
<1>3. ControlInv =>
          pc[t] = "idle" \/ WayIs(t, 1) \/ WayIs(t, 2) \/ WayIs(t, 3)
            \/ WayIs(t, 4) \/ WayIs(t, 5)
  BY <1>2 DEF WayIs
<1>4. /\ ControlInv /\ WayBelow(t, 1) => pc[t] = "idle"
      /\ ControlInv /\ WayBelow(t, 2) => pc[t] = "idle" \/ WayIs(t, 1)
      /\ ControlInv /\ WayBelow(t, 3)
            => pc[t] = "idle" \/ WayIs(t, 1) \/ WayIs(t, 2)
      /\ ControlInv /\ WayBelow(t, 4)
            => pc[t] = "idle" \/ WayIs(t, 1) \/ WayIs(t, 2) \/ WayIs(t, 3)
      /\ ControlInv /\ WayBelow(t, 5)
            => pc[t] = "idle" \/ WayIs(t, 1) \/ WayIs(t, 2) \/ WayIs(t, 3)
                 \/ WayIs(t, 4)
  BY <1>2 DEF WayIs, WayBelow
<1>. QED
  BY <1>1, <1>3, <1>4, Invariant, PTL DEF GuardedSpec, WayEnds, Returns

\* Every call of the API and every callback returns, however the threads
\* interleave and whatever fails, unless the threads are in the lock cycle of
\* thingsboard_client_unsubscribe_attributes and the attribute callback.
THEOREM CallsReturn == GuardedSpec => EveryCallReturns
BY CallReturns DEF EveryCallReturns, Returns

-----------------------------------------------------------------------------
(* Messages end *)

MessageEnds(r) ==
    ongoing[r] = "message" ~> (ongoing[r] # "message" \/ LockCycle)

LEMMA MessageAnswered ==
  ASSUME NEW r \in Request PROVE GuardedSpec => MessageEnds(r)
<1> DEFINE P == ongoing[r] = "message"
           Q == ongoing[r] # "message" \/ LockCycle
           Idle == pc[CoapThread] = "idle"
           Busy == pc[CoapThread] # "idle"
<1>1. ControlInv /\ P /\ <<thingsboard_handle_response(r)>>_vars => Q'
  BY DEF ControlInv, TypeOK, thingsboard_handle_response, EndRequest
<1>2. P /\ Idle => MayEnd(r, "message")
  BY DEF MayEnd, CallbackMayRun
<1>3. (P \/ Q) /\ (LockCycle => Q) /\ (Idle \/ Busy)
  OBVIOUS
<1>4. GuardedSpec => Spec /\ Responds(r)
  BY DEF GuardedSpec, GuardedFairness
<1>5. GuardedSpec => (Busy ~> (Idle \/ LockCycle))
  <2>1. GuardedSpec => Returns(CoapThread)
    BY CallReturns DEF Thread
  <2>. QED BY <2>1 DEF Returns
<1> HIDE DEF P, Q, Idle, Busy
<1>6. GuardedSpec => (P ~> Q)
  BY <1>1, <1>2, <1>3, <1>4, <1>5, Invariant, PTL DEF Spec, Responds
<1>. QED BY <1>6 DEF P, Q, MessageEnds

\* Every message that the CoAP client has taken gives its block back, unless
\* the callbacks wait in the lock cycle.
THEOREM MessagesEnd == GuardedSpec => EveryMessageEnds
BY MessageAnswered DEF EveryMessageEnds, MessageEnds

-----------------------------------------------------------------------------
(* Attempts to connect end *)

\* The attempt was given up without thingsboard_set_state(DISCONNECTED):
\* client_handle_prov_resp has run and did not call start_client.  The
\* client stays CONNECTING and nobody is going to change that.
Abandoned ==
    /\ state = "CONNECTING"
    /\ \A t \in Thread : pc[t] \notin ConnectPC
    /\ \A r \in Request : ongoing[r] # "provision"

Over == state # "CONNECTING" \/ Abandoned

AttemptEnds == state = "CONNECTING" ~> Over

ConnectingAt(t) == state = "CONNECTING" /\ pc[t] \in ConnectPC

ProvisioningAt(r) == ongoing[r] = "provision"

\* The threads are not in the lock cycle while the client connects.
LEMMA NoCycleWhileConnecting ==
  ASSUME ControlInv, LockCycle PROVE state # "CONNECTING"
BY DEF ControlInv, Thread, LockCycle, StateOfPlace, SuspendPC

\* The thread that connects goes on, leaves the work to the answer of the
\* provisioning server if it has no token, or is through.
LEMMA ConnectingStep ==
  ASSUME ControlInv, [Next]_vars, NEW t \in Thread, ConnectingAt(t)
  PROVE  \/ ConnectingAt(t)'
         \/ Over'
         \/ ~access_token /\ \E r \in Request : ProvisioningAt(r)'
<1>1. ControlInv'
  BY ControlStep, TypeStep DEF ControlInv
<1> USE DEF ControlInv, TypeOK, Goto, ConnectPC, ConnectingAt, Over, Thread
<1>2. pc[t] # "idle" /\ pc[t] # "connect" /\ pc[t] \notin AttributePC
  BY DEF AttributePC
<1>3. CASE Continue(t)
  <2>1. CASE start_client(t)
    <3>1. CASE make_provisioning_request(t)
      BY <2>1, <3>1
         DEF start_client, make_provisioning_request, AnnounceFirmware,
             thingsboard_provision_device, ProvisioningAt, tokens
    <3>. QED
      BY <2>1, <3>1
         DEF start_client, thingsboard_provision_device, AnnounceFirmware,
             connection
  <2>2. CASE start_client_subscribe(t)
    BY <2>2 DEF start_client_subscribe, Subscribed, SubscribeFailed
  <2>3. CASE set_connected(t) \/ set_disconnected(t)
    BY <2>3 DEF set_connected, set_disconnected, thingsboard_set_state
  <2>. QED
    BY <1>2, <1>3, <2>1, <2>2, <2>3
       DEF Continue, thingsboard_connect_failed, set_suspended,
           disconnect_unsubscribe, disconnect_close, suspend_unsubscribe,
           suspend_close, resume_subscribe,
           thingsboard_send_telemetry_request, thingsboard_unlock
<1>4. CASE pc'[t] = pc[t]
  BY <1>4
<1>5. ~(t = CoapThread /\ client_handle_attribute_notification)
  BY <1>2
     DEF client_handle_attribute_notification, attributes_update,
         attributes_ended, AttributePC
<1>. QED BY <1>2, <1>3, <1>4, <1>5, OwnSteps

\* The answer of the provisioning server lets the CoAP thread connect, with
\* the token, or abandons the attempt.
LEMMA ProvisioningEnds ==
  ASSUME ControlInv, NEW r \in Request, client_handle_prov_resp_any(r)
  PROVE  Abandoned' \/ (ConnectingAt(CoapThread)' /\ access_token')
<1> USE DEF ControlInv, TypeOK, Goto, Thread
<1>1. ongoing[r] = "provision"
  BY DEF client_handle_prov_resp_any, client_handle_prov_resp_failed,
         client_handle_prov_resp
<1>2. /\ state = "CONNECTING"
      /\ \A b \in Request \ {r} : ongoing[b] # "provision"
      /\ \A t \in Thread : pc[t] \notin MutatorPC
  BY <1>1 DEF ProvisioningExclusive
<1>3. CASE client_handle_prov_resp_failed(r)
  BY <1>2, <1>3
     DEF client_handle_prov_resp_failed, EndRequest, Abandoned, connection,
         MutatorPC
<1>4. CASE client_handle_prov_resp(r)
  BY <1>2, <1>4
     DEF client_handle_prov_resp, connection, ConnectingAt, ConnectPC
<1>. QED BY <1>3, <1>4 DEF client_handle_prov_resp_any

\* Nothing else ends the request.
LEMMA ProvisioningStep ==
  ASSUME ControlInv, BlockInv, [Next]_vars,
         NEW r \in Request, ProvisioningAt(r),
         ~client_handle_prov_resp_any(r)
  PROVE  ProvisioningAt(r)'
<1> USE DEF ControlInv, TypeOK, ProvisioningAt, blocks
<1>1. \A t \in Thread : pc[t] \notin MutatorPC
  BY DEF ProvisioningExclusive
<1>2. r \notin Free /\ \A t \in Thread : req[t] # r
  BY DEF BlockInv, SlabAccounting, Holders, Free
<1>3. ASSUME NEW t \in AppThread, Call(t) PROVE ProvisioningAt(r)'
  BY <1>3 DEF Call, thingsboard_init, thingsboard_connect,
         thingsboard_disconnect, thingsboard_suspend, thingsboard_resume,
         thingsboard_lock
<1>4. ASSUME NEW t \in AppThread \cup {WorkQueue},
             thingsboard_send_telemetry(t)
      PROVE  ProvisioningAt(r)'
  BY <1>4 DEF thingsboard_send_telemetry
<1>5. ASSUME NEW t \in Thread, Continue(t) PROVE ProvisioningAt(r)'
  BY <1>1, <1>2, <1>5
     DEF Continue, thingsboard_connect_failed, start_client,
         start_client_subscribe, set_connected, set_suspended,
         set_disconnected, disconnect_unsubscribe, disconnect_close,
         suspend_unsubscribe, suspend_close, resume_subscribe,
         thingsboard_send_telemetry_request, SendFailed, thingsboard_unlock,
         MutatorPC, ConnectPC, DisconnectPC, SuspendPC, ResumePC
<1>6. ASSUME NEW b \in Request, Callback(b) PROVE ProvisioningAt(r)'
  <2>1. CASE thingsboard_handle_response(b)
    BY <2>1 DEF thingsboard_handle_response, EndRequest
  <2>2. CASE client_handle_fw_chunk(b)
    BY <1>2, <2>2 DEF client_handle_fw_chunk, Messages
  <2>3. CASE attributes_callback(b)
    BY <2>3 DEF attributes_callback
  <2>4. CASE client_handle_prov_resp_any(b)
    BY <2>4 DEF client_handle_prov_resp_any, client_handle_prov_resp_failed,
           client_handle_prov_resp, EndRequest
  <2>. QED
    BY <1>6, <2>1, <2>2, <2>3, <2>4 DEF Callback, client_handle_prov_resp_any
<1>7. CASE client_handle_attribute_notification
  BY <1>2, <1>7 DEF client_handle_attribute_notification, attributes_update,
         attributes_ended, Messages
<1>8. CASE UNCHANGED vars
  BY <1>8 DEF vars
<1>. QED BY <1>3, <1>4, <1>5, <1>6, <1>7, <1>8 DEF Next

TokenLeads(t) == ConnectingAt(t) /\ access_token ~> Over

\* With a token, the thread that connects gets to the end.
LEMMA TokenConnects == ASSUME NEW t \in Thread PROVE GuardedSpec => TokenLeads(t)
<1> DEFINE P == ConnectingAt(t) /\ access_token
           Idle == pc[t] = "idle"
           Busy == pc[t] # "idle"
<1>1. ControlInv /\ P /\ [Next]_vars => P' \/ Over'
  BY ConnectingStep, TokenStays DEF ControlInv
<1>2. ControlInv /\ P => Busy /\ ~Idle /\ ~LockCycle
  BY NoCycleWhileConnecting DEF ConnectingAt, ConnectPC
<1>3. GuardedSpec => (Busy ~> (Idle \/ LockCycle))
  <2>1. GuardedSpec => Returns(t)
    BY CallReturns
  <2>. QED BY <2>1 DEF Returns
<1> HIDE DEF P, Idle, Busy
<1>4. GuardedSpec => (P ~> Over)
  BY <1>1, <1>2, <1>3, Invariant, PTL DEF GuardedSpec, Spec
<1>. QED BY <1>4 DEF P, TokenLeads

ProvisioningLeads(r) == ProvisioningAt(r) => <>Over

\* The server's answer ends the attempt or brings the token.
LEMMA ProvisioningIsAnswered ==
  ASSUME NEW r \in Request PROVE GuardedSpec => []ProvisioningLeads(r)
<1> DEFINE P == ProvisioningAt(r)
           T == ConnectingAt(CoapThread) /\ access_token
           Idle == pc[CoapThread] = "idle"
           Busy == pc[CoapThread] # "idle"
<1>1. ControlInv /\ BlockInv /\ P /\ [Next]_vars => P' \/ T' \/ Over'
  BY ProvisioningStep, ProvisioningEnds DEF Over
<1>2. ControlInv /\ P /\ <<client_handle_prov_resp_any(r)>>_vars
        => T' \/ Over'
  BY ProvisioningEnds DEF Over
<1>3. ControlInv /\ P => (Idle => MayEnd(r, "provision")) /\ ~LockCycle
  BY NoCycleWhileConnecting
     DEF ControlInv, ProvisioningExclusive, ProvisioningAt, MayEnd,
         CallbackMayRun
<1>4. GuardedSpec => Spec /\ Answers(r)
  BY DEF GuardedSpec, GuardedFairness
<1>5. GuardedSpec => (Busy ~> (Idle \/ LockCycle))
  <2>1. GuardedSpec => Returns(CoapThread)
    BY CallReturns DEF Thread
  <2>. QED BY <2>1 DEF Returns
<1>6. GuardedSpec => (T ~> Over)
  <2>1. GuardedSpec => TokenLeads(CoapThread)
    BY TokenConnects DEF Thread
  <2>. QED BY <2>1 DEF TokenLeads
<1>7. Idle \/ Busy
  OBVIOUS
<1> HIDE DEF P, T, Idle, Busy
<1>8. GuardedSpec => [](P => <>Over)
  BY <1>1, <1>2, <1>3, <1>4, <1>5, <1>6, <1>7, Invariant, PTL
     DEF Spec, Answers
<1>. QED BY <1>8 DEF P, ProvisioningLeads

ProvisioningIsOver == (\E r \in Request : ProvisioningAt(r)) => <>Over

LEMMA AnyProvisioningIsOver ==
  (\A r \in Request : ProvisioningLeads(r)) => ProvisioningIsOver
BY DEF ProvisioningLeads, ProvisioningIsOver

ConnectingLeads(t) == ConnectingAt(t) => <>Over

LEMMA ConnectingIsOver ==
  ASSUME NEW t \in Thread PROVE GuardedSpec => []ConnectingLeads(t)
<1> DEFINE P == ConnectingAt(t)
           A == \E r \in Request : ProvisioningAt(r)
           Idle == pc[t] = "idle"
           Busy == pc[t] # "idle"
<1>1. ControlInv /\ P /\ [Next]_vars => P' \/ A' \/ Over'
  BY ConnectingStep
<1>2. ControlInv /\ P => Busy /\ ~Idle /\ ~LockCycle
  BY NoCycleWhileConnecting DEF ConnectingAt, ConnectPC
<1>3. GuardedSpec => (Busy ~> (Idle \/ LockCycle))
  <2>1. GuardedSpec => Returns(t)
    BY CallReturns
  <2>. QED BY <2>1 DEF Returns
<1>4. GuardedSpec => [](A => <>Over)
  <2>1. GuardedSpec => \A r \in Request : []ProvisioningLeads(r)
    BY ProvisioningIsAnswered
  <2>2. (\A r \in Request : []ProvisioningLeads(r))
          => [](\A r \in Request : ProvisioningLeads(r))
    OBVIOUS
  <2>. QED BY <2>1, <2>2, AnyProvisioningIsOver, PTL DEF ProvisioningIsOver
<1> HIDE DEF P, A, Idle, Busy
<1>5. GuardedSpec => [](P => <>Over)
  BY <1>1, <1>2, <1>3, <1>4, Invariant, PTL DEF GuardedSpec, Spec
<1>. QED BY <1>5 DEF P, ConnectingLeads

AttemptIsOver == state = "CONNECTING" => <>Over

LEMMA AnyAttemptIsOver ==
  /\ \A r \in Request : ProvisioningLeads(r)
  /\ \A t \in Thread : ConnectingLeads(t)
  => AttemptIsOver
<1>1. state = "CONNECTING" =>
          \/ Abandoned
          \/ \E t \in Thread : ConnectingAt(t)
          \/ \E r \in Request : ProvisioningAt(r)
  BY DEF Abandoned, ConnectingAt, ProvisioningAt
<1>2. Abandoned => <>Over
  <2>1. Abandoned => Over
    BY DEF Over
  <2>. QED BY <2>1, PTL
<1>. QED
  BY <1>1, <1>2 DEF AttemptIsOver, ProvisioningLeads, ConnectingLeads

\* An attempt to connect comes to an end in every configuration, unless
\* client_handle_prov_resp has abandoned it: that is the only way to stay
\* CONNECTING.
THEOREM AttemptsEnd == GuardedSpec => AttemptEnds
<1>1. /\ GuardedSpec => \A r \in Request : []ProvisioningLeads(r)
      /\ GuardedSpec => \A t \in Thread : []ConnectingLeads(t)
  BY ProvisioningIsAnswered, ConnectingIsOver
<1>2. /\ (\A r \in Request : []ProvisioningLeads(r))
           => [](\A r \in Request : ProvisioningLeads(r))
      /\ (\A t \in Thread : []ConnectingLeads(t))
           => [](\A t \in Thread : ConnectingLeads(t))
  OBVIOUS
<1>. QED
  BY <1>1, <1>2, AnyAttemptIsOver, PTL DEF AttemptIsOver, AttemptEnds

SomebodyConnects ==
    state = "CONNECTING" => \E t \in Thread : pc[t] \in ConnectPC

\* The thread that connects stays the one, or the client is not CONNECTING
\* any longer.
LEMMA NeverAbandonedStep ==
  ASSUME ~UseProvisioning, ControlInv, SomebodyConnects, [Next]_vars
  PROVE  SomebodyConnects'
<1> USE DEF ControlInv, TypeOK, Goto, connection, SomebodyConnects
<1>1. CASE state # "CONNECTING"
  <2>1. ASSUME NEW t \in AppThread, Call(t) PROVE SomebodyConnects'
    BY <1>1, <2>1
       DEF Call, thingsboard_init, thingsboard_connect,
           thingsboard_disconnect, thingsboard_suspend,
           suspend_keeping_socket, suspend_closing_socket,
           thingsboard_resume, resume_keeping_socket,
           resume_with_new_socket, thingsboard_lock, Thread, ConnectPC
  <2>2. ASSUME NEW t \in Thread, Continue(t) PROVE state' # "CONNECTING"
    BY <1>1, <2>2
       DEF Continue, thingsboard_connect_failed, start_client,
           thingsboard_provision_device, make_provisioning_request,
           AnnounceFirmware, start_client_subscribe, set_connected,
           set_suspended, set_disconnected, thingsboard_set_state,
           disconnect_unsubscribe, disconnect_close, suspend_unsubscribe,
           suspend_close, resume_subscribe,
           thingsboard_send_telemetry_request, thingsboard_unlock
  <2>3. ASSUME NEW r \in Request, Callback(r) PROVE UNCHANGED state
    BY <2>3
       DEF Callback, thingsboard_handle_response, client_handle_fw_chunk,
           client_handle_prov_resp_failed, client_handle_prov_resp,
           attributes_callback
  <2>4. ASSUME client_handle_attribute_notification PROVE UNCHANGED state
    BY <2>4
       DEF client_handle_attribute_notification, attributes_update,
           attributes_ended
  <2>5. ASSUME NEW t \in AppThread \cup {WorkQueue},
               thingsboard_send_telemetry(t)
        PROVE  UNCHANGED state
    BY <2>5 DEF thingsboard_send_telemetry
  <2>6. CASE UNCHANGED vars
    BY <2>6 DEF vars
  <2>. QED BY <1>1, <2>1, <2>2, <2>3, <2>4, <2>5, <2>6 DEF Next
<1>2. ASSUME NEW t \in Thread, ConnectingAt(t) PROVE SomebodyConnects'
  <2>1. pc[t] # "idle" /\ pc[t] # "connect" /\ pc[t] \notin AttributePC
    BY <1>2 DEF ConnectingAt, ConnectPC, AttributePC
  <2>2. CASE pc'[t] = pc[t]
    BY <1>2, <2>2 DEF ConnectingAt
  <2>3. CASE Continue(t)
    BY <1>2, <2>1, <2>3
       DEF ConnectingAt, ConnectPC, Continue, thingsboard_connect_failed,
           start_client, AnnounceFirmware, start_client_subscribe,
           Subscribed, SubscribeFailed, set_connected, set_suspended,
           set_disconnected, thingsboard_set_state, disconnect_unsubscribe,
           disconnect_close, suspend_unsubscribe, suspend_close,
           resume_subscribe, thingsboard_send_telemetry_request,
           thingsboard_unlock
  <2>4. ~(t = CoapThread /\ client_handle_attribute_notification)
    BY <2>1 DEF client_handle_attribute_notification, attributes_update,
           attributes_ended, AttributePC
  <2>. QED BY <2>1, <2>2, <2>3, <2>4, OwnSteps
<1>. QED BY <1>1, <1>2 DEF ConnectingAt

\* With a static token every attempt to connect comes to an end.
THEOREM ConnectingEnds ==
  ASSUME ~UseProvisioning PROVE GuardedSpec => ConnectingResolves
<1>1. Init => SomebodyConnects
  BY DEF Init, SomebodyConnects
<1>2. ControlInv /\ SomebodyConnects /\ [Next]_vars => SomebodyConnects'
  BY NeverAbandonedStep
<1>3. SomebodyConnects => ~Abandoned
  BY DEF SomebodyConnects, Abandoned
<1>4. Spec => []~Abandoned
  BY <1>1, <1>2, <1>3, Invariant, PTL DEF Spec
<1>. QED
  BY <1>4, AttemptsEnd, PTL
     DEF GuardedSpec, AttemptEnds, Over, ConnectingResolves

-----------------------------------------------------------------------------
(* The two ways to be stuck are for ever *)

\* An observation is forgotten only when its callback may run.
LEMMA ObservationStays ==
  ASSUME ControlInv, [Next]_vars, attributes_observation # NULL,
         pc[CoapThread] \in AttributePC, ~CanLock(CoapThread)
  PROVE  attributes_observation' # NULL
BY NullAssumption
   DEF Next, vars, connection, Call, Continue, Callback,
       client_handle_attribute_notification, thingsboard_init,
       thingsboard_connect, thingsboard_disconnect, thingsboard_suspend,
       suspend_keeping_socket, suspend_closing_socket, thingsboard_resume,
       resume_keeping_socket, resume_with_new_socket, thingsboard_lock,
       thingsboard_send_telemetry, thingsboard_connect_failed, start_client,
       thingsboard_provision_device, make_provisioning_request,
       AnnounceFirmware, start_client_subscribe, Subscribed, SubscribeFailed,
       thingsboard_client_subscribe_attributes,
       set_connected, set_suspended, set_disconnected, thingsboard_set_state,
       disconnect_unsubscribe, disconnect_close, suspend_unsubscribe,
       suspend_close, thingsboard_client_unsubscribe_attributes,
       CancelObservation, resume_subscribe, ResubscribeFailed,
       thingsboard_send_telemetry_request, thingsboard_unlock,
       thingsboard_handle_response, client_handle_fw_chunk,
       client_handle_prov_resp_failed, client_handle_prov_resp,
       attributes_callback, attributes_update, attributes_ended

\* In the lock cycle nobody can free the mutex or forget the observation.
LEMMA LockCycleStep ==
  ASSUME ControlInv, LockCycle, [Next]_vars PROVE LockCycle'
<1>1. PICK t \in AppThread :
          /\ lock = t
          /\ pc[t] \in {"disconnect_unsubscribe", "suspend_unsubscribe"}
  BY DEF LockCycle
<1>2. /\ t \in Thread /\ t # NULL /\ t # CoapThread /\ CoapThread \in Thread
      /\ pc[CoapThread] \in AttributePC
      /\ attributes_observation # NULL
      /\ ~CanLock(CoapThread)
  BY <1>1, ThreadAssumption, NullAssumption DEF LockCycle, Thread, CanLock
<1>3. ~Continue(t)
  BY <1>1, <1>2
     DEF Continue, thingsboard_connect_failed, start_client,
         start_client_subscribe, set_connected, set_suspended,
         set_disconnected, disconnect_unsubscribe, disconnect_close,
         suspend_unsubscribe, suspend_close, resume_subscribe,
         thingsboard_send_telemetry_request, thingsboard_unlock,
         thingsboard_client_unsubscribe_attributes, CancelObservation
<1>4. ~Continue(CoapThread) /\ ~client_handle_attribute_notification
  BY <1>2
     DEF Continue, thingsboard_connect_failed, start_client,
         start_client_subscribe, set_connected, set_suspended,
         set_disconnected, disconnect_unsubscribe, disconnect_close,
         suspend_unsubscribe, suspend_close, resume_subscribe,
         thingsboard_send_telemetry_request, thingsboard_unlock,
         client_handle_attribute_notification, attributes_update,
         attributes_ended, AttributePC
<1>5. pc'[t] = pc[t]
  BY <1>1, <1>2, <1>3, OwnSteps
<1>6. pc'[CoapThread] = pc[CoapThread]
  BY <1>2, <1>4, OwnSteps DEF AttributePC
<1>7. lock' = t
  <2>1. ControlInv'
    BY ControlStep, TypeStep DEF ControlInv
  <2>. QED
    BY <1>1, <1>5, <2>1
       DEF ControlInv, LockOwner, MutatorPC, DisconnectPC, SuspendPC
<1>8. attributes_observation' # NULL
  BY <1>2, ObservationStays
<1>. QED BY <1>1, <1>2, <1>5, <1>6, <1>7, <1>8 DEF LockCycle

\* The lock cycle lasts: thingsboard_disconnect or thingsboard_suspend never
\* returns, and the CoAP client runs no callback any more.
THEOREM LockCycleForEver == Spec => [](LockCycle => []LockCycle)
BY LockCycleStep, Invariant, PTL DEF Spec

\* No call is accepted while the client is CONNECTING, and no callback
\* connects.
LEMMA AbandonedStep ==
  ASSUME ControlInv, Abandoned, [Next]_vars PROVE Abandoned'
<1> USE DEF ControlInv, TypeOK, Goto, connection, blocks, Abandoned
<1>1. ASSUME NEW t \in AppThread, Call(t) PROVE Abandoned'
  BY <1>1
     DEF Call, thingsboard_init, thingsboard_connect, Connectable,
         thingsboard_disconnect, Disconnectable, thingsboard_suspend,
         thingsboard_resume, thingsboard_lock, ConnectPC
<1>2. ASSUME NEW t \in AppThread \cup {WorkQueue},
             thingsboard_send_telemetry(t)
      PROVE  Abandoned'
  BY <1>2 DEF thingsboard_send_telemetry, ConnectPC
<1>3. ASSUME NEW t \in Thread, Continue(t) PROVE Abandoned'
  <2>1. pc[t] \in {"connect", "send", "locked"}
    BY <1>3
       DEF StateOfPlace, Continue, thingsboard_connect_failed, start_client,
           start_client_subscribe, set_connected, set_suspended,
           set_disconnected, disconnect_unsubscribe, disconnect_close,
           suspend_unsubscribe, suspend_close, resume_subscribe,
           thingsboard_send_telemetry_request, thingsboard_unlock,
           ConnectPC, SuspendPC
  <2>. QED
    BY <1>3, <2>1
       DEF Continue, thingsboard_connect_failed, start_client,
           start_client_subscribe, set_connected, set_suspended,
           set_disconnected, disconnect_unsubscribe, disconnect_close,
           suspend_unsubscribe, suspend_close, resume_subscribe,
           thingsboard_send_telemetry_request, SendFailed,
           thingsboard_unlock, ConnectPC
<1>4. ASSUME NEW r \in Request, Callback(r) PROVE Abandoned'
  BY <1>4
     DEF Callback, thingsboard_handle_response, client_handle_fw_chunk,
         client_handle_prov_resp_failed, client_handle_prov_resp,
         attributes_callback, EndRequest, ConnectPC
<1>5. CASE client_handle_attribute_notification
  BY <1>5 DEF client_handle_attribute_notification, attributes_update,
         attributes_ended, ConnectPC
<1>6. CASE UNCHANGED vars
  BY <1>6 DEF vars
<1>. QED BY <1>1, <1>2, <1>3, <1>4, <1>5, <1>6 DEF Next

\* An abandoned attempt to connect lasts until the device restarts: no call
\* of the API ends it.
THEOREM AbandonedForEver == Spec => [](Abandoned => []Abandoned)
BY AbandonedStep, Invariant, PTL DEF Spec

-----------------------------------------------------------------------------
(* The guards of the fairness are what ENABLED says *)

\* What thread t can always do next once MayContinue(t) holds: an assignment
\* to every variable, so that it is possible in every state.  Whatever needs
\* a block, a socket or the server fails in it.
Setting == {"set_connected", "set_suspended", "set_disconnected"}

Unsubscribing == {"disconnect_unsubscribe", "suspend_unsubscribe"}

Closing == {"subscribe", "resume_subscribe", "disconnect_close",
            "suspend_close"}

HasToken == access_token \/ ~UseProvisioning

WayOn(t) ==
    LET here == pc[t] IN
    /\ state' = CASE here = "set_connected"    -> "CONNECTED"
                  [] here = "set_suspended"    -> "SUSPENDED"
                  [] here = "set_disconnected" -> "DISCONNECTED"
                  [] OTHER                     -> state
    /\ server_socket' = IF here \in {"resume_subscribe", "suspend_close"}
                        THEN NULL ELSE server_socket
    /\ attributes_observation' = IF here \in Unsubscribing
                                 THEN NULL ELSE attributes_observation
    /\ access_token' = IF here = "start_client" /\ HasToken
                       THEN TRUE ELSE access_token
    /\ stored_token' = stored_token
    /\ lock' = IF here \in Setting \cup {"resume_subscribe", "locked"}
               THEN NULL ELSE lock
    /\ slab' = CASE here \in Setting \cup {"send"} -> slab \ {req[t]}
                 [] here \in Unsubscribing -> slab \ {attributes_observation}
                 [] OTHER                  -> slab
    /\ ongoing' = IF here \in Unsubscribing /\ attributes_observation # NULL
                  THEN [ongoing EXCEPT ![attributes_observation] = "none"]
                  ELSE ongoing
    /\ open_sockets' = IF here \in Closing
                       THEN open_sockets \ {server_socket} ELSE open_sockets
    /\ pc' = [pc EXCEPT ![t] =
                 CASE here = "start_client" /\ HasToken -> "subscribe"
                   [] here = "start_client" /\ ~HasToken -> "set_disconnected"
                   [] here \in {"subscribe", "disconnect_close"} ->
                         "set_disconnected"
                   [] here = "disconnect_unsubscribe" -> "disconnect_close"
                   [] here = "suspend_unsubscribe"    -> "suspend_close"
                   [] here = "suspend_close"          -> "set_suspended"
                   [] OTHER                           -> "idle"]
    /\ req' = IF here \in Setting \cup {"send"}
              THEN [req EXCEPT ![t] = NULL] ELSE req

\* The same for the notification and for the end of a request.
NotificationWayOn ==
    LET ends == pc[CoapThread] = "attributes_ended" IN
    /\ attributes_observation' = IF ends THEN NULL ELSE attributes_observation
    /\ slab' = IF ends THEN slab \ {req[CoapThread]} ELSE slab
    /\ req' = IF ends THEN [req EXCEPT ![CoapThread] = NULL] ELSE req
    /\ pc' = [pc EXCEPT ![CoapThread] = "idle"]
    /\ UNCHANGED <<state, server_socket, tokens, lock, ongoing, open_sockets>>

RequestWayOn(r) ==
    /\ slab' = slab \ {r}
    /\ ongoing' = [ongoing EXCEPT ![r] = "none"]
    /\ UNCHANGED <<connection, tokens, lock, open_sockets, pc, req>>

LEMMA NoMessages == {} \in Messages(1) /\ {} \in Messages(2)
<1>1. Cardinality({}) = 0
  BY FS_EmptySet
<1>. QED BY <1>1 DEF Messages

LEMMA WayOnContinues ==
  ASSUME ControlInv, NEW t \in Thread, MayContinue(t), WayOn(t)
  PROVE  Continue(t)
<1> USE DEF WayOn, Goto, connection, tokens, blocks, Setting, Unsubscribing,
        Closing
<1>t. TypeOK
  BY DEF ControlInv
<1>1. CASE pc[t] = "connect" /\ lock = NULL
  <2>1. thingsboard_connect_failed(t)
    BY <1>1 DEF thingsboard_connect_failed
  <2>. QED BY <2>1 DEF Continue
<1>2. CASE pc[t] = "start_client"
  <2>1. CASE HasToken
    <3>1. /\ slab' = slab \cup {}
          /\ ongoing' = [r \in Request |->
                            IF r \in {} THEN "message" ELSE ongoing[r]]
      BY <1>2, <1>t DEF TypeOK
    <3>2. AnnounceFirmware(t)
      BY <1>2, <2>1, <3>1, NoMessages DEF AnnounceFirmware
    <3>3. start_client(t)
      BY <1>2, <2>1, <3>2 DEF start_client, HasToken
    <3>. QED BY <3>3 DEF Continue
  <2>2. CASE ~HasToken
    <3>1. start_client(t)
      BY <1>2, <2>2 DEF start_client, HasToken, thingsboard_provision_device
    <3>. QED BY <3>1 DEF Continue
  <2>. QED BY <2>1, <2>2
<1>3. CASE pc[t] = "subscribe"
  <2>1. start_client_subscribe(t)
    BY <1>3 DEF start_client_subscribe, SubscribeFailed, thingsboard_socket_close
  <2>. QED BY <2>1 DEF Continue
<1>4. CASE pc[t] = "resume_subscribe"
  <2>1. resume_subscribe(t)
    BY <1>4 DEF resume_subscribe, ResubscribeFailed, thingsboard_socket_close
  <2>. QED BY <2>1 DEF Continue
<1>5. CASE pc[t] = "send"
  <2>1. thingsboard_send_telemetry_request(t)
    BY <1>5 DEF thingsboard_send_telemetry_request, SendFailed,
           thingsboard_request_free
  <2>. QED BY <2>1 DEF Continue
<1>6. CASE pc[t] \in {"disconnect_close", "suspend_close"}
  <2>1. disconnect_close(t) \/ suspend_close(t)
    BY <1>6 DEF disconnect_close, suspend_close, thingsboard_socket_close
  <2>. QED BY <2>1 DEF Continue
<1>7. CASE pc[t] = "locked"
  <2>1. thingsboard_unlock(t)
    BY <1>7 DEF thingsboard_unlock
  <2>. QED BY <2>1 DEF Continue
<1>8. CASE pc[t] \in Setting /\ CanLock(t)
  <2>1. \E new \in {"CONNECTED", "SUSPENDED", "DISCONNECTED"} :
           state' = new /\ thingsboard_set_state(t, new)
    BY <1>8 DEF thingsboard_set_state, thingsboard_request_free
  <2>2. set_connected(t) \/ set_suspended(t) \/ set_disconnected(t)
    BY <1>8, <2>1 DEF set_connected, set_suspended, set_disconnected
  <2>. QED BY <2>2 DEF Continue
<1>9. CASE /\ pc[t] \in Unsubscribing
           /\ attributes_observation = NULL \/ pc[CoapThread] \notin AttributePC
  <2>1. thingsboard_client_unsubscribe_attributes
    <3>1. CASE attributes_observation = NULL
      BY <1>9, <1>t, <3>1, NullAssumption
         DEF thingsboard_client_unsubscribe_attributes, TypeOK
    <3>2. CASE attributes_observation # NULL
      BY <1>9, <3>2 DEF thingsboard_client_unsubscribe_attributes,
             CancelObservation, EndRequest
    <3>. QED BY <3>1, <3>2
  <2>2. disconnect_unsubscribe(t) \/ suspend_unsubscribe(t)
    BY <1>9, <2>1 DEF disconnect_unsubscribe, suspend_unsubscribe
  <2>. QED BY <2>2 DEF Continue
<1>. QED BY <1>1, <1>2, <1>3, <1>4, <1>5, <1>6, <1>7, <1>8, <1>9
         DEF MayContinue

LEMMA ContinueIsGuarded ==
  ASSUME NEW t \in Thread, Continue(t) PROVE MayContinue(t)
BY DEF Continue, MayContinue, thingsboard_connect_failed, start_client,
       start_client_subscribe, set_connected, set_suspended,
       set_disconnected, thingsboard_set_state, disconnect_unsubscribe,
       suspend_unsubscribe, thingsboard_client_unsubscribe_attributes,
       CancelObservation, disconnect_close, suspend_close, resume_subscribe,
       thingsboard_send_telemetry_request, thingsboard_unlock

\* Nothing in the library waits for a block, a socket or an answer: as soon
\* as the mutex is free, and the callback that is waited for has run, every
\* thread has a next step, the one of WayOn, whatever has failed before; and
\* no step is made without them.
THEOREM GuardOfContinue ==
  ASSUME ControlInv, NEW t \in Thread
  PROVE  /\ MayContinue(t) /\ WayOn(t) => <<Continue(t)>>_vars
         /\ <<Continue(t)>>_vars => MayContinue(t)
<1>1. ASSUME MayContinue(t), WayOn(t) PROVE vars' # vars
  <2>1. pc'[t] # pc[t]
    BY <1>1 DEF WayOn, MayContinue, Setting, Unsubscribing, ControlInv, TypeOK
  <2>. QED BY <2>1 DEF vars
<1>. QED BY <1>1, WayOnContinues, ContinueIsGuarded

\* The same for the callback of a notification and those that end requests.
THEOREM GuardOfCallbacks ==
  ASSUME ControlInv
  PROVE  /\ MayNotify /\ NotificationWayOn
               => <<client_handle_attribute_notification>>_vars
         /\ <<client_handle_attribute_notification>>_vars => MayNotify
         /\ \A r \in Request :
               /\ MayEnd(r, "message") /\ RequestWayOn(r)
                     => <<thingsboard_handle_response(r)>>_vars
               /\ <<thingsboard_handle_response(r)>>_vars => MayEnd(r, "message")
               /\ MayEnd(r, "provision") /\ RequestWayOn(r)
                     => <<client_handle_prov_resp_any(r)>>_vars
               /\ <<client_handle_prov_resp_any(r)>>_vars
                     => MayEnd(r, "provision")
<1>t. TypeOK /\ CoapThread \in Thread
  BY DEF ControlInv, Thread
<1>1. ASSUME MayNotify, NotificationWayOn
      PROVE  <<client_handle_attribute_notification>>_vars
  <2>1. pc'[CoapThread] # pc[CoapThread]
    BY <1>1, <1>t DEF MayNotify, AttributePC, NotificationWayOn, TypeOK
  <2>2. ASSUME pc[CoapThread] = "attributes_ended"
        PROVE  client_handle_attribute_notification
    BY <1>1, <2>2 DEF MayNotify, NotificationWayOn, attributes_ended,
           ForgetObservation, thingsboard_request_free, Goto,
           client_handle_attribute_notification
  <2>3. ASSUME pc[CoapThread] = "attributes_update"
        PROVE  client_handle_attribute_notification
    <3> DEFINE none == {}
    <3>1. /\ slab' = slab \cup none \cup none
          /\ ongoing' = [r \in Request |->
                            IF r \in none THEN "message"
                            ELSE IF r \in none THEN "firmware" ELSE ongoing[r]]
      BY <1>1, <1>t, <2>3 DEF NotificationWayOn, TypeOK
    <3>2. /\ none \in Messages(1) /\ none \in SUBSET Free
          /\ Cardinality(none) <= 1 /\ none \cap none = {}
      BY NoMessages, FS_EmptySet
    <3>3. ~(none # {})
      OBVIOUS
    <3> HIDE DEF none
    <3>4. attributes_update
      BY <1>1, <2>3, <3>1, <3>2, <3>3 DEF MayNotify, NotificationWayOn, Goto,
             attributes_update, connection
    <3>. QED BY <3>4 DEF client_handle_attribute_notification
  <2>4. client_handle_attribute_notification
    BY <1>1, <2>2, <2>3 DEF MayNotify, AttributePC
  <2>. QED BY <2>1, <2>4 DEF vars
<1>2. client_handle_attribute_notification => MayNotify
  BY DEF client_handle_attribute_notification, attributes_update,
         attributes_ended, MayNotify, AttributePC
<1>3. ASSUME NEW r \in Request
      PROVE  /\ MayEnd(r, "message") /\ RequestWayOn(r)
                   => thingsboard_handle_response(r) /\ vars' # vars
             /\ MayEnd(r, "provision") /\ RequestWayOn(r)
                   => client_handle_prov_resp_any(r) /\ vars' # vars
  <2>1. RequestWayOn(r) /\ ongoing[r] # "none" => ongoing'[r] # ongoing[r]
    BY <1>t DEF RequestWayOn, TypeOK
  <2>2. /\ MayEnd(r, "message") /\ RequestWayOn(r)
              => thingsboard_handle_response(r)
        /\ MayEnd(r, "provision") /\ RequestWayOn(r)
              => client_handle_prov_resp_failed(r)
    BY DEF MayEnd, RequestWayOn, thingsboard_handle_response,
           client_handle_prov_resp_failed, EndRequest
  <2>. QED BY <2>1, <2>2 DEF vars, MayEnd, client_handle_prov_resp_any
<1>4. ASSUME NEW r \in Request
      PROVE  /\ thingsboard_handle_response(r) => MayEnd(r, "message")
             /\ client_handle_prov_resp_any(r) => MayEnd(r, "provision")
  BY DEF MayEnd, thingsboard_handle_response, client_handle_prov_resp_any,
         client_handle_prov_resp_failed, client_handle_prov_resp
<1>. QED BY <1>1, <1>2, <1>3, <1>4
=============================================================================
