-------------------------- MODULE ProvisioningProofs --------------------------
(***************************************************************************)
(* Proofs about Provisioning, for any number of tokens and restarts: the   *)
(* token of a device that the server knows is never replaced or forgotten, *)
(* except in the ways that TokenAccounted names.                           *)
(***************************************************************************)
EXTENDS Provisioning, TLAPS

\* One attempt to connect at a time: it waits for the answer, or is at a step
\* of its own, and only while the client is CONNECTING.  The client's token
\* is set once and for all.
OneAttempt ==
    /\ exchange # "none" \/ pc # "idle" => state = "CONNECTING"
    /\ exchange # "none" => pc = "idle" /\ ~client_token
    /\ pc \in {"save", "prov_cb"} => ~client_token
    /\ pc = "start_client" => client_token

\* The server has at most one token for the device, the one it issued last;
\* what is given to prov_callback is in flash.
OneToken ==
    /\ server # NoToken /\ exchange = "answer" /\ answer # NoToken
       => answer = server
    /\ server # NoToken /\ pc = "save" => access_token = server
    /\ pc = "prov_cb" /\ ~lost => access_token = settings

TokenInv ==
    /\ TypeOK
    /\ OneAttempt
    /\ OneToken
    /\ TokenAccounted
    /\ UsesSavedToken

LEMMA TokenStep == TokenInv /\ [Next]_vars => TokenInv'
<1> SUFFICES ASSUME TokenInv, [Next]_vars PROVE TokenInv'
  OBVIOUS
<1> USE ProvisioningAssumption
    DEF TokenInv, TypeOK, OptionalToken, OneAttempt, OneToken,
        TokenAccounted, UsesSavedToken, Connectable, Load, remote
<1>1. ASSUME connect_with_token PROVE TokenInv'
  BY <1>1 DEF connect_with_token
<1>2. ASSUME connect_with_settings PROVE TokenInv'
  BY <1>2 DEF connect_with_settings
<1>3. ASSUME connect_by_provisioning PROVE TokenInv'
  BY <1>3 DEF connect_by_provisioning
<1>4. ASSUME prov_callback PROVE TokenInv'
  BY <1>4 DEF prov_callback
<1>5. ASSUME start_client \/ start_client_failed PROVE TokenInv'
  BY <1>5 DEF start_client, start_client_failed, Subscribe
<1>6. ASSUME thingsboard_disconnect PROVE TokenInv'
  BY <1>6 DEF thingsboard_disconnect
<1>7. ASSUME ServerAccepts PROVE TokenInv'
  BY <1>7 DEF ServerAccepts
<1>8. ASSUME ServerRefuses PROVE TokenInv'
  BY <1>8 DEF ServerRefuses
<1>9. ASSUME ServerDeletes PROVE TokenInv'
  BY <1>9 DEF ServerDeletes
<1>10. ASSUME client_handle_prov_resp_failed PROVE TokenInv'
  BY <1>10 DEF client_handle_prov_resp_failed, AnswerLost
<1>11. ASSUME client_handle_prov_resp PROVE TokenInv'
  BY <1>11 DEF client_handle_prov_resp
<1>12. ASSUME settings_save_one PROVE TokenInv'
  BY <1>12 DEF settings_save_one, Save
<1>13. ASSUME Restart PROVE TokenInv'
  <2>1. /\ state' = "DISCONNECTED" /\ access_token' = NoToken
        /\ client_token' = FALSE /\ pc' = "idle" /\ exchange' = "none"
        /\ answer' = NoToken /\ unread' = FALSE
        /\ restarts' \in 0 .. MaxRestarts
        /\ UNCHANGED <<server, issued>>
    BY <1>13 DEF Restart
  <2>2. CASE lost' = (AnswerLost \/ pc = "save") /\ UNCHANGED settings
    <3>1. lost' \in BOOLEAN /\ settings' \in OptionalToken
      BY <2>2 DEF AnswerLost
    <3>2. server' # NoToken /\ ~lost' => settings' = server'
      BY <2>1, <2>2 DEF AnswerLost
    <3>. QED BY <2>1, <3>1, <3>2
  <2>3. CASE lost' = TRUE /\ settings' = NoToken
    BY <2>1, <2>3
  <2>. QED BY <1>13, <2>2, <2>3 DEF Restart
<1>14. CASE UNCHANGED vars
  BY <1>14 DEF vars
<1>. QED BY <1>1, <1>2, <1>3, <1>4, <1>5, <1>6, <1>7, <1>8, <1>9, <1>10,
            <1>11, <1>12, <1>13, <1>14 DEF Next

LEMMA TokenInductive == Spec => []TokenInv
<1>1. Init => TokenInv
  <2> SUFFICES ASSUME Init PROVE TokenInv
    OBVIOUS
  <2>1. restarts \in 0 .. MaxRestarts
    BY ProvisioningAssumption DEF Init
  <2>2. TypeOK
    BY <2>1 DEF Init, Booted, TypeOK, OptionalToken
  <2>. QED BY <2>2
         DEF Init, Booted, TokenInv, OneAttempt, OneToken, TokenAccounted,
             UsesSavedToken
<1>. QED BY <1>1, TokenStep, PTL DEF Spec

\* The variables of provisioning keep their types.
THEOREM ProvisioningTypeCorrect == Spec => []TypeOK
BY TokenInductive, PTL DEF TokenInv

\* The token of a device the server knows is in flash or on its way there,
\* unless it was lost in one of the ways TokenAccounted names.
THEOREM TokenIsAccountedFor == Spec => []TokenAccounted
BY TokenInductive, PTL DEF TokenInv

\* The client never uses a token that the next boot will not find, unless
\* saving it failed.
THEOREM TokenSavedBeforeUse == Spec => []UsesSavedToken
BY TokenInductive, PTL DEF TokenInv

-----------------------------------------------------------------------------
(* A saved token connects *)

\* Each of these steps is possible exactly when its guard holds.
MayConnectWithToken    == Connectable /\ client_token
MayConnectWithSettings == Connectable /\ ~client_token /\ Load # NoToken
MayCallBack            == pc = "prov_cb"
MaySubscribe           == pc = "start_client"

\* The part of FairSpec's fairness that is needed, with these guards for
\* ENABLED.
GuardedFairness ==
    /\ []<>~MayConnectWithToken \/ []<><<connect_with_token>>_vars
    /\ <>[]~MayConnectWithSettings \/ []<><<connect_with_settings>>_vars
    /\ []<>~MayCallBack \/ []<><<prov_callback>>_vars
    /\ <>[]~MaySubscribe \/ []<><<start_client>>_vars

GuardedSpec == Spec /\ GuardedFairness

\* The device restarts a finite number of times.
RestartsEnd == <>[][~Restart]_vars

\* The server is asked only while flash has no token, or cannot be read; an
\* attempt that was abandoned had asked.
AsksWithoutToken ==
    exchange # "none" \/ (state = "CONNECTING" /\ pc \in {"idle", "save"})
        => settings = NoToken \/ unread

LEMMA AsksWithoutTokenStep ==
  ASSUME TokenInv, AsksWithoutToken, [Next]_vars PROVE AsksWithoutToken'
<1> USE DEF AsksWithoutToken, TokenInv, OneAttempt, remote
<1>1. CASE connect_with_token \/ connect_with_settings
           \/ connect_by_provisioning
  BY <1>1 DEF connect_with_token, connect_with_settings,
         connect_by_provisioning, Connectable, Load
<1>2. CASE prov_callback \/ start_client \/ start_client_failed
           \/ thingsboard_disconnect
  BY <1>2 DEF prov_callback, start_client, start_client_failed, Subscribe,
         thingsboard_disconnect
<1>3. CASE ServerAccepts \/ ServerRefuses \/ ServerDeletes
  BY <1>3 DEF ServerAccepts, ServerRefuses, ServerDeletes
<1>4. CASE client_handle_prov_resp_failed \/ client_handle_prov_resp
  BY <1>4 DEF client_handle_prov_resp_failed, client_handle_prov_resp
<1>5. CASE settings_save_one
  BY <1>5 DEF settings_save_one, Save
<1>6. CASE Restart
  BY <1>6 DEF Restart
<1>7. CASE UNCHANGED vars
  BY <1>7 DEF vars
<1>. QED BY <1>1, <1>2, <1>3, <1>4, <1>5, <1>6, <1>7 DEF Next

Connected == state = "CONNECTED" \/ settings = NoToken \/ unread

\* Without a restart a device with a token in flash goes from having it in
\* flash only, over having it in RAM, to using it, and from then on it
\* subscribes or tries again.
LEMMA TokenWay ==
  ASSUME TokenInv, AsksWithoutToken, [Next]_vars, [~Restart]_vars,
         ~Connected, ~Connected'
  PROVE  /\ \/ MayConnectWithSettings \/ MayCallBack
            \/ MayConnectWithToken \/ MaySubscribe
         /\ MayConnectWithSettings => MayConnectWithSettings' \/ MayCallBack'
         /\ MayCallBack => MayCallBack' \/ MaySubscribe'
         /\ MayConnectWithToken => MayConnectWithToken' \/ MaySubscribe'
         /\ MaySubscribe => MaySubscribe' \/ MayConnectWithToken'
<1> USE DEF TokenInv, TypeOK, OneAttempt, AsksWithoutToken, Connected,
            MayConnectWithSettings, MayCallBack, MayConnectWithToken,
            MaySubscribe, Connectable, Load, remote
<1>1. CASE connect_with_token \/ connect_with_settings
           \/ connect_by_provisioning
  BY <1>1 DEF connect_with_token, connect_with_settings,
         connect_by_provisioning
<1>2. CASE prov_callback \/ start_client \/ start_client_failed
           \/ thingsboard_disconnect
  BY <1>2 DEF prov_callback, start_client, start_client_failed, Subscribe,
         thingsboard_disconnect
<1>3. CASE ServerAccepts \/ ServerRefuses \/ ServerDeletes
  BY <1>3 DEF ServerAccepts, ServerRefuses, ServerDeletes
<1>4. CASE client_handle_prov_resp_failed \/ client_handle_prov_resp
  BY <1>4 DEF client_handle_prov_resp_failed, client_handle_prov_resp
<1>5. CASE settings_save_one
  BY <1>5 DEF settings_save_one, Save
<1>6. CASE UNCHANGED vars
  BY <1>6 DEF vars
<1>. QED BY <1>1, <1>2, <1>3, <1>4, <1>5, <1>6 DEF Next

\* Where the fair steps lead.
LEMMA TokenSteps ==
  /\ connect_with_settings => MayCallBack'
  /\ connect_with_token => MaySubscribe'
  /\ prov_callback => MaySubscribe'
  /\ start_client => Connected'
BY DEF connect_with_settings, connect_with_token, prov_callback,
       start_client, Subscribe, MayCallBack, MaySubscribe, Connected

\* A device with a token in flash connects without being provisioned again:
\* it never asks the server, and however often subscribing fails it does not
\* end up anywhere else.
THEOREM SavedTokenLeads == GuardedSpec /\ RestartsEnd => SavedTokenConnects
<1>1. Spec => [](TokenInv /\ AsksWithoutToken)
  <2>1. Init => AsksWithoutToken
    BY DEF Init, Booted, AsksWithoutToken
  <2>. QED BY <2>1, AsksWithoutTokenStep, TokenInductive, PTL DEF Spec
<1>2. TokenInv /\ AsksWithoutToken /\ [Next]_vars /\ [~Restart]_vars
        /\ ~Connected /\ ~Connected'
      => /\ \/ MayConnectWithSettings \/ MayCallBack
            \/ MayConnectWithToken \/ MaySubscribe
         /\ MayConnectWithSettings => MayConnectWithSettings' \/ MayCallBack'
         /\ MayCallBack => MayCallBack' \/ MaySubscribe'
         /\ MayConnectWithToken => MayConnectWithToken' \/ MaySubscribe'
         /\ MaySubscribe => MaySubscribe' \/ MayConnectWithToken'
  BY TokenWay
<1>3. /\ <<connect_with_settings>>_vars => MayCallBack'
      /\ <<connect_with_token>>_vars => MaySubscribe'
      /\ <<prov_callback>>_vars => MaySubscribe'
      /\ <<start_client>>_vars => Connected'
  BY TokenSteps
<1>4. GuardedSpec /\ RestartsEnd => []<>Connected
  BY <1>1, <1>2, <1>3, PTL
     DEF GuardedSpec, GuardedFairness, RestartsEnd, Spec
<1>5. GuardedSpec /\ RestartsEnd
        => [](settings # NoToken =>
                <>(state = "CONNECTED" \/ settings = NoToken \/ unread))
  BY <1>4, PTL DEF Connected
<1>. QED BY <1>5, PTL DEF SavedTokenConnects

-----------------------------------------------------------------------------
(* The guards of the fairness are what ENABLED says *)

rest == <<settings, exchange, answer, remote, lost, unread, restarts>>

\* What each of the four steps makes of the variables: assignments, which
\* are possible in every state.
TokenWayOn ==
    /\ state' = "CONNECTING" /\ pc' = "start_client"
    /\ UNCHANGED <<access_token, client_token, rest>>

SettingsWayOn ==
    /\ state' = "CONNECTING" /\ pc' = "prov_cb" /\ access_token' = settings
    /\ UNCHANGED <<client_token, rest>>

CallBackWayOn ==
    /\ client_token' = TRUE /\ pc' = "start_client"
    /\ UNCHANGED <<state, access_token, rest>>

SubscribeWayOn ==
    /\ state' = "CONNECTED" /\ pc' = "idle"
    /\ UNCHANGED <<access_token, client_token, rest>>

\* Each step of the way from a saved token to a connection is possible when
\* its guard holds, and only then: connecting waits for no answer once the
\* token is in flash or in RAM.
THEOREM GuardsOfConnecting ==
  /\ MayConnectWithToken /\ TokenWayOn => <<connect_with_token>>_vars
  /\ MayConnectWithSettings /\ SettingsWayOn => <<connect_with_settings>>_vars
  /\ MayCallBack /\ CallBackWayOn => <<prov_callback>>_vars
  /\ MaySubscribe /\ SubscribeWayOn => <<start_client>>_vars
  /\ <<connect_with_token>>_vars => MayConnectWithToken
  /\ <<connect_with_settings>>_vars => MayConnectWithSettings
  /\ <<prov_callback>>_vars => MayCallBack
  /\ <<start_client>>_vars => MaySubscribe
<1> USE DEF MayConnectWithToken, MayConnectWithSettings, MayCallBack,
            MaySubscribe, connect_with_token, connect_with_settings,
            prov_callback, start_client, Subscribe, Connectable, Load
<1>1. /\ MayConnectWithToken /\ TokenWayOn => connect_with_token
      /\ MayConnectWithSettings /\ SettingsWayOn => connect_with_settings
      /\ MayCallBack /\ CallBackWayOn => prov_callback
      /\ MaySubscribe /\ SubscribeWayOn => start_client
  BY DEF TokenWayOn, SettingsWayOn, CallBackWayOn, SubscribeWayOn, rest
<1>2. /\ connect_with_token \/ connect_with_settings => state' # state
      /\ prov_callback \/ start_client => pc' # pc
  OBVIOUS
<1>3. state' # state \/ pc' # pc => vars' # vars
  BY DEF vars
<1>. QED BY <1>1, <1>2, <1>3
=============================================================================
