---------------------------- MODULE TimeSyncProofs ----------------------------
(***************************************************************************)
(* Proofs about TimeSync, for all intervals, latencies and offsets: the    *)
(* synchronisation never stops, it asks as often as its two delays promise *)
(* whoever sets the deadline, and the time is accurate if it is not read   *)
(* while an answer is being stored.                                        *)
(***************************************************************************)
EXTENDS TimeSync, TLAPS

\* No request has been waiting for its answer longer than an answer may take,
\* and none is younger than the last run of the work item.
RequestInv ==
    \A sent \in outstanding :
        /\ uptime - sent <= MaxLatency
        /\ sent <= asked

\* The deadline is never further than LongestGap from the last run: the work
\* item plans in the instant of its run, and the handler no later than an
\* answer may come.  An item in the queue runs in the same instant.  A client
\* that starts while its work item is being cancelled is refused.
DeadlineInv ==
    /\ work \in {"request", "reschedule"} => asked = uptime
    /\ handler # "idle" => uptime <= asked + MaxLatency
    /\ due # NONE =>
          /\ uptime < due
          /\ due <= asked + LongestGap
    /\ queue = 1 => uptime <= asked + LongestGap
    /\ cancelling => client = "off" \/ refused

\* The server's time, as far as an answer on time can tell it, at the instant
\* at which the uptime was now.
Near(time, now) ==
    /\ now + Offset - MaxLatency <= time
    /\ time <= now + Offset

\* What is stored is the time of an answer, and belongs to own_time unless the
\* handler is between its two assignments; a reader nobody interfered with has
\* not seen these, and the uptime has not moved since it started.
ClockInv ==
    /\ IF handler = "own_time" THEN Near(tb_time, uptime)
                               ELSE synced => Near(tb_time, own_time)
    /\ reader = "half" /\ ~overlap =>
          /\ handler # "own_time"
          /\ synced
          /\ value = uptime - own_time
    /\ reader = "done" /\ ~overlap => Near(value, uptime)

-----------------------------------------------------------------------------
(* Types *)

LEMMA TypeStep == TypeOK /\ [Next]_vars => TypeOK'
<1> SUFFICES ASSUME TypeOK, [Next]_vars PROVE TypeOK'
  OBVIOUS
<1> USE TimeAssumption DEF TypeOK, NONE, item, request, clock, reading
<1>1. ASSUME thingsboard_start_time_sync PROVE TypeOK'
  BY <1>1 DEF thingsboard_start_time_sync, k_work_reschedule
<1>2. ASSUME thingsboard_stop_time_sync PROVE TypeOK'
  BY <1>2 DEF thingsboard_stop_time_sync
<1>3. ASSUME SuspendOrResume PROVE TypeOK'
  BY <1>3 DEF SuspendOrResume
<1>4. ASSUME client_request_time PROVE TypeOK'
  BY <1>4 DEF client_request_time
<1>5. ASSUME SendRequest PROVE TypeOK'
  BY <1>5 DEF SendRequest
<1>6. ASSUME ScheduleFallback PROVE TypeOK'
  BY <1>6 DEF ScheduleFallback, Fallback, k_work_reschedule
<1>7. ASSUME RequestDone PROVE TypeOK'
  BY <1>7 DEF RequestDone
<1>8. ASSUME NEW sent \in outstanding, ReceiveTime(sent) PROVE TypeOK'
  BY <1>8 DEF ReceiveTime
<1>9. ASSUME SetOwnTime PROVE TypeOK'
  BY <1>9 DEF SetOwnTime, OwnTime
<1>10. ASSUME ScheduleRefresh PROVE TypeOK'
  BY <1>10 DEF ScheduleRefresh, k_work_reschedule
<1>11. ASSUME NEW sent \in outstanding, ReceiveNothing(sent) PROVE TypeOK'
  BY <1>11 DEF ReceiveNothing
<1>12. ASSUME ReadOwnTime PROVE TypeOK'
  BY <1>12 DEF ReadOwnTime
<1>13. ASSUME ReadTbTime PROVE TypeOK'
  BY <1>13 DEF ReadTbTime
<1>14. ASSUME ReturnTime PROVE TypeOK'
  BY <1>14 DEF ReturnTime
<1>15. ASSUME Tick PROVE TypeOK'
  BY <1>15 DEF Tick, Quiet
<1>16. CASE UNCHANGED vars
  BY <1>16 DEF vars
<1>. QED BY <1>1, <1>2, <1>3, <1>4, <1>5, <1>6, <1>7, <1>8, <1>9, <1>10,
           <1>11, <1>12, <1>13, <1>14, <1>15, <1>16 DEF Next

\* The variables keep their types: the uptime of an update lies in the past,
\* and the time that is returned is not negative.
THEOREM TypeCorrect == Spec => []TypeOK
<1>1. Init => TypeOK
  <2> SUFFICES ASSUME Init PROVE TypeOK
    OBVIOUS
  <2>1. uptime \in 0 .. MaxUptime /\ own_time \in 0 .. uptime
    BY TimeAssumption DEF Init
  <2>2. /\ asked \in 0 .. uptime
        /\ queue \in 0 .. 1
        /\ tb_time \in Nat
        /\ value \in Nat
    BY DEF Init
  <2>3. due \in Nat \cup {NONE} /\ outstanding \subseteq 0 .. uptime
    BY DEF Init
  <2>. QED BY <2>1, <2>2, <2>3, Zenon DEF Init, TypeOK
<1>. QED BY <1>1, TypeStep, PTL DEF Spec

-----------------------------------------------------------------------------
(* The work item *)

LEMMA RequestStep ==
  TypeOK /\ RequestInv /\ DeadlineInv /\ [Next]_vars => RequestInv'
<1> SUFFICES ASSUME TypeOK, RequestInv, DeadlineInv, [Next]_vars
             PROVE  RequestInv'
  OBVIOUS
<1> USE TimeAssumption DEF TypeOK, NONE, item, request, clock, reading,
                           RequestInv, DeadlineInv
<1>1. ASSUME thingsboard_start_time_sync PROVE RequestInv'
  BY <1>1 DEF thingsboard_start_time_sync, k_work_reschedule
<1>2. ASSUME thingsboard_stop_time_sync PROVE RequestInv'
  BY <1>2 DEF thingsboard_stop_time_sync
<1>3. ASSUME SuspendOrResume PROVE RequestInv'
  BY <1>3 DEF SuspendOrResume
<1>4. ASSUME client_request_time PROVE RequestInv'
  BY <1>4 DEF client_request_time
<1>5. ASSUME SendRequest PROVE RequestInv'
  BY <1>5 DEF SendRequest
<1>6. ASSUME ScheduleFallback PROVE RequestInv'
  BY <1>6 DEF ScheduleFallback, Fallback, k_work_reschedule
<1>7. ASSUME RequestDone PROVE RequestInv'
  BY <1>7 DEF RequestDone
<1>8. ASSUME NEW sent \in outstanding, ReceiveTime(sent) PROVE RequestInv'
  BY <1>8 DEF ReceiveTime
<1>9. ASSUME SetOwnTime PROVE RequestInv'
  BY <1>9 DEF SetOwnTime, OwnTime
<1>10. ASSUME ScheduleRefresh PROVE RequestInv'
  BY <1>10 DEF ScheduleRefresh, k_work_reschedule
<1>11. ASSUME NEW sent \in outstanding, ReceiveNothing(sent) PROVE RequestInv'
  BY <1>11 DEF ReceiveNothing
<1>12. ASSUME ReadOwnTime PROVE RequestInv'
  BY <1>12 DEF ReadOwnTime
<1>13. ASSUME ReadTbTime PROVE RequestInv'
  BY <1>13 DEF ReadTbTime
<1>14. ASSUME ReturnTime PROVE RequestInv'
  BY <1>14 DEF ReturnTime
<1>15. ASSUME Tick PROVE RequestInv'
  BY <1>15 DEF Tick, Quiet
<1>16. CASE UNCHANGED vars
  BY <1>16 DEF vars
<1>. QED BY <1>1, <1>2, <1>3, <1>4, <1>5, <1>6, <1>7, <1>8, <1>9, <1>10,
           <1>11, <1>12, <1>13, <1>14, <1>15, <1>16 DEF Next

LEMMA DeadlineStep ==
  TypeOK /\ RequestInv /\ DeadlineInv /\ [Next]_vars => DeadlineInv'
<1> SUFFICES ASSUME TypeOK, RequestInv, DeadlineInv, [Next]_vars
             PROVE  DeadlineInv'
  OBVIOUS
<1> USE TimeAssumption DEF TypeOK, NONE, item, request, clock, reading,
                           RequestInv, DeadlineInv, LongestGap
<1>1. ASSUME thingsboard_start_time_sync PROVE DeadlineInv'
  BY <1>1 DEF thingsboard_start_time_sync, k_work_reschedule
<1>2. ASSUME thingsboard_stop_time_sync PROVE DeadlineInv'
  BY <1>2 DEF thingsboard_stop_time_sync
<1>3. ASSUME SuspendOrResume PROVE DeadlineInv'
  BY <1>3 DEF SuspendOrResume
<1>4. ASSUME client_request_time PROVE DeadlineInv'
  BY <1>4 DEF client_request_time
<1>5. ASSUME SendRequest PROVE DeadlineInv'
  BY <1>5 DEF SendRequest
<1>6. ASSUME ScheduleFallback PROVE DeadlineInv'
  BY <1>6 DEF ScheduleFallback, Fallback, k_work_reschedule
<1>7. ASSUME RequestDone PROVE DeadlineInv'
  BY <1>7 DEF RequestDone
<1>8. ASSUME NEW sent \in outstanding, ReceiveTime(sent) PROVE DeadlineInv'
  BY <1>8 DEF ReceiveTime
<1>9. ASSUME SetOwnTime PROVE DeadlineInv'
  BY <1>9 DEF SetOwnTime, OwnTime
<1>10. ASSUME ScheduleRefresh PROVE DeadlineInv'
  BY <1>10 DEF ScheduleRefresh, k_work_reschedule
<1>11. ASSUME NEW sent \in outstanding, ReceiveNothing(sent) PROVE DeadlineInv'
  BY <1>11 DEF ReceiveNothing
<1>12. ASSUME ReadOwnTime PROVE DeadlineInv'
  BY <1>12 DEF ReadOwnTime
<1>13. ASSUME ReadTbTime PROVE DeadlineInv'
  BY <1>13 DEF ReadTbTime
<1>14. ASSUME ReturnTime PROVE DeadlineInv'
  BY <1>14 DEF ReturnTime
<1>15. ASSUME Tick PROVE DeadlineInv'
  BY <1>15 DEF Tick, Quiet
<1>16. CASE UNCHANGED vars
  BY <1>16 DEF vars
<1>. QED BY <1>1, <1>2, <1>3, <1>4, <1>5, <1>6, <1>7, <1>8, <1>9, <1>10,
           <1>11, <1>12, <1>13, <1>14, <1>15, <1>16 DEF Next

LEMMA WorkItem == Spec => [](RequestInv /\ DeadlineInv)
<1>1. Init => RequestInv /\ DeadlineInv
  BY TimeAssumption DEF Init, RequestInv, DeadlineInv, LongestGap, NONE
<1>. QED BY <1>1, RequestStep, DeadlineStep, TypeCorrect, PTL DEF Spec

LEMMA PlannedStep ==
  TypeOK /\ DeadlineInv /\ AlwaysPlanned /\ [Next]_vars => AlwaysPlanned'
<1> SUFFICES ASSUME TypeOK, DeadlineInv, AlwaysPlanned, [Next]_vars
             PROVE  AlwaysPlanned'
  OBVIOUS
<1> USE TimeAssumption DEF TypeOK, NONE, item, request, clock, reading,
                           DeadlineInv, AlwaysPlanned
<1>1. ASSUME thingsboard_start_time_sync PROVE AlwaysPlanned'
  BY <1>1 DEF thingsboard_start_time_sync, k_work_reschedule
<1>2. ASSUME thingsboard_stop_time_sync PROVE AlwaysPlanned'
  BY <1>2 DEF thingsboard_stop_time_sync
<1>3. ASSUME SuspendOrResume PROVE AlwaysPlanned'
  BY <1>3 DEF SuspendOrResume
<1>4. ASSUME client_request_time PROVE AlwaysPlanned'
  BY <1>4 DEF client_request_time
<1>5. ASSUME SendRequest PROVE AlwaysPlanned'
  BY <1>5 DEF SendRequest
<1>6. ASSUME ScheduleFallback PROVE AlwaysPlanned'
  BY <1>6 DEF ScheduleFallback, Fallback, k_work_reschedule
<1>7. ASSUME RequestDone PROVE AlwaysPlanned'
  BY <1>7 DEF RequestDone
<1>8. ASSUME NEW sent \in outstanding, ReceiveTime(sent) PROVE AlwaysPlanned'
  BY <1>8 DEF ReceiveTime
<1>9. ASSUME SetOwnTime PROVE AlwaysPlanned'
  BY <1>9 DEF SetOwnTime, OwnTime
<1>10. ASSUME ScheduleRefresh PROVE AlwaysPlanned'
  BY <1>10 DEF ScheduleRefresh, k_work_reschedule
<1>11. ASSUME NEW sent \in outstanding, ReceiveNothing(sent) PROVE AlwaysPlanned'
  BY <1>11 DEF ReceiveNothing
<1>12. ASSUME ReadOwnTime PROVE AlwaysPlanned'
  BY <1>12 DEF ReadOwnTime
<1>13. ASSUME ReadTbTime PROVE AlwaysPlanned'
  BY <1>13 DEF ReadTbTime
<1>14. ASSUME ReturnTime PROVE AlwaysPlanned'
  BY <1>14 DEF ReturnTime
<1>15. ASSUME Tick PROVE AlwaysPlanned'
  BY <1>15 DEF Tick, Quiet
<1>16. CASE UNCHANGED vars
  BY <1>16 DEF vars
<1>. QED BY <1>1, <1>2, <1>3, <1>4, <1>5, <1>6, <1>7, <1>8, <1>9, <1>10,
           <1>11, <1>12, <1>13, <1>14, <1>15, <1>16 DEF Next

\* A connected client whose start was not refused never stops to ask for the
\* time, whatever is lost.
THEOREM NeverStops == Spec => []AlwaysPlanned
<1>1. Init => AlwaysPlanned
  BY DEF Init, AlwaysPlanned
<1>. QED BY <1>1, PlannedStep, TypeCorrect, WorkItem, PTL DEF Spec

\* However the work queue, the CoAP thread and the threads that connect and
\* disconnect overwrite the deadline, no two runs of the work item are further
\* apart than the fallback delay, or a latency and a refresh interval.
THEOREM AsksOftenEnough == Spec => []AsksOften
<1>1. TypeOK /\ DeadlineInv /\ AlwaysPlanned => AsksOften
  <2> SUFFICES ASSUME TypeOK, DeadlineInv, AlwaysPlanned,
                      client # "off", ~refused
               PROVE  uptime - asked <= LongestGap
    BY DEF AsksOften
  <2> USE TimeAssumption DEF TypeOK, DeadlineInv, NONE, LongestGap
  <2>1. CASE due # NONE
    BY <2>1
  <2>2. CASE queue = 1
    BY <2>2
  <2>3. CASE work \in {"request", "reschedule"}
    BY <2>3
  <2>. QED BY <2>1, <2>2, <2>3 DEF AlwaysPlanned
<1>. QED BY <1>1, TypeCorrect, WorkItem, NeverStops, PTL

-----------------------------------------------------------------------------
(* The clock *)

LEMMA ClockStep ==
  TypeOK /\ TypeOK' /\ RequestInv /\ ClockInv /\ [Next]_vars => ClockInv'
<1> SUFFICES ASSUME TypeOK, TypeOK', RequestInv, ClockInv, [Next]_vars
             PROVE  ClockInv'
  OBVIOUS
<1> USE TimeAssumption DEF TypeOK, NONE, item, request, clock, reading,
                           RequestInv, ClockInv, Near
<1>1. ASSUME thingsboard_start_time_sync PROVE ClockInv'
  BY <1>1 DEF thingsboard_start_time_sync, k_work_reschedule
<1>2. ASSUME thingsboard_stop_time_sync PROVE ClockInv'
  BY <1>2 DEF thingsboard_stop_time_sync
<1>3. ASSUME SuspendOrResume PROVE ClockInv'
  BY <1>3 DEF SuspendOrResume
<1>4. ASSUME client_request_time PROVE ClockInv'
  BY <1>4 DEF client_request_time
<1>5. ASSUME SendRequest PROVE ClockInv'
  BY <1>5 DEF SendRequest
<1>6. ASSUME ScheduleFallback PROVE ClockInv'
  BY <1>6 DEF ScheduleFallback, Fallback, k_work_reschedule
<1>7. ASSUME RequestDone PROVE ClockInv'
  BY <1>7 DEF RequestDone
<1>8. ASSUME NEW sent \in outstanding, ReceiveTime(sent) PROVE ClockInv'
  BY <1>8 DEF ReceiveTime
<1>9. ASSUME SetOwnTime PROVE ClockInv'
  BY <1>9 DEF SetOwnTime, OwnTime
<1>10. ASSUME ScheduleRefresh PROVE ClockInv'
  BY <1>10 DEF ScheduleRefresh, k_work_reschedule
<1>11. ASSUME NEW sent \in outstanding, ReceiveNothing(sent) PROVE ClockInv'
  BY <1>11 DEF ReceiveNothing
<1>12. ASSUME ReadOwnTime PROVE ClockInv'
  BY <1>12 DEF ReadOwnTime
<1>13. ASSUME ReadTbTime PROVE ClockInv'
  BY <1>13 DEF ReadTbTime
<1>14. ASSUME ReturnTime PROVE ClockInv'
  BY <1>14 DEF ReturnTime
<1>15. ASSUME Tick PROVE ClockInv'
  BY <1>15 DEF Tick, Quiet
<1>16. CASE UNCHANGED vars
  BY <1>16 DEF vars
<1>. QED BY <1>1, <1>2, <1>3, <1>4, <1>5, <1>6, <1>7, <1>8, <1>9, <1>10,
           <1>11, <1>12, <1>13, <1>14, <1>15, <1>16 DEF Next

\* The time an application reads is the server's, less at most the latency of
\* an answer, unless an answer is stored meanwhile.
THEOREM ReadsAccurately == Spec => []AccurateAlone
<1>1. Init => ClockInv
  BY DEF Init, ClockInv
<1>2. TypeOK /\ ClockInv => AccurateAlone
  BY TimeAssumption DEF TypeOK, ClockInv, Near, AccurateAlone
<1>. QED BY <1>1, <1>2, ClockStep, TypeCorrect, WorkItem, PTL DEF Spec
=============================================================================
