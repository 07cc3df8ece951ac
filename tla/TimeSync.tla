------------------------------- MODULE TimeSync -------------------------------
(***************************************************************************)
(* Time synchronisation (tb_time.c): a delayable work item asks the server *)
(* for the time, in the system work queue; the CoAP thread runs the        *)
(* response handler; an application thread reads the time.  None of them   *)
(* takes a lock.  Only the work item ties them together: whoever calls     *)
(* k_work_reschedule overwrites its deadline, but does not take it out of  *)
(* the queue.                                                              *)
(*                                                                         *)
(* Time passes in ticks, between which threads run but do not block: a     *)
(* work item runs in the tick it is due, and an answer arrives at most     *)
(* MaxLatency ticks after its request, or never.                           *)
(*                                                                         *)
(* asked, refused and overlap are history variables: no guard looks at    *)
(* them.                                                                   *)
(***************************************************************************)
EXTENDS Integers

CONSTANTS
    RefreshInterval,  \* CONFIG_THINGSBOARD_TIME_REFRESH_INTERVAL_SECONDS
    FallbackDelay,    \* the delay client_request_time ends with
    MaxLatency,       \* how long the CoAP client waits for an answer
    Offset,           \* the server's time minus this device's uptime
    MaxUptime         \* bound: the last tick that is explored

NONE == -1   \* no deadline

ASSUME TimeAssumption ==
    /\ RefreshInterval \in Nat
    /\ FallbackDelay \in Nat
    /\ MaxLatency \in Nat
    /\ Offset \in Nat
    /\ MaxUptime \in Nat

VARIABLES
    uptime,       \* k_uptime_get()
    client,       \* "off", "active" or "suspended"; "off" is CONNECTING, too
    due,          \* when the timer of work_time expires
    queue,        \* how many items wait for the work queue: work_time or none
    work,         \* where the work queue is in client_request_time
    cancelling,   \* work_time was cancelled while it ran, and still runs
    asked,        \* when work_time last ran, or the synchronisation started
    refused,      \* the last start of the synchronisation was refused
    outstanding,  \* when the requests without an answer were sent
    handler,      \* where the CoAP thread is in client_handle_time_response
    tb_time,      \* tb_time.tb_time
    own_time,     \* tb_time.own_time
    synced,       \* an update has completed
    reader,       \* where the application is in thingsboard_time_msec
    value,        \* what it has computed so far
    overlap       \* an update was in progress meanwhile

item    == <<due, queue, work, cancelling>>
request == <<asked, refused>>
clock   == <<tb_time, own_time, synced>>
reading == <<reader, value, overlap>>

vars == <<uptime, client, item, request, outstanding, handler, clock, reading>>

TypeOK ==
    /\ uptime \in 0 .. MaxUptime
    /\ client \in {"off", "active", "suspended"}
    /\ due \in Nat \cup {NONE}
    /\ queue \in 0 .. 1
    /\ work \in {"idle", "request", "reschedule", "return"}
    /\ cancelling \in BOOLEAN
    /\ asked \in 0 .. uptime
    /\ refused \in BOOLEAN
    /\ outstanding \subseteq 0 .. uptime
    /\ handler \in {"idle", "own_time", "reschedule"}
    /\ tb_time \in Nat
    /\ own_time \in 0 .. uptime
    /\ synced \in BOOLEAN
    /\ reader \in {"idle", "half", "done"}
    /\ value \in Nat
    /\ overlap \in BOOLEAN

Init ==
    /\ uptime = 0
    /\ client = "off"
    /\ due = NONE
    /\ queue = 0
    /\ work = "idle"
    /\ cancelling = FALSE
    /\ asked = 0
    /\ refused = FALSE
    /\ outstanding = {}
    /\ handler = "idle"
    /\ tb_time = 0
    /\ own_time = 0
    /\ synced = FALSE
    /\ reader = "idle"
    /\ value = 0
    /\ overlap = FALSE

\* The timer before is stopped in any case; an item that is in the queue stays
\* there.  Zephyr refuses (-EBUSY) to queue an item that is being cancelled
\* until its handler has returned.
k_work_reschedule(delay) ==
    /\ due' = IF delay = 0 THEN NONE ELSE uptime + delay
    /\ \/ delay = 0 /\ ~cancelling /\ queue' = 1
       \/ (delay # 0 \/ cancelling) /\ UNCHANGED queue

-----------------------------------------------------------------------------
(* The client *)

\* start_client: thingsboard_start_time_sync, which goes on without the work
\* item if that is refused, and the state is CONNECTED.
thingsboard_start_time_sync ==
    /\ client = "off"
    /\ client' = "active"
    /\ k_work_reschedule(0)
    /\ asked' = uptime
    /\ refused' = cancelling
    /\ UNCHANGED <<uptime, work, cancelling, outstanding, handler, clock,
                   reading>>

\* thingsboard_disconnect: k_work_cancel_delayable stops the timer and takes the
\* item out of the queue; a handler that is running goes on.
thingsboard_stop_time_sync ==
    /\ client # "off"
    /\ client' = "off"
    /\ due' = NONE
    /\ queue' = 0
    /\ cancelling' = (work # "idle")
    /\ UNCHANGED <<uptime, work, request, outstanding, handler, clock, reading>>

SuspendOrResume ==
    /\ client # "off"
    /\ client' = IF client = "active" THEN "suspended" ELSE "active"
    /\ UNCHANGED <<uptime, item, request, outstanding, handler, clock, reading>>

-----------------------------------------------------------------------------
(* client_request_time, in the work queue *)

\* thingsboard_is_active holds in CONNECTED and in CONNECTING, which is "off".
client_request_time ==
    /\ work = "idle"
    /\ queue = 1
    /\ queue' = 0
    /\ \/ client # "suspended" /\ work' = "request"
       \/ client # "active" /\ work' = "reschedule"
    /\ asked' = uptime
    /\ UNCHANGED <<uptime, client, due, cancelling, refused, outstanding,
                   handler, clock, reading>>

\* thingsboard_send_rpc_request, which may fail.
SendRequest ==
    /\ work = "request"
    /\ outstanding' \in {outstanding \cup {uptime}, outstanding}
    /\ work' = "reschedule"
    /\ UNCHANGED <<uptime, client, due, queue, cancelling, request, handler,
                   clock, reading>>

\* The label out.  Mutated, the work item is planned late or not at all.
MutantNoFallback == UNCHANGED <<due, queue>>
MutantSlowFallback == k_work_reschedule(RefreshInterval + FallbackDelay)
Fallback == k_work_reschedule(FallbackDelay)

ScheduleFallback ==
    /\ work = "reschedule"
    /\ Fallback
    /\ work' = "return"
    /\ UNCHANGED <<uptime, client, cancelling, request, outstanding, handler,
                   clock, reading>>

\* The work queue takes notice that the handler has returned.
RequestDone ==
    /\ work = "return"
    /\ work' = "idle"
    /\ cancelling' = FALSE
    /\ UNCHANGED <<uptime, client, due, queue, request, outstanding, handler,
                   clock, reading>>

-----------------------------------------------------------------------------
(* client_handle_time_response, in the CoAP thread *)

\* A valid answer that the server has stamped on the way.
ReceiveTime(sent) ==
    /\ handler = "idle"
    /\ outstanding' = outstanding \ {sent}
    /\ \E stamp \in sent .. uptime : tb_time' = stamp + Offset
    /\ handler' = "own_time"
    /\ overlap' = (overlap \/ reader = "half")
    /\ UNCHANGED <<uptime, client, item, request, own_time, synced, reader,
                   value>>

MutantFirstOwnTime == own_time   \* the uptime of the update before stays
MutantOwnTimeIsTbTime == tb_time \* the two clocks are mixed up
OwnTime == uptime

SetOwnTime ==
    /\ handler = "own_time"
    /\ own_time' = OwnTime
    /\ synced' = TRUE
    /\ handler' = "reschedule"
    /\ UNCHANGED <<uptime, client, item, request, outstanding, tb_time,
                   reading>>

ScheduleRefresh ==
    /\ handler = "reschedule"
    /\ k_work_reschedule(RefreshInterval)
    /\ handler' = "idle"
    /\ UNCHANGED <<uptime, client, work, cancelling, request, outstanding,
                   clock, reading>>

\* A timeout, an error, or a payload that is empty or not a number: nothing
\* is planned.
ReceiveNothing(sent) ==
    /\ handler = "idle"
    /\ outstanding' = outstanding \ {sent}
    /\ UNCHANGED <<uptime, client, item, request, handler, clock, reading>>

-----------------------------------------------------------------------------
(* thingsboard_time_msec, in an application thread *)

\* Before the first update it returns the uptime, of which nothing is said.
ReadOwnTime ==
    /\ reader = "idle"
    /\ synced
    /\ value' = uptime - own_time
    /\ overlap' = (handler = "own_time")
    /\ reader' = "half"
    /\ UNCHANGED <<uptime, client, item, request, outstanding, handler, clock>>

ReadTbTime ==
    /\ reader = "half"
    /\ value' = value + tb_time
    /\ reader' = "done"
    /\ UNCHANGED <<uptime, client, item, request, outstanding, handler, clock,
                   overlap>>

ReturnTime ==
    /\ reader = "done"
    /\ reader' = "idle"
    /\ value' = 0
    /\ overlap' = FALSE
    /\ UNCHANGED <<uptime, client, item, request, outstanding, handler, clock>>

-----------------------------------------------------------------------------
(* The system *)

Quiet == work = "idle" /\ handler = "idle" /\ reader = "idle"

\* The timer of the work item expires in a tick.
Tick ==
    /\ Quiet
    /\ uptime < MaxUptime
    /\ queue = 0
    /\ \A sent \in outstanding : uptime - sent < MaxLatency
    /\ uptime' = uptime + 1
    /\ \/ due = uptime' /\ due' = NONE /\ queue' = 1
       \/ due # uptime' /\ UNCHANGED <<due, queue>>
    /\ UNCHANGED <<client, work, cancelling, request, outstanding, handler,
                   clock, reading>>

Next ==
    \/ thingsboard_start_time_sync
    \/ thingsboard_stop_time_sync
    \/ SuspendOrResume
    \/ client_request_time
    \/ SendRequest
    \/ ScheduleFallback
    \/ RequestDone
    \/ \E sent \in outstanding : ReceiveTime(sent)
    \/ SetOwnTime
    \/ ScheduleRefresh
    \/ \E sent \in outstanding : ReceiveNothing(sent)
    \/ ReadOwnTime
    \/ ReadTbTime
    \/ ReturnTime
    \/ Tick

Spec == Init /\ [][Next]_vars

-----------------------------------------------------------------------------
(* Properties *)

\* Once connected the synchronisation never dies: the next request is always
\* planned or being made, whatever answers, losses and restarts happened,
\* unless thingsboard_start_time_sync was refused.
AlwaysPlanned ==
    client # "off" /\ ~refused =>
        due # NONE \/ queue = 1 \/ work \in {"request", "reschedule"}

\* The longest time between two requests: the refresh interval after the
\* latest answer, or the fallback delay.
LongestGap ==
    IF FallbackDelay >= MaxLatency + RefreshInterval
    THEN FallbackDelay
    ELSE MaxLatency + RefreshInterval

\* client_request_time runs again and again: three functions overwrite the
\* deadline, in two threads and a work queue, and none of them moves it further
\* than an answer or a fallback justifies.
AsksOften == client # "off" /\ ~refused => uptime - asked <= LongestGap

\* "Interval in seconds between time refresh" (Kconfig:59): an active client
\* asks again that time after an answer has come, or could have come.
RefreshesInTime ==
    client = "active" /\ ~refused =>
        uptime - asked <= MaxLatency + RefreshInterval

\* The time that is returned is the server's, less the latency of the answer
\* it rests on, when no update interferes with reading it.
AccurateAlone ==
    reader = "done" /\ ~overlap =>
        value \in uptime + Offset - MaxLatency .. uptime + Offset
=============================================================================
