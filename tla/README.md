# ThingsBoard SDK: verification models

TLA+ models of the ThingsBoard client SDK for Zephyr (`src/`), the TLC runs that
check them on small instances, and theorems that TLAPS proves for every instance.
`PROJECT.json` lists components, runs, mutants, findings, hazards and theorems, and
maps every definition to the lines of C it stands for.

## 1. The system

A device runs this library next to its application. It keeps one CoAP connection to a
ThingsBoard server, observes the device's shared attributes, sends telemetry, asks for
the time, provisions itself and updates its firmware.

Four kinds of threads meet in it:

| thread | runs |
| --- | --- |
| application threads | the API: `thingsboard_init`, `_connect`, `_disconnect`, `_suspend`, `_resume`, `_send_*`, `_lock`, `_time_msec` |
| the system work queue | `client_request_time` |
| the receive thread of Zephyr's CoAP client | every response callback: `thingsboard_handle_response`, `_handle_rpc_response`, `client_handle_attribute_notification`, `client_handle_prov_resp` (and through it `start_client`), `client_handle_fw_chunk` |
| none (reset) | a reboot after a firmware update or at any other time, and what MCUboot and the settings keep over it |

### Components

| component | state it keeps | operations | interacts with |
| --- | --- | --- | --- |
| client life cycle (`thingsboard.c`) | `state`, `server_socket`, `access_token`, the mutex | init, connect, `start_client`, disconnect, suspend, resume | socket, provisioning, attributes, FOTA, time; events to the application |
| request slab (`thingsboard.c`) | the free blocks | `thingsboard_request_alloc`, `_free` | every sender; each block is lent to the CoAP client and freed in a callback |
| attribute observation (`thingsboard.c`) | `attributes_observation`, `shared_attributes` | subscribe, unsubscribe, notification | life cycle, FOTA, the application |
| telemetry (`thingsboard.c`, `thingsboard_messages_*.c`) | none between calls; the blocks of one call | `thingsboard_send_telemetry`, `_telemetry_buf`, `_timeseries` | slab, the encoders |
| RPC (`thingsboard.c`) | `rpc_cb` in the block | `thingsboard_send_rpc_request` | time |
| time (`tb_time.c`) | `tb_time`, `own_time`, the deadline of `work_time` | start, stop, request, response, read | RPC, life cycle |
| firmware update (`tb_fota.c`) | `state`, `title`, `version`, `offset`, `size` | init, on attributes, block received, apply, confirm | attributes, DFU target, MCUboot |
| provisioning (`provision.c`) | the token in RAM and in the settings | ask, answer | life cycle, settings |
| socket (`socket.c`, `socket_dtls.c`) | none | resolve, connect, suspend, resume, close | network stack |
| message encodings (`thingsboard_messages_json.c`, `_protobuf.c`, `gen_json_parser.py`) | none | encode, decode, merge attributes | all of the above |

### What is hard

* **Two threads that wait for each other.** The mutex is held over
  `coap_client_cancel_request`, which waits for the callback that takes the mutex.
* **`start_client` without the mutex.** After provisioning it runs in the CoAP thread;
  only the guards on `state` keep the API calls away.
* **Checks that are stale when used.** `thingsboard_is_active` is read without the
  mutex, long before the request is handed over.
* **Blocks that are freed in one of many callbacks.** A slab of a few blocks, early
  returns in every function, an observation that ends by cancellation or by itself.
* **Steps that fail half way.** Connecting, the two-phase sending of a batch, the start
  of a firmware update.
* **Transfers that outlive what started them.** The CoAP client goes on fetching blocks
  after the update has failed or the connection was set up again.
* **What survives a reset, and what does not.** The token is in the answer, in RAM and in
  flash one after the other, and the server gives it only once; an image on trial has to be
  confirmed, and the one before it has to be there until then.
* **Changes instead of states.** A notification says what changed; the copy on the device is
  the sum of all of them, of some twice, and of some not at all.
* **A clock that is written and read without a lock**, and a deadline that three
  functions overwrite.

What makes each component correct: every block has one owner and comes back; the client
remembers exactly the observation and the socket that exist; one thread at a time changes
the connection; CONNECTED means an observation over an open socket; calls return and
attempts end; a batch is sent in order, once, with nothing leaked; the time is asked for
in time and read accurately; the device's attributes are those of one moment; what the
device installs is one whole image that the server named, and it can go back until that
image has connected; a token that was saved is used for ever.

## 2. Modules

| module | models | instances and proofs |
| --- | --- | --- |
| `ThingsboardClient` | life cycle, slab, observation, senders, callbacks of all kinds, provisioning exchange, kept or replaced socket | `MCThingsboardClient`, `ThingsboardClientProofs`, `ThingsboardClientLiveness` |
| `Connection` | what the client promises: phase, subscribed, link | implemented by `ThingsboardClient` |
| `RequestSlab` | how threads and callbacks share the blocks of `request_slab`: free, prepared, lent, ended | implemented by `ThingsboardClient` and by `TimeseriesSend` |
| `TimeseriesEncode` | the JSON and the Protobuf encoder of batches, as functions on entry sizes | used by `TimeseriesSend` |
| `TimeseriesSend` | one call of `thingsboard_send_timeseries` among other users of the slab | `MCTimeseriesSend` |
| `TimeSync` | `tb_time.c`: work item, response handler, reader, passing time | `MCTimeSync`, `TimeSyncProofs` |
| `Fota` | `tb_fota.c`: downloads, flash slot, reboot, trial and confirmation | `FotaProofs` |
| `SharedAttributes` | the server's attributes, notifications, and the merging of both formats | `SharedAttributesProofs` |
| `FirmwareUpdate` | both in one device; implements each | `MCFirmwareUpdate`, `FirmwareUpdateProofs` |
| `Provisioning` | the token between server, RAM and flash, with restarts | `MCProvisioning`, `ProvisioningProofs` |

`TimeseriesSendProofs` is about `TimeseriesSend` and the encoder under it.

`FirmwareUpdate` extends `Fota` and `SharedAttributes`: a step of it is a step of one, of the
other, or of both. The other modules share no variables. `ThingsboardClient` says when
blocks, downloads, notifications and time requests may exist at all; the others say what
happens within them and abstract the connection to what they need (`client` in `TimeSync`,
`connected` in `Fota`, `subscribed` in `SharedAttributes`, `state` in `Provisioning`, the
other owners of blocks in `TimeseriesSend`). That this last abstraction is fair is what
`RequestSlab` is for: `TimeseriesSend` lets the others do what that module allows, and
`ThingsboardClient`, which has all of them, implements it.

### RequestSlab

`place` and `user` say for each block where it is and who has it: the thread that prepares it,
or the purpose it is lent to the CoAP client for. A thread moves only free blocks and those it
prepared itself; a lent block is moved by the callback of its request, once; while a callback
runs that has ended its request but not yet given its block back (`"ended"`, the provisioning
answer and the end of the observation), no other callback does. `PlaceOf` and `UserOf` in
`ThingsboardClient` read both off `slab`, `ongoing` and `req`, in `TimeseriesSend` they are
the owner.

### ThingsboardClient

`pc[t]` is the point before the call a thread makes next; between two points the code
runs under the mutex or touches nothing another thread can see. A call refused at its head
changes nothing and is not an action. `thingsboard_connect` is one step up to
`start_client`, since it holds the mutex and the socket is known to nobody else;
`start_client` is three (token and firmware report, subscription, state), because after
provisioning it runs without the mutex. `thingsboard_set_state` is one step together with
the return from everything that called it. In `thingsboard_init` the state stays
DISCONNECTED between the assignment and `thingsboard_connect`, so that another call can get
in between (`"connect"`).

External: Zephyr's CoAP client. `ongoing[r]` is what it does with block `r`. It refuses
requests on a socket that is not open, may end any request with an answer, an error or a
timeout, runs one callback at a time, and `coap_client_cancel_request` returns only when no
callback of that request runs, having called it with `-ECANCELED`. It is in Zephyr that
callbacks run under the CoAP client's own lock. `coap_client_req` does not block in the
model. An observation that is answered without error stays with the CoAP client. What the
firmware update, the telemetry and the time put into their requests is not in this module;
the reports `thingsboard_fota_init`, `thingsboard_fota_confirm_update` and
`client_set_fw_state` send are `Messages(n)`, any number of them up to `n`, because each
may fail and none of the failures is looked at.

### TimeseriesSend, TimeseriesEncode

An entry is the number of bytes of its encoding (0: no field set; `Unencodable`: the
encoder fails for another reason than space). `requests[]`, `request_num`, `ts_sent` are the
C variables. Every block of the slab has an owner; other owners take and return blocks
between any two steps. The label `free_requests` with its `<=` is in the model as written;
`"fault"` is what follows when the last element is no block (NULL or behind the array).

### TimeSync

The steps are those between which another thread can run: the item is taken from the queue, the
request is sent, the deadline is set, the handler returns; the two assignments of the response
handler and its `k_work_reschedule`; the two reads of `thingsboard_time_msec`. Time passes in
ticks while no step is half done. An answer arrives within `MaxLatency` ticks or never, with a
stamp the server made between the request and now.

External: Zephyr's delayable work. `due` is the timer, `queue` whether the item waits in the work
queue. `k_work_reschedule` stops the timer before, but leaves a queued item in the queue;
`k_work_cancel_delayable` takes it out of both. Neither stops a handler that runs: cancelling then
sets a flag (`cancelling`), which refuses the item (`-EBUSY`) until the handler has returned. The
state the code tests with `thingsboard_is_active` is `client`; CONNECTING, in which it is true as
well, is part of `"off"`, so that a client that is off may send or not.

`asked`, `refused` and `overlap` are history variables: when the item last ran, that
`thingsboard_start_time_sync` was refused, and that an update was stored while the time was read.

### Fota

All of it runs in the CoAP thread, except `start_client` (`thingsboard_fota_init` and
`thingsboard_fota_confirm_update`). `offset` and `size` are the C variables, counted in blocks
of the transfer; the image is always asked for from its first block (`RequestImage`). `written` is the sequence of blocks the DFU target holds since it was reset or
opened. Resetting it may fail, which nobody looks at (`Reset`, `tb_fota.c:161`); `transfers` are the downloads that are going on, each at the block it gets next.
`boot` and `previous` are MCUboot's: whether the running image is confirmed, and which image
is in the other slot. Opening, writing or resetting the DFU target takes `previous` away. At a
reboot MCUboot exchanges the images if an update was scheduled and `written` is exactly one
image (`SwapImages`), returns to `previous` if the running image is not confirmed
(`RevertImage`), or keeps it.

The tests for a title or version that is too long (`tb_fota.c:288` to `:302`) cannot be met,
since the attributes' buffers have the same length (`CONFIG_THINGSBOARD_MAX_STRINGS_LENGTH`),
and are left out; what comes of it is in section 3.

`mixed`, `uncleared` and `misnamed` are history variables. `mixed`: the update began while a
transfer was running or on blocks of an older update. `uncleared`: the update has failed and the
DFU target was not reset. `misnamed`: the update began on attributes of which some could not be
stored. They name the cases that the promises of `FotaDownload` leave out; `FotaTwoDownloads`
shows one of them, section 3 lists the others.

### SharedAttributes

`sent` are the notifications on the way. An answer to a new observation carries all
attributes; from then on a notification carries what was set, and none of what was deleted:
neither format's decoder has a place for deletions, so that the device keeps the old value.
The CoAP client may give a notification to the handler twice, and the observation may end
with notifications on the way. `unstored` and `seen` are history variables: the fields whose
last value could not be stored, and the server's attributes when it sent what the device
handled last.

`thingsboard_attributes_update` is the generated function for JSON, which copies the fields in
their order and returns at the first string that does not fit, and the macros for Protobuf,
which cut it. The nanopb decoder that fails half way and then decodes the same bytes as another
message is `NotificationUndecodable`.

### FirmwareUpdate

`CheckFirmware` is the whole of a successful notification: merging and then
`thingsboard_fota_on_attributes` on the merged attributes, in one step, since the handler
holds the mutex and the blocks of images are handled by the same thread. While `fw_apply`
waits ten seconds for the reboot in that thread, no callback runs (`~applied`).

The assumption about the server is `FirmwareAssumption`: it sets and deletes title, version
and size together, as ThingsBoard does when an image is assigned to a device; the size is that
of the image.

### Provisioning

The steps are those between which the device may restart: the answer is copied into
`access_token`, `settings_save_one`, `prov_callback`, `start_client`. A restart may come with
erased flash. A failed save is logged and ignored, as in the code; a token that cannot be read
is as good as none, because `settings_load` does not report it. `lost` is a history variable:
the token at the server did not get into the settings.

## 3. Runs

Passing:

| run | instance | shows |
| --- | --- | --- |
| `Provisioned` | 2 application threads, 4 blocks, 2 sockets, provisioning, suspending keeps the socket, connect on init | types; one thread at a time changes the connection; one provisioning request; owners of blocks and the refinement of `RequestSlab`; the observation over every order of calls; the refinement of a `Connection` that may lose its link; what a thread waits for |
| `NewSocketLive` | static token, suspending closes the socket, 2 blocks, fair | `ThingsboardClient` implements `Connection`; no socket is lost; every call returns, every message ends, every attempt to connect ends |
| `TimeseriesBatches` | 3 blocks of 12 bytes, batches of 1 to 4 entries of 7 sizes, both encoders | blocks and the refinement of `RequestSlab`, order, packing, splitting of JSON batches |
| `TimeSyncInterleaved` | refresh 2, fallback 4, latency 1, 9 ticks | the next request stays planned, and is never further away than an answer or a fallback justifies; the time is accurate |
| `FotaDownload` | 3 assignments (a new version of 2 blocks, a version that is too long, another attribute), a deletion, 2 notifications on the way, one transfer, both formats | the attributes are of one moment, up to date, and name one image; what is installed is whole and named; nothing is left of a failed download; an image on trial can be returned from |
| `ProvisioningRestarts` | 3 tokens, 3 restarts, fair | the token is accounted for, saved before it is used, and enough to connect for ever |

Violated, each a finding in `PROJECT.json`:

| run | what happens |
| --- | --- |
| `DisconnectDeadlock` | `thingsboard_disconnect` and the notification handler wait for each other |
| `ProvisioningStuck` | a failed provisioning request leaves the client CONNECTING for ever |
| `TimeseriesFreesNull` | the error path frees NULL or an element behind the array |
| `TimeseriesProtobufUnsplit` | a Protobuf batch that is too large for one message is refused, though it is documented to be split |
| `TimeRefreshLate` | the fallback delay is milliseconds taken as seconds: after a lost request or answer the next one is late |
| `FotaTwoDownloads` | a reconnection or a failed block lets a second download start |

The models contain more behaviour that the code or its documents say nothing good of, and
about which no property is stated. It bounds what the properties above can promise:

* When `thingsboard_provision_device` fails, `start_client` returns without closing its socket
  (`thingsboard.c:728`; the other error path, line 753, closes it), so that every such attempt
  leaves one open. Therefore `SocketOwned` is stated for a static token, and with provisioning
  the client implements a `Connection` with the step `Abandon` (`MayLoseLink`).
* `k_work_reschedule` refuses a work item that was cancelled and still runs, and
  `thingsboard_start_time_sync` only logs it (`tb_time.c:125`): the client may be connected with
  no request planned. `AlwaysPlanned` and `AsksOften` leave this out (`refused`). It needs an
  application thread that overtakes the running item: Zephyr's system work queue is cooperative
  by default, so that on one processor this happens only where the item blocks (in
  `thingsboard_send_rpc_request`), and then the item itself plans the fallback after the refusal.
  With several processors, or a preemptible `CONFIG_SYSTEM_WORKQUEUE_PRIORITY`, the disconnection
  and the connection may come between the item's `k_work_reschedule` and its return.
* An update between the two reads of `thingsboard_time_msec` (`tb_time.c:120`) makes the time
  wrong by all that has passed since the update before, whatever the latency; `thingsboard.h:189`
  speaks of latency only. `AccurateAlone` leaves it out (`overlap`).
* An update whose start fails (`tb_fota.c:324`, `:331`, `:338`, `:340`) stays DOWNLOADING without
  a download, and every other one is refused as "already running" until the client connects anew.
* With `CONFIG_DFU_TARGET_STREAM_SAVE_PROGRESS` the offset of an update that a reboot has cut off
  is taken over (`tb_fota.c:334`), and without it that of one whose reset failed, but the image is
  asked for from its first block: it is appended to the older part, and taken for complete before
  its last block has come. `AppliesWholeImage` leaves it out (`mixed`). `FotaDownload` runs without
  saved progress; the theorems are about both settings.
* With Protobuf a version that was cut when it was stored names another image, which the device
  downloads and may install. `InstallsNamedImage` leaves it out (`misnamed`).
* `thingsboard_is_active` is true in CONNECTING, so that telemetry can be sent before the
  device has its token, on a path without one.
* A notification that comes while SUSPENDED is handled, and may start a download, although
  `README.md:380` says that the client stops all of its internal operations.
* `thingsboard_send_timeseries` can fail between two messages and leaves a batch partly
  sent; `SentInOrder` promises a prefix of it.
* A client whose observation has ended with a timeout or a reset stays CONNECTED and gets no
  attributes, until it connects again or resumes with a new socket (`SubscribesToConnect`).
* The JSON encoder returns zero entries when the first one is too large for a message, which
  is the assertion of `thingsboard.c:510` (`pc = "assertion"`); an entry without a field
  leaves a gap between two commas.
* A work item or a response handler that runs during `thingsboard_disconnect` plans the next
  request of a disconnected client.
* A size larger than the image's leaves the state DOWNLOADING when the last block has come. A
  size that is too small applies part of an image, which MCUboot refuses.
* "UPDATED" is reported also if confirming the image failed (`tb_fota.c:235`). An image is
  confirmed before the subscription shows that it can talk to the server.
* A device that falls back to the old image finds the same assignment at the server, and
  downloads the image it fell back from again.
* With JSON, an image whose version is too long leaves its title with the version before. That
  notification ends without a check, but the next one, about anything, starts a download of a
  title and version the server never named together (`misnamed` again).
* A value that was sent in a notification that could not be decoded, or was cut, stays missing or
  wrong until the server sends it again. `OneMoment` and `UpToDate` leave it out (`unstored`).
* Deleted attributes stay on the device: an image whose assignment was withdrawn is still
  downloaded at the next notification.
* A device whose token was lost (`lost`) can never connect, until somebody deletes it at the
  server: the server refuses to provision it twice. `ProvisioningStuck` shows the client side.
  The token is lost with the answer, in a restart before the save, or in a save that failed, after
  which the client connects with it all the same (`provision.c:102`), until the next boot.
* A token that is in flash but cannot be read is not missed: the device asks for another one, and
  overwrites it if the server has forgotten the device. `SavedTokenConnects` leaves the boot in
  which this happens out (`unread`).

### Bounds

The passing runs of `ThingsboardClient` have provisioning with a kept socket, and a static token
with a socket that suspending closes; the theorems are about all four combinations. Two
application threads are enough for every conflict of two calls, and with the work queue
and the CoAP thread four threads compete for the slab. Four blocks let the observation,
the firmware, a message of each sender and the exhausted slab occur; two sockets let the
old one leak while a new one is used. Blocks and application threads are interchangeable
(SYMMETRY, only in runs without liveness). The fair runs have two blocks, so that the slab
is exhausted by one observation and one message.

A payload of 12 bytes takes one, two or three entries of the sizes 2, 3, 5, 8; 8 just fits
into an empty one and 9 just does not; four entries need up to four messages, more than
there are blocks. The fallback is longer than interval and latency together, as it is in the default
configuration; nine ticks are three refresh intervals, or a fallback after each of two requests
that were lost. The image is downloaded in two blocks, so that the last one can fail, or one
before it; the theorems are about any number.

`FotaDownload` has one transfer: a second one only exists after the disagreement that
`FotaTwoDownloads` shows, and there `mixed` takes most promises back. The theorems hold for any
number of transfers. Two notifications are on the way at a time, repeated or not: a change that the
next one undoes, or one of another attribute behind it, or both lost with the observation. The
assignment with the version that is too long has a title under which an old image exists, so that
the mixture is downloadable. The assignments do not run out, so that images are named, installed, taken back and named again
in one behaviour. Sizes are blocks: the slot holds just the largest image.

Three tokens and three restarts let a device be provisioned, lose the token, be deleted at the
server and be provisioned again, and restart at every step between.

`CHECK_DEADLOCK FALSE` stands in the configurations of `ThingsboardClient`, which can stop:
in the lock cycle with every block lent (`DisconnectDeadlock`); in `ProvisioningRestarts`, where
a client stays CONNECTING after a refusal and the restarts are used up; and in `TimeseriesBatches`,
where the call may stop at the assertion of `thingsboard.c:510` with its blocks.

### Fairness

`FairSpec` of `Provisioning` assumes that the application calls `thingsboard_connect` whenever the
client is DISCONNECTED (weakly fair with the token in RAM; strongly fair from the settings, since
reading them may fail any finite number of times), that the subscription does not fail for ever
(strong, as it is tried again after each failure), that an exchange ends (a confirmable request
is answered or times out), and that the CoAP thread goes on in its callback. Nothing is assumed
of the server, which may never answer, refuse or delete the device.

`FairSpec` of `ThingsboardClient` assumes strong fairness of the steps of each thread inside
the library (a runnable Zephyr thread runs; a thread that waits for a `k_mutex` is queued and
gets it), of the end of messages and of the provisioning exchange (requests are confirmable:
they are answered or time out after the last retransmission). No fairness is assumed of calls
of the application, of notifications or of downloads. Calls that hold the mutex in the
application's own code (`"locked"`) are assumed to end. Even so, `EveryCallReturns` and
`EveryMessageEnds` hold only up to `LockCycle`, which names the one way to block for ever:
the run `DisconnectDeadlock`.

## 4. Proofs

`ThingsboardClientProofs`, for any number of threads, blocks and sockets and every
configuration:

* `TypeCorrect`: the type invariant is inductive by itself.
* `ControlInv` is the invariant about places. `SingleMutator` is not inductive: it needs
  that application threads in a call hold the mutex (`LockOwner`), that each call is made in
  the state its guard asked for (`StateOfPlace`), that the CoAP thread connects only in
  CONNECTING with a token (`CoapThreadConnects`), and that no one connects while a
  provisioning request is outstanding (`ProvisioningExclusive`). It yields `OneMutator` and
  `ProvisionsAlone`.
* `BlockInv` builds on it. Which thread has a block in hand follows from its place
  (`BlockInHand`), and where there is no observation too (`ObservationOfPlace`). It yields
  `BlocksAccounted`, `TracksObservation` and `NeverSubscribedTwice`; the last two are the
  assertions of `thingsboard.c:370` and `:382`.
* `SocketInv` says where the client has a socket and where it has none. It yields
  `ObservationIsConnected`, `SocketsOwned` (with a static token, `~UseProvisioning`) and
  `Refinement`: in every configuration each step of the client is a step of `Connection` or a
  stutter. With provisioning, the step in which `start_client` fails and leaves its socket open
  is `Abandon`, which `Connection` allows if `MayLoseLink`, that is `UseProvisioning`.
* `BlockUsers` brings the variables of the client and those of `RequestSlab` together: under
  `ControlInv` and `BlockInv` a block is free, in the hand of one thread, lent, or ended, and
  never two of these. `BlockMoves` says what becomes of one block, `ThreadMoves` and
  `CallbackMoves` when a step is one of `RequestSlab`. They yield `SlabIsShared`, in every
  configuration.
* `SubscribesToConnect` is about the hazard of a lost observation: nothing subscribes but a
  client that connects, or resumes with a new socket.

`ThingsboardClientLiveness` proves liveness, also for any number of threads, blocks and sockets.
The prover knows neither WF and SF nor ENABLED, so the fairness is spelled out:
`GuardedFairness` says of each fair step that it is taken again and again or its guard is false
from some time on. The guards are `MayContinue`, `MayNotify` and `MayEnd` of `ThingsboardClient`,
and the invariant `WaitsForNothingElse`, which TLC checks in `Provisioned`, says that they are
ENABLED. What the prover can say of that is proved too, for every instance: `GuardOfContinue` and
`GuardOfCallbacks` give, for each guard, a step (`WayOn`, `NotificationWayOn`, `RequestWayOn`)
that assigns a value to every variable and is a step of the action whenever the guard holds, and
show that no step of the action is made without the guard. The steps are those in which
everything fails that can: nothing waits for a block, a socket or an answer. The argument:

* `Ahead` counts the steps a thread has before it returns. Its own steps lower it
  (`ContinueIsNearer`, `NotificationIsNearer`), no step of anybody raises it
  (`NobodyGoesBack`).
* Who has the mutex waits for nothing but the callback of the observation it cancels
  (`HolderMayContinue`); so the mutex is free again and again, or the threads are in the lock
  cycle (`LockIsReleased`). Who waits for the mutex may go on when it is free
  (`WaiterMayGo`). Together: `CallsReturn`, and, as every callback returns, `MessagesEnd`.
* The thread that connects stays the one that connects until it is through, or until it has sent
  a provisioning request (`ConnectingStep`); the answer brings a token, with which it cannot
  ask again, or abandons the attempt. So attempts end, or are `Abandoned` (`AttemptsEnd`); with a
  static token they end (`ConnectingEnds`).
* The two exceptions last: `LockCycleForEver` and `AbandonedForEver` say that what
  `DisconnectDeadlock` and `ProvisioningStuck` show is no delay. They need no fairness.

`TimeSyncProofs`, for any interval, fallback, latency and offset. `RequestInv`: an outstanding
request is at most `MaxLatency` old and not younger than the last run of the item; so a refresh
that is planned by its answer is near (`DeadlineInv`: the deadline is within the longest gap of `asked`, or a queued
item, or a handler that has not yet set the fallback, is there in its place). They yield
`NeverStops` and `AsksOftenEnough`, in which no assumption relates the constants; that the gap is
the refresh interval is not true, as `TimeRefreshLate` shows. `ReadsAccurately` follows from
`ClockInv`: the stored pair belongs together except between the handler's two assignments.

`FotaProofs`, for any images, slot, sizes and number of transfers, with or without saved
progress. `FotaInv` says that in an update that has the slot for itself there is one transfer,
of the target, which is never behind `offset`; and if it is exactly at `offset`, the slot holds
the blocks before (`InOrder`). A block that failed or was refused leaves the transfer ahead of
the offset, where it stays, whether the DFU target was reset or not: no later block can make the
slot look whole. `TrialInv`: between a reboot into a new image and `start_client` nothing downloads. Theorems: `FotaTypeCorrect`,
`InstallsWholeImages`, `FailureCleansUp`, `FallbackKept`, `ConnectedImageIsKept`. That a download
ends is not among them: it is Zephyr's CoAP client that goes from block to block.

`SharedAttributesProofs`, for any schema, values, assignments and deletions. `Chain`: the
notifications on the way lead, one after the other, from the attributes the device has seen to
those the server has (`LeadsOn`). Repeating or refusing the first, adding one at the end and
starting anew with everything keep it. Theorems: `AttributesTypeCorrect`, `NeverMixed`,
`ObservedUpToDate`.

`FirmwareUpdateProofs`. `ImplementsFota` and `ImplementsAttributes`: every step of the composed
device is a step of each component or leaves it alone, so that what is proved of them holds
here (`UpdateIsSound`). `NamingInv`: firmware attributes come and go together, at the server, on the
way and, if they could be stored, on the device. `TargetInv`: then the target was named with its
right size, or the update can no longer be applied. They yield `NamesOneImage` and `InstallsNamed`.

`ProvisioningProofs`, for any number of tokens and restarts. `OneAttempt`: an answer, a step of
the callback and a token in the client exclude each other. `OneToken`: a token on its way to flash is the
server's present one. They yield `TokenIsAccountedFor` and `TokenSavedBeforeUse`.
`AsksWithoutToken`: the server is asked only while flash has no token or cannot be read, and an
attempt that was abandoned had asked. A device with a token therefore goes from flash over RAM to
`start_client`, and then between subscribing and trying again (`TokenWay`), until it connects:
`SavedTokenLeads`, from the four fair steps on this way (`GuardsOfConnecting` proves of their
guards what `GuardOfContinue` does) and from the premise that restarts end. In the model `MaxRestarts` implies it;
the induction over that bound is one over temporal formulas and not in the prover's reach.

`TimeseriesSendProofs`, for any slab, payload and batch. `JsonMessageFits` is about the encoder alone:
for every list of entry sizes and every buffer, the message is shorter than the buffer and takes no
more entries than there are. The loop is a function on the natural numbers; that it exists and keeps
its invariant (`LoopInv`) is proved by induction, from the well-foundedness of `<`, since the
library's induction rules take an operator as a parameter. `SendInv` says of each place of the
call which blocks it owns (`BlocksInv`) and that the prepared messages carry, in a row, the
entries after those submitted (`EntriesInv`). Theorems: `SendTypeCorrect`, `BlocksAccountedFor`,
`EntriesInOrder`. The same induction, with the sum of the sizes of the first entries (`LengthInv`),
shows that a JSON message is as long as its entries and takes as many as it can
(`JsonMessageSound`); `PreparedInv` (each prepared message carries what the encoder takes from its
first entry on) brings this to the call, `MessagesAreSound`. `InvalidEntry` (the loop ends with
EINVAL only at an entry without value) yields `LargeBatchesAreSplit`. `CallEnds`: every step of
the call lowers `Ahead` (entries left and messages to send) and nobody else changes it, so that no
loop of the call goes on for ever. `CallSharesSlab` is the refinement of `RequestSlab`; it needs
`FreedInv`: behind the prepared messages the array holds no block, and at the label
`free_requests` each of its blocks is still the call's, so that none is freed that the CoAP
client or another thread has. (`BlocksOfCall` alone allows that: it speaks of the call's own
blocks only.)

The assumptions are those of the CONSTANTS: threads are distinct, NULL is none of the values,
options are Booleans, durations and sizes are natural numbers, and `FirmwareAssumption` above.
The invariants were checked with TLC first on the instances of the runs.

Only model-checked: `WaitsForNothingElse`, since ENABLED is beyond the prover, and so that
`FairSpec` itself, with its WF and SF, implies what `GuardedSpec` does. Of the equivalences of
`WaitsForNothingElse` the theorems above leave out one thing only: that a step that assigns a value
to every variable is ENABLED.

## 5. Not modelled

* `socket_dtls.c`: another implementation of `thingsboard_socket_connect` with the same
  outcomes; DTLS itself is the network stack's.
* The contents of messages: paths, field encodings, generated JSON descriptors, parsing of
  numbers. `timestamp_from_buf` on a payload without terminating zero (`tb_time.c:67`) is
  undefined memory contents.
* A notification of several blocks: the handler decodes each block as a message of its own, which
  no part of one is (`NotificationUndecodable`).
* `last_request` in `tb_time.c`, which is written and never read.
* Samples, the compile test, build files, the server's rule chain.

## 6. Plan

Done in this order: `Connection`, `ThingsboardClient` with its runs, `TimeseriesEncode` and
`TimeseriesSend`, `TimeSync`, `Fota`, the proofs about the client and the time; then
`SharedAttributes`, `Fota` with confirmation and return, their composition `FirmwareUpdate`,
`Provisioning`, and the proofs about all of these and about `TimeseriesSend`;
then the refinement of `Connection` with provisioning and the proofs of liveness; then
`RequestSlab` with its two refinements and the guards of the fairness; then the work queue in
`TimeSync` and a DFU target that cannot be reset in `Fota`.

To come:

1. `FirmwareUpdate` with the phases of `Connection` in the place of `connected` and `subscribed`.
2. `timestamp_from_buf` in 64 bits, with a payload that may not end in a zero byte.
