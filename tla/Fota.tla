--------------------------------- MODULE Fota ---------------------------------
(***************************************************************************)
(* Firmware update over the air (tb_fota.c).  The server names an image in *)
(* the shared attributes; the device asks for it once, gets it block by    *)
(* block in callbacks of the CoAP thread, writes the blocks through the    *)
(* DFU target into flash and reboots.  The bootloader runs a new image on  *)
(* trial: if it is not confirmed before the next reboot, the image before  *)
(* it comes back.  All of it runs in the CoAP thread, one callback at a    *)
(* time, except what start_client does at every connection.  A download    *)
(* may outlive the state it belongs to: the CoAP client goes on fetching   *)
(* blocks until one of them fails or is last.                              *)
(*                                                                         *)
(* The DFU target and MCUboot are external: what is written since the      *)
(* target was last reset or opened, whether the bootloader finds a         *)
(* complete image in it, and which image it can return to.                 *)
(*                                                                         *)
(* mixed and uncleared are history variables: no guard looks at them.      *)
(***************************************************************************)
EXTENDS Naturals, Sequences, FiniteSets

CONSTANTS
    Image,         \* firmware images, by title and version
    Installed,     \* the image on the device when it leaves the factory
    ImageLen,      \* the blocks of an image, 0 if the server has none
    SlotLen,       \* the blocks that fit into the flash slot
    Transfer,      \* the requests that downloads may use at the same time
    NULL,          \* no image, no transfer
    SaveProgress   \* CONFIG_DFU_TARGET_STREAM_SAVE_PROGRESS

ASSUME FotaAssumption ==
    /\ Installed \in Image
    /\ ImageLen \in [Image -> Nat]
    /\ SlotLen \in Nat
    /\ NULL \notin Image
    /\ SaveProgress \in BOOLEAN

VARIABLES
    current,       \* the firmware that runs: current_firmware
    boot,          \* whether it is confirmed, on trial, or could not be confirmed
    previous,      \* the image the bootloader can return to
    connected,     \* start_client has run since the device booted
    state,         \* tb_fota_ctx.state
    target,        \* tb_fota_ctx.title and .version
    offset,        \* tb_fota_ctx.offset, in blocks
    size,          \* tb_fota_ctx.size, in blocks
    written,       \* what the DFU target holds: a sequence of blocks
    transfers,     \* the downloads in progress: image and next block
    applied,       \* the image is complete: the device is about to reboot
    mixed,         \* an update began while a download ran, or on an older one
    uncleared      \* a download failed and the DFU target was not reset

vars == <<current, boot, previous, connected, state, target, offset, size,
          written, transfers, applied, mixed, uncleared>>

device == <<current, boot, connected>>
update == <<target, offset, size>>

FwState == {"DOWNLOADING", "DOWNLOADED", "UPDATING", "FAILED", "IDLE"}

Boot == {"confirmed", "trial", "unconfirmed"}

Block == [image : Image, number : Nat \ {0}]

NoTransfer == [image |-> NULL, number |-> 1]

Running == {k \in Transfer : transfers[k] # NoTransfer}

\* A running download asks for a block of its image, or for the first one.
TypeOK ==
    /\ current \in Image
    /\ boot \in Boot
    /\ previous \in Image \cup {NULL}
    /\ connected \in BOOLEAN
    /\ state \in FwState
    /\ target \in Image \cup {NULL}
    /\ offset \in Nat
    /\ size \in Nat
    /\ written \in Seq(Block)
    /\ transfers \in [Transfer -> Block \cup {NoTransfer}]
    /\ \A k \in Running :
           transfers[k].number \in {1} \cup 1 .. ImageLen[transfers[k].image]
    /\ applied \in BOOLEAN
    /\ mixed \in BOOLEAN
    /\ uncleared \in BOOLEAN

\* Static storage: TB_FW_DOWNLOADING is the first of the enumeration.
Init ==
    /\ current = Installed
    /\ boot = "confirmed"
    /\ previous = NULL
    /\ connected = FALSE
    /\ state = "DOWNLOADING"
    /\ target = NULL
    /\ offset = 0
    /\ size = 0
    /\ written = <<>>
    /\ transfers = [k \in Transfer |-> NoTransfer]
    /\ applied = FALSE
    /\ mixed = FALSE
    /\ uncleared = FALSE

-----------------------------------------------------------------------------
(* Connecting *)

thingsboard_fota_init ==
    /\ connected' = TRUE
    /\ state' = "IDLE"

\* An image on trial is confirmed, which may fail: that is logged, no more.
\* Mutated, an image that was just installed is not confirmed.
MutantConfirm == UNCHANGED boot
thingsboard_fota_confirm_update ==
    IF boot = "confirmed" THEN UNCHANGED boot
                          ELSE boot' \in {"confirmed", "unconfirmed"}

\* From start_client, before the attributes are subscribed to.
start_client ==
    /\ thingsboard_fota_init
    /\ thingsboard_fota_confirm_update
    /\ uncleared' = FALSE
    /\ UNCHANGED <<current, previous, update, written, transfers, applied,
                   mixed>>

-----------------------------------------------------------------------------
(* Starting an update *)

\* dfu_target_mcuboot_init: what an earlier download left is kept if
\* progress is saved.
OpenTarget == IF SaveProgress THEN written ELSE <<>>

\* client_fw_request_image: the image is asked for from its first block.
\* Mutated, from the offset of the update before.
MutantRequestImage(image) ==
    \E k \in Transfer \ Running :
        transfers' = [transfers EXCEPT ![k] =
                         [image |-> image, number |-> offset + 1]]
RequestImage(image) ==
    \E k \in Transfer \ Running :
        transfers' = [transfers EXCEPT ![k] = [image |-> image, number |-> 1]]

\* The target is opened, which takes the slot away from the image before,
\* its offset taken over and the image requested; each of the three may
\* fail, and then the rest is not done.
OpenAndRequest(image) ==
    \/ /\ written' = OpenTarget
       /\ previous' = NULL
       /\ \/ offset' = Len(OpenTarget) /\ RequestImage(image)
          \/ offset' = Len(OpenTarget) /\ UNCHANGED transfers
          \/ UNCHANGED <<offset, transfers>>
    \/ UNCHANGED <<written, previous, offset, transfers>>

\* "Firmware update is already running" otherwise.
Startable == {"IDLE", "FAILED"}

Wanted(image) == image # current

thingsboard_start_fw_update(image, fw_size) ==
    /\ target' = image
    /\ size' = fw_size
    /\ state' = "DOWNLOADING"
    /\ mixed' = (mixed \/ Running # {} \/ OpenTarget # <<>>)
    /\ uncleared' = FALSE
    /\ OpenAndRequest(image)

Starts(image, fw_size) ==
    Wanted(image) /\ state \in Startable /\ fw_size # 0

\* The check that ends every successful attribute notification, with the
\* title, version and size as they are then.
thingsboard_fota_on_attributes(image, fw_size) ==
    IF Starts(image, fw_size)
    THEN /\ thingsboard_start_fw_update(image, fw_size)
         /\ UNCHANGED <<device, applied>>
    ELSE UNCHANGED vars

-----------------------------------------------------------------------------
(* client_handle_fw_chunk *)

\* The CoAP client fetches the next block, whatever became of this one,
\* unless this was the last.
Following(block) ==
    IF block.number = ImageLen[block.image]
    THEN NoTransfer
    ELSE [image |-> block.image, number |-> block.number + 1]

Advance(k) == transfers' = [transfers EXCEPT ![k] = Following(@)]

\* dfu_target_mcuboot_reset erases the slot, or fails, which is not looked at.
\* Mutated, it is not called.
MutantReset == UNCHANGED <<written, previous, uncleared>>
Reset ==
    \/ written' = <<>> /\ previous' = NULL /\ uncleared' = FALSE
    \/ UNCHANGED <<written, previous>> /\ uncleared' = TRUE

\* A block arrives: the server has the image, and fw_apply is not waiting.
Arrives(k) ==
    /\ k \in Running
    /\ ~applied
    /\ transfers[k].number <= ImageLen[transfers[k].image]

\* An error, a timeout, or an unexpected code: the transfer is over.
ChunkMissing(k) ==
    /\ k \in Running
    /\ ~applied
    /\ state' = "FAILED"
    /\ Reset
    /\ transfers' = [transfers EXCEPT ![k] = NoTransfer]
    /\ UNCHANGED <<device, update, applied, mixed>>

\* The first block written is not the head of an image.
NotAnImage(k) == offset = 0 /\ transfers[k].number # 1

ChunkRejected(k) ==
    /\ Arrives(k)
    /\ NotAnImage(k)
    /\ size' = 0
    /\ state' = "FAILED"
    /\ Reset
    /\ Advance(k)
    /\ UNCHANGED <<device, target, offset, applied, mixed>>

\* dfu_target_mcuboot_write fails, or the payload is empty.
ChunkNotWritten(k) ==
    /\ Arrives(k)
    /\ state' = "FAILED"
    /\ Reset
    /\ Advance(k)
    /\ UNCHANGED <<device, update, applied, mixed>>

\* fw_chunk_process's last question.
MutantComplete == offset + 2 >= size
Complete == offset + 1 >= size

\* fw_apply: dfu_target_mcuboot_done(true) may fail, and nothing else is
\* done about it; otherwise the update is scheduled.
fw_apply ==
    \/ state' = "UPDATING" /\ applied' = TRUE
    \/ state' = "DOWNLOADED" /\ UNCHANGED applied

ChunkWritten(k) ==
    /\ Arrives(k)
    /\ ~NotAnImage(k)
    /\ Len(written) < SlotLen
    /\ written' = Append(written, transfers[k])
    /\ previous' = NULL
    /\ offset' = offset + 1
    /\ IF Complete THEN fw_apply
                   ELSE state' = "DOWNLOADING" /\ UNCHANGED applied
    /\ Advance(k)
    /\ uncleared' = FALSE
    /\ UNCHANGED <<device, target, size, mixed>>

-----------------------------------------------------------------------------
(* Rebooting *)

Whole(im) == [n \in 1 .. ImageLen[im] |-> [image |-> im, number |-> n]]

\* The complete image im, and nothing else, is in the flash slot.
Intact(im) == ImageLen[im] # 0 /\ written = Whole(im)

\* The update is scheduled and the image whole: the bootloader exchanges the
\* two images and runs the new one on trial.
SwapImages(im) ==
    /\ applied
    /\ Intact(im)
    /\ current' = im
    /\ boot' = "trial"
    /\ previous' = current
    /\ written' = <<>>

\* What runs is not confirmed: the image before it comes back.
RevertImage ==
    /\ boot # "confirmed"
    /\ previous # NULL
    /\ current' = previous
    /\ boot' = "confirmed"
    /\ previous' = NULL
    /\ written' = <<>>

KeepImage ==
    /\ boot = "confirmed" \/ previous = NULL
    /\ written' = IF SaveProgress /\ ~applied THEN written ELSE <<>>
    /\ UNCHANGED <<current, boot, previous>>

\* After fw_apply, whose scheduling may fail unnoticed, or at any other time:
\* RAM is lost.
Reboot ==
    /\ (\E im \in Image : SwapImages(im)) \/ RevertImage \/ KeepImage
    /\ connected' = FALSE
    /\ state' = "DOWNLOADING"
    /\ target' = NULL
    /\ offset' = 0
    /\ size' = 0
    /\ transfers' = [k \in Transfer |-> NoTransfer]
    /\ applied' = FALSE
    /\ mixed' = FALSE
    /\ uncleared' = FALSE

\* A block of a download, or what comes instead of it.
Chunk(k) ==
    \/ ChunkMissing(k)
    \/ ChunkRejected(k)
    \/ ChunkNotWritten(k)
    \/ ChunkWritten(k)

\* On its own, the component is asked for any image with any size.
Next ==
    \/ start_client
    \/ /\ connected /\ ~applied
       /\ \E image \in Image, fw_size \in Nat :
              thingsboard_fota_on_attributes(image, fw_size)
    \/ \E k \in Transfer : Chunk(k)
    \/ Reboot

Spec == Init /\ [][Next]_vars

-----------------------------------------------------------------------------
(* Properties *)

\* What the device is about to install is the complete image it asked for,
\* if it was told its right size and the update had the slot for itself:
\* neither failures, nor downloads that go on after a failure, nor
\* reconnections put a wrong block in or leave one out.
AppliesWholeImage ==
    applied /\ ~mixed /\ size = ImageLen[target] => Intact(target)

\* Whatever made a download fail, nothing of it is left in the flash slot
\* while the device reports FAILED, unless the DFU target could not be reset
\* (client_handle_fw_chunk resets it on each of its error paths).
FailedLeavesNothing == state = "FAILED" /\ ~uncleared => written = <<>>

\* As long as an image is on trial, the one before it is in the flash slot:
\* no download takes the slot before start_client has confirmed the image,
\* or has tried to.
TrialHasFallback == boot = "trial" => previous # NULL

\* Once an image has connected to the server it stays, until the next one
\* is installed; only a device that could not confirm it may fall back.
ConnectedImageStays ==
    [][connected /\ ~applied /\ boot # "unconfirmed"
       => current' = current]_vars

\* "Firmware update is already running" (tb_fota.c:273): the check keeps a
\* second download from starting while one is running.
OneDownload == Cardinality(Running) <= 1
=============================================================================
