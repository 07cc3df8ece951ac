------------------------------ MODULE FotaProofs ------------------------------
(***************************************************************************)
(* Proofs about Fota, for any images, slot and number of requests at the   *)
(* same time: what is installed is whole, a failed download leaves         *)
(* nothing, and an image on trial can always be returned from.             *)
(***************************************************************************)
EXTENDS Fota, TLAPS

\* A new image is on trial only until start_client has run, and no download
\* runs before.
TrialInv ==
    boot = "trial" => previous # NULL /\ ~connected /\ Running = {}

\* The next block of k is at or beyond the device's offset, and if it is the
\* one at the offset, the slot holds exactly the blocks before it.  A block
\* that failed leaves k beyond the offset, where it stays.
InOrder(k) ==
    /\ transfers[k].image = target
    /\ transfers[k].number > offset
    /\ transfers[k].number = offset + 1 =>
           /\ Len(written) = offset
           /\ \A n \in 1 .. offset :
                  written[n] = [image |-> target, number |-> n]

\* An update that has the slot for itself is made of one transfer.
SlotInv ==
    ~mixed => /\ \A k, l \in Running : k = l
              /\ \A k \in Running : InOrder(k)

FotaInv ==
    /\ TypeOK
    /\ FailedLeavesNothing
    /\ TrialInv
    /\ SlotInv
    /\ AppliesWholeImage

-----------------------------------------------------------------------------
(* The transfers *)

\* What a step does to the transfers: k alone goes on to its next block or,
\* if that was the last, ends.
LEMMA AdvanceMoves ==
  ASSUME TypeOK, NEW k \in Running, Advance(k),
         transfers[k].number <= ImageLen[transfers[k].image]
  PROVE  /\ transfers' \in [Transfer -> Block \cup {NoTransfer}]
         /\ Running' \subseteq Running
         /\ transfers[k] \in Block
         /\ \A l \in Running' : l # k => transfers'[l] = transfers[l]
         /\ k \in Running' =>
                /\ transfers'[k] = [image |-> transfers[k].image,
                                    number |-> transfers[k].number + 1]
                /\ transfers[k].number < ImageLen[transfers[k].image]
<1>1. k \in Transfer /\ transfers[k] \in Block
  BY DEF TypeOK, Running
<1>2. /\ transfers[k].image \in Image
      /\ transfers[k].number \in Nat \ {0}
      /\ ImageLen[transfers[k].image] \in Nat
  BY <1>1, FotaAssumption DEF Block
<1>3. /\ transfers' \in [Transfer -> Block \cup {NoTransfer}]
      /\ \A l \in Transfer : l # k => transfers'[l] = transfers[l]
      /\ \/ transfers'[k] = NoTransfer
         \/ /\ transfers'[k] = [image |-> transfers[k].image,
                                number |-> transfers[k].number + 1]
            /\ transfers[k].number # ImageLen[transfers[k].image]
  BY <1>1, <1>2 DEF TypeOK, Advance, Following, Block
<1>. QED BY <1>1, <1>2, <1>3 DEF Running

\* Only the transfer k ends.
LEMMA OtherTransfersStay ==
  ASSUME TypeOK, NEW k \in Running,
         transfers' = [transfers EXCEPT ![k] = NoTransfer]
  PROVE  /\ transfers' \in [Transfer -> Block \cup {NoTransfer}]
         /\ Running' \subseteq Running \ {k}
         /\ \A l \in Running' : transfers'[l] = transfers[l]
BY DEF TypeOK, Running

\* A new transfer asks for the first block of its image.
LEMMA RequestStarts ==
  ASSUME TypeOK, NEW image \in Image, RequestImage(image)
  PROVE  /\ transfers' \in [Transfer -> Block \cup {NoTransfer}]
         /\ \E k \in Transfer \ Running :
                /\ Running' \subseteq Running \cup {k}
                /\ transfers'[k] = [image |-> image, number |-> 1]
                /\ \A l \in Running : transfers'[l] = transfers[l]
<1>1. PICK k \in Transfer \ Running :
          transfers' = [transfers EXCEPT ![k] = [image |-> image, number |-> 1]]
  BY DEF RequestImage
<1>2. [image |-> image, number |-> 1] \in Block
  BY DEF Block
<1>. QED BY <1>1, <1>2 DEF TypeOK, Running

\* After a reboot nothing runs.
LEMMA RebootStops ==
  ASSUME transfers' = [k \in Transfer |-> NoTransfer]
  PROVE  /\ transfers' \in [Transfer -> Block \cup {NoTransfer}]
         /\ Running' = {}
BY DEF Running

-----------------------------------------------------------------------------
(* One lemma per operation *)

LEMMA StartClientKeeps == FotaInv /\ start_client => FotaInv'
<1> SUFFICES ASSUME FotaInv, start_client PROVE FotaInv'
  OBVIOUS
<1>1. /\ state' = "IDLE" /\ connected' = TRUE /\ boot' \in Boot \ {"trial"}
      /\ UNCHANGED <<current, previous, target, offset, size, written,
                     transfers, mixed, applied>>
      /\ uncleared' = FALSE
  BY DEF start_client, thingsboard_fota_init, thingsboard_fota_confirm_update,
         update, FotaInv, TypeOK, Boot
<1>2. Running' = Running
  BY <1>1 DEF Running
<1>3. TypeOK'
  BY <1>1, <1>2 DEF FotaInv, TypeOK, FwState
<1>4. FailedLeavesNothing' /\ TrialInv'
  BY <1>1, <1>2 DEF FotaInv, FailedLeavesNothing, TrialInv
<1>5. SlotInv'
  BY <1>1, <1>2 DEF FotaInv, SlotInv, InOrder
<1>6. AppliesWholeImage'
  BY <1>1 DEF FotaInv, AppliesWholeImage, Intact, Whole
<1>. QED BY <1>3, <1>4, <1>5, <1>6 DEF FotaInv

LEMMA StutterKeeps == FotaInv /\ UNCHANGED vars => FotaInv'
<1> SUFFICES ASSUME FotaInv, UNCHANGED vars PROVE FotaInv'
  OBVIOUS
<1>1. Running' = Running
  BY DEF vars, Running
<1>. QED BY <1>1 DEF vars, FotaInv, TypeOK, FailedLeavesNothing, TrialInv,
       SlotInv, InOrder, AppliesWholeImage,
       Intact, Whole

LEMMA UpdateKeeps ==
  ASSUME FotaInv, connected, ~applied, NEW image \in Image,
         NEW fw_size \in Nat, thingsboard_fota_on_attributes(image, fw_size)
  PROVE  FotaInv'
<1>1. CASE UNCHANGED vars
  BY <1>1, StutterKeeps
<1>2. CASE Starts(image, fw_size)
  <2>1. /\ image # current
        /\ target' = image /\ size' = fw_size /\ state' = "DOWNLOADING"
        /\ mixed' = (mixed \/ Running # {} \/ OpenTarget # <<>>)
        /\ uncleared' = FALSE
        /\ OpenAndRequest(image)
        /\ UNCHANGED <<current, boot, connected, applied>>
    BY <1>2 DEF thingsboard_fota_on_attributes, thingsboard_start_fw_update,
                Starts, Wanted, device
  <2>2. OpenTarget \in Seq(Block) /\ Len(OpenTarget) \in Nat
    BY DEF FotaInv, TypeOK, OpenTarget
  <2>3. /\ written' \in Seq(Block) /\ offset' \in Nat
        /\ previous' \in Image \cup {NULL}
        /\ \/ RequestImage(image) /\ offset' = Len(OpenTarget)
              /\ written' = OpenTarget
           \/ UNCHANGED transfers
    BY <2>1, <2>2 DEF OpenAndRequest, FotaInv, TypeOK
  <2>4. CASE UNCHANGED transfers
    <3>1. Running' = Running
      BY <2>4 DEF Running
    <3>2. TypeOK'
      BY <2>1, <2>3, <2>4, <3>1 DEF FotaInv, TypeOK, FwState
    <3>3. FailedLeavesNothing' /\ TrialInv'
      BY <2>1, <2>4, <3>1
         DEF FotaInv, TypeOK, FailedLeavesNothing, TrialInv
    <3>4. SlotInv'
      BY <2>1, <3>1 DEF SlotInv
    <3>5. AppliesWholeImage'
      BY <2>1 DEF AppliesWholeImage
    <3>. QED BY <3>2, <3>3, <3>4, <3>5 DEF FotaInv
  <2>5. CASE RequestImage(image) /\ offset' = Len(OpenTarget)
             /\ written' = OpenTarget
    <3>1. PICK k \in Transfer \ Running :
              /\ Running' \subseteq Running \cup {k}
              /\ transfers'[k] = [image |-> image, number |-> 1]
              /\ \A l \in Running : transfers'[l] = transfers[l]
      BY <2>5, RequestStarts DEF FotaInv
    <3>2. transfers' \in [Transfer -> Block \cup {NoTransfer}]
      BY <2>5, RequestStarts DEF FotaInv
    <3>3. TypeOK'
      <4>1. \A l \in Running' :
                transfers'[l].number
                    \in {1} \cup 1 .. ImageLen[transfers'[l].image]
        BY <3>1 DEF FotaInv, TypeOK
      <4>. QED BY <2>1, <2>3, <3>2, <4>1 DEF FotaInv, TypeOK, FwState
    <3>4. FailedLeavesNothing' /\ TrialInv'
      BY <2>1 DEF FotaInv, TypeOK, FailedLeavesNothing, TrialInv
    <3>5. SlotInv'
      <4> SUFFICES ASSUME ~mixed' PROVE /\ \A l, m \in Running' : l = m
                                        /\ \A l \in Running' : InOrder(l)'
        BY DEF SlotInv
      <4>1. Running = {} /\ OpenTarget = <<>>
        BY <2>1
      <4>2. Running' \subseteq {k}
        BY <4>1, <3>1
      <4>3. offset' = 0 /\ written' = <<>>
        BY <4>1, <2>5
      <4>4. InOrder(k)'
        BY <4>3, <3>1, <2>1 DEF InOrder
      <4>. QED BY <4>2, <4>4
    <3>6. AppliesWholeImage'
      BY <2>1 DEF AppliesWholeImage
    <3>. QED BY <3>3, <3>4, <3>5, <3>6 DEF FotaInv
  <2>. QED BY <2>3, <2>4, <2>5
<1>. QED BY <1>1, <1>2 DEF thingsboard_fota_on_attributes

LEMMA ChunkMissingKeeps ==
  ASSUME FotaInv, NEW k \in Transfer, ChunkMissing(k)
  PROVE  FotaInv'
<1>1. /\ k \in Running /\ ~applied /\ state' = "FAILED"
      /\ written' \in {<<>>, written} /\ previous' \in {NULL, previous}
      /\ uncleared' \in BOOLEAN /\ (~uncleared' => written' = <<>>)
      /\ transfers' = [transfers EXCEPT ![k] = NoTransfer]
      /\ UNCHANGED <<current, boot, connected, target, offset, size, mixed,
                     applied>>
  BY DEF ChunkMissing, Reset, device, update
<1>2. /\ transfers' \in [Transfer -> Block \cup {NoTransfer}]
      /\ Running' \subseteq Running \ {k}
      /\ \A l \in Running' : transfers'[l] = transfers[l]
  BY <1>1, OtherTransfersStay DEF FotaInv
<1>3. TypeOK'
  <2>1. \A l \in Running' : transfers'[l].number
                                \in {1} \cup 1 .. ImageLen[transfers'[l].image]
    BY <1>2 DEF FotaInv, TypeOK
  <2>2. <<>> \in Seq(Block)
    OBVIOUS
  <2>. QED BY <1>1, <1>2, <2>1, <2>2 DEF FotaInv, TypeOK, FwState
<1>4. FailedLeavesNothing' /\ TrialInv'
  BY <1>1 DEF FotaInv, FailedLeavesNothing, TrialInv
<1>5. SlotInv'
  BY <1>1, <1>2 DEF FotaInv, SlotInv, InOrder
<1>6. AppliesWholeImage'
  BY <1>1 DEF AppliesWholeImage
<1>. QED BY <1>3, <1>4, <1>5, <1>6 DEF FotaInv

LEMMA ChunkRefusedKeeps ==
  ASSUME FotaInv, NEW k \in Transfer, ChunkRejected(k) \/ ChunkNotWritten(k)
  PROVE  FotaInv'
<1>1. /\ k \in Running /\ ~applied /\ state' = "FAILED"
      /\ written' \in {<<>>, written} /\ previous' \in {NULL, previous}
      /\ uncleared' \in BOOLEAN /\ (~uncleared' => written' = <<>>)
      /\ Advance(k) /\ transfers[k].number <= ImageLen[transfers[k].image]
      /\ size' \in {0, size}
      /\ UNCHANGED <<current, boot, connected, target, offset, mixed,
                     applied>>
  BY DEF ChunkRejected, ChunkNotWritten, Arrives, Reset, device, update
<1>2. /\ transfers' \in [Transfer -> Block \cup {NoTransfer}]
      /\ Running' \subseteq Running
      /\ transfers[k] \in Block
      /\ \A l \in Running' : l # k => transfers'[l] = transfers[l]
      /\ k \in Running' =>
             /\ transfers'[k] = [image |-> transfers[k].image,
                                 number |-> transfers[k].number + 1]
             /\ transfers[k].number < ImageLen[transfers[k].image]
  BY <1>1, AdvanceMoves DEF FotaInv
<1>3. /\ transfers[k].image \in Image
      /\ transfers[k].number \in Nat \ {0}
      /\ ImageLen[transfers[k].image] \in Nat
      /\ offset \in Nat /\ size' \in Nat
  BY <1>1, <1>2, FotaAssumption DEF Block, FotaInv, TypeOK
<1>4. TypeOK'
  <2>1. \A l \in Running' : transfers'[l].number
                                \in {1} \cup 1 .. ImageLen[transfers'[l].image]
    BY <1>2, <1>3 DEF FotaInv, TypeOK
  <2>2. <<>> \in Seq(Block)
    OBVIOUS
  <2>. QED BY <1>1, <1>2, <1>3, <2>1, <2>2 DEF FotaInv, TypeOK, FwState
<1>5. FailedLeavesNothing' /\ TrialInv'
  BY <1>1 DEF FotaInv, FailedLeavesNothing, TrialInv
<1>6. SlotInv'
  <2> SUFFICES ASSUME ~mixed' PROVE /\ \A l, m \in Running' : l = m
                                    /\ \A l \in Running' : InOrder(l)'
    BY DEF SlotInv
  <2>1. /\ \A l, m \in Running : l = m
        /\ InOrder(k)
    BY <1>1 DEF FotaInv, SlotInv
  <2>2. Running' \subseteq {k}
    BY <1>1, <1>2, <2>1
  <2>3. k \in Running' => InOrder(k)'
    BY <1>1, <1>2, <1>3, <2>1 DEF InOrder
  <2>. QED BY <2>2, <2>3
<1>7. AppliesWholeImage'
  BY <1>1 DEF AppliesWholeImage
<1>. QED BY <1>4, <1>5, <1>6, <1>7 DEF FotaInv

\* Only the block at the offset of an update that has the slot for itself
\* can complete it: a transfer beyond it ends before the offset gets there.
LEMMA ChunkWrittenKeeps ==
  ASSUME FotaInv, NEW k \in Transfer, ChunkWritten(k)
  PROVE  FotaInv'
<1>1. /\ k \in Running /\ ~applied
      /\ state' \in {"DOWNLOADING", "DOWNLOADED", "UPDATING"}
      /\ applied' \in BOOLEAN
      /\ applied' => offset + 1 >= size
      /\ written' = Append(written, transfers[k]) /\ previous' = NULL
      /\ offset' = offset + 1 /\ uncleared' = FALSE
      /\ Advance(k) /\ transfers[k].number <= ImageLen[transfers[k].image]
      /\ UNCHANGED <<current, boot, connected, target, size, mixed>>
  BY DEF ChunkWritten, Arrives, device, Complete, fw_apply, FotaInv, TypeOK
<1>2. /\ transfers' \in [Transfer -> Block \cup {NoTransfer}]
      /\ Running' \subseteq Running
      /\ transfers[k] \in Block
      /\ \A l \in Running' : l # k => transfers'[l] = transfers[l]
      /\ k \in Running' =>
             /\ transfers'[k] = [image |-> transfers[k].image,
                                 number |-> transfers[k].number + 1]
             /\ transfers[k].number < ImageLen[transfers[k].image]
  BY <1>1, AdvanceMoves DEF FotaInv
<1>3. /\ transfers[k].image \in Image
      /\ transfers[k].number \in Nat \ {0}
      /\ ImageLen[transfers[k].image] \in Nat
      /\ offset \in Nat /\ size \in Nat /\ written \in Seq(Block)
      /\ transfers[k] = [image |-> transfers[k].image,
                         number |-> transfers[k].number]
  BY <1>1, <1>2, FotaAssumption DEF Block, FotaInv, TypeOK
<1>4. TypeOK'
  <2>1. \A l \in Running' : transfers'[l].number
                                \in {1} \cup 1 .. ImageLen[transfers'[l].image]
    BY <1>2, <1>3 DEF FotaInv, TypeOK
  <2>2. written' \in Seq(Block)
    BY <1>1, <1>2, <1>3
  <2>3. /\ state' \in FwState /\ previous' \in Image \cup {NULL}
        /\ mixed' \in BOOLEAN /\ uncleared' \in BOOLEAN
        /\ applied' \in BOOLEAN
    BY <1>1 DEF FotaInv, TypeOK, FwState
  <2>4. offset' \in Nat
    BY <1>1, <1>3
  <2>5. /\ current' \in Image /\ boot' \in Boot /\ connected' \in BOOLEAN
        /\ target' \in Image \cup {NULL} /\ size' \in Nat
    BY <1>1 DEF FotaInv, TypeOK
  <2>. QED BY <1>2, <2>1, <2>2, <2>3, <2>4, <2>5 DEF TypeOK
<1>5. FailedLeavesNothing' /\ TrialInv'
  BY <1>1 DEF FotaInv, FailedLeavesNothing, TrialInv
<1>6. ASSUME ~mixed
      PROVE  /\ \A l, m \in Running : l = m
             /\ InOrder(k)
  BY <1>1, <1>6 DEF FotaInv, SlotInv
\* The block extends what is there, if it is the one at the offset.
<1>7. ASSUME ~mixed, transfers[k].number = offset + 1
      PROVE  /\ Len(written') = offset + 1
             /\ \A n \in 1 .. offset + 1 :
                    written'[n] = [image |-> target, number |-> n]
  <2>1. /\ transfers[k] = [image |-> target, number |-> offset + 1]
        /\ Len(written) = offset
        /\ \A n \in 1 .. offset :
               written[n] = [image |-> target, number |-> n]
    BY <1>3, <1>6, <1>7 DEF InOrder
  <2>2. /\ Len(written') = offset + 1
        /\ written'[offset + 1] = transfers[k]
        /\ \A n \in 1 .. offset : written'[n] = written[n]
    BY <1>1, <1>2, <1>3, <2>1
  <2>. QED BY <1>3, <2>1, <2>2
<1>8. SlotInv'
  <2> SUFFICES ASSUME ~mixed' PROVE /\ \A l, m \in Running' : l = m
                                    /\ \A l \in Running' : InOrder(l)'
    BY DEF SlotInv
  <2>1. Running' \subseteq {k}
    BY <1>1, <1>2, <1>6
  <2>2. k \in Running' => InOrder(k)'
    BY <1>1, <1>2, <1>3, <1>6, <1>7 DEF InOrder
  <2>. QED BY <2>1, <2>2
<1>9. AppliesWholeImage'
  <2> SUFFICES ASSUME applied', ~mixed', size' = ImageLen[target']
               PROVE  Intact(target)'
    BY DEF AppliesWholeImage
  <2>1. target = transfers[k].image /\ transfers[k].number = offset + 1
    BY <1>1, <1>3, <1>6 DEF InOrder
  <2>2. ImageLen[target] = offset + 1
    BY <1>1, <1>3, <2>1
  <2>3. /\ Len(written') = ImageLen[target]
        /\ \A n \in 1 .. ImageLen[target] :
               written'[n] = [image |-> target, number |-> n]
    BY <1>1, <1>7, <2>1, <2>2
  <2>4. written' \in [1 .. ImageLen[target] -> Block]
    BY <1>4, <2>3 DEF TypeOK
  <2>5. written' = [n \in 1 .. ImageLen[target] |->
                        [image |-> target, number |-> n]]
    BY <2>3, <2>4
  <2>. QED BY <1>1, <1>3, <2>2, <2>5 DEF Intact, Whole
<1>. QED BY <1>4, <1>5, <1>8, <1>9 DEF FotaInv

LEMMA RebootKeeps == FotaInv /\ Reboot => FotaInv'
<1> SUFFICES ASSUME FotaInv, Reboot PROVE FotaInv'
  OBVIOUS
<1>1. /\ connected' = FALSE /\ state' = "DOWNLOADING" /\ target' = NULL
      /\ offset' = 0 /\ size' = 0 /\ mixed' = FALSE /\ applied' = FALSE
      /\ uncleared' = FALSE
      /\ Running' = {}
      /\ transfers' \in [Transfer -> Block \cup {NoTransfer}]
  BY RebootStops DEF Reboot
<1>2. /\ current' \in Image /\ boot' \in Boot
      /\ previous' \in Image \cup {NULL}
      /\ written' \in Seq(Block)
  <2>1. <<>> \in Seq(Block)
    OBVIOUS
  <2>2. ASSUME NEW im \in Image, SwapImages(im)
        PROVE  /\ current' \in Image /\ boot' \in Boot
               /\ previous' \in Image \cup {NULL}
               /\ written' \in Seq(Block)
    BY <2>1, <2>2 DEF SwapImages, FotaInv, TypeOK, Boot
  <2>3. CASE RevertImage
    BY <2>1, <2>3 DEF RevertImage, FotaInv, TypeOK, Boot
  <2>4. CASE KeepImage
    BY <2>1, <2>4 DEF KeepImage, FotaInv, TypeOK
  <2>. QED BY <2>2, <2>3, <2>4 DEF Reboot
<1>3. boot' = "trial" => previous' # NULL
  BY FotaAssumption
     DEF Reboot, SwapImages, RevertImage, KeepImage, FotaInv, TypeOK, TrialInv
<1>4. TypeOK'
  BY <1>1, <1>2 DEF TypeOK, FwState
<1>. QED BY <1>1, <1>3, <1>4
       DEF FotaInv, FailedLeavesNothing, TrialInv, SlotInv,
           AppliesWholeImage

-----------------------------------------------------------------------------
(* Theorems *)

LEMMA FotaStep == FotaInv /\ [Next]_vars => FotaInv'
<1> SUFFICES ASSUME FotaInv, [Next]_vars PROVE FotaInv'
  OBVIOUS
<1>1. ASSUME NEW k \in Transfer, Chunk(k) PROVE FotaInv'
  BY <1>1, ChunkMissingKeeps, ChunkRefusedKeeps, ChunkWrittenKeeps DEF Chunk
<1>2. ASSUME connected, ~applied, NEW image \in Image, NEW fw_size \in Nat,
             thingsboard_fota_on_attributes(image, fw_size)
      PROVE  FotaInv'
  BY <1>2, UpdateKeeps
<1>. QED BY <1>1, <1>2, StartClientKeeps, RebootKeeps, StutterKeeps DEF Next

LEMMA FotaStarts == Init => FotaInv
<1> SUFFICES ASSUME Init PROVE FotaInv
  OBVIOUS
<1>1. Running = {} /\ transfers \in [Transfer -> Block \cup {NoTransfer}]
  BY DEF Init, Running
<1>2. <<>> \in Seq(Block)
  OBVIOUS
<1>. QED BY <1>1, <1>2, FotaAssumption
       DEF Init, FotaInv, TypeOK, FwState, Boot, FailedLeavesNothing,
           TrialInv, SlotInv, AppliesWholeImage

LEMMA FotaInductive == Spec => []FotaInv
BY FotaStarts, FotaStep, PTL DEF Spec

\* The variables of the firmware update keep their types; a transfer never
\* asks for a block beyond its image.
THEOREM FotaTypeCorrect == Spec => []TypeOK
BY FotaInductive, PTL DEF FotaInv

\* What the device installs is the complete image it asked for, if the
\* update had the slot for itself.
THEOREM InstallsWholeImages == Spec => []AppliesWholeImage
BY FotaInductive, PTL DEF FotaInv

\* A failed download leaves nothing in the flash slot, if the DFU target
\* could be reset.
THEOREM FailureCleansUp == Spec => []FailedLeavesNothing
BY FotaInductive, PTL DEF FotaInv

\* An image on trial can be returned from.
THEOREM FallbackKept == Spec => []TrialHasFallback
<1>1. FotaInv => TrialHasFallback
  BY DEF FotaInv, TrialInv, TrialHasFallback
<1>. QED BY <1>1, FotaInductive, PTL

\* An image that has connected stays until the next one is installed.
THEOREM ConnectedImageIsKept == Spec => ConnectedImageStays
<1>1. FotaInv /\ [Next]_vars
      => [connected /\ ~applied /\ boot # "unconfirmed"
          => current' = current]_vars
  <2> SUFFICES ASSUME FotaInv, Next, connected, ~applied,
                      boot # "unconfirmed"
               PROVE  current' = current
    OBVIOUS
  <2>1. CASE start_client
    BY <2>1 DEF start_client
  <2>2. ASSUME NEW image, NEW fw_size,
               thingsboard_fota_on_attributes(image, fw_size)
        PROVE  current' = current
    BY <2>2 DEF thingsboard_fota_on_attributes, device, vars
  <2>3. ASSUME NEW k, Chunk(k) PROVE current' = current
    BY <2>3 DEF Chunk, ChunkMissing, ChunkRejected, ChunkNotWritten,
                ChunkWritten, device
  <2>4. CASE Reboot
    BY <2>4 DEF Reboot, SwapImages, RevertImage, KeepImage, FotaInv, TypeOK,
                Boot, TrialInv
  <2>. QED BY <2>1, <2>2, <2>3, <2>4 DEF Next
<1>. QED BY <1>1, FotaInductive, PTL DEF Spec, ConnectedImageStays
=============================================================================
